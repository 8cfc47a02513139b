---------------------------- MODULE MCLoopSlots ----------------------------
(* LoopSlots on one slot: a connection of every kind of request, and one to *)
(* take its slot from or to lose it to.                                     *)
EXTENDS LoopSlots

CONSTANTS c1, c2

Both    == {c1, c2}
OneSlot == {1}

\* Pipelined requests, heads and bodies that take several reads, a body cut
\* by the end of a read, a request refused and one that is over the limit.
SomeScripts == [c \in Both |-> IF c = c2 THEN {<<"g">>} ELSE
  {<<"g", "g", "g">>, <<"a", "a", "g", "g">>, <<"a", "p", "d", "g">>, <<"p", "d", "p", "d">>,
   <<"g", "L", "d">>, <<"c", "g">>, <<"g", "x">>}]
=============================================================================
