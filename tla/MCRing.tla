------------------------------- MODULE MCRing -------------------------------
(* Ring as the pool uses it: a lane's job ring and the completion ring.     *)
EXTENDS Ring, TLC

CONSTANTS loop, t1, t2, s1, s2

Threads  == {t1, t2}
TwoSlots == {s1, s2}

PoolUses == {
  [push |-> {loop}, pop |-> Threads, ask |-> {loop}, peek |-> {loop}],
  [push |-> Threads, pop |-> {loop}, ask |-> {loop}, peek |-> {}]}

Symmetry == Permutations(Threads) \cup Permutations(TwoSlots)
=============================================================================
