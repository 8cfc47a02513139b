----------------------------- MODULE MCPoolWake -----------------------------
(* PoolWake on small lanes: two threads, at most two slots.                 *)
EXTENDS PoolWake, TLC

CONSTANTS s1, s2

TwoSlots == {s1, s2}

Quiet == [registered |-> Threads, rule |-> "progress", stuck |-> <<>>, clients |-> {},
          messages |-> FALSE, stops |-> FALSE, tick |-> FALSE]

\* Both threads got their channels, one of them did, or neither.
Busy == {[Quiet EXCEPT !.registered = R, !.clients = Slots, !.messages = TRUE]
          : R \in {Threads, {1}}}
          \cup {[Quiet EXCEPT !.registered = {}, !.clients = {s}, !.messages = TRUE]
                  : s \in Slots}

\* The free-threaded lane, and stops of lanes where all or none has a channel.
Serving == {[Quiet EXCEPT !.rule = "parallel", !.clients = {s1}]}
             \cup {[Quiet EXCEPT !.registered = R, !.messages = TRUE, !.stops = TRUE]
                     : R \in {Threads, {}}}

\* The view of thread 1 may never return.
Isolated == {[Quiet EXCEPT !.clients = Slots, !.stuck = 1 :> s1, !.tick = TRUE]}

All == Serving \cup Isolated

SlotSymmetry == Permutations({s1, s2})
=============================================================================
