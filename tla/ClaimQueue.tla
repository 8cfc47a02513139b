----------------------------- MODULE ClaimQueue -----------------------------
(***************************************************************************)
(* What a ring (lightbug_http/ring.mojo) promises its users: a bounded     *)
(* queue whose producers first claim a place and then publish it, and      *)
(* whose consumers take from the front, where they wait for a claimed      *)
(* place to be published.  PoolWake's completion ring is this queue.       *)
(***************************************************************************)
EXTENDS Naturals, Sequences

CONSTANTS Procs, Values, None, Capacity

VARIABLES
  queue,   \* the places, each a value and the producer it still waits for
  got      \* the value each consumer took last

Place == [val : Values, by : Procs \cup {None}]

Init == queue = <<>> /\ got = [p \in Procs |-> None]

Claim(p, v) ==
  /\ Len(queue) < Capacity
  /\ \A i \in DOMAIN queue : queue[i].by # p
  /\ queue' = Append(queue, [val |-> v, by |-> p])
  /\ UNCHANGED got

Publish(p, i) ==
  /\ queue[i].by = p
  /\ queue' = [queue EXCEPT ![i].by = None]
  /\ UNCHANGED got

Take(p) ==
  /\ queue # <<>> /\ Head(queue).by = None
  /\ got' = [got EXCEPT ![p] = Head(queue).val]
  /\ queue' = Tail(queue)

Next == \E p \in Procs :
  \/ \E v \in Values : Claim(p, v)
  \/ \E i \in DOMAIN queue : Publish(p, i)
  \/ Take(p)

Spec == Init /\ [][Next]_<<queue, got>>
=============================================================================
