------------------------------ MODULE MCHolds ------------------------------
(* Model-checking instances of Holds. *)
EXTENDS Holds

CONSTANTS a, A, B

OneChannel == [c \in Clients |-> A]

Server(p, n, o, d) == [pooled |-> p, replay |-> n, outbox |-> o, deaths |-> d]

\* A server whose applications run on the loop, which loses a worker; one whose
\* applications run on pool threads, with more in its journal than an outbox
\* takes; and one that keeps no journal.
Mixed == {Server(FALSE, 2, 2, 1), Server(TRUE, 2, 1, 0), Server(FALSE, 0, 2, 0)}
=============================================================================
