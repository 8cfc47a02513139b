----------------------------- MODULE MCStreams -----------------------------
(* Model-checking instances of Streams. *)
EXTENDS Streams

Server(s, t, k, a, w, z, u, n) ==
  [slots |-> s, threads |-> t, kinds |-> k, ackRoom |-> a, window |-> w, sizes |-> z,
   units |-> u, requests |-> n]

\* One connection served by two threads in turn; two connections by one
\* thread, whose pair holds one ack; the bodies that end otherwise than with
\* a terminator; and a window of several pieces, whose pair holds one ack.
Mixed ==
  {Server(1, 2, {"chunked"}, 2, 1, {1}, 2, 2), Server(2, 1, {"chunked"}, 1, 1, {1}, 1, 2),
   Server(1, 1, {"plain", "head"}, 2, 1, {1}, 2, 2),
   Server(1, 1, {"chunked"}, 1, 2, {1, 2}, 4, 1)}
=============================================================================
