----------------------------- MODULE MCExecutor -----------------------------
(* Model-checking instances of Executor. *)
EXTENDS Executor

Server(s, r, w, t, a, p, n) ==
  [slots |-> s, room |-> r, window |-> w, total |-> t, app |-> a, pieces |-> p, requests |-> n]

\* What an application may do besides streaming a body to its end.
AnyApp == {"plain", "cancels", "lingers", "raises"}

\* One slot, whose connections follow each other under any application, and two
\* slots whose streams share the common window.
Mixed == {Server(1, 8, 1, 1, AnyApp, 2, 2), Server(2, 8, 1, 1, {}, 2, 2)}

\* A submit channel with room for one datagram.
Full == {Server(2, 1, 2, 2, {}, 2, 3)}
=============================================================================
