---------------------------- MODULE MCSupervisor ----------------------------
(* Model-checking instances of Supervisor. *)
EXTENDS Supervisor

TwoPids == 1 .. 2

\* PID 1 of a container: two processes left behind by others are its children too.
FourPids == 1 .. 4
Strangers == {3, 4}
=============================================================================
