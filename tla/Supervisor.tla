----------------------------- MODULE Supervisor -----------------------------
(***************************************************************************)
(* The prefork supervisor (packages/m0-http/src/multiworker.mojo): one     *)
(* process forks a worker per index, waits for them, replaces the ones     *)
(* that crash, refills every index on a reload, passes a stop on, and      *)
(* exits with a code that says what happened.                              *)
(*                                                                         *)
(* The processes run beside the supervisor, and its signal handler runs    *)
(* between any two steps of its main code.  What the handler cannot be     *)
(* told apart from running before or after is one step: the publication of *)
(* the list, and a reap up to the decision it comes to.  SIGTERM and       *)
(* SIGINT are one signal.  A PID is free again once its process is reaped, *)
(* as the kernel has it.  What a reap does to the accept-share page is in  *)
(* AcceptShare.                                                            *)
(***************************************************************************)
EXTENDS Integers, FiniteSets

CONSTANTS
  NumWorkers,    \* the workers asked for
  Pids,          \* the process ids the kernel hands out
  Adopted,       \* those of processes the supervisor did not fork and reaps
  MaxRespawns,   \* the respawn budget of one window
  RapidLimit,    \* the rapid crashes that end respawning: 5 in the code
  MaxFaults,     \* bound: crashes and refusals
  MaxReloads,    \* bound: changes the scanner reports
  MaxOrders,     \* bound: signals an operator sends
  None

ASSUME SupervisorAssumption ==
  /\ NumWorkers \in Nat \ {0} /\ RapidLimit \in Nat \ {0}
  /\ MaxRespawns \in Nat /\ MaxFaults \in Nat /\ MaxReloads \in Nat /\ MaxOrders \in Nat
  /\ IsFiniteSet(Pids) /\ Adopted \subseteq Pids
  /\ None \notin Pids /\ None \notin Nat

VARIABLES
  \* the processes
  state,           \* what each process is doing
  index,           \* the worker index it was forked into
  told,            \* the stop recorded in its copy of the supervisor's word
  sent,            \* a SIGTERM is pending for it
  \* the supervisor
  pc, at, by,      \* where its main code is, the index it forks, and for whom
  childPids,       \* child_pids: the PID holding each index
  length,          \* ... and how many entries it has: a stop may end the first forks early
  published,       \* the list its handler reads
  supSent,         \* a SIGTERM is pending for it
  stopping,        \* the stop its handler recorded
  freed,           \* _last_freed_index
  remaining,       \* the workers its loop waits for
  recent, rapid,   \* respawns inside the window, rapid_crash_count
  respawnCount, reloads,
  gaveUp, failedStopping, configRefused,
  exit,            \* the code it exited with
  \* how the world went
  polling,         \* --reload: the loop that also scans
  crashes, refusals, orders

procs == <<state, index, told, sent>>
lists == <<childPids, length, published, freed>>
counts == <<recent, rapid, respawnCount, reloads>>
verdicts == <<gaveUp, failedStopping, configRefused>>
world == <<polling, crashes, refusals, orders>>
vars == <<procs, pc, at, by, lists, supSent, stopping, remaining, counts, verdicts, exit, world>>

Indices == 0 .. NumWorkers - 1
Up == {"young", "reset", "unarmed", "serving", "draining", "adopted"}
Dead == {"clean", "stopped", "failed", "refused"}
Free == {p \in Pids : state[p] = "free"}

\* _alive_count
Alive(list) == Cardinality({i \in Indices : list[i] # None})
\* the processes a list names
Named(list) == {list[i] : i \in Indices} \ {None}
\* kill(2) of every process of a list: nothing to one that is gone
Kill(list) == sent' = [p \in Pids |-> sent[p] \/ (p \in Named(list) /\ state[p] \in Up)]

Dies(p, how) ==
  /\ state' = [state EXCEPT ![p] = how]
  /\ sent' = [sent EXCEPT ![p] = FALSE]
  /\ UNCHANGED <<index, told>>

Init ==
  /\ state = [p \in Pids |-> IF p \in Adopted THEN "adopted" ELSE "free"]
  /\ index = [p \in Pids |-> None]
  /\ told = [p \in Pids |-> FALSE] /\ sent = [p \in Pids |-> FALSE]
  /\ pc = "fork" /\ at = 0 /\ by = "start"
  /\ childPids = [i \in Indices |-> None] /\ length = 0 /\ published = childPids
  /\ freed = None /\ remaining = 0
  /\ supSent = FALSE /\ stopping = FALSE
  /\ recent = 0 /\ rapid = 0 /\ respawnCount = 0 /\ reloads = 0
  /\ gaveUp = FALSE /\ failedStopping = FALSE /\ configRefused = FALSE /\ exit = None
  /\ polling \in BOOLEAN
  /\ crashes = 0 /\ refusals = 0 /\ orders = 0

------------------------------------------------------------------------------
(* The signals.                                                            *)

\* An operator stops the supervisor, the whole process group or one worker.
Order ==
  /\ orders < MaxOrders /\ pc # "over"
  /\ orders' = orders + 1
  /\ LET workers == {p \in Pids : state[p] \in Up \ {"adopted"}} IN
     \/ /\ \E whom \in {{}, workers} : sent' = [p \in Pids |-> sent[p] \/ p \in whom]
        /\ supSent' = TRUE
     \/ /\ \E p \in workers : sent' = [sent EXCEPT ![p] = TRUE]
        /\ UNCHANGED supSent
  /\ UNCHANGED <<state, index, told, pc, at, by, lists, stopping, remaining, counts,
                 verdicts, exit, polling, crashes, refusals>>

\* The handler records the stop, then passes it to the PIDs published.
OnSignal ==
  /\ supSent /\ pc # "over"
  /\ supSent' = FALSE /\ stopping' = TRUE
  /\ Kill(published)
  /\ UNCHANGED <<state, index, told, pc, at, by, lists, remaining, counts, verdicts,
                 exit, world>>

\* Mutant: the inherited handler swallows the signal and records nothing.
Deliver_Swallows(p) ==
  /\ sent[p] /\ state[p] \in Up
  /\ \/ state[p] = "young" /\ sent' = [sent EXCEPT ![p] = FALSE] /\ UNCHANGED <<state,
                                                                                index, told>>
     \/ state[p] \in {"reset", "unarmed"} /\ Dies(p, "stopped")
     \/ /\ state[p] \in {"serving", "draining"}
        /\ state' = [state EXCEPT ![p] = "draining"] /\ sent' = [sent EXCEPT ![p] = FALSE]
        /\ UNCHANGED <<index, told>>
  /\ UNCHANGED <<pc, at, by, lists, supSent, stopping, remaining, counts, verdicts,
                 exit, world>>

\* A worker takes its signal: by the inherited handler, by the default action,
\* or by its own handler, which starts the drain.
Deliver(p) ==
  /\ sent[p] /\ state[p] \in Up
  /\ \/ /\ state[p] = "young"
        /\ told' = [told EXCEPT ![p] = TRUE] /\ sent' = [sent EXCEPT ![p] = FALSE]
        /\ UNCHANGED <<state, index>>
     \/ state[p] \in {"reset", "unarmed"} /\ Dies(p, "stopped")
     \/ /\ state[p] \in {"serving", "draining"}
        /\ state' = [state EXCEPT ![p] = "draining"] /\ sent' = [sent EXCEPT ![p] = FALSE]
        /\ UNCHANGED <<index, told>>
  /\ UNCHANGED <<pc, at, by, lists, supSent, stopping, remaining, counts, verdicts,
                 exit, world>>

------------------------------------------------------------------------------
(* A worker.                                                               *)

Alone == UNCHANGED <<pc, at, by, lists, supSent, stopping, remaining, counts, verdicts,
                     exit>>
Becomes(p, what) == state' = [state EXCEPT ![p] = what] /\ UNCHANGED <<index, told, sent>>

\* The two halves of _forget_supervisor_signals.
Reset(p) ==
  /\ state[p] = "young" /\ Becomes(p, "reset")
  /\ Alone /\ UNCHANGED world

Forget(p) ==
  /\ state[p] = "reset"
  /\ IF told[p] THEN Dies(p, "clean") ELSE Becomes(p, "unarmed")
  /\ Alone /\ UNCHANGED world

\* The application installs its own handler, then serves.
Arm(p) ==
  /\ state[p] = "unarmed" /\ Becomes(p, "serving")
  /\ Alone /\ UNCHANGED world

\* A drain ends and exit_worker leaves with 0; a process adopted may leave too.
Leave(p) ==
  /\ state[p] \in {"draining", "adopted"} /\ Dies(p, "clean")
  /\ Alone /\ UNCHANGED world

\* A non-zero exit, or a death by another signal.
Crash(p) ==
  /\ state[p] \in Up /\ crashes + refusals < MaxFaults
  /\ Dies(p, "failed")
  /\ crashes' = crashes + 1
  /\ Alone /\ UNCHANGED <<polling, refusals, orders>>

\* A configuration refused, or an image that cannot be loaded: exit 78.
Refuse(p) ==
  /\ state[p] \in {"unarmed", "serving"} /\ crashes + refusals < MaxFaults
  /\ Dies(p, "refused")
  /\ refusals' = refusals + 1
  /\ Alone /\ UNCHANGED <<polling, crashes, orders>>

------------------------------------------------------------------------------
(* Forking.                                                                *)

\* fork_all: a stop recorded ends the forking.
ForkNext ==
  /\ pc = "fork"
  /\ IF stopping \/ at = NumWorkers
       THEN pc' = "wait" /\ remaining' = Alive(childPids)
       ELSE pc' = "forking" /\ UNCHANGED remaining
  /\ UNCHANGED <<procs, at, by, lists, supSent, stopping, counts, verdicts, exit, world>>

\* fork(2): the child has a copy of all the parent has recorded.
Fork ==
  /\ pc = "forking"
  /\ \E p \in Free :
       /\ state' = [state EXCEPT ![p] = "young"] /\ index' = [index EXCEPT ![p] = at]
       /\ told' = [told EXCEPT ![p] = stopping]
       /\ childPids' = [i \in Indices |-> IF i = at THEN p ELSE childPids[i]]
  /\ length' = IF by = "start" THEN at + 1 ELSE length
  /\ pc' = IF by = "reload" THEN "refork" ELSE IF at = None THEN "wait" ELSE "publish"
  /\ UNCHANGED <<sent, at, by, published, freed, supSent, stopping, remaining, counts,
                 verdicts, exit, world>>

\* _publish_children, which reads the stop after it has published.
Publish ==
  /\ pc = "publish"
  /\ published' = childPids /\ pc' = "passOn"
  /\ UNCHANGED <<procs, at, by, childPids, length, freed, supSent, stopping, remaining, counts,
                 verdicts, exit, world>>

\* Mutants: the stop is not looked at again after the publish, so a child forked
\* as it came is in no list anybody signalled; the workers a reload brought back
\* are not counted.
PassOn_ToNobody ==
  /\ pc = "passOn"
  /\ pc' = IF by = "start" THEN "fork" ELSE "wait"
  /\ at' = IF by = "start" THEN at + 1 ELSE at
  /\ remaining' = IF by = "reload" THEN Alive(childPids) ELSE remaining
  /\ gaveUp' = (by # "reload" /\ gaveUp)
  /\ UNCHANGED <<procs, by, lists, supSent, stopping, counts, failedStopping, configRefused,
                 exit, world>>

PassOn_OldCount ==
  /\ pc = "passOn"
  /\ IF stopping THEN Kill(childPids) ELSE UNCHANGED sent
  /\ pc' = IF by = "start" THEN "fork" ELSE "wait"
  /\ at' = IF by = "start" THEN at + 1 ELSE at
  /\ gaveUp' = (by # "reload" /\ gaveUp)
  /\ UNCHANGED <<state, index, told, by, lists, supSent, stopping, remaining, counts,
                 failedStopping, configRefused, exit, world>>

PassOn ==
  /\ pc = "passOn"
  /\ IF stopping THEN Kill(childPids) ELSE UNCHANGED sent
  /\ pc' = IF by = "start" THEN "fork" ELSE "wait"
  /\ at' = IF by = "start" THEN at + 1 ELSE at
  /\ remaining' = IF by = "reload" THEN Alive(childPids) ELSE remaining
  /\ gaveUp' = (by # "reload" /\ gaveUp)
  /\ UNCHANGED <<state, index, told, by, lists, supSent, stopping, counts, failedStopping,
                 configRefused, exit, world>>

------------------------------------------------------------------------------
(* Reaping.                                                                *)

\* Mutant: the index freed first is the one remembered.
Removed_First(p) ==
  LET held == {i \in Indices : childPids[i] = p} IN
  /\ childPids' = [i \in Indices |-> IF i \in held THEN None ELSE childPids[i]]
  /\ published' = IF held = {} THEN published ELSE childPids'
  /\ freed' = IF held = {} \/ freed # None THEN freed ELSE CHOOSE i \in held : TRUE
  /\ UNCHANGED length

\* waitpid, then _remove_pid: a PID of no worker vacates nothing.
Removed(p) ==
  LET held == {i \in Indices : childPids[i] = p} IN
  /\ childPids' = [i \in Indices |-> IF i \in held THEN None ELSE childPids[i]]
  /\ published' = IF held = {} THEN published ELSE childPids'
  /\ freed' = IF held = {} THEN freed ELSE CHOOSE i \in held : TRUE
  /\ UNCHANGED length

Buried(p) ==
  /\ state' = [state EXCEPT ![p] = "free"]
  /\ index' = [index EXCEPT ![p] = None] /\ told' = [told EXCEPT ![p] = FALSE]

Reaps(p, how) == pc = "wait" /\ remaining > 0 /\ state[p] = how /\ Removed(p) /\ Buried(p)

Retired == pc' = "wait" /\ remaining' = remaining - 1

ReapClean(p) ==
  /\ Reaps(p, "clean") /\ Retired
  /\ UNCHANGED <<sent, at, by, supSent, stopping, counts, verdicts, exit, world>>

\* A stop that reached a worker before it armed: passed on to the rest.
ReapStopped(p) ==
  /\ Reaps(p, "stopped") /\ Kill(childPids') /\ pc' = "rest"
  /\ UNCHANGED <<at, by, supSent, stopping, remaining, counts, verdicts, exit, world>>

\* A refusal is not served by the rest.
ReapRefused(p) ==
  /\ Reaps(p, "refused") /\ Kill(childPids') /\ pc' = "rest"
  /\ configRefused' = TRUE
  /\ UNCHANGED <<at, by, supSent, stopping, remaining, counts, gaveUp, failedStopping,
                 exit, world>>

\* _try_respawn once a stop is recorded: nobody is replaced.
ReapStopping(p) ==
  /\ Reaps(p, "failed") /\ stopping /\ Retired
  /\ failedStopping' = TRUE
  /\ UNCHANGED <<sent, at, by, supSent, stopping, counts, gaveUp, configRefused, exit,
                 world>>

\* _give_up: of the respawns remembered some have left the window, and the
\* budget is spent, or the death was rapid and one too many.
ReapGivesUp(p) ==
  /\ Reaps(p, "failed") /\ ~stopping /\ Retired
  /\ \E kept \in 0 .. recent :
       /\ recent' = kept
       /\ \/ kept >= MaxRespawns /\ rapid' = rapid
          \/ kept < MaxRespawns /\ rapid + 1 >= RapidLimit /\ rapid' = rapid + 1
  /\ gaveUp' = TRUE
  /\ UNCHANGED <<sent, at, by, supSent, stopping, respawnCount, reloads, failedStopping,
                 configRefused, exit, world>>

\* _try_respawn goes on to fork into the index just freed.
ReapRespawns(p) ==
  /\ Reaps(p, "failed") /\ ~stopping
  /\ \E kept \in 0 .. recent : kept < MaxRespawns /\ recent' = kept + 1
  /\ \/ rapid' = 0
     \/ rapid + 1 < RapidLimit /\ rapid' = rapid + 1
  /\ respawnCount' = respawnCount + 1
  /\ pc' = "forking" /\ at' = freed' /\ by' = "respawn"
  /\ UNCHANGED <<sent, supSent, stopping, remaining, reloads, verdicts, exit, world>>

\* _reap_the_rest, judging each (_judge_stopped).
ReapRest(p) ==
  /\ pc = "rest" /\ Alive(childPids) > 0
  /\ state[p] \in Dead /\ Removed(p) /\ Buried(p)
  /\ failedStopping' = (failedStopping \/ state[p] = "failed")
  /\ configRefused' = (configRefused \/ state[p] = "refused")
  /\ UNCHANGED <<sent, pc, at, by, supSent, stopping, remaining, counts, gaveUp, exit,
                 world>>

\* Supervision is over: the exit code (fork_all).
Over ==
  /\ \/ pc = "wait" /\ remaining = 0
     \/ pc = "rest" /\ Alive(childPids) = 0
  /\ pc' = "over"
  /\ exit' = IF configRefused THEN 78 ELSE IF gaveUp \/ failedStopping THEN 1 ELSE 0
  /\ UNCHANGED <<procs, at, by, lists, supSent, stopping, remaining, counts, verdicts,
                 world>>

------------------------------------------------------------------------------
(* _reload.                                                                *)

\* The scanner reports a change: the workers are told to drain.
Reload ==
  /\ pc = "wait" /\ polling /\ remaining > 0 /\ reloads < MaxReloads
  /\ Kill(childPids) /\ reloads' = reloads + 1 /\ pc' = "drain"
  /\ UNCHANGED <<state, index, told, at, by, lists, supSent, stopping, remaining,
                 recent, rapid,
                 respawnCount, verdicts, exit, world>>

\* One reaped in the drain: its exit is a reload, and is not judged.
ReapDrained(p) ==
  /\ pc \in {"drain", "forced"} /\ Alive(childPids) > 0
  /\ state[p] \in Dead /\ Removed(p) /\ Buried(p)
  /\ UNCHANGED <<sent, pc, at, by, supSent, stopping, remaining, counts, verdicts,
                 exit, world>>

\* The deadline passes with some still up: SIGKILL, which nothing survives.
KillLate ==
  /\ pc = "drain" /\ Alive(childPids) > 0
  /\ pc' = "forced"
  /\ LET shot == {p \in Named(childPids) : state[p] \in Up} IN
       /\ state' = [p \in Pids |-> IF p \in shot THEN "failed" ELSE state[p]]
       /\ sent' = [p \in Pids |-> p \notin shot /\ sent[p]]
  /\ UNCHANGED <<index, told, at, by, lists, supSent, stopping, remaining, counts,
                 verdicts, exit, world>>

\* Every vacant index of the list is forked again, whatever has been recorded; one
\* that the first forks did not get to is not of the list.
Refork ==
  LET vacant == {i \in Indices : i < length /\ childPids[i] = None} IN
  /\ \/ pc \in {"drain", "forced"} /\ Alive(childPids) = 0
     \/ pc = "refork"
  /\ by' = "reload"
  /\ \/ \E i \in vacant : (\A j \in vacant : i <= j) /\ at' = i /\ pc' = "forking"
     \/ vacant = {} /\ pc' = "publish" /\ UNCHANGED at
  /\ UNCHANGED <<procs, lists, supSent, stopping, remaining, counts, verdicts, exit, world>>

------------------------------------------------------------------------------

WorkerStep(p) == Reset(p) \/ Forget(p) \/ Arm(p) \/ Leave(p)

Reap(p) ==
  \/ ReapClean(p) \/ ReapStopped(p) \/ ReapRefused(p) \/ ReapStopping(p)
  \/ ReapGivesUp(p) \/ ReapRespawns(p) \/ ReapRest(p) \/ ReapDrained(p)

SupStep ==
  \/ ForkNext \/ Fork \/ Publish \/ PassOn \/ Over \/ KillLate \/ Refork
  \/ \E p \in Pids : Reap(p)

Next ==
  \/ Order \/ OnSignal \/ SupStep \/ Reload
  \/ \E p \in Pids : WorkerStep(p) \/ Deliver(p) \/ Crash(p) \/ Refuse(p)

Spec == Init /\ [][Next]_vars

(* The scheduler runs every process, a signal sent is delivered, and a     *)
(* drain ends: the worker has a deadline of its own.  Nothing must crash,  *)
(* refuse, be told to stop or be edited.  The supervisor's drain of a      *)
(* reload ends by its deadline if by nothing else.                         *)
FairSpec ==
  /\ Spec /\ WF_vars(OnSignal) /\ WF_vars(SupStep)
  /\ \A p \in Pids : WF_vars(WorkerStep(p)) /\ WF_vars(Deliver(p))

------------------------------------------------------------------------------
(* Properties.                                                             *)

\* Every variable keeps its kind (the fields of WorkerSupervisor and of a child).
TypeOK ==
  /\ state \in [Pids -> Up \cup Dead \cup {"free"}]
  /\ index \in [Pids -> Indices \cup {None}]
  /\ told \in [Pids -> BOOLEAN] /\ sent \in [Pids -> BOOLEAN]
  /\ pc \in {"fork", "forking", "publish", "passOn", "wait", "rest", "drain", "forced",
             "refork", "over"}
  /\ at \in 0 .. NumWorkers \cup {None} /\ by \in {"start", "respawn", "reload"}
  /\ childPids \in [Indices -> Pids \cup {None}] /\ published \in [Indices -> Pids \cup {None}]
  /\ supSent \in BOOLEAN /\ stopping \in BOOLEAN
  /\ length \in 0 .. NumWorkers /\ freed \in Indices \cup {None} /\ remaining \in Nat
  /\ recent \in Nat /\ rapid \in Nat /\ respawnCount \in Nat /\ reloads \in Nat
  /\ gaveUp \in BOOLEAN /\ failedStopping \in BOOLEAN /\ configRefused \in BOOLEAN
  /\ exit \in {None, 0, 1, 78}
  /\ polling \in BOOLEAN /\ crashes \in Nat /\ refusals \in Nat /\ orders \in Nat

\* The parent "supervises until all children are gone, then exits" (fork_all):
\* no worker it forked outlives it, the one a reload brought back included.
NoOrphan ==
  pc = "over" => \A p \in Pids : state[p] \notin Up \ {"adopted"}

\* A worker that runs holds the index it was forked into, alone, and the list
\* the supervisor kills from names it: no respawn takes an index that is held.
OneHolder ==
  \A p \in Pids : state[p] \in Up \ {"adopted"} =>
    index[p] \in Indices /\ childPids[index[p]] = p

\* Once a stop is recorded and the supervisor waits again, no worker is left
\* that was not told: by a signal, or by the record it was forked with
\* (_on_supervisor_signal, _publish_children, _forget_supervisor_signals).
EveryoneTold ==
  stopping /\ pc \in {"wait", "rest"} =>
    \A p \in Pids : state[p] \in Up \ {"adopted"} => sent[p] \/ told[p] \/ state[p] = "draining"

\* Without --reload the exit code is the truth: 78 if some worker refused its
\* configuration, else 1 if some failure was not made good, else 0 (fork_all).
ExitTells ==
  pc = "over" /\ ~polling =>
    exit = IF refusals > 0 THEN 78 ELSE IF crashes > respawnCount THEN 1 ELSE 0

\* fork_all returns when it should, and with what it should.
GoodEnd == NoOrphan /\ ExitTells

\* A stop recorded ends the server, wherever its forking, respawning or
\* reloading had got to (_on_supervisor_signal to fork_all's exit).
StopEnds == stopping ~> (pc = "over")
==============================================================================
