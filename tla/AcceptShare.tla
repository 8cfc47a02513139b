----------------------------- MODULE AcceptShare -----------------------------
(***************************************************************************)
(* Sharing a listener's accepts between prefork workers                    *)
(* (lightbug_http/accept_share.mojo), with the parts of the event loop     *)
(* that call it (loop/accept.mojo, loop/shutdown.mojo, event_loop.mojo)    *)
(* and of the supervisor that reaps, replaces and gives up on workers      *)
(* (src/multiworker.mojo).                                                 *)
(*                                                                         *)
(* Processes share a page of words, one line per worker, and one datagram  *)
(* channel per worker index that carries accepted connections.  One step   *)
(* is one access to a shared word or to a channel, with the local work up  *)
(* to the next such access.  A process may die between any two steps.      *)
(***************************************************************************)
EXTENDS Integers, Sequences, FiniteSets

CONSTANTS
  Workers,       \* the worker indices
  Conns,         \* the connections clients open
  None,          \* no connection, no worker
  ChannelCap,    \* datagrams a channel holds before a send fails
  MaxDeaths,     \* bound: times a worker of each index is killed
  MaxRespawns,   \* the supervisor's respawn budget (max_respawns)
  MaxReloads,    \* bound: reloads in a behaviour
  Stoppable,     \* the workers someone may send a SIGTERM of their own
  Budgets        \* when a drain's time budget may run out: "never", "stuck", "any"

ASSUME ConstantsAssumption ==
  /\ IsFiniteSet(Workers)
  /\ None \notin Workers /\ None \notin Conns
  /\ ChannelCap \in Nat \ {0}
  /\ MaxDeaths \in Nat /\ MaxRespawns \in Nat /\ MaxReloads \in Nat
  /\ Stoppable \subseteq Workers
  /\ Budgets \in {"never", "stuck", "any"}

VARIABLES
  state, active, pending, taken,   \* the shared page, one line per worker
  chan,                            \* the datagrams queued on each channel
  backlog,                         \* connections the kernel holds for accept
  pc, phase,                       \* where each worker process is
  hand, target,                    \* the connection in hand, where it goes
  drained, took,                   \* AcceptShare.drained; start's local
  held,                            \* connections each worker has admitted
  term,                            \* a SIGTERM the worker has not acted on
  proc,                            \* each index as the kernel and supervisor see it
  expired,                         \* a time budget ended this index's drain
  supPc, supWorker, supReceived, supTook,   \* the supervisor
  stopping, respawns, reloads,
  done,                            \* connections answered or closed
  moves, deaths                    \* history: hand-offs made, processes killed

page     == <<state, active, pending, taken>>
locals   == <<pc, phase, hand, target, drained, took, held>>
kernel   == <<chan, backlog, done>>
supLocal == <<supPc, supWorker, supReceived, supTook, stopping, respawns, reloads>>
procs    == <<term, proc, expired>>
history  == <<moves, deaths>>
vars     == <<page, locals, kernel, supLocal, procs, history>>

(***************************************************************************)
(* The values of the state word.  A pass's start time is "pass": whether   *)
(* it is over ACCEPT_SHARE_BUSY_NS old is the scan's free choice.          *)
(***************************************************************************)
PageStates == {"not_started", "parked", "pass", "left"}
Starting   == {"forked", "bound", "startTake", "startRetire"}
Raised     == {"recheck", "post", "takeback"}
Running    == {"wait", "accept", "raise", "handoffs", "publish", "route",
               "endTake", "endRetire", "leave", "drain"} \cup Raised
Phases     == {"run", "stop", "begin", "drain", "finish"}
Dead       == {"exited", "declined", "stopped", "killed"}   \* not yet reaped
Vacant     == {"retired", "givenup", "lost"}                \* reaped, not replaced
SupPcs     == {"wait", "decide", "drain", "retireTake", "retire",
               "reload", "ending", "over"}

Left(w)    == phase[w] \in {"begin", "drain", "finish"}     \* AcceptShare.left
Load(w)    == active[w] + pending[w]
Kept(w)    == IF hand[w] = None THEN {} ELSE {hand[w]}

-----------------------------------------------------------------------------
(* Choosing a target: _least_loaded, pick and pick_for_leaver.             *)

Willing(w) == {t \in Workers \ {w} : state[t] \notin {"left", "not_started"}}
Lightest(S) == {t \in S : \A u \in S : Load(t) <= Load(u)}

\* The scan refuses those in a pass too long, for some set of them.
Scans(w) == {Willing(w) \ busy : busy \in SUBSET {t \in Willing(w) : state[t] = "pass"}}

Picks(w) ==
  LET own == Cardinality(held[w]) + pending[w]
  IN  UNION {LET lighter == {t \in S : Load(t) < own}
             IN  IF lighter = {} THEN {w} ELSE Lightest(lighter) : S \in Scans(w)}

PicksForLeaver(w) ==
  IF Willing(w) = {} THEN {w}
  ELSE UNION {Lightest(IF S = {} THEN Willing(w) ELSE S) : S \in Scans(w)}

-----------------------------------------------------------------------------
(* A worker's start: bind, then start().                                   *)

Go(w, from, to) == pc[w] = from /\ pc' = [pc EXCEPT ![w] = to]

Bind(w) ==
  /\ Go(w, "forked", "bound")
  /\ state' = [state EXCEPT ![w] = "not_started"]
  /\ UNCHANGED <<active, pending, taken, phase, hand, target, drained, took, held,
                 kernel, supLocal, procs, history>>

StartPark(w) ==
  /\ Go(w, "bound", "startTake")
  /\ state' = [state EXCEPT ![w] = "parked"]
  /\ active' = [active EXCEPT ![w] = 0]
  /\ UNCHANGED <<pending, taken, phase, hand, target, drained, took, held,
                 kernel, supLocal, procs, history>>

\* The predecessor's `taken` is zeroed first: a death here leaves pending high.
StartTake(w) ==
  /\ Go(w, "startTake", "startRetire")
  /\ took' = [took EXCEPT ![w] = taken[w]]
  /\ taken' = [taken EXCEPT ![w] = 0]
  /\ UNCHANGED <<state, active, pending, phase, hand, target, drained, held,
                 kernel, supLocal, procs, history>>

StartRetire(w) ==
  /\ Go(w, "startRetire", "wait")
  /\ pending' = [pending EXCEPT ![w] = @ - took[w]]
  /\ took' = [took EXCEPT ![w] = 0]
  /\ UNCHANGED <<state, active, taken, phase, hand, target, drained, held,
                 kernel, supLocal, procs, history>>

-----------------------------------------------------------------------------
(* A pass: the events of the connections held, one batch per door, then    *)
(* pass_end.  The pass that reads the stop admits nothing.                 *)

\* Connections whose exchange ends in this pass.
Ends(w, S) ==
  /\ held' = [held EXCEPT ![w] = @ \ S]
  /\ done' = done \cup S

PassBegin(w, S) ==
  /\ Go(w, "wait", IF term[w] THEN "endTake" ELSE "accept")
  /\ S \subseteq held[w] /\ Ends(w, S)
  /\ state' = [state EXCEPT ![w] = "pass"]
  /\ phase' = [phase EXCEPT ![w] = IF term[w] THEN "stop" ELSE "run"]
  /\ UNCHANGED <<active, pending, taken, hand, target, drained, took,
                 chan, backlog, supLocal, procs, history>>

\* _accept_batch: an accepted connection is picked for, and kept or sent.
Accept(w, c, t) ==
  /\ c \in backlog /\ t \in Picks(w)
  /\ Go(w, "accept", IF t = w THEN "accept" ELSE "raise")
  /\ backlog' = backlog \ {c}
  /\ IF t = w
     THEN held' = [held EXCEPT ![w] = @ \cup {c}] /\ UNCHANGED <<hand, target>>
     ELSE /\ hand' = [hand EXCEPT ![w] = c]
          /\ target' = [target EXCEPT ![w] = t]
          /\ UNCHANGED held
  /\ UNCHANGED <<page, chan, done, phase, drained, took, supLocal, procs, history>>

AcceptDone(w) ==
  /\ backlog = {}
  /\ Go(w, "accept", "handoffs")
  /\ UNCHANGED <<page, phase, hand, target, drained, took, held,
                 kernel, supLocal, procs, history>>

-----------------------------------------------------------------------------
(* send_with: raise, read the state again, post; or take the count back    *)
(* and keep the connection.                                                *)

Resume(w) == IF Left(w) THEN "handoffs" ELSE "accept"

SendRaise(w) ==
  /\ Go(w, "raise", "recheck")
  /\ pending' = [pending EXCEPT ![target[w]] = @ + 1]
  /\ UNCHANGED <<state, active, taken, phase, hand, target, drained, took, held,
                 kernel, supLocal, procs, history>>

\* Mutant: the target's state is not read again after the raise.
SendRecheck_NoReread(w) ==
  /\ Go(w, "recheck", "post")
  /\ UNCHANGED <<page, phase, hand, target, drained, took, held,
                 kernel, supLocal, procs, history>>

SendRecheck(w) ==
  /\ Go(w, "recheck", IF state[target[w]] = "left" THEN "takeback" ELSE "post")
  /\ UNCHANGED <<page, phase, hand, target, drained, took, held,
                 kernel, supLocal, procs, history>>

SendPost(w) ==
  /\ Go(w, "post", Resume(w))
  /\ Len(chan[target[w]]) < ChannelCap
  /\ chan' = [chan EXCEPT ![target[w]] = Append(@, hand[w])]
  /\ moves' = [moves EXCEPT ![hand[w]] = @ + 1]
  /\ hand' = [hand EXCEPT ![w] = None]
  /\ target' = [target EXCEPT ![w] = None]
  /\ UNCHANGED <<page, phase, drained, took, held, backlog, done,
                 supLocal, procs, deaths>>

SendFails(w) ==
  /\ Go(w, "post", "takeback")
  /\ UNCHANGED <<page, phase, hand, target, drained, took, held,
                 kernel, supLocal, procs, history>>

\* Mutant: a send that fails leaves its count raised.
SendTakeBack_CountStays(w) ==
  /\ Go(w, "takeback", Resume(w))
  /\ held' = [held EXCEPT ![w] = @ \cup {hand[w]}]
  /\ hand' = [hand EXCEPT ![w] = None]
  /\ target' = [target EXCEPT ![w] = None]
  /\ UNCHANGED <<page, phase, drained, took, kernel, supLocal, procs, history>>

\* Mutant: a send that fails closes the connection's descriptor.
SendTakeBack_Drops(w) ==
  /\ Go(w, "takeback", Resume(w))
  /\ pending' = [pending EXCEPT ![target[w]] = @ - 1]
  /\ hand' = [hand EXCEPT ![w] = None]
  /\ target' = [target EXCEPT ![w] = None]
  /\ UNCHANGED <<state, active, taken, phase, drained, took, held,
                 kernel, supLocal, procs, history>>

\* The send returned False: its caller admits the connection.
SendTakeBack(w) ==
  /\ Go(w, "takeback", Resume(w))
  /\ pending' = [pending EXCEPT ![target[w]] = @ - 1]
  /\ held' = [held EXCEPT ![w] = @ \cup {hand[w]}]
  /\ hand' = [hand EXCEPT ![w] = None]
  /\ target' = [target EXCEPT ![w] = None]
  /\ UNCHANGED <<state, active, taken, phase, drained, took,
                 kernel, supLocal, procs, history>>

-----------------------------------------------------------------------------
(* _admit_handoffs: receive, publish `taken`, then admit or pass on.       *)

\* Mutant: a hand-off with no descriptor is not counted as taken.
Receive_RefusedUncounted(w) ==
  /\ chan[w] # <<>>
  /\ Go(w, "handoffs", "publish")
  /\ chan' = [chan EXCEPT ![w] = Tail(@)]
  /\ \/ /\ hand' = [hand EXCEPT ![w] = Head(chan[w])]
        /\ drained' = [drained EXCEPT ![w] = @ + 1] /\ UNCHANGED done
     \/ done' = done \cup {Head(chan[w])} /\ UNCHANGED <<hand, drained>>
  /\ UNCHANGED <<page, phase, target, took, held, backlog, supLocal, procs, history>>

\* A datagram whose descriptor could not be installed is the second case.
Receive(w) ==
  /\ chan[w] # <<>>
  /\ Go(w, "handoffs", "publish")
  /\ chan' = [chan EXCEPT ![w] = Tail(@)]
  /\ drained' = [drained EXCEPT ![w] = @ + 1]
  /\ \/ hand' = [hand EXCEPT ![w] = Head(chan[w])] /\ UNCHANGED done
     \/ done' = done \cup {Head(chan[w])} /\ UNCHANGED hand
  /\ UNCHANGED <<page, phase, target, took, held, backlog, supLocal, procs, history>>

Publish(w) ==
  LET passOn == hand[w] # None /\ Left(w)
  IN  /\ Go(w, "publish", IF passOn THEN "route" ELSE "handoffs")
      /\ taken' = [taken EXCEPT ![w] = drained[w]]
      /\ IF passOn THEN UNCHANGED <<hand, held>>
         ELSE /\ held' = [held EXCEPT ![w] = @ \cup Kept(w)]
              /\ hand' = [hand EXCEPT ![w] = None]
      /\ UNCHANGED <<state, active, pending, phase, target, drained, took,
                     kernel, supLocal, procs, history>>

\* forward: to a sibling that has not left, admitted here when there is none.
Route(w, t) ==
  /\ t \in PicksForLeaver(w)
  /\ Go(w, "route", IF t = w THEN "handoffs" ELSE "raise")
  /\ IF t = w
     THEN /\ held' = [held EXCEPT ![w] = @ \cup {hand[w]}]
          /\ hand' = [hand EXCEPT ![w] = None]
          /\ UNCHANGED target
     ELSE target' = [target EXCEPT ![w] = t] /\ UNCHANGED <<hand, held>>
  /\ UNCHANGED <<page, phase, drained, took, kernel, supLocal, procs, history>>

\* The channel is empty.  As the shutdown begins, the drain comes next, and
\* the connections between requests (some of those held) are closed.
HandoffsDone(w, S) ==
  /\ chan[w] = <<>>
  /\ Go(w, "handoffs", IF phase[w] = "begin" THEN "drain" ELSE "endTake")
  /\ S \subseteq held[w] /\ (phase[w] # "begin" => S = {}) /\ Ends(w, S)
  /\ phase' = [phase EXCEPT ![w] = IF @ = "begin" THEN "drain" ELSE @]
  /\ UNCHANGED <<page, hand, target, drained, took, chan, backlog,
                 supLocal, procs, history>>

-----------------------------------------------------------------------------
(* pass_end: active, then taken, then pending, then park.                  *)

\* Mutant: what was received is retired without zeroing `taken` first.
EndTake_KeepsTaken(w) ==
  /\ Go(w, "endTake", "endRetire")
  /\ active' = [active EXCEPT ![w] = Cardinality(held[w])]
  /\ UNCHANGED <<state, pending, taken, phase, hand, target, drained, took, held,
                 kernel, supLocal, procs, history>>

EndTake(w) ==
  /\ Go(w, "endTake", "endRetire")
  /\ active' = [active EXCEPT ![w] = Cardinality(held[w])]
  /\ taken' = [taken EXCEPT ![w] = IF drained[w] > 0 THEN 0 ELSE @]
  /\ UNCHANGED <<state, pending, phase, hand, target, drained, took, held,
                 kernel, supLocal, procs, history>>

Floor(n) == IF n < 0 THEN 0 ELSE n

\* Mutant: a pass of the drain parks the worker again.
EndRetire_Parks(w) ==
  /\ phase[w] # "finish"
  /\ Go(w, "endRetire", CASE phase[w] = "run"   -> "wait"
                          [] phase[w] = "stop"  -> "leave"
                          [] phase[w] = "drain" -> "drain")
  /\ pending' = [pending EXCEPT ![w] = IF drained[w] > 0 THEN Floor(@ - drained[w]) ELSE @]
  /\ drained' = [drained EXCEPT ![w] = 0]
  /\ state' = [state EXCEPT ![w] = "parked"]
  /\ UNCHANGED <<active, taken, phase, hand, target, took, held,
                 kernel, supLocal, procs, history>>

EndRetire(w) ==
  /\ phase[w] # "finish"
  /\ Go(w, "endRetire", CASE phase[w] = "run"   -> "wait"
                          [] phase[w] = "stop"  -> "leave"
                          [] phase[w] = "drain" -> "drain")
  /\ pending' = [pending EXCEPT ![w] = IF drained[w] > 0 THEN Floor(@ - drained[w]) ELSE @]
  /\ drained' = [drained EXCEPT ![w] = 0]
  /\ state' = [state EXCEPT ![w] = IF Left(w) THEN @ ELSE "parked"]
  /\ UNCHANGED <<active, taken, phase, hand, target, took, held,
                 kernel, supLocal, procs, history>>

-----------------------------------------------------------------------------
(* The shutdown: leave, the drain, and the exit.                           *)

Leave(w) ==
  /\ Go(w, "leave", "handoffs")
  /\ phase' = [phase EXCEPT ![w] = "begin"]
  /\ state' = [state EXCEPT ![w] = "left"]
  /\ UNCHANGED <<active, pending, taken, hand, target, drained, took, held,
                 kernel, supLocal, procs, history>>

AwaitingHandoffs(w) == Left(w) /\ pending[w] - drained[w] > 0

\* Budgets = "stuck": the budgets (5 s, 250 ms) outlast any live sender's
\* send, so one is spent only on a count that no live process will settle.
BudgetSpent(w) ==
  \/ Budgets = "any"
  \/ /\ Budgets = "stuck" /\ held[w] = {} /\ chan[w] = <<>>
     /\ \A s \in Workers : ~(pc[s] \in Raised /\ target[s] = w)

DrainOver(w) ==
  /\ held[w] = {} /\ ~AwaitingHandoffs(w)
  /\ Go(w, "drain", "endTake")
  /\ phase' = [phase EXCEPT ![w] = "finish"]
  /\ UNCHANGED <<page, hand, target, drained, took, held,
                 kernel, supLocal, procs, history>>

DrainExpires(w) ==
  /\ held[w] # {} \/ AwaitingHandoffs(w)
  /\ BudgetSpent(w)
  /\ Go(w, "drain", "endTake")
  /\ phase' = [phase EXCEPT ![w] = "finish"]
  /\ expired' = [expired EXCEPT ![w] = TRUE]
  /\ UNCHANGED <<page, hand, target, drained, took, held,
                 kernel, supLocal, term, proc, history>>

\* Mutant: a pass of the drain marks the worker inside a pass.
DrainPass_Marks(w, S) ==
  /\ held[w] # {} \/ AwaitingHandoffs(w)
  /\ Go(w, "drain", "handoffs")
  /\ S \subseteq held[w] /\ Ends(w, S)
  /\ state' = [state EXCEPT ![w] = "pass"]
  /\ UNCHANGED <<active, pending, taken, phase, hand, target, drained, took, chan,
                 backlog, supLocal, procs, history>>

DrainPass(w, S) ==
  /\ held[w] # {} \/ AwaitingHandoffs(w)
  /\ Go(w, "drain", "handoffs")
  /\ S \subseteq held[w] /\ Ends(w, S)
  /\ UNCHANGED <<page, phase, hand, target, drained, took, chan, backlog,
                 supLocal, procs, history>>

-----------------------------------------------------------------------------
(* How a process ends.  Its descriptors close with it; its words stay.     *)

ProcessEnds(w, how) ==
  /\ proc' = [proc EXCEPT ![w] = how]
  /\ pc' = [pc EXCEPT ![w] = "off"]
  /\ phase' = [phase EXCEPT ![w] = "run"]
  /\ done' = done \cup held[w] \cup Kept(w)
  /\ held' = [held EXCEPT ![w] = {}]
  /\ hand' = [hand EXCEPT ![w] = None]
  /\ target' = [target EXCEPT ![w] = None]
  /\ drained' = [drained EXCEPT ![w] = 0]
  /\ took' = [took EXCEPT ![w] = 0]
  /\ term' = [term EXCEPT ![w] = FALSE]
  /\ UNCHANGED <<chan, backlog, supLocal, expired, moves>>

\* _shutdown_finish's pass_end, then exit_worker.
Exit(w) ==
  /\ pc[w] = "endRetire" /\ phase[w] = "finish"
  /\ pending' = [pending EXCEPT ![w] = IF drained[w] > 0 THEN Floor(@ - drained[w]) ELSE @]
  /\ ProcessEnds(w, "exited")
  /\ UNCHANGED <<state, active, taken, deaths>>

\* _forget_supervisor_signals: told to stop before the reset, it exits 0.
Declines(w) ==
  /\ pc[w] = "forked" /\ term[w]
  /\ ProcessEnds(w, "declined")
  /\ UNCHANGED <<page, deaths>>

\* SIGTERM's default action, until the worker arms its handler.
StoppedUnarmed(w) ==
  /\ pc[w] \in {"forked", "bound"} /\ term[w]
  /\ ProcessEnds(w, "stopped")
  /\ UNCHANGED <<page, deaths>>

\* Exit 78, which ends supervision as a SIGTERM death does.
RefusesConfig(w) ==
  /\ pc[w] = "bound"
  /\ ProcessEnds(w, "stopped")
  /\ UNCHANGED <<page, deaths>>

Killed(w) ==
  /\ proc[w] = "up" /\ deaths[w] < MaxDeaths
  /\ ProcessEnds(w, "killed")
  /\ deaths' = [deaths EXCEPT ![w] = @ + 1]
  /\ UNCHANGED page

-----------------------------------------------------------------------------
(* Stops from outside.                                                     *)

\* Mutant: a child whose start is not over is missed by the signal.
Signalled_Published(S) ==
  term' = [w \in Workers |-> term[w] \/ (w \in S /\ pc[w] \in Running)]

Signalled(S) == term' = [w \in Workers |-> term[w] \/ (w \in S /\ proc[w] = "up")]

StopServer ==
  /\ ~stopping /\ supPc # "over"
  /\ stopping' = TRUE
  /\ Signalled(Workers)
  /\ UNCHANGED <<page, locals, kernel, supPc, supWorker, supReceived, supTook,
                 respawns, reloads, proc, expired, history>>

StopOne(w) ==
  /\ w \in Stoppable /\ proc[w] = "up" /\ ~term[w]
  /\ Signalled({w})
  /\ UNCHANGED <<page, locals, kernel, supLocal, proc, expired, history>>

-----------------------------------------------------------------------------
(* The supervisor: one process, so one reap, fork or drain at a time.      *)

\* _remove_pid marks the index left, whatever follows.
Reap(w) ==
  LET clean == proc[w] = "exited"
  IN  /\ supPc \in {"wait", "reload", "ending"} /\ proc[w] \in Dead
      /\ state' = [state EXCEPT ![w] = "left"]
      /\ proc' = [proc EXCEPT ![w] = IF clean THEN "retired" ELSE "lost"]
      /\ CASE supPc = "wait" /\ proc[w] = "killed" ->
                /\ supPc' = "decide" /\ supWorker' = w /\ UNCHANGED term
           [] supPc = "wait" /\ proc[w] = "stopped" ->
                /\ supPc' = "ending" /\ Signalled(Workers) /\ UNCHANGED supWorker
           [] OTHER -> UNCHANGED <<supPc, supWorker, term>>
      /\ UNCHANGED <<active, pending, taken, locals, kernel, supReceived, supTook,
                     stopping, respawns, reloads, expired, history>>

\* Fork a replacement into each index of S; a stop already recorded is
\* passed on as the PID is published (_publish_children).
Fork(S) ==
  /\ pc' = [w \in Workers |-> IF w \in S THEN "forked" ELSE pc[w]]
  /\ proc' = [w \in Workers |-> IF w \in S THEN "up" ELSE proc[w]]
  /\ term' = [w \in Workers |-> IF w \in S THEN stopping ELSE term[w]]
  /\ expired' = [w \in Workers |-> IF w \in S THEN FALSE ELSE expired[w]]

\* _try_respawn: stopping, a replacement, or _give_up.
DeclineRespawn ==
  /\ supPc = "decide" /\ stopping
  /\ supPc' = "wait" /\ supWorker' = None
  /\ UNCHANGED <<page, locals, kernel, supReceived, supTook, stopping,
                 respawns, reloads, procs, history>>

Respawn ==
  /\ supPc = "decide" /\ ~stopping /\ respawns < MaxRespawns
  /\ supPc' = "wait" /\ supWorker' = None /\ respawns' = respawns + 1
  /\ Fork({supWorker})
  /\ UNCHANGED <<page, phase, hand, target, drained, took, held, kernel,
                 supReceived, supTook, stopping, reloads, history>>

\* Mutant: the index is given up on and its channel left as it is.
GiveUp_LeavesChannel ==
  /\ supPc = "decide" /\ ~stopping /\ respawns = MaxRespawns
  /\ supPc' = "wait" /\ supWorker' = None
  /\ UNCHANGED <<page, locals, kernel, supReceived, supTook, stopping,
                 respawns, reloads, procs, history>>

GiveUp ==
  /\ supPc = "decide" /\ ~stopping /\ respawns = MaxRespawns
  /\ supPc' = "drain"
  /\ UNCHANGED <<page, locals, kernel, supWorker, supReceived, supTook, stopping,
                 respawns, reloads, procs, history>>

\* close_reaped_handoffs: take and close, until nothing more is counted.
CloseReaped ==
  /\ supPc = "drain" /\ chan[supWorker] # <<>>
  /\ supReceived' = supReceived + 1
  /\ chan' = [chan EXCEPT ![supWorker] = Tail(@)]
  /\ done' = done \cup {Head(chan[supWorker])}
  /\ UNCHANGED <<page, locals, backlog, supPc, supWorker, supTook, stopping,
                 respawns, reloads, procs, history>>

ReapedSettled == pending[supWorker] - taken[supWorker] - supReceived <= 0

CloseReapedEnds ==
  /\ supPc = "drain" /\ chan[supWorker] = <<>>
  /\ ReapedSettled \/ BudgetSpent(supWorker)
  /\ supPc' = "retireTake"
  /\ expired' = [expired EXCEPT ![supWorker] = ~ReapedSettled]
  /\ UNCHANGED <<page, locals, kernel, supWorker, supReceived, supTook, stopping,
                 respawns, reloads, term, proc, history>>

CloseReapedTake ==
  /\ supPc = "retireTake" /\ supPc' = "retire"
  /\ supTook' = taken[supWorker]
  /\ taken' = [taken EXCEPT ![supWorker] = 0]
  /\ UNCHANGED <<state, active, pending, locals, kernel, supWorker, supReceived,
                 stopping, respawns, reloads, procs, history>>

CloseReapedRetire ==
  /\ supPc = "retire" /\ supPc' = "wait"
  /\ pending' = [pending EXCEPT ![supWorker] = Floor(@ - (supTook + supReceived))]
  /\ proc' = [proc EXCEPT ![supWorker] = "givenup"]
  /\ supWorker' = None /\ supTook' = 0 /\ supReceived' = 0
  /\ UNCHANGED <<state, active, taken, locals, kernel, stopping, respawns, reloads,
                 term, expired, history>>

\* _reload: stop every worker, reap them all, fork every index again.
ReloadBegin ==
  /\ supPc = "wait" /\ reloads < MaxReloads
  /\ \E w \in Workers : proc[w] \notin Vacant
  /\ supPc' = "reload" /\ reloads' = reloads + 1
  /\ Signalled(Workers)
  /\ UNCHANGED <<page, locals, kernel, supWorker, supReceived, supTook, stopping,
                 respawns, proc, expired, history>>

ReloadFork ==
  /\ supPc = "reload" /\ \A w \in Workers : proc[w] \in Vacant
  /\ supPc' = "wait"
  /\ Fork(Workers)
  /\ UNCHANGED <<page, phase, hand, target, drained, took, held, kernel, supWorker,
                 supReceived, supTook, stopping, respawns, reloads, history>>

Queued == UNION {{chan[w][i] : i \in 1..Len(chan[w])} : w \in Workers}

\* The supervisor exits with the last worker, and the kernel closes the
\* channels and the listener.
ServerEnds ==
  /\ supPc \in {"wait", "ending"} /\ \A w \in Workers : proc[w] \in Vacant
  /\ supPc' = "over"
  /\ done' = done \cup backlog \cup Queued
  /\ backlog' = {} /\ chan' = [w \in Workers |-> <<>>]
  /\ UNCHANGED <<page, locals, supWorker, supReceived, supTook, stopping, respawns,
                 reloads, procs, history>>

-----------------------------------------------------------------------------

Init ==
  /\ state = [w \in Workers |-> "not_started"]
  /\ active = [w \in Workers |-> 0]
  /\ pending = [w \in Workers |-> 0]
  /\ taken = [w \in Workers |-> 0]
  /\ chan = [w \in Workers |-> <<>>]
  /\ backlog = Conns
  /\ pc = [w \in Workers |-> "forked"]
  /\ phase = [w \in Workers |-> "run"]
  /\ hand = [w \in Workers |-> None]
  /\ target = [w \in Workers |-> None]
  /\ drained = [w \in Workers |-> 0]
  /\ took = [w \in Workers |-> 0]
  /\ held = [w \in Workers |-> {}]
  /\ term = [w \in Workers |-> FALSE]
  /\ proc = [w \in Workers |-> "up"]
  /\ expired = [w \in Workers |-> FALSE]
  /\ supPc = "wait" /\ supWorker = None /\ supReceived = 0 /\ supTook = 0
  /\ stopping = FALSE /\ respawns = 0 /\ reloads = 0
  /\ done = {}
  /\ moves = [c \in Conns |-> 0]
  /\ deaths = [w \in Workers |-> 0]

Start(w)  == Bind(w) \/ StartPark(w) \/ StartTake(w) \/ StartRetire(w)
Send(w)   == \/ SendRaise(w) \/ SendRecheck(w) \/ SendPost(w) \/ SendFails(w)
             \/ SendTakeBack(w)
Doors(w)  == \/ \E c \in Conns, t \in Workers : Accept(w, c, t)
             \/ AcceptDone(w) \/ Receive(w) \/ Publish(w)
             \/ \E t \in Workers : Route(w, t)
Rounds(w, S) == PassBegin(w, S) \/ HandoffsDone(w, S) \/ DrainPass(w, S)
Drain(w)  == EndTake(w) \/ EndRetire(w) \/ Leave(w) \/ DrainOver(w) \/ Exit(w)
Ending(w) == Declines(w) \/ StoppedUnarmed(w)

Worker(w) ==
  \/ Start(w) \/ Send(w) \/ Doors(w) \/ Drain(w) \/ Ending(w)
  \/ \E S \in SUBSET held[w] : Rounds(w, S)
  \/ DrainExpires(w)

Supervisor ==
  \/ \E w \in Workers : Reap(w)
  \/ DeclineRespawn \/ Respawn \/ GiveUp
  \/ CloseReaped \/ CloseReapedEnds \/ CloseReapedTake \/ CloseReapedRetire
  \/ ReloadFork \/ ServerEnds

Environment ==
  \/ StopServer \/ ReloadBegin
  \/ \E w \in Workers : StopOne(w) \/ RefusesConfig(w) \/ Killed(w)

Next == (\E w \in Workers : Worker(w)) \/ Supervisor \/ Environment

Spec == Init /\ [][Next]_vars

\* A loop keeps running, the supervisor keeps reaping, an exchange a loop
\* can finish ends (the client's part), and a drain's budget runs out.
Fairness ==
  /\ \A w \in Workers : WF_vars(Worker(w))
  /\ \A w \in Workers : SF_vars(\E S \in SUBSET held[w] : S # {} /\ Rounds(w, S))
  /\ \A w \in Workers : SF_vars(DrainExpires(w))
  /\ WF_vars(Supervisor)

FairSpec == Spec /\ Fairness

-----------------------------------------------------------------------------
(* What the accounting and the handshake promise.                          *)

PageType ==
  /\ state \in [Workers -> PageStates] /\ active \in [Workers -> Nat]
  /\ pending \in [Workers -> Int] /\ taken \in [Workers -> Nat]
LocalsType ==
  /\ pc \in [Workers -> {"off"} \cup Starting \cup Running]
  /\ phase \in [Workers -> Phases]
  /\ hand \in [Workers -> Conns \cup {None}]
  /\ target \in [Workers -> Workers \cup {None}]
  /\ drained \in [Workers -> Nat] /\ took \in [Workers -> Nat]
  /\ held \in [Workers -> SUBSET Conns]
KernelType ==
  chan \in [Workers -> Seq(Conns)] /\ backlog \subseteq Conns /\ done \subseteq Conns
SupType ==
  /\ supPc \in SupPcs /\ supWorker \in Workers \cup {None}
  /\ supReceived \in Nat /\ supTook \in Nat
  /\ stopping \in BOOLEAN /\ respawns \in Nat /\ reloads \in Nat
ProcsType ==
  /\ term \in [Workers -> BOOLEAN] /\ expired \in [Workers -> BOOLEAN]
  /\ proc \in [Workers -> {"up"} \cup Dead \cup Vacant]
HistoryType == moves \in [Conns -> Nat] /\ deaths \in [Workers -> Nat]
TypeOK ==
  PageType /\ LocalsType /\ KernelType /\ SupType /\ ProcsType /\ HistoryType

\* Senders whose raise of w's count is not yet matched by a datagram or
\* taken back; and hand-offs taken off w's channel, not yet retired.
RaisedTo(w) == {s \in Workers : pc[s] \in Raised /\ target[s] = w}
Unretired(w) ==
  IF pc[w] \in {"off", "forked", "bound", "startTake"} THEN taken[w]
  ELSE IF pc[w] = "startRetire" THEN took[w] ELSE drained[w]
SupOwes(w) == IF supWorker = w THEN supReceived + supTook ELSE 0
InFlight(w) == Cardinality(RaisedTo(w)) + Len(chan[w]) + Unretired(w) + SupOwes(w)

\* "the count is never below what is in flight" (send_with, review R5):
\* whoever dies, and wherever, `pending` covers every hand-off counted to a
\* worker that is not yet retired.
PendingCovers == \A w \in Workers : InFlight(w) <= pending[w]

\* And it is exact while no process has been killed: a retire never overshoots
\* and no count is left behind by a refused, failed or forwarded hand-off.
PendingExact ==
  supPc # "over" /\ (\A w \in Workers : deaths[w] = 0)
    => \A w \in Workers : pending[w] = InFlight(w)

\* Nothing will read w's channel again: its drain is over (not for want of
\* time), it has exited after one, or the supervisor has emptied the channel.
Sealed(w) ==
  /\ ~expired[w]
  /\ \/ pc[w] # "off" /\ phase[w] = "finish"
     \/ proc[w] \in {"exited", "retired", "givenup"}
     \/ supWorker = w /\ supPc \in {"retireTake", "retire"}

\* The leave handshake (send_with and awaiting_handoffs, review B25; and
\* close_reaped_handoffs, RB): once a channel is read for the last time no
\* connection is on it, and no sender is past the check that would stop it.
Emptied(w) ==
  /\ chan[w] = <<>>
  /\ \A s \in Workers : ~(pc[s] = "post" /\ target[s] = w)
NothingStranded == \A w \in Workers : Sealed(w) => Emptied(w)

\* A worker that has left reads as left to its siblings until its index is
\* forked again: its drain's passes, its death and its reaping keep the word.
LeaverIsMarked ==
  \A w \in Workers : Left(w) \/ proc[w] \in {"exited"} \cup Vacant => state[w] = "left"

\* "What can never happen: a lost connection" (module docstring), and no
\* connection is served twice: each is in exactly one place.
Homes(c) ==
  (IF c \in backlog THEN 1 ELSE 0) + (IF c \in done THEN 1 ELSE 0)
  + Cardinality({w \in Workers : c \in held[w]})
  + Cardinality({w \in Workers : hand[w] = c})
  + Cardinality(UNION {{<<w, i>> : i \in {j \in 1..Len(chan[w]) : chan[w][j] = c}} :
                       w \in Workers})
OneHome == \A c \in Conns : Homes(c) = 1

\* A connection is handed on at most once by its acceptor and once by each
\* worker that leaves, the last of which keeps it (while no index is forked
\* again, which is a new worker).
MovesBounded ==
  respawns = 0 /\ reloads = 0 => \A c \in Conns : moves[c] <= Cardinality(Workers)

\* Every connection a worker accepts is admitted by a loop or closed: none
\* waits for ever in a channel, a hand or a count.
Answered ==
  \A c \in Conns : c \notin backlog ~> (c \in done \/ \E w \in Workers : c \in held[w])

\* A drain ends by itself: while no process has been killed, no leaver spends
\* its budget waiting for a hand-off that does not come.
BudgetUnspent ==
  (\A w \in Workers : deaths[w] = 0) => \A w \in Workers : ~expired[w]

\* A stopped server ends, whichever workers leave, die or are replaced.
StopEnds == stopping ~> supPc = "over"
=============================================================================
