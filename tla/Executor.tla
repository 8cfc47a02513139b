----------------------------- MODULE Executor -----------------------------
(***************************************************************************)
(* The ASGI executor: one thread whose asyncio loop runs a task for every  *)
(* request the event loop hands it (m0-wsgi/shim/m0_shim.py), the port it  *)
(* answers through (m0-wsgi/src/asgi_executor.mojo), and the event loop's  *)
(* side of the four channels between them (m0-wsgi/src/handler.mojo,       *)
(* lightbug_http/loop/offload.mojo and streams.mojo).                      *)
(*                                                                         *)
(* A step of the executor is what runs between two awaits: a callback of   *)
(* asyncio, or an application's task up to the next await it reaches.  A   *)
(* step of the loop is one handler of its pass.  What an application holds *)
(* by slot is its connection's only until the loop recycles the slot, and  *)
(* its task may outlive that.  Bytes are counted in pieces, one each.      *)
(***************************************************************************)
EXTENDS Integers, FiniteSets, FiniteSetsExt, SequencesExt

CONSTANTS
  NumSlots,
  Deployments,   \* the servers considered: see Deployed
  MaxRequests,   \* bound: requests of any of them
  None

Slots == 1 .. NumSlots

\* A request and the task that serves it have one number, which is also its
\* stream's generation; 0 is no generation (STREAM_GEN_NONE).
Tasks == 1 .. MaxRequests
Gens == 0 .. MaxRequests

\* A server has as many connections, a submit channel with this room, a window
\* for each stream and one for all of them together, and an application that
\* answers some requests without a stream, or cancels a send that waits.  The
\* bounds: the pieces of a body, and the requests.
Deployed ==
  [slots : Slots, room : Nat, window : Nat \ {0}, total : Nat \ {0},
   app : SUBSET {"plain", "cancels", "lingers", "raises"}, pieces : Nat, requests : Gens]

ASSUME ExecutorAssumption ==
  /\ NumSlots \in Nat /\ MaxRequests \in Nat
  /\ Deployments \subseteq Deployed
  /\ None \notin Tasks

VARIABLES
  \* the executor's tasks
  stage,           \* what each is doing
  at,              \* its slot
  gone,            \* _m0_disconnected: those whose client has left
  woken,           \* those whose event was set while they waited for credit
  made,            \* the pieces each has handed to the loop
  end,             \* how its body ended
  event,           \* the stream whose event each waits on for credit: see Send
  \* the executor's tables
  owner,           \* _exec_slot_task
  open,            \* the slots with an entry in _exec_credits
  credit,          \* _exec_credits
  inflight,        \* _exec_inflight
  global,          \* _exec_global_credit
  gens,            \* the generation of each slot's last stream
  pendingDone,     \* completions parked for the next flush
  \* between executor and loop
  submit, acks, chunk, comps,
  parked,          \* the response parked for a slot: its task, and its generation
  \* the loop
  slots,           \* what it knows of each slot
  handler,         \* its handler's registry of streams
  batch, aborts,   \* completions and aborts it has read off their channel
  \* how it went
  wire,            \* what reached the client of a slot's last response
  marks,           \* what went wrong with a task's stream: see Marks
  asked,
  server           \* the server, one of Deployments

taskVars == <<stage, at, gone, woken, made, end, event>>
windows == <<open, credit, inflight, global>>
tables == <<owner, gens>>
loopVars == <<slots, handler, batch, aborts>>
vars == <<taskVars, tables, windows, pendingDone, submit, acks, chunk, comps, parked,
          loopVars, wire, marks, asked, server>>

\* What reaches a client: a response's head, pieces of its body, and its end,
\* said by the terminator or by a close that cuts the body off.
HeadOf(k) == <<k, 0>>
Piece(k, i) == <<k, i>>
Terminator == <<0, 1>>
CutOff == <<0, -1>>

\* A datagram of the submit channel: a job, or the tag that says a slot's
\* client has gone.
Job(s, k) == [tag |-> "job", slot |-> s, req |-> k]
Tag(s) == [tag |-> "gone", slot |-> s, req |-> 0]

\* A frame of the chunk channel, and an entry of the completion channel.
Frame(k, s, g, v) == [kind |-> k, slot |-> s, gen |-> g, piece |-> v]
Done(s) == [kind |-> "done", slot |-> s, gen |-> 0]
AbortOf(s, g) == [kind |-> "abort", slot |-> s, gen |-> g]

\* A stream is "paid" if it was credited with what an earlier stream of its
\* slot was owed, "unheard" if the loop dropped its abort.
Marks == {"paid", "unheard"}

Stages ==
  {"none", "run", "stream", "credit", "global", "late", "failed", "over",
   "reported"}

Init ==
  /\ server \in Deployments
  /\ stage = [k \in Tasks |-> "none"] /\ at = [k \in Tasks |-> 1]
  /\ gone = {} /\ woken = {}
  /\ made = [k \in Tasks |-> 0] /\ end = [k \in Tasks |-> "open"]
  /\ event = [k \in Tasks |-> 0]
  /\ owner = [s \in Slots |-> None]
  /\ open = {} /\ credit = [s \in Slots |-> 0] /\ inflight = [s \in Slots |-> 0]
  /\ global = server.total /\ gens = [s \in Slots |-> 0] /\ pendingDone = <<>>
  /\ submit = <<>> /\ acks = <<>> /\ chunk = <<>> /\ comps = <<>>
  /\ parked = [s \in Slots |-> <<0, 0>>]
  /\ slots = [s \in Slots |-> [conn |-> "free", gen |-> 0]]
  /\ handler = [sub |-> {}, done |-> {}, pending |-> [s \in Slots |-> <<>>],
                gen |-> [s \in Slots |-> 0]]
  /\ batch = <<>> /\ aborts = <<>>
  /\ wire = [s \in Slots |-> <<>>] /\ marks = [k \in Tasks |-> {}] /\ asked = 0
-----------------------------------------------------------------------------
(***************************************************************************)
(* The port: what a task's event does as soon as it is put.                *)
(***************************************************************************)
\* put_response and _queue_completion: the completion waits for a flush.
Answers(k, g) ==
  /\ parked' = [parked EXCEPT ![at[k]] = <<k, g>>]
  /\ pendingDone' = Append(pendingDone, at[k])

\* _flush_completions: one datagram for all that are parked.
Flushed == comps \o [i \in DOMAIN pendingDone |-> Done(pendingDone[i])]

\* A frame that is not a begin has the parked completions go first.
Sends(f) ==
  /\ comps' = Flushed /\ pendingDone' = <<>> /\ chunk' = Append(chunk, f)

SendsEnd(k) == Sends(Frame("e", at[k], gens[at[k]], <<>>))

\* ... and an abort goes out on the completion channel as it is.
SendsAbort(k) ==
  /\ comps' = Append(comps, AbortOf(at[k], gens[at[k]]))
  /\ UNCHANGED <<pendingDone, chunk>>

\* _flush, at the end of an iteration of asyncio's loop that put something.
Flush ==
  /\ pendingDone # <<>> /\ comps' = Flushed /\ pendingDone' = <<>>
  /\ UNCHANGED <<taskVars, tables, windows, submit, acks, chunk, parked, loopVars,
                 wire, marks,
                 asked, server>>
-----------------------------------------------------------------------------
(***************************************************************************)
(* The tasks.                                                              *)
(***************************************************************************)
Goes(k, p) == stage' = [stage EXCEPT ![k] = p]
Ended(k, how) == end' = [end EXCEPT ![k] = how]

\* _task_gone, asked of the task a send addresses.
TaskGone(k) == k \in gone \/ stage[k] \in {"failed", "over", "reported"}

\* The final body of a response that did not stream answers it, whatever the
\* application goes on to do.
Answer(k) ==
  /\ "plain" \in server.app
  /\ stage[k] = "run" /\ Goes(k, "late") /\ Answers(k, 0) /\ Ended(k, "whole")
  /\ UNCHANGED <<at, gone, woken, made, event, tables, windows, submit, acks, chunk, comps,
                 loopVars, wire, marks, asked, server>>

\* The first body with more to come makes it a stream: the slot's window is
\* opened whole, with an event of its own, and the begin frame is sent ahead of
\* the head's completion.
StreamStart(k) ==
  LET s == at[k]
  IN /\ stage[k] = "run" /\ Goes(k, "stream")
     /\ open' = open \cup {s} /\ credit' = [credit EXCEPT ![s] = server.window]
     /\ gens' = [gens EXCEPT ![s] = k]
     /\ chunk' = Append(chunk, Frame("b", s, k, <<>>)) /\ Answers(k, k)
     /\ UNCHANGED <<at, gone, woken, made, end, event, owner, inflight, global, submit, acks,
                    comps,
                    loopVars, wire, marks, asked, server>>

\* Mutant: the slot's own window is not charged.
Charges_GlobalOnly(k) ==
  /\ global' = global - 1 /\ inflight' = [inflight EXCEPT ![at[k]] = @ + 1]
  /\ UNCHANGED <<open, credit>>

\* A piece is charged to both windows until the loop acks it.
Charges(k) ==
  /\ credit' = [credit EXCEPT ![at[k]] = @ - 1] /\ global' = global - 1
  /\ inflight' = [inflight EXCEPT ![at[k]] = @ + 1] /\ UNCHANGED open

\* _emit from where it asks for room: in the slot's window, then in the one
\* all streams share.  A wait begins by clearing the event it waits for.
Emit(k, askSlot) ==
  LET s == at[k]
      short == askSlot /\ credit[s] < 1
  IN \/ /\ short \/ global < 1
        /\ Goes(k, IF short THEN "credit" ELSE "global") /\ woken' = woken \ {k}
        /\ UNCHANGED <<windows, made, chunk, comps, pendingDone>>
     \/ /\ ~short /\ global >= 1 /\ s \in open
        /\ Charges(k) /\ Goes(k, "stream") /\ woken' = woken \ {k}
        /\ made' = [made EXCEPT ![k] = @ + 1]
        /\ Sends(Frame("s", s, gens[s], Piece(k, made'[k])))

\* The application sends a piece; one whose client has gone drops it.  It looks
\* its slot's event up once, and waits on that one: the event of the stream the
\* slot has now.
Send(k) ==
  /\ stage[k] = "stream" /\ ~TaskGone(k) /\ made[k] < server.pieces
  /\ at[k] \in open /\ event' = [event EXCEPT ![k] = gens[at[k]]]
  /\ Emit(k, TRUE)
  /\ UNCHANGED <<at, gone, end, tables, submit, acks, parked, loopVars, wire, marks,
                 asked, server>>

\* A slot without tables raises in whoever sends to it.
Raises(k) == stage[k] = "global" /\ global >= 1 /\ at[k] \notin open

\* Its wait is over: it asks again, or finds its client, or its slot's tables, gone.
Resume(k) ==
  /\ k \in woken
  /\ \/ ~TaskGone(k) /\ Emit(k, stage[k] = "credit")
     \/ /\ TaskGone(k) \/ Raises(k)
        /\ Goes(k, "stream") /\ woken' = woken \ {k}
        /\ UNCHANGED <<windows, made, chunk, comps, pendingDone>>
  /\ UNCHANGED <<at, gone, end, event, tables, submit, acks, parked, loopVars, wire, marks,
                 asked, server>>

\* The final body of a stream ends it on the wire now.
Final(k) ==
  /\ "lingers" \in server.app
  /\ stage[k] = "stream" /\ Goes(k, "late") /\ Ended(k, "whole")
  /\ \/ ~TaskGone(k) /\ SendsEnd(k)
     \/ TaskGone(k) /\ UNCHANGED <<chunk, comps, pendingDone>>
  /\ UNCHANGED <<at, gone, woken, made, event, tables, windows, submit, acks, parked,
                 loopVars, wire, marks, asked, server>>

\* Mutant: an application's error says nothing to the loop.
Signals_NoAbort(k, how) ==
  \/ ~TaskGone(k) /\ how = "whole" /\ SendsEnd(k)
  \/ (TaskGone(k) \/ how = "cut") /\ UNCHANGED <<chunk, comps, pendingDone>>

\* run's finally, for a stream that had no final body.
Signals(k, how) ==
  \/ ~TaskGone(k) /\ how = "whole" /\ SendsEnd(k)
  \/ ~TaskGone(k) /\ how = "cut" /\ SendsAbort(k)
  \/ TaskGone(k) /\ UNCHANGED <<chunk, comps, pendingDone>>

\* The application returns, or raises: before its head, after its response's
\* end, or between.
Return(k) ==
  /\ \/ /\ stage[k] = "stream" /\ Goes(k, "over")
        /\ \/ Signals(k, "whole") /\ Ended(k, "whole")
           \/ /\ "raises" \in server.app \/ at[k] \notin open
              /\ Signals(k, "cut") /\ Ended(k, "cut")
     \/ /\ stage[k] = "late" /\ Goes(k, "over") /\ UNCHANGED <<end, chunk, comps,
                                                               pendingDone>>
     \/ /\ "plain" \in server.app
        /\ stage[k] = "run" /\ Goes(k, "failed") /\ UNCHANGED <<end, chunk, comps,
                                                                pendingDone>>
  /\ UNCHANGED <<at, gone, woken, made, event, tables, windows, submit, acks, parked,
                 loopVars, wire, marks, asked, server>>

\* It is cancelled while it waits for room: by the loop's tag, or by itself.
Cancelled(k) ==
  /\ k \in gone \/ "cancels" \in server.app
  /\ stage[k] \in {"credit", "global"} /\ Goes(k, "over") /\ woken' = woken \ {k}
  /\ Signals(k, "cut") /\ Ended(k, "cut")
  /\ UNCHANGED <<at, gone, made, event, tables, windows, submit, acks, parked, loopVars,
                 wire, marks, asked, server>>

\* `n` of what slot `s` has in flight goes back to the common window.
Refund(s, n) ==
  /\ global' = global + n /\ inflight' = [inflight EXCEPT ![s] = @ - n]

\* Mutant: the acks of what is stranded are still waited for.
Stranded_Awaited(s) == 0

\* What a slot has in flight when its connection is over for the executor.
Stranded(s) == inflight[s]

\* Mutant: the common window has no event.
WokenBy_Nobody(n) == {}

\* The tasks woken by such a refund ...
WokenBy(n) == {k \in Tasks : n > 0 /\ stage[k] = "global"}

\* ... and by credit or a disconnect for slot `s`: those who wait on the event
\* of the stream it has now, which is not that of the stream before.
WokenAt(s) ==
  {k \in Tasks : s \in open /\ stage[k] = "credit" /\ at[k] = s /\ event[k] = gens[s]}

\* The done-callback: only the slot's owner clears up behind itself, and a
\* request that neither streamed nor was answered is answered here.
Report(k) ==
  LET s == at[k]
  IN /\ stage[k] \in {"failed", "over"} /\ Goes(k, "reported")
     /\ \/ /\ owner[s] = k /\ owner' = [owner EXCEPT ![s] = None]
           /\ Refund(s, Stranded(s)) /\ woken' = woken \cup WokenBy(Stranded(s))
           /\ open' = open \ {s} /\ credit' = [credit EXCEPT ![s] = 0]
        \/ owner[s] # k /\ UNCHANGED <<owner, windows, woken>>
     /\ \/ stage[k] = "failed" /\ Answers(k, 0) /\ Ended(k, "whole")
        \/ stage[k] = "over" /\ UNCHANGED <<parked, pendingDone, end>>
     /\ UNCHANGED <<at, gone, made, event, gens, submit, acks, chunk, comps, loopVars, wire,
                    marks, asked, server>>
-----------------------------------------------------------------------------
(***************************************************************************)
(* The readers of the executor's channels.                                 *)
(***************************************************************************)
\* spawn, for a job: the slot is the new task's from now on.
Spawn ==
  LET job == Head(submit)
  IN /\ submit # <<>> /\ job.tag = "job" /\ submit' = Tail(submit)
     /\ Goes(job.req, "run") /\ at' = [at EXCEPT ![job.req] = job.slot]
     /\ owner' = [owner EXCEPT ![job.slot] = job.req]
     /\ UNCHANGED <<gone, woken, made, end, event, gens, windows, pendingDone, acks, chunk, comps,
                    parked, loopVars, wire, marks, asked, server>>

\* Mutant: the task is not told.
Departs_Unmarked(s) == gone' = gone

\* The task the slot belongs to learns that its client has gone.
Departs(s) == gone' = gone \cup ({owner[s]} \ {None})

\* _exec_on_disconnect: what the slot has in flight is the old connection's,
\* and nobody will ack it; whoever waits for credit is woken to be told.
OnDisconnect ==
  LET s == Head(submit).slot
  IN /\ submit # <<>> /\ Head(submit).tag = "gone" /\ submit' = Tail(submit)
     /\ Departs(s) /\ Refund(s, Stranded(s))
     /\ woken' = woken \cup WokenAt(s) \cup WokenBy(Stranded(s))
     /\ UNCHANGED <<stage, at, made, end, event, tables, open, credit, pendingDone, acks,
                    chunk, comps, parked, loopVars, wire, marks, asked, server>>

\* What of an ack the slot still has in flight.
Spent(ack) == Min({ack.n, inflight[ack.slot]})

\* _on_ack: credit comes back to the slot's window, which it never fills past
\* its size, and to the common one.  An ack names a slot, and no stream.
OnAck ==
  LET ack == Head(acks)
      s == ack.slot
      filled == Min({credit[s] + ack.n, server.window})
  IN /\ acks # <<>> /\ acks' = Tail(acks)
     /\ credit' = IF s \in open THEN [credit EXCEPT ![s] = filled] ELSE credit
     /\ Refund(s, Spent(ack))
     /\ woken' = woken \cup WokenBy(Spent(ack)) \cup WokenAt(s)
     /\ marks' = IF s \in open /\ ack.gen # gens[s] /\ credit[s] < server.window
                 THEN [marks EXCEPT ![gens[s]] = @ \cup {"paid"}] ELSE marks
     /\ UNCHANGED <<stage, at, gone, made, end, event, tables, open, pendingDone, submit,
                    chunk, comps, parked, loopVars, wire, asked, server>>
-----------------------------------------------------------------------------
(***************************************************************************)
(* The event loop, and its handler's registry as a value.                  *)
(***************************************************************************)
Unsubscribed(h, s) == [h EXCEPT !.sub = @ \ {s}, !.pending[s] = <<>>]

\* sse_peer_frame: a begin subscribes its slot; pieces and the end count only
\* for the stream that subscribed it.
Peer(h, f) ==
  LET s == f.slot
      ours == h.gen[s] = f.gen
  IN CASE f.kind = "b" ->
            [h EXCEPT !.sub = @ \cup {s}, !.done = @ \ {s}, !.gen[s] = f.gen]
       [] f.kind = "s" /\ s \in h.sub /\ ours -> [h EXCEPT !.pending[s] = Append(@, f.piece)]
       [] f.kind = "e" /\ ours /\ h.pending[s] # <<>> -> [h EXCEPT !.done = @ \cup {s}]
       [] f.kind = "e" /\ ours /\ h.pending[s] = <<>> -> Unsubscribed(h, s)
       [] OTHER -> h

Delivered == FoldLeft(Peer, handler, chunk)

\* sse_drain_slot, and what sse_slot_disconnected forgets.
Drained(h, s) ==
  IF s \in h.done THEN [Unsubscribed(h, s) EXCEPT !.done = @ \ {s}]
                  ELSE [h EXCEPT !.pending[s] = <<>>]
Disconnected(h, s) == [Unsubscribed(h, s) EXCEPT !.done = @ \ {s}, !.gen[s] = 0]

\* No completions are being serviced: another handler of the pass may run.
Free == batch = <<>> /\ aborts = <<>>

\* _close_slot, of a slot that streams: its task is told, if the channel has room.
Closes(s, h) ==
  /\ slots' = [slots EXCEPT ![s].conn = "free"] /\ handler' = Disconnected(h, s)
  /\ submit' = IF Len(submit) < server.room THEN Append(submit, Tag(s)) ELSE submit

Reaches(s, out) == wire' = [wire EXCEPT ![s] = @ \o out]

\* A client connects to a free slot, or asks again on its connection.
Ask(s) ==
  /\ s =< server.slots /\ slots[s].conn = "free"
  /\ Free /\ asked < server.requests /\ asked' = asked + 1
  /\ Len(submit) < server.room /\ submit' = Append(submit, Job(s, asked'))
  /\ slots' = [slots EXCEPT ![s] = [conn |-> "out", gen |-> 0]]
  /\ wire' = [wire EXCEPT ![s] = <<>>]
  /\ UNCHANGED <<taskVars, tables, windows, pendingDone, acks, chunk, comps, parked,
                 handler,
                 batch, aborts, marks, server>>

DeliverBusFrames ==
  /\ Free /\ chunk # <<>> /\ chunk' = <<>> /\ handler' = Delivered
  /\ UNCHANGED <<taskVars, tables, windows, pendingDone, submit, acks, comps, parked, slots,
                 batch, aborts, wire, marks, asked, server>>

\* The entries of one kind on the completion channel, in their order.
Read(kind) ==
  FoldLeft(LAMBDA q, c : IF c.kind = kind THEN Append(q, c) ELSE q, <<>>, comps)

\* _service_completions: the channel is read whole, and its completions are
\* answered before its aborts.
ReadChannel ==
  /\ Free /\ comps # <<>> /\ comps' = <<>>
  /\ batch' = Read("done") /\ aborts' = Read("abort")
  /\ UNCHANGED <<taskVars, tables, windows, pendingDone, submit, acks, chunk, parked, slots,
                 handler, wire, marks, asked, server>>

\* _complete_one, for an answer, and for a stream's head, before which its
\* begin frame is delivered.  The client may be found gone.
CompleteAnswer ==
  LET s == batch[1].slot
  IN /\ batch # <<>> /\ parked[s][2] = 0 /\ batch' = Tail(batch)
     /\ parked' = [parked EXCEPT ![s] = <<0, 0>>]
     /\ slots' = [slots EXCEPT ![s].conn = "free"]
     /\ Reaches(s, <<HeadOf(parked[s][1]), Terminator>>) \/ UNCHANGED wire
     /\ UNCHANGED <<taskVars, tables, windows, pendingDone, submit, acks, chunk, comps,
                    handler,
                    aborts, marks, asked, server>>

CompleteHead ==
  LET s == batch[1].slot
      g == parked[s][2]
  IN /\ batch # <<>> /\ g # 0 /\ batch' = Tail(batch)
     /\ parked' = [parked EXCEPT ![s] = <<0, 0>>] /\ chunk' = <<>>
     /\ \/ /\ Reaches(s, <<HeadOf(parked[s][1])>>) /\ handler' = Delivered
           /\ slots' = [slots EXCEPT ![s] = [conn |-> "stream", gen |-> g]] /\ UNCHANGED submit
        \/ Closes(s, Delivered) /\ UNCHANGED wire
     /\ UNCHANGED <<taskVars, tables, windows, pendingDone, acks, comps, aborts, marks,
                    asked,
                    server>>

\* ... then the aborts, each for the stream its slot still serves.
ServeAbort ==
  LET s == aborts[1].slot
      g == aborts[1].gen
  IN /\ batch = <<>> /\ aborts # <<>> /\ aborts' = Tail(aborts)
     /\ \/ /\ slots[s] = [conn |-> "stream", gen |-> g] /\ UNCHANGED marks
           /\ Reaches(s, Append(handler.pending[s], CutOff)) /\ Closes(s, Drained(handler, s))
        \/ /\ slots[s] # [conn |-> "stream", gen |-> g]
           /\ UNCHANGED <<slots, handler, submit, wire>>
           /\ marks' = IF parked[s][2] = g THEN [marks EXCEPT ![g] = @ \cup {"unheard"}]
                                           ELSE marks
     /\ UNCHANGED <<taskVars, tables, windows, pendingDone, acks, chunk, comps, parked,
                    batch,
                    asked, server>>

\* _drain_slot: what has come for a stream goes out and is acked, and behind
\* its last bytes the terminator.
Drain(s) ==
  LET h == Drained(handler, s)
      out == handler.pending[s]
      ended == s \notin h.sub
  IN /\ Free /\ slots[s].conn = "stream" /\ (out # <<>> \/ ended)
     /\ Reaches(s, IF ended THEN Append(out, Terminator) ELSE out) /\ handler' = h
     /\ acks' = IF out = <<>> THEN acks
                ELSE Append(acks, [slot |-> s, n |-> Len(out), gen |-> slots[s].gen])
     /\ slots' = IF ended THEN [slots EXCEPT ![s] = [conn |-> "free", gen |-> 0]] ELSE slots
     /\ UNCHANGED <<taskVars, tables, windows, pendingDone, submit, chunk, comps,
                    parked, batch,
                    aborts, marks, asked, server>>

\* A client closes its connection, or a send finds that it has.
ClientLeaves(s) ==
  /\ Free /\ slots[s].conn = "stream" /\ Closes(s, handler) /\ wire' = [wire EXCEPT ![s] = <<>>]
  /\ UNCHANGED <<taskVars, tables, windows, pendingDone, acks, chunk, comps, parked, batch,
                 aborts, marks, asked, server>>
-----------------------------------------------------------------------------
Reads == Spawn \/ OnDisconnect
Runs(k) ==
  Answer(k) \/ StreamStart(k) \/ Send(k) \/ Resume(k) \/ Final(k) \/ Return(k) \/ Report(k)

Serves ==
  \/ DeliverBusFrames \/ ReadChannel \/ CompleteAnswer \/ CompleteHead \/ ServeAbort

Next ==
  \/ Flush \/ Reads \/ OnAck
  \/ \E k \in Tasks : Runs(k) \/ Cancelled(k)
  \/ Serves
  \/ \E s \in Slots : Ask(s) \/ Drain(s) \/ ClientLeaves(s)

Spec == Init /\ [][Next]_vars

(***************************************************************************)
(* asyncio's loop runs every callback that is due, applications end, the   *)
(* event loop makes its passes and clients read.  Nobody has to leave, to  *)
(* ask, or to be cancelled.                                                *)
(***************************************************************************)
Fairness ==
  /\ WF_vars(Flush) /\ WF_vars(Reads) /\ WF_vars(OnAck)
  /\ \A k \in Tasks : WF_vars(Runs(k))
  /\ WF_vars(Serves)
  /\ \A s \in Slots : WF_vars(Drain(s))

FairSpec == Spec /\ Fairness
-----------------------------------------------------------------------------
TypeOK ==
  /\ server \in Deployments /\ asked \in Gens
  /\ stage \in [Tasks -> Stages] /\ at \in [Tasks -> Slots]
  /\ gone \subseteq Tasks /\ woken \subseteq Tasks
  /\ made \in [Tasks -> Nat] /\ end \in [Tasks -> {"open", "whole", "cut"}]
  /\ event \in [Tasks -> Gens]
  /\ owner \in [Slots -> Tasks \cup {None}] /\ gens \in [Slots -> Gens]
  /\ open \subseteq Slots /\ credit \in [Slots -> Int] /\ inflight \in [Slots -> Nat]
  /\ global \in Nat /\ pendingDone \in Seq(Slots)
  /\ submit \in Seq([tag : {"job"}, slot : Slots, req : Tasks]
                      \cup [tag : {"gone"}, slot : Slots, req : {0}])
  /\ acks \in Seq([slot : Slots, n : Nat, gen : Gens])
  /\ chunk \in Seq([kind : {"b", "e"}, slot : Slots, gen : Gens, piece : {<<>>}]
                     \cup [kind : {"s"}, slot : Slots, gen : Gens, piece : Tasks \X Nat])
  /\ \A c \in {comps, batch, aborts} :
       c \in Seq([kind : {"done", "abort"}, slot : Slots, gen : Gens])
  /\ parked \in [Slots -> Gens \X Gens]
  /\ slots \in [Slots -> [conn : {"free", "out", "stream"}, gen : Gens]]
  /\ handler \in [sub : SUBSET Slots, done : SUBSET Slots,
                  pending : [Slots -> Seq(Tasks \X Nat)], gen : [Slots -> Gens]]
  /\ wire \in [Slots -> Seq(Gens \X Int)] /\ marks \in [Tasks -> SUBSET Marks]

\* The task whose head opened slot `s`'s response, and the body behind it,
\* between that and what says its end.
TaskOf(s) == wire[s][1][1]
BodyOf(s) ==
  IF Last(wire[s]) \in {Terminator, CutOff} THEN Front(Tail(wire[s])) ELSE Tail(wire[s])

\* What a client has of a body is what its own task sent, in order, whatever
\* the tasks of the slot's earlier connections went on to send; it is told the
\* body is complete only when it has all of it, and cut off only when the
\* application failed.
BodyTrue ==
  \A s \in Slots : wire[s] # <<>> =>
    LET k == TaskOf(s)
    IN /\ wire[s][1] = HeadOf(k)
       /\ \A i \in DOMAIN BodyOf(s) : BodyOf(s)[i] = Piece(k, i)
       /\ Last(wire[s]) = Terminator => end[k] = "whole" /\ Len(BodyOf(s)) = made[k]
       /\ Last(wire[s]) = CutOff => end[k] = "cut"

\* The pieces of the streams `G` that slot `s` has on the chunk channel, with the
\* handler, and on their way back as credit; and all of them.
Placed(s, G) ==
  Cardinality({i \in DOMAIN chunk :
                 chunk[i].slot = s /\ chunk[i].kind = "s" /\ chunk[i].gen \in G})
Queued(s, G) == IF handler.gen[s] \in G THEN Len(handler.pending[s]) ELSE 0
Returning(s, G) ==
  FoldLeft(LAMBDA n, a : IF a.slot = s /\ a.gen \in G THEN n + a.n ELSE n, 0, acks)
UnderWay(s, G) == Placed(s, G) + Queued(s, G) + Returning(s, G)

\* A stream's credit and what it has under way are its window, no more, so
\* that its pieces fit the slot's outbox.
InWindow ==
  \A k \in Tasks :
    stage[k] \in {"stream", "credit", "global"} /\ ~TaskGone(k) /\ "paid" \notin marks[k]
      => credit[at[k]] + UnderWay(at[k], {k}) =< server.window

\* The common window is never short by a piece that nobody will give back:
\* what a slot has in flight is under way, or the tag that refunds it is.
WindowReturns ==
  /\ global + FoldFunction(+, 0, inflight) = server.total
  /\ \A s \in Slots :
       inflight[s] =< UnderWay(s, Gens) \/ \E i \in DOMAIN submit : submit[i] = Tag(s)

\* A task that waits for room gets it, or hears that its client has gone.
RoomComes ==
  \A k \in Tasks : stage[k] \in {"credit", "global"} ~> stage[k] \notin {"credit", "global"}

\* Every request is answered to its end, or its connection closed.
StreamsEnd ==
  \A s \in Slots :
    slots[s].conn = "out"
      ~> \/ slots[s].conn = "free"
         \/ slots[s].gen # 0 /\ "unheard" \in marks[slots[s].gen]
=============================================================================
