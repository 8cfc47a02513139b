------------------------------ MODULE LoopSlots ------------------------------
(***************************************************************************)
(* One event loop's connections (lightbug_http/event_loop.mojo, loop/ and  *)
(* server.mojo): a slot is borrowed for an accepted connection, its        *)
(* requests are read, framed, answered on the loop or by a pool thread,    *)
(* and what is pipelined behind one is answered from the buffer, until the *)
(* slot is closed: the client left, asked for it, was refused, ran out of  *)
(* time, or was taken back for a new connection.                           *)
(*                                                                         *)
(* A handler is a sequence of steps of one control point, pc, so what the  *)
(* clients and the pool do falls between any two of its system calls.  The *)
(* kernel is Linux: one epoll registration a descriptor, edge triggered,   *)
(* and a write one-shot replaces the read interest.                        *)
(*                                                                         *)
(* A client's bytes are its script: a head's part "a", its end "g" (no     *)
(* body), "c" (no body, Connection: close), "p" (a body follows), "x"      *)
(* (refused) or "L" (refused, its body over the limit), and a body's end   *)
(* "d".  A position in the script stands for a position in the buffer.     *)
(***************************************************************************)
EXTENDS Naturals, FiniteSets, Sequences, SequencesExt

CONSTANTS
  Conns,      \* connections
  Slots,      \* the loop's slots, numbered from 1
  Scripts,    \* what each client may send
  ReadSize,   \* what one recv takes at most
  Parts,      \* bound: write events one answer may need
  None

ASSUME LoopAssumption ==
  /\ None \notin Conns /\ None \notin Slots
  /\ IsFiniteSet(Slots) /\ Slots = 1 .. Cardinality(Slots)
  /\ ReadSize \in Nat \ {0} /\ Parts \in Nat
  /\ \A c \in Conns : \A script \in Scripts[c] :
       /\ script \in Seq({"a", "g", "c", "p", "x", "L", "d"})
       /\ \A i \in 1 .. Len(script) :
            script[i] = "p" => i < Len(script) /\ script[i + 1] = "d"

VARIABLES
  slot,      \* each slot's connection and what the loop knows of it
  net,       \* each connection: its client, its sockets and the kernel's interest
  queue,     \* the reclaim queues: between requests, and head arriving
  free,      \* provisions not borrowed
  active,    \* active_count
  inflight,  \* offload.inflight
  job,       \* each slot's job in the pool: whose request, and whether it is done
  phase,     \* of the pass
  pc, at,    \* the step of the handler that runs, and its slot
  short,     \* whether its read took all the socket held
  eager,     \* whether it is the read of a connection just admitted
  batch,     \* the events the wait returned that are not yet dispatched
  joining    \* the connection being admitted

handler == <<pc, at, short, eager>>
held    == <<queue, free, active>>
pool    == <<inflight, job>>
pass    == <<phase, batch, joining>>
vars    == <<slot, net, held, pool, handler, pass>>

NoJob == [conn |-> None, done |-> FALSE]
Held  == {s \in Slots : slot[s].fd # None}

\* What a free slot keeps of its last connection is read by nothing, but for
\* offloaded: it is blank.
Blank == [fd |-> None, kind |-> "headers", from |-> 0, to |-> 0, end |-> 0, scanned |-> 0,
          eof |-> FALSE, close |-> FALSE, kept |-> FALSE, started |-> FALSE, due |-> "off",
          armed |-> FALSE, offloaded |-> FALSE, left |-> 0]

NoConn(where) ==
  [at |-> where, script |-> <<>>, sent |-> 0, fin |-> FALSE, gone |-> FALSE,
   interest |-> "none", ready |-> FALSE, room |-> TRUE, timer |-> FALSE]

-----------------------------------------------------------------------------
(* The kernel and the clients.                                             *)

Readable(n, to) == n.sent > to \/ n.fin \/ n.gone
To(c) == IF \E s \in Slots : slot[s].fd = c
         THEN slot[CHOOSE s \in Slots : slot[s].fd = c].to ELSE 0

\* An interest replaces the one before, and what is ready then is reported.
Reads(n, to) == [n EXCEPT !.interest = "read", !.ready = Readable(n, to)]
Writes(n)    == [n EXCEPT !.interest = "write", !.ready = n.room \/ n.gone]

Client(c, n) ==
  /\ net' = [net EXCEPT ![c] = n]
  /\ UNCHANGED <<slot, held, pool, handler, pass>>

Arrives(n) == [n EXCEPT !.ready = @ \/ n.interest = "read"]
Sending(c) == net[c].at \in {"backlog", "open"} /\ ~net[c].fin /\ ~net[c].gone

Connect(c) ==
  /\ net[c].at = "new"
  /\ \E script \in Scripts[c] :
       Client(c, [net[c] EXCEPT !.at = "backlog", !.script = script])

Send(c) ==
  /\ Sending(c) /\ net[c].sent < Len(net[c].script)
  /\ Client(c, [Arrives(net[c]) EXCEPT !.sent = @ + 1])

\* It shuts down its side, and may still be reading.
HalfClose(c) == Sending(c) /\ Client(c, [Arrives(net[c]) EXCEPT !.fin = TRUE])

\* It resets: a recv or a send fails from here on.
Reset(c) ==
  /\ net[c].at = "open" /\ ~net[c].gone
  /\ Client(c, [net[c] EXCEPT !.gone = TRUE, !.ready = @ \/ net[c].interest # "none"])

\* It reads, and the socket takes bytes again.
Drains(c) ==
  /\ net[c].at = "open" /\ ~net[c].room
  /\ Client(c, [net[c] EXCEPT !.room = TRUE, !.ready = @ \/ net[c].interest = "write"])

\* A pool thread is done with a slot's request.
JobDone(s) ==
  /\ job[s].conn # None /\ ~job[s].done
  /\ job' = [job EXCEPT ![s].done = TRUE]
  /\ UNCHANGED <<slot, net, held, inflight, handler, pass>>

-----------------------------------------------------------------------------
(* The transitions (loop/state.mojo), on a slot's record and its            *)
(* connection's.                                                           *)

\* A handler's step from one control point to another, and its return.
Step(s, from, to) == pc = from /\ at = s /\ pc' = to /\ UNCHANGED <<at, eager, pass>>
Return(s, from) ==
  /\ pc = from /\ at = s /\ pc' = "none" /\ at' = None /\ short' = FALSE /\ eager' = FALSE
  /\ UNCHANGED pass
\* Behind a handler comes the drain; behind a new connection's read, its registration.
Then == IF eager THEN "eager" ELSE "drain"

\* prepare_for_new_request.  The bytes past the request answered stay.
Prepared(r, keep) ==
  LET from == IF keep /\ r.end > 0 /\ r.end < r.to THEN r.end ELSE r.to
  IN  [r EXCEPT !.kind = "headers", !.from = from, !.scanned = from, !.end = 0,
                !.close = FALSE, !.eof = keep /\ @, !.left = 0]

\* remove: a slot is in one queue at most, once.
Unqueued(s) ==
  [k \in DOMAIN queue |->
     IF Contains(queue[k], s)
     THEN RemoveAt(queue[k], CHOOSE i \in DOMAIN queue[k] : queue[k][i] = s) ELSE queue[k]]
PushBack(k, s) == [Unqueued(s) EXCEPT ![k] = Append(@, s)]

\* Mutant: a read that fills its buffer leaves the slot armed.
Taken_StaysArmed(r, n) == [r EXCEPT !.to = @ + n]

\* recv took n: a read that fills its buffer spends its edge.
Taken(r, n) == [r EXCEPT !.to = @ + n, !.armed = @ /\ n < ReadSize]

CloseSlot(s) ==
  /\ slot' = [slot EXCEPT ![s] = [Blank EXCEPT !.offloaded = slot[s].offloaded]]
  /\ net' = [net EXCEPT ![slot[s].fd] = NoConn("closed")]
  /\ queue' = Unqueued(s) /\ active' = active - 1
  /\ free' = free \cup {s}

\* The slot's record and its connection's change, no other part of the loop.
Change(s, r, n) ==
  /\ slot' = [slot EXCEPT ![s] = r]
  /\ net' = [net EXCEPT ![r.fd] = n]
  /\ UNCHANGED held

\* Wait for the socket to take the rest: the reads give way.
AwaitWrite(s, r, n) == Change(s, [r EXCEPT !.armed = FALSE], Writes(n))

ArmReads(s, r) ==
  Change(s, [r EXCEPT !.armed = TRUE], IF r.armed THEN net[r.fd] ELSE Reads(net[r.fd], r.to))

\* _start_head: the header clock starts, and the slot waits in its queue.
StartHead(s) == queue' = IF slot[s].started THEN queue ELSE PushBack("head", s)

-----------------------------------------------------------------------------
(* Reading and framing (loop/request.mojo).                                *)

Got(s) == LET n == net[slot[s].fd].sent - slot[s].to IN IF n < ReadSize THEN n ELSE ReadSize

\* The recv fails, or ends what can never be completed.
ReadFails(s) ==
  LET r == slot[s] n == net[r.fd]
  IN  /\ Step(s, "read", Then) \/ Step(s, "body", Then)
      /\ n.gone \/ (n.fin /\ Got(s) = 0 /\ (pc = "read" => r.from = r.to))
      /\ CloseSlot(s) /\ UNCHANGED <<pool, short>>

\* Nothing to read, and nothing buffered to frame.
ReadWaits(s) ==
  /\ \/ /\ Step(s, "read", Then) /\ slot[s].from = slot[s].to
        /\ StartHead(s) /\ slot' = [slot EXCEPT ![s].started = TRUE]
        /\ UNCHANGED <<free, active, short>>
     \/ Return(s, "body") /\ UNCHANGED <<slot, held>>
  /\ ~Readable(net[slot[s].fd], slot[s].to)
  /\ UNCHANGED <<net, pool>>

\* One recv of a head, then its framing.
ReadHead(s) ==
  LET r == slot[s] n == net[r.fd]
  IN  /\ Step(s, "read", "frame")
      /\ ~n.gone /\ (Got(s) > 0 \/ r.from < r.to)
      /\ short' = (Got(s) < ReadSize)
      /\ slot' = [slot EXCEPT ![s] =
           [Taken(r, Got(s)) EXCEPT !.started = TRUE, !.eof = @ \/ (Got(s) = 0 /\ n.fin)]]
      /\ StartHead(s)
      /\ UNCHANGED <<net, free, active, pool>>

\* Where the head of the bytes buffered ends, 0 for not yet, and in what.
HeadEnd(s) ==
  LET script == net[slot[s].fd].script
      ends   == {i \in slot[s].from + 1 .. slot[s].to : script[i] # "a"}
  IN  IF ends = {} THEN 0 ELSE CHOOSE i \in ends : \A j \in ends : i <= j
Token(s) == IF HeadEnd(s) = 0 THEN "none" ELSE net[slot[s].fd].script[HeadEnd(s)]

\* Mutant: the keep-alive deadline runs on.
Begun_KeepsDue(s) == [slot[s] EXCEPT !.started = TRUE]

\* _begin_request: the keep-alive deadline ends.
Begun(s) == [slot[s] EXCEPT !.started = TRUE, !.due = "off"]

Framed(s, to, r, n) ==
  /\ Step(s, "frame", to) /\ short' = FALSE
  /\ slot' = [slot EXCEPT ![s] = r] /\ net' = [net EXCEPT ![r.fd] = n]
  /\ StartHead(s)
  /\ UNCHANGED <<free, active, pool>>

Hopeless(s) == Token(s) = "none" /\ slot[s].eof /\ short

FrameIncomplete(s) ==
  /\ pc = "frame" /\ at = s /\ Token(s) = "none" /\ ~Hopeless(s)
  /\ Framed(s, Then, [Begun(s) EXCEPT !.scanned = slot[s].to], net[slot[s].fd])

\* A head that is refused, or whose client will send no more of it.
FrameCloses(s) ==
  /\ Step(s, "frame", Then) /\ (Token(s) = "x" \/ Hopeless(s))
  /\ CloseSlot(s) /\ short' = FALSE /\ UNCHANGED pool

FrameWhole(s) ==
  LET end == HeadEnd(s) + IF Token(s) = "p" THEN 1 ELSE 0
  IN  /\ pc = "frame" /\ at = s /\ Token(s) \in {"g", "c", "p"} /\ end <= slot[s].to
      /\ Framed(s, "process", [Begun(s) EXCEPT !.kind = "processing", !.end = end],
                net[slot[s].fd])

Owed(s) == pc = "frame" /\ at = s /\ Token(s) = "p" /\ slot[s].to = HeadEnd(s)

\* The body is still owed, and its timer runs.
FrameBody(s) ==
  Owed(s) /\ Framed(s, Then, [Begun(s) EXCEPT !.kind = "body", !.end = HeadEnd(s) + 1],
                    [net[slot[s].fd] EXCEPT !.timer = TRUE])

\* _reject_and_linger: a body over the limit, or a head whose time ran out
\* as it was to be read.  What is buffered and in the socket is discarded.
Linger(s) ==
  LET r == slot[s] n == [net[r.fd] EXCEPT !.timer = FALSE]
  IN  /\ \/ Step(s, "frame", Then) /\ Token(s) = "L"
         \/ Step(s, "read", Then) /\ ~eager /\ r.started
      /\ IF n.fin \/ n.gone THEN CloseSlot(s)
         ELSE Change(s, [Prepared(r, FALSE) EXCEPT
                           !.kind = "lingering", !.due = "linger", !.started = TRUE,
                           !.armed = TRUE, !.from = n.sent, !.to = n.sent, !.scanned = n.sent],
                     IF r.armed THEN n ELSE Reads(n, n.sent))
      /\ short' = FALSE /\ UNCHANGED pool

\* A read of a body.
ReadBody(s) ==
  LET r == slot[s] n == net[r.fd] all == r.to + Got(s) >= r.end
  IN  /\ pc = "body" /\ ~n.gone /\ Got(s) > 0
      /\ Step(s, "body", IF all THEN "process" ELSE Then)
      /\ Change(s, [Taken(r, Got(s)) EXCEPT !.kind = IF all THEN "processing" ELSE @],
                [n EXCEPT !.timer = @ /\ ~all])
      /\ UNCHANGED <<pool, short>>

-----------------------------------------------------------------------------
(* Answering (loop/request.mojo, loop/response.mojo, loop/offload.mojo).    *)

Asks(s) == net[slot[s].fd].script[slot[s].end] = "c"

\* The request goes to a pool thread.
Offload(s) ==
  /\ Step(s, "process", Then)
  /\ slot' = [slot EXCEPT ![s].close = Asks(s), ![s].offloaded = TRUE]
  /\ job' = [job EXCEPT ![s] = [conn |-> slot[s].fd, done |-> FALSE]]
  /\ inflight' = inflight + 1
  /\ UNCHANGED <<net, held, short>>

\* It is answered on the loop.
Answer(s) ==
  /\ Step(s, "process", "finish")
  /\ slot' = [slot EXCEPT ![s].close = Asks(s)]
  /\ UNCHANGED <<net, held, pool, short>>

\* Mutant: the socket is not looked at.
AnswersTheLast_NoLook(s) == slot[s].eof /\ slot[s].end >= slot[s].to

\* _answers_the_last_request: the client sends no more, and nothing it sent
\* is behind this request, in the buffer or in the socket.
AnswersTheLast(s) ==
  /\ slot[s].eof /\ slot[s].end >= slot[s].to
  /\ net[slot[s].fd].gone \/ Got(s) = 0

Closing(s) == [slot[s] EXCEPT !.kind = "responding", !.close = @ \/ AnswersTheLast(s)]

FinishWhole(s) ==
  /\ Step(s, "finish", "sent") /\ net[slot[s].fd].room /\ ~net[slot[s].fd].gone
  /\ Change(s, Closing(s), net[slot[s].fd])
  /\ UNCHANGED <<pool, short>>

\* The socket takes less than the answer: its deadline runs.
FinishPart(s) ==
  /\ Step(s, "finish", Then) /\ ~net[slot[s].fd].gone
  /\ \E left \in 1 .. Parts :
       AwaitWrite(s, [Closing(s) EXCEPT !.due = "send", !.left = left],
                  [net[slot[s].fd] EXCEPT !.room = FALSE])
  /\ UNCHANGED <<pool, short>>

FinishFails(s) ==
  /\ Step(s, "finish", Then) /\ net[slot[s].fd].gone
  /\ CloseSlot(s) /\ UNCHANGED <<pool, short>>

\* _after_send: the answer has landed.
SentLast(s) ==
  /\ Step(s, "sent", Then) /\ slot[s].close
  /\ CloseSlot(s) /\ UNCHANGED <<pool, short>>

Kept(s) == [Prepared(slot[s], TRUE) EXCEPT !.kept = TRUE, !.started = FALSE, !.due = "idle",
                                           !.armed = TRUE]

\* _end_request: ready for the next.
EndRequest(s) ==
  /\ Step(s, "sent", Then) /\ ~slot[s].close
  /\ slot' = [slot EXCEPT ![s] = Kept(s)]
  /\ net' = [net EXCEPT ![slot[s].fd] = IF slot[s].armed THEN @ ELSE Reads(@, slot[s].to)]
  /\ queue' = PushBack("idle", s)
  /\ UNCHANGED <<free, active, pool, short>>

\* _drain_pipelined: the next whole request in the buffer.
Pipelined(s) ==
  slot[s].fd # None /\ slot[s].kind = "headers" /\ slot[s].to > slot[s].scanned

DrainNext(s) ==
  /\ Step(s, "drain", "frame") /\ Pipelined(s)
  /\ UNCHANGED <<slot, net, held, pool, short>>

\* None: a read event will come for what the socket holds.
DrainOver(s) ==
  /\ Return(s, "drain") /\ ~Pipelined(s) /\ UNCHANGED pool
  /\ IF slot[s].fd # None /\ slot[s].kind \in {"headers", "body"}
     THEN ArmReads(s, [slot[s] EXCEPT !.armed = @ /\ ~slot[s].eof])
     ELSE UNCHANGED <<slot, net, held>>

Handle(to, s) == pc' = to /\ at' = s /\ UNCHANGED <<short, eager>>

\* A completion (_complete_one): the answer goes to the slot's connection.
Completes(s) ==
  /\ phase \in {"events", "late"} /\ pc = "none" /\ slot[s].offloaded /\ job[s].done
  /\ job' = [job EXCEPT ![s] = NoJob] /\ inflight' = inflight - 1
  /\ slot' = [slot EXCEPT ![s].offloaded = FALSE]
  /\ IF slot[s].fd = None THEN free' = free \cup {s} /\ UNCHANGED handler
     ELSE Handle("finish", s) /\ UNCHANGED free
  /\ UNCHANGED <<net, queue, active, pass>>

-----------------------------------------------------------------------------
(* A pass (event_loop.mojo): the events, the new connections, what the     *)
(* pool finished meanwhile and the deadlines.                              *)

\* An event, with the end its flags report.
Event(k, c) == [kind |-> k, conn |-> c, eof |-> k = "read" /\ (net[c].fin \/ net[c].gone)]

\* The wait reports what is ready and still so, and the timers that expired.
Wait ==
  LET reads  == {c \in Conns : /\ net[c].ready /\ net[c].interest = "read"
                               /\ Readable(net[c], To(c))}
      writes == {c \in Conns : net[c].ready /\ net[c].interest = "write"}
  IN  /\ phase = "wait" /\ phase' = "events"
      /\ \E timers \in SUBSET {c \in Conns : net[c].timer} :
           batch' = {Event("read", c) : c \in reads} \cup {Event("write", c) : c \in writes}
                    \cup {Event("timer", c) : c \in timers}
      /\ net' = [c \in Conns |->
           [net[c] EXCEPT !.ready = FALSE, !.interest = IF c \in writes THEN "none" ELSE @]]
      /\ UNCHANGED <<slot, held, pool, handler, joining>>

\* An event is dispatched, by its kind and by what its slot is doing.
Take(k, e) ==
  /\ phase = "events" /\ pc = "none" /\ e \in batch /\ e.kind = k
  /\ batch' = batch \ {e} /\ UNCHANGED <<phase, joining, pool>>
Dispatch(k, s, e) == slot[s].fd = e.conn /\ Take(k, e)

\* Its slot was closed earlier in the batch, or wrote all it had.
DropEvent(e) ==
  /\ \A s \in Slots : slot[s].fd = e.conn => e.kind = "write" /\ slot[s].kind # "responding"
  /\ Take(e.kind, e)
  /\ UNCHANGED <<slot, net, held, handler>>

\* The slot is a pool thread's: its reads stop.
OnReadOffloaded(s, e) ==
  /\ Dispatch("read", s, e) /\ slot[s].offloaded
  /\ Change(s, [slot[s] EXCEPT !.eof = @ \/ e.eof, !.armed = FALSE],
            [net[e.conn] EXCEPT !.interest = "none", !.ready = FALSE])
  /\ UNCHANGED handler

OnRead(s, e) ==
  /\ Dispatch("read", s, e) /\ slot[s].kind \in {"headers", "body"}
  /\ Handle(IF slot[s].kind = "headers" THEN "read" ELSE "body", s)
  /\ Change(s, [slot[s] EXCEPT !.eof = @ \/ e.eof], net[e.conn])

\* _linger_discard: to the end of what the client sent.
OnReadLingering(s, e) ==
  /\ Dispatch("read", s, e) /\ slot[s].kind = "lingering"
  /\ IF net[e.conn].fin \/ net[e.conn].gone THEN CloseSlot(s)
     ELSE Change(s, [slot[s] EXCEPT !.eof = @ \/ e.eof, !.from = net[e.conn].sent,
                       !.to = net[e.conn].sent, !.scanned = net[e.conn].sent], net[e.conn])
  /\ UNCHANGED handler

\* A completion came first in the batch, and its answer is going out.
OnReadResponding(s, e) ==
  /\ Dispatch("read", s, e) /\ slot[s].kind = "responding"
  /\ AwaitWrite(s, [slot[s] EXCEPT !.eof = @ \/ e.eof], net[e.conn])
  /\ UNCHANGED handler

\* More of the answer goes out: all of it, or some.
OnWrite(s, e) ==
  /\ Dispatch("write", s, e) /\ slot[s].kind = "responding"
  /\ \/ net[e.conn].gone /\ CloseSlot(s) /\ UNCHANGED handler
     \/ ~net[e.conn].gone /\ Handle("sent", s) /\ UNCHANGED <<slot, net, held>>
     \/ /\ ~net[e.conn].gone /\ UNCHANGED handler
        /\ \E left \in 1 .. slot[s].left - 1 :
             AwaitWrite(s, [slot[s] EXCEPT !.left = left], [net[e.conn] EXCEPT !.room = FALSE])

\* Mutant: the timer closes its slot unasked.
OnTimer_Unasked(s, e) == Dispatch("timer", s, e) /\ CloseSlot(s) /\ UNCHANGED handler

\* The body timer ends a body that stopped arriving, and nothing else.
OnTimer(s, e) ==
  /\ Dispatch("timer", s, e)
  /\ IF slot[s].kind = "body" THEN CloseSlot(s)
     ELSE Change(s, slot[s], [net[e.conn] EXCEPT !.timer = FALSE])
  /\ UNCHANGED handler

Phase(from, to) ==
  /\ phase = from /\ phase' = to /\ pc = "none"
  /\ UNCHANGED <<slot, net, held, pool, handler, batch, joining>>

EventsOver == batch = {} /\ Phase("events", "admit")

\* The sweep: a deadline that has passed.
Expires(s) ==
  /\ phase = "late" /\ pc = "none" /\ slot[s].fd # None /\ ~slot[s].offloaded
  /\ slot[s].due # "off" \/ (slot[s].started /\ slot[s].kind = "headers")
  /\ CloseSlot(s) /\ UNCHANGED <<pool, handler, pass>>

\* The pass ends with every completion published so far answered.
PassOver == (\A s \in Slots : ~job[s].done) /\ Phase("late", "wait")

-----------------------------------------------------------------------------
(* New connections (loop/accept.mojo).                                     *)

\* A connection kept alive with nothing in progress, and one whose head arrives.
BetweenRequests(s) ==
  /\ slot[s].fd # None /\ ~slot[s].offloaded /\ slot[s].kind = "headers"
  /\ ~slot[s].started /\ slot[s].kept /\ slot[s].from = slot[s].to
HeadArriving(s) ==
  slot[s].fd # None /\ ~slot[s].offloaded /\ slot[s].kind = "headers" /\ slot[s].started
Takeable(k, s) == IF k = "idle" THEN BetweenRequests(s) ELSE HeadArriving(s)

Admit(from, to) ==
  phase = "admit" /\ pc = from /\ pc' = to /\ UNCHANGED <<at, short, eager, phase, batch, pool>>

Accept(c) ==
  /\ Admit("none", "borrow") /\ net[c].at = "backlog" /\ joining' = c
  /\ UNCHANGED <<slot, net, held>>

\* The lowest free slot, and its eager read.
Borrow ==
  LET s == CHOOSE s \in free : \A t \in free : s <= t IN
  /\ phase = "admit" /\ pc = "borrow" /\ free # {}
  /\ pc' = "read" /\ at' = s /\ eager' = TRUE /\ joining' = None
  /\ free' = free \ {s} /\ active' = active + 1 /\ queue' = PushBack("head", s)
  /\ slot' = [slot EXCEPT ![s] =
       [Prepared(@, FALSE) EXCEPT !.fd = joining, !.kept = FALSE, !.started = TRUE,
                                  !.armed = FALSE, !.due = "off"]]
  /\ net' = [net EXCEPT ![joining].at = "open"]
  /\ UNCHANGED <<pool, short, phase, batch>>

\* A read that left the slot in its head is where the reads are registered.
Eager(s) ==
  /\ pc = "eager" /\ at = s /\ pc' = "drain" /\ eager' = FALSE
  /\ IF slot[s].fd # None /\ slot[s].kind = "headers" THEN ArmReads(s, slot[s])
     ELSE UNCHANGED <<slot, net, held>>
  /\ UNCHANGED <<at, short, pool, pass>>

\* None is free: one is taken back from a connection a deadline counts down.
Full ==
  /\ Admit("borrow", "idle") /\ free = {}
  /\ UNCHANGED <<slot, net, held, joining>>

\* A slot that has moved on since it joined the queue leaves it.
ReclaimStale(k) ==
  /\ Admit(k, k) /\ queue[k] # <<>> /\ ~Takeable(k, Head(queue[k]))
  /\ queue' = [queue EXCEPT ![k] = Tail(@)]
  /\ UNCHANGED <<slot, net, free, active, joining>>

\* The front has waited long enough: it is closed.
ReclaimTakes(k) ==
  /\ Admit(k, "borrow") /\ queue[k] # <<>> /\ Takeable(k, Head(queue[k]))
  /\ CloseSlot(Head(queue[k])) /\ UNCHANGED joining

\* There is none, or the front is too young: the heads, then a refusal.
ReclaimNone(k) ==
  /\ queue[k] # <<>> => Takeable(k, Head(queue[k]))
  /\ \/ k = "idle" /\ Admit(k, "head") /\ UNCHANGED <<net, joining>>
     \/ /\ k = "head" /\ Admit(k, "none")
        /\ net' = [net EXCEPT ![joining] = NoConn("closed")] /\ joining' = None
  /\ UNCHANGED <<slot, held>>

AdmitOver == (\A c \in Conns : net[c].at # "backlog") /\ Phase("admit", "late")

-----------------------------------------------------------------------------
Init ==
  /\ slot = [s \in Slots |-> Blank] /\ net = [c \in Conns |-> NoConn("new")]
  /\ queue = [k \in {"idle", "head"} |-> <<>>] /\ free = Slots
  /\ active = 0 /\ inflight = 0 /\ job = [s \in Slots |-> NoJob]
  /\ phase = "wait" /\ pc = "none" /\ at = None /\ short = FALSE /\ eager = FALSE
  /\ batch = {} /\ joining = None

Handler(s) ==
  /\ at = s
  /\ \/ ReadFails(s) \/ ReadWaits(s) \/ ReadHead(s) \/ ReadBody(s)
     \/ FrameIncomplete(s) \/ FrameCloses(s) \/ FrameWhole(s) \/ FrameBody(s) \/ Linger(s)
     \/ Offload(s) \/ Answer(s) \/ FinishWhole(s) \/ FinishPart(s) \/ FinishFails(s)
     \/ SentLast(s) \/ EndRequest(s) \/ DrainNext(s) \/ DrainOver(s) \/ Eager(s)

Events == \E e \in batch :
  \/ DropEvent(e)
  \/ \E s \in Slots : \/ OnReadOffloaded(s, e) \/ OnRead(s, e) \/ OnReadLingering(s, e)
                      \/ OnReadResponding(s, e) \/ OnWrite(s, e) \/ OnTimer(s, e)

Admission ==
  \/ \E c \in Conns : Accept(c)
  \/ Borrow \/ Full
  \/ \E k \in {"idle", "head"} : ReclaimStale(k) \/ ReclaimTakes(k) \/ ReclaimNone(k)

Loop ==
  \/ \E s \in Slots : Handler(s) \/ Completes(s) \/ Expires(s)
  \/ Wait \/ Events \/ EventsOver \/ Admission \/ AdmitOver \/ PassOver

Clients == \E c \in Conns : Connect(c) \/ Send(c) \/ HalfClose(c) \/ Reset(c) \/ Drains(c)

Next == Loop \/ Clients \/ \E s \in Slots : JobDone(s)

\* The loop runs, a view returns, and a client that waits for an answer reads.
Fairness ==
  /\ WF_vars(Loop) /\ \A s \in Slots : WF_vars(JobDone(s))
  /\ \A c \in Conns : WF_vars(Drains(c))

Spec == Init /\ [][Next]_vars /\ Fairness

-----------------------------------------------------------------------------
(* What is promised.                                                       *)

\* Every variable has its type, and a provision is borrowed while its slot
\* holds a connection.
TypeOK ==
  /\ \A s \in Slots :
       /\ slot[s].fd \in Conns \cup {None}
       /\ slot[s].kind \in {"headers", "body", "processing", "responding", "lingering"}
       /\ slot[s].due \in {"off", "idle", "send", "linger"}
       /\ {slot[s].from, slot[s].end, slot[s].scanned, slot[s].left} \subseteq Nat
       /\ {slot[s].eof, slot[s].close, slot[s].kept, slot[s].started, slot[s].armed,
           slot[s].offloaded} \subseteq BOOLEAN
  /\ \A c \in Conns :
       /\ net[c].at \in {"new", "backlog", "open", "closed"}
       /\ net[c].interest \in {"read", "write", "none"}
       /\ To(c) \in 0 .. net[c].sent
  /\ free = Slots \ Held /\ active = Cardinality(Held)
  /\ at \in Slots \cup {None} /\ joining \in Conns \cup {None}
  /\ \A e \in batch : e.kind \in {"read", "write", "timer"} /\ e.conn \in Conns

\* A pool thread's answer goes to the connection that asked: a slot out with
\* the pool keeps its connection until the completion, whatever its timers,
\* its client or a full loop do meanwhile.
AnswersItsOwn ==
  /\ \A s \in Slots : IF slot[s].offloaded THEN job[s].conn = slot[s].fd ELSE job[s] = NoJob
  /\ inflight = Cardinality({s \in Slots : slot[s].offloaded})

\* The slots no handler is in the middle of.
Resting == Held \ {at}

\* No lost edge: what a resting slot that reads has not read of its socket,
\* bytes or an end, is reported by a wait or is among the events of this one.
Announced ==
  \A s \in Resting :
    LET n == net[slot[s].fd] IN
    slot[s].kind \in {"headers", "body", "lingering"} /\ Readable(n, slot[s].to)
      => \/ n.interest = "read" /\ n.ready
         \/ \E e \in batch : e.kind = "read" /\ e.conn = slot[s].fd

\* Every resting slot that waits for its client has a clock that ends the
\* wait, and no request that has begun runs on the clock of the idle before it.
Clocked ==
  \A s \in Resting :
    LET r == slot[s] n == net[r.fd] IN
    /\ r.kind = "headers" => r.started \/ r.due = "idle"
    /\ r.kind = "body" => n.timer
    /\ r.kind \in {"responding", "lingering"} => r.due # "off"
    /\ r.due = "idle" => r.kind = "headers" /\ r.from = r.to

\* A full loop finds every connection it may take back: each is on its
\* queue, and what is on a queue is held and is on it once.
Queued ==
  /\ \A k \in DOMAIN queue : \A s \in Resting : Takeable(k, s) => Contains(queue[k], s)
  /\ \A s \in Slots : \A k, l \in DOMAIN queue : \A i \in DOMAIN queue[k], j \in DOMAIN queue[l] :
       queue[k][i] = s /\ queue[l][j] = s => s \in Held /\ k = l /\ i = j

\* No connection is kept for ever by a client that does nothing: a deadline
\* ends its wait, or a full loop takes its slot back.
CanEnd == Clocked /\ Queued

\* No whole request stays in the buffer of a slot that waits to read: no
\* event would ever announce it.
BufferDrained ==
  \A s \in Resting : slot[s].kind = "headers" => Token(s) = "none"

\* What a client sent is never left where nothing will look for it, on its
\* socket or in its slot's buffer.
NothingMissed == Announced /\ BufferDrained

\* A half-closed client's connection is closed behind an answer only when
\* that answers the last thing it sent ("a request pipelined behind it keeps
\* the connection, so the rest is still answered").
LastAnswerLast ==
  [][\A s \in Slots : SentLast(s) /\ ~Asks(s)
       => LET n == net[slot[s].fd] IN n.gone \/ (n.fin /\ slot[s].end = n.sent)]_vars

=============================================================================
