------------------------------ MODULE Streams ------------------------------
(***************************************************************************)
(* Streamed WSGI bodies: a pool thread produces the body of a response     *)
(* whose head it has given to the loop, piece by piece over the loop's     *)
(* chunk channel, against a window of credit that comes back, with the     *)
(* news that the client left, on the thread's own ack pair                 *)
(* (m0-wsgi/src/blocking_pool.mojo and handler.mojo, and the loop's        *)
(* lightbug_http/loop/offload.mojo, streams.mojo, response.mojo).          *)
(*                                                                         *)
(* The threads run beside the loop.  A step of the loop is one handler of  *)
(* its pass; between the read of the completion channel and that of the    *)
(* completion ring, and between the slots it answers or drains, the        *)
(* threads move.  Bytes are counted in units; a piece, the bytes of one     *)
(* frame, is some of them, at most the window.  A send takes the whole     *)
(* buffer, part of it, or finds the client gone.                           *)
(***************************************************************************)
EXTENDS Integers, FiniteSets, FiniteSetsExt, SequencesExt

CONSTANTS
  NumSlots, NumThreads,
  ChunkRoom,     \* the datagrams the chunk channel holds
  Deployments,   \* the servers considered: see Deployed
  MaxRequests,   \* bound: requests of any of them
  None

Slots == 1 .. NumSlots
Threads == 1 .. NumThreads
Kinds == {"chunked", "plain", "head"}

\* A server has as many connections and pool threads, takes requests of these
\* kinds (see Ask) and gives a thread's ack pair this room.  A stream opens with
\* STREAM_PIECE, its window, as credit, and its body comes in pieces of these
\* sizes.  The bounds: the units of a body, and the requests.
Deployed ==
  [slots : Slots, threads : Threads, kinds : SUBSET Kinds, ackRoom : Nat \ {0},
   window : Nat, sizes : SUBSET Nat, units : Nat, requests : 0 .. MaxRequests]

ASSUME StreamsAssumption ==
  /\ NumSlots \in Nat /\ NumThreads \in Nat
  /\ ChunkRoom \in Nat \ {0} /\ MaxRequests \in Nat
  /\ Deployments \subseteq Deployed /\ \A d \in Deployments : d.sizes \subseteq 1 .. d.window
  /\ None \notin Threads

VARIABLES
  \* a pool thread
  pc, at,          \* what it is doing, and the slot whose job it has
  nth,             \* its stream's generation, counted from 1
  made,            \* the units of it that are placed
  hand,            \* the size of the piece it has in hand
  credit,
  \* between threads and loop
  jobs, ring,      \* slots submitted, slots completed
  parked,          \* the response parked for a slot: its generation, 0 for a 503
  slotAckFd,       \* slot_ack_fd: the thread whose pair takes the slot's acks
  chunk,           \* the chunk channel
  pair,            \* the ack pairs
  posted,          \* the aborts on the completion channel
  \* the loop
  slots,           \* what it knows of each slot
  handler,         \* its handler's registry of streams
  aborts,          \* those it has read off the completion channel
  due,             \* drain_due: streams whose last frame has landed
  \* how it went
  wire,            \* what reached the client of a slot's last response
  body,            \* the body produced for it: its stream, its units, its end
  marks,           \* what went wrong with the stream a thread has: see Marks
  asked,
  server           \* the server, one of Deployments

threadVars == <<pc, at, nth, made, hand, credit>>
loopVars == <<slots, handler, aborts, due>>
history == <<wire, body, marks>>
vars == <<threadVars, jobs, ring, parked, slotAckFd, chunk, pair, posted, loopVars,
          history, server, asked>>

(***************************************************************************)
(* Generations: a range of its own for each thread, and 0 for none         *)
(* (STREAM_GEN_NONE).                                                      *)
(***************************************************************************)
Gens == 1 .. NumThreads * (MaxRequests + 1)
Gen(t) == (t - 1) * (MaxRequests + 1) + nth[t]

\* What reaches a client: the head of a response, the units of a body, and
\* its end, said by the terminator or by a close that cuts the body off.
HeadOf(g) == <<g, 0>>
Unit(g, i) == <<g, i>>
Terminator == <<0, 1>>
CutOff(g) == <<g, -1>>

\* A frame: a begin names the thread, a piece the last unit of it and how many
\* there are.
Frame(k, s, g, v, n) == [kind |-> k, slot |-> s, gen |-> g, val |-> v, len |-> n]

\* A body as its application produced it.
Body(g) == [gen |-> g, units |-> 0, end |-> "open"]

\* A stream is "deaf" if its disconnect found the pair full, "starved" if its
\* thread threw credit away, and "paid" if it was credited with what an
\* earlier stream of its slot was owed.
Marks == {"deaf", "starved", "paid"}

\* A slot with no connection.
Unused ==
  [conn |-> "unused", kind |-> "plain", sse |-> FALSE, chunked |-> FALSE,
   close |-> FALSE, gen |-> 0, buf |-> <<>>, owes |-> 0, owed |-> 0]

Init ==
  /\ server \in Deployments
  /\ pc = [t \in Threads |-> "idle"] /\ at = [t \in Threads |-> None]
  /\ nth = [t \in Threads |-> 1] /\ made = [t \in Threads |-> 0]
  /\ hand = [t \in Threads |-> 0]
  /\ credit = [t \in Threads |-> 0]
  /\ jobs = <<>> /\ ring = <<>> /\ parked = [s \in Slots |-> 0]
  /\ slotAckFd = [s \in Slots |-> None]
  /\ chunk = <<>> /\ pair = [t \in Threads |-> <<>>] /\ posted = <<>>
  /\ slots = [s \in Slots |-> Unused]
  /\ handler = [sub |-> [s \in Slots |-> None], pending |-> [s \in Slots |-> <<>>],
                done |-> [s \in Slots |-> FALSE], gen |-> [s \in Slots |-> 0],
                ready |-> {}]
  /\ aborts = <<>> /\ due = {}
  /\ wire = [s \in Slots |-> <<>>] /\ body = [s \in Slots |-> Body(0)]
  /\ marks = [t \in Threads |-> {}] /\ asked = 0
-----------------------------------------------------------------------------
(***************************************************************************)
(* A pool thread.                                                          *)
(***************************************************************************)
Goes(t, p) == pc' = [pc EXCEPT ![t] = p]

\* The stream is over for its thread, whatever ended it.
Returns(t) ==
  /\ Goes(t, "idle") /\ nth' = [nth EXCEPT ![t] = @ + 1]
  /\ at' = [at EXCEPT ![t] = None] /\ made' = [made EXCEPT ![t] = 0]
  /\ hand' = [hand EXCEPT ![t] = 0]
  /\ credit' = [credit EXCEPT ![t] = 0] /\ marks' = [marks EXCEPT ![t] = {}]

\* The application's side of slot at[t]'s body; a stream the slot no longer
\* serves is nobody's.
Said(t, b) == body' = IF body[at[t]].gen = Gen(t) THEN [body EXCEPT ![at[t]] = b] ELSE body
Ends(t, how) == Said(t, [body[at[t]] EXCEPT !.end = how])

\* A job, and its view has run: drain_ack_fd, then set_slot_ack_fd, and credit
\* and a disconnect come to this thread from now on.
Take(t) ==
  /\ t =< server.threads /\ pc[t] = "idle" /\ Goes(t, "begin")
  /\ jobs # <<>> /\ jobs' = Tail(jobs)
  /\ at' = [at EXCEPT ![t] = Head(jobs)] /\ pair' = [pair EXCEPT ![t] = <<>>]
  /\ slotAckFd' = [slotAckFd EXCEPT ![Head(jobs)] = t]
  /\ body' = [body EXCEPT ![Head(jobs)] = Body(Gen(t))]
  /\ UNCHANGED <<nth, made, hand, credit, ring, parked, chunk, posted, loopVars, wire, marks,
                 server, asked>>

Begin(t) ==
  /\ pc[t] = "begin" /\ Len(chunk) < ChunkRoom
  /\ chunk' = Append(chunk, Frame("P", at[t], Gen(t), t, 0)) /\ Goes(t, "head")
  /\ UNCHANGED <<at, nth, made, hand, credit, jobs, ring, parked, slotAckFd, pair, posted,
                 loopVars, history, server, asked>>

\* The channel will not take the begin frame: the request is answered 503.
BeginRefused(t) ==
  /\ pc[t] = "begin" /\ Len(chunk) >= ChunkRoom
  /\ slotAckFd' = [slotAckFd EXCEPT ![at[t]] = None]
  /\ parked' = [parked EXCEPT ![at[t]] = 0] /\ ring' = Append(ring, at[t])
  /\ Goes(t, "idle") /\ at' = [at EXCEPT ![t] = None]
  /\ marks' = [marks EXCEPT ![t] = {}]
  /\ UNCHANGED <<nth, made, hand, credit, jobs, chunk, pair, posted, loopVars, wire, body, server,
                 asked>>

\* put_response and complete: the head, behind the begin frame.
Complete(t) ==
  /\ pc[t] = "head"
  /\ parked' = [parked EXCEPT ![at[t]] = Gen(t)] /\ ring' = Append(ring, at[t])
  /\ credit' = [credit EXCEPT ![t] = server.window] /\ Goes(t, "pump")
  /\ UNCHANGED <<at, nth, made, hand, jobs, slotAckFd, chunk, pair, posted, loopVars, history,
                 server, asked>>

\* Mutant: whatever slot they name.
CreditIn_AnySlot(seq, s) ==
  FoldLeft(LAMBDA sum, ack : IF ack[2] > 0 THEN sum + ack[2] ELSE sum, 0, seq)

\* The ack that says the client of slot `s` is gone (ACK_DISCONNECT).
Gone(s) == <<s, -1>>

\* What the other acks of `seq` that name slot `s` credit it with.
CreditIn(seq, s) ==
  FoldLeft(LAMBDA sum, ack : IF ack[1] = s /\ ack # Gone(s) THEN sum + ack[2] ELSE sum, 0, seq)

\* With credit for a piece of size `n` it is placed, without it the thread
\* waits for an ack.
WithCredit(t, n, c) ==
  /\ credit' = [credit EXCEPT ![t] = c] /\ hand' = [hand EXCEPT ![t] = n]
  /\ Goes(t, IF c >= n THEN "place" ELSE "wait")
  /\ UNCHANGED <<at, nth, made, marks>>

\* The application's iterable gives a piece.  Before it is placed, the acks
\* already waiting are read, as far as the disconnect if it is among them.
Yield(t) ==
  LET told == {i \in DOMAIN pair[t] : pair[t][i] = Gone(at[t])}
  IN /\ pc[t] = "pump" /\ made[t] < server.units
     /\ \/ /\ told # {} /\ Returns(t)
           /\ pair' = [pair EXCEPT ![t] = SubSeq(@, Min(told) + 1, Len(@))]
        \/ /\ told = {}
           /\ \E n \in server.sizes : /\ n =< server.units - made[t]
                                     /\ WithCredit(t, n, credit[t] + CreditIn(pair[t], at[t]))
           /\ pair' = [pair EXCEPT ![t] = <<>>]
     /\ UNCHANGED <<jobs, ring, parked, slotAckFd, chunk, posted, loopVars, wire, body, server,
                    asked>>

\* It is exhausted, or it raises.
Stop(t) ==
  /\ pc[t] = "pump"
  /\ \/ Goes(t, "end") /\ Ends(t, "whole")
     \/ Goes(t, "abort") /\ Ends(t, "cut")
  /\ UNCHANGED <<at, nth, made, hand, credit, jobs, ring, parked, slotAckFd, chunk, pair, posted,
                 loopVars, wire, marks, server, asked>>

\* Without credit: one ack at a time, those of other slots skipped.
WaitAck(t) ==
  LET ack == Head(pair[t])
  IN /\ pc[t] = "wait" /\ pair[t] # <<>>
     /\ pair' = [pair EXCEPT ![t] = Tail(@)]
     /\ \/ ack = Gone(at[t]) /\ Returns(t)
        \/ ack # Gone(at[t]) /\ WithCredit(t, hand[t], credit[t] + CreditIn(<<ack>>, at[t]))
     /\ UNCHANGED <<jobs, ring, parked, slotAckFd, chunk, posted, loopVars, wire, body, server,
                    asked>>

\* The frame of the piece in hand, or of the body's end.
Place(t) ==
  /\ Len(chunk) < ChunkRoom
  /\ \/ /\ pc[t] \in {"place", "full"} /\ hand[t] > 0 /\ made' = [made EXCEPT ![t] = @ + hand[t]]
        /\ chunk' = Append(chunk, Frame("s", at[t], Gen(t), made'[t], hand[t]))
        /\ Said(t, [body[at[t]] EXCEPT !.units = made'[t]])
        /\ credit' = [credit EXCEPT ![t] = @ - hand[t]] /\ Goes(t, "pump")
        /\ hand' = [hand EXCEPT ![t] = 0]
        /\ UNCHANGED <<at, nth, marks>>
     \/ /\ pc[t] \in {"end", "full"} /\ hand[t] = 0 /\ Returns(t) /\ UNCHANGED body
        /\ chunk' = Append(chunk, Frame("e", at[t], Gen(t), 0, 0))
  /\ UNCHANGED <<jobs, ring, parked, slotAckFd, pair, posted, loopVars, wire, server, asked>>

\* The channel is full: the thread waits for room.
PlaceRefused(t) ==
  /\ pc[t] \in {"place", "end"} /\ Len(chunk) >= ChunkRoom /\ Goes(t, "full")
  /\ UNCHANGED <<at, nth, made, hand, credit, jobs, ring, parked, slotAckFd, chunk, pair, posted,
                 loopVars, history, server, asked>>

\* It reads an ack at every turn of its wait.  The disconnect ends the stream;
\* credit is thrown away.
PlaceWaits(t) ==
  LET ack == Head(pair[t])
  IN /\ pc[t] = "full" /\ pair[t] # <<>>
     /\ pair' = [pair EXCEPT ![t] = Tail(@)]
     /\ \/ ack = Gone(at[t]) /\ Returns(t)
        \/ /\ ack # Gone(at[t]) /\ UNCHANGED threadVars
           /\ marks' = IF ack[1] = at[t] THEN [marks EXCEPT ![t] = @ \cup {"starved"}] ELSE marks
     /\ UNCHANGED <<jobs, ring, parked, slotAckFd, chunk, posted, loopVars, wire, body, server,
                    asked>>

\* After some five seconds of that, it gives the body up.
GiveUp(t) ==
  /\ pc[t] = "full" /\ Len(chunk) >= ChunkRoom /\ Goes(t, "abort") /\ Ends(t, "cut")
  /\ UNCHANGED <<at, nth, made, hand, credit, jobs, ring, parked, slotAckFd, chunk, pair, posted,
                 loopVars, wire, marks, server, asked>>

\* abort_stream, which the completion channel always has room for.
Abort(t) ==
  /\ pc[t] = "abort"
  /\ posted' = Append(posted, <<at[t], Gen(t)>>) /\ Returns(t)
  /\ UNCHANGED <<jobs, ring, parked, slotAckFd, chunk, pair, loopVars, wire, body, server, asked>>
-----------------------------------------------------------------------------
(***************************************************************************)
(* The loop's handler, `h`: its registry of streams, as values.            *)
(***************************************************************************)
Unsubscribed(h, s) ==
  [h EXCEPT !.sub[s] = None, !.pending[s] = <<>>, !.ready = @ \cup {s}]

\* Mutant: a frame is its slot's, whichever stream it names.
Peer_AnyStream(h, f) ==
  LET s == f.slot
  IN CASE f.kind = "P" ->
            [h EXCEPT !.sub[s] = f.val, !.done[s] = FALSE, !.gen[s] = f.gen]
       [] f.kind = "s" /\ h.sub[s] # None ->
            [h EXCEPT !.pending[s] = @ \o [i \in 1 .. f.len |-> Unit(f.gen, f.val - f.len + i)],
                      !.ready = @ \cup {s}]
       [] f.kind = "e" /\ h.pending[s] # <<>> ->
            [h EXCEPT !.done[s] = TRUE, !.ready = @ \cup {s}]
       [] f.kind = "e" /\ h.pending[s] = <<>> -> Unsubscribed(h, s)
       [] OTHER -> h

\* sse_peer_frame: a begin subscribes its slot; pieces and the end count
\* only for the stream that subscribed it.
Peer(h, f) ==
  LET s == f.slot
      ours == h.gen[s] = f.gen
  IN CASE f.kind = "P" ->
            [h EXCEPT !.sub[s] = f.val, !.done[s] = FALSE, !.gen[s] = f.gen]
       [] f.kind = "s" /\ h.sub[s] # None /\ ours ->
            [h EXCEPT !.pending[s] = @ \o [i \in 1 .. f.len |-> Unit(f.gen, f.val - f.len + i)],
                      !.ready = @ \cup {s}]
       [] f.kind = "e" /\ ours /\ h.pending[s] # <<>> ->
            [h EXCEPT !.done[s] = TRUE, !.ready = @ \cup {s}]
       [] f.kind = "e" /\ ours /\ h.pending[s] = <<>> -> Unsubscribed(h, s)
       [] OTHER -> h

\* The handler once every frame on the chunk channel is delivered.
Delivered == FoldLeft(Peer, handler, chunk)

\* sse_drain_slot: the bytes go to the loop, and with the last the subscription.
Drained(h, s) ==
  IF h.done[s] THEN [Unsubscribed(h, s) EXCEPT !.done[s] = FALSE]
               ELSE [h EXCEPT !.pending[s] = <<>>]

\* sse_slot_disconnected, what it forgets; whom it tells is Tell.
Disconnected(h, s) ==
  [Unsubscribed(h, s) EXCEPT !.done[s] = FALSE, !.gen[s] = 0]

\* ... and the thread whose pair the begin frame named is told, if its pair
\* has room; `p` is what the pairs hold by then.
Tell(s, h, p) ==
  LET t == h.sub[s]
  IN IF t = None THEN pair' = p /\ UNCHANGED marks
     ELSE IF Len(p[t]) < server.ackRoom
     THEN pair' = [p EXCEPT ![t] = Append(@, Gone(s))] /\ UNCHANGED marks
     ELSE /\ pair' = p
          /\ marks' = IF at[t] # None /\ Gen(t) = h.gen[s]
                      THEN [marks EXCEPT ![t] = @ \cup {"deaf"}] ELSE marks
-----------------------------------------------------------------------------
(***************************************************************************)
(* The loop.  `r` is what it knows of slot `s`, `h` its handler and `p`    *)
(* the ack pairs, each as the step so far has left them.                   *)
(***************************************************************************)
\* No completions are being serviced: another handler of the pass may run.
Free == aborts = <<>>

\* _close_slot.  What is not cleared here stays for the slot's next connection.
Closes(s, r, h, p) ==
  /\ slots' = [slots EXCEPT ![s] = [Unused EXCEPT !.gen = r.gen, !.owed = r.owed]]
  /\ handler' = IF r.sse THEN Disconnected(h, s) ELSE h
  /\ IF r.sse THEN Tell(s, h, p) ELSE pair' = p /\ UNCHANGED marks

Stays(s, r, h, p) ==
  slots' = [slots EXCEPT ![s] = r] /\ handler' = h /\ pair' = p /\ UNCHANGED marks

Reaches(s, items) == wire' = [wire EXCEPT ![s] = @ \o items]

\* _after_send: the buffer `out` has landed whole.  A stream goes back to idling.
Landed(s, r, h, p, out) ==
  /\ Reaches(s, out)
  /\ \/ r.close /\ Closes(s, r, h, p)
     \/ ~r.close /\ r.sse /\ Stays(s, [r EXCEPT !.conn = "idle", !.buf = <<>>], h, p)
     \/ ~r.close /\ ~r.sse /\ Stays(s, [r EXCEPT !.conn = "ready", !.buf = <<>>], h, p)

\* A send takes part of the buffer: the rest waits until the socket is writable.
Waits(s, r, h, p, out) ==
  Stays(s, [r EXCEPT !.conn = "sending", !.buf = out], h, p) /\ UNCHANGED wire

\* A send finds the client gone.
Fails(s, r, h, p) == Closes(s, r, h, p) /\ UNCHANGED wire

\* Mutant: only a frame names a stream to the drain.
DueIf_Named(s, r) == due' = due

\* A stream that idles again is visited by the next drain.
DueIf(s, r) == due' = IF r.sse /\ ~r.close THEN due \cup {s} ELSE due

\* ack_stream, with the ack kept owed when the pair has no room for it.  A
\* slot no thread is registered for is acked on the executors' channel.
Room(s) == slotAckFd[s] # None => Len(pair[slotAckFd[s]]) < server.ackRoom
Acked(s, n) ==
  IF n = 0 \/ slotAckFd[s] = None \/ ~Room(s) THEN pair
  ELSE [pair EXCEPT ![slotAckFd[s]] = Append(@, <<s, n>>)]

\* Mutant: a refused ack is dropped.
Owing_Dropped(s, r, n) == r

Owing(s, r, n) == IF Room(s) THEN r ELSE [r EXCEPT !.owed = @ + n]

\* clear_stream: the slot's stream is forgotten, and the thread its acks went to.
Cleared(s) == slotAckFd' = [slotAckFd EXCEPT ![s] = None]

\* A client connects to a free slot, or asks again on a connection kept
\* alive, and the loop submits the job: a streamed view under HTTP/1.1,
\* under HTTP/1.0, or with the method HEAD.
Ask(s, kind) ==
  LET r == slots[s]
  IN /\ s =< server.slots /\ kind \in server.kinds
     /\ Free /\ asked < server.requests /\ asked' = asked + 1
     /\ \/ /\ r.conn = "unused" /\ Cleared(s)
           /\ slots' = [slots EXCEPT ![s] =
                [r EXCEPT !.conn = "offloaded", !.kind = kind, !.gen = 0]]
        \/ /\ r.conn = "ready" /\ UNCHANGED slotAckFd
           /\ slots' = [slots EXCEPT ![s] = [r EXCEPT !.conn = "offloaded", !.kind = kind]]
     /\ jobs' = Append(jobs, s) /\ wire' = [wire EXCEPT ![s] = <<>>]
     /\ UNCHANGED <<threadVars, ring, parked, chunk, pair, posted, handler, aborts, due, body,
                    marks, server>>

\* The chunk channel is readable.
DeliverBusFrames ==
  /\ Free /\ chunk # <<>> /\ chunk' = <<>> /\ handler' = Delivered
  /\ UNCHANGED <<threadVars, jobs, ring, parked, slotAckFd, pair, posted, slots, aborts, due,
                 history, server, asked>>

\* _service_completions: the channel is read first, when it is read, and then
\* the ring, whose completions are answered before the channel's aborts.
ReadChannel ==
  /\ Free /\ posted # <<>> /\ aborts' = posted /\ posted' = <<>>
  /\ UNCHANGED <<threadVars, jobs, ring, parked, slotAckFd, chunk, pair, slots, handler, due,
                 history, server, asked>>

\* _finish_response for a stream: the flags are set before the head is sent,
\* and credit the slot's previous stream was owed dies.
Streaming(r, g) ==
  [r EXCEPT !.sse = TRUE, !.chunked = r.kind = "chunked", !.gen = g, !.owes = 0, !.owed = 0]

\* ... and for a 503, or the head alone that a HEAD is answered with.
Ordinary(r, g) ==
  [r EXCEPT !.sse = FALSE, !.chunked = FALSE, !.gen = 0, !.owes = 0, !.owed = 0,
            !.close = g = 0]

\* _complete_one: a stream's begin frame, sent before its completion, is
\* delivered before its head goes out.
CompleteStream ==
  LET s == Head(ring)
      g == parked[s]
      r == Streaming(slots[s], g)
      out == <<HeadOf(g)>>
  IN /\ ring # <<>> /\ g # 0 /\ slots[s].kind # "head"
     /\ ring' = Tail(ring) /\ parked' = [parked EXCEPT ![s] = 0] /\ chunk' = <<>>
     /\ \/ Landed(s, r, Delivered, pair, out) /\ DueIf(s, r)
        \/ Waits(s, r, Delivered, pair, out) /\ UNCHANGED due
        \/ Fails(s, r, Delivered, pair) /\ UNCHANGED due
     /\ UNCHANGED <<threadVars, jobs, slotAckFd, posted, aborts, body, server, asked>>

\* A HEAD drops the subscription through the hook a stream's close calls.
CompleteHead ==
  LET s == Head(ring)
      r == Ordinary(slots[s], parked[s])
      out == <<HeadOf(0)>>
  IN /\ ring # <<>> /\ parked[s] # 0 /\ slots[s].kind = "head"
     /\ ring' = Tail(ring) /\ parked' = [parked EXCEPT ![s] = 0] /\ chunk' = <<>> /\ Cleared(s)
     /\ Tell(s, Delivered, pair) /\ handler' = Disconnected(Delivered, s)
     /\ \/ /\ slots' = [slots EXCEPT ![s] = [r EXCEPT !.conn = "ready"]] /\ Reaches(s, out)
        \/ /\ slots' = [slots EXCEPT ![s] = [r EXCEPT !.conn = "sending", !.buf = out]]
           /\ UNCHANGED wire
        \/ slots' = [slots EXCEPT ![s] = Unused] /\ UNCHANGED wire
     /\ UNCHANGED <<threadVars, jobs, posted, aborts, due, body, server, asked>>

CompleteRefused ==
  LET s == Head(ring)
      r == Ordinary(slots[s], 0)
      out == <<HeadOf(0)>>
  IN /\ ring # <<>> /\ parked[s] = 0
     /\ ring' = Tail(ring) /\ parked' = [parked EXCEPT ![s] = 0] /\ Cleared(s)
     /\ \/ Landed(s, r, handler, pair, out)
        \/ Waits(s, r, handler, pair, out)
        \/ Fails(s, r, handler, pair)
     /\ UNCHANGED <<threadVars, jobs, chunk, due, posted, aborts, body, server, asked>>

\* ... then the aborts: only for the stream the slot still serves.  What the
\* body still had is sent, whatever the slot was sending, and the slot closes.
ServeAbort ==
  LET s == aborts[1][1]
      r == slots[s]
  IN /\ ring = <<>> /\ aborts # <<>> /\ aborts' = Tail(aborts)
     /\ \/ /\ r.sse /\ r.gen = aborts[1][2]
           /\ \/ Reaches(s, Append(handler.pending[s], CutOff(aborts[1][2])))
              \/ Reaches(s, <<CutOff(aborts[1][2])>>)
           /\ Closes(s, [r EXCEPT !.gen = 0], Drained(handler, s), pair) /\ Cleared(s)
        \/ /\ ~(r.sse /\ r.gen = aborts[1][2])
           /\ UNCHANGED <<wire, slots, handler, pair, marks, slotAckFd>>
     /\ UNCHANGED <<threadVars, jobs, ring, parked, chunk, posted, due, body, server, asked>>

\* The write-ready path: the rest of the buffer lands, and what it owes is acked.
WriteReady(s) ==
  LET r == slots[s]
      n == IF slotAckFd[s] = None THEN 0 ELSE r.owes
      paid == [Owing(s, r, n) EXCEPT !.owes = 0]
  IN /\ Free /\ r.conn = "sending"
     /\ \/ Landed(s, paid, handler, Acked(s, n), r.buf) /\ DueIf(s, r)
        \/ Fails(s, r, handler, pair) /\ UNCHANGED due
     /\ UNCHANGED <<threadVars, jobs, ring, parked, slotAckFd, chunk, posted, aborts, body,
                    server, asked>>

\* A client closes its connection, seen where the loop reads it.
ClientLeaves(s) ==
  /\ Free /\ slots[s].conn \in {"idle", "ready"} /\ Fails(s, slots[s], handler, pair)
  /\ UNCHANGED <<due, threadVars, jobs, ring, parked, slotAckFd, chunk, posted,
                 aborts, body, server, asked>>

\* The bottom of a pass: credit still owed is offered again, ...
RetryOwedAcks(s) ==
  LET r == slots[s]
      t == slotAckFd[s]
  IN /\ Free /\ r.owed > 0
     /\ \/ r.conn = "unused" /\ UNCHANGED <<pair, marks>>
        \/ /\ r.conn # "unused" /\ Room(s) /\ pair' = Acked(s, r.owed)
           /\ marks' = IF t # None /\ at[t] = s /\ r.gen # Gen(t)
                       THEN [marks EXCEPT ![t] = @ \cup {"paid"}] ELSE marks
     /\ slots' = [slots EXCEPT ![s].owed = 0]
     /\ UNCHANGED <<threadVars, jobs, ring, parked, slotAckFd, chunk, posted, handler, aborts,
                    due, wire, body, server, asked>>

\* ... and the streams the handler names are visited, with those whose last
\* frame has landed; nothing is while nothing streams.
Visits(s) ==
  /\ Free /\ s \in handler.ready \cup due /\ \E z \in Slots : slots[z].sse
  /\ due' = due \ {s}
Named(h, s) == [h EXCEPT !.ready = @ \ {s}]
Drainable(s) == slots[s].sse /\ slots[s].conn = "idle"

ForgetDue ==
  /\ Free /\ due # {} /\ due' = {} /\ \A s \in Slots : ~slots[s].sse
  /\ UNCHANGED <<threadVars, jobs, ring, parked, slotAckFd, chunk, pair, posted, slots, handler,
                 aborts, history, server, asked>>

\* _drain_slot: a slot that streams nothing, or is still sending, is passed by.
PassBy(s) ==
  /\ Visits(s) /\ ~Drainable(s) /\ handler' = Named(handler, s)
  /\ UNCHANGED <<threadVars, jobs, ring, parked, slotAckFd, chunk, pair, posted, slots, aborts,
                 history, server, asked>>

\* The stream goes on: its bytes go out, and are acked once they have landed.
DrainBytes(s) ==
  LET r == slots[s]
      h == Drained(Named(handler, s), s)
      out == handler.pending[s]
      n == IF slotAckFd[s] = None THEN 0 ELSE Len(out)
  IN /\ Visits(s) /\ Drainable(s) /\ (slotAckFd[s] = None \/ h.sub[s] # None)
     /\ \/ /\ out # <<>> /\ Reaches(s, out)
           /\ Stays(s, Owing(s, r, n), h, Acked(s, n))
        \/ out # <<>> /\ Waits(s, [r EXCEPT !.owes = n], h, pair, out)
        \/ out # <<>> /\ Fails(s, r, h, pair)
        \/ out = <<>> /\ Stays(s, r, h, pair) /\ UNCHANGED wire
     /\ UNCHANGED <<threadVars, jobs, ring, parked, slotAckFd, chunk, posted, aborts, body,
                    server, asked>>

\* The stream has ended: its last bytes, under HTTP/1.1 the terminator, and
\* the slot's next request; otherwise the close that ends the body.
DrainLast(s) ==
  LET r == slots[s]
      h == Drained(Named(handler, s), s)
      n == Len(handler.pending[s])
      out == handler.pending[s] \o IF r.chunked THEN <<Terminator>> ELSE <<>>
      over == IF r.chunked THEN [r EXCEPT !.sse = FALSE, !.chunked = FALSE, !.gen = 0]
                           ELSE [r EXCEPT !.close = TRUE, !.gen = 0]
  IN /\ Visits(s) /\ Drainable(s) /\ slotAckFd[s] # None /\ h.sub[s] = None /\ Cleared(s)
     /\ \/ Landed(s, Owing(s, over, n), h, Acked(s, n), out)
        \/ out # <<>> /\ Waits(s, [over EXCEPT !.owes = n], h, pair, out)
        \/ out # <<>> /\ Fails(s, r, h, pair)
     /\ UNCHANGED <<threadVars, jobs, ring, parked, chunk, posted, aborts, body, server, asked>>
-----------------------------------------------------------------------------
Produces(t) ==
  \/ Take(t) \/ Begin(t) \/ BeginRefused(t) \/ Complete(t) \/ Yield(t) \/ Stop(t)
  \/ WaitAck(t) \/ Place(t) \/ PlaceRefused(t) \/ Abort(t)

Serves ==
  \/ DeliverBusFrames \/ ReadChannel
  \/ CompleteStream \/ CompleteHead \/ CompleteRefused \/ ServeAbort
  \/ ForgetDue
  \/ \E s \in Slots : RetryOwedAcks(s) \/ PassBy(s) \/ DrainBytes(s) \/ DrainLast(s)

\* The thread's stream was not told, or threw away, what it waits for.
Lost(t) == marks[t] \cap {"deaf", "starved"} # {}

\* All requests are served, and who still waits for an ack waits for good.
Rest ==
  /\ Free /\ jobs = <<>> /\ ring = <<>> /\ chunk = <<>> /\ posted = <<>>
  /\ asked = server.requests
  /\ \A t \in Threads : pc[t] = "idle" \/ Lost(t)
  /\ UNCHANGED vars

Next ==
  \/ \E t \in Threads : Produces(t) \/ PlaceWaits(t) \/ GiveUp(t)
  \/ Serves
  \/ \E s \in Slots :
       WriteReady(s) \/ ClientLeaves(s) \/ \E kind \in Kinds : Ask(s, kind)
  \/ Rest

Spec == Init /\ [][Next]_vars

(***************************************************************************)
(* Each thread runs, and its application's body ends; the loop makes its   *)
(* passes; a client reads, or its end of the connection fails.  Nobody has *)
(* to leave, or to ask.                                                    *)
(***************************************************************************)
Fairness ==
  /\ \A t \in Threads : WF_vars(Produces(t))
  /\ WF_vars(Serves)
  /\ \A s \in Slots : WF_vars(WriteReady(s))

FairSpec == Spec /\ Fairness
-----------------------------------------------------------------------------
TypeOK ==
  /\ server \in Deployments
  /\ pc \in [Threads -> {"idle", "begin", "head", "pump", "wait", "place", "end", "full",
                         "abort"}]
  /\ at \in [Threads -> Slots \cup {None}] /\ nth \in [Threads -> Nat]
  /\ made \in [Threads -> Nat] /\ hand \in [Threads -> Nat] /\ credit \in [Threads -> Nat]
  /\ jobs \in Seq(Slots) /\ ring \in Seq(Slots)
  /\ parked \in [Slots -> {0} \cup Gens] /\ slotAckFd \in [Slots -> Threads \cup {None}]
  /\ chunk \in Seq([kind : {"P", "s", "e"}, slot : Slots, gen : Gens, val : Nat, len : Nat])
  /\ pair \in [Threads -> Seq(Slots \X Int)]
  /\ posted \in Seq(Slots \X Gens) /\ aborts \in Seq(Slots \X Gens)
  /\ slots \in [Slots ->
       [conn : {"unused", "ready", "offloaded", "sending", "idle"},
        kind : Kinds, sse : BOOLEAN, chunked : BOOLEAN,
        close : BOOLEAN, gen : {0} \cup Gens, buf : Seq(Nat \X Nat), owes : Nat, owed : Nat]]
  /\ handler \in
       [sub : [Slots -> Threads \cup {None}], pending : [Slots -> Seq(Gens \X Nat)],
        done : [Slots -> BOOLEAN], gen : [Slots -> {0} \cup Gens], ready : SUBSET Slots]
  /\ due \subseteq Slots
  /\ wire \in [Slots -> Seq(Nat \X Int)]
  /\ body \in [Slots -> [gen : {0} \cup Gens, units : Nat, end : {"open", "whole", "cut"}]]
  /\ marks \in [Threads -> SUBSET Marks] /\ asked \in Nat

\* The stream whose head opened slot `s`'s response, and the body behind it.
StreamOf(s) == wire[s][1][1]
IsCut(s) == Last(wire[s]) = CutOff(StreamOf(s))
IsWhole(s) == Last(wire[s]) = Terminator
BodyOf(s) == IF IsWhole(s) THEN Front(Tail(wire[s])) ELSE Tail(wire[s])

InOrder(s) ==
  /\ wire[s][1] = HeadOf(StreamOf(s))
  /\ \A i \in DOMAIN BodyOf(s) : BodyOf(s)[i] = Unit(StreamOf(s), i)

\* What a client has of a body is its own stream's bytes in order, whoever
\* else's frames, acks and aborts were on their way to a slot used before;
\* it is told the body is complete only when it has all that the
\* application produced, and cut off only when the body failed.
BodyTrue ==
  \A s \in Slots : wire[s] # <<>> =>
    \/ IsCut(s) /\ body[s].gen = StreamOf(s) /\ body[s].end = "cut"
    \/ /\ InOrder(s)
       /\ IsWhole(s) =>
            body[s] = [gen |-> StreamOf(s), units |-> Len(BodyOf(s)), end |-> "whole"]

\* What the frames of stream `g` on a channel hold.
InChunk(q, g) == FoldLeft(LAMBDA n, f : IF f.gen = g THEN n + f.len ELSE n, 0, q)

\* A thread's credit and what its stream has under way, between the thread
\* and the client and back, never come to more than the window, so that its
\* pieces always fit the slot's outbox.
UnderWay(t) ==
  LET s == at[t]
      g == Gen(t)
  IN InChunk(chunk, g)
     + (IF handler.gen[s] = g THEN Len(handler.pending[s]) ELSE 0)
     + (IF slots[s].gen = g THEN slots[s].owes + slots[s].owed ELSE 0)
     + CreditIn(pair[t], s)
InWindow ==
  \A t \in Threads :
    pc[t] \in {"pump", "wait", "place", "full"} /\ "paid" \notin marks[t]
      => credit[t] + UnderWay(t) =< server.window

\* A thread comes back from every stream, however its client behaves: the
\* credit it waits for, or the news that the client left, reaches it.
ThreadsReturn ==
  \A t \in Threads :
    pc[t] # "idle" ~> (pc[t] = "idle" \/ Lost(t))

\* Every request is answered to its end, or its connection closed.
StreamsEnd ==
  \A s \in Slots :
    slots[s].conn = "offloaded"
      ~> \/ slots[s].conn \in {"ready", "unused"}
         \/ \E t \in Threads : at[t] = s /\ Gen(t) = slots[s].gen /\ "starved" \in marks[t]
=============================================================================
