------------------------------- MODULE Holds -------------------------------
(***************************************************************************)
(* Held streams and the bus that feeds them: every worker's loop keeps a   *)
(* registry of the streams it holds and a journal of the newest frames it  *)
(* was sent; an application numbers a frame from the counter the workers   *)
(* share and writes it to every worker's channel, one at a time; a client  *)
(* that comes back with the last id it saw is caught up from the journal   *)
(* or told that it cannot be (m0-http/src/sse/registry.mojo, replay.mojo,  *)
(* m0-wsgi/src/handler.mojo, the bus of lightbug_http/broadcast.mojo and   *)
(* its Python publishers).                                                 *)
(*                                                                         *)
(* A loop reads its channel to the end in one go, while the writers of     *)
(* other processes are between two channels; a worker may die at any point *)
(* and its replacement inherits the channel and what is in it.  The bytes  *)
(* of a stream on their way are Streams' subject: here an outbox is handed *)
(* to its client whole or goes with the connection.                        *)
(***************************************************************************)
EXTENDS Integers, FiniteSets, SequencesExt

CONSTANTS
  NumWorkers, NumSlots,
  Clients,
  Channels,
  Follows,       \* Follows[c]: the channel client c asks for
  BusRoom,       \* the datagrams a worker's channel holds
  Leftovers,     \* the ids a client may arrive with from a server before this one
  MaxId,         \* bound: frames published
  MaxVisits,     \* bound: requests of a client
  Deployments,   \* the servers considered: see Deployed
  None

Workers == 0 .. NumWorkers - 1
Slots == 1 .. NumSlots

\* A server runs its applications on pool threads or on the loop's own, keeps a
\* journal of this many frames, has this room for them in an outbox
\* (MAX_PENDING_BYTES), and loses this many workers (a bound).
Deployed == [pooled : BOOLEAN, replay : Nat, outbox : Nat \ {0}, deaths : Nat]

ASSUME HoldsAssumption ==
  /\ NumWorkers \in Nat \ {0} /\ NumSlots \in Nat \ {0}
  /\ Follows \in [Clients -> Channels]
  /\ BusRoom \in Nat \ {0}
  /\ Leftovers \subseteq Nat /\ MaxId \in Nat /\ MaxVisits \in Nat
  /\ Deployments \subseteq Deployed
  /\ None \notin Channels \cup Workers

VARIABLES
  server,    \* the deployment, one of Deployments
  counter,   \* the shared counter: the newest id given out
  posting,   \* per worker, the frame its application is writing and the next
             \* worker to write it to
  bus,       \* per worker, its channel
  loop,      \* per worker, its handler's journal and registry: see LoopState
  client,    \* see ClientState
  deaths     \* workers lost so far

vars == <<server, counter, posting, bus, loop, client, deaths>>

NoEventId == -1
Gap == [id |-> NoEventId, channel |-> None]

Events == [id : 1 .. MaxId, channel : Channels]
Frames ==
  [kind : {"event"}, id : 1 .. MaxId, channel : Channels]
    \cup [kind : {"h"}, id : Nat, channel : Channels, slot : Slots]

\* "read" and "before" are history: the frames read off the worker's channel by
\* this process and those before it, and those of them on the channel of the
\* slot's stream when it was held.
LoopState ==
  [floor : Nat, head : Nat, journal : Seq(Events),
   url : [Slots -> Channels \cup {None}],
   last : [Slots -> Nat],
   pending : [Slots -> Seq(Events \cup {Gap})],
   read : SUBSET Events, before : [Slots -> SUBSET Events]]

\* "seen" is what the client sends as Last-Event-ID, "asked" what it sent for
\* the stream it is on, "got" (history) what that stream has brought it.
ClientState ==
  [phase : {"away", "asked", "sent", "held"}, worker : Workers, slot : Slots,
   seen : Nat, asked : Nat, got : Seq(Events \cup {Gap}), visits : 0 .. MaxVisits]

\* Mutant: a replacement's journal starts at 0.
Started_AtZero(id, read) ==
  [floor |-> 0, head |-> 0, journal |-> <<>>,
   url |-> [s \in Slots |-> None], last |-> [s \in Slots |-> 0],
   pending |-> [s \in Slots |-> <<>>],
   read |-> read, before |-> [s \in Slots |-> {}]]

\* The handler's construction: the journal starts after every id given out
\* before this loop existed.
Started(id, read) ==
  [floor |-> id, head |-> id, journal |-> <<>>,
   url |-> [s \in Slots |-> None], last |-> [s \in Slots |-> 0],
   pending |-> [s \in Slots |-> <<>>],
   read |-> read, before |-> [s \in Slots |-> {}]]

Init ==
  /\ server \in Deployments
  /\ counter = 0
  /\ posting = [w \in Workers |-> None]
  /\ bus = [w \in Workers |-> <<>>]
  /\ loop = [w \in Workers |-> Started(0, {})]
  /\ client \in [Clients -> {[phase |-> "away", worker |-> 0, slot |-> 1, seen |-> id,
                              asked |-> 0, got |-> <<>>, visits |-> 0] :
                             id \in Leftovers \cup {0}}]
  /\ deaths = 0

-----------------------------------------------------------------------------
(* The registry.  Each operator takes a loop's state and gives the next. *)

Subscribed(l, s, ch, id) == [l EXCEPT !.url[s] = ch, !.last[s] = id]

Unsubscribed(l, s) == [l EXCEPT !.url[s] = None, !.last[s] = 0, !.pending[s] = <<>>]

\* Mutant: the filter on redelivery is dropped.
Takes_AnyId(l, s, f) == l.url[s] # None /\ Len(l.pending[s]) < server.outbox

\* The filter on redelivery and the bound on the outbox.
Takes(l, s, f) ==
  /\ l.url[s] # None
  /\ f.id = NoEventId \/ f.id > l.last[s]
  /\ Len(l.pending[s]) < server.outbox

Queued(l, s, f) ==
  IF Takes(l, s, f)
  THEN [l EXCEPT !.pending[s] = Append(@, f),
                 !.last[s] = IF f.id = NoEventId THEN @ ELSE f.id]
  ELSE l

\* One frame for every slot on its channel.
Notified(l, f) ==
  LET reached == {s \in Slots : l.url[s] = f.channel /\ Takes(l, s, f)}
  IN [l EXCEPT
        !.pending = [s \in Slots |-> IF s \in reached THEN Append(@[s], f) ELSE @[s]],
        !.last = [s \in Slots |-> IF s \in reached THEN f.id ELSE @[s]]]

(* The journal. *)

\* The first frame a loop that knows of none sees: what came before it is
\* history the journal does not have.
FloorFor(l, f) == IF l.head = 0 /\ f.id - 1 > l.floor THEN f.id - 1 ELSE l.floor

\* A frame goes behind the last one that is not newer than it.
Inserted(journal, f) ==
  InsertAt(journal, Cardinality({i \in DOMAIN journal : journal[i].id <= f.id}) + 1, f)

Recorded(l, f) ==
  LET floor == FloorFor(l, f)
      head == IF f.id > l.head THEN f.id ELSE l.head
      grown == Inserted(l.journal, f)
  IN CASE f.id <= floor -> [l EXCEPT !.floor = floor, !.head = head]
       [] f.id > floor /\ server.replay = 0 -> [l EXCEPT !.floor = f.id, !.head = head]
       [] f.id > floor /\ server.replay # 0 /\ Len(grown) <= server.replay ->
            [l EXCEPT !.floor = floor, !.head = head, !.journal = grown]
       [] f.id > floor /\ server.replay # 0 /\ Len(grown) > server.replay ->
            [l EXCEPT !.floor = IF grown[1].id > floor THEN grown[1].id ELSE floor,
                      !.head = head, !.journal = Tail(grown)]

Covers(l, id) == id >= l.floor

\* One frame of the journal: queued if it is of the channel and past the id, as
\* long as each such frame is taken.
CaughtUp(r, s, ch, id, f) ==
  LET missed == f.channel = ch /\ f.id > id
  IN IF missed /\ r.whole /\ Takes(r.l, s, f) THEN [r EXCEPT !.l = Queued(@, s, f)]
     ELSE [r EXCEPT !.whole = @ /\ ~ missed]

\* What the journal has of the channel past the id.
Replayed(l, s, ch, id) ==
  FoldLeft(LAMBDA r, f : CaughtUp(r, s, ch, id, f), [l |-> l, whole |-> TRUE], l.journal)

\* Mutant: an id ahead of the counter is a gap, and taken literally.
Resumed_Literally(l, s, ch, id) ==
  LET replayed == Replayed(l, s, ch, id)
  IN CASE id = 0 -> l
       [] id > 0 /\ Covers(l, id) /\ replayed.whole -> replayed.l
       [] id > 0 /\ ~ (Covers(l, id) /\ replayed.whole) -> Queued(l, s, Gap)

\* Caught up, or nothing of it and a frame that says so.
Resumed(l, s, ch, id) ==
  LET replayed == Replayed(l, s, ch, id)
      undone == Subscribed(Unsubscribed(replayed.l, s), s, ch, id)
  IN CASE id = 0 -> l
       [] id > counter -> Queued(Subscribed(l, s, ch, counter), s, Gap)
       [] id \in 1 .. counter /\ ~ Covers(l, id) -> Queued(l, s, Gap)
       [] id \in 1 .. counter /\ Covers(l, id) /\ replayed.whole -> replayed.l
       [] id \in 1 .. counter /\ Covers(l, id) /\ ~ replayed.whole -> Queued(undone, s, Gap)

\* A stream held: subscribed, then caught up.
Held(l, s, ch, id) ==
  LET before == {f \in l.read : f.channel = ch}
  IN Resumed([Subscribed(l, s, ch, id) EXCEPT !.before[s] = before], s, ch, id)

\* A frame off the channel: a hold that a pool thread took, or an event,
\* journaled before it is queued.
Delivered(l, f) ==
  LET e == [id |-> f.id, channel |-> f.channel]
  IN IF f.kind = "h" THEN Held(l, f.slot, f.channel, f.id)
     ELSE [Notified(Recorded(l, e), e) EXCEPT !.read = @ \cup {e}]

\* The channel of w read to its end.
Drained(w) == FoldLeft(Delivered, loop[w], bus[w])

-----------------------------------------------------------------------------
(* The publishers.  An application that runs on the loop's own thread keeps
   the loop from its other work until its publish returns. *)

LoopFree(w) == server.pooled \/ posting[w] = None

Publish(w, ch) ==
  /\ posting[w] = None
  /\ counter < MaxId
  /\ counter' = counter + 1
  /\ posting' = [posting EXCEPT ![w] = [id |-> counter + 1, channel |-> ch, next |-> 0]]
  /\ UNCHANGED <<server, bus, loop, client, deaths>>

\* One send per channel, the publisher's own included; a channel that is full
\* does not get the frame.
Post(w) ==
  /\ posting[w] # None
  /\ LET p == posting[w]
         f == [kind |-> "event", id |-> p.id, channel |-> p.channel]
     IN /\ bus' = IF Len(bus[p.next]) < BusRoom
                  THEN [bus EXCEPT ![p.next] = Append(@, f)] ELSE bus
        /\ posting' = [posting EXCEPT ![w] = IF p.next + 1 < NumWorkers
                                             THEN [p EXCEPT !.next = @ + 1] ELSE None]
  /\ UNCHANGED <<server, counter, loop, client, deaths>>

-----------------------------------------------------------------------------
(* A client's stream. *)

Vacant(w, s) ==
  \A c \in Clients : client[c].phase # "away" => <<client[c].worker, client[c].slot>> # <<w, s>>

Visiting(c, w, s, phase) ==
  [client[c] EXCEPT !.phase = phase, !.worker = w, !.slot = s, !.asked = client[c].seen,
                    !.got = <<>>, !.visits = @ + 1]

\* The hold of an application that runs on the loop's thread.
Hold(c, w, s) ==
  /\ ~ server.pooled /\ LoopFree(w)
  /\ client[c].phase = "away" /\ client[c].visits < MaxVisits
  /\ Vacant(w, s)
  /\ loop' = [loop EXCEPT ![w] = Held(@, s, Follows[c], client[c].seen)]
  /\ client' = [client EXCEPT ![c] = Visiting(c, w, s, "held")]
  /\ UNCHANGED <<server, counter, posting, bus, deaths>>

\* One that a pool thread serves: the request is submitted ...
Ask(c, w, s) ==
  /\ server.pooled
  /\ client[c].phase = "away" /\ client[c].visits < MaxVisits
  /\ Vacant(w, s)
  /\ client' = [client EXCEPT ![c] = Visiting(c, w, s, "asked")]
  /\ UNCHANGED <<server, counter, posting, bus, loop, deaths>>

\* ... the thread sends the hold to its own loop before it completes ...
SendHold(c) ==
  /\ client[c].phase = "asked"
  /\ LET w == client[c].worker
         f == [kind |-> "h", slot |-> client[c].slot, channel |-> Follows[c],
               id |-> client[c].asked]
     IN /\ Len(bus[w]) < BusRoom
        /\ bus' = [bus EXCEPT ![w] = Append(@, f)]
  /\ client' = [client EXCEPT ![c].phase = "sent"]
  /\ UNCHANGED <<server, counter, posting, loop, deaths>>

\* ... or is refused by a full channel, and answers 503 ...
HoldUnavailable(c) ==
  /\ client[c].phase = "asked"
  /\ Len(bus[client[c].worker]) >= BusRoom
  /\ client' = [client EXCEPT ![c].phase = "away"]
  /\ UNCHANGED <<server, counter, posting, bus, loop, deaths>>

\* ... and the loop reads its channel before it answers with the head.
Complete(c) ==
  /\ client[c].phase = "sent"
  /\ LET w == client[c].worker
     IN /\ loop' = [loop EXCEPT ![w] = Drained(w)]
        /\ bus' = [bus EXCEPT ![w] = <<>>]
  /\ client' = [client EXCEPT ![c].phase = "held"]
  /\ UNCHANGED <<server, counter, posting, deaths>>

\* The channel is readable.
DeliverBusFrames(w) ==
  /\ bus[w] # <<>> /\ LoopFree(w)
  /\ loop' = [loop EXCEPT ![w] = Drained(w)]
  /\ bus' = [bus EXCEPT ![w] = <<>>]
  /\ UNCHANGED <<server, counter, posting, client, deaths>>

Numbered(frames) == {i \in DOMAIN frames : frames[i].id # NoEventId}

\* The outbox of a held slot goes to its client.
DrainOutbox(c) ==
  /\ client[c].phase = "held"
  /\ LET w == client[c].worker
         s == client[c].slot
         out == loop[w].pending[s]
     IN /\ out # <<>> /\ LoopFree(w)
        /\ loop' = [loop EXCEPT ![w].pending[s] = <<>>]
        /\ client' = [client EXCEPT
             ![c].got = @ \o out,
             ![c].seen = IF Numbered(out) = {} THEN @ ELSE out[Max(Numbered(out))].id]
  /\ UNCHANGED <<server, counter, posting, bus, deaths>>

\* The client goes, and the loop closes its slot.
Leave(c) ==
  /\ client[c].phase = "held"
  /\ LET w == client[c].worker
     IN /\ LoopFree(w)
        /\ loop' = [loop EXCEPT ![w] = Unsubscribed(@, client[c].slot)]
  /\ client' = [client EXCEPT ![c].phase = "away"]
  /\ UNCHANGED <<server, counter, posting, bus, deaths>>

\* A worker dies with its connections and what its application had left to
\* write; its replacement takes its index over, and with it the channel.
Respawn(w) ==
  /\ deaths < server.deaths
  /\ deaths' = deaths + 1
  /\ loop' = [loop EXCEPT ![w] = Started(counter, @.read)]
  /\ posting' = [posting EXCEPT ![w] = None]
  /\ client' = [c \in Clients |-> IF client[c].worker = w
                                  THEN [client[c] EXCEPT !.phase = "away"] ELSE client[c]]
  /\ UNCHANGED <<server, counter, bus>>

Next ==
  \/ \E w \in Workers :
       \/ \E ch \in Channels : Publish(w, ch)
       \/ Post(w)
       \/ DeliverBusFrames(w)
       \/ Respawn(w)
  \/ \E c \in Clients :
       \/ \E w \in Workers, s \in Slots : Hold(c, w, s) \/ Ask(c, w, s)
       \/ SendHold(c)
       \/ HoldUnavailable(c)
       \/ Complete(c)
       \/ DrainOutbox(c)
       \/ Leave(c)

Spec == Init /\ [][Next]_vars

-----------------------------------------------------------------------------

\* Types, and the bounds: a channel and an outbox are never over their room
\* and a journal never over its frames (replay.mojo record, registry.mojo
\* notify_frame).
TypeOK ==
  /\ server \in Deployments
  /\ counter \in 0 .. MaxId
  /\ posting \in [Workers -> {None} \cup [id : 1 .. MaxId, channel : Channels, next : Workers]]
  /\ bus \in [Workers -> Seq(Frames)] /\ \A w \in Workers : Len(bus[w]) <= BusRoom
  /\ loop \in [Workers -> LoopState]
  /\ \A w \in Workers :
       /\ Len(loop[w].journal) <= server.replay
       /\ \A s \in Slots : Len(loop[w].pending[s]) <= server.outbox
  /\ client \in [Clients -> ClientState]
  /\ deaths \in 0 .. server.deaths

Streams == {c \in Clients : client[c].phase = "held"}

\* What the stream of c has brought it and what is queued for it.
Line(c) == client[c].got \o loop[client[c].worker].pending[client[c].slot]
Told(c) == Gap \in ToSet(Line(c))
Before(c) == loop[client[c].worker].before[client[c].slot]

\* Frames come to a client in the order of their ids and once, whatever order
\* the channel brought them in, those replayed before those that came since;
\* and none it has seen, but after a gap (registry.mojo notify_frame and
\* queue_frame, replay.mojo record and catch_up).
InOrder ==
  \A c \in Streams :
    LET line == Line(c)
        frames == Numbered(line)
    IN /\ \A i, j \in frames : i < j => line[i].id < line[j].id
       /\ \A i \in frames : line[i].channel = Follows[c]
       /\ Told(c) \/ \A i \in frames : line[i].id > client[c].asked

\* All or nothing: a client that comes back is sent every frame of its channel
\* after the id it presented that had reached its worker, this process or one
\* it replaced; or it is told of a gap and sent none of them.  A first visit is
\* sent none and told nothing (replay.mojo catch_up, handler.mojo _resume).
AllOrNothing ==
  \A c \in Streams :
    LET sent == ToSet(Line(c))
        owed == {f \in Before(c) : f.id > client[c].asked}
    IN IF client[c].asked = 0 THEN ~ Told(c) /\ Before(c) \cap sent = {}
       ELSE IF Told(c) THEN Before(c) \cap sent = {} ELSE owed \subseteq sent

\* No stream stands at an id the counter has not reached, where the filter
\* would keep from it every frame up to that id; a client of the server before
\* this one, whose ids were higher, is no exception (handler.mojo _resume).
NeverAhead ==
  \A w \in Workers : \A s \in Slots : loop[w].url[s] # None => loop[w].last[s] <= counter
=============================================================================
