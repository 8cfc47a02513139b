---------------------------- MODULE HoldsProofs ----------------------------
(***************************************************************************)
(* Proofs about Holds, for any number of workers, slots, clients, channels *)
(* and frames, any room on the bus and any servers: what a held stream is  *)
(* sent, and what it is owed.                                              *)
(*                                                                         *)
(* A loop reads its channel to the end in one step, a fold over the frames *)
(* on it, and a replay is another over its journal.  Both are proved as    *)
(* what they are, a walk with an invariant at each frame: a fold has the   *)
(* values of one (FoldsExist, ReplayedWalk, DrainedWalk), and what is kept *)
(* at each frame is kept to the end (Along).                               *)
(***************************************************************************)
EXTENDS Holds, SequenceTheorems, FiniteSetTheorems, WellFoundedInduction, TLAPS

\* What a loop has of its bounds.
Loops ==
  {l \in LoopState : /\ Len(l.journal) <= server.replay
                     /\ \A s \in Slots : Len(l.pending[s]) <= server.outbox}

Lines == Seq(Events \cup {Gap})

\* A frame of the bus as the event that the journal has of it.
EventOf(f) == [id |-> f.id, channel |-> f.channel]

Numbers(q, w) == {i \in DOMAIN q[w] : q[w][i].kind = "event"}

\* No id is ahead of the counter.
Given ==
  \A w \in Workers :
    /\ \A i \in Numbers(bus, w) : bus[w][i].id <= counter
    /\ \A e \in loop[w].read : e.id <= counter
    /\ posting[w] # None => posting[w].id <= counter

\* A frame comes to a worker's channel once, and to whoever has the index once.
Fresh ==
  \A w \in Workers :
    /\ \A i, j \in Numbers(bus, w) : bus[w][i].id = bus[w][j].id => i = j
    /\ \A i \in Numbers(bus, w) : \A e \in loop[w].read : e.id # bus[w][i].id
    /\ \A v \in Workers : posting[v] # None /\ posting[v].next <= w =>
         /\ \A i \in Numbers(bus, w) : bus[w][i].id # posting[v].id
         /\ \A e \in loop[w].read : e.id # posting[v].id
    /\ \A v \in Workers :
         posting[w] # None /\ posting[v] # None /\ posting[w].id = posting[v].id => v = w

\* A journal has of what was read all that is above its floor, and only that.
Journaled(l) ==
  /\ \A i \in DOMAIN l.journal : l.journal[i] \in l.read
  /\ \A e \in l.read : e.id > l.floor => \E i \in DOMAIN l.journal : l.journal[i] = e

\* No slot stands ahead of the counter.
Within(l) == \A s \in Slots : l.last[s] <= counter

\* A slot that nobody holds; and no hold for it is on a channel.
Idle(l, s) == l.url[s] = None /\ l.pending[s] = <<>>
NoHold(q, s) == \A i \in DOMAIN q : q[i].kind = "h" => q[i].slot # s

\* What a stream on channel `ch`, held with the id `asked`, has been brought and
\* has queued, and the id it stands at: what comes of the properties at every
\* step.  "before" is what had been read when it was held.
Has(line, e) == \E i \in DOMAIN line : line[i] = e
Lawful(line, last, before, ch, asked) ==
  LET frames == Numbered(line)
  IN /\ \A i, j \in frames : i < j => line[i].id < line[j].id
     /\ \A i \in frames : line[i].channel = ch /\ line[i].id <= last
     /\ Has(line, Gap) \/ (last >= asked /\ \A i \in frames : line[i].id > asked)
     /\ asked = 0 => ~ Has(line, Gap)
     /\ asked # 0 => Has(line, Gap) \/ \A f \in before : f.id > asked => Has(line, f)
     /\ asked = 0 \/ Has(line, Gap) => \A f \in before : ~ Has(line, f)

\* The stream of slot `s`, that has been brought `got`.
Law(l, s, ch, asked, got) ==
  /\ l.url[s] = ch
  /\ l.before[s] \subseteq l.read
  /\ Lawful(got \o l.pending[s], l.last[s], l.before[s], ch, asked)

\* The hold that a pool thread sends for a client that is `p` and follows `ch`.
HoldOf(p, ch) == [kind |-> "h", slot |-> p.slot, channel |-> ch, id |-> p.asked]

\* The one hold for a slot on a channel is at `k`.
HoldAt(q, k, s) == k \in DOMAIN q /\ \A i \in DOMAIN q : q[i].kind = "h" /\ q[i].slot = s => i = k

\* What a slot of loop `l` with channel `q` is to the client that has it.
ServedBy(p, ch, l, q) ==
  /\ p.phase = "asked" => Idle(l, p.slot) /\ NoHold(q, p.slot)
  /\ p.phase = "sent" =>
       \/ NoHold(q, p.slot) /\ Law(l, p.slot, ch, p.asked, p.got)
       \/ Idle(l, p.slot) /\ \E k \in DOMAIN q : q[k] = HoldOf(p, ch) /\ HoldAt(q, k, p.slot)
  /\ p.phase = "held" => NoHold(q, p.slot) /\ Law(l, p.slot, ch, p.asked, p.got)
  /\ p.phase \in {"asked", "sent"} => p.got = <<>> /\ server.pooled

Served(c) == ServedBy(client[c], Follows[c], loop[client[c].worker], bus[client[c].worker])

Placed ==
  /\ \A c \in Clients : Served(c)
  /\ \A w \in Workers, s \in Slots : Vacant(w, s) => Idle(loop[w], s) /\ NoHold(bus[w], s)
  /\ \A c, d \in Clients :
       /\ client[c].phase # "away" /\ client[d].phase # "away"
       /\ client[c].worker = client[d].worker /\ client[c].slot = client[d].slot
       => c = d

\* Of a server that loses a worker while a pool thread holds streams, a hold left
\* on the channel is the next stream's of its slot: see section 5 of the README.
Kept == server.pooled => server.deaths = 0

Inductive ==
  /\ TypeOK /\ Given /\ Fresh
  /\ \A w \in Workers : Journaled(loop[w]) /\ Within(loop[w])
  /\ Kept => Placed

-----------------------------------------------------------------------------
(* Folds. *)

\* Induction on the numbers, of a set of them.
LEMMA NatSet ==
  ASSUME NEW T, 0 \in T, \A i \in Nat : i \in T => i + 1 \in T
  PROVE  Nat \subseteq T
<1> SUFFICES ASSUME Nat \ T # {} PROVE FALSE
  OBVIOUS
<1>1. PICK i \in Nat \ T : \A j \in Nat \ T : ~(<<j, i>> \in OpToRel(<, Nat))
  BY NatLessThanWellFounded, WFMin, Nat \ T \subseteq Nat
<1>2. i # 0 /\ i - 1 \in Nat /\ i - 1 < i
  OBVIOUS
<1>3. i - 1 \in T
  BY <1>1, <1>2 DEF OpToRel
<1> QED
  BY <1>2, <1>3

\* The greatest of numbers that go up to one of them.
LEMMA MaxOf ==
  ASSUME NEW n \in Nat, NEW s \in SUBSET (1 .. n + 1), n + 1 \in s
  PROVE  Max(s) = n + 1
<1>1. \A y \in s : y \in Nat /\ n + 1 >= y
  OBVIOUS
<1>2. \A x \in s : (\A y \in s : x >= y) => x = n + 1
  BY <1>1
<1>3. \E x \in s : \A y \in s : x >= y
  BY <1>1
<1> QED
  BY <1>2, <1>3 DEF Max

\* A finite set of numbers has its greatest.
LEMMA MaxIn ==
  ASSUME NEW n \in Nat, NEW s \in SUBSET (1 .. n), s # {}
  PROVE  Max(s) \in s
<1> DEFINE T == {m \in Nat : \A z \in SUBSET (1 .. m) :
                               z # {} => \E x \in z : \A y \in z : x >= y}
<1>1. 0 \in T
  <2>1. \A z \in SUBSET (1 .. 0) : z = {}
    OBVIOUS
  <2> QED
    BY <2>1
<1>2. ASSUME NEW m \in Nat, m \in T PROVE m + 1 \in T
  <2> SUFFICES ASSUME NEW z \in SUBSET (1 .. m + 1), z # {}
               PROVE  \E x \in z : \A y \in z : x >= y
    OBVIOUS
  <2>1. CASE m + 1 \in z
    <3>1. \A y \in z : m + 1 >= y
      OBVIOUS
    <3> QED
      BY <2>1, <3>1
  <2>2. CASE m + 1 \notin z
    <3>1. z \in SUBSET (1 .. m)
      BY <2>2
    <3> QED
      BY <1>2, <3>1
  <2> QED
    BY <2>1, <2>2
<1>3. Nat \subseteq T
  BY <1>1, <1>2, NatSet
<1>4. \E x \in s : \A y \in s : x >= y
  BY <1>3
<1> QED
  BY <1>4 DEF Max

\* The same along a stretch of them.
LEMMA Along ==
  ASSUME NEW n \in Nat, NEW T, 0 \in T, \A i \in 1 .. n : i - 1 \in T => i \in T
  PROVE  \A i \in 0 .. n : i \in T
<1> DEFINE U == {i \in Nat : i <= n => i \in T}
<1>1. 0 \in U
  OBVIOUS
<1>2. ASSUME NEW i \in Nat, i \in U PROVE i + 1 \in U
  <2> SUFFICES ASSUME i + 1 <= n PROVE i + 1 \in T
    OBVIOUS
  <2>1. i \in T /\ i + 1 \in 1 .. n /\ (i + 1) - 1 = i
    BY <1>2
  <2> QED
    BY <2>1
<1>3. Nat \subseteq U
  BY <1>1, <1>2, NatSet
<1> QED
  BY <1>3

\* The values of a fold on the sets of the first n positions of a sequence, where
\* its step goes from R to R over elements of F.
Folds(G, n, base, seq, g) ==
  g = [s \in SUBSET (1 .. n) |-> IF s = {} THEN base ELSE G[<<g[s \ {Max(s)}], seq[Max(s)]>>]]

\* They exist.
LEMMA FoldsExist ==
  ASSUME NEW R, NEW F, NEW G \in [R \X F -> R], NEW base \in R, NEW seq \in Seq(F)
  PROVE  \E g \in [SUBSET (1 .. Len(seq)) -> R] : Folds(G, Len(seq), base, seq, g)
<1> DEFINE Made(n) == \E g \in [SUBSET (1 .. n) -> R] : Folds(G, n, base, seq, g)
           T == {n \in Nat : Made(n)}
<1>1. 0 \in T
  <2> DEFINE g == [s \in SUBSET (1 .. 0) |-> base]
  <2>1. \A s \in SUBSET (1 .. 0) : s = {}
    OBVIOUS
  <2>2. Folds(G, 0, base, seq, g)
    BY <2>1 DEF Folds
  <2>3. g \in [SUBSET (1 .. 0) -> R]
    OBVIOUS
  <2> QED
    BY <2>2, <2>3
<1>2. ASSUME NEW i \in 1 .. Len(seq), i - 1 \in T PROVE i \in T
  <2> DEFINE n == i - 1
  <2>1. PICK g \in [SUBSET (1 .. n) -> R] : Folds(G, n, base, seq, g)
    BY <1>2
  <2>2. n \in Nat /\ n + 1 = i /\ seq[n + 1] \in F
    OBVIOUS
  <2> HIDE DEF n
  <2> DEFINE h == [s \in SUBSET (1 .. n + 1) |->
                     IF n + 1 \in s THEN G[<<g[s \ {n + 1}], seq[n + 1]>>] ELSE g[s]]
             val(s) == IF s = {} THEN base ELSE G[<<h[s \ {Max(s)}], seq[Max(s)]>>]
  <2>3. ASSUME NEW s \in SUBSET (1 .. n + 1) PROVE h[s] = val(s)
    <3>1. CASE n + 1 \in s
      <4>1. Max(s) = n + 1 /\ s # {}
        BY <2>2, <3>1, MaxOf
      <4>2. s \ {n + 1} \in SUBSET (1 .. n + 1) /\ n + 1 \notin s \ {n + 1}
        OBVIOUS
      <4>3. h[s \ {n + 1}] = g[s \ {n + 1}]
        BY <4>2
      <4> QED
        BY <3>1, <4>1, <4>3
    <3>2. CASE n + 1 \notin s
      <4>1. s \in SUBSET (1 .. n)
        BY <2>2, <3>2
      <4>2. /\ h[s] = g[s]
            /\ g[s] = IF s = {} THEN base ELSE G[<<g[s \ {Max(s)}], seq[Max(s)]>>]
        BY <2>1, <3>2, <4>1 DEF Folds
      <4>3. s \ {Max(s)} \in SUBSET (1 .. n + 1) /\ n + 1 \notin s \ {Max(s)}
        BY <3>2
      <4>4. h[s \ {Max(s)}] = g[s \ {Max(s)}]
        BY <4>3
      <4> QED
        BY <4>2, <4>4
    <3> QED
      BY <3>1, <3>2
  <2>4. ASSUME NEW s \in SUBSET (1 .. n + 1) PROVE h[s] \in R
    <3>1. CASE n + 1 \in s
      <4>1. s \ {n + 1} \in SUBSET (1 .. n)
        BY <2>2
      <4>2. <<g[s \ {n + 1}], seq[n + 1]>> \in R \X F
        BY <2>1, <2>2, <4>1
      <4> QED
        BY <3>1, <4>2
    <3>2. CASE n + 1 \notin s
      <4>1. s \in SUBSET (1 .. n)
        BY <2>2, <3>2
      <4> QED
        BY <2>1, <3>2, <4>1
    <3> QED
      BY <3>1, <3>2
  <2>5. h = [s \in SUBSET (1 .. n + 1) |-> val(s)]
    <3> HIDE DEF val
    <3> QED
      BY <2>3
  <2>6. Folds(G, n + 1, base, seq, h)
    BY <2>5 DEF Folds
  <2>7. h \in [SUBSET (1 .. n + 1) -> R]
    <3>1. h = [s \in SUBSET (1 .. n + 1) |-> h[s]]
      OBVIOUS
    <3> HIDE DEF h
    <3> QED
      BY <2>4, <3>1
  <2>8. Made(n + 1)
    <3> HIDE DEF h
    <3> QED
      BY <2>6, <2>7
  <2> HIDE DEF Made
  <2> QED
    BY <2>2, <2>8
<1>3. Len(seq) \in Nat
  OBVIOUS
<1> HIDE DEF T
<1>4. \A i \in 0 .. Len(seq) : i \in T
  BY <1>1, <1>2, <1>3, Along
<1>5. Len(seq) \in T
  BY <1>3, <1>4
<1> QED
  BY <1>5 DEF T

\* The first positions, as a fold goes back over them.
LEMMA UpTo ==
  ASSUME NEW n \in Nat, NEW i \in 1 .. n
  PROVE  /\ 1 .. i \in SUBSET (1 .. n) /\ 1 .. i # {} /\ Max(1 .. i) = i
         /\ (1 .. i) \ {i} = 1 .. (i - 1) /\ i - 1 \in 0 .. n /\ i \in 0 .. n
<1>1. i \in Nat /\ 1 <= i /\ i <= n
  OBVIOUS
<1>2. i - 1 \in Nat /\ (i - 1) + 1 = i /\ i - 1 \in 0 .. n /\ i \in 0 .. n
  BY <1>1
<1>3. 1 .. i \in SUBSET (1 .. n) /\ i \in 1 .. i /\ 1 .. i \in SUBSET (1 .. (i - 1) + 1)
  BY <1>1
<1>4. 1 .. i # {}
  BY <1>3
<1>5. Max(1 .. i) = i
  BY <1>2, <1>3, MaxOf
<1>6. (1 .. i) \ {i} = 1 .. (i - 1)
  BY <1>1
<1> QED
  BY <1>2, <1>3, <1>4, <1>5, <1>6

-----------------------------------------------------------------------------
(* The registry and the journal, one operation at a time. *)

\* What an operation on slot `s` leaves: the journal, and the other slots.
Only(l, m, s) ==
  /\ m.floor = l.floor /\ m.head = l.head /\ m.journal = l.journal /\ m.read = l.read
  /\ \A z \in Slots \ {s} :
       /\ m.url[z] = l.url[z] /\ m.last[z] = l.last[z] /\ m.pending[z] = l.pending[z]
       /\ m.before[z] = l.before[z]

\* A subscription sets its slot's channel and id.
LEMMA SubscribedFacts ==
  ASSUME NEW l \in Loops, NEW s \in Slots, NEW ch \in Channels, NEW id \in Nat
  PROVE  LET m == Subscribed(l, s, ch, id) IN
         /\ m \in Loops /\ Only(l, m, s)
         /\ m.url[s] = ch /\ m.last[s] = id /\ m.pending[s] = l.pending[s]
         /\ m.before[s] = l.before[s]
<1> DEFINE m == Subscribed(l, s, ch, id)
<1>1. l \in LoopState
  BY DEF Loops
<1>2. /\ m.floor = l.floor /\ m.head = l.head /\ m.journal = l.journal /\ m.read = l.read
      /\ m.before = l.before /\ m.pending = l.pending
      /\ m.url = [l.url EXCEPT ![s] = ch] /\ m.last = [l.last EXCEPT ![s] = id]
  BY <1>1 DEF LoopState, Subscribed
<1>3. m \in LoopState
  BY <1>1 DEF LoopState, Subscribed
<1>4. m \in Loops
  BY <1>2, <1>3 DEF Loops
<1>5. l.url \in [Slots -> Channels \cup {None}] /\ l.last \in [Slots -> Nat]
  BY <1>1 DEF LoopState
<1> QED
  BY <1>2, <1>4, <1>5 DEF Only

\* What ends one forgets what was queued.
LEMMA UnsubscribedFacts ==
  ASSUME server \in Deployed, NEW l \in Loops, NEW s \in Slots
  PROVE  LET m == Unsubscribed(l, s) IN
         /\ m \in Loops /\ Only(l, m, s)
         /\ m.url[s] = None /\ m.last[s] = 0 /\ m.pending[s] = <<>>
         /\ m.before[s] = l.before[s]
<1> DEFINE m == Unsubscribed(l, s)
<1>1. l \in LoopState /\ server.outbox \in Nat
  BY DEF Loops, Deployed
<1>2. /\ m.floor = l.floor /\ m.head = l.head /\ m.journal = l.journal /\ m.read = l.read
      /\ m.before = l.before /\ m.pending = [l.pending EXCEPT ![s] = <<>>]
      /\ m.url = [l.url EXCEPT ![s] = None] /\ m.last = [l.last EXCEPT ![s] = 0]
  BY <1>1 DEF LoopState, Unsubscribed
<1>3. /\ l.url \in [Slots -> Channels \cup {None}] /\ l.last \in [Slots -> Nat]
      /\ l.pending \in [Slots -> Lines]
  BY <1>1 DEF LoopState, Lines
<1>4. <<>> \in Lines
  BY DEF Lines
<1>5. m \in LoopState
  BY <1>1, <1>4 DEF LoopState, Unsubscribed, Lines
<1>6. \A z \in Slots : Len(m.pending[z]) <= server.outbox
  BY <1>1, <1>2, <1>3 DEF Loops
<1>7. m \in Loops
  BY <1>2, <1>5, <1>6 DEF Loops
<1> QED
  BY <1>2, <1>3, <1>7 DEF Only

\* A frame for one slot is queued if the slot takes it, or nothing is changed.
LEMMA QueuedFacts ==
  ASSUME server \in Deployed, NEW l \in Loops, NEW s \in Slots, NEW f \in Events \cup {Gap}
  PROVE  LET m == Queued(l, s, f) IN
         /\ m \in Loops /\ Only(l, m, s)
         /\ m.url[s] = l.url[s] /\ m.before[s] = l.before[s]
         /\ ~ Takes(l, s, f) => m = l
         /\ Takes(l, s, f) => /\ m.pending[s] = Append(l.pending[s], f)
                              /\ m.last[s] = IF f.id = NoEventId THEN l.last[s] ELSE f.id
<1> DEFINE m == Queued(l, s, f)
<1>1. l \in LoopState /\ server.outbox \in Nat /\ (f.id = NoEventId \/ f.id \in Nat)
  BY DEF Loops, Deployed, Events, Gap
<1>2. CASE ~ Takes(l, s, f)
  BY <1>2 DEF Queued, Only
<1>3. CASE Takes(l, s, f)
  <2>1. m = [l EXCEPT !.pending[s] = Append(@, f),
                      !.last[s] = IF f.id = NoEventId THEN @ ELSE f.id]
    BY <1>3 DEF Queued
  <2>2. /\ m.floor = l.floor /\ m.head = l.head /\ m.journal = l.journal /\ m.read = l.read
        /\ m.before = l.before /\ m.url = l.url
        /\ m.pending = [l.pending EXCEPT ![s] = Append(@, f)]
        /\ m.last = [l.last EXCEPT ![s] = IF f.id = NoEventId THEN @ ELSE f.id]
    BY <1>1, <2>1 DEF LoopState
  <2>3. /\ l.url \in [Slots -> Channels \cup {None}] /\ l.last \in [Slots -> Nat]
        /\ l.pending \in [Slots -> Lines]
    BY <1>1 DEF LoopState, Lines
  <2>4. /\ l.pending[s] \in Lines /\ Append(l.pending[s], f) \in Lines
        /\ Len(Append(l.pending[s], f)) = Len(l.pending[s]) + 1
    BY <2>3 DEF Lines
  <2>5. Len(l.pending[s]) < server.outbox
    BY <1>3 DEF Takes
  <2>6. /\ m.pending \in [Slots -> Lines] /\ m.last \in [Slots -> Nat]
    BY <1>1, <2>2, <2>3, <2>4
  <2>7. m \in LoopState
    BY <1>1, <2>1, <2>2, <2>6 DEF LoopState, Lines
  <2>8. \A z \in Slots : Len(m.pending[z]) <= server.outbox
    <3>1. \A z \in Slots : Len(l.pending[z]) <= server.outbox
      BY DEF Loops
    <3>2. Len(l.pending[s]) \in Nat
      BY <2>4 DEF Lines
    <3> QED
      BY <1>1, <2>2, <2>3, <2>4, <2>5, <3>1, <3>2
  <2>9. m \in Loops
    BY <2>2, <2>7, <2>8 DEF Loops
  <2> QED
    BY <1>3, <2>2, <2>3, <2>9 DEF Only
<1> QED
  BY <1>2, <1>3

\* A frame for a channel is queued for every slot on it that takes it.
LEMMA NotifiedFacts ==
  ASSUME server \in Deployed, NEW l \in Loops, NEW f \in Events
  PROVE  LET m == Notified(l, f) IN
         /\ m \in Loops
         /\ m.floor = l.floor /\ m.head = l.head /\ m.journal = l.journal /\ m.read = l.read
         /\ m.before = l.before /\ m.url = l.url
         /\ \A s \in Slots :
              IF l.url[s] = f.channel /\ Takes(l, s, f)
              THEN m.pending[s] = Append(l.pending[s], f) /\ m.last[s] = f.id
              ELSE m.pending[s] = l.pending[s] /\ m.last[s] = l.last[s]
<1> DEFINE m == Notified(l, f)
           reached == {s \in Slots : l.url[s] = f.channel /\ Takes(l, s, f)}
<1>1. l \in LoopState /\ server.outbox \in Nat /\ f.id \in Nat
  BY DEF Loops, Deployed, Events
<1>2. m = [l EXCEPT
        !.pending = [s \in Slots |-> IF s \in reached THEN Append(@[s], f) ELSE @[s]],
        !.last = [s \in Slots |-> IF s \in reached THEN f.id ELSE @[s]]]
  BY DEF Notified
<1> HIDE DEF reached
<1>3. /\ m.floor = l.floor /\ m.head = l.head /\ m.journal = l.journal /\ m.read = l.read
      /\ m.before = l.before /\ m.url = l.url
      /\ m.pending = [s \in Slots |-> IF s \in reached THEN Append(l.pending[s], f)
                                      ELSE l.pending[s]]
      /\ m.last = [s \in Slots |-> IF s \in reached THEN f.id ELSE l.last[s]]
  BY <1>1, <1>2 DEF LoopState
<1>4. l.last \in [Slots -> Nat] /\ l.pending \in [Slots -> Lines]
  BY <1>1 DEF LoopState, Lines
<1>5. ASSUME NEW s \in Slots
      PROVE  /\ Append(l.pending[s], f) \in Lines /\ Len(l.pending[s]) \in Nat
             /\ Len(Append(l.pending[s], f)) = Len(l.pending[s]) + 1
  BY <1>4 DEF Lines
<1>6. m.pending \in [Slots -> Lines] /\ m.last \in [Slots -> Nat]
  BY <1>1, <1>3, <1>4, <1>5
<1>7. m \in LoopState
  BY <1>1, <1>2, <1>3, <1>6 DEF LoopState, Lines
<1>8. ASSUME NEW s \in Slots PROVE Len(m.pending[s]) <= server.outbox
  <2>1. Len(l.pending[s]) <= server.outbox
    BY DEF Loops
  <2>2. s \in reached => Len(l.pending[s]) < server.outbox
    BY DEF reached, Takes
  <2> QED
    BY <1>1, <1>3, <1>5, <2>1, <2>2
<1>9. m \in Loops
  BY <1>3, <1>7, <1>8 DEF Loops
<1> QED
  BY <1>3, <1>9 DEF reached

\* A frame put into a journal is the one more in it.
LEMMA InsertedFacts ==
  ASSUME NEW j \in Seq(Events), NEW f \in Events
  PROVE  LET q == Inserted(j, f) IN
         /\ q \in Seq(Events) /\ Len(q) = Len(j) + 1
         /\ \A i \in DOMAIN q : q[i] = f \/ \E k \in DOMAIN j : q[i] = j[k]
         /\ \E i \in DOMAIN q : q[i] = f
         /\ \A k \in DOMAIN j : \E i \in DOMAIN q : q[i] = j[k]
<1> DEFINE older == {i \in DOMAIN j : j[i].id <= f.id}
           n == Cardinality(older)
           left == SubSeq(j, 1, n)
           right == SubSeq(j, n + 1, Len(j))
           q == left \o <<f>> \o right
<1>1. n \in 0 .. Len(j)
  <2>1. /\ IsFiniteSet(1 .. Len(j)) /\ Cardinality(1 .. Len(j)) = Len(j)
    <3>1. Len(j) \in Nat
      OBVIOUS
    <3> QED
      BY <3>1, FS_Interval
  <2>2. older \subseteq 1 .. Len(j)
    OBVIOUS
  <2>3. IsFiniteSet(older) /\ n <= Len(j)
    BY <2>1, <2>2, FS_Subset
  <2> HIDE DEF older
  <2> QED
    BY <2>3, FS_CardinalityType
<1> HIDE DEF n, older
<1>2. Inserted(j, f) = q
  <2>1. Inserted(j, f) = InsertAt(j, n + 1, f)
    BY DEF Inserted, n, older
  <2>2. (n + 1) - 1 = n
    BY <1>1
  <2> QED
    BY <2>1, <2>2 DEF InsertAt
<1>3. /\ left \in Seq(Events) /\ Len(left) = n
      /\ \A i \in 1 .. n : left[i] = j[i]
  BY <1>1
<1>4. /\ right \in Seq(Events) /\ Len(right) = Len(j) - n
      /\ \A i \in 1 .. Len(j) - n : right[i] = j[n + i]
  BY <1>1
<1> HIDE DEF left, right
<1>5. /\ q \in Seq(Events) /\ Len(q) = Len(j) + 1
      /\ \A i \in 1 .. n : q[i] = left[i]
      /\ q[n + 1] = f
      /\ \A i \in n + 2 .. Len(j) + 1 : q[i] = right[i - n - 1]
  <2> DEFINE p == left \o <<f>>
  <2>1. /\ p \in Seq(Events) /\ Len(p) = n + 1 /\ p[n + 1] = f
        /\ \A i \in 1 .. n : p[i] = left[i]
    BY <1>1, <1>3
  <2> HIDE DEF p
  <2>2. q = p \o right
    BY DEF p
  <2>3. Len(j) \in Nat
    OBVIOUS
  <2> HIDE DEF q
  <2>4. /\ q \in Seq(Events) /\ Len(q) = Len(j) + 1
        /\ \A i \in 1 .. n + 1 : q[i] = p[i]
        /\ \A i \in n + 2 .. Len(j) + 1 : q[i] = right[i - (n + 1)]
    <3>1. p \in Seq(Events) /\ right \in Seq(Events)
      BY <1>4, <2>1
    <3>2. /\ q \in Seq(Events) /\ Len(q) = Len(p) + Len(right)
          /\ \A i \in 1 .. Len(p) + Len(right) :
               q[i] = IF i <= Len(p) THEN p[i] ELSE right[i - Len(p)]
      BY <2>2, <3>1, ConcatProperties
    <3>3. Len(p) = n + 1 /\ Len(right) = Len(j) - n /\ n \in Nat /\ n <= Len(j)
      BY <1>1, <1>4, <2>1
    <3>4. Len(p) + Len(right) = Len(j) + 1
      BY <2>3, <3>3
    <3>5. ASSUME NEW i \in 1 .. n + 1 PROVE q[i] = p[i]
      BY <2>3, <3>2, <3>3, <3>4
    <3>6. ASSUME NEW i \in n + 2 .. Len(j) + 1 PROVE q[i] = right[i - (n + 1)]
      <4>1. i \in 1 .. Len(j) + 1 /\ ~(i <= n + 1)
        BY <2>3, <3>3
      <4>2. q[i] = IF i <= Len(p) THEN p[i] ELSE right[i - Len(p)]
        BY <3>2, <3>4, <4>1
      <4> QED
        BY <3>3, <4>1, <4>2
    <3> QED
      BY <3>2, <3>4, <3>5, <3>6
  <2>5. \A i \in n + 2 .. Len(j) + 1 : i - (n + 1) = i - n - 1
    BY <1>1, <2>3
  <2> QED
    BY <1>1, <2>1, <2>4, <2>5
<1> HIDE DEF q
<1>6. /\ \A i \in 1 .. n : q[i] = j[i]
      /\ \A i \in n + 2 .. Len(j) + 1 : q[i] = j[i - 1]
  <2>1. ASSUME NEW i \in n + 2 .. Len(j) + 1 PROVE q[i] = j[i - 1]
    <3>1. i - n - 1 \in 1 .. Len(j) - n /\ n + (i - n - 1) = i - 1
      BY <1>1
    <3> QED
      BY <1>4, <1>5, <3>1
  <2> QED
    BY <1>3, <1>5, <2>1
<1>7. DOMAIN q = 1 .. Len(j) + 1 /\ DOMAIN j = 1 .. Len(j) /\ Len(j) \in Nat
  BY <1>5
<1>8. ASSUME NEW i \in DOMAIN q PROVE q[i] = f \/ \E k \in DOMAIN j : q[i] = j[k]
  <2>1. CASE i \in 1 .. n
    BY <1>1, <1>6, <1>7, <2>1
  <2>2. CASE i = n + 1
    BY <1>5, <2>2
  <2>3. CASE i \in n + 2 .. Len(j) + 1
    <3>1. i - 1 \in DOMAIN j
      BY <1>1, <1>7, <2>3
    <3> QED
      BY <1>6, <2>3, <3>1
  <2> QED
    BY <1>1, <1>7, <2>1, <2>2, <2>3
<1>9. ASSUME NEW k \in DOMAIN j PROVE \E i \in DOMAIN q : q[i] = j[k]
  <2>1. CASE k \in 1 .. n
    BY <1>1, <1>6, <1>7, <2>1
  <2>2. CASE k \in n + 1 .. Len(j)
    <3>1. k + 1 \in DOMAIN q /\ k + 1 \in n + 2 .. Len(j) + 1 /\ (k + 1) - 1 = k
      BY <1>1, <1>7, <2>2
    <3> QED
      BY <1>6, <3>1
  <2> QED
    BY <1>1, <1>7, <2>1, <2>2
<1>10. n + 1 \in DOMAIN q
  BY <1>1, <1>7
<1> QED
  BY <1>2, <1>5, <1>8, <1>9, <1>10

\* A frame recorded, or under the floor: what a journal loses goes under its floor.
LEMMA RecordedFacts ==
  ASSUME server \in Deployed, NEW l \in Loops, NEW f \in Events
  PROVE  LET m == Recorded(l, f) IN
         /\ m \in Loops
         /\ m.url = l.url /\ m.last = l.last /\ m.pending = l.pending /\ m.read = l.read
         /\ m.before = l.before /\ m.floor >= l.floor
         /\ \A i \in DOMAIN m.journal :
              m.journal[i] = f \/ \E k \in DOMAIN l.journal : m.journal[i] = l.journal[k]
         /\ f.id > m.floor => Has(m.journal, f)
         /\ \A k \in DOMAIN l.journal :
              l.journal[k].id > m.floor => Has(m.journal, l.journal[k])
<1> DEFINE m == Recorded(l, f)
           floor == FloorFor(l, f)
           head == IF f.id > l.head THEN f.id ELSE l.head
           grown == Inserted(l.journal, f)
<1>1. /\ l \in LoopState /\ f.id \in Nat /\ f.id >= 1 /\ server.replay \in Nat
      /\ l.floor \in Nat /\ l.head \in Nat /\ l.journal \in Seq(Events)
      /\ Len(l.journal) <= server.replay
      /\ \A s \in Slots : Len(l.pending[s]) <= server.outbox
  BY DEF Loops, Deployed, Events, LoopState
<1>2. floor \in Nat /\ floor >= l.floor /\ head \in Nat
  BY <1>1 DEF FloorFor
<1>3. /\ grown \in Seq(Events) /\ Len(grown) = Len(l.journal) + 1
      /\ \A i \in DOMAIN grown : grown[i] = f \/ \E k \in DOMAIN l.journal : grown[i] = l.journal[k]
      /\ \E i \in DOMAIN grown : grown[i] = f
      /\ \A k \in DOMAIN l.journal : \E i \in DOMAIN grown : grown[i] = l.journal[k]
  BY <1>1, InsertedFacts
<1>4. m = CASE f.id <= floor -> [l EXCEPT !.floor = floor, !.head = head]
            [] f.id > floor /\ server.replay = 0 -> [l EXCEPT !.floor = f.id, !.head = head]
            [] f.id > floor /\ server.replay # 0 /\ Len(grown) <= server.replay ->
                 [l EXCEPT !.floor = floor, !.head = head, !.journal = grown]
            [] f.id > floor /\ server.replay # 0 /\ Len(grown) > server.replay ->
                 [l EXCEPT !.floor = IF grown[1].id > floor THEN grown[1].id ELSE floor,
                           !.head = head, !.journal = Tail(grown)]
  BY DEF Recorded
<1> HIDE DEF m, floor, head, grown
<1>5. Len(grown) \in Nat /\ DOMAIN grown = 1 .. Len(grown)
  BY <1>3
<1>6. CASE f.id <= floor
  <2>1. m = [l EXCEPT !.floor = floor, !.head = head]
    BY <1>1, <1>2, <1>4, <1>6
  <2>2. m \in LoopState
    BY <1>1, <1>2, <2>1 DEF LoopState
  <2>3. m \in Loops
    BY <1>1, <2>1, <2>2 DEF Loops, LoopState
  <2> QED
    BY <1>1, <1>2, <1>6, <2>1, <2>3 DEF LoopState, Has, m
<1>7. CASE f.id > floor /\ server.replay = 0
  <2>1. m = [l EXCEPT !.floor = f.id, !.head = head]
    BY <1>1, <1>2, <1>4, <1>7
  <2>2. m \in LoopState
    BY <1>1, <1>2, <2>1 DEF LoopState
  <2>3. m \in Loops
    BY <1>1, <2>1, <2>2 DEF Loops, LoopState
  <2> QED
    BY <1>1, <1>2, <1>7, <2>1, <2>3 DEF LoopState, Has, m
<1>8. CASE f.id > floor /\ server.replay # 0 /\ Len(grown) <= server.replay
  <2>1. m = [l EXCEPT !.floor = floor, !.head = head, !.journal = grown]
    BY <1>1, <1>2, <1>4, <1>5, <1>8
  <2>2. m \in LoopState
    BY <1>1, <1>2, <1>3, <2>1 DEF LoopState
  <2>3. /\ m.url = l.url /\ m.last = l.last /\ m.pending = l.pending /\ m.read = l.read
        /\ m.before = l.before /\ m.floor = floor /\ m.journal = grown
    BY <1>1, <2>1 DEF LoopState
  <2>4. m \in Loops
    BY <1>1, <1>8, <2>2, <2>3 DEF Loops
  <2> QED
    BY <1>2, <1>3, <2>3, <2>4 DEF Has, m
<1>9. CASE f.id > floor /\ server.replay # 0 /\ Len(grown) > server.replay
  <2> DEFINE least == grown[1].id
             up == IF least > floor THEN least ELSE floor
  <2>1. m = [l EXCEPT !.floor = up, !.head = head, !.journal = Tail(grown)]
    BY <1>1, <1>2, <1>4, <1>5, <1>9
  <2>2. /\ Tail(grown) \in Seq(Events) /\ Len(Tail(grown)) = Len(l.journal)
        /\ \A i \in 1 .. Len(l.journal) : Tail(grown)[i] = grown[i + 1]
        /\ grown[1] \in Events
    <3>1. grown # <<>> /\ Len(l.journal) \in Nat
      BY <1>1, <1>3
    <3> QED
      BY <1>3, <3>1
  <2>3. up \in Nat /\ up >= floor /\ up >= least /\ least \in Nat
    BY <1>2, <2>2 DEF Events
  <2> HIDE DEF up
  <2>4. m \in LoopState
    BY <1>1, <1>2, <2>1, <2>2, <2>3 DEF LoopState
  <2>5. /\ m.url = l.url /\ m.last = l.last /\ m.pending = l.pending /\ m.read = l.read
        /\ m.before = l.before /\ m.floor = up /\ m.journal = Tail(grown)
    BY <1>1, <2>1 DEF LoopState
  <2>6. m \in Loops
    BY <1>1, <2>2, <2>4, <2>5 DEF Loops
  <2>7. DOMAIN m.journal = 1 .. Len(l.journal) /\ Len(l.journal) \in Nat
    BY <1>1, <2>2, <2>5
  <2>8. ASSUME NEW i \in DOMAIN m.journal
        PROVE  m.journal[i] = f \/ \E k \in DOMAIN l.journal : m.journal[i] = l.journal[k]
    <3>1. i + 1 \in DOMAIN grown /\ m.journal[i] = grown[i + 1]
      BY <1>3, <1>5, <2>2, <2>5, <2>7
    <3> QED
      BY <1>3, <3>1
  <2>9. ASSUME NEW e \in Events, e.id > up, NEW i \in DOMAIN grown, grown[i] = e
        PROVE  Has(m.journal, e)
    <3>1. e.id \in Nat
      BY DEF Events
    <3>2. i # 1
      BY <2>3, <2>9, <3>1
    <3>3. i - 1 \in 1 .. Len(l.journal) /\ (i - 1) + 1 = i
      BY <1>3, <1>5, <2>7, <3>2
    <3>4. m.journal[i - 1] = e
      BY <2>2, <2>5, <2>9, <3>3
    <3> QED
      BY <2>7, <3>3, <3>4 DEF Has
  <2>10. f.id > up => Has(m.journal, f)
    BY <1>3, <2>9
  <2>11. ASSUME NEW k \in DOMAIN l.journal, l.journal[k].id > up
         PROVE  Has(m.journal, l.journal[k])
    <3>1. l.journal[k] \in Events
      BY <1>1
    <3> QED
      BY <1>3, <2>9, <2>11, <3>1
  <2>12. m.floor >= l.floor
    BY <1>1, <1>2, <2>3, <2>5
  <2> QED
    BY <2>5, <2>6, <2>8, <2>10, <2>11, <2>12 DEF m
<1> QED
  BY <1>1, <1>2, <1>5, <1>6, <1>7, <1>8, <1>9

-----------------------------------------------------------------------------
(* A replay. *)

Replays == [l : Loops, whole : BOOLEAN]

\* A journal's frame is queued and all is well, or nothing is queued and all is
\* well only if it was not missed.
LEMMA CaughtUpFacts ==
  ASSUME server \in Deployed, NEW r \in Replays, NEW s \in Slots, NEW ch, NEW id,
         NEW f \in Events
  PROVE  LET m == CaughtUp(r, s, ch, id, f) IN
         /\ m \in Replays
         /\ \/ /\ f.channel = ch /\ f.id > id /\ r.whole /\ Takes(r.l, s, f)
               /\ m.l = Queued(r.l, s, f) /\ m.whole
            \/ m.l = r.l /\ (m.whole => r.whole /\ ~ (f.channel = ch /\ f.id > id))
<1> DEFINE m == CaughtUp(r, s, ch, id, f)
           missed == f.channel = ch /\ f.id > id
<1>1. r.l \in Loops /\ r.whole \in BOOLEAN /\ missed \in BOOLEAN
  BY DEF Replays
<1>2. CASE missed /\ r.whole /\ Takes(r.l, s, f)
  <2>1. m = [r EXCEPT !.l = Queued(r.l, s, f)]
    BY <1>2 DEF CaughtUp
  <2>2. Queued(r.l, s, f) \in Loops
    BY <1>1, QueuedFacts
  <2>3. m.l = Queued(r.l, s, f) /\ m.whole = r.whole /\ m \in Replays
    BY <2>1, <2>2 DEF Replays
  <2> QED
    BY <1>2, <2>3
<1>3. CASE ~ (missed /\ r.whole /\ Takes(r.l, s, f))
  <2>1. m = [r EXCEPT !.whole = r.whole /\ ~ missed]
    BY <1>3 DEF CaughtUp
  <2>2. m.l = r.l /\ (m.whole <=> r.whole /\ ~ missed) /\ m \in Replays
    BY <1>1, <2>1 DEF Replays
  <2> QED
    BY <2>2
<1> QED
  BY <1>2, <1>3

\* A replay is a walk along the journal.
LEMMA ReplayedWalk ==
  ASSUME server \in Deployed, NEW l \in Loops, NEW s \in Slots, NEW ch, NEW id
  PROVE  \E h \in [0 .. Len(l.journal) -> Replays] :
           /\ h[0] = [l |-> l, whole |-> TRUE]
           /\ h[Len(l.journal)] = Replayed(l, s, ch, id)
           /\ \A i \in 1 .. Len(l.journal) :
                h[i] = CaughtUp(h[i - 1], s, ch, id, l.journal[i])
<1> DEFINE q == l.journal
           n == Len(q)
           base == [l |-> l, whole |-> TRUE]
           Op(r, f) == CaughtUp(r, s, ch, id, f)
           G == [x \in Replays \X Events |-> Op(x[1], x[2])]
           Solves(g) == g = [z \in SUBSET (1 .. n) |->
                               IF z = {} THEN base ELSE Op(g[z \ {Max(z)}], q[Max(z)])]
           g == CHOOSE g : Solves(g)
           h == [i \in 0 .. n |-> g[1 .. i]]
<1>1. q \in Seq(Events) /\ n \in Nat /\ DOMAIN q = 1 .. n /\ base \in Replays
  BY DEF Loops, LoopState, Replays
<1>2. \A r \in Replays, f \in Events : Op(r, f) \in Replays
  BY CaughtUpFacts
<1>3. G \in [Replays \X Events -> Replays]
  BY <1>2
<1>4. \E f : Solves(f)
  <2> HIDE DEF Op
  <2>1. PICK f \in [SUBSET (1 .. n) -> Replays] : Folds(G, n, base, q, f)
    <3> HIDE DEF G, base, q
    <3> QED
      BY <1>1, <1>3, FoldsExist
  <2>2. ASSUME NEW z \in SUBSET (1 .. n), z # {}
        PROVE  G[<<f[z \ {Max(z)}], q[Max(z)]>>] = Op(f[z \ {Max(z)}], q[Max(z)])
    <3>1. Max(z) \in z
      BY <1>1, <2>2, MaxIn
    <3>2. Max(z) \in 1 .. n /\ z \ {Max(z)} \in SUBSET (1 .. n)
      BY <3>1
    <3>3. f[z \ {Max(z)}] \in Replays
      BY <2>1, <3>2
    <3>4. q[Max(z)] \in Events
      <4> HIDE DEF q
      <4> QED
        BY <1>1, <3>2
    <3> QED
      BY <3>3, <3>4
  <2>3. f = [z \in SUBSET (1 .. n) |->
               IF z = {} THEN base ELSE G[<<f[z \ {Max(z)}], q[Max(z)]>>]]
    BY <2>1 DEF Folds
  <2> HIDE DEF G, base, q
  <2>4. Solves(f)
    BY <2>2, <2>3
  <2> QED
    BY <2>4
<1>5. Solves(g)
  BY <1>4
<1>6. Replayed(l, s, ch, id) = g[1 .. n]
  BY <1>1 DEF Replayed, FoldLeft, MapThenFoldSet
<1> HIDE DEF g, Op, G, base, q
<1>7. h[0] = base
  <2>1. 1 .. 0 = {}
    OBVIOUS
  <2>2. g[{}] = base
    BY <1>5
  <2> QED
    BY <1>1, <2>1, <2>2
<1>8. ASSUME NEW i \in 1 .. n PROVE h[i] = Op(h[i - 1], q[i])
  <2>1. /\ 1 .. i \in SUBSET (1 .. n) /\ 1 .. i # {} /\ Max(1 .. i) = i
        /\ (1 .. i) \ {i} = 1 .. (i - 1) /\ i - 1 \in 0 .. n /\ i \in 0 .. n
    BY <1>1, UpTo
  <2>2. g[1 .. i] = Op(g[1 .. (i - 1)], q[i])
    BY <1>5, <2>1
  <2> QED
    BY <2>1, <2>2
<1>9. h[n] = Replayed(l, s, ch, id)
  BY <1>1, <1>6
<1>10. \A i \in 0 .. n : h[i] \in Replays
  <2> DEFINE T == {i \in 0 .. n : h[i] \in Replays}
  <2>1. 0 \in T
    BY <1>1, <1>7
  <2>2. ASSUME NEW i \in 1 .. n, i - 1 \in T PROVE i \in T
    <3>1. i \in 0 .. n /\ q[i] \in Events
      BY <1>1
    <3> HIDE DEF h
    <3> QED
      BY <1>2, <1>8, <2>2, <3>1
  <2> HIDE DEF T
  <2>3. \A i \in 0 .. n : i \in T
    BY <1>1, <2>1, <2>2, Along
  <2> QED
    BY <2>3 DEF T
<1>11. h \in [0 .. n -> Replays]
  BY <1>10
<1> HIDE DEF h
<1> QED
  BY <1>7, <1>8, <1>9, <1>11 DEF base, q, Op

\* Events of one channel past an id, upward and no further than `last`.
Upward(p, ch, id, last) ==
  /\ \A i, j \in DOMAIN p : i < j => p[i].id < p[j].id
  /\ \A i \in DOMAIN p : p[i] \in Events /\ p[i].channel = ch /\ id < p[i].id /\ p[i].id <= last

\* One more that is past the last.
LEMMA UpwardMore ==
  ASSUME NEW p \in Lines, NEW ch, NEW id \in Nat, NEW last \in Nat, last >= id,
         Upward(p, ch, id, last), NEW f \in Events, f.channel = ch, f.id > last
  PROVE  Upward(Append(p, f), ch, id, f.id)
<1> DEFINE q == Append(p, f)
           n == Len(p)
<1>1. /\ n \in Nat /\ DOMAIN p = 1 .. n /\ DOMAIN q = 1 .. n + 1 /\ q[n + 1] = f
      /\ \A i \in 1 .. n : q[i] = p[i]
  BY DEF Lines
<1>2. f.id \in Nat /\ \A i \in 1 .. n : p[i].id \in Nat /\ p[i].id <= last /\ id < p[i].id
  BY <1>1 DEF Upward, Events
<1> HIDE DEF q, n
<1>3. ASSUME NEW i \in 1 .. n + 1
      PROVE  q[i] \in Events /\ q[i].channel = ch /\ id < q[i].id /\ q[i].id <= f.id
  <2>1. CASE i \in 1 .. n
    <3>1. p[i] \in Events /\ p[i].channel = ch
      BY <1>1, <2>1 DEF Upward
    <3> QED
      BY <1>1, <1>2, <2>1, <3>1
  <2>2. CASE i = n + 1
    BY <1>1, <1>2, <2>2
  <2> QED
    BY <1>1, <2>1, <2>2
<1>4. ASSUME NEW i \in 1 .. n + 1, NEW j \in 1 .. n + 1, i < j
      PROVE  q[i].id < q[j].id
  <2>1. i \in 1 .. n
    BY <1>1, <1>4
  <2>2. CASE j \in 1 .. n
    BY <1>1, <1>4, <2>1, <2>2 DEF Upward
  <2>3. CASE j = n + 1
    BY <1>1, <1>2, <2>1, <2>3
  <2> QED
    BY <1>1, <2>2, <2>3
<1>5. Upward(q, ch, id, f.id)
  BY <1>1, <1>3, <1>4 DEF Upward
<1> QED
  BY <1>5 DEF q

\* What an appended line has.
LEMMA HasMore ==
  ASSUME NEW p \in Lines, NEW f \in Events \cup {Gap}
  PROVE  \A e : Has(Append(p, f), e) <=> Has(p, e) \/ e = f
<1> DEFINE q == Append(p, f)
           n == Len(p)
<1>1. /\ n \in Nat /\ DOMAIN p = 1 .. n /\ DOMAIN q = 1 .. n + 1 /\ q[n + 1] = f
      /\ \A i \in 1 .. n : q[i] = p[i]
  BY DEF Lines
<1> HIDE DEF q, n
<1>2. ASSUME NEW e, Has(p, e) \/ e = f PROVE Has(q, e)
  <2>1. CASE Has(p, e)
    <3>1. PICK i \in 1 .. n : p[i] = e
      BY <1>1, <2>1 DEF Has
    <3>2. i \in 1 .. n + 1 /\ q[i] = e
      BY <1>1, <3>1
    <3> QED
      BY <1>1, <3>2 DEF Has
  <2>2. CASE e = f
    <3>1. n + 1 \in 1 .. n + 1
      BY <1>1
    <3> QED
      BY <1>1, <2>2, <3>1 DEF Has
  <2> QED
    BY <1>2, <2>1, <2>2
<1>3. ASSUME NEW e, Has(q, e) PROVE Has(p, e) \/ e = f
  <2>1. PICK i \in 1 .. n + 1 : q[i] = e
    BY <1>1, <1>3 DEF Has
  <2>2. i \in 1 .. n \/ i = n + 1
    BY <1>1
  <2> QED
    BY <1>1, <2>1, <2>2 DEF Has
<1> QED
  BY <1>2, <1>3 DEF q

\* A replay touches the slot it is for, and leaves it no further than the journal.
LEMMA ReplayedFacts ==
  ASSUME server \in Deployed, NEW l \in Loops, NEW s \in Slots, NEW ch, NEW id \in Nat,
         l.url[s] = ch, l.last[s] = id
  PROVE  LET r == Replayed(l, s, ch, id) IN
         /\ r \in Replays /\ Only(l, r.l, s)
         /\ r.l.url[s] = ch /\ r.l.before[s] = l.before[s]
         /\ r.l.last[s] = id \/ \E k \in DOMAIN l.journal : r.l.last[s] = l.journal[k].id
         /\ l.pending[s] = <<>> =>
              /\ r.l.last[s] >= id
              /\ Upward(r.l.pending[s], ch, id, r.l.last[s])
              /\ r.whole => \A k \in DOMAIN l.journal :
                              l.journal[k].channel = ch /\ l.journal[k].id > id
                              => Has(r.l.pending[s], l.journal[k])
<1> DEFINE q == l.journal
           n == Len(q)
<1>1. PICK h \in [0 .. n -> Replays] :
        /\ h[0] = [l |-> l, whole |-> TRUE]
        /\ h[n] = Replayed(l, s, ch, id)
        /\ \A i \in 1 .. n : h[i] = CaughtUp(h[i - 1], s, ch, id, q[i])
  BY ReplayedWalk
<1>2. q \in Seq(Events) /\ n \in Nat /\ DOMAIN q = 1 .. n
  BY DEF Loops, LoopState
<1> HIDE DEF q, n
<1> DEFINE Stands(i) ==
             /\ Only(l, h[i].l, s)
             /\ h[i].l.url[s] = ch /\ h[i].l.before[s] = l.before[s]
             /\ h[i].l.last[s] = id \/ \E k \in DOMAIN q : h[i].l.last[s] = q[k].id
           Brings(i) ==
             /\ h[i].l.last[s] >= id
             /\ Upward(h[i].l.pending[s], ch, id, h[i].l.last[s])
             /\ h[i].whole => \A k \in 1 .. i : q[k].channel = ch /\ q[k].id > id
                                                => Has(h[i].l.pending[s], q[k])
           T == {i \in 0 .. n : Stands(i) /\ (l.pending[s] = <<>> => Brings(i))}
<1>3. 0 \in T
  <2>1. Stands(0)
    BY <1>1 DEF Only
  <2>2. ASSUME l.pending[s] = <<>> PROVE Brings(0)
    <3>1. Upward(<<>>, ch, id, id)
      BY DEF Upward
    <3> QED
      BY <1>1, <2>2, <3>1
  <2> QED
    BY <1>2, <2>1, <2>2
<1>4. ASSUME NEW i \in 1 .. n, i - 1 \in T PROVE i \in T
  <2> DEFINE r == h[i - 1]
             m == h[i]
             f == q[i]
  <2>1. r \in Replays /\ m \in Replays /\ f \in Events /\ i \in 0 .. n
    BY <1>1, <1>2
  <2>2. m = CaughtUp(r, s, ch, id, f)
    BY <1>1
  <2>3. r.l \in Loops /\ r.l.last[s] \in Nat /\ r.l.pending[s] \in Lines
    BY <2>1 DEF Replays, Loops, LoopState, Lines
  <2>4. /\ f.id \in Nat /\ f.id # NoEventId /\ f \in Events \cup {Gap}
        /\ i \in DOMAIN q
    BY <1>2, <2>1 DEF Events, NoEventId
  <2>5. Stands(i - 1) /\ (l.pending[s] = <<>> => Brings(i - 1))
    BY <1>4
  <2> HIDE DEF T, r, m, f, Stands, Brings
  <2>6. CASE /\ f.channel = ch /\ f.id > id /\ r.whole /\ Takes(r.l, s, f)
             /\ m.l = Queued(r.l, s, f) /\ m.whole
    <3>1. /\ Only(r.l, m.l, s)
          /\ m.l.url[s] = r.l.url[s] /\ m.l.before[s] = r.l.before[s]
          /\ m.l.pending[s] = Append(r.l.pending[s], f)
          /\ m.l.last[s] = f.id
      <4>1. r.l \in Loops /\ f \in Events \cup {Gap}
        BY <2>3, <2>4
      <4> DEFINE z == Queued(r.l, s, f)
      <4>2. /\ Only(r.l, z, s) /\ z.url[s] = r.l.url[s] /\ z.before[s] = r.l.before[s]
            /\ Takes(r.l, s, f) =>
                 /\ z.pending[s] = Append(r.l.pending[s], f)
                 /\ z.last[s] = IF f.id = NoEventId THEN r.l.last[s] ELSE f.id
        BY <4>1, QueuedFacts
      <4> QED
        BY <2>4, <2>6, <4>2
    <3>2. Stands(i)
      BY ZenonT(60), <2>4, <2>5, <3>1 DEF Stands, Only, f, m, r
    <3>3. f.id > r.l.last[s]
      BY <2>4, <2>6 DEF Takes
    <3>4. ASSUME l.pending[s] = <<>> PROVE Brings(i)
      <4>1. r.l.last[s] >= id /\ Upward(r.l.pending[s], ch, id, r.l.last[s])
        BY <2>5, <3>4 DEF Brings, r
      <4>2. Upward(m.l.pending[s], ch, id, m.l.last[s])
        BY <2>1, <2>3, <2>6, <3>1, <3>3, <4>1, UpwardMore
      <4>3. m.l.last[s] >= id
        BY <2>4, <2>6, <3>1
      <4>4. ASSUME NEW k \in 1 .. i, q[k].channel = ch, q[k].id > id
            PROVE  Has(m.l.pending[s], q[k])
        <5>1. CASE k = i
          BY <2>3, <2>4, <3>1, <5>1, HasMore DEF f
        <5>2. CASE k # i
          <6>1. k \in 1 .. (i - 1)
            BY <1>2, <5>2
          <6>2. Has(r.l.pending[s], q[k])
            BY <2>5, <2>6, <3>4, <4>4, <6>1 DEF Brings, r
          <6> QED
            BY <2>3, <2>4, <3>1, <6>2, HasMore
        <5> QED
          BY <5>1, <5>2
      <4> QED
        BY <4>2, <4>3, <4>4 DEF Brings, m
    <3> QED
      BY <2>1, <3>2, <3>4 DEF T
  <2>7. CASE m.l = r.l /\ (m.whole => r.whole /\ ~ (f.channel = ch /\ f.id > id))
    <3>1. Stands(i)
      BY <2>5, <2>7 DEF Stands, m, r
    <3>2. ASSUME l.pending[s] = <<>> PROVE Brings(i)
      <4>1. ASSUME m.whole, NEW k \in 1 .. i, q[k].channel = ch, q[k].id > id
            PROVE  Has(m.l.pending[s], q[k])
        <5>1. k # i
          BY <2>7, <4>1 DEF f
        <5>2. k \in 1 .. (i - 1)
          BY <1>2, <5>1
        <5> QED
          BY <2>5, <2>7, <3>2, <4>1, <5>2 DEF Brings, r
      <4> QED
        BY <2>5, <2>7, <3>2, <4>1 DEF Brings, m, r
    <3> QED
      BY <2>1, <3>1, <3>2 DEF T
  <2> QED
    BY <2>1, <2>2, <2>6, <2>7, CaughtUpFacts
<1>5. n \in T
  <2> HIDE DEF T
  <2>1. \A i \in 0 .. n : i \in T
    BY <1>2, <1>3, <1>4, Along
  <2> QED
    BY <1>2, <2>1
<1>6. h[n] \in Replays
  BY <1>1, <1>2
<1>7. Stands(n) /\ (l.pending[s] = <<>> => Brings(n))
  BY <1>5
<1> QED
  BY <1>1, <1>2, <1>6, <1>7 DEF q

-----------------------------------------------------------------------------
(* A hold. *)

\* Only one slot is touched, by one operation after another.
LEMMA OnlyOnly ==
  ASSUME NEW l, NEW m, NEW o, NEW s, Only(l, m, s), Only(m, o, s)
  PROVE  Only(l, o, s)
BY DEF Only

\* A stream is caught up, or told of a gap and sent nothing; on a first visit neither.
LEMMA ResumedFacts ==
  ASSUME server \in Deployed, NEW l \in Loops, NEW s \in Slots, NEW ch \in Channels,
         NEW id \in Nat, l.url[s] = ch, l.last[s] = id, counter \in Nat,
         \A k \in DOMAIN l.journal : l.journal[k].id <= counter
  PROVE  LET m == Resumed(l, s, ch, id) IN
         /\ m \in Loops /\ Only(l, m, s)
         /\ m.url[s] = ch /\ m.before[s] = l.before[s] /\ m.last[s] <= counter
         /\ l.pending[s] = <<>> =>
              \/ id = 0 /\ m.pending[s] = <<>> /\ m.last[s] = 0
              \/ id # 0 /\ m.pending[s] = <<Gap>>
              \/ /\ id # 0 /\ id >= l.floor /\ m.last[s] >= id
                 /\ Upward(m.pending[s], ch, id, m.last[s])
                 /\ \A k \in DOMAIN l.journal :
                      l.journal[k].channel = ch /\ l.journal[k].id > id
                      => Has(m.pending[s], l.journal[k])
<1> DEFINE m == Resumed(l, s, ch, id)
           replayed == Replayed(l, s, ch, id)
           undone == Subscribed(Unsubscribed(replayed.l, s), s, ch, id)
           ahead == Subscribed(l, s, ch, counter)
<1>1. /\ replayed \in Replays /\ Only(l, replayed.l, s)
      /\ replayed.l.url[s] = ch /\ replayed.l.before[s] = l.before[s]
      /\ replayed.l.last[s] = id \/ \E k \in DOMAIN l.journal : replayed.l.last[s] = l.journal[k].id
      /\ l.pending[s] = <<>> =>
           /\ replayed.l.last[s] >= id
           /\ Upward(replayed.l.pending[s], ch, id, replayed.l.last[s])
           /\ replayed.whole => \A k \in DOMAIN l.journal :
                           l.journal[k].channel = ch /\ l.journal[k].id > id
                           => Has(replayed.l.pending[s], l.journal[k])
  BY ReplayedFacts
<1>2. Gap \in Events \cup {Gap} /\ Gap.id = NoEventId /\ replayed.l \in Loops
  BY <1>1 DEF Gap, Replays
<1>3. m = CASE id = 0 -> l
            [] id > counter -> Queued(ahead, s, Gap)
            [] id \in 1 .. counter /\ ~ Covers(l, id) -> Queued(l, s, Gap)
            [] id \in 1 .. counter /\ Covers(l, id) /\ replayed.whole -> replayed.l
            [] id \in 1 .. counter /\ Covers(l, id) /\ ~ replayed.whole -> Queued(undone, s, Gap)
  BY DEF Resumed
<1>4. ASSUME NEW b \in Loops, b.url[s] = ch
      PROVE  LET z == Queued(b, s, Gap) IN
             /\ z \in Loops /\ Only(b, z, s) /\ z.url[s] = ch /\ z.before[s] = b.before[s]
             /\ z.last[s] = b.last[s]
             /\ b.pending[s] = <<>> => z.pending[s] = <<Gap>>
  <2> DEFINE z == Queued(b, s, Gap)
  <2>1. /\ z \in Loops /\ Only(b, z, s) /\ z.url[s] = ch /\ z.before[s] = b.before[s]
        /\ ~ Takes(b, s, Gap) => z = b
        /\ Takes(b, s, Gap) => /\ z.pending[s] = Append(b.pending[s], Gap)
                               /\ z.last[s] = b.last[s]
    BY <1>2, <1>4, QueuedFacts
  <2>2. z.last[s] = b.last[s]
    BY <2>1
  <2>3. ASSUME b.pending[s] = <<>> PROVE z.pending[s] = <<Gap>>
    <3>1. ch # None
      BY HoldsAssumption
    <3>2. Len(b.pending[s]) < server.outbox
      BY <2>3 DEF Deployed
    <3>3. Takes(b, s, Gap)
      BY <1>2, <1>4, <3>1, <3>2 DEF Takes
    <3> QED
      BY <2>1, <2>3, <3>3
  <2> QED
    BY <2>1, <2>2, <2>3
<1>5. /\ ahead \in Loops /\ Only(l, ahead, s) /\ ahead.url[s] = ch /\ ahead.last[s] = counter
      /\ ahead.pending[s] = l.pending[s] /\ ahead.before[s] = l.before[s]
  BY SubscribedFacts
<1>6. /\ undone \in Loops /\ Only(l, undone, s) /\ undone.url[s] = ch /\ undone.last[s] = id
      /\ undone.pending[s] = <<>> /\ undone.before[s] = l.before[s]
  <2> DEFINE b == Unsubscribed(replayed.l, s)
  <2>1. /\ b \in Loops /\ Only(replayed.l, b, s) /\ b.pending[s] = <<>>
        /\ b.before[s] = l.before[s]
    BY <1>1, <1>2, UnsubscribedFacts
  <2> HIDE DEF b, replayed
  <2>2. /\ undone \in Loops /\ Only(b, undone, s) /\ undone.url[s] = ch /\ undone.last[s] = id
        /\ undone.pending[s] = b.pending[s] /\ undone.before[s] = b.before[s]
    BY <2>1, SubscribedFacts DEF b
  <2> QED
    BY <1>1, <2>1, <2>2, OnlyOnly
<1> HIDE DEF m, replayed, undone, ahead
<1>7. CASE id = 0
  <2>1. m = l
    BY <1>3, <1>7
  <2> QED
    BY <1>7, <2>1 DEF Only, m
<1>8. CASE id > counter
  <2>1. m = Queued(ahead, s, Gap)
    BY <1>3, <1>8
  <2>2. /\ m \in Loops /\ Only(ahead, m, s) /\ m.url[s] = ch /\ m.before[s] = ahead.before[s]
        /\ m.last[s] = counter
        /\ ahead.pending[s] = <<>> => m.pending[s] = <<Gap>>
    BY <1>4, <1>5, <2>1
  <2> QED
    BY <1>5, <1>8, <2>2, OnlyOnly DEF m
<1>9. CASE id \in 1 .. counter /\ ~ Covers(l, id)
  <2>1. m = Queued(l, s, Gap)
    BY <1>3, <1>9
  <2>2. /\ m \in Loops /\ Only(l, m, s) /\ m.url[s] = ch /\ m.before[s] = l.before[s]
        /\ m.last[s] = id
        /\ l.pending[s] = <<>> => m.pending[s] = <<Gap>>
    BY <1>4, <2>1
  <2> QED
    BY <1>9, <2>2 DEF m
<1>10. CASE id \in 1 .. counter /\ Covers(l, id) /\ replayed.whole
  <2>1. m = replayed.l
    BY <1>3, <1>10
  <2>2. m.last[s] <= counter
    BY <1>1, <1>10, <2>1
  <2> QED
    BY <1>1, <1>2, <1>10, <2>1, <2>2 DEF m, Covers
<1>11. CASE id \in 1 .. counter /\ Covers(l, id) /\ ~ replayed.whole
  <2>1. m = Queued(undone, s, Gap)
    BY <1>3, <1>11
  <2>2. /\ m \in Loops /\ Only(undone, m, s) /\ m.url[s] = ch /\ m.before[s] = undone.before[s]
        /\ m.last[s] = id
        /\ undone.pending[s] = <<>> => m.pending[s] = <<Gap>>
    BY <1>4, <1>6, <2>1
  <2> QED
    BY <1>6, <1>11, <2>2, OnlyOnly DEF m
<1>12. id = 0 \/ id > counter \/ id \in 1 .. counter
  OBVIOUS
<1>13. replayed.whole \in BOOLEAN /\ Covers(l, id) \in BOOLEAN
  BY <1>1 DEF Replays, Covers
<1> QED
  BY <1>7, <1>8, <1>9, <1>10, <1>11, <1>12

\* A line of none of what came before, and one that only says so.
LEMMA LawfulStart ==
  ASSUME NEW last \in Nat, NEW before \in SUBSET Events, NEW ch, NEW asked \in Nat
  PROVE  /\ asked = 0 => Lawful(<<>>, last, before, ch, asked)
         /\ asked # 0 => Lawful(<<Gap>>, last, before, ch, asked)
<1>1. Numbered(<<>>) = {} /\ \A e : ~ Has(<<>>, e)
  BY DEF Numbered, Has
<1>2. Numbered(<<Gap>>) = {} /\ \A e : Has(<<Gap>>, e) <=> e = Gap
  BY DEF Numbered, Has, Gap
<1>3. Gap \notin Events
  BY DEF Gap, Events, NoEventId
<1> QED
  BY <1>1, <1>2, <1>3 DEF Lawful

\* One of all that is owed.
LEMMA LawfulWhole ==
  ASSUME NEW p \in Lines, NEW last \in Nat, NEW before \in SUBSET Events, NEW ch,
         NEW asked \in Nat, asked # 0, last >= asked, Upward(p, ch, asked, last),
         \A f \in before : f.id > asked => Has(p, f)
  PROVE  Lawful(p, last, before, ch, asked)
<1>1. Gap \notin Events
  BY DEF Gap, Events, NoEventId
<1>2. ~ Has(p, Gap)
  BY <1>1 DEF Upward, Has
<1>3. Numbered(p) \subseteq DOMAIN p
  BY DEF Numbered
<1> QED
  BY <1>2, <1>3 DEF Lawful, Upward

\* A stream held has the law of what it asked for.
LEMMA HeldFacts ==
  ASSUME server \in Deployed, NEW l \in Loops, NEW s \in Slots, NEW ch \in Channels,
         NEW id \in Nat, counter \in Nat, Journaled(l), \A e \in l.read : e.id <= counter
  PROVE  LET m == Held(l, s, ch, id) IN
         /\ m \in Loops /\ Only(l, m, s) /\ m.last[s] <= counter
         /\ l.pending[s] = <<>> => Law(m, s, ch, id, <<>>)
<1> DEFINE m == Held(l, s, ch, id)
           known == {f \in l.read : f.channel = ch}
           sub == Subscribed(l, s, ch, id)
           b == [sub EXCEPT !.before[s] = known]
<1>1. /\ sub \in Loops /\ Only(l, sub, s)
      /\ sub.url[s] = ch /\ sub.last[s] = id /\ sub.pending[s] = l.pending[s]
      /\ sub.before[s] = l.before[s]
  BY SubscribedFacts
<1>2. m = Resumed(b, s, ch, id)
  BY DEF Held
<1>3. l.read \subseteq Events /\ known \in SUBSET Events
  BY DEF Loops, LoopState
<1> HIDE DEF sub, known
<1>4. /\ b \in Loops /\ b.floor = sub.floor /\ b.head = sub.head /\ b.journal = sub.journal
      /\ b.read = sub.read /\ b.url = sub.url /\ b.last = sub.last /\ b.pending = sub.pending
      /\ b.before = [sub.before EXCEPT ![s] = known]
  <2>1. sub \in LoopState
    BY <1>1 DEF Loops
  <2>2. /\ b.floor = sub.floor /\ b.head = sub.head /\ b.journal = sub.journal
        /\ b.read = sub.read /\ b.url = sub.url /\ b.last = sub.last /\ b.pending = sub.pending
        /\ b.before = [sub.before EXCEPT ![s] = known]
    BY <2>1 DEF LoopState
  <2>3. b \in LoopState
    BY <1>3, <2>1 DEF LoopState
  <2> QED
    BY <1>1, <2>2, <2>3 DEF Loops
<1>5. /\ Only(l, b, s) /\ b.before[s] = known /\ b.url[s] = ch /\ b.last[s] = id
      /\ b.pending[s] = l.pending[s] /\ b.journal = l.journal /\ b.floor = l.floor
      /\ b.read = l.read
  <2>1. sub.before \in [Slots -> SUBSET Events]
    BY <1>1 DEF Loops, LoopState
  <2> QED
    BY <1>1, <1>4, <2>1 DEF Only
<1> HIDE DEF b, m
<1>6. \A k \in DOMAIN b.journal : b.journal[k].id <= counter
  BY <1>5 DEF Journaled
<1>7. /\ m \in Loops /\ Only(b, m, s)
      /\ m.url[s] = ch /\ m.before[s] = b.before[s] /\ m.last[s] <= counter
      /\ b.pending[s] = <<>> =>
              \/ id = 0 /\ m.pending[s] = <<>> /\ m.last[s] = 0
              \/ id # 0 /\ m.pending[s] = <<Gap>>
              \/ /\ id # 0 /\ id >= b.floor /\ m.last[s] >= id
                 /\ Upward(m.pending[s], ch, id, m.last[s])
                 /\ \A k \in DOMAIN b.journal :
                      b.journal[k].channel = ch /\ b.journal[k].id > id
                      => Has(m.pending[s], b.journal[k])
  <2>1. b \in Loops /\ b.url[s] = ch /\ b.last[s] = id
    BY <1>4, <1>5
  <2> DEFINE z == Resumed(b, s, ch, id)
  <2>2. /\ z \in Loops /\ Only(b, z, s)
        /\ z.url[s] = ch /\ z.before[s] = b.before[s] /\ z.last[s] <= counter
        /\ b.pending[s] = <<>> =>
              \/ id = 0 /\ z.pending[s] = <<>> /\ z.last[s] = 0
              \/ id # 0 /\ z.pending[s] = <<Gap>>
              \/ /\ id # 0 /\ id >= b.floor /\ z.last[s] >= id
                 /\ Upward(z.pending[s], ch, id, z.last[s])
                 /\ \A k \in DOMAIN b.journal :
                      b.journal[k].channel = ch /\ b.journal[k].id > id
                      => Has(z.pending[s], b.journal[k])
    BY <1>6, <2>1, ResumedFacts
  <2> QED
    BY <1>2, <2>2
<1>8. Only(l, m, s)
  BY <1>5, <1>7, OnlyOnly
<1>9. ASSUME l.pending[s] = <<>> PROVE Law(m, s, ch, id, <<>>)
  <2> DEFINE p == m.pending[s]
             last == m.last[s]
  <2>1. p \in Lines /\ last \in Nat
    BY <1>7 DEF Loops, LoopState, Lines
  <2>2. <<>> \o p = p
    BY <2>1 DEF Lines
  <2>3. m.before[s] = known /\ known \subseteq m.read
    BY <1>5, <1>7, <1>8 DEF known, Only
  <2>4. Lawful(p, last, known, ch, id)
    <3>1. CASE id = 0 /\ p = <<>>
      BY <1>3, <2>1, <3>1, LawfulStart
    <3>2. CASE id # 0 /\ p = <<Gap>>
      BY <1>3, <2>1, <3>2, LawfulStart
    <3>3. CASE /\ id # 0 /\ id >= b.floor /\ last >= id
               /\ Upward(p, ch, id, last)
               /\ \A k \in DOMAIN b.journal :
                    b.journal[k].channel = ch /\ b.journal[k].id > id
                    => Has(p, b.journal[k])
      <4>1. ASSUME NEW f \in known, f.id > id PROVE Has(p, f)
        <5>1. f \in l.read /\ f.channel = ch /\ f.id \in Nat /\ l.floor \in Nat
          BY <1>3 DEF known, Events, Loops, LoopState
        <5>2. f.id > l.floor
          BY <1>5, <3>3, <4>1, <5>1
        <5>3. PICK k \in DOMAIN l.journal : l.journal[k] = f
          BY <5>1, <5>2 DEF Journaled
        <5> QED
          BY <1>5, <3>3, <4>1, <5>1, <5>3
      <4> HIDE DEF p, last
      <4> QED
        BY <1>3, <2>1, <3>3, <4>1, LawfulWhole
    <3> QED
      BY <1>5, <1>7, <1>9, <3>1, <3>2, <3>3
  <2> QED
    BY <1>7, <2>2, <2>3, <2>4 DEF Law
<1> QED
  BY <1>7, <1>8, <1>9 DEF m

-----------------------------------------------------------------------------
(* A frame off the channel. *)

\* One more event, past the id the stream stands at.
LEMMA LawfulMore ==
  ASSUME NEW p \in Lines, NEW last \in Nat, NEW before \in SUBSET Events, NEW ch,
         NEW asked \in Nat, Lawful(p, last, before, ch, asked),
         NEW f \in Events, f.channel = ch, f.id > last, f \notin before
  PROVE  Lawful(Append(p, f), f.id, before, ch, asked)
<1> DEFINE q == Append(p, f)
           n == Len(p)
<1>1. /\ n \in Nat /\ DOMAIN p = 1 .. n /\ DOMAIN q = 1 .. n + 1 /\ q[n + 1] = f
      /\ \A i \in 1 .. n : q[i] = p[i] /\ p[i] \in Events \cup {Gap}
  BY DEF Lines
<1>2. \A e : Has(q, e) <=> Has(p, e) \/ e = f
  BY HasMore
<1>3. Gap \notin Events /\ f # Gap /\ f.id \in Nat /\ f.id # NoEventId
  BY DEF Gap, Events, NoEventId
<1> HIDE DEF q, n
<1>4. /\ \A i \in Numbered(q) : i \in Numbered(p) \/ i = n + 1
      /\ Numbered(p) \subseteq 1 .. n
  BY <1>1 DEF Numbered
<1>5. \A i \in Numbered(p) : p[i].id \in Nat /\ p[i].id <= last /\ p[i].channel = ch
  <2>1. \A i \in Numbered(p) : p[i] \in Events
    BY <1>1, <1>4 DEF Numbered, Gap
  <2> QED
    BY <2>1 DEF Lawful, Events
<1>6. ASSUME NEW i \in Numbered(q), NEW j \in Numbered(q), i < j PROVE q[i].id < q[j].id
  <2>1. i \in Numbered(p)
    BY <1>1, <1>4, <1>6
  <2>2. CASE j \in Numbered(p)
    BY <1>1, <1>4, <1>6, <2>1, <2>2 DEF Lawful
  <2>3. CASE j = n + 1
    BY <1>1, <1>3, <1>4, <1>5, <2>1, <2>3
  <2> QED
    BY <1>4, <2>2, <2>3
<1>7. ASSUME NEW i \in Numbered(q) PROVE q[i].channel = ch /\ q[i].id <= f.id
  <2>1. CASE i \in Numbered(p)
    BY <1>1, <1>3, <1>4, <1>5, <2>1
  <2>2. CASE i = n + 1
    BY <1>1, <1>3, <2>2
  <2> QED
    BY <1>4, <2>1, <2>2
<1>8. Has(q, Gap) \/ (f.id >= asked /\ \A i \in Numbered(q) : q[i].id > asked)
  <2> SUFFICES ASSUME ~ Has(q, Gap)
               PROVE  f.id >= asked /\ \A i \in Numbered(q) : q[i].id > asked
    OBVIOUS
  <2>1. last >= asked /\ \A i \in Numbered(p) : p[i].id > asked
    BY <1>2 DEF Lawful
  <2>2. f.id > asked
    BY <1>3, <2>1
  <2>3. ASSUME NEW i \in Numbered(q) PROVE q[i].id > asked
    BY <1>1, <1>4, <2>1, <2>2
  <2> QED
    BY <1>3, <2>2, <2>3
<1>9. /\ asked = 0 => ~ Has(q, Gap)
      /\ asked # 0 => Has(q, Gap) \/ \A e \in before : e.id > asked => Has(q, e)
      /\ asked = 0 \/ Has(q, Gap) => \A e \in before : ~ Has(q, e)
  BY <1>2, <1>3 DEF Lawful
<1> QED
  BY <1>6, <1>7, <1>8, <1>9 DEF Lawful, q

\* A line that is longer at its end.
LEMMA Longer ==
  ASSUME NEW got \in Lines, NEW p \in Lines, NEW f \in Events \cup {Gap}
  PROVE  got \o p \in Lines /\ got \o Append(p, f) = Append(got \o p, f)
BY DEF Lines

\* What a frame off the bus is.
LEMMA FrameFacts ==
  ASSUME NEW f \in Frames
  PROVE  /\ f.kind # "h" => f.kind = "event" /\ EventOf(f) \in Events
         /\ f.kind = "event" => EventOf(f) \in Events /\ f.id \in Nat
         /\ f.kind = "h" => f.slot \in Slots /\ f.channel \in Channels /\ f.id \in Nat
BY DEF Frames, EventOf, Events

\* An event is journaled, then queued for the slots that take it.
LEMMA EventFacts ==
  ASSUME server \in Deployed, NEW l \in Loops, NEW f \in Frames, f.kind = "event"
  PROVE  LET m == Delivered(l, f)
             e == EventOf(f)
         IN /\ m \in Loops /\ m.read = l.read \cup {e} /\ m.url = l.url /\ m.before = l.before
            /\ Journaled(l) => Journaled(m)
            /\ \A s \in Slots :
                 IF l.url[s] = e.channel /\ Takes(l, s, e)
                 THEN m.pending[s] = Append(l.pending[s], e) /\ m.last[s] = e.id
                 ELSE m.pending[s] = l.pending[s] /\ m.last[s] = l.last[s]
<1> DEFINE m == Delivered(l, f)
           e == EventOf(f)
           j == Recorded(l, e)
           n == Notified(j, e)
<1>1. e \in Events
  BY FrameFacts
<1>2. m = [n EXCEPT !.read = @ \cup {e}]
  BY DEF Delivered, EventOf
<1>3. /\ j \in Loops
      /\ j.url = l.url /\ j.last = l.last /\ j.pending = l.pending /\ j.read = l.read
      /\ j.before = l.before /\ j.floor >= l.floor
      /\ \A i \in DOMAIN j.journal :
           j.journal[i] = e \/ \E k \in DOMAIN l.journal : j.journal[i] = l.journal[k]
      /\ e.id > j.floor => Has(j.journal, e)
      /\ \A k \in DOMAIN l.journal :
           l.journal[k].id > j.floor => Has(j.journal, l.journal[k])
  BY <1>1, RecordedFacts
<1> HIDE DEF j
<1>4. /\ n \in Loops
      /\ n.floor = j.floor /\ n.head = j.head /\ n.journal = j.journal /\ n.read = j.read
      /\ n.before = j.before /\ n.url = j.url
      /\ \A s \in Slots :
           IF j.url[s] = e.channel /\ Takes(j, s, e)
           THEN n.pending[s] = Append(j.pending[s], e) /\ n.last[s] = e.id
           ELSE n.pending[s] = j.pending[s] /\ n.last[s] = j.last[s]
  BY <1>1, <1>3, NotifiedFacts
<1> HIDE DEF n, m, e
<1>5. n \in LoopState
  BY <1>4 DEF Loops
<1>6. /\ m.floor = n.floor /\ m.head = n.head /\ m.journal = n.journal
      /\ m.read = n.read \cup {e} /\ m.before = n.before /\ m.url = n.url
      /\ m.pending = n.pending /\ m.last = n.last
  BY <1>2, <1>5 DEF LoopState
<1>7. m \in Loops
  <2>1. m \in LoopState
    BY <1>1, <1>2, <1>5 DEF LoopState
  <2> QED
    BY <1>4, <1>6, <2>1 DEF Loops
<1>8. \A s \in Slots : Takes(j, s, e) <=> Takes(l, s, e)
  BY <1>3 DEF Takes
<1>9. ASSUME Journaled(l) PROVE Journaled(m)
  <2>1. ASSUME NEW i \in DOMAIN m.journal PROVE m.journal[i] \in m.read
    BY <1>3, <1>4, <1>6, <1>9, <2>1 DEF Journaled
  <2>2. ASSUME NEW x \in m.read, x.id > m.floor PROVE Has(m.journal, x)
    <3>1. CASE x = e
      BY <1>3, <1>4, <1>6, <2>2, <3>1
    <3>2. CASE x \in l.read
      <4>1. x.id \in Nat /\ j.floor \in Nat /\ l.floor \in Nat
        BY <1>3, <3>2 DEF Loops, LoopState, Events
      <4>2. x.id > l.floor
        BY <1>3, <1>4, <1>6, <2>2, <4>1
      <4>3. PICK k \in DOMAIN l.journal : l.journal[k] = x
        BY <1>9, <3>2, <4>2 DEF Journaled
      <4> QED
        BY <1>3, <1>4, <1>6, <2>2, <4>3
    <3> QED
      BY <1>3, <1>4, <1>6, <3>1, <3>2
  <2> QED
    BY <2>1, <2>2 DEF Journaled, Has
<1>10. ASSUME NEW s \in Slots
       PROVE  IF l.url[s] = e.channel /\ Takes(l, s, e)
              THEN m.pending[s] = Append(l.pending[s], e) /\ m.last[s] = e.id
              ELSE m.pending[s] = l.pending[s] /\ m.last[s] = l.last[s]
  BY <1>3, <1>4, <1>6, <1>8
<1> QED
  BY <1>3, <1>4, <1>6, <1>7, <1>9, <1>10 DEF m, e

\* What holds of a loop, whoever has its slots.
Sound(l) == Journaled(l) /\ Within(l) /\ \A e \in l.read : e.id <= counter

\* What a frame read leaves: the loop sound, the slots it is not a hold for as they
\* were to their clients, and the one it is a hold for its stream's.
LEMMA DeliveredFacts ==
  ASSUME server \in Deployed, counter \in Nat, NEW l \in Loops, NEW f \in Frames,
         Sound(l), f.kind = "event" => f.id <= counter
  PROVE  LET m == Delivered(l, f) IN
         /\ m \in Loops /\ Sound(m)
         /\ m.read = IF f.kind = "event" THEN l.read \cup {EventOf(f)} ELSE l.read
         /\ \A s \in Slots : f.kind = "h" /\ f.slot = s =>
              (Idle(l, s) => Law(m, s, f.channel, f.id, <<>>))
         /\ \A s \in Slots : ~ (f.kind = "h" /\ f.slot = s) =>
              /\ Idle(l, s) => Idle(m, s)
              /\ (f.kind = "event" => \A x \in l.read : x.id # f.id)
                 => \A ch \in Channels, asked \in Nat, got \in Lines :
                      Law(l, s, ch, asked, got) => Law(m, s, ch, asked, got)
<1> DEFINE m == Delivered(l, f)
<1>1. CASE f.kind = "h"
  <2>1. m = Held(l, f.slot, f.channel, f.id)
    BY <1>1 DEF Delivered
  <2>2. f.slot \in Slots /\ f.channel \in Channels /\ f.id \in Nat
    BY <1>1, FrameFacts
  <2> DEFINE z == Held(l, f.slot, f.channel, f.id)
  <2>3. /\ z \in Loops /\ Only(l, z, f.slot) /\ z.last[f.slot] <= counter
        /\ l.pending[f.slot] = <<>> => Law(z, f.slot, f.channel, f.id, <<>>)
    BY <2>2, HeldFacts DEF Sound
  <2> HIDE DEF m, z
  <2>4. /\ m \in Loops /\ Only(l, m, f.slot) /\ m.last[f.slot] <= counter
        /\ l.pending[f.slot] = <<>> => Law(m, f.slot, f.channel, f.id, <<>>)
    BY <2>1, <2>3 DEF z
  <2>5. Sound(m)
    BY <2>4 DEF Only, Sound, Journaled, Within
  <2>6. ASSUME NEW s \in Slots, s # f.slot
        PROVE  /\ Idle(l, s) => Idle(m, s)
               /\ \A ch \in Channels, asked \in Nat, got \in Lines :
                    Law(l, s, ch, asked, got) => Law(m, s, ch, asked, got)
    BY <2>4, <2>6 DEF Only, Idle, Law
  <2>7. f.kind # "event" /\ m.read = l.read
    BY <1>1, <2>4 DEF Only
  <2> QED
    BY <1>1, <2>4, <2>5, <2>6, <2>7 DEF Idle, m
<1>2. CASE f.kind = "event"
  <2> DEFINE e == EventOf(f)
  <2>1. /\ m \in Loops /\ m.read = l.read \cup {e} /\ m.url = l.url /\ m.before = l.before
        /\ Journaled(l) => Journaled(m)
        /\ \A s \in Slots :
             IF l.url[s] = e.channel /\ Takes(l, s, e)
             THEN m.pending[s] = Append(l.pending[s], e) /\ m.last[s] = e.id
             ELSE m.pending[s] = l.pending[s] /\ m.last[s] = l.last[s]
    BY <1>2, EventFacts
  <2>2. e \in Events /\ e.id = f.id /\ e.channel = f.channel /\ e.id <= counter /\ e.id \in Nat
    BY <1>2, FrameFacts DEF EventOf
  <2> HIDE DEF m, e
  <2>3. Sound(m)
    BY <2>1, <2>2 DEF Sound, Within
  <2>4. ASSUME NEW s \in Slots, Idle(l, s) PROVE Idle(m, s)
    BY <2>1, <2>4 DEF Idle, Takes
  <2>5. ASSUME \A x \in l.read : x.id # f.id, NEW s \in Slots, NEW ch \in Channels,
               NEW asked \in Nat, NEW got \in Lines, Law(l, s, ch, asked, got)
        PROVE  Law(m, s, ch, asked, got)
    <3> DEFINE before == l.before[s]
               p == l.pending[s]
               last == l.last[s]
    <3>1. /\ l.url[s] = ch /\ before \subseteq l.read
          /\ Lawful(got \o p, last, before, ch, asked)
      BY <2>5 DEF Law
    <3>2. before \in SUBSET Events /\ p \in Lines /\ last \in Nat
      BY DEF Loops, LoopState, Lines
    <3>3. e \notin before
      BY <2>2, <2>5, <3>1
    <3>4. e.id # NoEventId
      BY <2>2 DEF NoEventId
    <3>5. /\ m.url[s] = ch /\ m.before[s] = before /\ before \subseteq m.read
      BY <2>1, <3>1
    <3>6. CASE l.url[s] = e.channel /\ Takes(l, s, e)
      <4>1. m.pending[s] = Append(p, e) /\ m.last[s] = e.id /\ e.channel = ch /\ e.id > last
        BY <2>1, <3>1, <3>4, <3>6 DEF Takes
      <4> HIDE DEF p, last, before
      <4>2. got \o p \in Lines /\ got \o Append(p, e) = Append(got \o p, e)
        BY <2>2, <3>2, Longer
      <4>3. Lawful(Append(got \o p, e), e.id, before, ch, asked)
        BY <2>2, <3>1, <3>2, <3>3, <4>1, <4>2, LawfulMore
      <4> QED
        BY <3>5, <4>1, <4>2, <4>3 DEF Law
    <3>7. CASE ~ (l.url[s] = e.channel /\ Takes(l, s, e))
      <4>1. m.pending[s] = p /\ m.last[s] = last
        BY <2>1, <3>7
      <4> QED
        BY <3>1, <3>5, <4>1 DEF Law
    <3> QED
      BY <3>6, <3>7
  <2> QED
    BY <1>2, <2>1, <2>3, <2>4, <2>5 DEF m, e
<1> QED
  BY <1>1, <1>2, FrameFacts

-----------------------------------------------------------------------------
(* A channel read to its end. *)

SoundLoops == {l \in Loops : Sound(l)}
PastFrames == {f \in Frames : f.kind = "event" => f.id <= counter}

\* It is a walk along what is on the channel.
LEMMA DrainedWalk ==
  ASSUME server \in Deployed, counter \in Nat,
         NEW l \in SoundLoops, NEW q \in Seq(PastFrames)
  PROVE  \E h \in [0 .. Len(q) -> SoundLoops] :
           /\ h[0] = l
           /\ h[Len(q)] = FoldLeft(Delivered, l, q)
           /\ \A i \in 1 .. Len(q) : h[i] = Delivered(h[i - 1], q[i])
<1> DEFINE n == Len(q)
           G == [x \in SoundLoops \X PastFrames |-> Delivered(x[1], x[2])]
           Solves(g) == g = [z \in SUBSET (1 .. n) |->
                               IF z = {} THEN l ELSE Delivered(g[z \ {Max(z)}], q[Max(z)])]
           g == CHOOSE g : Solves(g)
           h == [i \in 0 .. n |-> g[1 .. i]]
<1>1. n \in Nat /\ DOMAIN q = 1 .. n
  OBVIOUS
<1>2. \A r \in SoundLoops, f \in PastFrames : Delivered(r, f) \in SoundLoops
  BY DeliveredFacts DEF SoundLoops, PastFrames
<1>3. G \in [SoundLoops \X PastFrames -> SoundLoops]
  BY <1>2
<1>4. \E f : Solves(f)
  <2>1. PICK f \in [SUBSET (1 .. n) -> SoundLoops] : Folds(G, n, l, q, f)
    <3> HIDE DEF G
    <3> QED
      BY <1>1, <1>3, FoldsExist
  <2>2. ASSUME NEW z \in SUBSET (1 .. n), z # {}
        PROVE  G[<<f[z \ {Max(z)}], q[Max(z)]>>] = Delivered(f[z \ {Max(z)}], q[Max(z)])
    <3>1. Max(z) \in z
      BY <1>1, <2>2, MaxIn
    <3>2. Max(z) \in 1 .. n /\ z \ {Max(z)} \in SUBSET (1 .. n)
      BY <3>1
    <3>3. f[z \ {Max(z)}] \in SoundLoops
      BY <2>1, <3>2
    <3>4. q[Max(z)] \in PastFrames
      BY <1>1, <3>2
    <3> QED
      BY <3>3, <3>4
  <2>3. f = [z \in SUBSET (1 .. n) |->
               IF z = {} THEN l ELSE G[<<f[z \ {Max(z)}], q[Max(z)]>>]]
    BY <2>1 DEF Folds
  <2> HIDE DEF G
  <2>4. Solves(f)
    BY <2>2, <2>3
  <2> QED
    BY <2>4
<1>5. Solves(g)
  BY <1>4
<1>6. FoldLeft(Delivered, l, q) = g[1 .. n]
  BY <1>1 DEF FoldLeft, MapThenFoldSet
<1> HIDE DEF g, G
<1>7. h[0] = l
  <2>1. 1 .. 0 = {}
    OBVIOUS
  <2>2. g[{}] = l
    BY <1>5
  <2> QED
    BY <1>1, <2>1, <2>2
<1>8. ASSUME NEW i \in 1 .. n PROVE h[i] = Delivered(h[i - 1], q[i])
  <2>1. /\ 1 .. i \in SUBSET (1 .. n) /\ 1 .. i # {} /\ Max(1 .. i) = i
        /\ (1 .. i) \ {i} = 1 .. (i - 1) /\ i - 1 \in 0 .. n /\ i \in 0 .. n
    BY <1>1, UpTo
  <2>2. g[1 .. i] = Delivered(g[1 .. (i - 1)], q[i])
    BY <1>5, <2>1
  <2> QED
    BY <2>1, <2>2
<1>9. h[n] = FoldLeft(Delivered, l, q)
  BY <1>1, <1>6
<1>10. \A i \in 0 .. n : h[i] \in SoundLoops
  <2> DEFINE T == {i \in 0 .. n : h[i] \in SoundLoops}
  <2>1. 0 \in T
    BY <1>1, <1>7
  <2>2. ASSUME NEW i \in 1 .. n, i - 1 \in T PROVE i \in T
    <3>1. i \in 0 .. n /\ q[i] \in PastFrames
      BY <1>1
    <3> HIDE DEF h
    <3> QED
      BY <1>2, <1>8, <2>2, <3>1
  <2> HIDE DEF T
  <2>3. \A i \in 0 .. n : i \in T
    BY <1>1, <2>1, <2>2, Along
  <2> QED
    BY <2>3 DEF T
<1>11. h \in [0 .. n -> SoundLoops]
  BY <1>10
<1> HIDE DEF h
<1> QED
  BY <1>7, <1>8, <1>9, <1>11

\* What a channel read leaves: everything on it read, the loop sound, each slot as
\* it was to its client, and one that a hold was on the channel for its stream's.
LEMMA DrainedFacts ==
  ASSUME server \in Deployed, counter \in Nat,
         NEW l \in SoundLoops, NEW q \in Seq(PastFrames),
         \A i, j \in DOMAIN q :
           q[i].kind = "event" /\ q[j].kind = "event" /\ q[i].id = q[j].id => i = j,
         \A i \in DOMAIN q : q[i].kind = "event" => \A e \in l.read : e.id # q[i].id
  PROVE  LET m == FoldLeft(Delivered, l, q) IN
         /\ m \in Loops /\ Sound(m)
         /\ m.read = l.read \cup {EventOf(q[k]) : k \in {i \in DOMAIN q : q[i].kind = "event"}}
         /\ \A s \in Slots : NoHold(q, s) =>
              /\ Idle(l, s) => Idle(m, s)
              /\ \A ch \in Channels, asked \in Nat, got \in Lines :
                   Law(l, s, ch, asked, got) => Law(m, s, ch, asked, got)
         /\ \A s \in Slots, k \in DOMAIN q :
              q[k].kind = "h" /\ q[k].slot = s /\ HoldAt(q, k, s) /\ Idle(l, s)
              => Law(m, s, q[k].channel, q[k].id, <<>>)
<1> DEFINE n == Len(q)
           m == FoldLeft(Delivered, l, q)
           Past(i) == l.read \cup {EventOf(q[k]) : k \in {j \in 1 .. i : q[j].kind = "event"}}
<1>1. PICK h \in [0 .. n -> SoundLoops] :
        /\ h[0] = l /\ h[n] = m
        /\ \A i \in 1 .. n : h[i] = Delivered(h[i - 1], q[i])
  BY ZenonT(60), DrainedWalk
<1>2. n \in Nat /\ DOMAIN q = 1 .. n
  OBVIOUS
<1> HIDE DEF m, n
<1>3. ASSUME NEW i \in 1 .. n
      PROVE  /\ h[i - 1] \in Loops /\ Sound(h[i - 1]) /\ q[i] \in Frames
             /\ q[i].kind = "event" => q[i].id <= counter
             /\ i \in 0 .. n /\ i - 1 \in 0 .. n
  BY <1>1, <1>2 DEF SoundLoops, PastFrames
<1>4. \A i \in 0 .. n : h[i].read = Past(i)
  <2> DEFINE T == {i \in 0 .. n : h[i].read = Past(i)}
  <2>1. 0 \in T
    BY <1>1, <1>2
  <2>2. ASSUME NEW i \in 1 .. n, i - 1 \in T PROVE i \in T
    <3>1. h[i].read = IF q[i].kind = "event" THEN h[i - 1].read \cup {EventOf(q[i])}
                      ELSE h[i - 1].read
      <4> DEFINE z == Delivered(h[i - 1], q[i])
      <4>1. z.read = IF q[i].kind = "event" THEN h[i - 1].read \cup {EventOf(q[i])}
                     ELSE h[i - 1].read
        BY <1>3, DeliveredFacts
      <4>2. z = h[i]
        BY <1>1
      <4> QED
        BY <4>1, <4>2
    <3>2. 1 .. i = (1 .. (i - 1)) \cup {i}
      BY <1>2
    <3>3. Past(i) = IF q[i].kind = "event" THEN Past(i - 1) \cup {EventOf(q[i])} ELSE Past(i - 1)
      BY <3>2
    <3> HIDE DEF Past
    <3> QED
      BY <1>3, <2>2, <3>1, <3>3
  <2> HIDE DEF T
  <2>3. \A i \in 0 .. n : i \in T
    BY <1>2, <2>1, <2>2, Along
  <2> QED
    BY <2>3 DEF T
<1>5. ASSUME NEW i \in 1 .. n, q[i].kind = "event", NEW x \in h[i - 1].read
      PROVE  x.id # q[i].id
  <2>1. x \in Past(i - 1)
    BY <1>3, <1>4
  <2>2. CASE x \in l.read
    BY <1>2, <1>5, <2>2
  <2>3. CASE x \in {EventOf(q[k]) : k \in {j \in 1 .. (i - 1) : q[j].kind = "event"}}
    <3>1. PICK k \in 1 .. (i - 1) : q[k].kind = "event" /\ x = EventOf(q[k])
      BY <2>3
    <3>2. k \in DOMAIN q /\ i \in DOMAIN q /\ k # i /\ x.id = q[k].id
      BY <1>2, <3>1 DEF EventOf
    <3> QED
      BY <1>5, <3>1, <3>2
  <2> QED
    BY <2>1, <2>2, <2>3
<1>6. ASSUME NEW i \in 1 .. n, NEW s \in Slots, ~ (q[i].kind = "h" /\ q[i].slot = s)
      PROVE  /\ Idle(h[i - 1], s) => Idle(h[i], s)
             /\ \A ch \in Channels, asked \in Nat, got \in Lines :
                  Law(h[i - 1], s, ch, asked, got) => Law(h[i], s, ch, asked, got)
  <2> DEFINE z == Delivered(h[i - 1], q[i])
  <2>1. /\ Idle(h[i - 1], s) => Idle(z, s)
        /\ (q[i].kind = "event" => \A x \in h[i - 1].read : x.id # q[i].id)
           => \A ch \in Channels, asked \in Nat, got \in Lines :
                Law(h[i - 1], s, ch, asked, got) => Law(z, s, ch, asked, got)
    BY <1>3, <1>6, DeliveredFacts
  <2>2. z = h[i]
    BY <1>1
  <2> QED
    BY <1>5, <2>1, <2>2
<1>7. ASSUME NEW s \in Slots, NoHold(q, s)
      PROVE  /\ Idle(l, s) => Idle(m, s)
             /\ \A ch \in Channels, asked \in Nat, got \in Lines :
                  Law(l, s, ch, asked, got) => Law(m, s, ch, asked, got)
  <2> DEFINE Keeps(i) == /\ Idle(l, s) => Idle(h[i], s)
                         /\ \A ch \in Channels, asked \in Nat, got \in Lines :
                              Law(l, s, ch, asked, got) => Law(h[i], s, ch, asked, got)
             T == {i \in 0 .. n : Keeps(i)}
  <2>1. 0 \in T
    BY <1>1, <1>2
  <2>2. ASSUME NEW i \in 1 .. n, i - 1 \in T PROVE i \in T
    <3>1. ~ (q[i].kind = "h" /\ q[i].slot = s)
      BY <1>2, <1>7 DEF NoHold
    <3> QED
      BY <1>3, <1>6, <2>2, <3>1
  <2> HIDE DEF T
  <2>3. n \in T
    <3>1. \A i \in 0 .. n : i \in T
      BY <1>2, <2>1, <2>2, Along
    <3> QED
      BY <1>2, <3>1
  <2> QED
    BY <1>1, <2>3 DEF T
<1>8. ASSUME NEW s \in Slots, NEW k \in 1 .. n, q[k].kind = "h", q[k].slot = s,
             HoldAt(q, k, s), Idle(l, s)
      PROVE  Law(m, s, q[k].channel, q[k].id, <<>>)
  <2> DEFINE T == {i \in 0 .. n : IF i < k THEN Idle(h[i], s)
                                  ELSE Law(h[i], s, q[k].channel, q[k].id, <<>>)}
  <2>1. 0 \in T
    BY <1>1, <1>2, <1>8
  <2>2. q[k].channel \in Channels /\ q[k].id \in Nat /\ <<>> \in Lines
    BY <1>3, <1>8, FrameFacts DEF Lines
  <2>3. ASSUME NEW i \in 1 .. n, i - 1 \in T PROVE i \in T
    <3>1. CASE i < k
      <4>1. ~ (q[i].kind = "h" /\ q[i].slot = s)
        BY <1>2, <1>8, <3>1 DEF HoldAt
      <4> QED
        BY <1>3, <1>6, <2>3, <3>1, <4>1
    <3>2. CASE i = k
      <4> DEFINE z == Delivered(h[i - 1], q[i])
      <4>1. Idle(h[i - 1], s)
        BY <1>3, <2>3, <3>2
      <4>2. Law(z, s, q[i].channel, q[i].id, <<>>)
        BY <1>3, <1>8, <3>2, <4>1, DeliveredFacts
      <4>3. z = h[i]
        BY <1>1
      <4> QED
        BY <1>3, <3>2, <4>2, <4>3
    <3>3. CASE i > k
      <4>1. ~ (q[i].kind = "h" /\ q[i].slot = s)
        BY <1>2, <1>8, <3>3 DEF HoldAt
      <4>2. Law(h[i - 1], s, q[k].channel, q[k].id, <<>>)
        BY <1>3, <2>3, <3>3
      <4>3. Law(h[i], s, q[k].channel, q[k].id, <<>>)
        BY <1>6, <2>2, <4>1, <4>2
      <4> QED
        BY <1>3, <3>3, <4>3
    <3> QED
      BY <3>1, <3>2, <3>3
  <2> HIDE DEF T
  <2>4. n \in T
    <3>1. \A i \in 0 .. n : i \in T
      BY <1>2, <2>1, <2>3, Along
    <3> QED
      BY <1>2, <3>1
  <2> QED
    BY <1>1, <1>2, <2>4 DEF T
<1>9. m \in Loops /\ Sound(m)
  BY <1>1, <1>2 DEF SoundLoops
<1>10. m.read = Past(n)
  BY <1>1, <1>2, <1>4
<1> QED
  BY <1>2, <1>7, <1>8, <1>9, <1>10 DEF m

-----------------------------------------------------------------------------
(* What a step may do to a slot that it is not about. *)

\* From a loop and its channel to the next: a slot that nothing is on the channel
\* for keeps what it is, and a hold on the channel stays there or is taken.
Keeps(l, q, m, r, s) ==
  /\ NoHold(q, s) => /\ NoHold(r, s)
                     /\ Idle(l, s) => Idle(m, s)
                     /\ \A ch \in Channels, asked \in Nat, got \in Lines :
                          Law(l, s, ch, asked, got) => Law(m, s, ch, asked, got)
  /\ \A k \in DOMAIN q : q[k].kind = "h" /\ q[k].slot = s /\ HoldAt(q, k, s) /\ Idle(l, s) =>
       \/ Idle(m, s) /\ \E j \in DOMAIN r : r[j] = q[k] /\ HoldAt(r, j, s)
       \/ NoHold(r, s) /\ Law(m, s, q[k].channel, q[k].id, <<>>)

\* Such a step leaves its client served.
LEMMA StillServed ==
  ASSUME NEW p, NEW ch \in Channels, NEW l, NEW q, NEW m, NEW r,
         p.asked \in Nat, p.got \in Lines,
         ServedBy(p, ch, l, q), Keeps(l, q, m, r, p.slot)
  PROVE  ServedBy(p, ch, m, r)
<1> DEFINE s == p.slot
<1>1. CASE p.phase = "sent"
  <2>1. CASE NoHold(q, s) /\ Law(l, s, ch, p.asked, p.got)
    BY <1>1, <2>1 DEF ServedBy, Keeps
  <2>2. CASE Idle(l, s) /\ \E k \in DOMAIN q : q[k] = HoldOf(p, ch) /\ HoldAt(q, k, s)
    <3>1. PICK k \in DOMAIN q : q[k] = HoldOf(p, ch) /\ HoldAt(q, k, s)
      BY <2>2
    <3>2. q[k].kind = "h" /\ q[k].slot = s /\ q[k].channel = ch /\ q[k].id = p.asked
      BY <3>1 DEF HoldOf
    <3>3. \/ Idle(m, s) /\ \E j \in DOMAIN r : r[j] = q[k] /\ HoldAt(r, j, s)
          \/ NoHold(r, s) /\ Law(m, s, q[k].channel, q[k].id, <<>>)
      BY <2>2, <3>1, <3>2 DEF Keeps
    <3> QED
      BY <1>1, <3>1, <3>2, <3>3 DEF ServedBy
  <2> QED
    BY <1>1, <2>1, <2>2 DEF ServedBy
<1>2. CASE p.phase = "asked"
  BY <1>2 DEF ServedBy, Keeps
<1>3. CASE p.phase = "held"
  BY <1>3 DEF ServedBy, Keeps
<1>4. CASE p.phase \notin {"sent", "asked", "held"}
  BY <1>4 DEF ServedBy
<1> QED
  BY <1>1, <1>2, <1>3, <1>4

\* Nothing done.
LEMMA KeepsSame ==
  ASSUME NEW l, NEW q, NEW s
  PROVE  Keeps(l, q, l, q, s)
BY DEF Keeps

\* Something done to another slot.
LEMMA KeepsOther ==
  ASSUME NEW l, NEW q, NEW m, NEW z, Only(l, m, z), NEW s \in Slots \ {z}
  PROVE  Keeps(l, q, m, q, s)
<1>1. Idle(l, s) => Idle(m, s)
  BY DEF Only, Idle
<1>2. \A ch, asked, got : Law(l, s, ch, asked, got) => Law(m, s, ch, asked, got)
  BY DEF Only, Law
<1> QED
  BY <1>1, <1>2 DEF Keeps

\* A frame sent that is not a hold for the slot.
LEMMA KeepsSent ==
  ASSUME NEW l, NEW q \in Seq(Frames), NEW f \in Frames, NEW s, f.kind = "h" => f.slot # s
  PROVE  Keeps(l, q, l, Append(q, f), s)
<1> DEFINE r == Append(q, f)
           n == Len(q)
<1>1. /\ n \in Nat /\ DOMAIN q = 1 .. n /\ DOMAIN r = 1 .. n + 1 /\ r[n + 1] = f
      /\ \A i \in 1 .. n : r[i] = q[i]
  OBVIOUS
<1> HIDE DEF r, n
<1>2. ASSUME NEW i \in 1 .. n + 1, r[i].kind = "h" /\ r[i].slot = s PROVE i \in 1 .. n
  BY <1>1, <1>2
<1>3. NoHold(q, s) => NoHold(r, s)
  BY <1>1, <1>2 DEF NoHold
<1>4. ASSUME NEW k \in DOMAIN q, HoldAt(q, k, s)
      PROVE  k \in DOMAIN r /\ r[k] = q[k] /\ HoldAt(r, k, s)
  <2>1. k \in 1 .. n + 1 /\ r[k] = q[k]
    BY <1>1
  <2> QED
    BY <1>1, <1>2, <1>4, <2>1 DEF HoldAt
<1> QED
  BY <1>3, <1>4 DEF Keeps, r

\* The channel read to its end.
LEMMA KeepsDrained ==
  ASSUME server \in Deployed, counter \in Nat,
         NEW l \in SoundLoops, NEW q \in Seq(PastFrames),
         \A i, j \in DOMAIN q :
           q[i].kind = "event" /\ q[j].kind = "event" /\ q[i].id = q[j].id => i = j,
         \A i \in DOMAIN q : q[i].kind = "event" => \A e \in l.read : e.id # q[i].id,
         NEW s \in Slots
  PROVE  Keeps(l, q, FoldLeft(Delivered, l, q), <<>>, s)
<1> DEFINE m == FoldLeft(Delivered, l, q)
<1>1. /\ NoHold(q, s) =>
           /\ Idle(l, s) => Idle(m, s)
           /\ \A ch \in Channels, asked \in Nat, got \in Lines :
                Law(l, s, ch, asked, got) => Law(m, s, ch, asked, got)
      /\ \A k \in DOMAIN q :
           q[k].kind = "h" /\ q[k].slot = s /\ HoldAt(q, k, s) /\ Idle(l, s)
           => Law(m, s, q[k].channel, q[k].id, <<>>)
  BY DrainedFacts
<1>2. NoHold(<<>>, s)
  BY DEF NoHold
<1> HIDE DEF m
<1>3. Keeps(l, q, m, <<>>, s)
  BY <1>1, <1>2 DEF Keeps
<1> QED
  BY <1>3 DEF m

-----------------------------------------------------------------------------
(* Types. *)

Posts == [id : 1 .. MaxId, channel : Channels, next : Workers]

\* What TypeOK says, in the terms of the lemmas.
LEMMA TypeFacts ==
  ASSUME TypeOK
  PROVE  /\ server \in Deployments /\ server \in Deployed
         /\ counter \in 0 .. MaxId /\ counter \in Nat /\ MaxId \in Nat
         /\ posting \in [Workers -> {None} \cup Posts]
         /\ bus \in [Workers -> Seq(Frames)] /\ \A w \in Workers : Len(bus[w]) <= BusRoom
         /\ loop \in [Workers -> Loops]
         /\ client \in [Clients -> ClientState]
         /\ deaths \in 0 .. server.deaths
<1>1. server \in Deployments /\ server \in Deployed
  BY HoldsAssumption DEF TypeOK
<1>2. loop \in [Workers -> Loops]
  BY DEF TypeOK, Loops
<1>3. counter \in Nat /\ MaxId \in Nat
  BY HoldsAssumption DEF TypeOK
<1> QED
  BY <1>1, <1>2, <1>3 DEF TypeOK, Posts

\* And back, of the next state.
LEMMA TypeNext ==
  ASSUME server' = server, server \in Deployments, counter' \in 0 .. MaxId,
         posting' \in [Workers -> {None} \cup Posts],
         bus' \in [Workers -> Seq(Frames)], \A w \in Workers : Len(bus'[w]) <= BusRoom,
         loop' \in [Workers -> Loops], client' \in [Clients -> ClientState],
         deaths' \in 0 .. server.deaths
  PROVE  TypeOK'
<1>1. loop' \in [Workers -> LoopState]
  BY DEF Loops
<1>2. \A w \in Workers :
        /\ Len(loop'[w].journal) <= server.replay
        /\ \A s \in Slots : Len(loop'[w].pending[s]) <= server.outbox
  BY DEF Loops
<1> QED
  BY <1>1, <1>2 DEF TypeOK, Posts

\* A client's parts.
LEMMA ClientFacts ==
  ASSUME TypeOK, NEW c \in Clients
  PROVE  /\ client[c].worker \in Workers /\ client[c].slot \in Slots
         /\ client[c].asked \in Nat /\ client[c].seen \in Nat /\ client[c].got \in Lines
         /\ client[c].phase \in {"away", "asked", "sent", "held"}
         /\ client[c].visits \in 0 .. MaxVisits
         /\ Follows[c] \in Channels
<1>1. client[c] \in ClientState
  BY TypeFacts
<1> QED
  BY <1>1, HoldsAssumption DEF ClientState, Lines

\* A new loop.
LEMMA StartedFacts ==
  ASSUME server \in Deployed, NEW id \in Nat, NEW read \in SUBSET Events
  PROVE  LET m == Started(id, read) IN
         /\ m \in Loops /\ m.read = read /\ m.floor = id /\ m.journal = <<>>
         /\ \A s \in Slots : Idle(m, s) /\ m.last[s] = 0
<1> DEFINE m == Started(id, read)
<1>1. /\ m.read = read /\ m.floor = id /\ m.journal = <<>>
      /\ m.url = [s \in Slots |-> None] /\ m.last = [s \in Slots |-> 0]
      /\ m.pending = [s \in Slots |-> <<>>]
  BY DEF Started
<1>2. m \in LoopState
  BY DEF Started, LoopState
<1>3. m \in Loops
  BY <1>1, <1>2 DEF Loops, Deployed
<1> QED
  BY <1>1, <1>3 DEF Idle

\* The channel of a worker can be read to its end.
LEMMA Readable ==
  ASSUME Inductive, NEW w \in Workers
  PROVE  /\ server \in Deployed /\ counter \in Nat
         /\ loop[w] \in SoundLoops /\ bus[w] \in Seq(PastFrames)
         /\ \A i, j \in DOMAIN bus[w] :
              bus[w][i].kind = "event" /\ bus[w][j].kind = "event"
              /\ bus[w][i].id = bus[w][j].id => i = j
         /\ \A i \in DOMAIN bus[w] :
              bus[w][i].kind = "event" => \A e \in loop[w].read : e.id # bus[w][i].id
<1>1. /\ server \in Deployed /\ counter \in Nat /\ bus[w] \in Seq(Frames) /\ loop[w] \in Loops
  BY TypeFacts DEF Inductive
<1>2. \A i \in DOMAIN bus[w] : bus[w][i].kind = "event" => bus[w][i].id <= counter
  BY DEF Inductive, Given, Numbers
<1>3. bus[w] \in Seq(PastFrames)
  <2>1. \A i \in DOMAIN bus[w] : bus[w][i] \in PastFrames
    BY <1>1, <1>2 DEF PastFrames
  <2> QED
    BY <1>1, <2>1
<1>4. loop[w] \in SoundLoops
  BY <1>1 DEF Inductive, SoundLoops, Sound, Given
<1>5. /\ \A i, j \in DOMAIN bus[w] :
              bus[w][i].kind = "event" /\ bus[w][j].kind = "event"
              /\ bus[w][i].id = bus[w][j].id => i = j
      /\ \A i \in DOMAIN bus[w] :
              bus[w][i].kind = "event" => \A e \in loop[w].read : e.id # bus[w][i].id
  BY DEF Inductive, Fresh, Numbers
<1> QED
  BY <1>1, <1>3, <1>4, <1>5

\* What reading it leaves, of the loop.
LEMMA DrainedLoop ==
  ASSUME Inductive, NEW w \in Workers
  PROVE  /\ Drained(w) \in Loops /\ Sound(Drained(w))
         /\ Drained(w).read = loop[w].read \cup {EventOf(bus[w][i]) : i \in Numbers(bus, w)}
<1>1. /\ server \in Deployed /\ counter \in Nat
      /\ loop[w] \in SoundLoops /\ bus[w] \in Seq(PastFrames)
      /\ \A i, j \in DOMAIN bus[w] :
              bus[w][i].kind = "event" /\ bus[w][j].kind = "event"
              /\ bus[w][i].id = bus[w][j].id => i = j
      /\ \A i \in DOMAIN bus[w] :
              bus[w][i].kind = "event" => \A e \in loop[w].read : e.id # bus[w][i].id
  BY Readable
<1> DEFINE m == FoldLeft(Delivered, loop[w], bus[w])
<1>2. /\ m \in Loops /\ Sound(m)
      /\ m.read = loop[w].read \cup
                  {EventOf(bus[w][k]) : k \in {i \in DOMAIN bus[w] : bus[w][i].kind = "event"}}
  BY <1>1, DrainedFacts
<1> HIDE DEF m
<1>3. Drained(w) = m
  BY DEF Drained, m
<1> QED
  BY <1>2, <1>3 DEF Numbers

\* What it leaves of the slots.
LEMMA DrainedSlots ==
  ASSUME Inductive, NEW w \in Workers, NEW s \in Slots
  PROVE  Keeps(loop[w], bus[w], Drained(w), <<>>, s)
BY Readable, KeepsDrained DEF Drained

\* What a hold leaves of the loop.
LEMMA HeldLoop ==
  ASSUME Inductive, NEW w \in Workers, NEW s \in Slots, NEW ch \in Channels, NEW id \in Nat
  PROVE  LET m == Held(loop[w], s, ch, id) IN
         /\ m \in Loops /\ Only(loop[w], m, s) /\ Sound(m)
         /\ Idle(loop[w], s) => Law(m, s, ch, id, <<>>)
<1> DEFINE l == loop[w]
           m == Held(l, s, ch, id)
<1>1. server \in Deployed /\ counter \in Nat /\ l \in Loops /\ Sound(l)
  BY Readable DEF SoundLoops
<1>2. /\ m \in Loops /\ Only(l, m, s) /\ m.last[s] <= counter
      /\ l.pending[s] = <<>> => Law(m, s, ch, id, <<>>)
  <2> HIDE DEF l
  <2> QED
    BY <1>1, HeldFacts DEF Sound
<1> HIDE DEF m, l
<1>3. Sound(m)
  BY <1>1, <1>2 DEF Only, Sound, Journaled, Within
<1> QED
  BY <1>2, <1>3 DEF Idle, l, m

\* A frame sent fits, if there is room.
LEMMA SentFits ==
  ASSUME NEW q \in Seq(Frames), NEW f \in Frames, Len(q) < BusRoom
  PROVE  Append(q, f) \in Seq(Frames) /\ Len(Append(q, f)) <= BusRoom
<1>1. BusRoom \in Nat
  BY HoldsAssumption
<1> QED
  BY <1>1

\* A client that comes.
LEMMA VisitingFacts ==
  ASSUME TypeOK, NEW c \in Clients, NEW w \in Workers, NEW s \in Slots,
         NEW phase \in {"away", "asked", "sent", "held"}, client[c].visits < MaxVisits
  PROVE  LET p == Visiting(c, w, s, phase) IN
         /\ p \in ClientState /\ p.phase = phase /\ p.worker = w /\ p.slot = s
         /\ p.asked = client[c].seen /\ p.got = <<>>
<1>1. client[c] \in ClientState
  BY TypeFacts
<1>2. client[c].visits + 1 \in 0 .. MaxVisits
  BY <1>1, HoldsAssumption DEF ClientState
<1> DEFINE v == client[c].visits + 1
           p == [client[c] EXCEPT !.phase = phase, !.worker = w, !.slot = s,
                                  !.asked = client[c].seen, !.got = <<>>, !.visits = v]
<1>3. Visiting(c, w, s, phase) = p
  BY DEF Visiting
<1>4. client[c].seen \in Nat /\ <<>> \in Lines
  BY <1>1 DEF ClientState, Lines
<1> HIDE DEF v
<1>5. p \in ClientState /\ p.phase = phase /\ p.worker = w /\ p.slot = s
      /\ p.asked = client[c].seen /\ p.got = <<>>
  BY <1>1, <1>2, <1>4 DEF ClientState, Lines, v
<1> QED
  BY <1>3, <1>5

\* The newest id of an outbox is an id.
LEMMA NewestIsId ==
  ASSUME NEW out \in Lines, Numbered(out) # {}
  PROVE  out[Max(Numbered(out))].id \in Nat
<1> DEFINE n == Len(out)
<1>1. n \in Nat /\ Numbered(out) \in SUBSET (1 .. n)
  BY DEF Numbered, Lines
<1>2. Max(Numbered(out)) \in Numbered(out)
  BY <1>1, MaxIn
<1>3. \A i \in Numbered(out) : out[i] \in Events
  BY DEF Numbered, Lines, Gap
<1> QED
  BY <1>2, <1>3 DEF Events

\* Each step keeps the types.
LEMMA TypeStep ==
  ASSUME Inductive, [Next]_vars
  PROVE  TypeOK'
<1>1. TypeOK
  BY DEF Inductive
<1>2. /\ server \in Deployments /\ server \in Deployed
      /\ counter \in 0 .. MaxId /\ counter \in Nat /\ MaxId \in Nat
      /\ posting \in [Workers -> {None} \cup Posts]
      /\ bus \in [Workers -> Seq(Frames)] /\ \A w \in Workers : Len(bus[w]) <= BusRoom
      /\ loop \in [Workers -> Loops]
      /\ client \in [Clients -> ClientState]
      /\ deaths \in 0 .. server.deaths
  BY <1>1, TypeFacts
<1>3. ASSUME NEW w \in Workers, NEW ch \in Channels, Publish(w, ch) PROVE TypeOK'
  <2>1. [id |-> counter + 1, channel |-> ch, next |-> 0] \in Posts
    BY <1>2, <1>3, HoldsAssumption DEF Publish, Posts, Workers
  <2>2. posting' \in [Workers -> {None} \cup Posts] /\ counter' \in 0 .. MaxId
    BY <1>2, <1>3, <2>1 DEF Publish
  <2> QED
    BY <1>2, <1>3, <2>2, TypeNext DEF Publish
<1>4. ASSUME NEW w \in Workers, Post(w) PROVE TypeOK'
  <2> DEFINE p == posting[w]
             f == [kind |-> "event", id |-> p.id, channel |-> p.channel]
             x == IF p.next + 1 < NumWorkers THEN [p EXCEPT !.next = @ + 1] ELSE None
  <2>1. p \in Posts
    BY <1>2, <1>4 DEF Post
  <2>2. f \in Frames /\ p.next \in Workers
    BY <2>1 DEF Posts, Frames
  <2>3. x \in {None} \cup Posts
    BY <2>1, HoldsAssumption DEF Posts, Workers
  <2>4. /\ bus' = IF Len(bus[p.next]) < BusRoom
                  THEN [bus EXCEPT ![p.next] = Append(@, f)] ELSE bus
        /\ posting' = [posting EXCEPT ![w] = x]
        /\ UNCHANGED <<server, counter, loop, client, deaths>>
    BY <1>4 DEF Post
  <2> HIDE DEF f, x
  <2>5. posting' \in [Workers -> {None} \cup Posts]
    BY <1>2, <2>3, <2>4
  <2>6. bus' \in [Workers -> Seq(Frames)] /\ \A u \in Workers : Len(bus'[u]) <= BusRoom
    <3>1. CASE Len(bus[p.next]) < BusRoom
      <4>1. Append(bus[p.next], f) \in Seq(Frames) /\ Len(Append(bus[p.next], f)) <= BusRoom
        BY <1>2, <2>2, <3>1, SentFits
      <4> QED
        BY <1>2, <2>2, <2>4, <3>1, <4>1
    <3>2. CASE ~ (Len(bus[p.next]) < BusRoom)
      BY <1>2, <2>4, <3>2
    <3> QED
      BY <3>1, <3>2
  <2> QED
    BY <1>2, <2>4, <2>5, <2>6, TypeNext
<1>5. ASSUME NEW w \in Workers, bus' = [bus EXCEPT ![w] = <<>>]
      PROVE  bus' \in [Workers -> Seq(Frames)] /\ \A u \in Workers : Len(bus'[u]) <= BusRoom
  <2>1. <<>> \in Seq(Frames) /\ Len(<<>>) <= BusRoom
    BY HoldsAssumption
  <2> QED
    BY <1>2, <1>5, <2>1
<1>6. ASSUME NEW w \in Workers, DeliverBusFrames(w) PROVE TypeOK'
  <2>1. Drained(w) \in Loops
    BY DrainedLoop
  <2>2. loop' \in [Workers -> Loops]
    BY <1>2, <1>6, <2>1 DEF DeliverBusFrames
  <2> QED
    BY <1>2, <1>5, <1>6, <2>2, TypeNext DEF DeliverBusFrames
<1>7. ASSUME NEW w \in Workers, Respawn(w) PROVE TypeOK'
  <2>1. loop[w] \in Loops
    BY <1>2
  <2>2. loop[w].read \in SUBSET Events
    BY <2>1 DEF Loops, LoopState
  <2>3. Started(counter, loop[w].read) \in Loops
    BY <1>2, <2>2, StartedFacts
  <2>4. loop' \in [Workers -> Loops] /\ posting' \in [Workers -> {None} \cup Posts]
    BY <1>2, <1>7, <2>3 DEF Respawn
  <2>5. \A c \in Clients : [client[c] EXCEPT !.phase = "away"] \in ClientState
    BY <1>2 DEF ClientState
  <2>6. client' \in [Clients -> ClientState]
    BY <1>2, <1>7, <2>5 DEF Respawn
  <2>7. deaths' \in 0 .. server.deaths
    BY <1>2, <1>7 DEF Respawn, Deployed
  <2> QED
    BY <1>2, <1>7, <2>4, <2>6, <2>7, TypeNext DEF Respawn
<1>8. ASSUME NEW c \in Clients, NEW w \in Workers, NEW s \in Slots, Hold(c, w, s)
      PROVE  TypeOK'
  <2>1. Follows[c] \in Channels /\ client[c].seen \in Nat
    BY <1>1, ClientFacts
  <2>2. Held(loop[w], s, Follows[c], client[c].seen) \in Loops
    BY <2>1, HeldLoop
  <2>3. loop' \in [Workers -> Loops]
    BY <1>2, <1>8, <2>2 DEF Hold
  <2>4. Visiting(c, w, s, "held") \in ClientState
    BY <1>1, <1>8, VisitingFacts DEF Hold
  <2>5. client' \in [Clients -> ClientState]
    BY <1>2, <1>8, <2>4 DEF Hold
  <2> QED
    BY <1>2, <1>8, <2>3, <2>5, TypeNext DEF Hold
<1>9. ASSUME NEW c \in Clients, NEW w \in Workers, NEW s \in Slots, Ask(c, w, s)
      PROVE  TypeOK'
  <2>1. Visiting(c, w, s, "asked") \in ClientState
    BY <1>1, <1>9, VisitingFacts DEF Ask
  <2>2. client' \in [Clients -> ClientState]
    BY <1>2, <1>9, <2>1 DEF Ask
  <2> QED
    BY <1>2, <1>9, <2>2, TypeNext DEF Ask
<1>10. ASSUME NEW c \in Clients, NEW phase \in {"away", "sent", "held"},
              client' = [client EXCEPT ![c].phase = phase]
       PROVE  client' \in [Clients -> ClientState]
  <2>1. [client[c] EXCEPT !.phase = phase] \in ClientState
    BY <1>2 DEF ClientState
  <2> QED
    BY <1>2, <1>10, <2>1
<1>11. ASSUME NEW c \in Clients, SendHold(c) PROVE TypeOK'
  <2> DEFINE w == client[c].worker
             f == [kind |-> "h", slot |-> client[c].slot, channel |-> Follows[c],
                   id |-> client[c].asked]
  <2>1. w \in Workers /\ f \in Frames
    BY <1>1, ClientFacts DEF Frames
  <2>2. Len(bus[w]) < BusRoom /\ bus' = [bus EXCEPT ![w] = Append(@, f)]
    BY <1>11 DEF SendHold
  <2> HIDE DEF f, w
  <2>3. Append(bus[w], f) \in Seq(Frames) /\ Len(Append(bus[w], f)) <= BusRoom
    BY <1>2, <2>1, <2>2, SentFits
  <2>4. bus' \in [Workers -> Seq(Frames)] /\ \A u \in Workers : Len(bus'[u]) <= BusRoom
    BY <1>2, <2>1, <2>2, <2>3
  <2>5. client' \in [Clients -> ClientState]
    BY <1>10, <1>11 DEF SendHold
  <2> QED
    BY <1>2, <1>11, <2>4, <2>5, TypeNext DEF SendHold
<1>12. ASSUME NEW c \in Clients, HoldUnavailable(c) PROVE TypeOK'
  <2>1. client' \in [Clients -> ClientState]
    BY <1>10, <1>12 DEF HoldUnavailable
  <2> QED
    BY <1>2, <1>12, <2>1, TypeNext DEF HoldUnavailable
<1>13. ASSUME NEW c \in Clients, Complete(c) PROVE TypeOK'
  <2> DEFINE w == client[c].worker
  <2>1. w \in Workers
    BY <1>1, ClientFacts
  <2>2. /\ loop' = [loop EXCEPT ![w] = Drained(w)]
        /\ bus' = [bus EXCEPT ![w] = <<>>]
        /\ client' = [client EXCEPT ![c].phase = "held"]
        /\ UNCHANGED <<server, counter, posting, deaths>>
    BY <1>13 DEF Complete
  <2> HIDE DEF w
  <2>3. Drained(w) \in Loops
    BY <2>1, DrainedLoop
  <2>4. loop' \in [Workers -> Loops]
    BY <1>2, <2>1, <2>2, <2>3
  <2>5. client' \in [Clients -> ClientState]
    BY <1>10, <2>2
  <2>6. bus' \in [Workers -> Seq(Frames)] /\ \A u \in Workers : Len(bus'[u]) <= BusRoom
    BY <1>5, <2>1, <2>2
  <2> QED
    BY <1>2, <2>2, <2>4, <2>5, <2>6, TypeNext
<1>14. ASSUME NEW c \in Clients, DrainOutbox(c) PROVE TypeOK'
  <2> DEFINE w == client[c].worker
             s == client[c].slot
             l == loop[w]
             m == [l EXCEPT !.pending[s] = <<>>]
             out == l.pending[s]
             seen == IF Numbered(out) = {} THEN client[c].seen
                     ELSE out[Max(Numbered(out))].id
             p == [client[c] EXCEPT !.got = @ \o out, !.seen = seen]
  <2>1. w \in Workers /\ s \in Slots /\ client[c].got \in Lines /\ client[c].seen \in Nat
    BY <1>1, ClientFacts
  <2>2. l \in Loops /\ l \in LoopState /\ out \in Lines
    BY <1>2, <2>1 DEF Loops, LoopState, Lines
  <2>3. /\ loop' = [loop EXCEPT ![w].pending[s] = <<>>]
        /\ client' = [client EXCEPT ![c].got = @ \o out, ![c].seen = seen]
        /\ UNCHANGED <<server, counter, posting, bus, deaths>>
    BY <1>14 DEF DrainOutbox
  <2>4. m \in Loops
    <3>1. m \in LoopState
      <4>1. <<>> \in Lines
        BY DEF Lines
      <4> HIDE DEF l
      <4>2. l.pending \in [Slots -> Lines]
        BY <2>2 DEF LoopState, Lines
      <4>3. [l.pending EXCEPT ![s] = <<>>] \in [Slots -> Lines]
        BY <4>1, <4>2
      <4> QED
        BY <2>2, <4>3 DEF LoopState, Lines
    <3>2. m.journal = l.journal /\ m.pending = [l.pending EXCEPT ![s] = <<>>]
      BY <2>2 DEF LoopState
    <3>3. l.pending \in [Slots -> Lines] /\ Len(<<>>) <= server.outbox
      BY <1>2, <2>2 DEF LoopState, Lines, Deployed
    <3> QED
      BY <2>1, <2>2, <3>1, <3>2, <3>3 DEF Loops
  <2>5. loop' = [loop EXCEPT ![w] = m]
    BY <1>2, <2>1, <2>3
  <2>6. loop' \in [Workers -> Loops]
    <3> HIDE DEF m
    <3> QED
      BY <1>2, <2>1, <2>4, <2>5
  <2>7. seen \in Nat
    BY <2>1, <2>2, NewestIsId
  <2>8. p \in ClientState
    <3>1. client[c] \in ClientState
      BY <1>2
    <3>2. client[c].got \o out \in Lines
      BY <2>1, <2>2 DEF Lines
    <3> HIDE DEF seen, out
    <3> QED
      BY <2>7, <3>1, <3>2 DEF ClientState, Lines
  <2>9. client' = [client EXCEPT ![c] = p]
    BY <1>2, <2>3
  <2>10. client' \in [Clients -> ClientState]
    <3> HIDE DEF p
    <3> QED
      BY <1>2, <2>8, <2>9
  <2> QED
    BY <1>2, <2>3, <2>6, <2>10, TypeNext
<1>15. ASSUME NEW c \in Clients, Leave(c) PROVE TypeOK'
  <2> DEFINE w == client[c].worker
             s == client[c].slot
  <2>1. w \in Workers /\ s \in Slots
    BY <1>1, ClientFacts
  <2>2. Unsubscribed(loop[w], s) \in Loops
    BY <1>2, <2>1, UnsubscribedFacts
  <2>3. loop' \in [Workers -> Loops]
    BY <1>2, <1>15, <2>1, <2>2 DEF Leave
  <2>4. client' \in [Clients -> ClientState]
    BY <1>10, <1>15 DEF Leave
  <2> QED
    BY <1>2, <1>15, <2>3, <2>4, TypeNext DEF Leave
<1>16. CASE UNCHANGED vars
  BY <1>2, <1>16, TypeNext DEF vars
<1> QED
  BY <1>3, <1>4, <1>6, <1>7, <1>8, <1>9, <1>11, <1>12, <1>13, <1>14, <1>15, <1>16 DEF Next

-----------------------------------------------------------------------------
(* Ids. *)

Known == /\ Given /\ Fresh
         /\ \A w \in Workers : Journaled(loop[w]) /\ Within(loop[w])

\* Nothing read, sent or numbered, the loops sound.
LEMMA KnownSame ==
  ASSUME Known, counter' = counter, posting' = posting, bus' = bus,
         \A w \in Workers : loop'[w].read = loop[w].read /\ Journaled(loop'[w])
                            /\ (Within(loop[w]) => \A s \in Slots : loop'[w].last[s] <= counter)
  PROVE  Known'
<1>1. \A w \in Workers : Numbers(bus', w) = Numbers(bus, w)
  BY DEF Numbers
<1>2. Given'
  BY <1>1 DEF Known, Given
<1>3. Fresh'
  BY <1>1 DEF Known, Fresh
<1> QED
  BY <1>2, <1>3 DEF Known, Within

\* A channel read to its end: what was on it is read.
LEMMA KnownDrained ==
  ASSUME Inductive, NEW w \in Workers, counter' = counter, posting' = posting,
         bus' = [bus EXCEPT ![w] = <<>>], loop' = [loop EXCEPT ![w] = Drained(w)]
  PROVE  Known'
<1>1. /\ bus \in [Workers -> Seq(Frames)] /\ loop \in [Workers -> Loops] /\ counter \in Nat
  BY TypeFacts DEF Inductive
<1>2. /\ Sound(Drained(w))
      /\ Drained(w).read = loop[w].read \cup {EventOf(bus[w][i]) : i \in Numbers(bus, w)}
  BY DrainedLoop
<1>3. /\ bus'[w] = <<>> /\ loop'[w] = Drained(w)
      /\ \A u \in Workers \ {w} : bus'[u] = bus[u] /\ loop'[u] = loop[u]
  BY <1>1
<1>4. /\ Numbers(bus', w) = {}
      /\ \A u \in Workers \ {w} : Numbers(bus', u) = Numbers(bus, u)
  BY <1>3 DEF Numbers
<1>5. ASSUME NEW e \in loop'[w].read
      PROVE  e \in loop[w].read \/ \E i \in Numbers(bus, w) : e.id = bus[w][i].id
  BY <1>2, <1>3 DEF EventOf
<1>6. Given'
  <2>1. \A e \in loop'[w].read : e.id <= counter
    BY <1>2, <1>3 DEF Sound
  <2> QED
    BY ZenonT(60), <1>3, <1>4, <2>1 DEF Inductive, Given
<1>7. Fresh'
  <2>1. ASSUME NEW v \in Workers, posting[v] # None /\ posting[v].next <= w, NEW e \in loop'[w].read
        PROVE  e.id # posting[v].id
    <3>1. CASE e \in loop[w].read
      BY <2>1, <3>1 DEF Inductive, Fresh
    <3>2. CASE \E i \in Numbers(bus, w) : e.id = bus[w][i].id
      BY <2>1, <3>2 DEF Inductive, Fresh
    <3> QED
      BY <1>5, <2>1, <3>1, <3>2
  <2>2. ASSUME NEW u \in Workers
        PROVE  /\ \A i, j \in Numbers(bus', u) : bus'[u][i].id = bus'[u][j].id => i = j
               /\ \A i \in Numbers(bus', u) : \A e \in loop'[u].read : e.id # bus'[u][i].id
               /\ \A v \in Workers : posting[v] # None /\ posting[v].next <= u =>
                    /\ \A i \in Numbers(bus', u) : bus'[u][i].id # posting[v].id
                    /\ \A e \in loop'[u].read : e.id # posting[v].id
    <3>1. CASE u = w
      BY <1>4, <2>1, <3>1
    <3>2. CASE u # w
      <4>1. /\ \A i, j \in Numbers(bus, u) : bus[u][i].id = bus[u][j].id => i = j
            /\ \A i \in Numbers(bus, u) : \A e \in loop[u].read : e.id # bus[u][i].id
            /\ \A v \in Workers : posting[v] # None /\ posting[v].next <= u =>
                 /\ \A i \in Numbers(bus, u) : bus[u][i].id # posting[v].id
                 /\ \A e \in loop[u].read : e.id # posting[v].id
        BY DEF Inductive, Fresh
      <4>2. bus'[u] = bus[u] /\ loop'[u] = loop[u] /\ Numbers(bus', u) = Numbers(bus, u)
        BY <1>3, <1>4, <3>2
      <4> QED
        BY ZenonT(60), <4>1, <4>2
    <3> QED
      BY <3>1, <3>2
  <2>3. \A u, v \in Workers :
          posting[u] # None /\ posting[v] # None /\ posting[u].id = posting[v].id => v = u
    BY DEF Inductive, Fresh
  <2> QED
    BY ZenonT(60), <2>2, <2>3 DEF Fresh
<1>8. \A u \in Workers : Journaled(loop'[u]) /\ \A s \in Slots : loop'[u].last[s] <= counter
  BY <1>2, <1>3 DEF Inductive, Sound, Within
<1> QED
  BY <1>6, <1>7, <1>8 DEF Known, Within

\* The ids are numbers.
LEMMA IdFacts ==
  ASSUME TypeOK, NEW w \in Workers
  PROVE  /\ \A i \in Numbers(bus, w) : bus[w][i].id \in Nat
         /\ \A e \in loop[w].read : e.id \in Nat
         /\ posting[w] # None => /\ posting[w] \in Posts /\ posting[w].id \in Nat
                                 /\ posting[w].next \in Workers /\ posting[w].next \in Nat
<1>1. /\ posting[w] \in {None} \cup Posts /\ bus[w] \in Seq(Frames) /\ loop[w] \in Loops
  BY TypeFacts
<1>2. \A i \in Numbers(bus, w) : bus[w][i] \in Frames
  BY <1>1 DEF Numbers
<1>3. \A f \in Frames : f.id \in Nat
  BY DEF Frames
<1>4. \A e \in loop[w].read : e \in Events
  BY <1>1 DEF Loops, LoopState
<1> QED
  BY <1>1, <1>2, <1>3, <1>4, HoldsAssumption DEF Events, Posts, Workers

\* A new number is no frame's.
LEMMA KnownPublish ==
  ASSUME Inductive, NEW w \in Workers, NEW ch \in Channels, Publish(w, ch)
  PROVE  Known'
<1> DEFINE p == [id |-> counter + 1, channel |-> ch, next |-> 0]
<1>1. /\ counter' = counter + 1 /\ posting' = [posting EXCEPT ![w] = p]
      /\ UNCHANGED <<server, bus, loop, client, deaths>>
  BY DEF Publish
<1>2. /\ TypeOK /\ counter \in Nat
      /\ posting \in [Workers -> {None} \cup Posts] /\ loop \in [Workers -> Loops]
  BY TypeFacts DEF Inductive
<1>3. /\ posting'[w] = p /\ p.id = counter + 1
      /\ \A v \in Workers \ {w} : posting'[v] = posting[v]
  BY <1>1, <1>2
<1> HIDE DEF p
<1>4. \A u \in Workers :
        /\ Numbers(bus', u) = Numbers(bus, u)
        /\ \A i \in Numbers(bus, u) : bus[u][i].id \in Nat /\ bus[u][i].id <= counter
        /\ \A e \in loop[u].read : e.id \in Nat /\ e.id <= counter
        /\ posting[u] # None => posting[u].id \in Nat /\ posting[u].id <= counter
  BY <1>1, <1>2, IdFacts DEF Numbers, Inductive, Given
<1>5. Given'
  <2>1. ASSUME NEW u \in Workers
        PROVE  /\ \A i \in Numbers(bus, u) : bus[u][i].id <= counter + 1
               /\ \A e \in loop[u].read : e.id <= counter + 1
               /\ posting'[u] # None => posting'[u].id <= counter + 1
    <3>1. CASE u = w
      BY <1>2, <1>3, <1>4, <3>1
    <3>2. CASE u # w
      BY <1>2, <1>3, <1>4, <3>2
    <3> QED
      BY <3>1, <3>2
  <2> QED
    BY <1>1, <1>4, <2>1 DEF Given
<1>6. Fresh'
  <2>1. ASSUME NEW u \in Workers
        PROVE  /\ \A i, j \in Numbers(bus, u) : bus[u][i].id = bus[u][j].id => i = j
               /\ \A i \in Numbers(bus, u) : \A e \in loop[u].read : e.id # bus[u][i].id
    BY DEF Inductive, Fresh
  <2>2. ASSUME NEW u \in Workers, NEW v \in Workers, posting'[v] # None, posting'[v].next <= u
        PROVE  /\ \A i \in Numbers(bus, u) : bus[u][i].id # posting'[v].id
               /\ \A e \in loop[u].read : e.id # posting'[v].id
    <3>1. CASE v = w
      BY <1>2, <1>3, <1>4, <3>1
    <3>2. CASE v # w
      BY <1>3, <2>2, <3>2 DEF Inductive, Fresh
    <3> QED
      BY <3>1, <3>2
  <2>3. ASSUME NEW u \in Workers, NEW v \in Workers, posting'[u] # None, posting'[v] # None,
               posting'[u].id = posting'[v].id
        PROVE  v = u
    <3>1. CASE u # w /\ v # w
      BY <1>3, <2>3, <3>1 DEF Inductive, Fresh
    <3>2. CASE u = w /\ v # w
      BY <1>2, <1>3, <1>4, <2>3, <3>2
    <3>3. CASE u # w /\ v = w
      BY <1>2, <1>3, <1>4, <2>3, <3>3
    <3> QED
      BY <3>1, <3>2, <3>3
  <2> QED
    BY <1>1, <1>4, <2>1, <2>2, <2>3 DEF Fresh
<1>7. \A u \in Workers : Journaled(loop[u]) /\ \A s \in Slots : loop[u].last[s] <= counter + 1
  <2>1. ASSUME NEW u \in Workers, NEW s \in Slots PROVE loop[u].last[s] <= counter + 1
    <3>1. loop[u].last[s] <= counter /\ loop[u].last[s] \in Nat
      BY <1>2 DEF Inductive, Within, Loops, LoopState
    <3> QED
      BY <1>2, <3>1
  <2> QED
    BY <2>1 DEF Inductive
<1> QED
  BY <1>1, <1>5, <1>6, <1>7 DEF Known, Within

\* A frame sent to the next worker comes to it for the first time.
LEMMA KnownPost ==
  ASSUME Inductive, NEW w \in Workers, Post(w)
  PROVE  Known'
<1> DEFINE p == posting[w]
           t == p.next
           f == [kind |-> "event", id |-> p.id, channel |-> p.channel]
           x == IF p.next + 1 < NumWorkers THEN [p EXCEPT !.next = @ + 1] ELSE None
           q == bus[t]
           n == Len(q)
<1>1. TypeOK /\ counter \in Nat /\ posting \in [Workers -> {None} \cup Posts]
      /\ bus \in [Workers -> Seq(Frames)]
  BY TypeFacts DEF Inductive
<1>2. /\ p # None /\ posting' = [posting EXCEPT ![w] = x]
      /\ bus' = IF Len(bus[t]) < BusRoom THEN [bus EXCEPT ![t] = Append(@, f)] ELSE bus
      /\ UNCHANGED <<server, counter, loop, client, deaths>>
  BY DEF Post
<1>3. p \in Posts /\ p.id \in Nat /\ t \in Workers /\ t \in Nat /\ p.id <= counter
  BY <1>1, <1>2, IdFacts DEF Inductive, Given
<1>4. x # None => x.id = p.id /\ x.next = t + 1
  BY <1>3 DEF Posts
<1>5. /\ posting'[w] = x
      /\ \A v \in Workers \ {w} : posting'[v] = posting[v]
  BY <1>1, <1>2
<1>6. \A u \in Workers \ {t} : bus'[u] = bus[u] /\ Numbers(bus', u) = Numbers(bus, u)
  BY <1>1, <1>2 DEF Numbers
<1>7. \/ bus'[t] = q /\ Numbers(bus', t) = Numbers(bus, t)
      \/ /\ n \in Nat /\ \A i \in Numbers(bus, t) : i \in 1 .. n /\ bus'[t][i] = q[i]
         /\ Numbers(bus', t) = Numbers(bus, t) \cup {n + 1} /\ bus'[t][n + 1].id = p.id
  <2>1. CASE Len(bus[t]) < BusRoom
    <3>1. bus'[t] = Append(q, f) /\ q \in Seq(Frames) /\ f.kind = "event" /\ f.id = p.id
      BY <1>1, <1>2, <1>3, <2>1
    <3> HIDE DEF f
    <3>2. /\ n \in Nat /\ DOMAIN q = 1 .. n /\ DOMAIN bus'[t] = 1 .. n + 1
          /\ bus'[t][n + 1] = f /\ \A i \in 1 .. n : bus'[t][i] = q[i]
      BY <3>1
    <3> HIDE DEF q, n, t
    <3>3. Numbers(bus, t) = {i \in 1 .. n : q[i].kind = "event"}
      BY <3>2 DEF Numbers, q
    <3>4. Numbers(bus', t) = {i \in 1 .. n + 1 : bus'[t][i].kind = "event"}
      BY <3>2 DEF Numbers
    <3>5. 1 .. n + 1 = 1 .. n \cup {n + 1}
      BY <3>2
    <3>6. Numbers(bus', t) = Numbers(bus, t) \cup {n + 1}
      BY <3>1, <3>2, <3>3, <3>4, <3>5
    <3> QED
      BY <3>1, <3>2, <3>3, <3>6
  <2>2. CASE ~ (Len(bus[t]) < BusRoom)
    BY <1>2, <2>2 DEF Numbers
  <2> QED
    BY <2>1, <2>2
<1>8. \A u \in Workers : \A i \in Numbers(bus', u) :
        \/ i \in Numbers(bus, u) /\ bus'[u][i] = bus[u][i]
        \/ u = t /\ i = n + 1 /\ bus'[u][i].id = p.id /\ i \notin Numbers(bus, u)
  <2>1. ASSUME NEW i \in Numbers(bus', t)
        PROVE  \/ i \in Numbers(bus, t) /\ bus'[t][i] = bus[t][i]
               \/ i = n + 1 /\ bus'[t][i].id = p.id /\ i \notin Numbers(bus, t)
    BY <1>7
  <2> QED
    BY <1>6, <2>1
<1>9. /\ \A i \in Numbers(bus, t) : bus[t][i].id # p.id
      /\ \A e \in loop[t].read : e.id # p.id
      /\ \A v \in Workers \ {w} : posting[v] # None => posting[v].id # p.id
  <2>1. t <= t
    BY <1>3
  <2> HIDE DEF t
  <2> QED
    BY <1>2, <1>3, <2>1 DEF Inductive, Fresh, t
<1> HIDE DEF x, p, t, q, n, f
<1>10. Given'
  BY ZenonT(60), <1>2, <1>3, <1>4, <1>5, <1>8 DEF Inductive, Given, p
<1>11. Fresh'
  <2>1. ASSUME NEW u \in Workers, NEW i \in Numbers(bus', u), NEW j \in Numbers(bus', u),
               bus'[u][i].id = bus'[u][j].id
        PROVE  i = j
    <3>1. CASE i \in Numbers(bus, u) /\ j \in Numbers(bus, u)
      <4>1. bus'[u][i] = bus[u][i] /\ bus'[u][j] = bus[u][j]
        BY <1>8, <3>1
      <4> QED
        BY <2>1, <3>1, <4>1 DEF Inductive, Fresh
    <3>2. CASE i \in Numbers(bus, u) /\ j \notin Numbers(bus, u)
      BY <1>8, <1>9, <2>1, <3>2
    <3>3. CASE i \notin Numbers(bus, u) /\ j \in Numbers(bus, u)
      BY <1>8, <1>9, <2>1, <3>3
    <3>4. CASE i \notin Numbers(bus, u) /\ j \notin Numbers(bus, u)
      BY <1>8, <3>4
    <3> QED
      BY <3>1, <3>2, <3>3, <3>4
  <2>2. ASSUME NEW u \in Workers, NEW i \in Numbers(bus', u), NEW e \in loop[u].read
        PROVE  e.id # bus'[u][i].id
    <3>1. CASE i \in Numbers(bus, u) /\ bus'[u][i] = bus[u][i]
      BY <3>1 DEF Inductive, Fresh
    <3>2. CASE u = t /\ bus'[u][i].id = p.id
      BY <1>9, <3>2
    <3> QED
      BY <1>8, <3>1, <3>2
  <2>3. ASSUME NEW u \in Workers, NEW v \in Workers, posting'[v] # None, posting'[v].next <= u
        PROVE  /\ posting[v] # None /\ posting[v].id = posting'[v].id /\ posting[v].next <= u
               /\ v = w => u # t
    <3>1. CASE v = w
      <4>1. x # None /\ x.id = p.id /\ x.next = t + 1 /\ t + 1 <= u /\ u \in Nat
        BY <1>4, <1>5, <2>3, <3>1, HoldsAssumption DEF Workers
      <4>2. t <= u /\ u # t
        BY <1>3, <4>1
      <4> QED
        BY <1>2, <1>5, <3>1, <4>1, <4>2 DEF p, t
    <3>2. CASE v # w
      BY <1>5, <2>3, <3>2
    <3> QED
      BY <3>1, <3>2
  <2>4. ASSUME NEW u \in Workers, NEW v \in Workers, posting'[v] # None, posting'[v].next <= u
        PROVE  /\ \A i \in Numbers(bus', u) : bus'[u][i].id # posting'[v].id
               /\ \A e \in loop[u].read : e.id # posting'[v].id
    <3>1. /\ posting[v] # None /\ posting[v].id = posting'[v].id /\ posting[v].next <= u
          /\ v = w => u # t
      BY <2>3, <2>4
    <3>2. /\ \A i \in Numbers(bus, u) : bus[u][i].id # posting[v].id
          /\ \A e \in loop[u].read : e.id # posting[v].id
      BY <3>1 DEF Inductive, Fresh
    <3>3. ASSUME NEW i \in Numbers(bus', u) PROVE bus'[u][i].id # posting'[v].id
      <4>1. CASE i \in Numbers(bus, u) /\ bus'[u][i] = bus[u][i]
        BY <3>1, <3>2, <4>1
      <4>2. CASE u = t /\ bus'[u][i].id = p.id
        BY <1>9, <3>1, <4>2
      <4> QED
        BY <1>8, <4>1, <4>2
    <3> QED
      BY <3>1, <3>2, <3>3
  <2>5. ASSUME NEW u \in Workers, NEW v \in Workers, posting'[u] # None, posting'[v] # None,
               posting'[u].id = posting'[v].id
        PROVE  v = u
    <3>1. /\ posting[u] # None /\ posting[u].id = posting'[u].id
          /\ posting[v] # None /\ posting[v].id = posting'[v].id
      BY <1>2, <1>4, <1>5, <2>5 DEF p
    <3> QED
      BY <2>5, <3>1 DEF Inductive, Fresh
  <2> QED
    BY ZenonT(60), <1>2, <2>1, <2>2, <2>4, <2>5 DEF Fresh
<1> QED
  BY <1>2, <1>10, <1>11 DEF Known, Inductive, Within

\* A new loop has all of what was read under its floor.
LEMMA KnownRespawn ==
  ASSUME Inductive, NEW w \in Workers, Respawn(w)
  PROVE  Known'
<1> DEFINE m == Started(counter, loop[w].read)
<1>1. /\ TypeOK /\ counter \in Nat /\ posting \in [Workers -> {None} \cup Posts]
      /\ loop \in [Workers -> Loops] /\ server \in Deployed
  BY TypeFacts DEF Inductive
<1>2. /\ loop' = [loop EXCEPT ![w] = m] /\ posting' = [posting EXCEPT ![w] = None]
      /\ counter' = counter /\ bus' = bus
  BY DEF Respawn
<1>3. loop[w] \in Loops
  BY <1>1
<1>4. loop[w].read \in SUBSET Events
  BY <1>3 DEF Loops, LoopState
<1>5. /\ m.read = loop[w].read /\ m.floor = counter /\ m.journal = <<>>
      /\ \A s \in Slots : m.last[s] = 0
  BY <1>1, <1>4, StartedFacts
<1> HIDE DEF m
<1>6. /\ loop'[w] = m /\ posting'[w] = None
      /\ \A u \in Workers \ {w} : loop'[u] = loop[u] /\ posting'[u] = posting[u]
  BY <1>1, <1>2
<1>7. \A u \in Workers : loop'[u].read = loop[u].read /\ Numbers(bus', u) = Numbers(bus, u)
  BY <1>2, <1>5, <1>6 DEF Numbers
<1>8. \A u \in Workers : posting'[u] # None => u # w /\ posting'[u] = posting[u]
  BY <1>6
<1>9. Given'
  BY <1>2, <1>7, <1>8 DEF Inductive, Given
<1>10. Fresh'
  BY <1>2, <1>7, <1>8 DEF Inductive, Fresh
<1>11. \A e \in loop[w].read : e.id \in Nat /\ e.id <= counter
  BY <1>1, IdFacts DEF Inductive, Given
<1>12. Journaled(m) /\ \A s \in Slots : m.last[s] <= counter
  BY <1>1, <1>5, <1>11 DEF Journaled
<1>13. \A u \in Workers : Journaled(loop'[u]) /\ \A s \in Slots : loop'[u].last[s] <= counter
  BY <1>6, <1>12 DEF Inductive, Within
<1> QED
  BY <1>2, <1>9, <1>10, <1>13 DEF Known, Within

\* A hold sent is no event.
LEMMA KnownSendHold ==
  ASSUME Inductive, NEW c \in Clients, SendHold(c)
  PROVE  Known'
<1> DEFINE w == client[c].worker
           f == [kind |-> "h", slot |-> client[c].slot, channel |-> Follows[c],
                 id |-> client[c].asked]
           q == bus[w]
           n == Len(q)
<1>1. TypeOK /\ bus \in [Workers -> Seq(Frames)] /\ w \in Workers
  BY TypeFacts, ClientFacts DEF Inductive
<1>2. bus' = [bus EXCEPT ![w] = Append(q, f)] /\ UNCHANGED <<counter, posting, loop>>
  BY DEF SendHold
<1>3. \A u \in Workers \ {w} : bus'[u] = bus[u] /\ Numbers(bus', u) = Numbers(bus, u)
  BY <1>1, <1>2 DEF Numbers
<1>4. bus'[w] = Append(q, f) /\ q \in Seq(Frames) /\ f.kind = "h"
  BY <1>1, <1>2
<1> HIDE DEF f
<1>5. /\ n \in Nat /\ DOMAIN q = 1 .. n /\ DOMAIN bus'[w] = 1 .. n + 1
      /\ bus'[w][n + 1] = f /\ \A i \in 1 .. n : bus'[w][i] = q[i]
  BY <1>4
<1> HIDE DEF q, n, w
<1>6. \A i \in Numbers(bus', w) : i \in 1 .. n /\ i \in Numbers(bus, w) /\ bus'[w][i] = bus[w][i]
  <2>1. ASSUME NEW i \in Numbers(bus', w) PROVE i \in 1 .. n
    BY <1>4, <1>5 DEF Numbers
  <2> QED
    BY <1>5, <2>1 DEF Numbers, q
<1>7. \A u \in Workers : \A i \in Numbers(bus', u) :
        i \in Numbers(bus, u) /\ bus'[u][i] = bus[u][i]
  BY <1>3, <1>6
<1>8. Given'
  BY ZenonT(60), <1>2, <1>7 DEF Inductive, Given
<1>9. Fresh'
  <2>1. ASSUME NEW u \in Workers, NEW i \in Numbers(bus', u)
        PROVE  /\ \A j \in Numbers(bus', u) : bus'[u][i].id = bus'[u][j].id => i = j
               /\ \A e \in loop[u].read : e.id # bus'[u][i].id
               /\ \A v \in Workers : posting[v] # None /\ posting[v].next <= u
                    => bus'[u][i].id # posting[v].id
    BY <1>7 DEF Inductive, Fresh
  <2>2. /\ \A u, v \in Workers : posting[v] # None /\ posting[v].next <= u =>
             \A e \in loop[u].read : e.id # posting[v].id
        /\ \A u, v \in Workers :
             posting[u] # None /\ posting[v] # None /\ posting[u].id = posting[v].id => v = u
    BY DEF Inductive, Fresh
  <2> QED
    BY ZenonT(60), <1>2, <2>1, <2>2 DEF Fresh
<1> QED
  BY <1>2, <1>8, <1>9 DEF Known, Inductive, Within

\* A loop that is changed only where no id comes in.
LEMMA KnownTouched ==
  ASSUME Inductive, NEW w \in Workers, NEW m, loop' = [loop EXCEPT ![w] = m],
         m.read = loop[w].read, Journaled(m), \A s \in Slots : m.last[s] <= counter,
         counter' = counter, posting' = posting, bus' = bus
  PROVE  Known'
<1>1. loop'[w] = m /\ \A u \in Workers \ {w} : loop'[u] = loop[u]
  BY TypeFacts DEF Inductive
<1>2. ASSUME NEW u \in Workers
      PROVE  /\ loop'[u].read = loop[u].read /\ Journaled(loop'[u])
             /\ (Within(loop[u]) => \A s \in Slots : loop'[u].last[s] <= counter)
  BY <1>1 DEF Inductive, Within
<1>3. Known
  BY DEF Known, Inductive
<1> QED
  BY <1>2, <1>3, KnownSame

\* Each step keeps the ids apart, none ahead of the counter.
LEMMA KnownStep ==
  ASSUME Inductive, [Next]_vars
  PROVE  Known'
<1>1. TypeOK /\ loop \in [Workers -> Loops] /\ server \in Deployed
  BY TypeFacts DEF Inductive
<1>2. ASSUME counter' = counter, posting' = posting, bus' = bus, loop' = loop PROVE Known'
  BY <1>2 DEF Known, Inductive, Given, Fresh, Numbers, Within
<1>3. ASSUME NEW w \in Workers, DeliverBusFrames(w) PROVE Known'
  BY <1>3, KnownDrained DEF DeliverBusFrames
<1>4. ASSUME NEW c \in Clients, NEW w \in Workers, NEW s \in Slots, Hold(c, w, s)
      PROVE  Known'
  <2> DEFINE m == Held(loop[w], s, Follows[c], client[c].seen)
  <2>1. Follows[c] \in Channels /\ client[c].seen \in Nat
    BY <1>1, ClientFacts
  <2>2. Only(loop[w], m, s) /\ Sound(m)
    BY <2>1, HeldLoop
  <2>3. loop' = [loop EXCEPT ![w] = m] /\ UNCHANGED <<counter, posting, bus>>
    BY <1>4 DEF Hold
  <2> HIDE DEF m
  <2> QED
    BY <2>2, <2>3, KnownTouched DEF Only, Sound, Within
<1>5. ASSUME NEW c \in Clients, Complete(c) PROVE Known'
  <2>1. client[c].worker \in Workers
    BY <1>1, ClientFacts
  <2> QED
    BY <1>5, <2>1, KnownDrained DEF Complete
<1>6. ASSUME NEW c \in Clients, DrainOutbox(c) PROVE Known'
  <2> DEFINE w == client[c].worker
             s == client[c].slot
             l == loop[w]
             m == [l EXCEPT !.pending[s] = <<>>]
  <2>1. w \in Workers /\ l \in LoopState
    BY <1>1, ClientFacts DEF Loops
  <2>2. loop' = [loop EXCEPT ![w] = m] /\ UNCHANGED <<counter, posting, bus>>
    BY <1>6, <1>1, <2>1 DEF DrainOutbox
  <2>3. m.read = l.read /\ m.journal = l.journal /\ m.floor = l.floor /\ m.last = l.last
    BY <2>1 DEF LoopState
  <2>4. Journaled(l) /\ Within(l)
    BY <2>1 DEF Inductive
  <2> HIDE DEF m
  <2>5. Journaled(m) /\ \A z \in Slots : m.last[z] <= counter
    BY <2>3, <2>4 DEF Journaled, Within
  <2> QED
    BY <2>1, <2>2, <2>3, <2>5, KnownTouched
<1>7. ASSUME NEW c \in Clients, Leave(c) PROVE Known'
  <2> DEFINE w == client[c].worker
             s == client[c].slot
             m == Unsubscribed(loop[w], s)
  <2>1. w \in Workers /\ s \in Slots /\ counter \in Nat
    BY <1>1, ClientFacts, TypeFacts
  <2>2. Only(loop[w], m, s) /\ m.last[s] = 0
    BY <1>1, <2>1, UnsubscribedFacts
  <2>3. loop' = [loop EXCEPT ![w] = m] /\ UNCHANGED <<counter, posting, bus>>
    BY <1>7 DEF Leave
  <2>4. Journaled(loop[w]) /\ Within(loop[w])
    BY <2>1 DEF Inductive
  <2> HIDE DEF m, w
  <2>5. Journaled(m) /\ \A z \in Slots : m.last[z] <= counter
    BY <2>1, <2>2, <2>4 DEF Only, Journaled, Within
  <2> QED
    BY <2>1, <2>2, <2>3, <2>5, KnownTouched DEF Only
<1>8. ASSUME NEW c \in Clients, NEW w \in Workers, NEW s \in Slots, Ask(c, w, s)
      PROVE  Known'
  BY <1>2, <1>8 DEF Ask
<1>9. ASSUME NEW c \in Clients, HoldUnavailable(c) PROVE Known'
  BY <1>2, <1>9 DEF HoldUnavailable
<1>10. CASE UNCHANGED vars
  BY <1>2, <1>10 DEF vars
<1> QED
  BY <1>3, <1>4, <1>5, <1>6, <1>7, <1>8, <1>9, <1>10,
     KnownPublish, KnownPost, KnownRespawn, KnownSendHold DEF Next

-----------------------------------------------------------------------------
(* Clients and their slots. *)

\* A step that is about no client.
LEMMA PlacedKeeps ==
  ASSUME TypeOK, Placed, server' = server, client' = client,
         \A w \in Workers, s \in Slots : Keeps(loop[w], bus[w], loop'[w], bus'[w], s)
  PROVE  Placed'
<1>1. ASSUME NEW c \in Clients PROVE Served(c)'
  <2> DEFINE p == client[c]
             w == p.worker
  <2>1. w \in Workers /\ p.slot \in Slots /\ p.asked \in Nat /\ p.got \in Lines
        /\ Follows[c] \in Channels
    BY ClientFacts
  <2>2. ServedBy(p, Follows[c], loop[w], bus[w])
    BY DEF Placed, Served
  <2>3. Keeps(loop[w], bus[w], loop'[w], bus'[w], p.slot)
    BY <2>1
  <2> HIDE DEF p, w
  <2>4. ServedBy(p, Follows[c], loop'[w], bus'[w])
    BY <2>1, <2>2, <2>3, StillServed
  <2> QED
    BY <2>4 DEF Served, ServedBy, p, w
<1>2. ASSUME NEW w \in Workers, NEW s \in Slots, Vacant(w, s)
      PROVE  Idle(loop'[w], s) /\ NoHold(bus'[w], s)
  BY <1>2 DEF Placed, Keeps
<1> QED
  BY <1>1, <1>2 DEF Placed, Vacant

\* A step that is about one, on the slot it has or on a vacant one.
LEMMA PlacedFor ==
  ASSUME TypeOK, Placed, server' = server, NEW c \in Clients, NEW p \in ClientState,
         client' = [client EXCEPT ![c] = p],
         \/ Vacant(p.worker, p.slot) /\ client[c].phase = "away"
         \/ client[c].phase # "away" /\ client[c].worker = p.worker /\ client[c].slot = p.slot,
         \A w \in Workers, s \in Slots : <<w, s>> # <<p.worker, p.slot>> =>
           Keeps(loop[w], bus[w], loop'[w], bus'[w], s),
         p.phase = "away" => Idle(loop'[p.worker], p.slot) /\ NoHold(bus'[p.worker], p.slot),
         p.phase # "away" => ServedBy(p, Follows[c], loop'[p.worker], bus'[p.worker])
  PROVE  Placed'
<1>1. client'[c] = p /\ \A d \in Clients \ {c} : client'[d] = client[d]
  BY TypeFacts
<1>2. ASSUME NEW d \in Clients \ {c}, client[d].phase # "away"
      PROVE  <<client[d].worker, client[d].slot>> # <<p.worker, p.slot>>
  BY <1>2 DEF Placed, Vacant
<1>3. ASSUME NEW d \in Clients PROVE Served(d)'
  <2>1. CASE d = c
    BY <1>1, <2>1 DEF Served, ServedBy
  <2>2. CASE d # c
    <3> DEFINE r == client[d]
               w == r.worker
    <3>1. w \in Workers /\ r.slot \in Slots /\ r.asked \in Nat /\ r.got \in Lines
          /\ Follows[d] \in Channels
      BY ClientFacts
    <3>2. ServedBy(r, Follows[d], loop[w], bus[w]) /\ client'[d] = r
      BY <1>1, <2>2 DEF Placed, Served
    <3>3. CASE r.phase = "away"
      BY <3>2, <3>3 DEF Served, ServedBy
    <3>4. CASE r.phase # "away"
      <4>1. Keeps(loop[w], bus[w], loop'[w], bus'[w], r.slot)
        BY <1>2, <2>2, <3>1, <3>4
      <4> HIDE DEF r, w
      <4>2. ServedBy(r, Follows[d], loop'[w], bus'[w])
        BY <3>1, <3>2, <4>1, StillServed
      <4> QED
        BY <3>2, <4>2 DEF Served, ServedBy, r, w
    <3> QED
      BY <3>3, <3>4
  <2> QED
    BY <2>1, <2>2
<1>4. ASSUME NEW w \in Workers, NEW s \in Slots, Vacant(w, s)'
      PROVE  Idle(loop'[w], s) /\ NoHold(bus'[w], s)
  <2>1. CASE w = p.worker /\ s = p.slot
    <3>1. p.phase = "away"
      BY <1>1, <1>4, <2>1 DEF Vacant
    <3> QED
      BY <2>1, <3>1
  <2>2. CASE <<w, s>> # <<p.worker, p.slot>>
    <3>1. ASSUME NEW d \in Clients, client[d].phase # "away"
          PROVE  <<client[d].worker, client[d].slot>> # <<w, s>>
      <4>1. CASE d = c
        BY <2>2, <3>1, <4>1
      <4>2. CASE d # c
        BY <1>1, <1>4, <3>1, <4>2 DEF Vacant
      <4> QED
        BY <4>1, <4>2
    <3>2. Vacant(w, s)
      BY <3>1 DEF Vacant
    <3>3. Idle(loop[w], s) /\ NoHold(bus[w], s)
      BY <3>2 DEF Placed
    <3> QED
      BY <2>2, <3>3 DEF Keeps
  <2> QED
    BY <2>1, <2>2
<1>5. ASSUME NEW d \in Clients, NEW e \in Clients,
             client'[d].phase # "away", client'[e].phase # "away",
             client'[d].worker = client'[e].worker, client'[d].slot = client'[e].slot
      PROVE  d = e
  <2>1. CASE d # c /\ e # c
    BY <1>1, <1>5, <2>1 DEF Placed
  <2>2. CASE d = c /\ e # c
    BY <1>1, <1>2, <1>5, <2>2
  <2>3. CASE d # c /\ e = c
    BY <1>1, <1>2, <1>5, <2>3
  <2> QED
    BY <2>1, <2>2, <2>3
<1> QED
  BY <1>3, <1>4, <1>5 DEF Placed

\* One worker's part changed is the others' kept.
LEMMA KeepsRest ==
  ASSUME TypeOK, NEW w \in Workers,
         \A u \in Workers \ {w} : loop'[u] = loop[u] /\ bus'[u] = bus[u],
         NEW t, \A s \in Slots \ {t} : Keeps(loop[w], bus[w], loop'[w], bus'[w], s)
  PROVE  \A u \in Workers, s \in Slots : <<u, s>> # <<w, t>> =>
           Keeps(loop[u], bus[u], loop'[u], bus'[u], s)
<1> SUFFICES ASSUME NEW u \in Workers, NEW s \in Slots, <<u, s>> # <<w, t>>
             PROVE  Keeps(loop[u], bus[u], loop'[u], bus'[u], s)
  OBVIOUS
<1>1. CASE u = w
  BY <1>1
<1>2. CASE u # w
  BY <1>2, KeepsSame
<1> QED
  BY <1>1, <1>2

\* A stream held by the loop's own application.
LEMMA PlacedHold ==
  ASSUME Inductive, Placed, NEW c \in Clients, NEW w \in Workers, NEW s \in Slots, Hold(c, w, s)
  PROVE  Placed'
<1> DEFINE ch == Follows[c]
           id == client[c].seen
           m == Held(loop[w], s, ch, id)
           p == Visiting(c, w, s, "held")
<1>1. TypeOK /\ loop \in [Workers -> Loops] /\ bus \in [Workers -> Seq(Frames)]
  BY TypeFacts DEF Inductive
<1>2. /\ client[c].phase = "away" /\ client[c].visits < MaxVisits /\ Vacant(w, s)
      /\ loop' = [loop EXCEPT ![w] = m] /\ client' = [client EXCEPT ![c] = p]
      /\ UNCHANGED <<server, counter, posting, bus, deaths>>
  BY DEF Hold
<1>3. ch \in Channels /\ id \in Nat
  BY <1>1, ClientFacts
<1>4. /\ p \in ClientState /\ p.phase = "held" /\ p.worker = w /\ p.slot = s
      /\ p.asked = id /\ p.got = <<>>
  BY <1>1, <1>2, VisitingFacts
<1>5. Idle(loop[w], s) /\ NoHold(bus[w], s)
  BY <1>2 DEF Placed
<1>6. Only(loop[w], m, s) /\ (Idle(loop[w], s) => Law(m, s, ch, id, <<>>))
  BY <1>3, HeldLoop
<1> HIDE DEF m, p, ch, id
<1>7. loop'[w] = m /\ bus'[w] = bus[w]
      /\ \A u \in Workers \ {w} : loop'[u] = loop[u] /\ bus'[u] = bus[u]
  BY <1>1, <1>2
<1>8. \A z \in Slots \ {s} : Keeps(loop[w], bus[w], loop'[w], bus'[w], z)
  BY <1>6, <1>7, KeepsOther
<1>9. \A u \in Workers, z \in Slots : <<u, z>> # <<w, s>> =>
           Keeps(loop[u], bus[u], loop'[u], bus'[u], z)
  BY <1>1, <1>7, <1>8, KeepsRest
<1>10. ServedBy(p, ch, loop'[w], bus'[w])
  BY <1>4, <1>5, <1>6, <1>7 DEF ServedBy
<1> QED
  BY <1>1, <1>2, <1>4, <1>9, <1>10, PlacedFor DEF ch

\* A request that a pool thread has.
LEMMA PlacedAsk ==
  ASSUME Inductive, Placed, NEW c \in Clients, NEW w \in Workers, NEW s \in Slots, Ask(c, w, s)
  PROVE  Placed'
<1> DEFINE p == Visiting(c, w, s, "asked")
<1>1. TypeOK
  BY DEF Inductive
<1>2. /\ client[c].phase = "away" /\ client[c].visits < MaxVisits /\ Vacant(w, s)
      /\ client' = [client EXCEPT ![c] = p] /\ server.pooled
      /\ UNCHANGED <<server, counter, posting, bus, loop, deaths>>
  BY DEF Ask
<1>3. /\ p \in ClientState /\ p.phase = "asked" /\ p.worker = w /\ p.slot = s
      /\ p.got = <<>>
  BY <1>1, <1>2, VisitingFacts
<1>4. Idle(loop[w], s) /\ NoHold(bus[w], s)
  BY <1>2 DEF Placed
<1> HIDE DEF p
<1>5. ServedBy(p, Follows[c], loop'[w], bus'[w])
  BY <1>2, <1>3, <1>4 DEF ServedBy
<1>6. \A u \in Workers, z \in Slots : Keeps(loop[u], bus[u], loop'[u], bus'[u], z)
  BY <1>2, KeepsSame
<1> QED
  BY <1>1, <1>2, <1>3, <1>5, <1>6, PlacedFor

\* A client whose phase is all that changes.
LEMMA PhaseFacts ==
  ASSUME TypeOK, NEW c \in Clients, NEW phase \in {"away", "sent", "held"}
  PROVE  LET p == [client[c] EXCEPT !.phase = phase] IN
         /\ p \in ClientState /\ p.phase = phase
         /\ p.worker = client[c].worker /\ p.slot = client[c].slot
         /\ p.asked = client[c].asked /\ p.got = client[c].got
<1>1. client[c] \in ClientState
  BY TypeFacts
<1> QED
  BY <1>1 DEF ClientState

\* Its hold sent to its own loop.
LEMMA PlacedSendHold ==
  ASSUME Inductive, Placed, NEW c \in Clients, SendHold(c)
  PROVE  Placed'
<1> DEFINE w == client[c].worker
           s == client[c].slot
           p == [client[c] EXCEPT !.phase = "sent"]
           f == [kind |-> "h", slot |-> s, channel |-> Follows[c], id |-> client[c].asked]
           q == bus[w]
           r == Append(q, f)
           n == Len(q)
<1>1. TypeOK /\ bus \in [Workers -> Seq(Frames)] /\ client \in [Clients -> ClientState]
  BY TypeFacts DEF Inductive
<1>2. /\ client[c].phase = "asked"
      /\ bus' = [bus EXCEPT ![w] = r]
      /\ client' = [client EXCEPT ![c] = p]
      /\ UNCHANGED <<server, counter, posting, loop, deaths>>
  <2>1. client' = [client EXCEPT ![c].phase = "sent"]
    BY DEF SendHold
  <2>2. client' = [client EXCEPT ![c] = p]
    BY <1>1, <2>1
  <2> QED
    BY <2>2 DEF SendHold
<1>3. w \in Workers /\ s \in Slots /\ f \in Frames
  BY <1>1, ClientFacts DEF Frames
<1>4. /\ p \in ClientState /\ p.phase = "sent" /\ p.worker = w /\ p.slot = s
      /\ p.asked = client[c].asked /\ p.got = client[c].got
  BY <1>1, PhaseFacts
<1>5. Idle(loop[w], s) /\ NoHold(q, s) /\ client[c].got = <<>> /\ server.pooled
  BY <1>2 DEF Placed, Served, ServedBy
<1>6. f = HoldOf(p, Follows[c]) /\ f.kind = "h" /\ f.slot = s
  BY <1>4 DEF HoldOf
<1>7. q \in Seq(Frames)
  BY <1>1, <1>3
<1> HIDE DEF f, p, w, s, q
<1>8. /\ n \in Nat /\ DOMAIN q = 1 .. n /\ DOMAIN r = 1 .. n + 1 /\ r[n + 1] = f
      /\ \A i \in 1 .. n : r[i] = q[i]
  BY <1>3, <1>7
<1> HIDE DEF r, n
<1>9. HoldAt(r, n + 1, s)
  <2>1. ASSUME NEW i \in DOMAIN r, r[i].kind = "h", r[i].slot = s PROVE i = n + 1
    <3>1. CASE i \in 1 .. n
      BY <1>5, <1>8, <2>1, <3>1 DEF NoHold
    <3> QED
      BY <1>8, <3>1
  <2>2. n + 1 \in DOMAIN r
    BY <1>8
  <2> QED
    BY <2>1, <2>2 DEF HoldAt
<1>10. bus'[w] = r /\ loop' = loop /\ \A u \in Workers \ {w} : bus'[u] = bus[u]
  BY <1>1, <1>2, <1>3
<1>11. \A z \in Slots \ {s} : Keeps(loop[w], bus[w], loop'[w], bus'[w], z)
  BY <1>3, <1>6, <1>7, <1>10, KeepsSent DEF r, q
<1>12. \A u \in Workers, z \in Slots : <<u, z>> # <<w, s>> =>
           Keeps(loop[u], bus[u], loop'[u], bus'[u], z)
  BY ZenonT(60), <1>1, <1>3, <1>10, <1>11, KeepsRest
<1>13. ServedBy(p, Follows[c], loop'[w], bus'[w])
  <2>1. n + 1 \in DOMAIN r /\ r[n + 1] = HoldOf(p, Follows[c])
    BY <1>6, <1>8
  <2>2. \E k \in DOMAIN r : r[k] = HoldOf(p, Follows[c]) /\ HoldAt(r, k, s)
    BY <1>9, <2>1
  <2> QED
    BY <1>4, <1>5, <1>10, <2>2 DEF ServedBy
<1> QED
  BY <1>1, <1>2, <1>4, <1>12, <1>13, PlacedFor DEF w, s

\* The channel was full.
LEMMA PlacedUnavailable ==
  ASSUME Inductive, Placed, NEW c \in Clients, HoldUnavailable(c)
  PROVE  Placed'
<1> DEFINE w == client[c].worker
           s == client[c].slot
           p == [client[c] EXCEPT !.phase = "away"]
<1>1. TypeOK /\ client \in [Clients -> ClientState]
  BY TypeFacts DEF Inductive
<1>2. /\ client[c].phase = "asked" /\ client' = [client EXCEPT ![c] = p]
      /\ UNCHANGED <<server, counter, posting, bus, loop, deaths>>
  <2>1. client' = [client EXCEPT ![c].phase = "away"]
    BY DEF HoldUnavailable
  <2>2. client' = [client EXCEPT ![c] = p]
    BY <1>1, <2>1
  <2> QED
    BY <2>2 DEF HoldUnavailable
<1>3. p \in ClientState /\ p.phase = "away" /\ p.worker = w /\ p.slot = s
  BY <1>1, PhaseFacts
<1>4. Idle(loop[w], s) /\ NoHold(bus[w], s)
  BY <1>2 DEF Placed, Served, ServedBy
<1> HIDE DEF p
<1>5. \A u \in Workers, z \in Slots : Keeps(loop[u], bus[u], loop'[u], bus'[u], z)
  BY <1>2, KeepsSame
<1> QED
  BY <1>1, <1>2, <1>3, <1>4, <1>5, PlacedFor

\* The channel of a worker read to its end.
LEMMA PlacedDrained ==
  ASSUME Inductive, NEW w \in Workers,
         loop' = [loop EXCEPT ![w] = Drained(w)], bus' = [bus EXCEPT ![w] = <<>>]
  PROVE  /\ loop'[w] = Drained(w) /\ bus'[w] = <<>>
         /\ \A u \in Workers, s \in Slots : Keeps(loop[u], bus[u], loop'[u], bus'[u], s)
<1>1. loop \in [Workers -> Loops] /\ bus \in [Workers -> Seq(Frames)]
  BY TypeFacts DEF Inductive
<1>2. loop'[w] = Drained(w) /\ bus'[w] = <<>>
      /\ \A u \in Workers \ {w} : loop'[u] = loop[u] /\ bus'[u] = bus[u]
  BY <1>1
<1>3. ASSUME NEW u \in Workers, NEW s \in Slots
      PROVE  Keeps(loop[u], bus[u], loop'[u], bus'[u], s)
  <2>1. CASE u = w
    BY <1>2, <2>1, DrainedSlots
  <2>2. CASE u # w
    BY <1>2, <2>2, KeepsSame
  <2> QED
    BY <2>1, <2>2
<1> QED
  BY <1>2, <1>3

\* A pool thread's hold complete: it was on the channel, or had been read.
LEMMA PlacedComplete ==
  ASSUME Inductive, Placed, NEW c \in Clients, Complete(c)
  PROVE  Placed'
<1> DEFINE w == client[c].worker
           s == client[c].slot
           p == [client[c] EXCEPT !.phase = "held"]
           ch == Follows[c]
<1>1. TypeOK /\ client \in [Clients -> ClientState]
  BY TypeFacts DEF Inductive
<1>2. /\ client[c].phase = "sent" /\ client' = [client EXCEPT ![c] = p]
      /\ loop' = [loop EXCEPT ![w] = Drained(w)] /\ bus' = [bus EXCEPT ![w] = <<>>]
      /\ UNCHANGED <<server, counter, posting, deaths>>
  <2>1. client' = [client EXCEPT ![c].phase = "held"]
    BY DEF Complete
  <2>2. client' = [client EXCEPT ![c] = p]
    BY <1>1, <2>1
  <2> QED
    BY <2>2 DEF Complete
<1>3. w \in Workers /\ s \in Slots /\ client[c].asked \in Nat /\ client[c].got \in Lines
      /\ ch \in Channels
  BY <1>1, ClientFacts
<1>4. /\ p \in ClientState /\ p.phase = "held" /\ p.worker = w /\ p.slot = s
      /\ p.asked = client[c].asked /\ p.got = client[c].got
  BY <1>1, PhaseFacts
<1>5. /\ loop'[w] = Drained(w) /\ bus'[w] = <<>>
      /\ \A u \in Workers, z \in Slots : Keeps(loop[u], bus[u], loop'[u], bus'[u], z)
  BY <1>2, <1>3, PlacedDrained
<1>6. ServedBy(client[c], ch, loop[w], bus[w])
  BY DEF Placed, Served
<1>7. ServedBy(client[c], ch, loop'[w], bus'[w])
  <2> HIDE DEF ch, w
  <2>1. Keeps(loop[w], bus[w], loop'[w], bus'[w], s)
    BY <1>3, <1>5
  <2> QED
    BY <1>3, <1>6, <2>1, StillServed
<1>8. NoHold(bus'[w], s) /\ Law(loop'[w], s, ch, client[c].asked, client[c].got)
  <2>1. NoHold(bus'[w], s)
    BY <1>5 DEF NoHold
  <2>2. ~ \E k \in DOMAIN bus'[w] : bus'[w][k] = HoldOf(client[c], ch) /\ HoldAt(bus'[w], k, s)
    BY <1>5
  <2> QED
    BY <1>2, <1>7, <2>1, <2>2 DEF ServedBy
<1> HIDE DEF p
<1>9. ServedBy(p, ch, loop'[w], bus'[w])
  BY <1>4, <1>8 DEF ServedBy
<1> QED
  BY <1>1, <1>2, <1>4, <1>5, <1>9, PlacedFor

\* An outbox handed to its client.
LEMMA PlacedDrainOutbox ==
  ASSUME Inductive, Placed, NEW c \in Clients, DrainOutbox(c)
  PROVE  Placed'
<1> DEFINE w == client[c].worker
           s == client[c].slot
           l == loop[w]
           m == [l EXCEPT !.pending[s] = <<>>]
           out == l.pending[s]
           seen == IF Numbered(out) = {} THEN client[c].seen
                   ELSE out[Max(Numbered(out))].id
           p == [client[c] EXCEPT !.got = @ \o out, !.seen = seen]
           ch == Follows[c]
<1>1. TypeOK /\ client \in [Clients -> ClientState] /\ loop \in [Workers -> Loops]
      /\ bus \in [Workers -> Seq(Frames)]
  BY TypeFacts DEF Inductive
<1>2. w \in Workers /\ s \in Slots /\ client[c].got \in Lines /\ client[c].seen \in Nat
  BY <1>1, ClientFacts
<1>3. /\ client[c].phase = "held" /\ client' = [client EXCEPT ![c] = p]
      /\ loop' = [loop EXCEPT ![w] = m]
      /\ UNCHANGED <<server, counter, posting, bus, deaths>>
  <2>1. /\ loop' = [loop EXCEPT ![w].pending[s] = <<>>]
        /\ client' = [client EXCEPT ![c].got = @ \o out, ![c].seen = seen]
    BY DEF DrainOutbox
  <2>2. client' = [client EXCEPT ![c] = p]
    BY <1>1, <2>1
  <2>3. loop' = [loop EXCEPT ![w] = m]
    BY <1>1, <1>2, <2>1
  <2> QED
    BY <2>2, <2>3 DEF DrainOutbox
<1>4. l \in LoopState /\ out \in Lines
  BY <1>1, <1>2 DEF Loops, LoopState, Lines
<1>5. client[c].got \o out \in Lines
  BY <1>2, <1>4 DEF Lines
<1>6. seen \in Nat
  BY <1>2, <1>4, NewestIsId
<1>7. /\ p \in ClientState /\ p.phase = "held" /\ p.worker = w /\ p.slot = s
      /\ p.asked = client[c].asked /\ p.got = client[c].got \o out
  <2>1. client[c] \in ClientState
    BY <1>1
  <2> HIDE DEF seen, out
  <2> QED
    BY <1>3, <1>5, <1>6, <2>1 DEF ClientState, Lines
<1>8. NoHold(bus[w], s) /\ Law(l, s, ch, client[c].asked, client[c].got)
  BY <1>3 DEF Placed, Served, ServedBy
<1>9. /\ Only(l, m, s) /\ m.url[s] = l.url[s] /\ m.last[s] = l.last[s] /\ m.pending[s] = <<>>
      /\ m.before[s] = l.before[s] /\ m.read = l.read
  <2>1. /\ m.floor = l.floor /\ m.head = l.head /\ m.journal = l.journal /\ m.read = l.read
        /\ m.url = l.url /\ m.last = l.last /\ m.before = l.before
        /\ m.pending = [l.pending EXCEPT ![s] = <<>>]
    BY <1>4 DEF LoopState
  <2>2. l.pending \in [Slots -> Lines]
    BY <1>4 DEF LoopState, Lines
  <2> HIDE DEF m, l
  <2> QED
    BY <1>2, <2>1, <2>2 DEF Only
<1>10. (client[c].got \o out) \o <<>> = client[c].got \o out
  BY <1>5 DEF Lines
<1> HIDE DEF p, m, seen
<1>11. Law(m, s, ch, p.asked, p.got)
  BY <1>7, <1>8, <1>9, <1>10 DEF Law
<1>12. loop'[w] = m /\ bus'[w] = bus[w]
       /\ \A u \in Workers \ {w} : loop'[u] = loop[u] /\ bus'[u] = bus[u]
  BY <1>1, <1>2, <1>3
<1>13. ServedBy(p, ch, loop'[w], bus'[w])
  BY <1>7, <1>8, <1>11, <1>12 DEF ServedBy
<1> HIDE DEF w, s, ch
<1>14. \A z \in Slots \ {s} : Keeps(loop[w], bus[w], loop'[w], bus'[w], z)
  BY <1>9, <1>12, KeepsOther
<1>15. \A u \in Workers, z \in Slots : <<u, z>> # <<w, s>> =>
           Keeps(loop[u], bus[u], loop'[u], bus'[u], z)
  BY <1>1, <1>2, <1>12, <1>14, KeepsRest
<1> QED
  BY <1>1, <1>3, <1>7, <1>13, <1>15, PlacedFor DEF w, s, ch

\* A slot closed is nobody's.
LEMMA PlacedLeave ==
  ASSUME Inductive, Placed, NEW c \in Clients, Leave(c)
  PROVE  Placed'
<1> DEFINE w == client[c].worker
           s == client[c].slot
           m == Unsubscribed(loop[w], s)
           p == [client[c] EXCEPT !.phase = "away"]
<1>1. TypeOK /\ client \in [Clients -> ClientState] /\ loop \in [Workers -> Loops]
      /\ bus \in [Workers -> Seq(Frames)] /\ server \in Deployed
  BY TypeFacts DEF Inductive
<1>2. w \in Workers /\ s \in Slots
  BY <1>1, ClientFacts
<1>3. /\ client[c].phase = "held" /\ client' = [client EXCEPT ![c] = p]
      /\ loop' = [loop EXCEPT ![w] = m]
      /\ UNCHANGED <<server, counter, posting, bus, deaths>>
  <2>1. client' = [client EXCEPT ![c].phase = "away"]
    BY DEF Leave
  <2>2. client' = [client EXCEPT ![c] = p]
    BY <1>1, <2>1
  <2> QED
    BY <2>2 DEF Leave
<1>4. p \in ClientState /\ p.phase = "away" /\ p.worker = w /\ p.slot = s
  BY <1>1, PhaseFacts
<1>5. NoHold(bus[w], s)
  BY <1>3 DEF Placed, Served, ServedBy
<1>6. Only(loop[w], m, s) /\ Idle(m, s)
  BY <1>1, <1>2, UnsubscribedFacts DEF Idle
<1> HIDE DEF p, m, w, s
<1>7. loop'[w] = m /\ bus'[w] = bus[w]
      /\ \A u \in Workers \ {w} : loop'[u] = loop[u] /\ bus'[u] = bus[u]
  BY <1>1, <1>2, <1>3
<1>8. \A z \in Slots \ {s} : Keeps(loop[w], bus[w], loop'[w], bus'[w], z)
  BY <1>6, <1>7, KeepsOther
<1>9. \A u \in Workers, z \in Slots : <<u, z>> # <<w, s>> =>
           Keeps(loop[u], bus[u], loop'[u], bus'[u], z)
  BY <1>1, <1>2, <1>7, <1>8, KeepsRest
<1> QED
  BY ZenonT(60), <1>1, <1>3, <1>4, <1>5, <1>6, <1>7, <1>9, PlacedFor DEF w, s

\* A frame for every worker, one at a time.
LEMMA PlacedPost ==
  ASSUME Inductive, Placed, NEW w \in Workers, Post(w)
  PROVE  Placed'
<1> DEFINE t == posting[w].next
           f == [kind |-> "event", id |-> posting[w].id, channel |-> posting[w].channel]
<1>1. TypeOK /\ bus \in [Workers -> Seq(Frames)]
  BY TypeFacts DEF Inductive
<1>2. /\ posting[w] # None
      /\ bus' = IF Len(bus[t]) < BusRoom THEN [bus EXCEPT ![t] = Append(@, f)] ELSE bus
      /\ UNCHANGED <<server, counter, loop, client, deaths>>
  BY DEF Post
<1>3. t \in Workers /\ f \in Frames /\ f.kind # "h"
  <2>1. posting[w] \in Posts
    BY <1>1, <1>2, IdFacts
  <2> QED
    BY <2>1 DEF Posts, Frames
<1> HIDE DEF t, f
<1>4. ASSUME NEW u \in Workers, NEW s \in Slots
      PROVE  Keeps(loop[u], bus[u], loop'[u], bus'[u], s)
  <2>1. CASE bus'[u] = bus[u]
    BY <1>2, <2>1, KeepsSame
  <2>2. CASE bus'[u] = Append(bus[u], f)
    <3>1. bus[u] \in Seq(Frames)
      BY <1>1
    <3>2. Keeps(loop[u], bus[u], loop[u], Append(bus[u], f), s)
      BY <1>3, <3>1, KeepsSent
    <3> QED
      BY <1>2, <2>2, <3>2
  <2>3. bus'[u] = bus[u] \/ bus'[u] = Append(bus[u], f)
    BY <1>1, <1>2, <1>3
  <2> QED
    BY <2>1, <2>2, <2>3
<1> QED
  BY <1>1, <1>2, <1>4, PlacedKeeps

\* A worker replaced, where no pool thread's hold can be on its channel.
LEMMA PlacedRespawn ==
  ASSUME Inductive, Placed, Kept, NEW w \in Workers, Respawn(w)
  PROVE  Placed'
<1> DEFINE m == Started(counter, loop[w].read)
<1>1. TypeOK /\ client \in [Clients -> ClientState] /\ loop \in [Workers -> Loops]
      /\ server \in Deployed /\ deaths \in 0 .. server.deaths /\ counter \in Nat
  BY TypeFacts DEF Inductive
<1>2. /\ deaths < server.deaths /\ loop' = [loop EXCEPT ![w] = m]
      /\ client' = [c \in Clients |-> IF client[c].worker = w
                                  THEN [client[c] EXCEPT !.phase = "away"] ELSE client[c]]
      /\ UNCHANGED <<server, counter, bus>>
  BY DEF Respawn
<1>3. ~ server.pooled
  BY <1>1, <1>2 DEF Kept, Deployed
<1>4. \A c \in Clients : client[c].phase \in {"away", "held"}
  <2>1. \A c \in Clients : client[c].phase \notin {"asked", "sent"}
    BY <1>3 DEF Placed, Served, ServedBy
  <2> QED
    BY <1>1, <2>1, ClientFacts
<1>5. \A s \in Slots : NoHold(bus[w], s)
  <2> SUFFICES ASSUME NEW s \in Slots PROVE NoHold(bus[w], s)
    OBVIOUS
  <2>1. CASE Vacant(w, s)
    BY <2>1 DEF Placed
  <2>2. CASE ~ Vacant(w, s)
    <3>1. PICK c \in Clients :
            client[c].phase # "away" /\ client[c].worker = w /\ client[c].slot = s
      BY <2>2 DEF Vacant
    <3>2. client[c].phase = "held"
      BY <1>4, <3>1
    <3> QED
      BY <3>1, <3>2 DEF Placed, Served, ServedBy
  <2> QED
    BY <2>1, <2>2
<1>6. \A s \in Slots : Idle(m, s)
  <2>1. loop[w] \in Loops
    BY <1>1
  <2>2. loop[w].read \in SUBSET Events
    BY <2>1 DEF Loops, LoopState
  <2> QED
    BY <1>1, <2>2, StartedFacts
<1> HIDE DEF m
<1>7. loop'[w] = m /\ \A u \in Workers \ {w} : loop'[u] = loop[u]
  BY <1>1, <1>2
<1>8. \A c \in Clients :
        /\ client'[c].worker = client[c].worker /\ client'[c].slot = client[c].slot
        /\ IF client[c].worker = w THEN client'[c].phase = "away" ELSE client'[c] = client[c]
  <2>1. ASSUME NEW c \in Clients, client[c].worker = w
        PROVE  /\ client'[c].worker = client[c].worker /\ client'[c].slot = client[c].slot
               /\ client'[c].phase = "away"
    BY <1>1, <1>2, <2>1 DEF ClientState
  <2> QED
    BY <1>2, <2>1
<1>9. ASSUME NEW c \in Clients PROVE Served(c)'
  <2>1. CASE client[c].worker = w
    BY <1>8, <2>1 DEF Served, ServedBy
  <2>2. CASE client[c].worker # w
    <3>1. client[c].worker \in Workers
      BY <1>1, ClientFacts
    <3>2. client'[c] = client[c] /\ loop'[client[c].worker] = loop[client[c].worker]
      BY <1>7, <1>8, <2>2, <3>1
    <3> QED
      BY <1>2, <3>2 DEF Placed, Served, ServedBy
  <2> QED
    BY <2>1, <2>2
<1>10. ASSUME NEW u \in Workers, NEW s \in Slots, Vacant(u, s)'
       PROVE  Idle(loop'[u], s) /\ NoHold(bus'[u], s)
  <2>1. CASE u = w
    BY <1>2, <1>5, <1>6, <1>7, <2>1
  <2>2. CASE u # w
    <3>1. Vacant(u, s)
      BY <1>8, <1>10, <2>2 DEF Vacant
    <3> QED
      BY <1>2, <1>7, <2>2, <3>1 DEF Placed
  <2> QED
    BY <2>1, <2>2
<1>11. ASSUME NEW c \in Clients, NEW d \in Clients,
              client'[c].phase # "away", client'[d].phase # "away",
              client'[c].worker = client'[d].worker, client'[c].slot = client'[d].slot
       PROVE  c = d
  BY <1>8, <1>11 DEF Placed
<1> QED
  BY <1>9, <1>10, <1>11 DEF Placed

\* Each step leaves every client its slot, and the slot's law.
LEMMA PlacedStep ==
  ASSUME Inductive, Kept, [Next]_vars
  PROVE  Placed'
<1>1. TypeOK /\ Placed
  BY DEF Inductive
<1>2. ASSUME UNCHANGED <<server, loop, bus, client>> PROVE Placed'
  BY <1>1, <1>2, KeepsSame, PlacedKeeps
<1>3. ASSUME NEW w \in Workers, NEW ch \in Channels, Publish(w, ch) PROVE Placed'
  BY <1>2, <1>3 DEF Publish
<1>4. ASSUME NEW w \in Workers, DeliverBusFrames(w) PROVE Placed'
  <2>1. /\ loop' = [loop EXCEPT ![w] = Drained(w)] /\ bus' = [bus EXCEPT ![w] = <<>>]
        /\ server' = server /\ client' = client
    BY <1>4 DEF DeliverBusFrames
  <2>2. \A u \in Workers, s \in Slots : Keeps(loop[u], bus[u], loop'[u], bus'[u], s)
    BY <2>1, PlacedDrained
  <2> QED
    BY <1>1, <2>1, <2>2, PlacedKeeps
<1>5. CASE UNCHANGED vars
  BY <1>2, <1>5 DEF vars
<1> QED
  BY <1>1, <1>3, <1>4, <1>5, PlacedPost, PlacedRespawn, PlacedHold, PlacedAsk, PlacedSendHold,
     PlacedUnavailable, PlacedComplete, PlacedDrainOutbox, PlacedLeave DEF Next

-----------------------------------------------------------------------------
(* The invariant. *)

\* A server is what it is.
LEMMA ServerSame ==
  ASSUME Next \/ UNCHANGED vars
  PROVE  server' = server
BY DEF Next, Publish, Post, DeliverBusFrames, Respawn, Hold, Ask, SendHold, HoldUnavailable,
       Complete, DrainOutbox, Leave, vars

\* It holds at the start.
LEMMA InvInit == Init => Inductive
<1> SUFFICES ASSUME Init PROVE Inductive
  OBVIOUS
<1> DEFINE m == Started(0, {})
<1>1. /\ server \in Deployments /\ server \in Deployed /\ counter = 0
      /\ posting = [w \in Workers |-> None] /\ bus = [w \in Workers |-> <<>>]
      /\ loop = [w \in Workers |-> m] /\ deaths = 0
  BY HoldsAssumption DEF Init
<1>2. /\ m \in Loops /\ m.read = {} /\ m.floor = 0 /\ m.journal = <<>>
      /\ \A s \in Slots : Idle(m, s) /\ m.last[s] = 0
  BY <1>1, StartedFacts
<1> HIDE DEF m
<1>3. \A w \in Workers : posting[w] = None /\ bus[w] = <<>> /\ loop[w] = m /\ Numbers(bus, w) = {}
  BY <1>1 DEF Numbers
<1>4. \A c \in Clients : client[c].phase = "away"
  BY DEF Init
<1>5. client \in [Clients -> ClientState]
  <2> DEFINE P(id) == [phase |-> "away", worker |-> 0, slot |-> 1, seen |-> id,
                       asked |-> 0, got |-> <<>>, visits |-> 0]
  <2>1. ASSUME NEW id \in Leftovers \cup {0} PROVE P(id) \in ClientState
    <3>1. 0 \in Workers /\ 1 \in Slots /\ id \in Nat /\ 0 \in 0 .. MaxVisits /\ <<>> \in Lines
      BY HoldsAssumption DEF Workers, Slots, Lines
    <3> QED
      BY <3>1 DEF ClientState, Lines
  <2>2. client \in [Clients -> {P(id) : id \in Leftovers \cup {0}}]
    BY DEF Init
  <2> HIDE DEF P
  <2> QED
    BY <2>1, <2>2
<1>6. TypeOK
  <2>1. /\ counter \in 0 .. MaxId /\ deaths \in 0 .. server.deaths /\ 0 <= BusRoom
    BY <1>1, HoldsAssumption DEF Deployed
  <2>2. /\ posting \in [Workers -> {None} \cup Posts] /\ bus \in [Workers -> Seq(Frames)]
        /\ loop \in [Workers -> Loops]
    BY <1>1, <1>2
  <2>3. \A w \in Workers : Len(bus[w]) <= BusRoom
    BY <1>3, <2>1
  <2>4. loop \in [Workers -> LoopState]
    BY <2>2 DEF Loops
  <2>5. \A w \in Workers :
          /\ Len(loop[w].journal) <= server.replay
          /\ \A s \in Slots : Len(loop[w].pending[s]) <= server.outbox
    BY <2>2 DEF Loops
  <2> QED
    BY <1>1, <1>5, <2>1, <2>2, <2>3, <2>4, <2>5 DEF TypeOK, Posts
<1>7. Given /\ Fresh
  BY <1>2, <1>3 DEF Given, Fresh
<1>8. \A w \in Workers : Journaled(loop[w]) /\ Within(loop[w])
  BY <1>1, <1>2, <1>3 DEF Journaled, Within
<1>9. Placed
  <2>1. \A w \in Workers, s \in Slots : Idle(loop[w], s) /\ NoHold(bus[w], s)
    BY <1>2, <1>3 DEF NoHold
  <2>2. \A c \in Clients : Served(c)
    BY <1>4 DEF Served, ServedBy
  <2> QED
    BY <1>4, <2>1, <2>2 DEF Placed
<1> QED
  BY <1>6, <1>7, <1>8, <1>9 DEF Inductive

\* Each step keeps it.
LEMMA InvNext == Inductive /\ [Next]_vars => Inductive'
<1> SUFFICES ASSUME Inductive, [Next]_vars PROVE Inductive'
  OBVIOUS
<1>1. TypeOK' /\ Known'
  BY TypeStep, KnownStep
<1>2. Kept' => Placed'
  <2>1. Kept' => Kept
    BY ServerSame DEF Kept
  <2> QED
    BY <2>1, PlacedStep
<1> QED
  BY <1>1, <1>2 DEF Inductive, Known

\* It is one of the specification: the bounds, the ids and the journals always, the
\* law of every held stream if no hold can be left on a channel.
THEOREM Invariance == Spec => []Inductive
BY InvInit, InvNext, PTL DEF Spec

\* The types, and the bounds of channels, outboxes and journals.
THEOREM Types == Spec => []TypeOK
<1>1. Inductive => TypeOK
  BY DEF Inductive
<1> QED
  BY <1>1, Invariance, PTL

\* No stream stands at an id that was not given out, whatever id its client came
\* with (handler.mojo _resume).
THEOREM NobodyAhead == Spec => []NeverAhead
<1>1. Inductive => NeverAhead
  BY DEF Inductive, Within, NeverAhead
<1> QED
  BY <1>1, Invariance, PTL

-----------------------------------------------------------------------------
(* What a held stream is sent. *)

\* A held stream's law, in the terms of the properties.
LEMMA StreamLaw ==
  ASSUME Inductive, Kept, NEW c \in Streams
  PROVE  /\ c \in Clients
         /\ Lawful(Line(c), loop[client[c].worker].last[client[c].slot], Before(c),
                   Follows[c], client[c].asked)
         /\ Told(c) <=> Has(Line(c), Gap)
         /\ \A e : e \in ToSet(Line(c)) <=> Has(Line(c), e)
<1>1. c \in Clients /\ client[c].phase = "held"
  BY DEF Streams
<1>2. Law(loop[client[c].worker], client[c].slot, Follows[c], client[c].asked, client[c].got)
  BY <1>1 DEF Inductive, Placed, Served, ServedBy
<1>3. \A e : e \in ToSet(Line(c)) <=> Has(Line(c), e)
  BY DEF ToSet, Has
<1> QED
  BY <1>1, <1>2, <1>3 DEF Law, Line, Before, Told

\* Frames come to a client in the order of their ids, once, of its channel, and none
\* it has seen but after a gap; whatever order the bus brought them in, and
\* however often it comes back (registry.mojo notify_frame and queue_frame,
\* replay.mojo record and catch_up).
THEOREM FramesInOrder == Spec /\ Kept => []InOrder
<1>1. Inductive /\ Kept => InOrder
  <2> SUFFICES ASSUME Inductive, Kept, NEW c \in Streams
               PROVE  LET line == Line(c)
                          frames == Numbered(line)
                      IN /\ \A i, j \in frames : i < j => line[i].id < line[j].id
                         /\ \A i \in frames : line[i].channel = Follows[c]
                         /\ Told(c) \/ \A i \in frames : line[i].id > client[c].asked
    BY DEF InOrder
  <2> QED
    BY StreamLaw DEF Lawful
<1>2. Kept /\ [Next]_vars => Kept'
  BY ServerSame DEF Kept
<1>3. Spec /\ Kept => []Kept
  BY <1>2, PTL DEF Spec
<1> QED
  BY <1>1, <1>3, Invariance, PTL

\* A client that comes back is sent all that its worker had of its channel past the
\* id it presented, or is told of a gap and sent none of it; on a first visit
\* neither (replay.mojo catch_up, handler.mojo _resume).
THEOREM CaughtUpOrTold == Spec /\ Kept => []AllOrNothing
<1>1. Inductive /\ Kept => AllOrNothing
  <2> SUFFICES ASSUME Inductive, Kept, NEW c \in Streams
               PROVE  LET sent == ToSet(Line(c))
                          owed == {f \in Before(c) : f.id > client[c].asked}
                      IN IF client[c].asked = 0 THEN ~ Told(c) /\ Before(c) \cap sent = {}
                         ELSE IF Told(c) THEN Before(c) \cap sent = {} ELSE owed \subseteq sent
    BY DEF AllOrNothing
  <2>1. /\ Told(c) <=> Has(Line(c), Gap)
        /\ \A e : e \in ToSet(Line(c)) <=> Has(Line(c), e)
        /\ Lawful(Line(c), loop[client[c].worker].last[client[c].slot], Before(c),
                   Follows[c], client[c].asked)
    BY StreamLaw
  <2>2. CASE client[c].asked = 0
    BY <2>1, <2>2 DEF Lawful
  <2>3. CASE client[c].asked # 0 /\ Told(c)
    BY <2>1, <2>3 DEF Lawful
  <2>4. CASE client[c].asked # 0 /\ ~ Told(c)
    BY <2>1, <2>4 DEF Lawful
  <2> QED
    BY <2>2, <2>3, <2>4
<1>2. Kept /\ [Next]_vars => Kept'
  BY ServerSame DEF Kept
<1>3. Spec /\ Kept => []Kept
  BY <1>2, PTL DEF Spec
<1> QED
  BY <1>1, <1>3, Invariance, PTL
=============================================================================
