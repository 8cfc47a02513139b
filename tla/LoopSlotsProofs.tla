-------------------------- MODULE LoopSlotsProofs ---------------------------
(***************************************************************************)
(* Proofs about LoopSlots, for any number of connections and slots, any    *)
(* scripts, read sizes and answers: what an event loop's slots know of     *)
(* their connections, and that no edge, clock, queue or request is lost.   *)
(*                                                                         *)
(* The invariant is one of each slot, its connection, its job and its      *)
(* places in the queues.  A step touches one slot: what it leaves of that  *)
(* slot is shown for each action, and that the others keep theirs once.    *)
(***************************************************************************)
EXTENDS LoopSlots, SequenceTheorems, FiniteSetTheorems, WellFoundedInduction, TLAPS

Tokens  == {"a", "g", "c", "p", "x", "L", "d"}
Kinds   == {"headers", "body", "processing", "responding", "lingering"}
Keys    == {"idle", "head"}
Reading == {"headers", "body", "lingering"}
\* The control points of a handler, and those of an admission.
Acting    == {"read", "frame", "body", "process", "finish", "sent", "drain", "eager"}
Admitting == {"borrow", "idle", "head"}

SlotRecs ==
  [fd : Conns \cup {None}, kind : Kinds, from : Nat, to : Nat, end : Nat, scanned : Nat,
   eof : BOOLEAN, close : BOOLEAN, kept : BOOLEAN, started : BOOLEAN,
   due : {"off", "idle", "send", "linger"}, armed : BOOLEAN, offloaded : BOOLEAN, left : Nat]
ConnRecs ==
  [at : {"new", "backlog", "open", "closed"}, script : Seq(Tokens), sent : Nat, fin : BOOLEAN,
   gone : BOOLEAN, interest : {"read", "write", "none"}, ready : BOOLEAN, room : BOOLEAN,
   timer : BOOLEAN]
Jobs == [conn : Conns \cup {None}, done : BOOLEAN]
EventRecs == [kind : {"read", "write", "timer"}, conn : Conns, eof : BOOLEAN]

\* Every variable has its type.
Typed ==
  /\ slot \in [Slots -> SlotRecs] /\ net \in [Conns -> ConnRecs] /\ job \in [Slots -> Jobs]
  /\ queue \in [Keys -> Seq(Slots)] /\ free \subseteq Slots
  /\ pc \in Acting \cup Admitting \cup {"none"} /\ at \in Slots \cup {None}
  /\ short \in BOOLEAN /\ eager \in BOOLEAN
  /\ batch \subseteq EventRecs /\ joining \in Conns \cup {None}

\* A handler runs in a slot, an admission has its connection, and only
\* the events' part of a pass has events left.
Standing ==
  /\ at = None <=> pc \in Admitting \cup {"none"}
  /\ pc \in Admitting => joining # None /\ net[joining].at = "backlog"
  /\ phase # "events" => batch = {}

\* A connection is in one slot; what was reported of it is so.
Connected ==
  /\ \A s, t \in Slots : slot[s].fd = slot[t].fd /\ slot[s].fd # None => s = t
  /\ \A c \in Conns :
       /\ net[c].sent <= Len(net[c].script)
       /\ net[c].at = "new" => net[c].sent = 0
  /\ \A e \in batch : e.eof => LET n == net[e.conn] IN n.fin \/ n.gone \/ n.at = "closed"

\* A slot is on one queue, once.
OnceIn(q) ==
  \A k, l \in Keys : \A i \in 1 .. Len(q[k]), j \in 1 .. Len(q[l]) :
    q[k][i] = q[l][j] => k = l /\ i = j
Once == OnceIn(queue)

\* What the control point, the pool and the queues know of a slot.
Placed(s) ==
  LET r == slot[s] IN
  /\ r.fd = None => r = Blank
  /\ s \in free <=> r.fd = None
  /\ r.offloaded => r.kind = "processing"
  /\ at = s =>
       /\ pc \in {"read", "frame"} => r.fd # None /\ r.kind = "headers"
       /\ pc = "body" => r.kind = "body"
       /\ pc \in {"process", "finish"} => r.kind = "processing" /\ ~r.offloaded
       /\ pc = "sent" => r.kind = "responding"
  /\ IF r.offloaded THEN job[s].conn = r.fd ELSE job[s] = NoJob
  /\ \A k \in Keys : Contains(queue[k], s) => r.fd # None

\* How a slot's positions stand to each other and to what its client sent.
Fits(s) ==
  LET r == slot[s] n == net[r.fd] IN
  r.fd # None =>
    /\ n.at = "open"
    /\ r.from <= r.scanned /\ r.scanned <= r.to /\ r.to <= n.sent
    /\ r.kind = "body" => r.end = r.to + 1
    /\ r.kind \in {"processing", "responding"} => r.end <= r.to
    /\ r.eof => n.fin \/ n.gone
    /\ r.kind = "lingering" => ~r.eof

\* Why an answer is to be the last.
Ends(s) ==
  LET r == slot[s] n == net[r.fd] IN
  r.fd # None =>
    /\ r.offloaded \/ (at = s /\ pc = "finish") => (r.close => Asks(s))
    /\ r.kind = "responding" /\ r.close => Asks(s) \/ n.gone \/ (n.fin /\ r.end = n.sent)

\* What was scanned holds no end of a head, and a slot at rest scanned all.
Scans(s) ==
  LET r == slot[s] n == net[r.fd] IN
  r.fd # None /\ r.kind = "headers" =>
    /\ \A i \in r.from + 1 .. r.scanned : n.script[i] = "a"
    /\ at # s => r.scanned = r.to

\* A read event of the connection is on its way; one that says it ended is.
Told(c) ==
  (net[c].interest = "read" /\ net[c].ready) \/ \E e \in batch : e.kind = "read" /\ e.conn = c
ToldEnd(c) ==
  \/ net[c].interest = "read" /\ net[c].ready
  \/ \E e \in batch : e.kind = "read" /\ e.conn = c /\ e.eof

\* An armed slot hears of what it has not read, and of an end it does not know.
Hears(s) ==
  LET r == slot[s] n == net[r.fd] IN
  r.fd # None =>
    /\ r.armed =>
         /\ n.interest = "read"
         /\ n.sent > r.to => Told(r.fd) \/ (at = s /\ pc \in {"read", "body"})
         /\ n.fin \/ n.gone => ToldEnd(r.fd) \/ r.eof
    /\ r.kind \in Reading /\ at # s => r.armed /\ (n.fin \/ n.gone => ToldEnd(r.fd))
    /\ r.kind = "lingering" \/ (at = s /\ pc = "body") => r.armed

\* Which clock runs.
Clocks(s) ==
  LET r == slot[s] n == net[r.fd] IN
  r.fd # None =>
    /\ r.kind = "headers" => r.started \/ r.due = "idle"
    /\ r.kind = "body" => n.timer
    /\ r.kind = "lingering" => r.due # "off"
    /\ r.kind = "responding" /\ ~(at = s /\ pc = "sent") => r.due # "off"
    /\ r.due = "idle" => r.kind = "headers" /\ r.scanned = r.from

\* Which queue it waits in.
Waits(s) ==
  LET r == slot[s] IN
  r.fd # None /\ r.kind = "headers" =>
    IF r.started THEN Contains(queue["head"], s) ELSE Contains(queue["idle"], s) /\ r.kept

Sound(s) ==
  Placed(s) /\ Fits(s) /\ Ends(s) /\ Scans(s) /\ Hears(s) /\ Clocks(s) /\ Waits(s)

\* The counters count.
Out == {s \in Slots : slot[s].offloaded}
Counted == active = Cardinality(Held) /\ inflight = Cardinality(Out)

Inductive ==
  /\ Typed /\ Standing /\ Connected /\ Once /\ Counted
  /\ \A s \in Slots : Sound(s)

-----------------------------------------------------------------------------
(* Helpers. *)

\* What RemoveAt leaves: the elements before the position, and those behind it.
LEMMA RemoveAtElements ==
  ASSUME NEW S, NEW q \in Seq(S), NEW i \in 1 .. Len(q)
  PROVE  /\ RemoveAt(q, i) \in Seq(S) /\ Len(RemoveAt(q, i)) = Len(q) - 1
         /\ \A j \in 1 .. Len(q) - 1 :
              RemoveAt(q, i)[j] = IF j < i THEN q[j] ELSE q[j + 1]
<1> DEFINE front == SubSeq(q, 1, i - 1) back == SubSeq(q, i + 1, Len(q))
<1>1. Len(q) \in Nat
  BY LenProperties
<1>2. /\ front \in Seq(S) /\ Len(front) = i - 1
      /\ \A j \in 1 .. i - 1 : front[j] = q[j]
  <2>1. CASE i = 1
    <3>1. front = <<>>
      BY <1>1, <2>1, SubSeqEmpty
    <3> QED
      BY <2>1, <3>1, EmptySeq
  <2>2. CASE i > 1
    BY <1>1, <2>2, SubSeqProperties
  <2> QED
    BY <1>1, <2>1, <2>2
<1>3. /\ back \in Seq(S) /\ Len(back) = Len(q) - i
      /\ \A j \in 1 .. Len(q) - i : back[j] = q[j + i]
  <2>1. CASE i = Len(q)
    <3>1. back = <<>>
      BY <1>1, <2>1, SubSeqEmpty
    <3> QED
      BY <1>1, <2>1, <3>1, EmptySeq
  <2>2. CASE i < Len(q)
    BY <1>1, <2>2, SubSeqProperties
  <2> QED
    BY <1>1, <2>1, <2>2
<1> HIDE DEF front, back
<1>4. /\ front \o back \in Seq(S) /\ Len(front \o back) = Len(front) + Len(back)
      /\ \A j \in 1 .. Len(front) + Len(back) :
           (front \o back)[j] = IF j <= Len(front) THEN front[j] ELSE back[j - Len(front)]
  BY <1>2, <1>3, ConcatProperties
<1>5. RemoveAt(q, i) = front \o back
  BY DEF RemoveAt, front, back
<1>6. Len(RemoveAt(q, i)) = Len(q) - 1 /\ RemoveAt(q, i) \in Seq(S)
  <2>1. Len(front) + Len(back) = Len(q) - 1
    BY <1>1, <1>2, <1>3
  <2> QED
    BY <1>4, <1>5, <2>1
<1>7. ASSUME NEW j \in 1 .. Len(q) - 1
      PROVE  RemoveAt(q, i)[j] = IF j < i THEN q[j] ELSE q[j + 1]
  <2>1. (front \o back)[j] = IF j <= i - 1 THEN front[j] ELSE back[j - (i - 1)]
    BY <1>1, <1>2, <1>3, <1>4
  <2>2. CASE j < i
    BY <1>1, <1>2, <1>5, <2>1, <2>2
  <2>3. CASE ~(j < i)
    <3>1. j - (i - 1) \in 1 .. Len(q) - i /\ (j - (i - 1)) + i = j + 1 /\ ~(j <= i - 1)
      BY <1>1, <2>3
    <3>2. back[j - (i - 1)] = q[(j - (i - 1)) + i]
      BY <1>3, <3>1
    <3> QED
      BY <1>5, <2>1, <2>3, <3>1, <3>2
  <2> QED
    BY <2>2, <2>3
<1> QED
  BY <1>6, <1>7

\* remove takes the slot from where it is, and leaves the others as they were.
LEMMA UnqueuedFacts ==
  ASSUME Typed, Once, NEW s \in Slots
  PROVE  /\ Unqueued(s) \in [Keys -> Seq(Slots)] /\ OnceIn(Unqueued(s))
         /\ \A k \in Keys : ~Contains(Unqueued(s)[k], s)
         /\ \A k \in Keys : \A t \in Slots \ {s} :
              Contains(Unqueued(s)[k], t) <=> Contains(queue[k], t)
<1> DEFINE P(k) == CHOOSE i \in DOMAIN queue[k] : queue[k][i] = s
           U    == Unqueued(s)
<1>1. /\ queue \in [Keys -> Seq(Slots)] /\ DOMAIN queue = Keys
      /\ \A k \in Keys : queue[k] \in Seq(Slots) /\ Len(queue[k]) \in Nat
                         /\ DOMAIN queue[k] = 1 .. Len(queue[k])
  BY LenProperties DEF Typed
<1>2. U = [k \in Keys |-> IF Contains(queue[k], s) THEN RemoveAt(queue[k], P(k)) ELSE queue[k]]
  BY <1>1 DEF Unqueued
<1>3. ASSUME NEW k \in Keys, Contains(queue[k], s)
      PROVE  /\ P(k) \in 1 .. Len(queue[k]) /\ queue[k][P(k)] = s
             /\ U[k] \in Seq(Slots) /\ Len(U[k]) = Len(queue[k]) - 1
             /\ \A j \in 1 .. Len(queue[k]) - 1 :
                  U[k][j] = IF j < P(k) THEN queue[k][j] ELSE queue[k][j + 1]
  <2>1. \E i \in DOMAIN queue[k] : queue[k][i] = s
    BY <1>1, <1>3 DEF Contains
  <2>2. P(k) \in 1 .. Len(queue[k]) /\ queue[k][P(k)] = s
    BY <1>1, <2>1
  <2>3. U[k] = RemoveAt(queue[k], P(k))
    BY <1>2, <1>3
  <2> HIDE DEF P, U
  <2>4. queue[k] \in Seq(Slots)
    BY <1>1
  <2>5. /\ RemoveAt(queue[k], P(k)) \in Seq(Slots)
        /\ Len(RemoveAt(queue[k], P(k))) = Len(queue[k]) - 1
        /\ \A j \in 1 .. Len(queue[k]) - 1 :
             RemoveAt(queue[k], P(k))[j] = IF j < P(k) THEN queue[k][j] ELSE queue[k][j + 1]
    BY <2>2, <2>4, RemoveAtElements
  <2> QED
    BY <2>2, <2>3, <2>5
<1>4. \A k \in Keys : ~Contains(queue[k], s) => U[k] = queue[k]
  BY <1>2
<1> HIDE DEF P, U
\* Where each element of what is left was.
<1>5. ASSUME NEW k \in Keys, NEW j \in 1 .. Len(U[k])
      PROVE  /\ \E i \in 1 .. Len(queue[k]) :
                  /\ U[k][j] = queue[k][i] /\ queue[k][i] # s
                  /\ i = IF Contains(queue[k], s) /\ j >= P(k) THEN j + 1 ELSE j
  <2>1. CASE Contains(queue[k], s)
    <3>1. PICK i \in 1 .. Len(queue[k]) :
            i = (IF j < P(k) THEN j ELSE j + 1) /\ U[k][j] = queue[k][i]
      BY <1>1, <1>3, <2>1
    <3>2. i # P(k)
      BY <1>1, <1>3, <2>1, <3>1
    <3>3. queue[k][i] # s
      BY <1>3, <2>1, <3>2 DEF Once, OnceIn
    <3> QED
      BY <1>1, <1>3, <2>1, <3>1, <3>3
  <2>2. CASE ~Contains(queue[k], s)
    BY <1>1, <1>4, <2>2 DEF Contains
  <2> QED
    BY <2>1, <2>2
<1>6. U \in [Keys -> Seq(Slots)]
  <2>1. \A k \in Keys : U[k] \in Seq(Slots)
    BY <1>1, <1>3, <1>4
  <2>2. DOMAIN U = Keys /\ U = [k \in Keys |-> U[k]]
    BY <1>2
  <2> QED
    BY <2>1, <2>2
<1>7. \A k \in Keys : Len(U[k]) \in Nat
  BY <1>6, LenProperties
<1>8. OnceIn(U)
  <2> SUFFICES ASSUME NEW k \in Keys, NEW l \in Keys, NEW i \in 1 .. Len(U[k]),
                      NEW j \in 1 .. Len(U[l]), U[k][i] = U[l][j]
               PROVE  k = l /\ i = j
    BY DEF OnceIn
  <2>1. PICK a \in 1 .. Len(queue[k]) :
          /\ U[k][i] = queue[k][a]
          /\ a = IF Contains(queue[k], s) /\ i >= P(k) THEN i + 1 ELSE i
    BY <1>5
  <2>2. PICK b \in 1 .. Len(queue[l]) :
          /\ U[l][j] = queue[l][b]
          /\ b = IF Contains(queue[l], s) /\ j >= P(l) THEN j + 1 ELSE j
    BY <1>5
  <2>3. k = l /\ a = b
    <3>1. queue[k][a] = queue[l][b]
      BY <2>1, <2>2
    <3> QED
      BY <3>1 DEF Once, OnceIn
  <2>4. i \in Nat /\ j \in Nat /\ (Contains(queue[k], s) => P(k) \in Nat)
    BY <1>1, <1>3, <1>7
  <2> QED
    BY <2>1, <2>2, <2>3, <2>4
<1>9. \A k \in Keys : ~Contains(U[k], s)
  BY <1>5 DEF Contains
<1>10. ASSUME NEW k \in Keys, NEW t \in Slots \ {s}
       PROVE  Contains(U[k], t) <=> Contains(queue[k], t)
  <2>1. Contains(U[k], t) => Contains(queue[k], t)
    BY <1>5 DEF Contains
  <2>2. ASSUME NEW i \in 1 .. Len(queue[k]), queue[k][i] = t PROVE Contains(U[k], t)
    <3>1. CASE Contains(queue[k], s)
      <4>1. i # P(k) /\ P(k) \in 1 .. Len(queue[k])
        BY <1>3, <2>2, <3>1
      <4>2. CASE i < P(k)
        <5>1. i \in 1 .. Len(queue[k]) - 1
          BY <1>1, <4>1, <4>2
        <5>2. U[k][i] = t /\ i \in 1 .. Len(U[k])
          BY <1>3, <2>2, <3>1, <4>2, <5>1
        <5> QED
          BY <5>2 DEF Contains
      <4>3. CASE i > P(k)
        <5>1. i - 1 \in 1 .. Len(queue[k]) - 1 /\ ~(i - 1 < P(k)) /\ (i - 1) + 1 = i
          BY <1>1, <4>1, <4>3
        <5>2. U[k][i - 1] = queue[k][(i - 1) + 1] /\ i - 1 \in 1 .. Len(U[k])
          BY <1>3, <3>1, <5>1
        <5> QED
          BY <2>2, <5>1, <5>2 DEF Contains
      <4> QED
        BY <1>1, <4>1, <4>2, <4>3
    <3>2. CASE ~Contains(queue[k], s)
      BY <1>4, <2>2, <3>2 DEF Contains
    <3> QED
      BY <3>1, <3>2
  <2> QED
    BY <2>1, <2>2 DEF Contains
<1> QED
  BY <1>6, <1>8, <1>9, <1>10 DEF U

\* push_back leaves it at the back of that one.
LEMMA PushBackFacts ==
  ASSUME Typed, Once, NEW s \in Slots, NEW key \in Keys
  PROVE  /\ PushBack(key, s) \in [Keys -> Seq(Slots)] /\ OnceIn(PushBack(key, s))
         /\ Contains(PushBack(key, s)[key], s)
         /\ \A k \in Keys : \A t \in Slots \ {s} :
              Contains(PushBack(key, s)[k], t) <=> Contains(queue[k], t)
<1> DEFINE U == Unqueued(s) q == PushBack(key, s)
<1>1. /\ U \in [Keys -> Seq(Slots)] /\ OnceIn(U)
      /\ \A k \in Keys : ~Contains(U[k], s)
      /\ \A k \in Keys : \A t \in Slots \ {s} : Contains(U[k], t) <=> Contains(queue[k], t)
  BY UnqueuedFacts
<1>2. q = [U EXCEPT ![key] = Append(@, s)]
  BY DEF PushBack
<1> HIDE DEF U, q
<1>3. \A k \in Keys : Len(U[k]) \in Nat /\ U[k] \in Seq(Slots)
  BY <1>1, LenProperties
<1>4. /\ q[key] \in Seq(Slots) /\ Len(q[key]) = Len(U[key]) + 1 /\ q[key][Len(U[key]) + 1] = s
      /\ \A i \in 1 .. Len(U[key]) : q[key][i] = U[key][i]
  BY <1>1, <1>2, <1>3, AppendProperties
<1>5. \A k \in Keys \ {key} : q[k] = U[k]
  BY <1>1, <1>2
<1>6. q \in [Keys -> Seq(Slots)]
  <2>1. Append(U[key], s) \in Seq(Slots)
    BY <1>3, AppendProperties
  <2> QED
    BY <1>1, <1>2, <2>1
<1>7. OnceIn(q)
  <2> SUFFICES ASSUME NEW k \in Keys, NEW l \in Keys, NEW i \in 1 .. Len(q[k]),
                      NEW j \in 1 .. Len(q[l]), q[k][i] = q[l][j]
               PROVE  k = l /\ i = j
    BY DEF OnceIn
  <2>1. (i \in 1 .. Len(U[k]) /\ q[k][i] = U[k][i]) \/ (k = key /\ i = Len(U[key]) + 1)
    BY <1>3, <1>4, <1>5
  <2>2. (j \in 1 .. Len(U[l]) /\ q[l][j] = U[l][j]) \/ (l = key /\ j = Len(U[key]) + 1)
    BY <1>3, <1>4, <1>5
  <2>3. \A m \in Keys : \A a \in 1 .. Len(U[m]) : U[m][a] # s
    BY <1>1 DEF Contains
  <2> QED
    BY <1>1, <1>4, <2>1, <2>2, <2>3 DEF OnceIn
<1>8. Contains(q[key], s)
  BY <1>3, <1>4 DEF Contains
<1>9. ASSUME NEW k \in Keys, NEW t \in Slots \ {s}
      PROVE  Contains(q[k], t) <=> Contains(U[k], t)
  <2>1. CASE k = key
    <3>1. \A i \in 1 .. Len(U[key]) + 1 : i \in 1 .. Len(U[key]) \/ q[key][i] = s
      BY <1>3, <1>4
    <3>2. \A i \in 1 .. Len(U[key]) : i \in 1 .. Len(q[key])
      BY <1>3, <1>4
    <3> QED
      BY <1>4, <2>1, <3>1, <3>2 DEF Contains
  <2>2. CASE k # key
    BY <1>5, <2>2
  <2> QED
    BY <2>1, <2>2
<1> QED
  BY <1>1, <1>6, <1>7, <1>8, <1>9 DEF q

\* A set of numbers has its least.
LEMMA Least ==
  ASSUME NEW T, T \subseteq Nat, T # {}
  PROVE  \E i \in T : \A j \in T : i <= j
<1>1. PICK i \in T : \A j \in T : ~(<<j, i>> \in OpToRel(<, Nat))
  BY NatLessThanWellFounded, WFMin
<1>2. \A j \in T : ~(j < i)
  BY <1>1 DEF OpToRel
<1>3. \A j \in T : i \in Nat /\ j \in Nat
  OBVIOUS
<1>4. \A j \in T : i <= j
  BY <1>2, <1>3
<1> QED
  BY <1>4

\* Of what is buffered: a token of "none" is no end of a head in it, and the other way.
LEMMA HeadEndFacts ==
  ASSUME Typed, Connected, NEW s \in Slots, Fits(s), slot[s].fd # None
  PROVE  /\ HeadEnd(s) \in Nat
         /\ Token(s) = "none" <=>
              \A i \in slot[s].from + 1 .. slot[s].to : net[slot[s].fd].script[i] = "a"
<1> DEFINE script == net[slot[s].fd].script
           ends   == {i \in slot[s].from + 1 .. slot[s].to : script[i] # "a"}
<1>1. /\ slot[s] \in SlotRecs /\ net[slot[s].fd] \in ConnRecs
      /\ slot[s].from \in Nat /\ slot[s].to \in Nat /\ script \in Seq(Tokens)
      /\ net[slot[s].fd].sent \in Nat /\ net[slot[s].fd].sent <= Len(script)
      /\ slot[s].to <= net[slot[s].fd].sent
  BY DEF Typed, SlotRecs, ConnRecs, Connected, Fits
<1>2. Len(script) \in Nat
  BY <1>1, LenProperties
<1>3. ends \subseteq 1 .. Len(script)
  BY <1>1, <1>2
<1>4. HeadEnd(s) = IF ends = {} THEN 0 ELSE CHOOSE i \in ends : \A j \in ends : i <= j
  BY DEF HeadEnd
<1>5. Token(s) = IF HeadEnd(s) = 0 THEN "none" ELSE script[HeadEnd(s)]
  BY DEF Token
<1>6. CASE ends = {}
  BY <1>4, <1>5, <1>6
<1>7. CASE ends # {}
  <2>1. \E i \in ends : \A j \in ends : i <= j
    <3>1. ends \subseteq Nat
      BY <1>1
    <3> HIDE DEF ends
    <3> QED
      BY <1>7, <3>1, Least
  <2>2. HeadEnd(s) \in ends
    BY <1>4, <1>7, <2>1
  <2> HIDE DEF ends
  <2>3. HeadEnd(s) \in 1 .. Len(script)
    BY <1>3, <2>2
  <2>4. script[HeadEnd(s)] \in Tokens
    BY <1>1, <2>3, ElementOfSeq
  <2>5. Token(s) \in Tokens
    BY <1>5, <2>3, <2>4
  <2>6. Token(s) # "none"
    BY <2>5 DEF Tokens
  <2> QED
    BY <2>2, <2>3, <2>6 DEF ends
<1> QED
  BY <1>6, <1>7

\* What got of the socket is a number, and all of it when it is short.
LEMMA GotFacts ==
  ASSUME LoopAssumption, Typed, NEW s \in Slots, Fits(s), slot[s].fd # None
  PROVE  /\ Got(s) \in Nat /\ slot[s].to + Got(s) <= net[slot[s].fd].sent
         /\ Got(s) < ReadSize => slot[s].to + Got(s) = net[slot[s].fd].sent
<1>1. /\ slot[s].to \in Nat /\ net[slot[s].fd].sent \in Nat
      /\ slot[s].to <= net[slot[s].fd].sent /\ ReadSize \in Nat \ {0}
  BY DEF LoopAssumption, Typed, SlotRecs, ConnRecs, Fits
<1> QED
  BY <1>1 DEF Got

\* A slot that a step leaves alone, with its connection, its events, its job and its
\* places in the queues, is as sound as it was.
LEMMA SoundKept ==
  ASSUME Typed, NEW t \in Slots, Sound(t), slot'[t] = slot[t], job'[t] = job[t],
         t \in free' <=> t \in free, at # t, at' # t,
         \A k \in Keys : Contains(queue'[k], t) <=> Contains(queue[k], t),
         slot[t].fd # None =>
           /\ net'[slot[t].fd] = net[slot[t].fd]
           /\ \A e \in EventRecs : e.conn = slot[t].fd => (e \in batch' <=> e \in batch),
         batch' \subseteq EventRecs
  PROVE  Sound(t)'
<1>1. Placed(t)'
  BY DEF Sound, Placed, Blank, NoJob
<1>2. Fits(t)'
  BY DEF Sound, Fits
<1>3. Ends(t)'
  <2>1. slot[t].fd # None => Asks(t)' = Asks(t)
    BY DEF Asks
  <2> QED
    BY <2>1 DEF Sound, Ends, Placed
<1>4. Scans(t)'
  BY DEF Sound, Scans
<1>5. Hears(t)'
  <2>1. ASSUME slot[t].fd # None
        PROVE  Told(slot[t].fd)' = Told(slot[t].fd) /\ ToldEnd(slot[t].fd)' = ToldEnd(slot[t].fd)
    BY <2>1 DEF Told, ToldEnd, Typed
  <2> QED
    BY <2>1 DEF Sound, Hears
<1>6. Clocks(t)'
  BY DEF Sound, Clocks
<1>7. Waits(t)'
  BY DEF Sound, Waits, Keys
<1> QED
  BY <1>1, <1>2, <1>3, <1>4, <1>5, <1>6, <1>7 DEF Sound

-----------------------------------------------------------------------------
(* Steps by what they change.                                              *)

\* The slot's record and its connection's become r and n, which may differ in what
\* the loop has of them and the kernel's interest, and not in what the client did.
Becomes(s, r, n) ==
  /\ r \in SlotRecs /\ r.fd = slot[s].fd /\ n \in ConnRecs
  /\ LET m == net[slot[s].fd]
     IN  n.at = m.at /\ n.script = m.script /\ n.sent = m.sent /\ n.fin = m.fin /\ n.gone = m.gone
  /\ slot' = [slot EXCEPT ![s] = r] /\ net' = [net EXCEPT ![slot[s].fd] = n]
  /\ UNCHANGED <<free, active>>
  /\ queue' \in {queue, PushBack("idle", s), PushBack("head", s)}

\* A handler of the slot runs, begins or ends, with an event of its connection or none.
Runs(s) ==
  /\ at \in {s, None} /\ at' \in {s, None}
  /\ pc' \in Acting \cup {"none"} /\ (at' = None <=> pc' = "none")
  /\ short' \in BOOLEAN /\ eager' \in BOOLEAN /\ UNCHANGED <<phase, joining>>
  /\ batch' \subseteq batch /\ \A e \in batch : e.conn # slot[s].fd => e \in batch'

\* Its job stays, begins or ends.
Pools(s) ==
  /\ job' \in [Slots -> Jobs] /\ \A t \in Slots \ {s} : job'[t] = job[t]
  /\ \/ inflight' = inflight /\ slot'[s].offloaded = slot[s].offloaded
     \/ inflight' = inflight + 1 /\ ~slot[s].offloaded /\ slot'[s].offloaded
     \/ inflight' = inflight - 1 /\ slot[s].offloaded /\ ~slot'[s].offloaded

\* The slots are finitely many, and so are those held and those out with the pool.
LEMMA SlotsFinite ==
  ASSUME LoopAssumption
  PROVE  /\ IsFiniteSet(Held) /\ IsFiniteSet(Out)
         /\ Cardinality(Held) \in Nat /\ Cardinality(Out) \in Nat
<1>1. IsFiniteSet(Slots) /\ Held \subseteq Slots /\ Out \subseteq Slots
  BY DEF LoopAssumption, Held, Out
<1> QED
  BY <1>1, FS_Subset, FS_CardinalityType

\* What a step of one slot must show of it for the whole to stay sound.
LEMMA SlotStep ==
  ASSUME LoopAssumption, Inductive, NEW s \in Slots, slot[s].fd # None, NEW r, NEW n,
         Becomes(s, r, n), Runs(s), Pools(s), Sound(s)'
  PROVE  Inductive'
<1> DEFINE c == slot[s].fd
<1>1. /\ Typed /\ Standing /\ Connected /\ Once /\ Counted
      /\ \A t \in Slots : Sound(t) /\ Fits(t) /\ Placed(t)
  BY DEF Inductive, Sound
<1>2. /\ slot \in [Slots -> SlotRecs] /\ net \in [Conns -> ConnRecs] /\ c \in Conns
      /\ slot[s] \in SlotRecs /\ net[c] \in ConnRecs /\ net[c].at = "open"
  BY <1>1 DEF Typed, SlotRecs, Fits
<1>3. /\ slot' \in [Slots -> SlotRecs] /\ net' \in [Conns -> ConnRecs]
      /\ slot'[s] = r /\ \A t \in Slots \ {s} : slot'[t] = slot[t]
      /\ net'[c] = n /\ \A d \in Conns \ {c} : net'[d] = net[d]
      /\ \A t \in Slots : slot'[t].fd = slot[t].fd
  BY <1>2 DEF Becomes
<1>4. /\ n.at = net[c].at /\ n.script = net[c].script /\ n.sent = net[c].sent
      /\ n.fin = net[c].fin /\ n.gone = net[c].gone
  BY <1>2 DEF Becomes, ConnRecs
<1>5. /\ queue' \in [Keys -> Seq(Slots)] /\ OnceIn(queue')
      /\ \A k \in Keys : \A t \in Slots \ {s} :
           Contains(queue'[k], t) <=> Contains(queue[k], t)
  BY <1>1, PushBackFacts DEF Becomes, Typed, Once, Keys
<1>6. Typed'
  BY <1>1, <1>3, <1>5 DEF Typed, Becomes, Runs, Pools
<1>7. Standing'
  <2>1. at' = None <=> pc' \in Admitting \cup {"none"}
    BY DEF Runs, Acting, Admitting
  <2>2. pc' \notin Admitting
    BY DEF Runs, Acting, Admitting
  <2>3. phase' # "events" => batch' = {}
    BY <1>1 DEF Runs, Standing
  <2> QED
    BY <2>1, <2>2, <2>3 DEF Standing
<1>8. Connected'
  <2>1. \A t, u \in Slots : slot'[t].fd = slot'[u].fd /\ slot'[t].fd # None => t = u
    BY <1>1, <1>3 DEF Connected
  <2>2. \A d \in Conns : /\ net'[d].sent = net[d].sent /\ net'[d].script = net[d].script
                         /\ net'[d].at = net[d].at /\ net'[d].fin = net[d].fin
                         /\ net'[d].gone = net[d].gone
    BY <1>2, <1>3, <1>4
  <2>3. \A e \in batch' : e \in batch /\ e.conn \in Conns
    BY <1>1 DEF Runs, Typed, EventRecs
  <2> QED
    BY <1>1, <2>1, <2>2, <2>3 DEF Connected
<1>9. Once'
  BY <1>5 DEF Once, OnceIn
<1>10. Counted'
  <2>1. Held' = Held
    BY <1>3 DEF Held
  <2>2. active' = Cardinality(Held')
    BY <1>1, <2>1 DEF Counted, Becomes
  <2>3. inflight' = Cardinality(Out')
    <3>1. /\ Out' = IF slot'[s].offloaded THEN Out \cup {s} ELSE Out \ {s}
          /\ s \in Out <=> slot[s].offloaded
      BY <1>3 DEF Out
    <3>2. CASE inflight' = inflight /\ slot'[s].offloaded = slot[s].offloaded
      <4>1. Out' = Out
        BY <3>1, <3>2
      <4> QED
        BY <1>1, <3>2, <4>1 DEF Counted
    <3>3. CASE inflight' = inflight + 1 /\ ~slot[s].offloaded /\ slot'[s].offloaded
      BY <1>1, <3>1, <3>3, SlotsFinite, FS_AddElement DEF Counted
    <3>4. CASE inflight' = inflight - 1 /\ slot[s].offloaded /\ ~slot'[s].offloaded
      BY <1>1, <3>1, <3>4, SlotsFinite, FS_RemoveElement DEF Counted
    <3> QED
      BY <3>2, <3>3, <3>4 DEF Pools
  <2> QED
    BY <2>2, <2>3 DEF Counted
<1>11. ASSUME NEW t \in Slots \ {s} PROVE Sound(t)'
  <2>1. slot'[t] = slot[t] /\ job'[t] = job[t] /\ (t \in free' <=> t \in free)
    BY <1>3 DEF Pools, Becomes
  <2>2. at # t /\ at' # t
    BY DEF Runs, LoopAssumption
  <2>3. \A k \in Keys : Contains(queue'[k], t) <=> Contains(queue[k], t)
    BY <1>5
  <2>4. slot[t].fd # None => slot[t].fd # c /\ slot[t].fd \in Conns
    BY <1>1, <1>2 DEF Connected, SlotRecs
  <2>5. slot[t].fd # None =>
          /\ net'[slot[t].fd] = net[slot[t].fd]
          /\ \A e \in EventRecs : e.conn = slot[t].fd => (e \in batch' <=> e \in batch)
    BY <1>3, <2>4 DEF Runs
  <2>6. batch' \subseteq EventRecs
    BY <1>1 DEF Runs, Typed
  <2> QED
    BY <1>1, <2>1, <2>2, <2>3, <2>5, <2>6, SoundKept
<1> QED
  BY <1>6, <1>7, <1>8, <1>9, <1>10, <1>11 DEF Inductive

\* A handler of the slot ends its part, or another part of the pass closes it.
Leaves(s) ==
  /\ at \in {s, None} /\ at' \in {s, None} /\ pc' \in {"drain", "eager", "none", "borrow"}
  /\ at' = None <=> pc' \in {"none", "borrow"}
  /\ pc' = "borrow" => pc \in Admitting
  /\ short' \in BOOLEAN /\ eager' \in BOOLEAN /\ UNCHANGED <<phase, joining>>
  /\ batch' \subseteq batch /\ \A e \in batch : e.conn # slot[s].fd => e \in batch'

\* A slot that is not out with the pool can be closed at any time.
LEMMA CloseStep ==
  ASSUME LoopAssumption, Inductive, NEW s \in Slots, slot[s].fd # None, ~slot[s].offloaded,
         CloseSlot(s), UNCHANGED pool, Leaves(s)
  PROVE  Inductive'
<1> DEFINE c == slot[s].fd
<1>1. /\ Typed /\ Standing /\ Connected /\ Once /\ Counted
      /\ \A t \in Slots : Sound(t) /\ Fits(t) /\ Placed(t)
  BY DEF Inductive, Sound
<1>2. /\ slot \in [Slots -> SlotRecs] /\ net \in [Conns -> ConnRecs] /\ c \in Conns
      /\ slot[s] \in SlotRecs /\ net[c] \in ConnRecs /\ net[c].at = "open"
  BY <1>1 DEF Typed, SlotRecs, Fits
<1>3. Blank \in SlotRecs /\ [Blank EXCEPT !.offloaded = slot[s].offloaded] = Blank
  <2>1. slot[s].offloaded = FALSE
    BY <1>2 DEF SlotRecs
  <2>2. Blank \in SlotRecs
    BY DEF Blank, SlotRecs, Kinds
  <2>3. [Blank EXCEPT !.offloaded = FALSE] = Blank
    <3>1. Blank.offloaded = FALSE
      BY DEF Blank
    <3>2. \A r \in SlotRecs : r.offloaded = FALSE => [r EXCEPT !.offloaded = FALSE] = r
      BY DEF SlotRecs
    <3> QED
      BY <2>2, <3>1, <3>2
  <2> QED
    BY <2>1, <2>2, <2>3
<1>4. NoConn("closed") \in ConnRecs
  <2>1. <<>> \in Seq(Tokens)
    OBVIOUS
  <2> QED
    BY <2>1 DEF NoConn, ConnRecs
<1>5. /\ slot' \in [Slots -> SlotRecs] /\ net' \in [Conns -> ConnRecs]
      /\ slot'[s] = Blank /\ \A t \in Slots \ {s} : slot'[t] = slot[t]
      /\ net'[c] = NoConn("closed") /\ \A d \in Conns \ {c} : net'[d] = net[d]
  BY <1>2, <1>3, <1>4 DEF CloseSlot
<1>6. /\ queue' \in [Keys -> Seq(Slots)] /\ OnceIn(queue')
      /\ \A k \in Keys : ~Contains(queue'[k], s)
      /\ \A k \in Keys : \A t \in Slots \ {s} :
           Contains(queue'[k], t) <=> Contains(queue[k], t)
  BY <1>1, UnqueuedFacts DEF CloseSlot
<1>7. free' = free \cup {s} /\ active' = active - 1 /\ job' = job /\ inflight' = inflight
  BY DEF CloseSlot, pool
<1>8. Typed'
  BY <1>1, <1>5, <1>6, <1>7 DEF Typed, Leaves, Acting, Admitting
<1>9. Standing'
  <2>1. at' = None <=> pc' \in Admitting \cup {"none"}
    BY DEF Leaves, Admitting
  <2>2. ASSUME pc' \in Admitting PROVE joining' # None /\ net'[joining'].at = "backlog"
    <3>1. joining' = joining /\ joining # None /\ net[joining].at = "backlog"
      BY <1>1, <2>2 DEF Leaves, Admitting, Standing
    <3>2. joining \in Conns \ {c}
      BY <1>1, <1>2, <3>1 DEF Typed
    <3> QED
      BY <1>5, <3>1, <3>2
  <2>3. phase' # "events" => batch' = {}
    BY <1>1 DEF Leaves, Standing
  <2> QED
    BY <2>1, <2>2, <2>3 DEF Standing
<1>10. Connected'
  <2>1. slot'[s].fd = None
    BY <1>5 DEF Blank
  <2>2. \A t, u \in Slots : slot'[t].fd = slot'[u].fd /\ slot'[t].fd # None => t = u
    BY <1>1, <1>5, <2>1 DEF Connected
  <2>3. net'[c].sent <= Len(net'[c].script) /\ net'[c].at = "closed"
    BY <1>5 DEF NoConn
  <2>4. \A d \in Conns : /\ net'[d].sent <= Len(net'[d].script)
                         /\ net'[d].at = "new" => net'[d].sent = 0
    BY <1>1, <1>5, <2>3 DEF Connected
  <2>5. \A e \in batch' : e \in batch /\ e.conn \in Conns
    BY <1>1 DEF Leaves, Typed, EventRecs
  <2> QED
    BY <1>1, <1>5, <2>2, <2>3, <2>4, <2>5 DEF Connected
<1>11. Once'
  BY <1>6 DEF Once, OnceIn
<1>12. Counted'
  <2>1. Held' = Held \ {s} /\ s \in Held
    BY <1>5 DEF Held, Blank
  <2>2. active' = Cardinality(Held')
    BY <1>1, <1>7, <2>1, SlotsFinite, FS_RemoveElement DEF Counted
  <2>3. Out' = Out
    BY <1>5 DEF Out, Blank
  <2> QED
    BY <1>1, <1>7, <2>2, <2>3 DEF Counted
<1>13. ASSUME NEW t \in Slots \ {s} PROVE Sound(t)'
  <2>1. slot'[t] = slot[t] /\ job'[t] = job[t] /\ (t \in free' <=> t \in free)
    BY <1>5, <1>7
  <2>2. at # t /\ at' # t
    BY DEF Leaves, LoopAssumption
  <2>3. \A k \in Keys : Contains(queue'[k], t) <=> Contains(queue[k], t)
    BY <1>6
  <2>4. slot[t].fd # None => slot[t].fd # c /\ slot[t].fd \in Conns
    BY <1>1, <1>2 DEF Connected, SlotRecs
  <2>5. slot[t].fd # None =>
          /\ net'[slot[t].fd] = net[slot[t].fd]
          /\ \A e \in EventRecs : e.conn = slot[t].fd => (e \in batch' <=> e \in batch)
    BY <1>5, <2>4 DEF Leaves
  <2>6. batch' \subseteq EventRecs
    BY <1>1 DEF Leaves, Typed
  <2> QED
    BY <1>1, <2>1, <2>2, <2>3, <2>5, <2>6, SoundKept
<1>14. Sound(s)'
  <2>1. slot'[s] = Blank /\ slot'[s].fd = None /\ ~slot'[s].offloaded /\ slot'[s].kind = "headers"
    BY <1>5 DEF Blank
  <2>2. job'[s] = NoJob
    BY <1>1, <1>7 DEF Placed
  <2>3. at' = s => pc' \in {"drain", "eager"}
    BY DEF Leaves, LoopAssumption
  <2>4. Placed(s)'
    BY <1>6, <1>7, <2>1, <2>2, <2>3 DEF Placed, Blank, NoJob
  <2> QED
    BY <2>1, <2>4 DEF Sound, Fits, Ends, Scans, Hears, Clocks, Waits
<1> QED
  BY <1>8, <1>9, <1>10, <1>11, <1>12, <1>13, <1>14 DEF Inductive

\* Only the control point moves, on from a slot that was closed or in an admission.
LEMMA PointStep ==
  ASSUME LoopAssumption, Inductive, UNCHANGED <<slot, net, held, pool, batch>>,
         joining' \in Conns \cup {None},
         short' \in BOOLEAN, eager' \in BOOLEAN, phase' # "events" => batch = {},
         pc' \in Acting \cup Admitting \cup {"none"}, at' \in {at, None},
         at' = None <=> pc' \in Admitting \cup {"none"},
         pc' \in Admitting => joining' # None /\ net[joining'].at = "backlog",
         at # None => slot[at].fd = None /\ pc' \in {"drain", "none"}
  PROVE  Inductive'
<1>1. /\ Typed /\ Standing /\ Connected /\ Once /\ Counted
      /\ \A t \in Slots : Sound(t) /\ Placed(t)
  BY DEF Inductive, Sound
<1>2. Typed' /\ Standing' /\ Connected' /\ Once' /\ Counted'
  BY <1>1 DEF Typed, Standing, Connected, Once, OnceIn, Counted, held, pool, Held, Out
<1>3. ASSUME NEW t \in Slots PROVE Sound(t)'
  <2>1. CASE at = t
    <3>1. slot[t] = Blank /\ slot[t].fd = None /\ slot[t].kind = "headers"
      <4>1. slot[t].fd = None
        BY <2>1 DEF LoopAssumption
      <4>2. slot[t] = Blank
        BY <1>1, <4>1 DEF Placed
      <4> QED
        BY <4>1, <4>2 DEF Blank
    <3>2. Placed(t)'
      BY <1>1, <2>1, <3>1 DEF Placed, held, pool, Blank, NoJob, LoopAssumption
    <3> QED
      BY <3>1, <3>2 DEF Sound, Fits, Ends, Scans, Hears, Clocks, Waits
  <2>2. CASE at # t
    <3>1. at' # t
      BY <2>2 DEF LoopAssumption
    <3>2. batch' \subseteq EventRecs
      BY <1>1 DEF Typed
    <3> QED
      BY <1>1, <2>2, <3>1, <3>2, SoundKept DEF held, pool
  <2> QED
    BY <2>1, <2>2
<1> QED
  BY <1>2, <1>3 DEF Inductive

-----------------------------------------------------------------------------
(* The steps of a slot.                                                    *)

\* What is known of a slot that holds a connection.
LEMMA HeldFacts ==
  ASSUME Inductive, NEW s \in Slots, slot[s].fd # None
  PROVE  /\ Typed /\ Standing /\ Connected /\ Once
         /\ slot \in [Slots -> SlotRecs] /\ net \in [Conns -> ConnRecs]
         /\ slot[s] \in SlotRecs /\ slot[s].fd \in Conns /\ net[slot[s].fd] \in ConnRecs
         /\ Sound(s) /\ Placed(s) /\ Fits(s) /\ Ends(s) /\ Scans(s) /\ Hears(s) /\ Clocks(s)
         /\ Waits(s)
<1> QED
  BY DEF Inductive, Typed, SlotRecs, Sound

\* A slot whose record and connection are as they were becomes itself.
LEMMA BecomesSelf ==
  ASSUME Inductive, NEW s \in Slots, slot[s].fd # None, UNCHANGED <<slot, net, free, active>>,
         queue' \in {queue, PushBack("idle", s), PushBack("head", s)}
  PROVE  Becomes(s, slot[s], net[slot[s].fd])
<1>1. /\ slot \in [Slots -> SlotRecs] /\ net \in [Conns -> ConnRecs]
      /\ slot[s] \in SlotRecs /\ slot[s].fd \in Conns /\ net[slot[s].fd] \in ConnRecs
  BY HeldFacts
<1>2. slot = [slot EXCEPT ![s] = slot[s]]
      /\ net = [net EXCEPT ![slot[s].fd] = net[slot[s].fd]]
  BY <1>1
<1> QED
  BY <1>1, <1>2 DEF Becomes

\* A record of the loop's that changes, and a connection that does not.
LEMMA BecomesRecord ==
  ASSUME Inductive, NEW s \in Slots, slot[s].fd # None, NEW r \in SlotRecs, r.fd = slot[s].fd,
         slot' = [slot EXCEPT ![s] = r], UNCHANGED <<net, free, active>>,
         queue' \in {queue, PushBack("idle", s), PushBack("head", s)}
  PROVE  Becomes(s, r, net[slot[s].fd])
<1>1. /\ net \in [Conns -> ConnRecs] /\ slot[s].fd \in Conns /\ net[slot[s].fd] \in ConnRecs
  BY HeldFacts
<1>2. net = [net EXCEPT ![slot[s].fd] = net[slot[s].fd]]
  BY <1>1
<1> QED
  BY <1>1, <1>2 DEF Becomes

\* _start_head leaves a slot that has not begun at the back of the heads.
LEMMA StartHeadFacts ==
  ASSUME Inductive, NEW s \in Slots, StartHead(s)
  PROVE  /\ queue' \in {queue, PushBack("head", s)}
         /\ IF slot[s].started THEN queue' = queue ELSE Contains(queue'["head"], s)
<1> QED
  BY PushBackFacts DEF StartHead, Inductive, Keys

\* A step from one point of the handler to another.
LEMMA StepRuns ==
  ASSUME LoopAssumption, Inductive, NEW s \in Slots, NEW from, NEW to \in Acting,
         Step(s, from, to), short' \in BOOLEAN
  PROVE  Runs(s) /\ at' = s /\ pc' = to /\ pc = from /\ at = s /\ batch' = batch
<1> QED
  BY DEF Step, Runs, pass, Inductive, Typed, LoopAssumption, Acting

\* The handler's return.
LEMMA ReturnRuns ==
  ASSUME LoopAssumption, Inductive, NEW s \in Slots, NEW from, Return(s, from)
  PROVE  Runs(s) /\ at' = None /\ pc' = "none" /\ pc = from /\ at = s /\ batch' = batch
<1> QED
  BY DEF Return, Runs, pass, Inductive, Typed, LoopAssumption

\* What follows a handler acts in its slot.
LEMMA ThenActing == Then \in {"eager", "drain"} /\ Then \in Acting
<1> QED
  BY DEF Then, Acting

\* The job stays.
LEMMA PoolsStay ==
  ASSUME Inductive, NEW s \in Slots, UNCHANGED pool, slot'[s].offloaded = slot[s].offloaded
  PROVE  Pools(s)
<1> QED
  BY DEF Inductive, Typed, Pools, pool

\* A read that finds nothing goes back to waiting, armed as it was.
LEMMA ReadWaitsStep ==
  ASSUME LoopAssumption, Inductive, NEW s \in Slots, at = s, ReadWaits(s)
  PROVE  Inductive'
<1> DEFINE c == slot[s].fd
<1>1. pc \in {"read", "body"} /\ slot[s].fd # None
  BY DEF ReadWaits, Step, Return, Inductive, Sound, Placed, Blank
<1>2. /\ Typed /\ Once /\ slot[s] \in SlotRecs /\ c \in Conns /\ net[c] \in ConnRecs
      /\ slot \in [Slots -> SlotRecs]
      /\ Placed(s) /\ Fits(s) /\ Ends(s) /\ Scans(s) /\ Hears(s) /\ Clocks(s) /\ Waits(s)
  BY <1>1, HeldFacts
<1>3. ~(net[c].sent > slot[s].to) /\ ~net[c].fin /\ ~net[c].gone /\ UNCHANGED <<net, pool>>
  BY DEF ReadWaits, Readable
<1>4. CASE pc = "read"
  <2> DEFINE r == [slot[s] EXCEPT !.started = TRUE]
  <2>1. /\ Step(s, "read", Then) /\ StartHead(s) /\ UNCHANGED <<free, active, short>>
        /\ slot' = [slot EXCEPT ![s].started = TRUE]
    BY <1>4 DEF ReadWaits, Return
  <2>2. slot' = [slot EXCEPT ![s] = r] /\ r \in SlotRecs /\ r.fd = c /\ slot'[s] = r
    BY <1>2, <2>1 DEF SlotRecs
  <2>3. short' \in BOOLEAN
    BY <1>2, <2>1 DEF Typed
  <2>4. Runs(s) /\ at' = s /\ pc' \in {"eager", "drain"} /\ batch' = batch
    BY <2>1, <2>3, StepRuns, ThenActing
  <2>5. queue' \in {queue, PushBack("head", s)} /\ Contains(queue'["head"], s)
    BY <1>1, <1>2, <1>4, <2>1, StartHeadFacts DEF Placed, Waits
  <2>6. Becomes(s, r, net[c])
    BY <1>1, <1>3, <2>1, <2>2, <2>5, BecomesRecord
  <2>7. Pools(s)
    BY <1>2, <1>3, <2>2, PoolsStay DEF SlotRecs
  <2>8. Placed(s)'
    BY <1>1, <1>2, <1>3, <1>4, <2>1, <2>2, <2>4 DEF Placed, pool, SlotRecs, Blank
  <2>9. Fits(s)' /\ Scans(s)' /\ Ends(s)'
    BY <1>1, <1>2, <1>3, <1>4, <2>2, <2>4 DEF Fits, Scans, Ends, Asks, Placed, SlotRecs
  <2>10. Hears(s)'
    BY <1>1, <1>2, <1>3, <1>4, <2>2, <2>4 DEF Hears, Told, ToldEnd, Placed, SlotRecs
  <2>11. Clocks(s)' /\ Waits(s)'
    BY <1>1, <1>2, <1>3, <1>4, <2>2, <2>4, <2>5 DEF Clocks, Waits, Placed, SlotRecs
  <2> QED
    BY <1>1, <2>4, <2>6, <2>7, <2>8, <2>9, <2>10, <2>11, SlotStep DEF Sound
<1>5. CASE pc = "body"
  <2>1. Return(s, "body") /\ UNCHANGED <<slot, held>>
    BY <1>5 DEF ReadWaits, Step
  <2>2. Runs(s) /\ at' = None /\ pc' = "none" /\ batch' = batch /\ at' # s
    BY <2>1, ReturnRuns DEF LoopAssumption
  <2>3. Becomes(s, slot[s], net[c])
    BY <1>1, <1>3, <2>1, BecomesSelf DEF held
  <2>4. Pools(s)
    BY <1>3, <2>1, PoolsStay
  <2>5. Placed(s)'
    BY <1>1, <1>2, <1>3, <1>5, <2>1, <2>2 DEF Placed, pool, held
  <2>6. Fits(s)' /\ Scans(s)' /\ Ends(s)'
    BY <1>1, <1>2, <1>3, <1>5, <2>1, <2>2 DEF Fits, Scans, Ends, Asks, Placed
  <2>7. Hears(s)'
    BY <1>1, <1>2, <1>3, <1>5, <2>1, <2>2 DEF Hears, Told, ToldEnd, Placed
  <2>8. Clocks(s)' /\ Waits(s)'
    BY <1>1, <1>2, <1>3, <1>5, <2>1, <2>2 DEF Clocks, Waits, Placed, held
  <2> QED
    BY <1>1, <2>2, <2>3, <2>4, <2>5, <2>6, <2>7, <2>8, SlotStep DEF Sound
<1> QED
  BY <1>1, <1>4, <1>5

\* A step that closes the slot, on to what is behind the handler's part.
LEMMA StepLeaves ==
  ASSUME LoopAssumption, Inductive, NEW s \in Slots, NEW from, Step(s, from, Then),
         short' \in BOOLEAN
  PROVE  Leaves(s)
<1> QED
  BY ThenActing DEF Step, Leaves, pass, Inductive, Typed, LoopAssumption

\* A recv that fails closes its slot.
LEMMA ReadFailsStep ==
  ASSUME LoopAssumption, Inductive, NEW s \in Slots, at = s, ReadFails(s)
  PROVE  Inductive'
<1>1. /\ Step(s, "read", Then) \/ Step(s, "body", Then)
      /\ CloseSlot(s) /\ UNCHANGED pool /\ short' = short
  BY DEF ReadFails
<1>2. pc \in {"read", "body"}
  BY <1>1 DEF Step
<1>3. slot[s].fd # None /\ ~slot[s].offloaded
  BY <1>2 DEF Inductive, Sound, Placed, Blank
<1>4. Leaves(s)
  BY <1>1, StepLeaves DEF Inductive, Typed
<1> QED
  BY <1>1, <1>3, <1>4, CloseStep

\* A recv of a head leaves what it took to be framed, and disarms if there may be more.
LEMMA ReadHeadStep ==
  ASSUME LoopAssumption, Inductive, NEW s \in Slots, at = s, ReadHead(s)
  PROVE  Inductive'
<1> DEFINE c == slot[s].fd
           r == [slot[s] EXCEPT !.to = @ + Got(s), !.armed = @ /\ Got(s) < ReadSize,
                                !.started = TRUE, !.eof = @ \/ (Got(s) = 0 /\ net[c].fin)]
<1>1. pc = "read" /\ slot[s].fd # None
  BY DEF ReadHead, Step, Inductive, Sound, Placed
<1>2. /\ Typed /\ Once /\ slot[s] \in SlotRecs /\ c \in Conns /\ net[c] \in ConnRecs
      /\ slot \in [Slots -> SlotRecs]
      /\ Placed(s) /\ Fits(s) /\ Ends(s) /\ Scans(s) /\ Hears(s) /\ Clocks(s) /\ Waits(s)
  BY <1>1, HeldFacts
<1>3. /\ Got(s) \in Nat /\ slot[s].to + Got(s) <= net[c].sent
      /\ Got(s) < ReadSize => slot[s].to + Got(s) = net[c].sent
  BY <1>1, <1>2, GotFacts
<1>4. /\ Step(s, "read", "frame") /\ StartHead(s) /\ UNCHANGED <<net, free, active, pool>>
      /\ short' \in BOOLEAN /\ slot' = [slot EXCEPT ![s] = r]
  BY DEF ReadHead, Taken
<1>5. /\ r \in SlotRecs /\ r.fd = c /\ slot'[s] = r /\ r.kind = slot[s].kind
      /\ r.from = slot[s].from /\ r.to = slot[s].to + Got(s) /\ r.end = slot[s].end
      /\ r.scanned = slot[s].scanned /\ r.close = slot[s].close /\ r.due = slot[s].due
      /\ r.started = TRUE /\ r.offloaded = slot[s].offloaded
      /\ r.armed <=> slot[s].armed /\ Got(s) < ReadSize
      /\ r.eof <=> slot[s].eof \/ (Got(s) = 0 /\ net[c].fin)
  <2>1. /\ (slot[s].armed /\ Got(s) < ReadSize) \in BOOLEAN
        /\ (slot[s].eof \/ (Got(s) = 0 /\ net[c].fin)) \in BOOLEAN
    OBVIOUS
  <2>2. slot[s].to + Got(s) \in Nat
    BY <1>2, <1>3 DEF SlotRecs
  <2> QED
    BY <1>2, <1>4, <2>1, <2>2 DEF SlotRecs
<1> HIDE DEF r
<1>6. Runs(s) /\ at' = s /\ pc' = "frame" /\ batch' = batch
  BY <1>4, StepRuns DEF Acting
<1>7. queue' \in {queue, PushBack("head", s)} /\ Contains(queue'["head"], s)
  BY <1>1, <1>2, <1>4, StartHeadFacts DEF Placed, Waits
<1>8. Becomes(s, r, net[c])
  BY <1>1, <1>4, <1>5, <1>7, BecomesRecord
<1>9. Pools(s)
  BY <1>2, <1>4, <1>5, PoolsStay DEF SlotRecs
<1>10. Placed(s)'
  BY <1>1, <1>2, <1>4, <1>5, <1>6 DEF Placed, pool, SlotRecs, Blank
<1>11. Fits(s)'
  <2>1. slot[s].kind = "headers" /\ net' = net
    BY <1>1, <1>2, <1>4 DEF Placed
  <2>2. /\ r.from <= r.scanned /\ r.scanned <= r.to /\ r.to <= net[c].sent
        /\ net[c].at = "open" /\ (r.eof => net[c].fin \/ net[c].gone)
    BY <1>1, <1>2, <1>3, <1>5 DEF Fits, SlotRecs
  <2> QED
    BY <1>5, <2>1, <2>2 DEF Fits
<1>12. Scans(s)' /\ Ends(s)'
  <2>1. Scans(s)'
    BY <1>1, <1>2, <1>4, <1>5, <1>6 DEF Scans
  <2>2. Ends(s)'
    BY <1>1, <1>2, <1>4, <1>5, <1>6 DEF Ends, Placed
  <2> QED
    BY <2>1, <2>2
<1>13. Hears(s)'
  <2>1. (Told(c)' <=> Told(c)) /\ (ToldEnd(c)' <=> ToldEnd(c)) /\ net'[c] = net[c]
    BY <1>4, <1>5, <1>6 DEF Told, ToldEnd
  <2>2. r.armed => ~(net[c].sent > r.to)
    <3>1. net[c].sent \in Nat /\ (r.armed => r.to = net[c].sent)
      BY <1>2, <1>3, <1>5 DEF ConnRecs
    <3> QED
      BY <3>1
  <2>3. slot[s].kind = "headers"
    BY <1>1, <1>2 DEF Placed
  <2> QED
    BY <1>1, <1>2, <1>5, <1>6, <2>1, <2>2, <2>3 DEF Hears
<1>14. Clocks(s)' /\ Waits(s)'
  BY <1>1, <1>2, <1>5, <1>6, <1>7 DEF Clocks, Waits, Placed, SlotRecs
<1> QED
  BY <1>1, <1>6, <1>8, <1>9, <1>10, <1>11, <1>12, <1>13, <1>14, SlotStep DEF Sound

\* Change is what its record and its connection become.
LEMMA ChangeBecomes ==
  ASSUME Inductive, NEW s \in Slots, slot[s].fd # None, NEW r \in SlotRecs, NEW n \in ConnRecs,
         r.fd = slot[s].fd, Change(s, r, n),
         LET m == net[slot[s].fd]
         IN  n.at = m.at /\ n.script = m.script /\ n.sent = m.sent /\ n.fin = m.fin
             /\ n.gone = m.gone
  PROVE  /\ Becomes(s, r, n) /\ slot'[s] = r /\ net'[slot[s].fd] = n /\ queue' = queue
         /\ free' = free
<1>1. /\ slot \in [Slots -> SlotRecs] /\ net \in [Conns -> ConnRecs] /\ slot[s].fd \in Conns
  BY HeldFacts
<1> QED
  BY <1>1 DEF Change, Becomes, held

\* A recv of a body completes it, or takes some of it.
LEMMA ReadBodyStep ==
  ASSUME LoopAssumption, Inductive, NEW s \in Slots, at = s, ReadBody(s)
  PROVE  Inductive'
<1> DEFINE c == slot[s].fd
           r == [slot[s] EXCEPT !.to = @ + Got(s), !.armed = @ /\ Got(s) < ReadSize,
                                !.kind = "processing"]
           n == [net[c] EXCEPT !.timer = FALSE]
<1>1. pc = "body" /\ slot[s].kind = "body" /\ slot[s].fd # None
  BY DEF ReadBody, Inductive, Sound, Placed, Blank
<1>2. /\ Typed /\ Once /\ slot[s] \in SlotRecs /\ c \in Conns /\ net[c] \in ConnRecs
      /\ Placed(s) /\ Fits(s) /\ Ends(s) /\ Scans(s) /\ Hears(s) /\ Clocks(s) /\ Waits(s)
  BY <1>1, HeldFacts
<1>3. /\ Got(s) \in Nat /\ slot[s].to + Got(s) <= net[c].sent
      /\ Got(s) < ReadSize => slot[s].to + Got(s) = net[c].sent
  BY <1>1, <1>2, GotFacts
<1>4. slot[s].to + Got(s) >= slot[s].end
  BY <1>1, <1>2, <1>3 DEF ReadBody, Fits, SlotRecs
<1>5. /\ Step(s, "body", "process") /\ UNCHANGED pool /\ short' \in BOOLEAN
      /\ Change(s, [Taken(slot[s], Got(s)) EXCEPT !.kind = "processing"],
                [net[c] EXCEPT !.timer = @ /\ ~TRUE])
  BY <1>2, <1>4 DEF ReadBody, Typed
<1>6. [Taken(slot[s], Got(s)) EXCEPT !.kind = "processing"] = r
  BY <1>2 DEF Taken, SlotRecs
<1>7. [net[c] EXCEPT !.timer = @ /\ ~TRUE] = n
  BY <1>2 DEF ConnRecs
<1>8. /\ r \in SlotRecs /\ r.fd = c /\ r.kind = "processing" /\ r.from = slot[s].from
      /\ r.to = slot[s].to + Got(s) /\ r.end = slot[s].end /\ r.scanned = slot[s].scanned
      /\ r.eof = slot[s].eof /\ r.close = slot[s].close /\ r.kept = slot[s].kept
      /\ r.started = slot[s].started /\ r.due = slot[s].due
      /\ r.armed = (slot[s].armed /\ Got(s) < ReadSize) /\ r.offloaded = slot[s].offloaded
  <2>1. (slot[s].armed /\ Got(s) < ReadSize) \in BOOLEAN
    OBVIOUS
  <2>2. slot[s].to + Got(s) \in Nat
    BY <1>2, <1>3 DEF SlotRecs
  <2> QED
    BY <1>2, <2>1, <2>2 DEF SlotRecs, Kinds
<1>9. /\ n \in ConnRecs /\ n.at = net[c].at /\ n.script = net[c].script /\ n.sent = net[c].sent
      /\ n.fin = net[c].fin /\ n.gone = net[c].gone /\ n.interest = net[c].interest
      /\ n.ready = net[c].ready /\ n.room = net[c].room /\ n.timer = FALSE
  BY <1>2 DEF ConnRecs
<1> HIDE DEF r, n
<1>10. Becomes(s, r, n) /\ slot'[s] = r /\ net'[c] = n /\ queue' = queue /\ free' = free
  BY <1>1, <1>5, <1>6, <1>7, <1>8, <1>9, ChangeBecomes
<1>11. Runs(s) /\ at' = s /\ pc' = "process" /\ batch' = batch
  BY <1>5, StepRuns DEF Acting
<1>12. Pools(s)
  BY <1>2, <1>5, <1>8, <1>10, PoolsStay
<1>13. Placed(s)'
  BY <1>1, <1>2, <1>5, <1>8, <1>10, <1>11 DEF Placed, pool, SlotRecs, NoJob
<1>14. Fits(s)'
  <2>1. /\ r.from <= r.scanned /\ r.scanned <= r.to /\ r.to <= n.sent /\ r.end <= r.to
        /\ n.at = "open" /\ (r.eof => n.fin \/ n.gone)
    BY <1>1, <1>2, <1>3, <1>4, <1>8, <1>9 DEF Fits, SlotRecs, ConnRecs
  <2> QED
    BY <1>8, <1>10, <2>1 DEF Fits
<1>15. Scans(s)' /\ Ends(s)' /\ Clocks(s)' /\ Waits(s)'
  <2>1. slot'[s].kind = "processing" /\ ~slot'[s].offloaded /\ slot'[s].due = slot[s].due
    BY <1>1, <1>2, <1>8, <1>10 DEF Placed
  <2>2. Scans(s)' /\ Waits(s)'
    BY <2>1 DEF Scans, Waits
  <2>3. Ends(s)'
    BY <1>11, <2>1 DEF Ends
  <2>4. Clocks(s)'
    BY <1>1, <1>2, <2>1 DEF Clocks
  <2> QED
    BY <2>2, <2>3, <2>4
<1>16. Hears(s)'
  <2>1. Told(c)' <=> Told(c)
    BY <1>8, <1>9, <1>10, <1>11 DEF Told
  <2>2. ToldEnd(c)' <=> ToldEnd(c)
    BY <1>8, <1>9, <1>10, <1>11 DEF ToldEnd
  <2>3. slot[s].armed
    BY <1>1, <1>2 DEF Hears
  <2>4. r.armed => ~(n.sent > r.to)
    <3>1. net[c].sent \in Nat /\ (r.armed => r.to = net[c].sent) /\ n.sent = net[c].sent
      BY <1>2, <1>3, <1>8, <1>9 DEF ConnRecs
    <3> QED
      BY <3>1
  <2>5. /\ n.interest = "read" /\ (n.fin \/ n.gone => ToldEnd(c)' \/ r.eof)
    BY <1>1, <1>2, <1>8, <1>9, <2>2, <2>3 DEF Hears
  <2>6. slot'[s].kind \notin Reading /\ pc' # "body" /\ slot'[s].fd = c
    BY <1>8, <1>10, <1>11 DEF Reading
  <2> QED
    BY <1>8, <1>9, <1>10, <2>4, <2>5, <2>6 DEF Hears, Reading
<1> QED
  BY <1>1, <1>10, <1>11, <1>12, <1>13, <1>14, <1>15, <1>16, SlotStep DEF Sound

\* What framing leaves of the slot, whose head has begun.
LEMMA FramedFacts ==
  ASSUME LoopAssumption, Inductive, NEW s \in Slots, at = s, pc = "frame", NEW to \in Acting,
         NEW r \in SlotRecs, NEW n \in ConnRecs, Framed(s, to, r, n), r.fd = slot[s].fd,
         r.offloaded = slot[s].offloaded,
         LET m == net[slot[s].fd]
         IN  n.at = m.at /\ n.script = m.script /\ n.sent = m.sent /\ n.fin = m.fin
             /\ n.gone = m.gone
  PROVE  /\ Becomes(s, r, n) /\ Runs(s) /\ Pools(s)
         /\ slot'[s] = r /\ net'[slot[s].fd] = n /\ at' = s /\ pc' = to
         /\ UNCHANGED <<free, job, batch>>
         /\ Contains(queue'["head"], s)
         /\ slot[s].fd # None /\ slot[s].kind = "headers" /\ ~slot[s].offloaded
<1> DEFINE c == slot[s].fd
<1>1. slot[s].fd # None /\ slot[s].kind = "headers" /\ ~slot[s].offloaded
  BY DEF Inductive, Sound, Placed
<1>2. /\ slot \in [Slots -> SlotRecs] /\ net \in [Conns -> ConnRecs] /\ c \in Conns
      /\ Placed(s) /\ Waits(s)
  BY <1>1, HeldFacts
<1>3. /\ Step(s, "frame", to) /\ short' = FALSE /\ StartHead(s) /\ UNCHANGED <<free, active, pool>>
      /\ slot' = [slot EXCEPT ![s] = r] /\ net' = [net EXCEPT ![c] = n]
  BY DEF Framed
<1>4. Runs(s) /\ at' = s /\ pc' = to /\ batch' = batch
  BY <1>3, StepRuns
<1>5. queue' \in {queue, PushBack("head", s)} /\ Contains(queue'["head"], s)
  BY <1>1, <1>2, <1>3, StartHeadFacts DEF Waits
<1>6. slot'[s] = r /\ net'[c] = n
  BY <1>2, <1>3
<1>7. Becomes(s, r, n)
  BY <1>3, <1>5 DEF Becomes
<1>8. Pools(s)
  BY <1>3, <1>6, PoolsStay
<1> QED
  BY <1>1, <1>3, <1>4, <1>5, <1>6, <1>7, <1>8 DEF pool

\* A head that is not whole is scanned to its end, and its slot waits for the rest.
LEMMA FrameIncompleteStep ==
  ASSUME LoopAssumption, Inductive, NEW s \in Slots, at = s, FrameIncomplete(s)
  PROVE  Inductive'
<1> DEFINE c == slot[s].fd
           r == [Begun(s) EXCEPT !.scanned = slot[s].to]
           n == net[c]
<1>1. pc = "frame" /\ slot[s].fd # None /\ slot[s].kind = "headers" /\ Token(s) = "none"
      /\ Framed(s, Then, r, n)
  BY DEF FrameIncomplete, Inductive, Sound, Placed
<1>2. /\ Typed /\ Once /\ slot[s] \in SlotRecs /\ c \in Conns /\ net[c] \in ConnRecs
      /\ Placed(s) /\ Fits(s) /\ Ends(s) /\ Scans(s) /\ Hears(s) /\ Clocks(s) /\ Waits(s)
  BY <1>1, HeldFacts
<1>3. \A i \in slot[s].from + 1 .. slot[s].to : net[c].script[i] = "a"
  BY <1>1, <1>2, HeldFacts, HeadEndFacts
<1>4. /\ r \in SlotRecs /\ r.fd = c /\ r.kind = slot[s].kind /\ r.from = slot[s].from
      /\ r.to = slot[s].to /\ r.end = slot[s].end /\ r.scanned = slot[s].to
      /\ r.eof = slot[s].eof /\ r.close = slot[s].close /\ r.kept = slot[s].kept
      /\ r.started = TRUE /\ r.due = "off" /\ r.armed = slot[s].armed
      /\ r.offloaded = slot[s].offloaded
  BY <1>2 DEF Begun, SlotRecs
<1> HIDE DEF r
<1>5. /\ Becomes(s, r, n) /\ Runs(s) /\ Pools(s)
      /\ slot'[s] = r /\ net'[c] = n /\ at' = s /\ pc' = Then /\ UNCHANGED <<free, job, batch>>
      /\ Contains(queue'["head"], s)
  <2>1. at = s /\ Then \in Acting
    BY <1>1, ThenActing DEF Framed, Step
  <2>2. /\ n \in ConnRecs /\ n.at = net[c].at /\ n.script = net[c].script
        /\ n.sent = net[c].sent /\ n.fin = net[c].fin /\ n.gone = net[c].gone
    BY <1>2
  <2> HIDE DEF n, c
  <2> QED
    BY <1>1, <1>4, <2>1, <2>2, FramedFacts DEF c
<1>6. pc' \in {"eager", "drain"}
  BY <1>5, ThenActing
<1>7. Placed(s)'
  BY <1>1, <1>2, <1>4, <1>5, <1>6 DEF Placed, SlotRecs
<1>8. Fits(s)'
  BY <1>1, <1>2, <1>4, <1>5 DEF Fits, SlotRecs
<1>9. Scans(s)' /\ Ends(s)' /\ Clocks(s)' /\ Waits(s)'
  BY <1>1, <1>2, <1>3, <1>4, <1>5, <1>6 DEF Scans, Ends, Clocks, Waits, Placed
<1>10. Hears(s)'
  BY <1>1, <1>2, <1>4, <1>5, <1>6 DEF Hears, Told, ToldEnd
<1> QED
  BY <1>1, <1>5, <1>7, <1>8, <1>9, <1>10, SlotStep DEF Sound

\* A whole request is handed on, its deadline ended.
LEMMA FrameWholeStep ==
  ASSUME LoopAssumption, Inductive, NEW s \in Slots, at = s, FrameWhole(s)
  PROVE  Inductive'
<1> DEFINE c   == slot[s].fd
           end == HeadEnd(s) + IF Token(s) = "p" THEN 1 ELSE 0
           r   == [Begun(s) EXCEPT !.kind = "processing", !.end = end]
           n   == net[c]
<1>1. pc = "frame" /\ slot[s].fd # None /\ slot[s].kind = "headers" /\ end <= slot[s].to
      /\ Framed(s, "process", r, n)
  BY DEF FrameWhole, Inductive, Sound, Placed
<1>2. /\ Typed /\ Once /\ slot[s] \in SlotRecs /\ c \in Conns /\ net[c] \in ConnRecs
      /\ Placed(s) /\ Fits(s) /\ Ends(s) /\ Scans(s) /\ Hears(s) /\ Clocks(s) /\ Waits(s)
  BY <1>1, HeldFacts
<1>3. end \in Nat
  <2>1. HeadEnd(s) \in Nat
    BY <1>1, <1>2, HeldFacts, HeadEndFacts
  <2> QED
    BY <2>1
<1> HIDE DEF end
<1>4. /\ r \in SlotRecs /\ r.fd = c /\ r.kind = "processing" /\ r.from = slot[s].from
      /\ r.to = slot[s].to /\ r.end = end /\ r.scanned = slot[s].scanned /\ r.eof = slot[s].eof
      /\ r.close = slot[s].close /\ r.kept = slot[s].kept /\ r.started = TRUE /\ r.due = "off"
      /\ r.armed = slot[s].armed /\ r.offloaded = slot[s].offloaded
  BY <1>2, <1>3 DEF Begun, SlotRecs, Kinds
<1> HIDE DEF r
<1>5. /\ Becomes(s, r, n) /\ Runs(s) /\ Pools(s)
      /\ slot'[s] = r /\ net'[c] = n /\ at' = s /\ pc' = "process" /\ UNCHANGED <<free, job, batch>>
      /\ Contains(queue'["head"], s) /\ ~slot[s].offloaded
  BY <1>1, <1>2, <1>4, FramedFacts DEF Acting
<1>6. Placed(s)'
  BY <1>1, <1>2, <1>4, <1>5 DEF Placed, SlotRecs
<1>7. Fits(s)'
  BY <1>1, <1>2, <1>4, <1>5 DEF Fits, SlotRecs
<1>8. Scans(s)' /\ Ends(s)' /\ Clocks(s)' /\ Waits(s)'
  BY <1>1, <1>2, <1>4, <1>5 DEF Scans, Ends, Clocks, Waits, Placed
<1>9. Hears(s)'
  BY <1>1, <1>2, <1>4, <1>5 DEF Hears, Told, ToldEnd, Reading
<1> QED
  BY <1>1, <1>5, <1>6, <1>7, <1>8, <1>9, SlotStep DEF Sound

\* A head whose body is owed waits for it on a timer of its own.
LEMMA FrameBodyStep ==
  ASSUME LoopAssumption, Inductive, NEW s \in Slots, at = s, FrameBody(s)
  PROVE  Inductive'
<1> DEFINE c == slot[s].fd
           r == [Begun(s) EXCEPT !.kind = "body", !.end = HeadEnd(s) + 1]
           n == [net[c] EXCEPT !.timer = TRUE]
<1>1. pc = "frame" /\ slot[s].fd # None /\ slot[s].kind = "headers" /\ HeadEnd(s) = slot[s].to
      /\ Framed(s, Then, r, n)
  BY DEF FrameBody, Owed, Inductive, Sound, Placed
<1>2. /\ Typed /\ Once /\ slot[s] \in SlotRecs /\ c \in Conns /\ net[c] \in ConnRecs
      /\ Placed(s) /\ Fits(s) /\ Ends(s) /\ Scans(s) /\ Hears(s) /\ Clocks(s) /\ Waits(s)
  BY <1>1, HeldFacts
<1>3. /\ r \in SlotRecs /\ r.fd = c /\ r.kind = "body" /\ r.from = slot[s].from
      /\ r.to = slot[s].to /\ r.end = slot[s].to + 1 /\ r.scanned = slot[s].scanned
      /\ r.eof = slot[s].eof /\ r.close = slot[s].close /\ r.kept = slot[s].kept
      /\ r.started = TRUE /\ r.due = "off" /\ r.armed = slot[s].armed
      /\ r.offloaded = slot[s].offloaded
  <2>1. slot[s].to + 1 \in Nat
    BY <1>2 DEF SlotRecs
  <2>2. r = [Begun(s) EXCEPT !.kind = "body", !.end = slot[s].to + 1]
    BY <1>1
  <2> QED
    BY <1>2, <2>1, <2>2 DEF Begun, SlotRecs, Kinds
<1>4. /\ n \in ConnRecs /\ n.at = net[c].at /\ n.script = net[c].script /\ n.sent = net[c].sent
      /\ n.fin = net[c].fin /\ n.gone = net[c].gone /\ n.interest = net[c].interest
      /\ n.ready = net[c].ready /\ n.room = net[c].room /\ n.timer = TRUE
  BY <1>2 DEF ConnRecs
<1> HIDE DEF r, n
<1>5. /\ Becomes(s, r, n) /\ Runs(s) /\ Pools(s)
      /\ slot'[s] = r /\ net'[c] = n /\ at' = s /\ pc' = Then /\ UNCHANGED <<free, job, batch>>
      /\ Contains(queue'["head"], s) /\ ~slot[s].offloaded
  BY <1>1, <1>2, <1>3, <1>4, ThenActing, FramedFacts
<1>6. pc' \in {"eager", "drain"}
  BY <1>5, ThenActing
<1>7. Placed(s)'
  BY <1>1, <1>2, <1>3, <1>5, <1>6 DEF Placed, SlotRecs
<1>8. Fits(s)'
  <2>1. /\ r.from <= r.scanned /\ r.scanned <= r.to /\ r.to <= n.sent /\ r.end = r.to + 1
        /\ r.kind = "body" /\ n.at = "open" /\ (r.eof => n.fin \/ n.gone)
    BY <1>1, <1>2, <1>3, <1>4 DEF Fits, SlotRecs
  <2> QED
    BY <1>3, <1>5, <2>1 DEF Fits
<1>9. Scans(s)' /\ Ends(s)' /\ Clocks(s)' /\ Waits(s)'
  BY <1>1, <1>2, <1>3, <1>4, <1>5, <1>6 DEF Scans, Ends, Clocks, Waits, Placed
<1>10. Hears(s)'
  BY <1>1, <1>2, <1>3, <1>4, <1>5, <1>6 DEF Hears, Told, ToldEnd
<1> QED
  BY <1>1, <1>5, <1>7, <1>8, <1>9, <1>10, SlotStep DEF Sound

\* A head that is refused, or can never be whole, closes its slot.
LEMMA FrameClosesStep ==
  ASSUME LoopAssumption, Inductive, NEW s \in Slots, at = s, FrameCloses(s)
  PROVE  Inductive'
<1>1. Step(s, "frame", Then) /\ CloseSlot(s) /\ short' = FALSE /\ UNCHANGED pool
  BY DEF FrameCloses
<1>2. slot[s].fd # None /\ ~slot[s].offloaded
  BY <1>1 DEF Step, Inductive, Sound, Placed
<1>3. Leaves(s)
  BY <1>1, StepLeaves
<1> QED
  BY <1>1, <1>2, <1>3, CloseStep

\* What prepare_for_new_request leaves when nothing buffered is kept.
LEMMA DiscardedFacts ==
  ASSUME NEW r \in SlotRecs
  PROVE  LET p == Prepared(r, FALSE) IN
         /\ p \in SlotRecs /\ p.fd = r.fd /\ p.kind = "headers" /\ p.to = r.to /\ p.end = 0
         /\ p.from = r.to
         /\ p.scanned = p.from /\ p.close = FALSE /\ p.kept = r.kept /\ p.eof = FALSE
         /\ p.offloaded = r.offloaded
<1> DEFINE p == Prepared(r, FALSE)
           q == [r EXCEPT !.kind = "headers", !.from = r.to, !.scanned = r.to, !.end = 0]
<1>1. /\ q \in SlotRecs /\ q.fd = r.fd /\ q.kind = "headers" /\ q.to = r.to /\ q.end = 0
      /\ q.from = r.to /\ q.scanned = r.to /\ q.kept = r.kept /\ q.offloaded = r.offloaded
  BY DEF SlotRecs, Kinds
<1>2. p = [q EXCEPT !.close = FALSE, !.eof = FALSE, !.left = 0]
  BY DEF Prepared
<1> HIDE DEF p, q
<1>3. p \in SlotRecs /\ p.close = FALSE /\ p.eof = FALSE
  BY <1>1, <1>2 DEF SlotRecs
<1>4. /\ p.fd = q.fd /\ p.kind = q.kind /\ p.to = q.to /\ p.end = q.end /\ p.from = q.from
      /\ p.scanned = q.scanned /\ p.kept = q.kept /\ p.offloaded = q.offloaded
  BY <1>1, <1>2 DEF SlotRecs
<1> QED
  BY <1>1, <1>3, <1>4 DEF p

\* And when the bytes behind the request are.
LEMMA KeptFacts ==
  ASSUME NEW r \in SlotRecs
  PROVE  LET p == Prepared(r, TRUE) IN
         /\ p \in SlotRecs /\ p.fd = r.fd /\ p.kind = "headers" /\ p.to = r.to /\ p.end = 0
         /\ p.from = (IF r.end > 0 /\ r.end < r.to THEN r.end ELSE r.to)
         /\ p.scanned = p.from /\ p.close = FALSE /\ p.kept = r.kept /\ p.eof = r.eof
         /\ p.offloaded = r.offloaded
<1> DEFINE p    == Prepared(r, TRUE)
           from == IF r.end > 0 /\ r.end < r.to THEN r.end ELSE r.to
<1>1. from \in Nat
  BY DEF SlotRecs
<1>2. (TRUE /\ r.eof) = r.eof
  BY DEF SlotRecs
<1> DEFINE q == [r EXCEPT !.kind = "headers", !.from = from, !.scanned = from, !.end = 0]
<1>3. p = [q EXCEPT !.close = FALSE, !.eof = r.eof, !.left = 0]
  BY <1>2 DEF Prepared
<1> HIDE DEF from
<1>4. /\ q \in SlotRecs /\ q.fd = r.fd /\ q.kind = "headers" /\ q.to = r.to /\ q.end = 0
      /\ q.from = from /\ q.scanned = from /\ q.kept = r.kept /\ q.offloaded = r.offloaded
  BY <1>1 DEF SlotRecs, Kinds
<1> HIDE DEF p, q
<1>5. r.eof \in BOOLEAN
  BY DEF SlotRecs
<1>6. p \in SlotRecs /\ p.close = FALSE /\ p.eof = r.eof
  BY <1>3, <1>4, <1>5 DEF SlotRecs
<1>7. /\ p.fd = q.fd /\ p.kind = q.kind /\ p.to = q.to /\ p.end = q.end /\ p.from = q.from
      /\ p.scanned = q.scanned /\ p.kept = q.kept /\ p.offloaded = q.offloaded
  BY <1>3, <1>4 DEF SlotRecs
<1> QED
  BY <1>4, <1>6, <1>7 DEF p, from

\* A refused body is discarded on a deadline, to the end of what its client sends.
LEMMA LingerStep ==
  ASSUME LoopAssumption, Inductive, NEW s \in Slots, at = s, Linger(s)
  PROVE  Inductive'
<1> DEFINE c  == slot[s].fd
           m  == [net[c] EXCEPT !.timer = FALSE]
           to == net[c].sent
           r  == [Prepared(slot[s], FALSE) EXCEPT
                    !.kind = "lingering", !.due = "linger", !.started = TRUE, !.armed = TRUE,
                    !.from = m.sent, !.to = m.sent, !.scanned = m.sent]
           n  == IF slot[s].armed THEN m ELSE Reads(m, m.sent)
<1>1. /\ Step(s, "frame", Then) \/ Step(s, "read", Then)
      /\ IF m.fin \/ m.gone THEN CloseSlot(s) ELSE Change(s, r, n)
      /\ short' = FALSE /\ UNCHANGED pool
  BY DEF Linger
<1>2. pc \in {"frame", "read"}
  BY <1>1 DEF Step
<1>3. slot[s].fd # None /\ slot[s].kind = "headers" /\ ~slot[s].offloaded
  BY <1>2 DEF Inductive, Sound, Placed
<1>4. /\ Typed /\ Once /\ slot[s] \in SlotRecs /\ c \in Conns /\ net[c] \in ConnRecs
      /\ Placed(s) /\ Fits(s) /\ Ends(s) /\ Scans(s) /\ Hears(s) /\ Clocks(s) /\ Waits(s)
  BY <1>3, HeldFacts
<1>5. m \in ConnRecs /\ m.sent = net[c].sent /\ m.fin = net[c].fin /\ m.gone = net[c].gone
  BY <1>4 DEF ConnRecs
<1>6. CASE net[c].fin \/ net[c].gone
  <2>1. CloseSlot(s)
    BY <1>1, <1>5, <1>6
  <2>2. Leaves(s)
    BY <1>1, StepLeaves
  <2> QED
    BY <1>1, <1>3, <2>1, <2>2, CloseStep
<1>7. CASE ~(net[c].fin \/ net[c].gone)
  <2>1. Change(s, r, n)
    BY <1>1, <1>5, <1>7
  <2>2. /\ r \in SlotRecs /\ r.fd = c /\ r.kind = "lingering" /\ r.from = to /\ r.to = to
        /\ r.end = 0 /\ r.scanned = to /\ r.eof = FALSE /\ r.close = FALSE
        /\ r.kept = slot[s].kept /\ r.started = TRUE /\ r.due = "linger" /\ r.armed = TRUE
        /\ r.offloaded = slot[s].offloaded
    <3> DEFINE p == Prepared(slot[s], FALSE)
    <3>1. r = [p EXCEPT !.kind = "lingering", !.due = "linger", !.started = TRUE, !.armed = TRUE,
                        !.from = to, !.to = to, !.scanned = to]
      BY <1>5
    <3>2. p = Prepared(slot[s], FALSE)
      OBVIOUS
    <3> HIDE DEF p, r
    <3>3. /\ p \in SlotRecs /\ p.fd = c /\ p.end = 0 /\ p.eof = FALSE /\ p.close = FALSE
          /\ p.kept = slot[s].kept /\ p.offloaded = slot[s].offloaded
      BY <1>4, <3>2, DiscardedFacts
    <3>4. to \in Nat
      BY <1>4 DEF ConnRecs
    <3> HIDE DEF to
    <3> QED
      BY <3>1, <3>3, <3>4 DEF SlotRecs, Kinds
  <2>3. /\ n \in ConnRecs /\ n.at = net[c].at /\ n.script = net[c].script /\ n.sent = net[c].sent
        /\ n.fin = net[c].fin /\ n.gone = net[c].gone
        /\ n.interest = IF slot[s].armed THEN net[c].interest ELSE "read"
    <3>1. CASE slot[s].armed
      BY <1>4, <3>1 DEF ConnRecs
    <3>2. CASE ~slot[s].armed
      <4>1. Readable(m, m.sent) \in BOOLEAN
        BY <1>5 DEF Readable, ConnRecs
      <4> QED
        BY <1>4, <3>2, <4>1 DEF ConnRecs, Reads
    <3> QED
      BY <3>1, <3>2
  <2> HIDE DEF r, n
  <2>4. Becomes(s, r, n) /\ slot'[s] = r /\ net'[c] = n /\ queue' = queue /\ free' = free
    BY <1>3, <2>1, <2>2, <2>3, ChangeBecomes
  <2>5. Runs(s) /\ at' = s /\ pc' \in {"eager", "drain"} /\ batch' = batch
    BY <1>1, ThenActing, StepRuns
  <2>6. Pools(s)
    BY <1>1, <2>2, <2>4, PoolsStay
  <2>7. Placed(s)'
    BY <1>1, <1>3, <1>4, <2>2, <2>4, <2>5 DEF Placed, pool, SlotRecs
  <2>8. Fits(s)'
    BY <1>4, <2>2, <2>3, <2>4 DEF Fits, ConnRecs
  <2>9. Scans(s)' /\ Ends(s)' /\ Clocks(s)' /\ Waits(s)'
    BY <1>3, <1>4, <2>2, <2>3, <2>4, <2>5 DEF Scans, Ends, Clocks, Waits
  <2>10. Hears(s)'
    BY <1>3, <1>4, <1>7, <2>2, <2>3, <2>4, <2>5 DEF Hears, ConnRecs
  <2> QED
    BY <1>3, <2>4, <2>5, <2>6, <2>7, <2>8, <2>9, <2>10, SlotStep DEF Sound
<1> QED
  BY <1>6, <1>7

\* A request that goes to a pool thread takes its connection with it.
LEMMA OffloadStep ==
  ASSUME LoopAssumption, Inductive, NEW s \in Slots, at = s, Offload(s)
  PROVE  Inductive'
<1> DEFINE c == slot[s].fd
           r == [slot[s] EXCEPT !.close = Asks(s), !.offloaded = TRUE]
           n == net[c]
<1>1. /\ Step(s, "process", Then) /\ slot' = [slot EXCEPT ![s] = r]
      /\ job' = [job EXCEPT ![s] = [conn |-> c, done |-> FALSE]] /\ inflight' = inflight + 1
      /\ UNCHANGED <<net, queue, free, active, short>>
  BY DEF Offload, held
<1>2. slot[s].fd # None /\ slot[s].kind = "processing" /\ ~slot[s].offloaded
  BY <1>1 DEF Step, Inductive, Sound, Placed, Blank
<1>3. /\ Typed /\ Once /\ slot[s] \in SlotRecs /\ c \in Conns /\ net[c] \in ConnRecs
      /\ Placed(s) /\ Fits(s) /\ Ends(s) /\ Scans(s) /\ Hears(s) /\ Clocks(s) /\ Waits(s)
  BY <1>2, HeldFacts
<1>4. /\ r \in SlotRecs /\ r.fd = c /\ r.kind = slot[s].kind /\ r.from = slot[s].from
      /\ r.to = slot[s].to /\ r.end = slot[s].end /\ r.scanned = slot[s].scanned
      /\ r.eof = slot[s].eof /\ r.close = Asks(s) /\ r.kept = slot[s].kept
      /\ r.started = slot[s].started /\ r.due = slot[s].due /\ r.armed = slot[s].armed
      /\ r.offloaded = TRUE
  BY <1>3 DEF Asks, SlotRecs
<1> HIDE DEF r
<1>5. /\ slot \in [Slots -> SlotRecs] /\ job \in [Slots -> Jobs]
  BY <1>3 DEF Typed
<1>6. Becomes(s, r, n) /\ slot'[s] = r /\ net'[c] = n
  BY <1>1, <1>2, <1>4, <1>5, BecomesRecord
<1>7. Runs(s) /\ at' = s /\ pc' \in {"eager", "drain"} /\ batch' = batch
  BY <1>1, <1>3, ThenActing, StepRuns DEF Typed
<1>8. /\ job' \in [Slots -> Jobs] /\ job'[s].conn = c /\ \A t \in Slots \ {s} : job'[t] = job[t]
  BY <1>1, <1>3, <1>5 DEF Jobs
<1>9. Pools(s)
  BY <1>1, <1>2, <1>4, <1>6, <1>8 DEF Pools
<1>10. Placed(s)'
  BY <1>1, <1>2, <1>3, <1>4, <1>6, <1>7, <1>8 DEF Placed
<1>11. Fits(s)'
  BY <1>2, <1>3, <1>4, <1>6 DEF Fits
<1>12. Ends(s)'
  <2>1. Asks(s)' = Asks(s)
    BY <1>4, <1>6 DEF Asks
  <2> QED
    BY <1>2, <1>3, <1>4, <1>6, <2>1 DEF Ends
<1>13. Scans(s)' /\ Clocks(s)' /\ Waits(s)'
  BY <1>2, <1>3, <1>4, <1>6, <1>7 DEF Scans, Clocks, Waits
<1>14. Hears(s)'
  BY <1>1, <1>2, <1>3, <1>4, <1>6, <1>7 DEF Hears, Told, ToldEnd, Reading, Step
<1> QED
  BY <1>2, <1>6, <1>7, <1>9, <1>10, <1>11, <1>12, <1>13, <1>14, SlotStep DEF Sound

\* A request answered on the loop stays where it is.
LEMMA AnswerStep ==
  ASSUME LoopAssumption, Inductive, NEW s \in Slots, at = s, Answer(s)
  PROVE  Inductive'
<1> DEFINE c == slot[s].fd
           r == [slot[s] EXCEPT !.close = Asks(s)]
           n == net[c]
<1>1. /\ Step(s, "process", "finish") /\ slot' = [slot EXCEPT ![s] = r]
      /\ UNCHANGED <<net, queue, free, active, pool, short>>
  BY DEF Answer, held
<1>2. slot[s].fd # None /\ slot[s].kind = "processing" /\ ~slot[s].offloaded
  BY <1>1 DEF Step, Inductive, Sound, Placed, Blank
<1>3. /\ Typed /\ Once /\ slot[s] \in SlotRecs /\ c \in Conns /\ net[c] \in ConnRecs
      /\ Placed(s) /\ Fits(s) /\ Ends(s) /\ Scans(s) /\ Hears(s) /\ Clocks(s) /\ Waits(s)
  BY <1>2, HeldFacts
<1>4. /\ r \in SlotRecs /\ r.fd = c /\ r.kind = slot[s].kind /\ r.from = slot[s].from
      /\ r.to = slot[s].to /\ r.end = slot[s].end /\ r.scanned = slot[s].scanned
      /\ r.eof = slot[s].eof /\ r.close = Asks(s) /\ r.kept = slot[s].kept
      /\ r.started = slot[s].started /\ r.due = slot[s].due /\ r.armed = slot[s].armed
      /\ r.offloaded = slot[s].offloaded
  BY <1>3 DEF Asks, SlotRecs
<1> HIDE DEF r
<1>5. /\ slot \in [Slots -> SlotRecs]
  BY <1>3 DEF Typed
<1>6. Becomes(s, r, n) /\ slot'[s] = r /\ net'[c] = n
  BY <1>1, <1>2, <1>4, <1>5, BecomesRecord
<1>7. Runs(s) /\ at' = s /\ pc' = "finish" /\ batch' = batch
  BY <1>1, <1>3, StepRuns DEF Typed, Acting
<1>8. Pools(s)
  BY <1>1, <1>4, <1>6, PoolsStay
<1>9. Placed(s)'
  BY <1>1, <1>2, <1>3, <1>4, <1>6, <1>7 DEF Placed, pool
<1>10. Fits(s)'
  BY <1>2, <1>3, <1>4, <1>6 DEF Fits
<1>11. Ends(s)'
  <2>1. Asks(s)' = Asks(s)
    BY <1>4, <1>6 DEF Asks
  <2> QED
    BY <1>2, <1>3, <1>4, <1>6, <2>1 DEF Ends
<1>12. Scans(s)' /\ Clocks(s)' /\ Waits(s)'
  BY <1>2, <1>3, <1>4, <1>6, <1>7 DEF Scans, Clocks, Waits
<1>13. Hears(s)'
  BY <1>1, <1>2, <1>3, <1>4, <1>6, <1>7 DEF Hears, Told, ToldEnd, Reading, Step
<1> QED
  BY <1>2, <1>6, <1>7, <1>8, <1>9, <1>10, <1>11, <1>12, <1>13, SlotStep DEF Sound

\* A request is the last only if its client is gone, or done and sent nothing behind it.
LEMMA LastFacts ==
  ASSUME LoopAssumption, Inductive, NEW s \in Slots, slot[s].kind = "processing",
         slot[s].fd # None, AnswersTheLast(s)
  PROVE  LET n == net[slot[s].fd] IN n.gone \/ (n.fin /\ slot[s].end = n.sent)
<1>1. /\ Typed /\ slot[s] \in SlotRecs /\ net[slot[s].fd] \in ConnRecs /\ Fits(s)
  BY HeldFacts
<1>2. /\ Got(s) \in Nat
      /\ Got(s) < ReadSize => slot[s].to + Got(s) = net[slot[s].fd].sent
      /\ ReadSize \in Nat \ {0}
  BY <1>1, GotFacts DEF LoopAssumption
<1>3. CASE net[slot[s].fd].gone
  BY <1>3
<1>4. CASE ~net[slot[s].fd].gone
  <2>1. Got(s) = 0 /\ net[slot[s].fd].fin /\ slot[s].end >= slot[s].to
    BY <1>1, <1>4 DEF AnswersTheLast, Fits
  <2>2. slot[s].end <= slot[s].to /\ slot[s].to = net[slot[s].fd].sent
    BY <1>1, <1>2, <2>1 DEF Fits, SlotRecs
  <2> QED
    BY <1>1, <2>1, <2>2 DEF SlotRecs, ConnRecs
<1> QED
  BY <1>3, <1>4

\* An answer that goes out whole is the last if its client is done, or asked for it.
LEMMA FinishWholeStep ==
  ASSUME LoopAssumption, Inductive, NEW s \in Slots, at = s, FinishWhole(s)
  PROVE  Inductive'
<1> DEFINE c == slot[s].fd
           r == Closing(s)
           n == net[c]
<1>1. /\ Step(s, "finish", "sent") /\ Change(s, r, n) /\ UNCHANGED <<pool, short>>
  BY DEF FinishWhole
<1>2. slot[s].fd # None /\ slot[s].kind = "processing" /\ ~slot[s].offloaded /\ pc = "finish"
  BY <1>1 DEF Step, Inductive, Sound, Placed, Blank
<1>3. /\ Typed /\ Once /\ slot[s] \in SlotRecs /\ c \in Conns /\ net[c] \in ConnRecs
      /\ Placed(s) /\ Fits(s) /\ Ends(s) /\ Scans(s) /\ Hears(s) /\ Clocks(s) /\ Waits(s)
  BY <1>2, HeldFacts
<1>4. /\ r \in SlotRecs /\ r.fd = c /\ r.kind = "responding" /\ r.from = slot[s].from
      /\ r.to = slot[s].to /\ r.end = slot[s].end /\ r.scanned = slot[s].scanned
      /\ r.eof = slot[s].eof /\ r.close = (slot[s].close \/ AnswersTheLast(s))
      /\ r.kept = slot[s].kept /\ r.started = slot[s].started /\ r.due = slot[s].due
      /\ r.armed = slot[s].armed /\ r.offloaded = slot[s].offloaded
  <2>1. (slot[s].close \/ AnswersTheLast(s)) \in BOOLEAN
    OBVIOUS
  <2> QED
    BY <1>3, <2>1 DEF Closing, SlotRecs, Kinds
<1> HIDE DEF r
<1>5. Becomes(s, r, n) /\ slot'[s] = r /\ net'[c] = n /\ queue' = queue /\ free' = free
  BY <1>1, <1>2, <1>3, <1>4, ChangeBecomes
<1>6. Runs(s) /\ at' = s /\ pc' = "sent" /\ batch' = batch
  BY <1>1, <1>3, StepRuns DEF Typed, Acting
<1>7. Pools(s)
  BY <1>1, <1>4, <1>5, PoolsStay
<1>8. Placed(s)'
  BY <1>1, <1>2, <1>3, <1>4, <1>5, <1>6 DEF Placed, pool
<1>9. Fits(s)'
  BY <1>2, <1>3, <1>4, <1>5 DEF Fits
<1>10. Ends(s)'
  <2>1. Asks(s)' = Asks(s)
    BY <1>4, <1>5 DEF Asks
  <2>2. AnswersTheLast(s) => n.gone \/ (n.fin /\ slot[s].end = n.sent)
    BY <1>2, LastFacts
  <2> QED
    BY <1>2, <1>3, <1>4, <1>5, <1>6, <2>1, <2>2 DEF Ends
<1>11. Scans(s)' /\ Clocks(s)' /\ Waits(s)'
  BY <1>2, <1>3, <1>4, <1>5, <1>6 DEF Scans, Clocks, Waits
<1>12. Hears(s)'
  BY <1>1, <1>2, <1>3, <1>4, <1>5, <1>6 DEF Hears, Told, ToldEnd, Reading, Step
<1> QED
  BY <1>2, <1>5, <1>6, <1>7, <1>8, <1>9, <1>10, <1>11, <1>12, SlotStep DEF Sound

\* An answer that goes out in part waits to write, on a deadline.
LEMMA FinishPartStep ==
  ASSUME LoopAssumption, Inductive, NEW s \in Slots, at = s, FinishPart(s)
  PROVE  Inductive'
<1>0. PICK left \in 1 .. Parts :
        AwaitWrite(s, [Closing(s) EXCEPT !.due = "send", !.left = left],
                   [net[slot[s].fd] EXCEPT !.room = FALSE])
  BY DEF FinishPart
<1> DEFINE c == slot[s].fd
           r == [[Closing(s) EXCEPT !.due = "send", !.left = left] EXCEPT !.armed = FALSE]
           n == Writes([net[c] EXCEPT !.room = FALSE])
<1>1. /\ Step(s, "finish", Then) /\ Change(s, r, n) /\ UNCHANGED <<pool, short>>
  BY <1>0 DEF FinishPart, AwaitWrite
<1>2. slot[s].fd # None /\ slot[s].kind = "processing" /\ ~slot[s].offloaded /\ pc = "finish"
  BY <1>1 DEF Step, Inductive, Sound, Placed, Blank
<1>3. /\ Typed /\ Once /\ slot[s] \in SlotRecs /\ c \in Conns /\ net[c] \in ConnRecs
      /\ Placed(s) /\ Fits(s) /\ Ends(s) /\ Scans(s) /\ Hears(s) /\ Clocks(s) /\ Waits(s)
  BY <1>2, HeldFacts
<1>4. /\ r \in SlotRecs /\ r.fd = c /\ r.kind = "responding" /\ r.from = slot[s].from
      /\ r.to = slot[s].to /\ r.end = slot[s].end /\ r.scanned = slot[s].scanned
      /\ r.eof = slot[s].eof /\ r.close = (slot[s].close \/ AnswersTheLast(s))
      /\ r.kept = slot[s].kept /\ r.started = slot[s].started /\ r.due = "send"
      /\ r.armed = FALSE /\ r.offloaded = slot[s].offloaded
  <2>1. (slot[s].close \/ AnswersTheLast(s)) \in BOOLEAN /\ left \in Nat
    BY DEF LoopAssumption
  <2> QED
    BY <1>3, <2>1 DEF Closing, SlotRecs, Kinds
<1>5. /\ n \in ConnRecs /\ n.at = net[c].at /\ n.script = net[c].script /\ n.sent = net[c].sent
      /\ n.fin = net[c].fin /\ n.gone = net[c].gone
  BY <1>3 DEF Writes, ConnRecs
<1> HIDE DEF r, n
<1>6. Becomes(s, r, n) /\ slot'[s] = r /\ net'[c] = n /\ queue' = queue /\ free' = free
  BY <1>1, <1>2, <1>4, <1>5, ChangeBecomes
<1>7. Runs(s) /\ at' = s /\ pc' \in {"eager", "drain"} /\ batch' = batch
  BY <1>1, <1>3, ThenActing, StepRuns DEF Typed
<1>8. Pools(s)
  BY <1>1, <1>4, <1>6, PoolsStay
<1>9. Placed(s)'
  BY <1>1, <1>2, <1>3, <1>4, <1>6, <1>7 DEF Placed, pool
<1>10. Fits(s)'
  BY <1>2, <1>3, <1>4, <1>5, <1>6 DEF Fits
<1>11. Ends(s)'
  <2>1. Asks(s)' = Asks(s)
    BY <1>4, <1>5, <1>6 DEF Asks
  <2>2. AnswersTheLast(s) => net[c].gone \/ (net[c].fin /\ slot[s].end = net[c].sent)
    BY <1>2, LastFacts
  <2> QED
    BY <1>2, <1>3, <1>4, <1>5, <1>6, <1>7, <2>1, <2>2 DEF Ends
<1>12. Scans(s)' /\ Clocks(s)' /\ Waits(s)'
  BY <1>2, <1>3, <1>4, <1>6, <1>7 DEF Scans, Clocks, Waits
<1>13. Hears(s)'
  BY <1>4, <1>6, <1>7 DEF Hears, Reading
<1> QED
  BY <1>2, <1>6, <1>7, <1>8, <1>9, <1>10, <1>11, <1>12, <1>13, SlotStep DEF Sound

\* An answer to a client that reset closes its slot.
LEMMA FinishFailsStep ==
  ASSUME LoopAssumption, Inductive, NEW s \in Slots, at = s, FinishFails(s)
  PROVE  Inductive'
<1>1. Step(s, "finish", Then) /\ CloseSlot(s) /\ UNCHANGED <<pool, short>>
  BY DEF FinishFails
<1>2. slot[s].fd # None /\ ~slot[s].offloaded
  BY <1>1 DEF Step, Inductive, Sound, Placed, Blank
<1>3. Leaves(s)
  BY <1>1, StepLeaves DEF Inductive, Typed
<1> QED
  BY <1>1, <1>2, <1>3, CloseStep

\* The last answer closes its slot.
LEMMA SentLastStep ==
  ASSUME LoopAssumption, Inductive, NEW s \in Slots, at = s, SentLast(s)
  PROVE  Inductive'
<1>1. Step(s, "sent", Then) /\ CloseSlot(s) /\ UNCHANGED <<pool, short>>
  BY DEF SentLast
<1>2. slot[s].fd # None /\ ~slot[s].offloaded
  BY <1>1 DEF Step, Inductive, Sound, Placed, Blank
<1>3. Leaves(s)
  BY <1>1, StepLeaves DEF Inductive, Typed
<1> QED
  BY <1>1, <1>2, <1>3, CloseStep

\* Reads over is what the kernel then says: what is ready is reported.
LEMMA ReadsFacts ==
  ASSUME NEW m \in ConnRecs, NEW to \in Nat
  PROVE  LET n == Reads(m, to) IN
         /\ n \in ConnRecs /\ n.at = m.at /\ n.script = m.script /\ n.sent = m.sent
         /\ n.fin = m.fin /\ n.gone = m.gone /\ n.interest = "read" /\ n.timer = m.timer
         /\ n.sent > to \/ n.fin \/ n.gone => n.ready = TRUE
<1> DEFINE n == Reads(m, to)
<1>1. Readable(m, to) \in BOOLEAN
  BY DEF Readable
<1>2. /\ n \in ConnRecs /\ n.at = m.at /\ n.script = m.script /\ n.sent = m.sent
      /\ n.fin = m.fin /\ n.gone = m.gone /\ n.interest = "read" /\ n.timer = m.timer
      /\ n.ready = Readable(m, to)
  BY <1>1 DEF Reads, ConnRecs
<1> HIDE DEF n
<1>3. n.sent > to \/ n.fin \/ n.gone => n.ready = TRUE
  BY <1>2 DEF Readable
<1> QED
  BY <1>2, <1>3 DEF n

\* Behind any other the slot reads again, on the idle clock and in the idle queue.
LEMMA EndRequestStep ==
  ASSUME LoopAssumption, Inductive, NEW s \in Slots, at = s, EndRequest(s)
  PROVE  Inductive'
<1> DEFINE c    == slot[s].fd
           from == IF slot[s].end > 0 /\ slot[s].end < slot[s].to THEN slot[s].end ELSE slot[s].to
           r    == Kept(s)
           n    == IF slot[s].armed THEN net[c] ELSE Reads(net[c], slot[s].to)
<1>1. /\ Step(s, "sent", Then) /\ slot' = [slot EXCEPT ![s] = r]
      /\ net' = [net EXCEPT ![c] = IF slot[s].armed THEN @ ELSE Reads(@, slot[s].to)]
      /\ queue' = PushBack("idle", s) /\ UNCHANGED <<free, active, pool, short>>
  BY DEF EndRequest
<1>2. slot[s].fd # None /\ slot[s].kind = "responding" /\ ~slot[s].offloaded
  BY <1>1 DEF Step, Inductive, Sound, Placed, Blank
<1>3. /\ Typed /\ Once /\ slot[s] \in SlotRecs /\ c \in Conns /\ net[c] \in ConnRecs
      /\ Placed(s) /\ Fits(s) /\ Ends(s) /\ Scans(s) /\ Hears(s) /\ Clocks(s) /\ Waits(s)
  BY <1>2, HeldFacts
<1>4. from \in Nat /\ from <= slot[s].to /\ slot[s].to \in Nat
  BY <1>3 DEF SlotRecs
<1>5. /\ r \in SlotRecs /\ r.fd = c /\ r.kind = "headers" /\ r.from = from /\ r.to = slot[s].to
      /\ r.end = 0 /\ r.scanned = from /\ r.eof = slot[s].eof /\ r.close = FALSE
      /\ r.kept = TRUE /\ r.started = FALSE /\ r.due = "idle" /\ r.armed = TRUE
      /\ r.offloaded = slot[s].offloaded
  <2> DEFINE p == Prepared(slot[s], TRUE)
  <2>1. r = [p EXCEPT !.kept = TRUE, !.started = FALSE, !.due = "idle", !.armed = TRUE]
    BY DEF Kept
  <2>2. p = Prepared(slot[s], TRUE)
    OBVIOUS
  <2> HIDE DEF p, r
  <2>3. /\ p \in SlotRecs /\ p.fd = c /\ p.kind = "headers" /\ p.from = from
        /\ p.to = slot[s].to /\ p.end = 0 /\ p.scanned = from /\ p.eof = slot[s].eof
        /\ p.close = FALSE /\ p.offloaded = slot[s].offloaded
    <3>1. slot[s] \in SlotRecs
      BY <1>3
    <3> QED
      BY <2>2, <3>1, KeptFacts
  <2> HIDE DEF from
  <2> QED
    BY <2>1, <2>3 DEF SlotRecs
<1>6. /\ n \in ConnRecs /\ n.at = net[c].at /\ n.script = net[c].script /\ n.sent = net[c].sent
      /\ n.fin = net[c].fin /\ n.gone = net[c].gone
  <2>1. CASE slot[s].armed
    BY <1>3, <2>1
  <2>2. CASE ~slot[s].armed
    <3>1. n = Reads(net[c], slot[s].to)
      BY <2>2
    <3>2. slot[s].to \in Nat /\ net[c] \in ConnRecs
      BY <1>3, <1>4
    <3> HIDE DEF n
    <3> QED
      BY <3>1, <3>2, ReadsFacts
  <2> QED
    BY <2>1, <2>2
<1>7. /\ n.interest = "read"
      /\ n.sent > slot[s].to => (slot[s].armed /\ Told(c)) \/ n.ready
      /\ n.fin \/ n.gone => (slot[s].armed /\ ToldEnd(c)) \/ slot[s].eof \/ n.ready
      /\ slot[s].armed => n = net[c]
  <2>1. CASE slot[s].armed
    BY <1>1, <1>2, <1>3, <2>1 DEF Hears, Step
  <2>2. CASE ~slot[s].armed
    <3>1. n = Reads(net[c], slot[s].to)
      BY <2>2
    <3>2. slot[s].to \in Nat /\ net[c] \in ConnRecs
      BY <1>3, <1>4
    <3> HIDE DEF n
    <3>3. n.interest = "read" /\ (n.sent > slot[s].to \/ n.fin \/ n.gone => n.ready)
      BY <3>1, <3>2, ReadsFacts
    <3> QED
      BY <2>2, <3>3
  <2> QED
    BY <2>1, <2>2
<1> HIDE DEF r, n, from
<1>8. net \in [Conns -> ConnRecs] /\ slot \in [Slots -> SlotRecs]
  BY <1>3 DEF Typed
<1>9. net' = [net EXCEPT ![c] = n]
  BY <1>1 DEF n
<1>10. slot'[s] = r /\ net'[c] = n
  BY <1>1, <1>3, <1>8, <1>9
<1>11. Becomes(s, r, n)
  BY <1>1, <1>5, <1>6, <1>9 DEF Becomes
<1>12. Runs(s) /\ at' = s /\ pc' \in {"eager", "drain"} /\ batch' = batch
  BY <1>1, <1>3, ThenActing, StepRuns DEF Typed
<1>13. Pools(s)
  BY <1>1, <1>5, <1>10, PoolsStay
<1>14. Contains(queue'["idle"], s)
  BY <1>1, <1>3, PushBackFacts DEF Keys
<1>15. Placed(s)'
  BY <1>1, <1>2, <1>3, <1>5, <1>10, <1>12 DEF Placed, pool
<1>16. Fits(s)'
  BY <1>2, <1>3, <1>4, <1>5, <1>6, <1>10 DEF Fits, SlotRecs
<1>17. Scans(s)'
  <2>1. \A i \in from + 1 .. from : n.script[i] = "a"
    BY <1>4
  <2> QED
    BY <1>5, <1>10, <1>12, <2>1 DEF Scans
<1>18. Ends(s)' /\ Clocks(s)' /\ Waits(s)'
  BY <1>2, <1>3, <1>5, <1>6, <1>10, <1>12, <1>14 DEF Ends, Clocks, Waits
<1>19. Hears(s)'
  <2>1. n.ready => Told(c)' /\ ToldEnd(c)'
    BY <1>5, <1>7, <1>10 DEF Told, ToldEnd
  <2>2. slot[s].armed => (Told(c)' <=> Told(c)) /\ (ToldEnd(c)' <=> ToldEnd(c))
    BY <1>5, <1>7, <1>10, <1>12 DEF Told, ToldEnd
  <2> QED
    BY <1>5, <1>7, <1>10, <1>12, <2>1, <2>2 DEF Hears
<1> QED
  BY <1>2, <1>11, <1>12, <1>13, <1>15, <1>16, <1>17, <1>18, <1>19, SlotStep DEF Sound

\* What is pipelined behind a request is framed next.
LEMMA DrainNextStep ==
  ASSUME LoopAssumption, Inductive, NEW s \in Slots, at = s, DrainNext(s)
  PROVE  Inductive'
<1> DEFINE c == slot[s].fd
<1>1. /\ Step(s, "drain", "frame") /\ slot[s].fd # None /\ slot[s].kind = "headers"
      /\ UNCHANGED <<slot, net, held, pool, short>>
  BY DEF DrainNext, Pipelined
<1>2. /\ Typed /\ Once /\ slot[s] \in SlotRecs /\ c \in Conns /\ net[c] \in ConnRecs
      /\ Placed(s) /\ Fits(s) /\ Ends(s) /\ Scans(s) /\ Hears(s) /\ Clocks(s) /\ Waits(s)
  BY <1>1, HeldFacts
<1>3. Becomes(s, slot[s], net[c])
  BY <1>1, BecomesSelf DEF held
<1>4. Runs(s) /\ at' = s /\ pc' = "frame" /\ pc = "drain" /\ batch' = batch
  BY <1>1, <1>2, StepRuns DEF Typed, Acting
<1>5. Pools(s)
  BY <1>1, PoolsStay
<1>6. Placed(s)'
  BY <1>1, <1>2, <1>4 DEF Placed, pool, held
<1>7. Fits(s)' /\ Scans(s)' /\ Ends(s)' /\ Clocks(s)' /\ Waits(s)'
  BY <1>1, <1>2, <1>4 DEF Fits, Scans, Ends, Asks, Clocks, Waits, held, Placed
<1>8. Hears(s)'
  BY <1>1, <1>2, <1>4 DEF Hears, Told, ToldEnd
<1> QED
  BY <1>1, <1>3, <1>4, <1>5, <1>6, <1>7, <1>8, SlotStep DEF Sound

\* The registration of a slot's reads: armed, it hears of what there is to hear.
LEMMA ArmReadsFacts ==
  ASSUME LoopAssumption, Inductive, NEW s \in Slots, slot[s].fd # None,
         NEW still \in BOOLEAN, still => slot[s].armed,
         ~(at = s /\ pc \in {"read", "body"}),
         ArmReads(s, [slot[s] EXCEPT !.armed = still]), UNCHANGED batch
  PROVE  \E r \in SlotRecs, n \in ConnRecs :
           /\ Becomes(s, r, n) /\ slot'[s] = r /\ net'[slot[s].fd] = n
           /\ r = [slot[s] EXCEPT !.armed = TRUE] /\ queue' = queue /\ free' = free
           /\ n.timer = net[slot[s].fd].timer /\ n.interest = "read"
           /\ n.sent > r.to => Told(r.fd)'
           /\ n.fin \/ n.gone => ToldEnd(r.fd)' \/ (still /\ r.eof)
<1> DEFINE c == slot[s].fd
           q == [slot[s] EXCEPT !.armed = still]
           r == [slot[s] EXCEPT !.armed = TRUE]
           n == IF still THEN net[c] ELSE Reads(net[c], slot[s].to)
<1>1. slot[s] \in SlotRecs /\ c \in Conns /\ net[c] \in ConnRecs /\ Hears(s)
      /\ net \in [Conns -> ConnRecs] /\ Typed
  BY HeldFacts
<1>2. q.fd = c /\ q.to = slot[s].to /\ q.armed = still
  BY <1>1 DEF SlotRecs
<1>3. [q EXCEPT !.armed = TRUE] = r
  BY <1>1 DEF SlotRecs
<1>4. Change(s, r, n)
  BY <1>2, <1>3 DEF ArmReads
<1>5. r \in SlotRecs /\ r.fd = c /\ r.to = slot[s].to /\ r.eof = slot[s].eof
  BY <1>1 DEF SlotRecs
<1>6. /\ n \in ConnRecs /\ n.at = net[c].at /\ n.script = net[c].script /\ n.sent = net[c].sent
      /\ n.fin = net[c].fin /\ n.gone = net[c].gone
      /\ n.timer = net[c].timer /\ n.interest = "read"
  <2>1. CASE still
    BY <1>1, <2>1 DEF Hears
  <2>2. CASE ~still
    <3>1. n = Reads(net[c], slot[s].to)
      BY <2>2
    <3>2. slot[s].to \in Nat /\ net[c] \in ConnRecs
      BY <1>1 DEF SlotRecs
    <3> HIDE DEF n
    <3>3. /\ n \in ConnRecs /\ n.at = net[c].at /\ n.script = net[c].script
          /\ n.sent = net[c].sent /\ n.fin = net[c].fin /\ n.gone = net[c].gone
          /\ n.interest = "read" /\ n.timer = net[c].timer
      BY <3>1, <3>2, ReadsFacts
    <3>4. n.sent > slot[s].to \/ n.fin \/ n.gone => n.ready
      BY <3>1, <3>2, ReadsFacts
    <3> QED
      BY <2>2, <3>3, <3>4
  <2> QED
    BY <2>1, <2>2
<1>7. /\ n.sent > slot[s].to => (Told(c) /\ still) \/ n.ready
      /\ n.fin \/ n.gone => (ToldEnd(c) /\ still) \/ n.ready \/ (still /\ slot[s].eof)
      /\ still => n = net[c]
  <2>1. CASE still
    BY <1>1, <2>1 DEF Hears
  <2>2. CASE ~still
    <3>1. n = Reads(net[c], slot[s].to)
      BY <2>2
    <3>2. slot[s].to \in Nat /\ net[c] \in ConnRecs
      BY <1>1 DEF SlotRecs
    <3> HIDE DEF n
    <3>3. /\ n \in ConnRecs /\ n.at = net[c].at /\ n.script = net[c].script
          /\ n.sent = net[c].sent /\ n.fin = net[c].fin /\ n.gone = net[c].gone
          /\ n.interest = "read" /\ n.timer = net[c].timer
      BY <3>1, <3>2, ReadsFacts
    <3>4. n.sent > slot[s].to \/ n.fin \/ n.gone => n.ready
      BY <3>1, <3>2, ReadsFacts
    <3> QED
      BY <2>2, <3>3, <3>4
  <2> QED
    BY <2>1, <2>2
<1> HIDE DEF r, n, q
<1>8. Becomes(s, r, n) /\ slot'[s] = r /\ net'[c] = n /\ queue' = queue /\ free' = free
  BY <1>4, <1>5, <1>6, ChangeBecomes
<1>9. /\ n.ready => Told(c)' /\ ToldEnd(c)'
      /\ still => (Told(c)' <=> Told(c)) /\ (ToldEnd(c)' <=> ToldEnd(c))
  BY <1>5, <1>6, <1>7, <1>8 DEF Told, ToldEnd
<1>10. PICK a \in SlotRecs, b \in ConnRecs : a = r /\ b = n
  BY <1>5, <1>6
<1>11. /\ a.fd = c /\ slot'[s].fd = c /\ a.to = slot[s].to /\ a.eof = slot[s].eof
       /\ a = [slot[s] EXCEPT !.armed = TRUE]
  BY <1>5, <1>8, <1>10 DEF r
<1>12. (Told(a.fd)' <=> Told(c)') /\ (ToldEnd(a.fd)' <=> ToldEnd(c)')
  BY <1>11 DEF Told, ToldEnd
<1>13. /\ b.sent > a.to => Told(a.fd)'
       /\ b.fin \/ b.gone => ToldEnd(a.fd)' \/ (still /\ a.eof)
  BY <1>7, <1>9, <1>10, <1>11, <1>12
<1>14. Becomes(s, a, b) /\ slot'[s] = a /\ net'[c] = b
  BY <1>8, <1>10
<1> QED
  BY <1>6, <1>8, <1>10, <1>11, <1>13, <1>14

\* What is armed behind a handler's part is as sound as the handler left it.
LEMMA ArmedStep ==
  ASSUME LoopAssumption, Inductive, NEW s \in Slots, at = s, slot[s].fd # None,
         pc \in {"drain", "eager"}, slot[s].kind \in {"headers", "body"},
         NEW still \in BOOLEAN, still => slot[s].armed,
         ArmReads(s, [slot[s] EXCEPT !.armed = still]), UNCHANGED <<batch, pool>>,
         Runs(s), still /\ slot[s].eof => at' = s,
         (at' = s /\ pc' = "drain") \/ (at' = None /\ slot[s].scanned >= slot[s].to)
                  \/ (at' = None /\ slot[s].kind # "headers")
  PROVE  Inductive'
<1> DEFINE c == slot[s].fd
<1>1. /\ Typed /\ Once /\ slot[s] \in SlotRecs /\ c \in Conns /\ net[c] \in ConnRecs
      /\ Placed(s) /\ Fits(s) /\ Ends(s) /\ Scans(s) /\ Hears(s) /\ Clocks(s) /\ Waits(s)
  BY HeldFacts
<1>2. PICK r \in SlotRecs, n \in ConnRecs :
        /\ Becomes(s, r, n) /\ slot'[s] = r /\ net'[c] = n
        /\ r = [slot[s] EXCEPT !.armed = TRUE] /\ queue' = queue /\ free' = free
        /\ n.timer = net[c].timer /\ n.interest = "read"
        /\ n.sent > r.to => Told(r.fd)'
        /\ n.fin \/ n.gone => ToldEnd(r.fd)' \/ (still /\ r.eof)
  BY ArmReadsFacts
<1>3. /\ r \in SlotRecs /\ r.fd = c /\ r.kind = slot[s].kind /\ r.from = slot[s].from
      /\ r.to = slot[s].to /\ r.end = slot[s].end /\ r.scanned = slot[s].scanned
      /\ r.eof = slot[s].eof /\ r.close = slot[s].close /\ r.kept = slot[s].kept
      /\ r.started = slot[s].started /\ r.due = slot[s].due /\ r.armed = TRUE
      /\ r.offloaded = slot[s].offloaded
  BY <1>1, <1>2 DEF SlotRecs
<1>4. n.at = net[c].at /\ n.script = net[c].script /\ n.sent = net[c].sent
      /\ n.fin = net[c].fin /\ n.gone = net[c].gone
  BY <1>2 DEF Becomes
<1>5. Pools(s)
  BY <1>2, <1>3, PoolsStay
<1>6. ~slot[s].offloaded
  BY <1>1 DEF Placed
<1>7. /\ at' = s => pc' = "drain"
      /\ at' # s /\ slot[s].kind = "headers" => slot[s].scanned = slot[s].to
  BY <1>1 DEF Fits, SlotRecs, LoopAssumption
<1>8. Placed(s)'
  BY <1>1, <1>2, <1>3, <1>6, <1>7 DEF Placed, pool
<1>9. Fits(s)'
  BY <1>1, <1>2, <1>3, <1>4 DEF Fits
<1>10. Scans(s)' /\ Ends(s)' /\ Clocks(s)' /\ Waits(s)'
  BY <1>1, <1>2, <1>3, <1>4, <1>6, <1>7 DEF Scans, Ends, Clocks, Waits
<1>11. Hears(s)'
  BY <1>2, <1>3, <1>7 DEF Hears
<1> QED
  BY <1>2, <1>5, <1>8, <1>9, <1>10, <1>11, SlotStep DEF Sound

\* When there is none, the reads are armed and the handler returns.
LEMMA DrainOverStep ==
  ASSUME LoopAssumption, Inductive, NEW s \in Slots, at = s, DrainOver(s)
  PROVE  Inductive'
<1> DEFINE c == slot[s].fd
<1>1. Return(s, "drain") /\ ~Pipelined(s) /\ UNCHANGED pool
  BY DEF DrainOver
<1>2. Runs(s) /\ at' = None /\ pc' = "none" /\ pc = "drain" /\ batch' = batch
  BY <1>1, ReturnRuns
<1>3. CASE slot[s].fd = None
  <2>1. UNCHANGED <<slot, net, held>> /\ short' = FALSE /\ eager' = FALSE /\ UNCHANGED pass
    BY <1>1, <1>3 DEF DrainOver, Return
  <2>2. phase' # "events" => batch = {}
    BY <2>1 DEF pass, Inductive, Standing
  <2> QED
    BY <1>1, <1>2, <1>3, <2>1, <2>2, PointStep DEF pass, Admitting, Inductive, Typed
<1>4. CASE slot[s].fd # None /\ slot[s].kind \in {"headers", "body"}
  <2> DEFINE still == slot[s].armed /\ ~slot[s].eof
  <2>1. ArmReads(s, [slot[s] EXCEPT !.armed = still])
    BY <1>4 DEF DrainOver
  <2>2. still \in BOOLEAN /\ (still => slot[s].armed /\ ~slot[s].eof)
    OBVIOUS
  <2> HIDE DEF still
  <2>3. slot[s] \in SlotRecs
    BY <1>4, HeldFacts
  <2>4. slot[s].scanned >= slot[s].to \/ slot[s].kind # "headers"
    BY <1>1, <1>4, <2>3 DEF Pipelined, SlotRecs
  <2> QED
    BY <1>1, <1>2, <1>4, <2>1, <2>2, <2>4, ArmedStep
<1>5. CASE slot[s].fd # None /\ slot[s].kind \notin {"headers", "body"}
  <2>1. UNCHANGED <<slot, net, held>>
    BY <1>5 DEF DrainOver
  <2>2. /\ Typed /\ Once /\ slot[s] \in SlotRecs /\ c \in Conns /\ net[c] \in ConnRecs
          /\ Placed(s) /\ Fits(s) /\ Ends(s) /\ Scans(s) /\ Hears(s) /\ Clocks(s) /\ Waits(s)
    BY <1>5, HeldFacts
  <2>3. Becomes(s, slot[s], net[c])
    BY <1>5, <2>1, BecomesSelf DEF held
  <2>4. Pools(s)
    BY <1>1, <2>1, PoolsStay
  <2>5. at' # s /\ slot[s].kind \in {"processing", "responding", "lingering"}
    BY <1>2, <1>5, <2>2 DEF LoopAssumption, SlotRecs, Kinds
  <2>6. Placed(s)'
    BY <1>1, <1>2, <1>5, <2>1, <2>2, <2>5 DEF Placed, pool, held
  <2>7. Fits(s)' /\ Scans(s)' /\ Ends(s)' /\ Clocks(s)' /\ Waits(s)'
    BY <1>2, <1>5, <2>1, <2>2, <2>5 DEF Fits, Scans, Ends, Asks, Clocks, Waits, held
  <2>8. Hears(s)'
    BY <1>2, <1>5, <2>1, <2>2, <2>5 DEF Hears, Told, ToldEnd, Reading, Fits
  <2> QED
    BY <1>2, <1>5, <2>3, <2>4, <2>6, <2>7, <2>8, SlotStep DEF Sound
<1> QED
  BY <1>3, <1>4, <1>5

\* A new connection's reads are registered behind its first read.
LEMMA EagerStep ==
  ASSUME LoopAssumption, Inductive, NEW s \in Slots, at = s, Eager(s)
  PROVE  Inductive'
<1> DEFINE c == slot[s].fd
<1>1. /\ pc = "eager" /\ pc' = "drain" /\ eager' = FALSE /\ UNCHANGED <<at, short, pool, pass>>
  BY DEF Eager
<1>2. Runs(s) /\ at' = s
  BY <1>1 DEF Runs, pass, Inductive, Typed, Acting, LoopAssumption
<1>3. CASE slot[s].fd = None
  <2>1. UNCHANGED <<slot, net, held>>
    BY <1>3 DEF Eager
  <2>2. phase' # "events" => batch = {}
    BY <1>1 DEF pass, Inductive, Standing
  <2>3. short' \in BOOLEAN
    BY <1>1 DEF Inductive, Typed
  <2>4. at' = None <=> pc' \in Admitting \cup {"none"}
    BY <1>1, <1>2 DEF Admitting, LoopAssumption
  <2> QED
    BY <1>1, <1>3, <2>1, <2>2, <2>3, <2>4, PointStep DEF pass, Admitting, Acting, Inductive, Typed
<1>4. CASE slot[s].fd # None /\ slot[s].kind = "headers"
  <2>1. slot[s] \in SlotRecs /\ Hears(s)
    BY <1>4, HeldFacts
  <2>2. ArmReads(s, slot[s]) /\ UNCHANGED batch
    BY <1>1, <1>4 DEF Eager, pass
  <2>3. slot[s] = [slot[s] EXCEPT !.armed = slot[s].armed] /\ slot[s].armed \in BOOLEAN
    BY <2>1 DEF SlotRecs
  <2> QED
    BY <1>1, <1>2, <1>4, <2>2, <2>3, ArmedStep
<1>5. CASE slot[s].fd # None /\ slot[s].kind # "headers"
  <2>1. UNCHANGED <<slot, net, held>>
    BY <1>5 DEF Eager
  <2>2. /\ Typed /\ Once /\ slot[s] \in SlotRecs /\ c \in Conns /\ net[c] \in ConnRecs
          /\ Placed(s) /\ Fits(s) /\ Ends(s) /\ Scans(s) /\ Hears(s) /\ Clocks(s) /\ Waits(s)
    BY <1>5, HeldFacts
  <2>3. Becomes(s, slot[s], net[c])
    BY <1>5, <2>1, BecomesSelf DEF held
  <2>4. Pools(s)
    BY <1>1, <2>1, PoolsStay
  <2>5. batch' = batch
    BY <1>1 DEF pass
  <2>6. Placed(s)'
    BY <1>1, <1>2, <1>5, <2>1, <2>2 DEF Placed, pool, held
  <2>7. Fits(s)' /\ Scans(s)' /\ Ends(s)' /\ Clocks(s)' /\ Waits(s)'
    BY <1>1, <1>2, <1>5, <2>1, <2>2 DEF Fits, Scans, Ends, Asks, Clocks, Waits, held
  <2>8. Hears(s)'
    BY <1>1, <1>2, <1>5, <2>1, <2>2, <2>5 DEF Hears, Told, ToldEnd
  <2> QED
    BY <1>2, <1>5, <2>3, <2>4, <2>6, <2>7, <2>8, SlotStep DEF Sound
<1> QED
  BY <1>3, <1>4, <1>5

\* A completion goes out on the connection that asked, which its slot still holds.
LEMMA CompletesStep ==
  ASSUME LoopAssumption, Inductive, NEW s \in Slots, Completes(s)
  PROVE  Inductive'
<1> DEFINE c == slot[s].fd
           r == [slot[s] EXCEPT !.offloaded = FALSE]
           n == net[c]
<1>1. /\ pc = "none" /\ slot[s].offloaded /\ UNCHANGED <<net, queue, active, pass>>
      /\ job' = [job EXCEPT ![s] = NoJob] /\ inflight' = inflight - 1
      /\ slot' = [slot EXCEPT ![s] = r]
  BY DEF Completes
<1>2. slot[s].fd # None /\ slot[s].kind = "processing"
  BY <1>1 DEF Inductive, Sound, Placed, Blank
<1>3. Handle("finish", s) /\ UNCHANGED free
  BY <1>2 DEF Completes
<1>4. /\ Typed /\ Once /\ slot[s] \in SlotRecs /\ c \in Conns /\ net[c] \in ConnRecs
      /\ Placed(s) /\ Fits(s) /\ Ends(s) /\ Scans(s) /\ Hears(s) /\ Clocks(s) /\ Waits(s)
      /\ slot \in [Slots -> SlotRecs] /\ job \in [Slots -> Jobs] /\ Standing
  BY <1>2, HeldFacts DEF Typed
<1>5. at = None /\ at # s
  BY <1>1, <1>4 DEF Standing, LoopAssumption
<1>6. /\ r \in SlotRecs /\ r.fd = c /\ r.kind = slot[s].kind /\ r.from = slot[s].from
      /\ r.to = slot[s].to /\ r.end = slot[s].end /\ r.scanned = slot[s].scanned
      /\ r.eof = slot[s].eof /\ r.close = slot[s].close /\ r.kept = slot[s].kept
      /\ r.started = slot[s].started /\ r.due = slot[s].due /\ r.armed = slot[s].armed
      /\ r.offloaded = FALSE
  BY <1>4 DEF SlotRecs
<1> HIDE DEF r
<1>7. Becomes(s, r, n) /\ slot'[s] = r /\ net'[c] = n
  BY <1>1, <1>2, <1>3, <1>4, <1>6, BecomesRecord
<1>8. Runs(s) /\ at' = s /\ pc' = "finish" /\ batch' = batch
  BY <1>1, <1>3, <1>4, <1>5 DEF Handle, Runs, pass, Typed, Acting, LoopAssumption
<1>9. job'[s] = NoJob /\ Pools(s)
  <2>1. NoJob \in Jobs
    BY DEF NoJob, Jobs
  <2> QED
    BY <1>1, <1>4, <1>6, <1>7, <2>1 DEF Pools
<1>10. Placed(s)'
  BY <1>1, <1>2, <1>3, <1>4, <1>6, <1>7, <1>8, <1>9 DEF Placed, NoJob
<1>11. Fits(s)'
  BY <1>2, <1>4, <1>6, <1>7 DEF Fits
<1>12. Ends(s)'
  <2>1. Asks(s)' = Asks(s)
    BY <1>6, <1>7 DEF Asks
  <2> QED
    BY <1>1, <1>2, <1>4, <1>6, <1>7, <2>1 DEF Ends
<1>13. Scans(s)' /\ Clocks(s)' /\ Waits(s)'
  BY <1>2, <1>4, <1>6, <1>7, <1>8 DEF Scans, Clocks, Waits
<1>14. Hears(s)'
  BY <1>1, <1>2, <1>4, <1>5, <1>6, <1>7, <1>8 DEF Hears, Told, ToldEnd, Reading
<1> QED
  BY <1>2, <1>7, <1>8, <1>9, <1>10, <1>11, <1>12, <1>13, <1>14, SlotStep DEF Sound

\* A deadline closes any slot that is not out with the pool.
LEMMA ExpiresStep ==
  ASSUME LoopAssumption, Inductive, NEW s \in Slots, Expires(s)
  PROVE  Inductive'
<1>1. /\ pc = "none" /\ slot[s].fd # None /\ ~slot[s].offloaded /\ CloseSlot(s)
      /\ UNCHANGED <<pool, handler, pass>>
  BY DEF Expires
<1>2. Leaves(s)
  BY <1>1 DEF Leaves, handler, pass, Inductive, Typed, Standing
<1> QED
  BY <1>1, <1>2, CloseStep DEF pool

-----------------------------------------------------------------------------
(* The events. *)

\* What is known of an event that is dispatched, and of its slot.
LEMMA DispatchFacts ==
  ASSUME LoopAssumption, Inductive, NEW s \in Slots, NEW e, NEW k, Dispatch(k, s, e)
  PROVE  /\ slot[s].fd = e.conn /\ slot[s].fd # None /\ e \in batch /\ e \in EventRecs /\ e.kind = k
         /\ pc = "none" /\ at = None /\ at # s /\ batch' = batch \ {e}
         /\ UNCHANGED <<phase, joining, inflight, job>>
         /\ e.eof => net[e.conn].fin \/ net[e.conn].gone
         /\ UNCHANGED handler => Runs(s) /\ Leaves(s) /\ at' = None /\ pc' = "none"
         /\ \A to \in Acting : Handle(to, s) => Runs(s) /\ at' = s /\ pc' = to
<1>1. Typed /\ Standing /\ Connected
  BY DEF Inductive
<1>2. /\ slot[s].fd = e.conn /\ e \in batch /\ e \in EventRecs /\ e.kind = k
      /\ pc = "none" /\ batch' = batch \ {e} /\ UNCHANGED <<phase, joining, inflight, job>>
  BY <1>1 DEF Dispatch, Take, Typed, pool
<1>3. slot[s].fd # None /\ at = None /\ at # s
  BY <1>1, <1>2 DEF EventRecs, LoopAssumption, Standing
<1>4. net[e.conn].at = "open"
  BY <1>2, <1>3, HeldFacts DEF Fits
<1>5. e.eof => net[e.conn].fin \/ net[e.conn].gone
  BY <1>1, <1>2, <1>4 DEF Connected
<1>6. UNCHANGED handler => Runs(s) /\ Leaves(s) /\ at' = None /\ pc' = "none"
  BY <1>1, <1>2, <1>3 DEF handler, Runs, Leaves, Typed
<1>7. ASSUME NEW to \in Acting, Handle(to, s) PROVE Runs(s) /\ at' = s /\ pc' = to
  BY <1>1, <1>2, <1>3, <1>7 DEF Handle, Runs, Typed, Acting, LoopAssumption
<1> QED
  BY <1>2, <1>3, <1>5, <1>6, <1>7

\* A read event of a slot that is out with the pool stops its reads.
LEMMA OnReadOffloadedStep ==
  ASSUME LoopAssumption, Inductive, NEW s \in Slots, NEW e, OnReadOffloaded(s, e)
  PROVE  Inductive'
<1> DEFINE c == slot[s].fd
           r == [slot[s] EXCEPT !.eof = @ \/ e.eof, !.armed = FALSE]
           n == [net[c] EXCEPT !.interest = "none", !.ready = FALSE]
<1>1. /\ Dispatch("read", s, e) /\ slot[s].offloaded /\ UNCHANGED handler
  BY DEF OnReadOffloaded
<1>2. /\ c = e.conn /\ c # None /\ e \in EventRecs /\ at # s /\ UNCHANGED <<inflight, job>>
      /\ (e.eof => net[c].fin \/ net[c].gone) /\ Runs(s) /\ at' = None /\ pc' = "none"
  BY <1>1, DispatchFacts
<1>3. /\ Typed /\ Once /\ slot[s] \in SlotRecs /\ c \in Conns /\ net[c] \in ConnRecs
      /\ Placed(s) /\ Fits(s) /\ Ends(s) /\ Scans(s) /\ Hears(s) /\ Clocks(s) /\ Waits(s)
  BY <1>2, HeldFacts
<1>4. Change(s, r, n) /\ slot[s].kind = "processing" /\ at' # s
  BY <1>1, <1>2, <1>3 DEF OnReadOffloaded, Placed, LoopAssumption
<1>5. /\ r \in SlotRecs /\ r.fd = c /\ r.kind = slot[s].kind /\ r.from = slot[s].from
      /\ r.to = slot[s].to /\ r.end = slot[s].end /\ r.scanned = slot[s].scanned
      /\ r.eof = (slot[s].eof \/ e.eof) /\ r.close = slot[s].close /\ r.kept = slot[s].kept
      /\ r.started = slot[s].started /\ r.due = slot[s].due /\ r.armed = FALSE
      /\ r.offloaded = slot[s].offloaded
  <2>1. (slot[s].eof \/ e.eof) \in BOOLEAN
    OBVIOUS
  <2> QED
    BY <1>3, <2>1 DEF SlotRecs
<1>6. /\ n \in ConnRecs /\ n.at = net[c].at /\ n.script = net[c].script /\ n.sent = net[c].sent
      /\ n.fin = net[c].fin /\ n.gone = net[c].gone
  BY <1>3 DEF ConnRecs
<1> HIDE DEF r, n
<1>7. Becomes(s, r, n) /\ slot'[s] = r /\ net'[c] = n /\ queue' = queue /\ free' = free
  BY <1>2, <1>4, <1>5, <1>6, ChangeBecomes
<1>8. Pools(s)
  BY <1>2, <1>5, <1>7, PoolsStay DEF pool
<1>9. Placed(s)'
  BY <1>2, <1>3, <1>4, <1>5, <1>7 DEF Placed
<1>10. Fits(s)'
  BY <1>2, <1>3, <1>4, <1>5, <1>6, <1>7 DEF Fits
<1>11. Ends(s)'
  <2>1. Asks(s)' = Asks(s)
    BY <1>5, <1>6, <1>7 DEF Asks
  <2> QED
    BY <1>1, <1>2, <1>3, <1>4, <1>5, <1>7, <2>1 DEF Ends
<1>12. Scans(s)' /\ Clocks(s)' /\ Waits(s)'
  BY <1>2, <1>3, <1>4, <1>5, <1>7 DEF Scans, Clocks, Waits
<1>13. Hears(s)'
  BY <1>4, <1>5, <1>7 DEF Hears, Reading
<1> QED
  BY <1>2, <1>7, <1>8, <1>9, <1>10, <1>11, <1>12, <1>13, SlotStep DEF Sound

\* A read event begins the read of a head or a body.
LEMMA OnReadStep ==
  ASSUME LoopAssumption, Inductive, NEW s \in Slots, NEW e, OnRead(s, e)
  PROVE  Inductive'
<1> DEFINE c  == slot[s].fd
           to == IF slot[s].kind = "headers" THEN "read" ELSE "body"
           r  == [slot[s] EXCEPT !.eof = @ \/ e.eof]
           n  == net[c]
<1>1. Dispatch("read", s, e) /\ slot[s].kind \in {"headers", "body"} /\ Handle(to, s)
  BY DEF OnRead
<1>2. /\ c = e.conn /\ c # None /\ e \in EventRecs /\ at # s /\ UNCHANGED <<inflight, job>>
      /\ (e.eof => net[c].fin \/ net[c].gone) /\ Runs(s) /\ at' = s /\ pc' = to
      /\ batch' = batch \ {e}
  BY <1>1, DispatchFacts DEF Acting
<1>3. /\ Typed /\ Once /\ slot[s] \in SlotRecs /\ c \in Conns /\ net[c] \in ConnRecs
      /\ Placed(s) /\ Fits(s) /\ Ends(s) /\ Scans(s) /\ Hears(s) /\ Clocks(s) /\ Waits(s)
  BY <1>2, HeldFacts
<1>4. Change(s, r, n) /\ ~slot[s].offloaded
  BY <1>1, <1>2, <1>3 DEF OnRead, Placed
<1>5. /\ r \in SlotRecs /\ r.fd = c /\ r.kind = slot[s].kind /\ r.from = slot[s].from
      /\ r.to = slot[s].to /\ r.end = slot[s].end /\ r.scanned = slot[s].scanned
      /\ r.eof = (slot[s].eof \/ e.eof) /\ r.close = slot[s].close /\ r.kept = slot[s].kept
      /\ r.started = slot[s].started /\ r.due = slot[s].due /\ r.armed = slot[s].armed
      /\ r.offloaded = slot[s].offloaded
  <2>1. (slot[s].eof \/ e.eof) \in BOOLEAN
    OBVIOUS
  <2> QED
    BY <1>3, <2>1 DEF SlotRecs
<1> HIDE DEF r
<1>6. Becomes(s, r, n) /\ slot'[s] = r /\ net'[c] = n /\ queue' = queue /\ free' = free
  BY <1>2, <1>3, <1>4, <1>5, ChangeBecomes
<1>7. Pools(s)
  BY <1>2, <1>5, <1>6, PoolsStay DEF pool
<1>8. Placed(s)'
  <2>1. /\ slot'[s].fd # None /\ ~slot'[s].offloaded /\ slot'[s].kind = slot[s].kind
        /\ pc' = "read" => slot'[s].kind = "headers"
        /\ pc' = "body" => slot'[s].kind = "body"
        /\ pc' \in {"read", "body"}
    BY <1>1, <1>2, <1>4, <1>5, <1>6
  <2>2. s \notin free' /\ job'[s] = NoJob
    BY <1>2, <1>3, <1>4, <1>6 DEF Placed
  <2> QED
    BY <2>1, <2>2 DEF Placed
<1>9. Fits(s)'
  <2>1. /\ slot'[s].fd = c /\ net'[c] = net[c] /\ slot'[s].kind = slot[s].kind
        /\ slot'[s].from = slot[s].from /\ slot'[s].to = slot[s].to
        /\ slot'[s].end = slot[s].end /\ slot'[s].scanned = slot[s].scanned
        /\ slot'[s].eof => net[c].fin \/ net[c].gone
    BY <1>2, <1>3, <1>5, <1>6 DEF Fits
  <2> QED
    BY <1>1, <1>2, <1>3, <2>1 DEF Fits
<1>10. Ends(s)'
  BY <1>1, <1>2, <1>4, <1>5, <1>6 DEF Ends
<1>11. Scans(s)' /\ Clocks(s)' /\ Waits(s)'
  BY <1>1, <1>2, <1>3, <1>5, <1>6 DEF Scans, Clocks, Waits
<1>12. Hears(s)'
  <2>1. slot[s].armed /\ net[c].interest = "read" /\ (n.fin \/ n.gone => ToldEnd(c))
    BY <1>1, <1>2, <1>3 DEF Hears, Reading
  <2>2. ToldEnd(c) => ToldEnd(c)' \/ e.eof
    BY <1>2, <1>5, <1>6 DEF ToldEnd
  <2> QED
    BY <1>1, <1>2, <1>5, <1>6, <2>1, <2>2 DEF Hears
<1> QED
  BY <1>2, <1>6, <1>7, <1>8, <1>9, <1>10, <1>11, <1>12, SlotStep DEF Sound

\* A read event of a lingering slot discards, or closes at the end.
LEMMA OnReadLingeringStep ==
  ASSUME LoopAssumption, Inductive, NEW s \in Slots, NEW e, OnReadLingering(s, e)
  PROVE  Inductive'
<1> DEFINE c  == slot[s].fd
           to == net[c].sent
           r  == [slot[s] EXCEPT !.eof = @ \/ e.eof, !.from = to, !.to = to, !.scanned = to]
           n  == net[c]
<1>1. Dispatch("read", s, e) /\ slot[s].kind = "lingering" /\ UNCHANGED handler
  BY DEF OnReadLingering
<1>2. /\ c = e.conn /\ c # None /\ e \in EventRecs /\ at # s /\ UNCHANGED <<inflight, job>>
      /\ (e.eof => net[c].fin \/ net[c].gone) /\ Runs(s) /\ Leaves(s) /\ at' = None
      /\ pc' = "none"
  BY <1>1, DispatchFacts
<1>3. /\ Typed /\ Once /\ slot[s] \in SlotRecs /\ c \in Conns /\ net[c] \in ConnRecs
      /\ Placed(s) /\ Fits(s) /\ Ends(s) /\ Scans(s) /\ Hears(s) /\ Clocks(s) /\ Waits(s)
  BY <1>2, HeldFacts
<1>4. ~slot[s].offloaded /\ at' # s
  BY <1>1, <1>2, <1>3 DEF Placed, LoopAssumption
<1>5. CASE n.fin \/ n.gone
  <2>1. CloseSlot(s)
    BY <1>2, <1>5 DEF OnReadLingering
  <2> QED
    BY <1>2, <1>4, <2>1, CloseStep DEF pool
<1>6. CASE ~(n.fin \/ n.gone)
  <2>1. Change(s, r, n)
    BY <1>2, <1>6 DEF OnReadLingering
  <2>2. /\ r \in SlotRecs /\ r.fd = c /\ r.kind = slot[s].kind /\ r.from = to /\ r.to = to
        /\ r.end = slot[s].end /\ r.scanned = to /\ r.eof = FALSE /\ r.close = slot[s].close
        /\ r.kept = slot[s].kept /\ r.started = slot[s].started /\ r.due = slot[s].due
        /\ r.armed = slot[s].armed /\ r.offloaded = slot[s].offloaded
    <3>1. (slot[s].eof \/ e.eof) = FALSE
      BY <1>1, <1>2, <1>3, <1>6 DEF Fits
    <3> QED
      BY <1>3, <3>1 DEF SlotRecs, ConnRecs
  <2> HIDE DEF r
  <2>3. Becomes(s, r, n) /\ slot'[s] = r /\ net'[c] = n /\ queue' = queue /\ free' = free
    BY <1>2, <1>3, <2>1, <2>2, ChangeBecomes
  <2>4. Pools(s)
    BY <1>2, <2>2, <2>3, PoolsStay DEF pool
  <2>5. Placed(s)'
    BY <1>1, <1>2, <1>3, <1>4, <2>2, <2>3 DEF Placed
  <2>6. Fits(s)'
    BY <1>1, <1>2, <1>3, <2>2, <2>3 DEF Fits, ConnRecs
  <2>7. Scans(s)' /\ Ends(s)' /\ Clocks(s)' /\ Waits(s)'
    BY <1>1, <1>2, <1>3, <1>4, <2>2, <2>3 DEF Scans, Ends, Clocks, Waits
  <2>8. Hears(s)'
    BY <1>1, <1>2, <1>3, <1>6, <2>2, <2>3 DEF Hears, ConnRecs
  <2> QED
    BY <1>2, <2>3, <2>4, <2>5, <2>6, <2>7, <2>8, SlotStep DEF Sound
<1> QED
  BY <1>5, <1>6

\* The rest of an answer waits for the socket: the reads give way, its clock runs.
LEMMA AwaitWriteStep ==
  ASSUME LoopAssumption, Inductive, NEW s \in Slots, slot[s].fd # None,
         slot[s].kind = "responding", at = None, at' = None, Runs(s), UNCHANGED <<inflight, job>>,
         NEW eof \in BOOLEAN, eof => slot[s].eof \/ net[slot[s].fd].fin \/ net[slot[s].fd].gone,
         NEW left \in Nat, NEW room \in BOOLEAN,
         AwaitWrite(s, [slot[s] EXCEPT !.eof = eof, !.left = left],
                    [net[slot[s].fd] EXCEPT !.room = room])
  PROVE  Inductive'
<1> DEFINE c == slot[s].fd
           r == [[slot[s] EXCEPT !.eof = eof, !.left = left] EXCEPT !.armed = FALSE]
           n == Writes([net[c] EXCEPT !.room = room])
<1>1. Change(s, r, n) /\ at # s /\ at' # s
  BY DEF AwaitWrite, LoopAssumption
<1>2. /\ Typed /\ Once /\ slot[s] \in SlotRecs /\ c \in Conns /\ net[c] \in ConnRecs
      /\ Placed(s) /\ Fits(s) /\ Ends(s) /\ Scans(s) /\ Hears(s) /\ Clocks(s) /\ Waits(s)
  BY HeldFacts
<1>3. ~slot[s].offloaded
  BY <1>2 DEF Placed
<1>4. /\ r \in SlotRecs /\ r.fd = c /\ r.kind = slot[s].kind /\ r.from = slot[s].from
      /\ r.to = slot[s].to /\ r.end = slot[s].end /\ r.scanned = slot[s].scanned /\ r.eof = eof
      /\ r.close = slot[s].close /\ r.kept = slot[s].kept /\ r.started = slot[s].started
      /\ r.due = slot[s].due /\ r.armed = FALSE /\ r.offloaded = slot[s].offloaded
  BY <1>2 DEF SlotRecs
<1>5. /\ n \in ConnRecs /\ n.at = net[c].at /\ n.script = net[c].script /\ n.sent = net[c].sent
      /\ n.fin = net[c].fin /\ n.gone = net[c].gone
  BY <1>2 DEF Writes, ConnRecs
<1> HIDE DEF r, n
<1>6. Becomes(s, r, n) /\ slot'[s] = r /\ net'[c] = n /\ queue' = queue /\ free' = free
  BY <1>1, <1>4, <1>5, ChangeBecomes
<1>7. Pools(s)
  BY <1>4, <1>6, PoolsStay DEF pool
<1>8. Placed(s)'
  BY <1>1, <1>2, <1>3, <1>4, <1>6 DEF Placed
<1>9. Fits(s)'
  BY <1>2, <1>4, <1>5, <1>6 DEF Fits
<1>10. Ends(s)'
  <2>1. Asks(s)' = Asks(s)
    BY <1>4, <1>5, <1>6 DEF Asks
  <2> QED
    BY <1>1, <1>2, <1>3, <1>4, <1>5, <1>6, <2>1 DEF Ends
<1>11. Scans(s)' /\ Clocks(s)' /\ Waits(s)'
  BY <1>1, <1>2, <1>4, <1>6 DEF Scans, Clocks, Waits
<1>12. Hears(s)'
  BY <1>4, <1>6 DEF Hears, Reading
<1> QED
  BY <1>6, <1>7, <1>8, <1>9, <1>10, <1>11, <1>12, SlotStep DEF Sound

\* A read event of a slot that answers gives way to its write.
LEMMA OnReadRespondingStep ==
  ASSUME LoopAssumption, Inductive, NEW s \in Slots, NEW e, OnReadResponding(s, e)
  PROVE  Inductive'
<1> DEFINE c   == slot[s].fd
           eof == slot[s].eof \/ e.eof
<1>1. /\ Dispatch("read", s, e) /\ slot[s].kind = "responding" /\ UNCHANGED handler
      /\ AwaitWrite(s, [slot[s] EXCEPT !.eof = @ \/ e.eof], net[e.conn])
  BY DEF OnReadResponding
<1>2. /\ c = e.conn /\ c # None /\ at = None /\ UNCHANGED <<inflight, job>>
      /\ (e.eof => net[c].fin \/ net[c].gone) /\ Runs(s) /\ at' = None
  BY <1>1, DispatchFacts
<1>3. slot[s] \in SlotRecs /\ net[c] \in ConnRecs
  BY <1>2, HeldFacts
<1>4. /\ eof \in BOOLEAN /\ slot[s].left \in Nat /\ net[c].room \in BOOLEAN
      /\ eof => slot[s].eof \/ net[c].fin \/ net[c].gone
  BY <1>2, <1>3 DEF SlotRecs, ConnRecs
<1>5. /\ [slot[s] EXCEPT !.eof = @ \/ e.eof]
           = [slot[s] EXCEPT !.eof = eof, !.left = slot[s].left]
      /\ net[c] = [net[c] EXCEPT !.room = net[c].room]
  BY <1>3 DEF SlotRecs, ConnRecs
<1> HIDE DEF eof
<1>6. AwaitWrite(s, [slot[s] EXCEPT !.eof = eof, !.left = slot[s].left],
                 [net[c] EXCEPT !.room = net[c].room])
  BY <1>1, <1>2, <1>5
<1> QED
  BY <1>1, <1>2, <1>4, <1>6, AwaitWriteStep

\* A write event sends the rest of an answer, some of it, or finds its client gone.
LEMMA OnWriteStep ==
  ASSUME LoopAssumption, Inductive, NEW s \in Slots, NEW e, OnWrite(s, e)
  PROVE  Inductive'
<1> DEFINE c == slot[s].fd
<1>1. Dispatch("write", s, e) /\ slot[s].kind = "responding"
  BY DEF OnWrite
<1>2. /\ c = e.conn /\ c # None /\ at = None /\ at # s /\ UNCHANGED <<inflight, job>>
      /\ batch' = batch \ {e} /\ e.kind = "write"
      /\ UNCHANGED handler => Runs(s) /\ Leaves(s) /\ at' = None
      /\ Handle("sent", s) => Runs(s) /\ at' = s /\ pc' = "sent"
  BY <1>1, DispatchFacts DEF Acting
<1>3. /\ Typed /\ Once /\ slot[s] \in SlotRecs /\ c \in Conns /\ net[c] \in ConnRecs
      /\ Placed(s) /\ Fits(s) /\ Ends(s) /\ Scans(s) /\ Hears(s) /\ Clocks(s) /\ Waits(s)
  BY <1>2, HeldFacts
<1>4. ~slot[s].offloaded
  BY <1>1, <1>3 DEF Placed
<1>5. CASE CloseSlot(s) /\ UNCHANGED handler
  BY <1>2, <1>4, <1>5, CloseStep DEF pool
<1>6. CASE Handle("sent", s) /\ UNCHANGED <<slot, net, held>>
  <2>1. Becomes(s, slot[s], net[c])
    BY <1>2, <1>6, BecomesSelf DEF held
  <2>2. Pools(s)
    BY <1>2, <1>6, PoolsStay DEF pool
  <2>3. Placed(s)'
    BY <1>1, <1>2, <1>3, <1>4, <1>6 DEF Placed, held
  <2>4. Fits(s)' /\ Scans(s)' /\ Ends(s)' /\ Clocks(s)' /\ Waits(s)'
    BY <1>1, <1>2, <1>3, <1>4, <1>6 DEF Fits, Scans, Ends, Asks, Clocks, Waits, held
  <2>5. Hears(s)'
    BY <1>1, <1>2, <1>3, <1>6 DEF Hears, Told, ToldEnd, Reading
  <2> QED
    BY <1>2, <1>6, <2>1, <2>2, <2>3, <2>4, <2>5, SlotStep DEF Sound
<1>7. ASSUME UNCHANGED handler, NEW left \in 1 .. slot[s].left - 1,
             AwaitWrite(s, [slot[s] EXCEPT !.left = left], [net[e.conn] EXCEPT !.room = FALSE])
      PROVE  Inductive'
  <2>1. slot[s].eof \in BOOLEAN /\ left \in Nat
    BY <1>3 DEF SlotRecs
  <2>2. [slot[s] EXCEPT !.left = left] = [slot[s] EXCEPT !.eof = slot[s].eof, !.left = left]
    BY <1>3 DEF SlotRecs
  <2>3. AwaitWrite(s, [slot[s] EXCEPT !.eof = slot[s].eof, !.left = left],
                   [net[c] EXCEPT !.room = FALSE])
    BY <1>2, <1>7, <2>2
  <2> QED
    BY <1>1, <1>2, <1>7, <2>1, <2>3, AwaitWriteStep
<1> QED
  BY <1>5, <1>6, <1>7 DEF OnWrite

\* A body timer closes a slot whose body is still owed, and no other.
LEMMA OnTimerStep ==
  ASSUME LoopAssumption, Inductive, NEW s \in Slots, NEW e, OnTimer(s, e)
  PROVE  Inductive'
<1> DEFINE c == slot[s].fd
           r == slot[s]
           n == [net[c] EXCEPT !.timer = FALSE]
<1>1. Dispatch("timer", s, e) /\ UNCHANGED handler
  BY DEF OnTimer
<1>2. /\ c = e.conn /\ c # None /\ at # s /\ UNCHANGED <<inflight, job>>
      /\ Runs(s) /\ Leaves(s) /\ at' = None /\ pc' = "none"
      /\ batch' = batch \ {e} /\ e.kind = "timer"
  BY <1>1, DispatchFacts
<1>3. /\ Typed /\ Once /\ slot[s] \in SlotRecs /\ c \in Conns /\ net[c] \in ConnRecs
      /\ Placed(s) /\ Fits(s) /\ Ends(s) /\ Scans(s) /\ Hears(s) /\ Clocks(s) /\ Waits(s)
  BY <1>2, HeldFacts
<1>4. at' # s
  BY <1>2 DEF LoopAssumption
<1>5. CASE slot[s].kind = "body"
  <2>1. CloseSlot(s) /\ ~slot[s].offloaded
    BY <1>3, <1>5 DEF OnTimer, Placed
  <2> QED
    BY <1>2, <2>1, CloseStep DEF pool
<1>6. CASE slot[s].kind # "body"
  <2>1. Change(s, r, n)
    BY <1>2, <1>6 DEF OnTimer
  <2>2. /\ n \in ConnRecs /\ n.at = net[c].at /\ n.script = net[c].script
        /\ n.sent = net[c].sent /\ n.fin = net[c].fin /\ n.gone = net[c].gone
        /\ n.interest = net[c].interest /\ n.ready = net[c].ready /\ n.room = net[c].room
        /\ n.timer = FALSE
    BY <1>3 DEF ConnRecs
  <2> HIDE DEF n
  <2>3. Becomes(s, r, n) /\ slot'[s] = r /\ net'[c] = n /\ queue' = queue /\ free' = free
    BY <1>2, <1>3, <2>1, <2>2, ChangeBecomes
  <2>4. Pools(s)
    BY <1>2, <2>3, PoolsStay DEF pool
  <2>5. Placed(s)'
    BY <1>2, <1>3, <1>4, <2>3 DEF Placed
  <2>6. Fits(s)' /\ Scans(s)' /\ Ends(s)' /\ Clocks(s)' /\ Waits(s)'
    BY <1>2, <1>3, <1>4, <1>6, <2>2, <2>3 DEF Fits, Scans, Ends, Asks, Clocks, Waits
  <2>7. Hears(s)'
    BY <1>2, <1>3, <1>4, <2>2, <2>3 DEF Hears, Told, ToldEnd
  <2> QED
    BY <1>2, <2>3, <2>4, <2>5, <2>6, <2>7, SlotStep DEF Sound
<1> QED
  BY <1>5, <1>6

\* An event that finds no slot, or nothing to write, tells nobody anything.
LEMMA DropEventStep ==
  ASSUME LoopAssumption, Inductive, NEW e \in batch, DropEvent(e)
  PROVE  Inductive'
<1>1. /\ Typed /\ Standing /\ Connected /\ Once /\ Counted
      /\ \A t \in Slots : Sound(t)
  BY DEF Inductive
<1>2. /\ pc = "none" /\ batch' = batch \ {e} /\ UNCHANGED <<phase, joining, pool>>
      /\ UNCHANGED <<slot, net, held, handler>>
      /\ \A t \in Slots : slot[t].fd = e.conn => e.kind # "read"
  BY DEF DropEvent, Take
<1>3. Typed'
  BY <1>1, <1>2 DEF Typed, held, handler, pool
<1>4. Standing' /\ Connected' /\ Once' /\ Counted'
  BY <1>1, <1>2 DEF Standing, Connected, Once, OnceIn, Counted, Held, Out, held, handler, pool
<1>5. ASSUME NEW t \in Slots PROVE Sound(t)'
  <2>1. /\ Placed(t) /\ Fits(t) /\ Ends(t) /\ Scans(t) /\ Hears(t) /\ Clocks(t) /\ Waits(t)
    BY <1>1 DEF Sound
  <2>2. Placed(t)' /\ Fits(t)' /\ Ends(t)' /\ Scans(t)' /\ Clocks(t)' /\ Waits(t)'
    BY <1>2, <2>1 DEF Placed, Fits, Ends, Asks, Scans, Clocks, Waits, held, handler, pool
  <2>3. Hears(t)'
    <3>1. Told(slot[t].fd)' = Told(slot[t].fd) /\ ToldEnd(slot[t].fd)' = ToldEnd(slot[t].fd)
      BY <1>2 DEF Told, ToldEnd
    <3> QED
      BY <1>2, <2>1, <3>1 DEF Hears, handler
  <2> QED
    BY <2>2, <2>3 DEF Sound
<1> QED
  BY <1>3, <1>4, <1>5 DEF Inductive

\* A wait turns what is ready into the pass's events.
LEMMA WaitStep ==
  ASSUME LoopAssumption, Inductive, Wait
  PROVE  Inductive'
<1> DEFINE reads  == {c \in Conns : /\ net[c].ready /\ net[c].interest = "read"
                                    /\ Readable(net[c], To(c))}
           writes == {c \in Conns : net[c].ready /\ net[c].interest = "write"}
<1>1. /\ Typed /\ Standing /\ Connected /\ Once /\ Counted
      /\ \A t \in Slots : Sound(t)
  BY DEF Inductive
<1>2. PICK timers \in SUBSET {c \in Conns : net[c].timer} :
        batch' = {Event("read", c) : c \in reads} \cup {Event("write", c) : c \in writes}
                 \cup {Event("timer", c) : c \in timers}
  BY DEF Wait
<1>3. /\ phase = "wait" /\ phase' = "events" /\ batch = {}
      /\ net' = [c \in Conns |->
           [net[c] EXCEPT !.ready = FALSE, !.interest = IF c \in writes THEN "none" ELSE @]]
      /\ UNCHANGED <<slot, held, pool, handler, joining>>
  BY <1>1 DEF Wait, Standing
<1>4. \A k \in {"read", "write", "timer"}, c \in Conns :
        /\ Event(k, c) \in EventRecs /\ Event(k, c).kind = k /\ Event(k, c).conn = c
        /\ Event(k, c).eof <=> k = "read" /\ (net[c].fin \/ net[c].gone)
  <2> TAKE k \in {"read", "write", "timer"}, c \in Conns
  <2>1. (k = "read" /\ (net[c].fin \/ net[c].gone)) \in BOOLEAN
    OBVIOUS
  <2> QED
    BY <2>1 DEF Event, EventRecs
<1>5. /\ batch' \subseteq EventRecs
      /\ \A c \in reads : Event("read", c) \in batch'
      /\ \A e \in batch' : e.eof => net[e.conn].fin \/ net[e.conn].gone
  <2>1. reads \subseteq Conns /\ writes \subseteq Conns /\ timers \subseteq Conns
    OBVIOUS
  <2> HIDE DEF reads, writes
  <2>2. \A e \in batch' : \E k \in {"read", "write", "timer"}, c \in Conns : e = Event(k, c)
    BY <1>2, <2>1
  <2>3. \A e \in batch' : e \in EventRecs /\ (e.eof => net[e.conn].fin \/ net[e.conn].gone)
    BY <1>4, <2>2
  <2> QED
    BY <1>2, <2>3
<1>6. ASSUME NEW c \in Conns
      PROVE  /\ net'[c] \in ConnRecs /\ net'[c].at = net[c].at /\ net'[c].script = net[c].script
             /\ net'[c].sent = net[c].sent /\ net'[c].fin = net[c].fin
             /\ net'[c].gone = net[c].gone /\ net'[c].timer = net[c].timer
             /\ net[c].interest = "read" => net'[c].interest = "read"
  <2>1. net[c] \in ConnRecs
    BY <1>1 DEF Typed
  <2> QED
    BY <1>3, <2>1 DEF ConnRecs
<1> HIDE DEF writes
<1>7. Typed'
  <2>1. net' \in [Conns -> ConnRecs]
    <3>1. DOMAIN net' = Conns /\ net' = [c \in DOMAIN net' |-> net'[c]]
      BY <1>3
    <3> QED
      BY <1>6, <3>1
  <2> QED
    BY <1>1, <1>3, <1>5, <2>1 DEF Typed, held, handler, pool
<1>8. Standing'
  <2>1. joining \in Conns => net'[joining].at = net[joining].at
    BY <1>6
  <2>2. joining # None => joining \in Conns
    BY <1>1 DEF Typed
  <2>3. joining' = joining /\ pc' = pc /\ at' = at
    BY <1>3 DEF handler
  <2> QED
    BY <1>1, <1>3, <2>1, <2>2, <2>3 DEF Standing
<1>9. Connected'
  <2>1. \A e \in batch' : e.conn \in Conns
    BY <1>5 DEF EventRecs
  <2>2. \A t, u \in Slots : slot'[t].fd = slot'[u].fd /\ slot'[t].fd # None => t = u
    BY <1>1, <1>3 DEF Connected
  <2>3. \A d \in Conns : /\ net'[d].sent <= Len(net'[d].script)
                         /\ net'[d].at = "new" => net'[d].sent = 0
    BY <1>1, <1>6 DEF Connected
  <2>4. \A e \in batch' : e.eof => net'[e.conn].fin \/ net'[e.conn].gone
    BY <1>5, <1>6, <2>1
  <2> QED
    BY <2>2, <2>3, <2>4 DEF Connected
<1>10. Once' /\ Counted'
  <2>1. queue' = queue /\ slot' = slot /\ active' = active /\ inflight' = inflight
    BY <1>3 DEF held, pool
  <2>2. Held' = Held /\ Out' = Out
    BY <2>1 DEF Held, Out
  <2>3. Once'
    BY <1>1, <2>1 DEF Once, OnceIn
  <2>4. Counted'
    BY <1>1, <2>1, <2>2 DEF Counted
  <2> QED
    BY <2>3, <2>4
<1>11. ASSUME NEW t \in Slots PROVE Sound(t)'
  <2> DEFINE c == slot[t].fd
  <2>1. /\ Placed(t) /\ Fits(t) /\ Ends(t) /\ Scans(t) /\ Hears(t) /\ Clocks(t) /\ Waits(t)
    BY <1>1 DEF Sound
  <2>2. Placed(t)' /\ Waits(t)'
    BY <1>3, <2>1 DEF Placed, Waits, held, handler, pool
  <2>3. c # None => c \in Conns /\ slot[t].to \in Nat
    BY <1>1 DEF Typed, SlotRecs
  <2>4. Fits(t)' /\ Ends(t)' /\ Scans(t)' /\ Clocks(t)'
    <3>1. slot' = slot /\ pc' = pc /\ at' = at
      BY <1>3 DEF handler
    <3>2. c # None =>
            /\ net'[c].at = net[c].at /\ net'[c].script = net[c].script
            /\ net'[c].sent = net[c].sent /\ net'[c].fin = net[c].fin
            /\ net'[c].gone = net[c].gone /\ net'[c].timer = net[c].timer
      BY <1>6, <2>3
    <3>3. Fits(t)'
      BY <2>1, <3>1, <3>2 DEF Fits
    <3>4. Ends(t)'
      <4>1. c # None => (Asks(t)' <=> Asks(t))
        BY <3>1, <3>2 DEF Asks
      <4> QED
        BY <2>1, <3>1, <3>2, <4>1 DEF Ends
    <3>5. Scans(t)'
      BY <2>1, <3>1, <3>2 DEF Scans
    <3>6. Clocks(t)'
      BY <2>1, <3>1, <3>2 DEF Clocks
    <3> QED
      BY <3>3, <3>4, <3>5, <3>6
  <2>5. ASSUME c # None, Readable(net[c], slot[t].to), net[c].interest = "read", net[c].ready
        PROVE  \E e \in batch' : e.kind = "read" /\ e.conn = c
                                 /\ (net[c].fin \/ net[c].gone => e.eof)
    <3>1. To(c) = slot[t].to
      <4>1. \A u \in Slots : slot[u].fd = c => u = t
        BY <1>1, <2>5 DEF Connected
      <4>2. (CHOOSE u \in Slots : slot[u].fd = c) = t
        BY <4>1
      <4> QED
        BY <4>2 DEF To
    <3>2. c \in reads
      BY <2>3, <2>5, <3>1
    <3> QED
      BY <1>4, <1>5, <2>3, <2>5, <3>2
  <2>6. ASSUME c # None PROVE /\ Told(c) /\ net[c].sent > slot[t].to => Told(c)'
                              /\ ToldEnd(c) /\ (net[c].fin \/ net[c].gone) => ToldEnd(c)'
    <3>1. Told(c) \/ ToldEnd(c) => net[c].interest = "read" /\ net[c].ready
      BY <1>3 DEF Told, ToldEnd
    <3>2. (net[c].sent > slot[t].to) \/ net[c].fin \/ net[c].gone <=> Readable(net[c], slot[t].to)
      BY DEF Readable
    <3> QED
      BY <1>3, <2>5, <2>6, <3>1, <3>2 DEF Told, ToldEnd
  <2>7. Hears(t)'
    <3>1. slot' = slot /\ pc' = pc /\ at' = at
      BY <1>3 DEF handler
    <3>2. c # None =>
            /\ net'[c].sent = net[c].sent /\ net'[c].fin = net[c].fin
            /\ net'[c].gone = net[c].gone
            /\ net[c].interest = "read" => net'[c].interest = "read"
      BY <1>6, <2>3
    <3> QED
      BY <2>1, <2>6, <3>1, <3>2 DEF Hears
  <2> QED
    BY <2>2, <2>4, <2>7 DEF Sound
<1> QED
  BY <1>7, <1>8, <1>9, <1>10, <1>11 DEF Inductive

\* From a phase to the next.
LEMMA PhaseStep ==
  ASSUME LoopAssumption, Inductive, EventsOver \/ AdmitOver \/ PassOver
  PROVE  Inductive'
<1>1. /\ Typed /\ Standing
  BY DEF Inductive
<1>2. /\ pc = "none" /\ UNCHANGED <<slot, net, held, pool, handler, batch, joining>>
      /\ phase # "events" \/ batch = {}
  BY DEF EventsOver, AdmitOver, PassOver, Phase
<1>3. at = None /\ batch = {}
  BY <1>1, <1>2 DEF Standing
<1> QED
  BY <1>1, <1>2, <1>3, PointStep DEF handler, Typed, Standing, Admitting

-----------------------------------------------------------------------------
(* New connections. *)

\* A step of an admission that moves on, and changes no slot.
LEMMA AdmitStep ==
  ASSUME LoopAssumption, Inductive, NEW from \in Admitting \cup {"none"},
         NEW to \in Admitting \cup {"none"},
         Admit(from, to), UNCHANGED <<slot, net, held>>, joining' \in Conns \cup {None},
         to \in Admitting => joining' # None /\ net[joining'].at = "backlog"
  PROVE  Inductive'
<1>1. /\ Typed /\ Standing
  BY DEF Inductive
<1>2. /\ phase = "admit" /\ pc = from /\ pc' = to
      /\ UNCHANGED <<at, short, eager, phase, batch, pool>>
  BY DEF Admit
<1>3. at = None /\ batch = {}
  BY <1>1, <1>2 DEF Standing, Admitting
<1> QED
  BY <1>1, <1>2, <1>3, PointStep DEF Typed

\* A connection from the backlog is admitted.
LEMMA AcceptStep ==
  ASSUME LoopAssumption, Inductive, NEW c \in Conns, Accept(c)
  PROVE  Inductive'
<1>1. /\ Admit("none", "borrow") /\ net[c].at = "backlog" /\ joining' = c
      /\ UNCHANGED <<slot, net, held>> /\ c # None
  BY DEF Accept, LoopAssumption
<1> QED
  BY <1>1, AdmitStep DEF Admitting

\* No slot is free for it.
LEMMA FullStep ==
  ASSUME LoopAssumption, Inductive, Full
  PROVE  Inductive'
<1>1. /\ Admit("borrow", "idle") /\ UNCHANGED <<slot, net, held, joining>>
  BY DEF Full
<1>2. joining \in Conns \cup {None} /\ joining # None /\ net[joining].at = "backlog"
  BY <1>1 DEF Inductive, Typed, Standing, Admit, Admitting
<1> QED
  BY <1>1, <1>2, AdmitStep DEF Admitting

\* A slot that moved on leaves a queue it is of no use in.
LEMMA ReclaimStaleStep ==
  ASSUME LoopAssumption, Inductive, NEW key \in Keys, ReclaimStale(key)
  PROVE  Inductive'
<1> DEFINE h == Head(queue[key])
<1>1. /\ Typed /\ Standing /\ Connected /\ Once /\ Counted
      /\ \A t \in Slots : Sound(t)
  BY DEF Inductive
<1>2. /\ phase = "admit" /\ pc = key /\ queue[key] # <<>> /\ ~Takeable(key, h)
      /\ queue' = [queue EXCEPT ![key] = Tail(@)]
      /\ UNCHANGED <<slot, net, free, active, joining, pc, at, short, eager, phase, batch, pool>>
  BY DEF ReclaimStale, Admit
<1>3. at = None
  BY <1>1, <1>2 DEF Standing, Keys, Admitting
<1>4. /\ queue[key] \in Seq(Slots) /\ queue \in [Keys -> Seq(Slots)]
      /\ \A k \in Keys : Len(queue[k]) \in Nat
  BY <1>1, LenProperties DEF Typed
<1>5. /\ h \in Slots /\ Len(queue[key]) > 0 /\ queue[key][1] = h
      /\ Tail(queue[key]) \in Seq(Slots) /\ Len(Tail(queue[key])) = Len(queue[key]) - 1
      /\ \A i \in 1 .. Len(queue[key]) - 1 : Tail(queue[key])[i] = queue[key][i + 1]
  <2>1. /\ h \in Slots /\ Tail(queue[key]) \in Seq(Slots)
        /\ Len(Tail(queue[key])) = Len(queue[key]) - 1
        /\ \A i \in 1 .. Len(Tail(queue[key])) : Tail(queue[key])[i] = queue[key][i + 1]
    BY <1>2, <1>4, HeadTailProperties
  <2>2. Len(queue[key]) > 0
    BY <1>2, <1>4, EmptySeq
  <2>3. queue[key][1] = h
    OBVIOUS
  <2> QED
    BY <2>1, <2>2, <2>3
<1> HIDE DEF h
<1>6. /\ queue' \in [Keys -> Seq(Slots)] /\ queue'[key] = Tail(queue[key])
      /\ \A k \in Keys \ {key} : queue'[k] = queue[k]
  BY <1>2, <1>4, <1>5
\* Where each element of what is left was.
<1>7. ASSUME NEW k \in Keys, NEW i \in 1 .. Len(queue'[k])
      PROVE  \E j \in 1 .. Len(queue[k]) :
               queue'[k][i] = queue[k][j] /\ j = IF k = key THEN i + 1 ELSE i
  <2>1. CASE k = key
    <3>1. i \in 1 .. Len(queue[key]) - 1
      BY <1>5, <1>6, <2>1
    <3>2. i + 1 \in 1 .. Len(queue[key]) /\ queue'[key][i] = queue[key][i + 1]
      BY <1>4, <1>5, <1>6, <3>1
    <3> QED
      BY <2>1, <3>2
  <2>2. CASE k # key
    <3>1. queue'[k] = queue[k]
      BY <1>6, <2>2
    <3> QED
      BY <2>2, <3>1
  <2> QED
    BY <2>1, <2>2
<1>8. OnceIn(queue')
  <2> SUFFICES ASSUME NEW k \in Keys, NEW l \in Keys, NEW i \in 1 .. Len(queue'[k]),
                      NEW j \in 1 .. Len(queue'[l]), queue'[k][i] = queue'[l][j]
               PROVE  k = l /\ i = j
    BY DEF OnceIn
  <2>1. PICK a \in 1 .. Len(queue[k]) :
          queue'[k][i] = queue[k][a] /\ a = IF k = key THEN i + 1 ELSE i
    BY <1>7
  <2>2. PICK b \in 1 .. Len(queue[l]) :
          queue'[l][j] = queue[l][b] /\ b = IF l = key THEN j + 1 ELSE j
    BY <1>7
  <2>3. k = l /\ a = b
    <3>1. queue[k][a] = queue[l][b]
      BY <2>1, <2>2
    <3> QED
      BY <1>1, <3>1 DEF Once, OnceIn
  <2>4. i \in Nat /\ j \in Nat
    <3>1. Len(queue'[k]) \in Nat /\ Len(queue'[l]) \in Nat
      BY <1>6, LenProperties
    <3> QED
      BY <3>1
  <2> QED
    BY <2>1, <2>2, <2>3, <2>4
<1>9. ASSUME NEW k \in Keys, NEW t \in Slots
      PROVE  /\ Contains(queue'[k], t) => Contains(queue[k], t)
             /\ Contains(queue[k], t) /\ (t # h \/ k # key) => Contains(queue'[k], t)
  <2>1. Contains(queue'[k], t) => Contains(queue[k], t)
    BY <1>7 DEF Contains
  <2>2. CASE k # key
    BY <1>6, <2>1, <2>2
  <2>3. CASE k = key
    <3>1. ASSUME NEW i \in 1 .. Len(queue[key]), queue[key][i] = t, t # h
          PROVE  Contains(queue'[key], t)
      <4>1. i - 1 \in 1 .. Len(queue[key]) - 1 /\ (i - 1) + 1 = i
        BY <1>4, <1>5, <3>1
      <4>2. queue'[key][i - 1] = queue[key][(i - 1) + 1] /\ i - 1 \in 1 .. Len(queue'[key])
        BY <1>5, <1>6, <4>1
      <4> QED
        BY <3>1, <4>1, <4>2 DEF Contains
    <3> QED
      BY <2>1, <2>3, <3>1 DEF Contains
  <2> QED
    BY <2>2, <2>3
<1>10. Typed'
  BY <1>1, <1>2, <1>6 DEF Typed, pool
<1>11. Standing' /\ Connected' /\ Counted'
  BY <1>1, <1>2 DEF Standing, Connected, Counted, Held, Out, pool
<1>12. Once'
  BY <1>8 DEF Once, OnceIn
<1>13. ASSUME NEW t \in Slots PROVE Sound(t)'
  <2>1. CASE t # h
    <3>1. at # t /\ at' # t /\ batch' \subseteq EventRecs
      BY <1>1, <1>2, <1>3 DEF LoopAssumption, Typed
    <3>2. \A k \in Keys : Contains(queue'[k], t) <=> Contains(queue[k], t)
      BY <1>9, <2>1
    <3> QED
      BY <1>1, <1>2, <3>1, <3>2, SoundKept DEF pool
  <2>2. CASE t = h
    <3>1. /\ Placed(t) /\ Fits(t) /\ Ends(t) /\ Scans(t) /\ Hears(t) /\ Clocks(t) /\ Waits(t)
          /\ slot[t] \in SlotRecs /\ at # t
      BY <1>1, <1>3 DEF Sound, Typed, LoopAssumption
    <3>2. Placed(t)'
      BY <1>2, <1>9, <3>1 DEF Placed, pool
    <3>3. Fits(t)' /\ Ends(t)' /\ Scans(t)' /\ Clocks(t)'
      BY <1>2, <3>1 DEF Fits, Ends, Asks, Scans, Clocks
    <3>4. Hears(t)'
      BY <1>2, <3>1 DEF Hears, Told, ToldEnd
    <3>5. Waits(t)'
      <4>1. ASSUME slot[t].fd # None, slot[t].kind = "headers", slot[t].started
            PROVE  Contains(queue'["head"], t)
        <5>1. ~slot[t].offloaded
          BY <3>1, <4>1 DEF Placed
        <5>2. key # "head"
          BY <1>2, <2>2, <4>1, <5>1 DEF Takeable, HeadArriving
        <5> QED
          BY <1>9, <3>1, <4>1, <5>2 DEF Waits, Keys
      <4>2. ASSUME slot[t].fd # None, slot[t].kind = "headers", ~slot[t].started
            PROVE  Contains(queue'["idle"], t) /\ slot[t].kept
        <5>1. ~slot[t].offloaded /\ slot[t].kept /\ Contains(queue["idle"], t)
          BY <3>1, <4>2 DEF Placed, Waits
        <5>2. slot[t].from = slot[t].to
          BY <3>1, <4>2 DEF Scans, Clocks
        <5>3. key # "idle"
          BY <1>2, <2>2, <4>2, <5>1, <5>2 DEF Takeable, BetweenRequests
        <5> QED
          BY <1>9, <5>1, <5>3 DEF Keys
      <4> QED
        BY <1>2, <4>1, <4>2 DEF Waits
    <3> QED
      BY <3>2, <3>3, <3>4, <3>5 DEF Sound
  <2> QED
    BY <2>1, <2>2
<1> QED
  BY <1>10, <1>11, <1>12, <1>13 DEF Inductive

\* The front of a queue is closed, and the admission goes on with its slot.
LEMMA ReclaimTakesStep ==
  ASSUME LoopAssumption, Inductive, NEW key \in Keys, ReclaimTakes(key)
  PROVE  Inductive'
<1> DEFINE h == Head(queue[key])
<1>1. Typed /\ Standing
  BY DEF Inductive
<1>2. /\ phase = "admit" /\ pc = key /\ pc' = "borrow" /\ queue[key] # <<>>
      /\ Takeable(key, h) /\ CloseSlot(h)
      /\ UNCHANGED <<at, short, eager, phase, batch, pool, joining>>
  BY DEF ReclaimTakes, Admit
<1>3. at = None /\ pc \in Admitting
  BY <1>1, <1>2 DEF Standing, Keys, Admitting
<1>4. h \in Slots
  <2>1. queue[key] \in Seq(Slots)
    BY <1>1 DEF Typed
  <2> QED
    BY <1>2, <2>1, HeadTailProperties
<1>5. slot[h].fd # None /\ ~slot[h].offloaded
  BY <1>2 DEF Takeable, BetweenRequests, HeadArriving
<1>6. Leaves(h)
  BY <1>1, <1>2, <1>3 DEF Leaves, Typed
<1> HIDE DEF h
<1> QED
  BY <1>2, <1>4, <1>5, <1>6, CloseStep

\* The other queue is looked at, or the new connection is turned away.
LEMMA ReclaimNoneStep ==
  ASSUME LoopAssumption, Inductive, NEW key \in Keys, ReclaimNone(key)
  PROVE  Inductive'
<1>1. /\ Typed /\ Standing /\ Connected /\ Once /\ Counted
      /\ \A t \in Slots : Sound(t)
  BY DEF Inductive
<1>2. UNCHANGED <<slot, held>>
  BY DEF ReclaimNone
<1>3. CASE key = "idle" /\ Admit(key, "head") /\ UNCHANGED <<net, joining>>
  <2>1. pc = "idle"
    BY <1>3 DEF Admit
  <2>2. joining' \in Conns \cup {None} /\ joining' # None /\ net[joining'].at = "backlog"
    BY <1>1, <1>3, <2>1 DEF Typed, Standing, Admitting
  <2> QED
    BY <1>2, <1>3, <2>2, AdmitStep DEF Admitting
<1>4. CASE /\ key = "head" /\ Admit(key, "none")
           /\ net' = [net EXCEPT ![joining] = NoConn("closed")] /\ joining' = None
  <2> DEFINE c == joining
  <2>1. /\ phase = "admit" /\ pc = "head" /\ pc' = "none"
        /\ UNCHANGED <<at, short, eager, phase, batch, pool>>
    BY <1>4 DEF Admit
  <2>2. at = None /\ batch = {} /\ c \in Conns /\ net[c].at = "backlog"
    BY <1>1, <2>1 DEF Typed, Standing, Admitting
  <2>3. NoConn("closed") \in ConnRecs
    <3>1. <<>> \in Seq(Tokens)
      OBVIOUS
    <3> QED
      BY <3>1 DEF NoConn, ConnRecs
  <2>4. /\ net' \in [Conns -> ConnRecs] /\ net'[c] = NoConn("closed")
        /\ \A d \in Conns \ {c} : net'[d] = net[d]
    BY <1>1, <1>4, <2>2, <2>3 DEF Typed
  <2>5. Typed'
    BY <1>1, <1>2, <1>4, <2>1, <2>4 DEF Typed, held, pool
  <2>6. Standing'
    BY <2>1, <2>2 DEF Standing, Admitting
  <2>7. Connected'
    <3>1. \A t, u \in Slots : slot'[t].fd = slot'[u].fd /\ slot'[t].fd # None => t = u
      BY <1>1, <1>2 DEF Connected
    <3>2. net'[c].sent <= Len(net'[c].script) /\ net'[c].at = "closed"
      BY <2>4 DEF NoConn
    <3>3. \A d \in Conns : /\ net'[d].sent <= Len(net'[d].script)
                           /\ net'[d].at = "new" => net'[d].sent = 0
      BY <1>1, <2>4, <3>2 DEF Connected
    <3> QED
      BY <2>1, <2>2, <3>1, <3>3 DEF Connected
  <2>8. Once' /\ Counted'
    <3>1. queue' = queue /\ slot' = slot /\ active' = active /\ inflight' = inflight
      BY <1>2, <2>1 DEF held, pool
    <3>2. Held' = Held /\ Out' = Out
      BY <3>1 DEF Held, Out
    <3>3. Once'
      BY <1>1, <3>1 DEF Once, OnceIn
    <3> QED
      BY <1>1, <3>1, <3>2, <3>3 DEF Counted
  <2>9. ASSUME NEW t \in Slots PROVE Sound(t)'
    <3>1. slot[t].fd # None => slot[t].fd \in Conns \ {c}
      <4>1. slot[t].fd # None => net[slot[t].fd].at = "open" /\ slot[t].fd \in Conns
        BY <1>1 DEF Sound, Fits, Typed, SlotRecs
      <4> QED
        BY <2>2, <4>1
    <3>2. slot[t].fd # None => net'[slot[t].fd] = net[slot[t].fd]
      BY <2>4, <3>1
    <3>3. /\ slot'[t] = slot[t] /\ job'[t] = job[t] /\ (t \in free' <=> t \in free)
          /\ at # t /\ at' # t /\ batch' = batch /\ batch' \subseteq EventRecs /\ queue' = queue
      BY <1>1, <1>2, <2>1, <2>2 DEF held, pool, LoopAssumption, Typed
    <3> QED
      BY <1>1, <3>2, <3>3, SoundKept
  <2> QED
    BY <2>5, <2>6, <2>7, <2>8, <2>9 DEF Inductive
<1> QED
  BY <1>3, <1>4 DEF ReclaimNone

\* The lowest free slot is borrowed for the new connection, and its eager read is next.
LEMMA BorrowStep ==
  ASSUME LoopAssumption, Inductive, Borrow
  PROVE  Inductive'
<1>0. PICK s : s = CHOOSE i \in free : \A t \in free : i <= t
  OBVIOUS
<1> DEFINE c == joining
           r == [Prepared(slot[s], FALSE) EXCEPT !.fd = joining, !.kept = FALSE,
                   !.started = TRUE, !.armed = FALSE, !.due = "off"]
<1>1. /\ Typed /\ Standing /\ Connected /\ Once /\ Counted
      /\ \A t \in Slots : Sound(t) /\ Placed(t) /\ Fits(t)
  BY DEF Inductive, Sound
<1>2. /\ phase = "admit" /\ pc = "borrow" /\ free # {}
      /\ pc' = "read" /\ at' = s /\ eager' = TRUE /\ joining' = None
      /\ free' = free \ {s} /\ active' = active + 1 /\ queue' = PushBack("head", s)
      /\ slot' = [slot EXCEPT ![s] = r] /\ net' = [net EXCEPT ![c].at = "open"]
      /\ UNCHANGED <<pool, short, phase, batch>>
  BY <1>0 DEF Borrow
<1>3. at = None /\ batch = {} /\ c \in Conns /\ net[c].at = "backlog" /\ c # None
  BY <1>1, <1>2 DEF Typed, Standing, Admitting
<1>4. s \in free /\ s \in Slots
  <2>1. free \subseteq Slots /\ free \subseteq Nat
    BY <1>1 DEF Typed, LoopAssumption
  <2>2. \E i \in free : \A t \in free : i <= t
    BY <1>2, <2>1, Least
  <2> QED
    BY <1>0, <2>1, <2>2
<1>5. slot[s] = Blank /\ slot[s].fd = None
  BY <1>1, <1>4 DEF Placed
<1>6. /\ r \in SlotRecs /\ r.fd = c /\ r.kind = "headers" /\ r.from = 0 /\ r.to = 0
      /\ r.scanned = 0 /\ r.end = 0 /\ ~r.eof /\ ~r.close /\ r.started /\ r.due = "off"
      /\ ~r.armed /\ ~r.offloaded
  <2>1. /\ Blank \in SlotRecs /\ Blank.kind = "headers" /\ Blank.to = 0 /\ Blank.eof = FALSE
        /\ Blank.offloaded = FALSE
    BY DEF Blank, SlotRecs, Kinds
  <2>2. slot[s] \in SlotRecs /\ slot[s].to = 0 /\ slot[s].offloaded = FALSE
    BY <1>5, <2>1
  <2> DEFINE p == Prepared(slot[s], FALSE)
  <2>3. /\ p \in SlotRecs /\ p.kind = "headers" /\ p.from = 0 /\ p.to = 0 /\ p.scanned = 0
        /\ p.end = 0 /\ p.eof = FALSE /\ p.close = FALSE /\ p.offloaded = FALSE
    BY <2>2, DiscardedFacts
  <2>4. r = [p EXCEPT !.fd = c, !.kept = FALSE, !.started = TRUE, !.armed = FALSE,
                      !.due = "off"]
    OBVIOUS
  <2> HIDE DEF p, r
  <2> QED
    BY <1>3, <2>3, <2>4 DEF SlotRecs
<1> HIDE DEF r
<1>7. /\ slot \in [Slots -> SlotRecs] /\ net \in [Conns -> ConnRecs] /\ net[c] \in ConnRecs
  BY <1>1, <1>3 DEF Typed
<1>8. /\ slot' \in [Slots -> SlotRecs] /\ slot'[s] = r
      /\ \A t \in Slots \ {s} : slot'[t] = slot[t]
  BY <1>2, <1>4, <1>6, <1>7
<1>9. /\ net' \in [Conns -> ConnRecs] /\ net'[c].at = "open" /\ net'[c].sent = net[c].sent
      /\ net'[c].script = net[c].script /\ net'[c].fin = net[c].fin
      /\ net'[c].gone = net[c].gone /\ \A d \in Conns \ {c} : net'[d] = net[d]
  BY <1>2, <1>3, <1>7 DEF ConnRecs
<1>10. /\ queue' \in [Keys -> Seq(Slots)] /\ OnceIn(queue') /\ Contains(queue'["head"], s)
       /\ \A k \in Keys : \A t \in Slots \ {s} :
            Contains(queue'[k], t) <=> Contains(queue[k], t)
  BY <1>1, <1>2, <1>4, PushBackFacts DEF Keys
<1>11. Typed'
  BY <1>1, <1>2, <1>4, <1>8, <1>9, <1>10 DEF Typed, pool, Acting
<1>12. Standing'
  BY <1>2, <1>3, <1>4 DEF Standing, Admitting, LoopAssumption
<1>13. \A t \in Slots : slot[t].fd # None => slot[t].fd \in Conns \ {c}
  <2> TAKE t \in Slots
  <2>1. slot[t].fd # None => net[slot[t].fd].at = "open" /\ slot[t].fd \in Conns
    BY <1>1, <1>7 DEF Fits, SlotRecs
  <2> QED
    BY <1>3, <2>1
<1>14. Connected'
  <2>1. \A t, u \in Slots : slot'[t].fd = slot'[u].fd /\ slot'[t].fd # None => t = u
    <3>1. slot'[s].fd = c
      BY <1>6, <1>8
    <3>2. \A t \in Slots \ {s} : slot'[t].fd = slot[t].fd /\ slot[t].fd # c
      BY <1>3, <1>8, <1>13
    <3> QED
      BY <1>1, <3>1, <3>2 DEF Connected
  <2>2. \A d \in Conns : /\ net'[d].sent <= Len(net'[d].script)
                         /\ net'[d].at = "new" => net'[d].sent = 0
    BY <1>1, <1>3, <1>9 DEF Connected
  <2> QED
    BY <1>2, <1>3, <2>1, <2>2 DEF Connected
<1>15. Once'
  BY <1>10 DEF Once, OnceIn
<1>16. Counted'
  <2>1. Held' = Held \cup {s} /\ s \notin Held
    <3>1. slot'[s].fd # None
      BY <1>3, <1>6, <1>8
    <3> QED
      BY <1>4, <1>5, <1>8, <3>1 DEF Held
  <2>2. active' = Cardinality(Held')
    BY <1>1, <1>2, <2>1, SlotsFinite, FS_AddElement DEF Counted
  <2>3. Out' = Out
    <3>1. ~slot'[s].offloaded /\ ~slot[s].offloaded
      BY <1>5, <1>6, <1>8 DEF Blank
    <3> QED
      BY <1>4, <1>8, <3>1 DEF Out
  <2> QED
    BY <1>1, <1>2, <2>2, <2>3 DEF Counted, pool
<1>17. ASSUME NEW t \in Slots \ {s} PROVE Sound(t)'
  <2>1. /\ slot'[t] = slot[t] /\ job'[t] = job[t] /\ (t \in free' <=> t \in free)
        /\ at # t /\ at' # t /\ batch' = batch /\ batch' \subseteq EventRecs
    BY <1>1, <1>2, <1>3, <1>8 DEF pool, LoopAssumption, Typed
  <2>2. slot[t].fd # None => net'[slot[t].fd] = net[slot[t].fd]
    BY <1>9, <1>13
  <2>3. \A k \in Keys : Contains(queue'[k], t) <=> Contains(queue[k], t)
    BY <1>10
  <2> QED
    BY <1>1, <2>1, <2>2, <2>3, SoundKept
<1>18. Sound(s)'
  <2>1. job'[s] = NoJob
    <3>1. ~slot[s].offloaded
      BY <1>5 DEF Blank
    <3> QED
      BY <1>1, <1>2, <1>4, <3>1 DEF Placed, pool
  <2>2. Placed(s)'
    BY <1>2, <1>3, <1>6, <1>8, <2>1 DEF Placed, NoJob
  <2>3. net'[c].sent \in Nat
    BY <1>3, <1>9 DEF ConnRecs
  <2>4. Fits(s)' /\ Ends(s)' /\ Clocks(s)' /\ Hears(s)' /\ Waits(s)'
    BY <1>2, <1>6, <1>8, <1>9, <1>10, <2>3 DEF Fits, Ends, Clocks, Hears, Waits
  <2>5. Scans(s)'
    BY <1>2, <1>6, <1>8 DEF Scans
  <2> QED
    BY <2>2, <2>4, <2>5 DEF Sound
<1> QED
  BY <1>11, <1>12, <1>14, <1>15, <1>16, <1>17, <1>18 DEF Inductive

-----------------------------------------------------------------------------
(* The clients and the pool.                                               *)

\* What a client may do to its connection: it starts, sends or ends, and what is
\* ready stays so; a read interest is told of it.
Moves(m, n) ==
  /\ n \in ConnRecs /\ n.sent <= Len(n.script)
  /\ n.at = "new" => n.sent = 0
  /\ m.at # "new" => n.at = m.at /\ n.script = m.script
  /\ m.at = "new" => n.at = "backlog"
  /\ m.sent <= n.sent /\ (n.sent # m.sent => ~m.fin /\ ~m.gone)
  /\ (m.fin => n.fin) /\ (m.gone => n.gone)
  /\ n.interest = m.interest /\ (m.ready => n.ready) /\ n.timer = m.timer
  /\ m.interest = "read" /\ (n.sent # m.sent \/ n.fin # m.fin \/ n.gone # m.gone) => n.ready

\* What a client does is heard by the slot that reads of it, and breaks nothing.
LEMMA ClientStep ==
  ASSUME LoopAssumption, Inductive, NEW c \in Conns, NEW n, Client(c, n), Moves(net[c], n)
  PROVE  Inductive'
<1> DEFINE m == net[c]
<1>1. /\ Typed /\ Standing /\ Connected /\ Once /\ Counted
      /\ \A t \in Slots : Sound(t)
  BY DEF Inductive
<1>2. net' = [net EXCEPT ![c] = n] /\ UNCHANGED <<slot, held, pool, handler, pass>>
  BY DEF Client
<1>3. /\ net \in [Conns -> ConnRecs] /\ m \in ConnRecs /\ n \in ConnRecs
  BY <1>1 DEF Typed, Moves
<1>4. /\ net' \in [Conns -> ConnRecs] /\ net'[c] = n
      /\ \A d \in Conns \ {c} : net'[d] = net[d]
  BY <1>2, <1>3
<1>5. /\ slot' = slot /\ queue' = queue /\ free' = free /\ active' = active
      /\ inflight' = inflight /\ job' = job /\ pc' = pc /\ at' = at /\ short' = short
      /\ eager' = eager /\ phase' = phase /\ batch' = batch /\ joining' = joining
  BY <1>2 DEF held, pool, handler, pass
<1>6. Typed'
  BY <1>1, <1>4, <1>5 DEF Typed
<1>7. Standing'
  <2>1. joining \in Conns /\ net[joining].at = "backlog" => net'[joining].at = "backlog"
    BY <1>3, <1>4 DEF Moves
  <2>2. joining # None => joining \in Conns
    BY <1>1 DEF Typed
  <2> QED
    BY <1>1, <1>5, <2>1, <2>2 DEF Standing
<1>8. Connected'
  <2>1. \A t, u \in Slots : slot'[t].fd = slot'[u].fd /\ slot'[t].fd # None => t = u
    BY <1>1, <1>5 DEF Connected
  <2>2. \A d \in Conns : /\ net'[d].sent <= Len(net'[d].script)
                         /\ net'[d].at = "new" => net'[d].sent = 0
    BY <1>1, <1>4 DEF Connected, Moves
  <2>3. ASSUME NEW e \in batch', e.eof
        PROVE  net'[e.conn].fin \/ net'[e.conn].gone \/ net'[e.conn].at = "closed"
    <3>1. net[e.conn].fin \/ net[e.conn].gone \/ net[e.conn].at = "closed"
      BY <1>1, <1>5, <2>3 DEF Connected
    <3>2. e.conn \in Conns
      BY <1>1, <1>5, <2>3 DEF Typed, EventRecs
    <3> QED
      BY <1>4, <3>1, <3>2 DEF Moves
  <2> QED
    BY <2>1, <2>2, <2>3 DEF Connected
<1>9. Once' /\ Counted'
  <2>1. Held' = Held /\ Out' = Out
    BY <1>5 DEF Held, Out
  <2>2. Once'
    BY <1>1, <1>5 DEF Once, OnceIn
  <2> QED
    BY <1>1, <1>5, <2>1, <2>2 DEF Counted
<1>10. ASSUME NEW t \in Slots, slot[t].fd # c PROVE Sound(t)'
  <2>1. slot[t].fd # None => net'[slot[t].fd] = net[slot[t].fd]
    BY <1>1, <1>4, <1>10 DEF Typed, SlotRecs
  <2>2. /\ Placed(t) /\ Fits(t) /\ Ends(t) /\ Scans(t) /\ Hears(t) /\ Clocks(t) /\ Waits(t)
    BY <1>1 DEF Sound
  <2>3. Placed(t)' /\ Waits(t)'
    BY <1>5, <2>2 DEF Placed, Waits
  <2>4. Fits(t)' /\ Scans(t)' /\ Clocks(t)'
    BY <1>5, <2>1, <2>2 DEF Fits, Scans, Clocks
  <2>5. Ends(t)'
    <3>1. slot[t].fd # None => (Asks(t)' <=> Asks(t))
      BY <1>5, <2>1 DEF Asks
    <3> QED
      BY <1>5, <2>1, <2>2, <3>1 DEF Ends
  <2>6. Hears(t)'
    <3>1. slot[t].fd # None => /\ Told(slot[t].fd)' <=> Told(slot[t].fd)
                               /\ ToldEnd(slot[t].fd)' <=> ToldEnd(slot[t].fd)
      BY <1>5, <2>1 DEF Told, ToldEnd
    <3> QED
      BY <1>5, <2>1, <2>2, <3>1 DEF Hears
  <2> QED
    BY <2>2, <2>3, <2>4, <2>5, <2>6 DEF Sound
<1>11. ASSUME NEW t \in Slots, slot[t].fd = c PROVE Sound(t)'
  <2>1. /\ Placed(t) /\ Fits(t) /\ Ends(t) /\ Scans(t) /\ Hears(t) /\ Clocks(t) /\ Waits(t)
        /\ slot[t] \in SlotRecs /\ c # None /\ m.at = "open"
    BY <1>1, <1>11 DEF Sound, Fits, Typed, LoopAssumption
  <2>2. /\ n.at = "open" /\ n.script = m.script /\ m.sent <= n.sent /\ m.sent \in Nat
        /\ n.sent \in Nat /\ (n.sent # m.sent => ~m.fin /\ ~m.gone)
        /\ (m.fin => n.fin) /\ (m.gone => n.gone) /\ n.timer = m.timer
    BY <1>3, <2>1 DEF Moves, ConnRecs
  <2>3. Placed(t)' /\ Waits(t)'
    BY <1>5, <2>1 DEF Placed, Waits
  <2>4. Fits(t)'
    <3>1. slot[t].to \in Nat /\ slot[t].to <= m.sent => slot[t].to <= n.sent
      BY <2>2
    <3> QED
      BY <1>4, <1>5, <1>11, <2>1, <2>2, <3>1 DEF Fits, SlotRecs
  <2>5. Scans(t)' /\ Clocks(t)'
    BY <1>4, <1>5, <1>11, <2>1, <2>2 DEF Scans, Clocks
  <2>6. Ends(t)'
    <3>1. Asks(t)' <=> Asks(t)
      BY <1>4, <1>5, <1>11, <2>2 DEF Asks
    <3>2. m.gone \/ (m.fin /\ slot[t].end = m.sent) => n.gone \/ (n.fin /\ slot[t].end = n.sent)
      BY <2>2
    <3> QED
      BY <1>4, <1>5, <1>11, <2>1, <3>1, <3>2 DEF Ends
  <2>7. Hears(t)'
    <3>1. /\ n.interest = m.interest
          /\ m.interest = "read" /\ (n.sent # m.sent \/ n.fin # m.fin \/ n.gone # m.gone)
               => Told(c)' /\ ToldEnd(c)'
      BY <1>4 DEF Moves, Told, ToldEnd
    <3>2. Told(c) => Told(c)'
      BY <1>4, <1>5 DEF Moves, Told
    <3>3. ToldEnd(c) => ToldEnd(c)'
      BY <1>4, <1>5 DEF Moves, ToldEnd
    <3>4. ASSUME slot[t].armed
          PROVE  /\ n.interest = "read"
                 /\ n.sent > slot[t].to => Told(c)' \/ (at = t /\ pc \in {"read", "body"})
                 /\ n.fin \/ n.gone => ToldEnd(c)' \/ slot[t].eof
      BY <1>11, <2>1, <3>1, <3>2, <3>3, <3>4 DEF Hears
    <3>5. ASSUME slot[t].kind \in Reading, at # t
          PROVE  slot[t].armed /\ (n.fin \/ n.gone => ToldEnd(c)')
      BY <1>11, <2>1, <3>1, <3>3, <3>5 DEF Hears
    <3>6. slot[t].kind = "lingering" \/ (at = t /\ pc = "body") => slot[t].armed
      BY <1>11, <2>1 DEF Hears
    <3> QED
      BY <1>4, <1>5, <1>11, <3>4, <3>5, <3>6 DEF Hears
  <2> QED
    BY <2>3, <2>4, <2>5, <2>6, <2>7 DEF Sound
<1> QED
  BY <1>6, <1>7, <1>8, <1>9, <1>10, <1>11 DEF Inductive

\* Each of a client's steps is such a move.
LEMMA ClientsStep ==
  ASSUME LoopAssumption, Inductive, Clients
  PROVE  Inductive'
<1>1. PICK c \in Conns : Connect(c) \/ Send(c) \/ HalfClose(c) \/ Reset(c) \/ Drains(c)
  BY DEF Clients
<1> DEFINE m == net[c]
<1>2. /\ m \in ConnRecs /\ m.sent \in Nat /\ m.sent <= Len(m.script) /\ Len(m.script) \in Nat
      /\ m.at = "new" => m.sent = 0
  BY LenProperties DEF Inductive, Typed, Connected, ConnRecs
<1>3. CASE Connect(c)
  <2>1. PICK script \in Scripts[c] : Client(c, [m EXCEPT !.at = "backlog", !.script = script])
    BY <1>3 DEF Connect
  <2>2. script \in Seq(Tokens) /\ Len(script) \in Nat /\ m.at = "new"
    BY <1>3, LenProperties DEF LoopAssumption, Tokens, Connect
  <2> DEFINE n == [m EXCEPT !.at = "backlog", !.script = script]
  <2>3. /\ n \in ConnRecs /\ n.at = "backlog" /\ n.script = script /\ n.sent = m.sent
        /\ n.fin = m.fin /\ n.gone = m.gone /\ n.interest = m.interest /\ n.ready = m.ready
        /\ n.timer = m.timer
    BY <1>2, <2>2 DEF ConnRecs
  <2> HIDE DEF n
  <2>4. Moves(m, n)
    BY <1>2, <2>2, <2>3 DEF Moves
  <2>5. Client(c, n)
    BY <2>1 DEF n
  <2> QED
    BY <2>4, <2>5, ClientStep
<1>4. CASE Send(c)
  <2> DEFINE n == [Arrives(m) EXCEPT !.sent = @ + 1]
  <2>1. Client(c, n) /\ m.at # "new" /\ ~m.fin /\ ~m.gone /\ m.sent < Len(m.script)
    BY <1>4 DEF Send, Sending
  <2>2. PICK b \in BOOLEAN : b = (m.ready \/ m.interest = "read")
    OBVIOUS
  <2>3. n = [m EXCEPT !.ready = b, !.sent = m.sent + 1]
    BY <1>2, <2>2 DEF ConnRecs, Arrives
  <2>4. (m.ready => b) /\ (m.interest = "read" => b)
    BY <2>2
  <2> HIDE DEF n
  <2>5. /\ n \in ConnRecs /\ n.at = m.at /\ n.script = m.script /\ n.sent = m.sent + 1
        /\ n.fin = m.fin /\ n.gone = m.gone /\ n.interest = m.interest
        /\ n.timer = m.timer /\ n.ready = b
    <3>1. m.sent + 1 \in Nat
      BY <1>2
    <3> HIDE DEF m
    <3> QED
      BY <1>2, <2>3, <3>1 DEF ConnRecs
  <2>6. Moves(m, n)
    BY <1>2, <2>1, <2>4, <2>5 DEF Moves
  <2> QED
    BY <2>1, <2>6, ClientStep
<1>5. CASE HalfClose(c)
  <2> DEFINE n == [Arrives(m) EXCEPT !.fin = TRUE]
  <2>1. Client(c, n) /\ m.at # "new"
    BY <1>5 DEF HalfClose, Sending
  <2>2. PICK b \in BOOLEAN : b = (m.ready \/ m.interest = "read")
    OBVIOUS
  <2>3. n = [m EXCEPT !.ready = b, !.fin = TRUE]
    BY <1>2, <2>2 DEF ConnRecs, Arrives
  <2>4. (m.ready => b) /\ (m.interest = "read" => b)
    BY <2>2
  <2> HIDE DEF n
  <2>5. /\ n \in ConnRecs /\ n.at = m.at /\ n.script = m.script /\ n.sent = m.sent
        /\ n.fin = TRUE /\ n.gone = m.gone /\ n.interest = m.interest
        /\ n.timer = m.timer /\ n.ready = b
    BY <1>2, <2>3 DEF ConnRecs
  <2>6. Moves(m, n)
    BY <1>2, <2>1, <2>4, <2>5 DEF Moves
  <2> QED
    BY <2>1, <2>6, ClientStep
<1>6. CASE Reset(c)
  <2> DEFINE n == [m EXCEPT !.gone = TRUE, !.ready = @ \/ m.interest # "none"]
  <2>1. Client(c, n) /\ m.at = "open"
    BY <1>6 DEF Reset
  <2>2. PICK b \in BOOLEAN : b = (m.ready \/ m.interest # "none")
    OBVIOUS
  <2>3. n = [m EXCEPT !.ready = b, !.gone = TRUE]
    BY <1>2, <2>2 DEF ConnRecs
  <2>4. (m.ready => b) /\ (m.interest # "none" => b)
    BY <2>2
  <2> HIDE DEF n
  <2>5. /\ n \in ConnRecs /\ n.at = m.at /\ n.script = m.script /\ n.sent = m.sent
        /\ n.fin = m.fin /\ n.gone = TRUE /\ n.interest = m.interest
        /\ n.timer = m.timer /\ n.ready = b
    BY <1>2, <2>3 DEF ConnRecs
  <2>6. Moves(m, n)
    BY <1>2, <2>1, <2>4, <2>5 DEF Moves
  <2> QED
    BY <2>1, <2>6, ClientStep
<1>7. CASE Drains(c)
  <2> DEFINE n == [m EXCEPT !.room = TRUE, !.ready = @ \/ m.interest = "write"]
  <2>1. Client(c, n) /\ m.at = "open"
    BY <1>7 DEF Drains
  <2>2. PICK b \in BOOLEAN : b = (m.ready \/ m.interest = "write")
    OBVIOUS
  <2>3. n = [m EXCEPT !.ready = b, !.room = TRUE]
    BY <1>2, <2>2 DEF ConnRecs
  <2>4. (m.ready => b) /\ (m.interest = "write" => b)
    BY <2>2
  <2> HIDE DEF n
  <2>5. /\ n \in ConnRecs /\ n.at = m.at /\ n.script = m.script /\ n.sent = m.sent
        /\ n.fin = m.fin /\ n.gone = m.gone /\ n.interest = m.interest
        /\ n.timer = m.timer /\ n.ready = b
    BY <1>2, <2>3 DEF ConnRecs
  <2>6. Moves(m, n)
    BY <1>2, <2>1, <2>4, <2>5 DEF Moves
  <2> QED
    BY <2>1, <2>6, ClientStep
<1> QED
  BY <1>1, <1>3, <1>4, <1>5, <1>6, <1>7

\* An answer waits for the loop with the connection that asked still named on it.
LEMMA JobDoneStep ==
  ASSUME LoopAssumption, Inductive, NEW s \in Slots, JobDone(s)
  PROVE  Inductive'
<1>1. /\ Typed /\ Standing /\ Connected /\ Once /\ Counted
      /\ \A t \in Slots : Sound(t)
  BY DEF Inductive
<1>2. /\ job[s].conn # None /\ job' = [job EXCEPT ![s].done = TRUE]
      /\ slot' = slot /\ net' = net /\ queue' = queue /\ free' = free /\ active' = active
      /\ inflight' = inflight /\ pc' = pc /\ at' = at /\ short' = short /\ eager' = eager
      /\ phase' = phase /\ batch' = batch /\ joining' = joining
  BY DEF JobDone, held, handler, pass
<1>3. /\ job \in [Slots -> Jobs] /\ job' \in [Slots -> Jobs] /\ job'[s].conn = job[s].conn
      /\ \A t \in Slots \ {s} : job'[t] = job[t]
  BY <1>1, <1>2 DEF Typed, Jobs
<1>4. Typed'
  BY <1>1, <1>2, <1>3 DEF Typed
<1>5. Standing' /\ Connected'
  BY <1>1, <1>2 DEF Standing, Connected
<1>6. Once' /\ Counted'
  <2>1. Held' = Held /\ Out' = Out
    BY <1>2 DEF Held, Out
  <2>2. Once'
    BY <1>1, <1>2 DEF Once, OnceIn
  <2> QED
    BY <1>1, <1>2, <2>1, <2>2 DEF Counted
<1>7. ASSUME NEW t \in Slots PROVE Sound(t)'
  <2>1. /\ Placed(t) /\ Fits(t) /\ Ends(t) /\ Scans(t) /\ Hears(t) /\ Clocks(t) /\ Waits(t)
    BY <1>1 DEF Sound
  <2>2. slot[s].offloaded
    BY <1>1, <1>2 DEF Sound, Placed, NoJob
  <2>3. Placed(t)'
    BY <1>2, <1>3, <2>1, <2>2 DEF Placed
  <2>4. Fits(t)' /\ Scans(t)' /\ Clocks(t)' /\ Waits(t)'
    BY <1>2, <2>1 DEF Fits, Scans, Clocks, Waits
  <2>5. Ends(t)'
    BY <1>2, <2>1 DEF Ends, Asks
  <2>6. Hears(t)'
    BY <1>2, <2>1 DEF Hears, Told, ToldEnd
  <2> QED
    BY <2>3, <2>4, <2>5, <2>6 DEF Sound
<1> QED
  BY <1>4, <1>5, <1>6, <1>7 DEF Inductive

-----------------------------------------------------------------------------
(* The invariant.                                                          *)

\* An idle loop with all its provisions free is sound.
LEMMA InitInductive == LoopAssumption /\ Init => Inductive
<1> SUFFICES ASSUME LoopAssumption, Init PROVE Inductive
  OBVIOUS
<1>1. Blank \in SlotRecs /\ NoConn("new") \in ConnRecs /\ NoJob \in Jobs
  <2>1. <<>> \in Seq(Tokens)
    OBVIOUS
  <2> QED
    BY <2>1 DEF Blank, SlotRecs, Kinds, NoConn, ConnRecs, NoJob, Jobs
<1>2. /\ slot = [s \in Slots |-> Blank] /\ net = [c \in Conns |-> NoConn("new")]
      /\ queue = [k \in Keys |-> <<>>] /\ free = Slots
      /\ active = 0 /\ inflight = 0 /\ job = [s \in Slots |-> NoJob]
      /\ phase = "wait" /\ pc = "none" /\ at = None /\ short = FALSE /\ eager = FALSE
      /\ batch = {} /\ joining = None
  BY DEF Init, Keys
<1>3. \A k \in Keys : queue[k] \in Seq(Slots) /\ Len(queue[k]) = 0
  BY <1>2
<1>4. Typed
  <2>1. queue \in [Keys -> Seq(Slots)]
    BY <1>2, <1>3
  <2>2. slot \in [Slots -> SlotRecs] /\ net \in [Conns -> ConnRecs] /\ job \in [Slots -> Jobs]
    BY <1>1, <1>2
  <2> QED
    BY <1>2, <2>1, <2>2 DEF Typed
<1>5. \A s \in Slots : slot[s] = Blank /\ slot[s].fd = None /\ ~slot[s].offloaded
                       /\ slot[s].kind = "headers"
  BY <1>2 DEF Blank
<1>6. Standing
  BY <1>2 DEF Standing, Admitting
<1>7. Connected
  <2>1. \A c \in Conns : net[c].sent = 0 /\ Len(net[c].script) = 0
    BY <1>2 DEF NoConn
  <2> QED
    BY <1>2, <1>5, <2>1 DEF Connected
<1>8. Once
  BY <1>3 DEF Once, OnceIn
<1>9. Counted
  <2>1. Held = {} /\ Out = {}
    BY <1>5 DEF Held, Out
  <2> QED
    BY <1>2, <2>1, FS_EmptySet DEF Counted
<1>10. ASSUME NEW s \in Slots PROVE Sound(s)
  <2>1. Placed(s)
    BY <1>2, <1>3, <1>5 DEF Placed, Contains, LoopAssumption
  <2> QED
    BY <1>5, <2>1 DEF Sound, Fits, Ends, Scans, Hears, Clocks, Waits
<1> QED
  BY <1>4, <1>6, <1>7, <1>8, <1>9, <1>10 DEF Inductive

\* Whatever the loop, the clients or the pool do, the slots stay sound.
LEMMA NextInductive == LoopAssumption /\ Inductive /\ [Next]_vars => Inductive'
<1> SUFFICES ASSUME LoopAssumption, Inductive, [Next]_vars PROVE Inductive'
  OBVIOUS
<1>1. ASSUME NEW s \in Slots, Handler(s) PROVE Inductive'
  <2>1. at = s
    BY <1>1 DEF Handler
  <2>2. CASE ReadFails(s)
    BY <2>1, <2>2, ReadFailsStep
  <2>3. CASE ReadWaits(s)
    BY <2>1, <2>3, ReadWaitsStep
  <2>4. CASE ReadHead(s)
    BY <2>1, <2>4, ReadHeadStep
  <2>5. CASE ReadBody(s)
    BY <2>1, <2>5, ReadBodyStep
  <2>6. CASE FrameIncomplete(s)
    BY <2>1, <2>6, FrameIncompleteStep
  <2>7. CASE FrameCloses(s)
    BY <2>1, <2>7, FrameClosesStep
  <2>8. CASE FrameWhole(s)
    BY <2>1, <2>8, FrameWholeStep
  <2>9. CASE FrameBody(s)
    BY <2>1, <2>9, FrameBodyStep
  <2>10. CASE Linger(s)
    BY <2>1, <2>10, LingerStep
  <2>11. CASE Offload(s)
    BY <2>1, <2>11, OffloadStep
  <2>12. CASE Answer(s)
    BY <2>1, <2>12, AnswerStep
  <2>13. CASE FinishWhole(s)
    BY <2>1, <2>13, FinishWholeStep
  <2>14. CASE FinishPart(s)
    BY <2>1, <2>14, FinishPartStep
  <2>15. CASE FinishFails(s)
    BY <2>1, <2>15, FinishFailsStep
  <2>16. CASE SentLast(s)
    BY <2>1, <2>16, SentLastStep
  <2>17. CASE EndRequest(s)
    BY <2>1, <2>17, EndRequestStep
  <2>18. CASE DrainNext(s)
    BY <2>1, <2>18, DrainNextStep
  <2>19. CASE DrainOver(s)
    BY <2>1, <2>19, DrainOverStep
  <2>20. CASE Eager(s)
    BY <2>1, <2>20, EagerStep
  <2> QED
    BY <1>1, <2>2, <2>3, <2>4, <2>5, <2>6, <2>7, <2>8, <2>9, <2>10, <2>11, <2>12, <2>13,
       <2>14, <2>15, <2>16, <2>17, <2>18, <2>19, <2>20 DEF Handler
<1>2. ASSUME Events PROVE Inductive'
  <2>1. PICK e \in batch :
          \/ DropEvent(e)
          \/ \E s \in Slots : \/ OnReadOffloaded(s, e) \/ OnRead(s, e) \/ OnReadLingering(s, e)
                              \/ OnReadResponding(s, e) \/ OnWrite(s, e) \/ OnTimer(s, e)
    BY <1>2 DEF Events
  <2>2. CASE DropEvent(e)
    BY <2>2, DropEventStep
  <2>3. ASSUME NEW s \in Slots,
               \/ OnReadOffloaded(s, e) \/ OnRead(s, e) \/ OnReadLingering(s, e)
               \/ OnReadResponding(s, e) \/ OnWrite(s, e) \/ OnTimer(s, e)
        PROVE  Inductive'
    <3>1. CASE OnReadOffloaded(s, e)
      BY <3>1, OnReadOffloadedStep
    <3>2. CASE OnRead(s, e)
      BY <3>2, OnReadStep
    <3>3. CASE OnReadLingering(s, e)
      BY <3>3, OnReadLingeringStep
    <3>4. CASE OnReadResponding(s, e)
      BY <3>4, OnReadRespondingStep
    <3>5. CASE OnWrite(s, e)
      BY <3>5, OnWriteStep
    <3>6. CASE OnTimer(s, e)
      BY <3>6, OnTimerStep
    <3> QED
      BY <2>3, <3>1, <3>2, <3>3, <3>4, <3>5, <3>6
  <2> QED
    BY <2>1, <2>2, <2>3
<1>3. ASSUME Admission PROVE Inductive'
  <2>1. ASSUME NEW c \in Conns, Accept(c) PROVE Inductive'
    BY <2>1, AcceptStep
  <2>2. CASE Borrow
    BY <2>2, BorrowStep
  <2>3. CASE Full
    BY <2>3, FullStep
  <2>4. ASSUME NEW k \in Keys, ReclaimStale(k) \/ ReclaimTakes(k) \/ ReclaimNone(k)
        PROVE  Inductive'
    BY <2>4, ReclaimStaleStep, ReclaimTakesStep, ReclaimNoneStep
  <2> QED
    BY <1>3, <2>1, <2>2, <2>3, <2>4 DEF Admission, Keys
<1>4. ASSUME NEW s \in Slots, Completes(s) PROVE Inductive'
  BY <1>4, CompletesStep
<1>5. ASSUME NEW s \in Slots, Expires(s) PROVE Inductive'
  BY <1>5, ExpiresStep
<1>6. CASE Loop
  BY <1>1, <1>2, <1>3, <1>4, <1>5, <1>6, WaitStep, PhaseStep DEF Loop
<1>7. CASE Clients
  BY <1>7, ClientsStep
<1>8. ASSUME NEW s \in Slots, JobDone(s) PROVE Inductive'
  BY <1>8, JobDoneStep
<1>9. CASE UNCHANGED vars
  <2>1. /\ slot' = slot /\ net' = net /\ queue' = queue /\ free' = free /\ active' = active
        /\ inflight' = inflight /\ job' = job /\ phase' = phase /\ pc' = pc /\ at' = at
        /\ short' = short /\ eager' = eager /\ batch' = batch /\ joining' = joining
    BY <1>9 DEF vars, held, pool, handler, pass
  <2>2. Typed' /\ Standing' /\ Connected'
    BY <2>1 DEF Inductive, Typed, Standing, Connected
  <2>3. Once' /\ Counted'
    BY <2>1 DEF Inductive, Once, OnceIn, Counted, Held, Out
  <2>4. ASSUME NEW t \in Slots PROVE Sound(t)'
    <3>1. /\ Placed(t) /\ Fits(t) /\ Ends(t) /\ Scans(t) /\ Hears(t) /\ Clocks(t) /\ Waits(t)
      BY DEF Inductive, Sound
    <3>2. Placed(t)' /\ Fits(t)' /\ Ends(t)' /\ Scans(t)' /\ Clocks(t)' /\ Waits(t)'
      BY <2>1, <3>1 DEF Placed, Fits, Ends, Asks, Scans, Clocks, Waits
    <3>3. Hears(t)'
      BY <2>1, <3>1 DEF Hears, Told, ToldEnd
    <3> QED
      BY <3>2, <3>3 DEF Sound
  <2> QED
    BY <2>2, <2>3, <2>4 DEF Inductive
<1> QED
  BY <1>6, <1>7, <1>8, <1>9 DEF Next

-----------------------------------------------------------------------------
(* What it says.                                                           *)

\* Inductive gives the types, and that what a slot is thought to have read was sent.
LEMMA InductiveTypes ==
  ASSUME Inductive
  PROVE  TypeOK
<1>1. /\ Typed /\ Connected /\ Counted /\ \A s \in Slots : Fits(s) /\ Placed(s)
  BY DEF Inductive, Sound
<1>2. ASSUME NEW s \in Slots
      PROVE  /\ slot[s].fd \in Conns \cup {None}
             /\ slot[s].kind \in {"headers", "body", "processing", "responding", "lingering"}
             /\ slot[s].due \in {"off", "idle", "send", "linger"}
             /\ {slot[s].from, slot[s].end, slot[s].scanned, slot[s].left} \subseteq Nat
             /\ {slot[s].eof, slot[s].close, slot[s].kept, slot[s].started, slot[s].armed,
                 slot[s].offloaded} \subseteq BOOLEAN
  <2>1. slot[s] \in SlotRecs
    BY <1>1 DEF Typed
  <2> QED
    BY <2>1 DEF SlotRecs, Kinds
<1>3. ASSUME NEW c \in Conns
      PROVE  /\ net[c].at \in {"new", "backlog", "open", "closed"}
             /\ net[c].interest \in {"read", "write", "none"}
             /\ To(c) \in 0 .. net[c].sent
  <2>1. net[c] \in ConnRecs
    BY <1>1 DEF Typed
  <2>2. To(c) \in 0 .. net[c].sent
    <3>1. CASE \E s \in Slots : slot[s].fd = c
      <4>1. PICK t : t = CHOOSE s \in Slots : slot[s].fd = c
        OBVIOUS
      <4>2. t \in Slots /\ slot[t].fd = c
        BY <3>1, <4>1
      <4>3. To(c) = slot[t].to
        BY <3>1, <4>1 DEF To
      <4>4. slot[t] \in SlotRecs /\ c # None
        BY <1>1, <4>2, LoopAssumption DEF Typed, LoopAssumption
      <4> QED
        BY <1>1, <2>1, <4>2, <4>3, <4>4 DEF Fits, SlotRecs, ConnRecs
    <3>2. CASE ~\E s \in Slots : slot[s].fd = c
      BY <2>1, <3>2 DEF To, ConnRecs
    <3> QED
      BY <3>1, <3>2
  <2> QED
    BY <2>1, <2>2 DEF ConnRecs
<1>4. free = Slots \ Held /\ active = Cardinality(Held)
  BY <1>1 DEF Typed, Held, Placed, Counted
<1>5. at \in Slots \cup {None} /\ joining \in Conns \cup {None}
  BY <1>1 DEF Typed
<1>6. \A e \in batch : e.kind \in {"read", "write", "timer"} /\ e.conn \in Conns
  BY <1>1 DEF Typed, EventRecs
<1> QED
  BY <1>2, <1>3, <1>4, <1>5, <1>6 DEF TypeOK

\* A clock that is off leaves nothing to wait for.
LEMMA InductiveClocked ==
  ASSUME Inductive
  PROVE  Clocked
<1> SUFFICES ASSUME NEW s \in Resting
             PROVE  LET r == slot[s] n == net[r.fd] IN
                    /\ r.kind = "headers" => r.started \/ r.due = "idle"
                    /\ r.kind = "body" => n.timer
                    /\ r.kind \in {"responding", "lingering"} => r.due # "off"
                    /\ r.due = "idle" => r.kind = "headers" /\ r.from = r.to
  BY DEF Clocked
<1>1. s \in Slots /\ slot[s].fd # None /\ at # s
  BY DEF Resting, Held
<1>2. Clocks(s) /\ Scans(s)
  BY <1>1 DEF Inductive, Sound
<1> QED
  BY <1>1, <1>2 DEF Clocks, Scans

\* Who may be taken back is where it is looked for.
LEMMA InductiveQueued ==
  ASSUME Inductive
  PROVE  Queued
<1>1. /\ Once /\ \A s \in Slots : Placed(s) /\ Waits(s)
      /\ queue \in [Keys -> Seq(Slots)] /\ DOMAIN queue = Keys
      /\ \A k \in Keys : DOMAIN queue[k] = 1 .. Len(queue[k])
  BY LenProperties DEF Inductive, Sound, Typed
<1>2. ASSUME NEW k \in Keys, NEW s \in Resting, Takeable(k, s)
      PROVE  Contains(queue[k], s)
  BY <1>1, <1>2 DEF Takeable, BetweenRequests, HeadArriving, Waits, Resting, Held, Keys
<1>3. ASSUME NEW s \in Slots, NEW k \in Keys, NEW l \in Keys, NEW i \in DOMAIN queue[k],
             NEW j \in DOMAIN queue[l], queue[k][i] = s, queue[l][j] = s
      PROVE  s \in Held /\ k = l /\ i = j
  <2>1. i \in 1 .. Len(queue[k]) /\ j \in 1 .. Len(queue[l])
    BY <1>1
  <2>2. k = l /\ i = j
    BY <1>1, <1>3, <2>1 DEF Once, OnceIn
  <2>3. Contains(queue[k], s)
    BY <1>3, <2>1 DEF Contains
  <2> QED
    BY <1>1, <2>2, <2>3 DEF Placed, Held
<1> QED
  BY <1>1, <1>2, <1>3 DEF Queued

\* What a slot at rest has not read is on its way to it.
LEMMA InductiveAnnounced ==
  ASSUME Inductive
  PROVE  Announced
<1> SUFFICES ASSUME NEW s \in Resting, slot[s].kind \in Reading,
                    Readable(net[slot[s].fd], slot[s].to)
             PROVE  \/ net[slot[s].fd].interest = "read" /\ net[slot[s].fd].ready
                    \/ \E e \in batch : e.kind = "read" /\ e.conn = slot[s].fd
  BY DEF Announced, Reading
<1>1. s \in Slots /\ slot[s].fd # None /\ at # s
  BY DEF Resting, Held
<1>2. Hears(s)
  BY <1>1 DEF Inductive, Sound
<1>3. Told(slot[s].fd) \/ ToldEnd(slot[s].fd)
  BY <1>1, <1>2 DEF Hears, Readable
<1> QED
  BY <1>3 DEF Told, ToldEnd

\* What it has read holds no whole head.
LEMMA InductiveDrained ==
  ASSUME Inductive
  PROVE  BufferDrained
<1> SUFFICES ASSUME NEW s \in Resting, slot[s].kind = "headers"
             PROVE  Token(s) = "none"
  BY DEF BufferDrained
<1>1. s \in Slots /\ slot[s].fd # None /\ at # s
  BY DEF Resting, Held
<1>2. Typed /\ Connected /\ Fits(s) /\ Scans(s)
  BY <1>1 DEF Inductive, Sound
<1>3. \A i \in slot[s].from + 1 .. slot[s].to : net[slot[s].fd].script[i] = "a"
  BY <1>1, <1>2 DEF Scans
<1> QED
  BY <1>1, <1>2, <1>3, HeadEndFacts

\* The invariant holds in every state of every loop.
THEOREM Invariance == Spec => []Inductive
<1>1. Init => Inductive
  BY InitInductive, LoopAssumption
<1>2. Inductive /\ [Next]_vars => Inductive'
  BY NextInductive, LoopAssumption
<1> QED
  BY <1>1, <1>2, PTL DEF Spec

\* Every variable has its type, active_count is the number of slots held, and a
\* provision is borrowed exactly while its slot holds a connection.
THEOREM Types == Spec => []TypeOK
<1>1. Inductive => TypeOK
  BY InductiveTypes
<1> QED
  BY <1>1, Invariance, PTL

\* A pool thread's answer goes to the connection that asked, and offload.inflight
\* counts those out: no close, timer, reclaim or event frees an offloaded slot.
THEOREM AnswersGoHome == Spec => []AnswersItsOwn
<1>1. Inductive => AnswersItsOwn
  BY DEF Inductive, Sound, Placed, Counted, Out, AnswersItsOwn
<1> QED
  BY <1>1, Invariance, PTL

\* Every slot that waits for its client has a deadline, and is on the queue the
\* reclaim looks for it in, once.
THEOREM WaitsEnd == Spec => []CanEnd
<1>1. Inductive => CanEnd
  BY InductiveClocked, InductiveQueued DEF CanEnd
<1> QED
  BY <1>1, Invariance, PTL

\* An edge of the kernel's is never spent on a slot that goes back to waiting with
\* bytes or an end unread, and no whole request is left in its buffer.
THEOREM NothingIsMissed == Spec => []NothingMissed
<1>1. Inductive => NothingMissed
  BY InductiveAnnounced, InductiveDrained DEF NothingMissed
<1> QED
  BY <1>1, Invariance, PTL

\* A connection closed behind an answer that did not ask for it has nothing more to
\* be answered: its client is gone, or ended its side with the request answered.
THEOREM LastAnswersLast == Spec => LastAnswerLast
<1>1. ASSUME Inductive, NEW s \in Slots, SentLast(s), ~Asks(s)
      PROVE  LET n == net[slot[s].fd] IN n.gone \/ (n.fin /\ slot[s].end = n.sent)
  <2>1. at = s /\ pc = "sent" /\ slot[s].close
    BY <1>1 DEF SentLast, Step
  <2>2. Placed(s) /\ Ends(s)
    BY <1>1 DEF Inductive, Sound
  <2>3. slot[s].kind = "responding" /\ slot[s].fd # None
    BY <2>1, <2>2 DEF Placed, Blank
  <2> QED
    BY <1>1, <2>1, <2>2, <2>3 DEF Ends
<1>2. Inductive /\ [Next]_vars
        => [\A s \in Slots : SentLast(s) /\ ~Asks(s)
              => LET n == net[slot[s].fd] IN n.gone \/ (n.fin /\ slot[s].end = n.sent)]_vars
  BY <1>1
<1> QED
  BY <1>2, Invariance, PTL DEF Spec, LastAnswerLast

=============================================================================
