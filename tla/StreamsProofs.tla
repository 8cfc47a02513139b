--------------------------- MODULE StreamsProofs ---------------------------
(***************************************************************************)
(* Proofs about Streams, for any number of slots, threads and requests,    *)
(* any room, windows and pieces: no thread ever has more on its way than   *)
(* its stream's window.                                                    *)
(***************************************************************************)
EXTENDS Streams, SequenceTheorems, FiniteSetTheorems, WellFoundedInduction, TLAPS

Frames == [kind : {"P", "s", "e"}, slot : Slots, gen : Gens, val : Nat, len : Nat]
Acks == Slots \X Int
AnyGen == {0} \cup Gens
Registries ==
  [sub : [Slots -> Threads \cup {None}], pending : [Slots -> Seq(Gens \X Nat)],
   done : [Slots -> BOOLEAN], gen : [Slots -> AnyGen], ready : SUBSET Slots]
Records ==
  [conn : {"unused", "ready", "offloaded", "sending", "idle"}, kind : Kinds, sse : BOOLEAN,
   chunked : BOOLEAN, close : BOOLEAN, gen : AnyGen, buf : Seq(Nat \X Nat), owes : Nat,
   owed : Nat]
Bodies == [gen : AnyGen, units : Nat, end : {"open", "whole", "cut"}]
Points == {"idle", "begin", "head", "pump", "wait", "place", "end", "full", "abort"}

Has(q, s) == \E i \in DOMAIN q : q[i] = s
Apart(q) == \A i, j \in DOMAIN q : q[i] = q[j] => i = j

\* A thread that has a job, that has not answered it yet, that gives its body.
Busy(t) == pc[t] # "idle"
Early(t) == pc[t] \in {"begin", "head"}
Active(t) == pc[t] \in {"pump", "wait", "place", "end", "full", "abort"}

\* The generations of a thread, past those of the threads before it.
Low(t) == (t - 1) * (MaxRequests + 1)
Its(t, g) == Low(t) < g /\ g <= Low(t) + MaxRequests + 1

\* Stream `g` is over for its thread, or its thread has begun it at slot `s`.
Known(s, g) ==
  \A t \in Threads : Its(t, g) =>
    g < Gen(t) \/ (g = Gen(t) /\ at[t] = s /\ Busy(t) /\ pc[t] # "begin")

\* Of the jobs asked for, a thread has had no more than it has generations.
Counted ==
  /\ asked <= server.requests
  /\ \A t \in Threads :
       nth[t] >= 1 /\ nth[t] + Len(jobs) + (IF Busy(t) THEN 1 ELSE 0) <= asked + 1

Works(t) ==
  /\ Busy(t) => at[t] \in Slots
  /\ pc[t] \in {"pump", "end"} => hand[t] = 0
  /\ pc[t] \in {"place", "full"} => hand[t] <= credit[t]
  /\ ~Active(t) => credit[t] = 0 /\ hand[t] = 0
Working == \A t \in Threads : Works(t)

\* A slot's response is outstanding in one place.
Turns ==
  /\ Apart(jobs) /\ Apart(ring)
  /\ \A s \in Slots : Has(jobs, s) \/ Has(ring, s) => slots[s].conn = "offloaded"
  /\ \A s \in Slots : ~(Has(jobs, s) /\ Has(ring, s))
  /\ \A t \in Threads : Early(t) =>
       /\ slots[at[t]].conn = "offloaded" /\ ~Has(ring, at[t]) /\ ~Has(jobs, at[t])
       /\ \A u \in Threads : Early(u) /\ at[u] = at[t] => u = t

\* Stream `g` is the one that slot `s` is to serve, or the one it serves.
Waiting(s, g) ==
  \/ Has(ring, s) /\ parked[s] = g
  \/ \E t \in Threads : pc[t] = "head" /\ at[t] = s /\ Gen(t) = g
Serving(s, g) == Waiting(s, g) \/ (slots[s].sse /\ slots[s].gen = g)

\* The frames are of streams begun, and a begin frame of one that is awaited.
Frameable(f) ==
  /\ Known(f.slot, f.gen)
  /\ f.kind = "s" => f.len <= f.val
  /\ f.kind = "P" => f.val \in Threads /\ Waiting(f.slot, f.gen)
Framed == \A i \in DOMAIN chunk : Frameable(chunk[i])

\* What a slot's record may be, and what the handler has of its stream.
Shaped(r) ==
  /\ r.conn \in {"unused", "ready", "offloaded"} => ~r.sse
  /\ ~r.sse /\ r.conn # "unused" => r.gen = 0
Owned(s) ==
  /\ slots[s].gen # 0 => Known(s, slots[s].gen)
  /\ parked[s] # 0 => Known(s, parked[s])
Registered(h, s) ==
  /\ h.gen[s] # 0 => Known(s, h.gen[s])
  /\ h.sub[s] = None => h.pending[s] = <<>>
  /\ h.sub[s] # None => h.gen[s] # 0 /\ Serving(s, h.gen[s])
Settled == \A s \in Slots : Shaped(slots[s]) /\ Owned(s) /\ Registered(handler, s)

\* Acks credit a slot with something, or say that its client is gone.
Proper(q) == \A i \in DOMAIN q : q[i][2] >= 1 \/ q[i][2] = -1

\* The acks that a thread hears of its slot are of its stream.
Hears(t) ==
  /\ Proper(pair[t])
  /\ Early(t) => slotAckFd[at[t]] = t
  /\ Active(t) /\ slotAckFd[at[t]] = t =>
       \/ Has(ring, at[t]) /\ parked[at[t]] = Gen(t)
       \/ slots[at[t]].sse /\ slots[at[t]].gen = Gen(t)
       \/ slots[at[t]].conn = "unused"
Heard == \A t \in Threads : Hears(t)

\* A stream's credit and what it has under way.
Quota(t) == IF Early(t) THEN 0 ELSE server.window
Charged ==
  \A t \in Threads :
    Busy(t) /\ "paid" \notin marks[t] => credit[t] + UnderWay(t) <= Quota(t)

Base == TypeOK /\ Counted /\ Working /\ Turns /\ Framed /\ Settled /\ Heard
Inductive == Base /\ Charged
-----------------------------------------------------------------------------
(* Folds. *)

\* Induction on the numbers, of a set of them.
LEMMA NatSet ==
  ASSUME NEW T, 0 \in T, \A i \in Nat : i \in T => i + 1 \in T
  PROVE  Nat \subseteq T
<1> SUFFICES ASSUME Nat \ T # {} PROVE FALSE
  OBVIOUS
<1>1. PICK i \in Nat \ T : \A j \in Nat \ T : ~(<<j, i>> \in OpToRel(<, Nat))
  BY NatLessThanWellFounded, WFMin, Nat \ T \subseteq Nat
<1>2. i # 0 /\ i - 1 \in Nat /\ i - 1 < i
  OBVIOUS
<1>3. i - 1 \in T
  BY <1>1, <1>2 DEF OpToRel
<1> QED
  BY <1>2, <1>3

\* The greatest of numbers that go up to one of them.
LEMMA MaxOf ==
  ASSUME NEW n \in Nat, NEW s \in SUBSET (1 .. n + 1), n + 1 \in s
  PROVE  Max(s) = n + 1
<1>1. \A y \in s : y \in Nat /\ n + 1 >= y
  OBVIOUS
<1>2. \A x \in s : (\A y \in s : x >= y) => x = n + 1
  BY <1>1
<1>3. \E x \in s : \A y \in s : x >= y
  BY <1>1
<1> QED
  BY <1>2, <1>3 DEF Max

\* A finite set of numbers has its greatest.
LEMMA MaxIn ==
  ASSUME NEW n \in Nat, NEW s \in SUBSET (1 .. n), s # {}
  PROVE  Max(s) \in s
<1> DEFINE T == {m \in Nat : \A z \in SUBSET (1 .. m) :
                               z # {} => \E x \in z : \A y \in z : x >= y}
<1>1. 0 \in T
  <2>1. \A z \in SUBSET (1 .. 0) : z = {}
    OBVIOUS
  <2> QED
    BY <2>1
<1>2. ASSUME NEW m \in Nat, m \in T PROVE m + 1 \in T
  <2> SUFFICES ASSUME NEW z \in SUBSET (1 .. m + 1), z # {}
               PROVE  \E x \in z : \A y \in z : x >= y
    OBVIOUS
  <2>1. CASE m + 1 \in z
    <3>1. \A y \in z : m + 1 >= y
      OBVIOUS
    <3> QED
      BY <2>1, <3>1
  <2>2. CASE m + 1 \notin z
    <3>1. z \in SUBSET (1 .. m)
      BY <2>2
    <3> QED
      BY <1>2, <3>1
  <2> QED
    BY <2>1, <2>2
<1>3. Nat \subseteq T
  BY <1>1, <1>2, NatSet
<1>4. \E x \in s : \A y \in s : x >= y
  BY <1>3
<1> QED
  BY <1>4 DEF Max

\* ... or its least.
LEMMA MinIn ==
  ASSUME NEW n \in Nat, NEW s \in SUBSET (1 .. n), s # {}
  PROVE  Min(s) \in s
<1> DEFINE T == {m \in Nat : \A z \in SUBSET (1 .. m) :
                               z # {} => \E x \in z : \A y \in z : x <= y}
<1>1. 0 \in T
  <2>1. \A z \in SUBSET (1 .. 0) : z = {}
    OBVIOUS
  <2> QED
    BY <2>1
<1>2. ASSUME NEW m \in Nat, m \in T PROVE m + 1 \in T
  <2> SUFFICES ASSUME NEW z \in SUBSET (1 .. m + 1), z # {}
               PROVE  \E x \in z : \A y \in z : x <= y
    OBVIOUS
  <2>1. CASE z \ {m + 1} = {}
    <3>1. m + 1 \in z /\ \A y \in z : y = m + 1
      BY <2>1
    <3> QED
      BY <3>1
  <2>2. CASE z \ {m + 1} # {}
    <3>1. z \ {m + 1} \in SUBSET (1 .. m)
      OBVIOUS
    <3>2. PICK x \in z \ {m + 1} : \A y \in z \ {m + 1} : x <= y
      BY <1>2, <2>2, <3>1
    <3>3. x <= m + 1
      BY <3>1, <3>2
    <3>4. \A y \in z : x <= y
      BY <3>2, <3>3
    <3> QED
      BY <3>2, <3>4
  <2> QED
    BY <2>1, <2>2
<1>3. Nat \subseteq T
  BY <1>1, <1>2, NatSet
<1>4. \E x \in s : \A y \in s : x <= y
  BY <1>3
<1> QED
  BY <1>4 DEF Min

\* The same along a stretch of them.
LEMMA Along ==
  ASSUME NEW n \in Nat, NEW T, 0 \in T, \A i \in 1 .. n : i - 1 \in T => i \in T
  PROVE  \A i \in 0 .. n : i \in T
<1> DEFINE U == {i \in Nat : i <= n => i \in T}
<1>1. 0 \in U
  OBVIOUS
<1>2. ASSUME NEW i \in Nat, i \in U PROVE i + 1 \in U
  <2> SUFFICES ASSUME i + 1 <= n PROVE i + 1 \in T
    OBVIOUS
  <2>1. i \in T /\ i + 1 \in 1 .. n /\ (i + 1) - 1 = i
    BY <1>2
  <2> QED
    BY <2>1
<1>3. Nat \subseteq U
  BY <1>1, <1>2, NatSet
<1> QED
  BY <1>3

\* The values of a fold on the sets of the first n positions of a sequence, where
\* its step goes from R to R over elements of F.
Folds(G, n, base, seq, g) ==
  g = [s \in SUBSET (1 .. n) |-> IF s = {} THEN base ELSE G[<<g[s \ {Max(s)}], seq[Max(s)]>>]]

\* They exist.
LEMMA FoldsExist ==
  ASSUME NEW R, NEW F, NEW G \in [R \X F -> R], NEW base \in R, NEW seq \in Seq(F)
  PROVE  \E g \in [SUBSET (1 .. Len(seq)) -> R] : Folds(G, Len(seq), base, seq, g)
<1> DEFINE Made(n) == \E g \in [SUBSET (1 .. n) -> R] : Folds(G, n, base, seq, g)
           T == {n \in Nat : Made(n)}
<1>1. 0 \in T
  <2> DEFINE g == [s \in SUBSET (1 .. 0) |-> base]
  <2>1. \A s \in SUBSET (1 .. 0) : s = {}
    OBVIOUS
  <2>2. Folds(G, 0, base, seq, g)
    BY <2>1 DEF Folds
  <2>3. g \in [SUBSET (1 .. 0) -> R]
    OBVIOUS
  <2> QED
    BY <2>2, <2>3
<1>2. ASSUME NEW i \in 1 .. Len(seq), i - 1 \in T PROVE i \in T
  <2> DEFINE n == i - 1
  <2>1. PICK g \in [SUBSET (1 .. n) -> R] : Folds(G, n, base, seq, g)
    BY <1>2
  <2>2. n \in Nat /\ n + 1 = i /\ seq[n + 1] \in F
    OBVIOUS
  <2> HIDE DEF n
  <2> DEFINE h == [s \in SUBSET (1 .. n + 1) |->
                     IF n + 1 \in s THEN G[<<g[s \ {n + 1}], seq[n + 1]>>] ELSE g[s]]
             val(s) == IF s = {} THEN base ELSE G[<<h[s \ {Max(s)}], seq[Max(s)]>>]
  <2>3. ASSUME NEW s \in SUBSET (1 .. n + 1) PROVE h[s] = val(s)
    <3>1. CASE n + 1 \in s
      <4>1. Max(s) = n + 1 /\ s # {}
        BY <2>2, <3>1, MaxOf
      <4>2. s \ {n + 1} \in SUBSET (1 .. n + 1) /\ n + 1 \notin s \ {n + 1}
        OBVIOUS
      <4>3. h[s \ {n + 1}] = g[s \ {n + 1}]
        BY <4>2
      <4> QED
        BY <3>1, <4>1, <4>3
    <3>2. CASE n + 1 \notin s
      <4>1. s \in SUBSET (1 .. n)
        BY <2>2, <3>2
      <4>2. /\ h[s] = g[s]
            /\ g[s] = IF s = {} THEN base ELSE G[<<g[s \ {Max(s)}], seq[Max(s)]>>]
        BY <2>1, <3>2, <4>1 DEF Folds
      <4>3. s \ {Max(s)} \in SUBSET (1 .. n + 1) /\ n + 1 \notin s \ {Max(s)}
        BY <3>2
      <4>4. h[s \ {Max(s)}] = g[s \ {Max(s)}]
        BY <4>3
      <4> QED
        BY <4>2, <4>4
    <3> QED
      BY <3>1, <3>2
  <2>4. ASSUME NEW s \in SUBSET (1 .. n + 1) PROVE h[s] \in R
    <3>1. CASE n + 1 \in s
      <4>1. s \ {n + 1} \in SUBSET (1 .. n)
        BY <2>2
      <4>2. <<g[s \ {n + 1}], seq[n + 1]>> \in R \X F
        BY <2>1, <2>2, <4>1
      <4> QED
        BY <3>1, <4>2
    <3>2. CASE n + 1 \notin s
      <4>1. s \in SUBSET (1 .. n)
        BY <2>2, <3>2
      <4> QED
        BY <2>1, <3>2, <4>1
    <3> QED
      BY <3>1, <3>2
  <2>5. h = [s \in SUBSET (1 .. n + 1) |-> val(s)]
    <3> HIDE DEF val
    <3> QED
      BY <2>3
  <2>6. Folds(G, n + 1, base, seq, h)
    BY <2>5 DEF Folds
  <2>7. h \in [SUBSET (1 .. n + 1) -> R]
    <3>1. h = [s \in SUBSET (1 .. n + 1) |-> h[s]]
      OBVIOUS
    <3> HIDE DEF h
    <3> QED
      BY <2>4, <3>1
  <2>8. Made(n + 1)
    <3> HIDE DEF h
    <3> QED
      BY <2>6, <2>7
  <2> HIDE DEF Made
  <2> QED
    BY <2>2, <2>8
<1>3. Len(seq) \in Nat
  OBVIOUS
<1> HIDE DEF T
<1>4. \A i \in 0 .. Len(seq) : i \in T
  BY <1>1, <1>2, <1>3, Along
<1>5. Len(seq) \in T
  BY <1>3, <1>4
<1> QED
  BY <1>5 DEF T

\* The first positions, as a fold goes back over them.
LEMMA UpTo ==
  ASSUME NEW n \in Nat, NEW i \in 1 .. n
  PROVE  /\ 1 .. i \in SUBSET (1 .. n) /\ 1 .. i # {} /\ Max(1 .. i) = i
         /\ (1 .. i) \ {i} = 1 .. (i - 1) /\ i - 1 \in 0 .. n /\ i \in 0 .. n
<1>1. i \in Nat /\ 1 <= i /\ i <= n
  OBVIOUS
<1>2. i - 1 \in Nat /\ (i - 1) + 1 = i /\ i - 1 \in 0 .. n /\ i \in 0 .. n
  BY <1>1
<1>3. 1 .. i \in SUBSET (1 .. n) /\ i \in 1 .. i /\ 1 .. i \in SUBSET (1 .. (i - 1) + 1)
  BY <1>1
<1>4. 1 .. i # {}
  BY <1>3
<1>5. Max(1 .. i) = i
  BY <1>2, <1>3, MaxOf
<1>6. (1 .. i) \ {i} = 1 .. (i - 1)
  BY <1>1
<1> QED
  BY <1>2, <1>3, <1>4, <1>5, <1>6

-----------------------------------------------------------------------------
(* Types. *)

\* What TypeOK says of each variable.
LEMMA Typed ==
  ASSUME TypeOK
  PROVE  /\ server \in Deployments /\ asked \in Nat
         /\ pc \in [Threads -> Points] /\ at \in [Threads -> Slots \cup {None}]
         /\ nth \in [Threads -> Nat] /\ made \in [Threads -> Nat]
         /\ hand \in [Threads -> Nat] /\ credit \in [Threads -> Nat]
         /\ jobs \in Seq(Slots) /\ ring \in Seq(Slots)
         /\ parked \in [Slots -> AnyGen] /\ slotAckFd \in [Slots -> Threads \cup {None}]
         /\ chunk \in Seq(Frames) /\ pair \in [Threads -> Seq(Acks)]
         /\ posted \in Seq(Slots \X Gens) /\ aborts \in Seq(Slots \X Gens)
         /\ slots \in [Slots -> Records] /\ handler \in Registries /\ due \subseteq Slots
         /\ wire \in [Slots -> Seq(Nat \X Int)] /\ body \in [Slots -> Bodies]
         /\ marks \in [Threads -> SUBSET Marks]
  BY DEF TypeOK, Points, AnyGen, Frames, Acks, Records, Registries, Bodies

\* ... and the other way round, after a step.
LEMMA TypedNext ==
  ASSUME server' \in Deployments, asked' \in Nat,
         pc' \in [Threads -> Points], at' \in [Threads -> Slots \cup {None}],
         nth' \in [Threads -> Nat], made' \in [Threads -> Nat],
         hand' \in [Threads -> Nat], credit' \in [Threads -> Nat],
         jobs' \in Seq(Slots), ring' \in Seq(Slots),
         parked' \in [Slots -> AnyGen], slotAckFd' \in [Slots -> Threads \cup {None}],
         chunk' \in Seq(Frames), pair' \in [Threads -> Seq(Acks)],
         posted' \in Seq(Slots \X Gens), aborts' \in Seq(Slots \X Gens),
         slots' \in [Slots -> Records], handler' \in Registries, due' \subseteq Slots,
         wire' \in [Slots -> Seq(Nat \X Int)], body' \in [Slots -> Bodies],
         marks' \in [Threads -> SUBSET Marks]
  PROVE  TypeOK'
  BY DEF TypeOK, Points, AnyGen, Frames, Acks, Records, Registries, Bodies

\* A server's numbers.
LEMMA ServerFacts ==
  ASSUME TypeOK
  PROVE  /\ server.slots \in Slots /\ server.threads \in Threads
         /\ server.kinds \in SUBSET Kinds /\ server.ackRoom \in Nat \ {0}
         /\ server.window \in Nat /\ server.sizes \subseteq 1 .. server.window
         /\ server.units \in Nat /\ server.requests \in Nat /\ server.requests <= MaxRequests
         /\ NumThreads \in Nat /\ MaxRequests \in Nat /\ None \notin Threads
         /\ Threads \subseteq Nat \ {0}
<1>1. server \in Deployments
  BY Typed
<1>2. server \in Deployed /\ server.sizes \subseteq 1 .. server.window
  BY <1>1, StreamsAssumption
<1>3. NumThreads \in Nat /\ MaxRequests \in Nat /\ None \notin Threads
  BY StreamsAssumption
<1>4. Threads \subseteq Nat \ {0}
  BY <1>3 DEF Threads
<1> QED
  BY <1>2, <1>3, <1>4 DEF Deployed

\* A thread's numbers lie between those of its neighbours.
LEMMA Times ==
  ASSUME NEW a \in Nat, NEW b \in Nat, NEW m \in Nat, a <= b
  PROVE  a * m \in Nat /\ a * m <= b * m
<1> DEFINE c == b - a
<1>1. c \in Nat /\ b = a + c
  OBVIOUS
<1> HIDE DEF c
<1>2. (a + c) * m = a * m + c * m /\ c * m \in Nat /\ a * m \in Nat
  BY <1>1
<1> QED
  BY <1>1, <1>2

\* The generations of two threads are apart.
LEMMA Lows ==
  ASSUME NEW t \in Threads
  PROVE  /\ Low(t) \in Nat /\ MaxRequests \in Nat
         /\ Low(t) + MaxRequests + 1 <= NumThreads * (MaxRequests + 1)
         /\ NumThreads * (MaxRequests + 1) \in Nat
         /\ \A u \in Threads : t < u => Low(t) + MaxRequests + 1 <= Low(u)
<1> DEFINE m == MaxRequests + 1
<1>1. NumThreads \in Nat /\ MaxRequests \in Nat /\ m \in Nat /\ 0 \in Nat
  BY StreamsAssumption
<1>2. Threads = 1 .. NumThreads
  BY DEF Threads
<1>3. t \in Nat /\ t - 1 \in Nat /\ t <= NumThreads
  BY <1>1, <1>2
<1>4. t * m = (t - 1) * m + m /\ (t - 1) * m \in Nat
  <2> HIDE DEF m
  <2> DEFINE p == t - 1
  <2>1. p \in Nat /\ t = p + 1
    BY <1>3
  <2> HIDE DEF p
  <2>2. (p + 1) * m = p * m + m /\ p * m \in Nat
    BY <1>1, <2>1
  <2>3. t * m = p * m + m
    BY <2>1, <2>2
  <2> QED
    BY <2>2, <2>3 DEF p
<1>5. t * m <= NumThreads * m /\ NumThreads * m \in Nat
  <2> HIDE DEF m
  <2> QED
    BY <1>1, <1>3, Times
<1>6. ASSUME NEW u \in Threads, t < u PROVE t * m <= (u - 1) * m
  <2>1. u - 1 \in Nat /\ t <= u - 1
    BY <1>1, <1>2, <1>3, <1>6
  <2> HIDE DEF m
  <2> QED
    BY <1>1, <1>3, <2>1, Times
<1>7. /\ Low(t) = (t - 1) * m /\ \A u \in Threads : Low(u) = (u - 1) * m
      /\ NumThreads * (MaxRequests + 1) = NumThreads * m
  BY DEF Low
<1> DEFINE l == Low(t)
           k == t * m
           n == NumThreads * m
<1>8. l \in Nat /\ k = l + m /\ k <= n /\ n \in Nat /\ \A u \in Threads : t < u => k <= Low(u)
  BY <1>4, <1>5, <1>6, <1>7
<1>9. l + MaxRequests + 1 = l + m
  BY <1>1, <1>8
<1> QED
  BY <1>1, <1>7, <1>8, <1>9

\* A thread is at one of its own, and no other thread's.
LEMMA ItsOne ==
  ASSUME NEW t \in Threads, NEW u \in Threads, NEW g \in Nat, Its(t, g), Its(u, g)
  PROVE  t = u
<1>1. t \in Nat /\ u \in Nat
  BY StreamsAssumption DEF Threads
<1>2. Low(t) \in Nat /\ Low(u) \in Nat /\ MaxRequests \in Nat
  BY Lows
<1>3. /\ t < u => Low(t) + MaxRequests + 1 <= Low(u)
      /\ u < t => Low(u) + MaxRequests + 1 <= Low(t)
  BY Lows
<1>4. Low(t) < g /\ g <= Low(t) + MaxRequests + 1 /\ Low(u) < g /\ g <= Low(u) + MaxRequests + 1
  BY DEF Its
<1>5. ~(t < u) /\ ~(u < t)
  BY <1>2, <1>3, <1>4
<1> QED
  BY <1>1, <1>5

\* The generation a thread is at, or will be at, is one of its own.
LEMMA GenFacts ==
  ASSUME TypeOK, Counted, NEW t \in Threads
  PROVE  /\ Gen(t) = Low(t) + nth[t] /\ Low(t) \in Nat /\ nth[t] \in Nat \ {0}
         /\ Its(t, Gen(t)) /\ Gen(t) \in Gens /\ Gen(t) \in Nat \ {0}
         /\ Busy(t) => nth[t] <= MaxRequests
<1>1. /\ nth[t] \in Nat /\ asked \in Nat /\ Len(jobs) \in Nat
      /\ server.requests \in Nat /\ server.requests <= MaxRequests /\ MaxRequests \in Nat
  <2>1. jobs \in Seq(Slots) /\ nth \in [Threads -> Nat] /\ asked \in Nat
    BY Typed
  <2> QED
    BY <2>1, ServerFacts
<1>2. /\ asked <= server.requests /\ nth[t] >= 1
      /\ nth[t] + Len(jobs) + (IF Busy(t) THEN 1 ELSE 0) <= asked + 1
  BY DEF Counted
<1>3. nth[t] <= MaxRequests + 1 /\ (Busy(t) => nth[t] <= MaxRequests)
  BY <1>1, <1>2
<1>4. /\ Low(t) \in Nat /\ Low(t) + MaxRequests + 1 <= NumThreads * (MaxRequests + 1)
      /\ NumThreads * (MaxRequests + 1) \in Nat
  BY Lows
<1>5. Gen(t) = Low(t) + nth[t]
  BY DEF Gen, Low
<1> DEFINE l == Low(t)
           n == NumThreads * (MaxRequests + 1)
<1>6. /\ Gen(t) = l + nth[t] /\ l \in Nat /\ l + MaxRequests + 1 <= n /\ n \in Nat
      /\ Gens = 1 .. n
  BY <1>4, <1>5 DEF Gens
<1>7. Its(t, Gen(t)) <=> l < Gen(t) /\ Gen(t) <= l + MaxRequests + 1
  BY DEF Its
<1> HIDE DEF l, n
<1>8. Gen(t) \in 1 .. n /\ l < Gen(t) /\ Gen(t) <= l + MaxRequests + 1
  BY <1>1, <1>2, <1>3, <1>6
<1>9. Gen(t) \in Gens /\ Gen(t) \in Nat \ {0}
  BY <1>6, <1>8
<1>10. Its(t, Gen(t))
  BY <1>7, <1>8
<1>11. nth[t] \in Nat \ {0}
  BY <1>1, <1>2
<1> QED
  BY <1>3, <1>4, <1>5, <1>9, <1>10, <1>11

\* So no two threads are at the same one, and one that is not yet begun is nobody's.
LEMMA GenApart ==
  ASSUME TypeOK, Counted, NEW t \in Threads
  PROVE  /\ \A u \in Threads : Gen(u) = Gen(t) => u = t
         /\ \A u \in Threads : Its(u, Gen(t)) => u = t
         /\ \A s : Known(s, Gen(t)) => at[t] = s /\ Busy(t) /\ pc[t] # "begin"
<1>1. Its(t, Gen(t)) /\ Gen(t) \in Nat
  BY GenFacts
<1>2. \A u \in Threads : Its(u, Gen(t)) => u = t
  BY <1>1, ItsOne
<1>3. \A u \in Threads : Gen(u) = Gen(t) => u = t
  BY <1>2, GenFacts
<1>4. ~(Gen(t) < Gen(t))
  BY <1>1
<1> QED
  BY <1>1, <1>2, <1>3, <1>4 DEF Known

-----------------------------------------------------------------------------
(* The handler's registry. *)

\* The frames that a registry can take.
Fit == {f \in Frames : (f.kind = "P" => f.val \in Threads) /\ (f.kind = "s" => f.len <= f.val)}

\* Of two registries what one has of slot `s` is what the other has.
Same(h, m, s) ==
  h.sub[s] = m.sub[s] /\ h.pending[s] = m.pending[s] /\ h.done[s] = m.done[s]
    /\ h.gen[s] = m.gen[s]

\* One frame touches its slot alone.
LEMMA PeerFacts ==
  ASSUME NEW h \in Registries, NEW f \in Fit
  PROVE  LET m == Peer(h, f)
             s == f.slot
             ours == h.gen[s] = f.gen
         IN /\ m \in Registries /\ s \in Slots
            /\ \A z \in Slots \ {s} : Same(m, h, z)
            /\ f.kind = "P" => /\ m.sub[s] = f.val /\ m.gen[s] = f.gen /\ ~m.done[s]
                               /\ m.pending[s] = h.pending[s]
            /\ f.kind = "s" /\ ours /\ h.sub[s] # None =>
                 /\ m.sub[s] = h.sub[s] /\ m.gen[s] = h.gen[s] /\ m.done[s] = h.done[s]
                 /\ m.pending[s] = h.pending[s]
                                   \o [i \in 1 .. f.len |-> Unit(f.gen, f.val - f.len + i)]
            /\ f.kind = "e" /\ ours /\ h.pending[s] # <<>> =>
                 /\ m.sub[s] = h.sub[s] /\ m.gen[s] = h.gen[s] /\ m.done[s]
                 /\ m.pending[s] = h.pending[s]
            /\ f.kind = "e" /\ ours /\ h.pending[s] = <<>> =>
                 /\ m.sub[s] = None /\ m.gen[s] = h.gen[s] /\ m.done[s] = h.done[s]
                 /\ m.pending[s] = <<>>
            /\ \/ f.kind = "s" /\ (~ours \/ h.sub[s] = None)
               \/ f.kind = "e" /\ ~ours
               => m = h
<1> DEFINE m == Peer(h, f)
           s == f.slot
           ours == h.gen[s] = f.gen
<1>1. /\ h.sub \in [Slots -> Threads \cup {None}] /\ h.done \in [Slots -> BOOLEAN]
      /\ h.pending \in [Slots -> Seq(Gens \X Nat)] /\ h.gen \in [Slots -> AnyGen]
      /\ h.ready \subseteq Slots
      /\ h = [sub |-> h.sub, pending |-> h.pending, done |-> h.done, gen |-> h.gen,
              ready |-> h.ready]
  BY DEF Registries
<1>2. /\ f.kind \in {"P", "s", "e"} /\ s \in Slots /\ f.gen \in Gens /\ f.gen \in AnyGen
      /\ f.kind = "P" => f.val \in Threads
      /\ f.val \in Nat /\ f.len \in Nat
      /\ f.kind = "s" => f.len <= f.val
  BY DEF Fit, Frames, AnyGen
<1> HIDE DEF s, ours
<1>3. CASE f.kind = "P"
  <2>1. m = [h EXCEPT !.sub[s] = f.val, !.done[s] = FALSE, !.gen[s] = f.gen]
    BY <1>3 DEF Peer, s
  <2>2. m = [sub |-> [h.sub EXCEPT ![s] = f.val], pending |-> h.pending,
             done |-> [h.done EXCEPT ![s] = FALSE], gen |-> [h.gen EXCEPT ![s] = f.gen],
             ready |-> h.ready]
    BY <1>1, <2>1
  <2>3. /\ [h.sub EXCEPT ![s] = f.val] \in [Slots -> Threads \cup {None}]
        /\ [h.done EXCEPT ![s] = FALSE] \in [Slots -> BOOLEAN]
        /\ [h.gen EXCEPT ![s] = f.gen] \in [Slots -> AnyGen]
    BY <1>1, <1>2, <1>3
  <2>4. m \in Registries
    BY <1>1, <2>2, <2>3 DEF Registries
  <2>5. \A z \in Slots \ {s} : Same(m, h, z)
    BY <1>1, <2>2 DEF Same
  <2>6. m.sub[s] = f.val /\ m.gen[s] = f.gen /\ ~m.done[s] /\ m.pending[s] = h.pending[s]
    BY <1>1, <1>2, <2>2
  <2> QED
    BY <1>2, <1>3, <2>4, <2>5, <2>6 DEF s, ours
<1>4. CASE f.kind = "s" /\ h.sub[s] # None /\ ours
  <2> DEFINE piece == [i \in 1 .. f.len |-> Unit(f.gen, f.val - f.len + i)]
             q == h.pending[s] \o piece
  <2>1. m = [h EXCEPT !.pending[s] = @ \o piece, !.ready = @ \cup {s}]
    BY <1>4 DEF Peer, s, ours
  <2>2. m = [sub |-> h.sub, pending |-> [h.pending EXCEPT ![s] = q],
             done |-> h.done, gen |-> h.gen, ready |-> h.ready \cup {s}]
    BY <1>1, <2>1
  <2>3. piece \in Seq(Gens \X Nat)
    <3>1. \A i \in 1 .. f.len : f.val - f.len + i \in Nat
      BY <1>2, <1>4
    <3>2. \A i \in 1 .. f.len : Unit(f.gen, f.val - f.len + i) \in Gens \X Nat
      BY <1>2, <3>1 DEF Unit
    <3> QED
      BY <1>2, <3>2
  <2> HIDE DEF piece
  <2>4. q \in Seq(Gens \X Nat)
    BY <1>1, <1>2, <2>3
  <2>5. /\ m \in Registries /\ \A z \in Slots \ {s} : Same(m, h, z)
        /\ m.sub[s] = h.sub[s] /\ m.gen[s] = h.gen[s] /\ m.done[s] = h.done[s]
        /\ m.pending[s] = q
    <3> HIDE DEF q
    <3> QED
      BY <1>1, <1>2, <2>2, <2>4 DEF Registries, Same
  <2> QED
    BY <1>2, <1>4, <2>5 DEF s, ours, piece
<1>5. CASE f.kind = "e" /\ ours /\ h.pending[s] # <<>>
  <2>1. m = [h EXCEPT !.done[s] = TRUE, !.ready = @ \cup {s}]
    BY <1>5 DEF Peer, s, ours
  <2>2. m = [sub |-> h.sub, pending |-> h.pending, done |-> [h.done EXCEPT ![s] = TRUE],
             gen |-> h.gen, ready |-> h.ready \cup {s}]
    BY <1>1, <2>1
  <2>3. [h.done EXCEPT ![s] = TRUE] \in [Slots -> BOOLEAN] /\ h.ready \cup {s} \subseteq Slots
    BY <1>1, <1>2
  <2>4. m \in Registries
    BY <1>1, <2>2, <2>3 DEF Registries
  <2>5. \A z \in Slots \ {s} : Same(m, h, z)
    BY <1>1, <2>2 DEF Same
  <2>6. m.sub[s] = h.sub[s] /\ m.gen[s] = h.gen[s] /\ m.done[s] /\ m.pending[s] = h.pending[s]
    BY <1>1, <1>2, <2>2
  <2> QED
    BY <1>2, <1>5, <2>4, <2>5, <2>6 DEF s, ours
<1>6. CASE f.kind = "e" /\ ours /\ h.pending[s] = <<>>
  <2>1. m = [h EXCEPT !.sub[s] = None, !.pending[s] = <<>>, !.ready = @ \cup {s}]
    BY <1>6 DEF Peer, s, ours, Unsubscribed
  <2>2. m = [sub |-> [h.sub EXCEPT ![s] = None], pending |-> [h.pending EXCEPT ![s] = <<>>],
             done |-> h.done, gen |-> h.gen, ready |-> h.ready \cup {s}]
    BY <1>1, <2>1
  <2>3. <<>> \in Seq(Gens \X Nat)
    OBVIOUS
  <2> QED
    BY <1>1, <1>2, <1>6, <2>2, <2>3 DEF Registries, s, ours, Same
<1>7. CASE \/ f.kind = "s" /\ (~ours \/ h.sub[s] = None)
           \/ f.kind = "e" /\ ~ours
  <2>1. m = h
    BY <1>7 DEF Peer, s, ours
  <2> QED
    BY <1>2, <1>7, <2>1 DEF s, ours, Same
<1> QED
  BY <1>2, <1>3, <1>4, <1>5, <1>6, <1>7 DEF s, ours

\* What the loop's handlers do to it: of the slots only one is touched.
LEMMA RegistryFacts ==
  ASSUME NEW h \in Registries, NEW s \in Slots
  PROVE  /\ Named(h, s) \in Registries /\ \A z \in Slots : Same(Named(h, s), h, z)
         /\ Drained(h, s) \in Registries /\ Disconnected(h, s) \in Registries
         /\ \A z \in Slots \ {s} : Same(Drained(h, s), h, z) /\ Same(Disconnected(h, s), h, z)
         /\ Drained(h, s).gen[s] = h.gen[s] /\ Drained(h, s).pending[s] = <<>>
         /\ ~Drained(h, s).done[s]
         /\ Drained(h, s).sub[s] = IF h.done[s] THEN None ELSE h.sub[s]
         /\ Disconnected(h, s).sub[s] = None /\ Disconnected(h, s).pending[s] = <<>>
         /\ ~Disconnected(h, s).done[s] /\ Disconnected(h, s).gen[s] = 0
<1>1. /\ h.sub \in [Slots -> Threads \cup {None}] /\ h.done \in [Slots -> BOOLEAN]
      /\ h.pending \in [Slots -> Seq(Gens \X Nat)] /\ h.gen \in [Slots -> AnyGen]
      /\ h.ready \subseteq Slots
      /\ h = [sub |-> h.sub, pending |-> h.pending, done |-> h.done, gen |-> h.gen,
              ready |-> h.ready]
  BY DEF Registries
<1>2. 0 \in AnyGen /\ <<>> \in Seq(Gens \X Nat)
  BY DEF AnyGen
<1> DEFINE u == Unsubscribed(h, s)
<1>3. u = [sub |-> [h.sub EXCEPT ![s] = None], pending |-> [h.pending EXCEPT ![s] = <<>>],
           done |-> h.done, gen |-> h.gen, ready |-> h.ready \cup {s}]
  <2>1. u = [h EXCEPT !.sub[s] = None, !.pending[s] = <<>>, !.ready = @ \cup {s}]
    BY DEF Unsubscribed
  <2> QED
    BY <1>1, <2>1
<1>4. /\ Disconnected(h, s) = [u EXCEPT !.done[s] = FALSE, !.gen[s] = 0]
      /\ Drained(h, s) = IF h.done[s] THEN [u EXCEPT !.done[s] = FALSE]
                         ELSE [h EXCEPT !.pending[s] = <<>>]
  BY DEF Disconnected, Drained
<1> HIDE DEF u
<1>5. Named(h, s) = [h EXCEPT !.ready = @ \ {s}]
  BY DEF Named
<1>6. Named(h, s) = [sub |-> h.sub, pending |-> h.pending, done |-> h.done, gen |-> h.gen,
                     ready |-> h.ready \ {s}]
  BY <1>1, <1>5
<1>7. Disconnected(h, s) = [sub |-> [h.sub EXCEPT ![s] = None],
                            pending |-> [h.pending EXCEPT ![s] = <<>>],
                            done |-> [h.done EXCEPT ![s] = FALSE],
                            gen |-> [h.gen EXCEPT ![s] = 0], ready |-> h.ready \cup {s}]
  BY <1>1, <1>3, <1>4
<1>8. h.done[s] => Drained(h, s) = [sub |-> [h.sub EXCEPT ![s] = None],
                            pending |-> [h.pending EXCEPT ![s] = <<>>],
                            done |-> [h.done EXCEPT ![s] = FALSE],
                            gen |-> h.gen, ready |-> h.ready \cup {s}]
  BY <1>1, <1>3, <1>4
<1>9. ~h.done[s] => Drained(h, s) = [sub |-> h.sub,
                            pending |-> [h.pending EXCEPT ![s] = <<>>],
                            done |-> h.done, gen |-> h.gen, ready |-> h.ready]
  BY <1>1, <1>4
<1>10. Named(h, s) \in Registries /\ \A z \in Slots : Same(Named(h, s), h, z)
  BY <1>1, <1>6 DEF Registries, Same
<1>11. /\ Disconnected(h, s) \in Registries
       /\ \A z \in Slots \ {s} : Same(Disconnected(h, s), h, z)
       /\ Disconnected(h, s).sub[s] = None /\ Disconnected(h, s).pending[s] = <<>>
       /\ ~Disconnected(h, s).done[s] /\ Disconnected(h, s).gen[s] = 0
  BY <1>1, <1>2, <1>7 DEF Registries, Same
<1> DEFINE d == Drained(h, s)
<1>12. /\ [h.sub EXCEPT ![s] = None] \in [Slots -> Threads \cup {None}]
       /\ [h.pending EXCEPT ![s] = <<>>] \in [Slots -> Seq(Gens \X Nat)]
       /\ [h.done EXCEPT ![s] = FALSE] \in [Slots -> BOOLEAN]
       /\ h.ready \cup {s} \subseteq Slots
  BY <1>1, <1>2
<1>13. CASE h.done[s]
  <2>1. d = [sub |-> [h.sub EXCEPT ![s] = None], pending |-> [h.pending EXCEPT ![s] = <<>>],
             done |-> [h.done EXCEPT ![s] = FALSE], gen |-> h.gen, ready |-> h.ready \cup {s}]
    BY <1>8, <1>13
  <2> HIDE DEF d
  <2>2. d \in Registries
    BY <1>1, <1>12, <2>1 DEF Registries
  <2>3. \A z \in Slots \ {s} : Same(d, h, z)
    BY <1>1, <2>1 DEF Same
  <2>4. d.gen[s] = h.gen[s] /\ d.pending[s] = <<>> /\ ~d.done[s] /\ d.sub[s] = None
    BY <1>1, <2>1
  <2> QED
    BY <1>10, <1>11, <1>13, <2>2, <2>3, <2>4 DEF d
<1>14. CASE ~h.done[s]
  <2>1. d = [sub |-> h.sub, pending |-> [h.pending EXCEPT ![s] = <<>>], done |-> h.done,
             gen |-> h.gen, ready |-> h.ready]
    BY <1>9, <1>14
  <2> HIDE DEF d
  <2>2. d \in Registries
    BY <1>1, <1>12, <2>1 DEF Registries
  <2>3. \A z \in Slots \ {s} : Same(d, h, z)
    BY <1>1, <2>1 DEF Same
  <2>4. d.gen[s] = h.gen[s] /\ d.pending[s] = <<>> /\ ~d.done[s] /\ d.sub[s] = h.sub[s]
    BY <1>1, <1>14, <2>1
  <2> QED
    BY <1>10, <1>11, <1>14, <2>2, <2>3, <2>4 DEF d
<1> QED
  BY <1>13, <1>14

\* A channel read to its end is a walk along its frames.
LEMMA DeliveredWalk ==
  ASSUME NEW l \in Registries, NEW q \in Seq(Fit)
  PROVE  \E h \in [0 .. Len(q) -> Registries] :
           /\ h[0] = l
           /\ h[Len(q)] = FoldLeft(Peer, l, q)
           /\ \A i \in 1 .. Len(q) : h[i] = Peer(h[i - 1], q[i])
<1> DEFINE n == Len(q)
           R == Registries
           op(r, f) == Peer(r, f)
           fold == FoldLeft(Peer, l, q)
           G == [x \in R \X Fit |-> op(x[1], x[2])]
           Solves(g) == g = [z \in SUBSET (1 .. n) |->
                               IF z = {} THEN l
                               ELSE op(g[z \ {Max(z)}], q[Max(z)])]
           g == CHOOSE g : Solves(g)
           h == [i \in 0 .. n |-> g[1 .. i]]
<1>1. n \in Nat /\ DOMAIN q = 1 .. n /\ l \in R
  OBVIOUS
<1>2. \A r \in R, f \in Fit : (op(r, f)) \in R
  BY PeerFacts
<1> HIDE DEF R
<1>3. G \in [R \X Fit -> R]
  BY <1>2
<1>4. \E f : Solves(f)
  <2>1. PICK f \in [SUBSET (1 .. n) -> R] : Folds(G, n, l, q, f)
    <3> HIDE DEF G
    <3> QED
      BY <1>1, <1>3, FoldsExist
  <2>2. ASSUME NEW z \in SUBSET (1 .. n), z # {}
        PROVE  G[<<f[z \ {Max(z)}], q[Max(z)]>>] = op(f[z \ {Max(z)}], q[Max(z)])
    <3>1. Max(z) \in z
      BY <1>1, <2>2, MaxIn
    <3>2. Max(z) \in 1 .. n /\ z \ {Max(z)} \in SUBSET (1 .. n)
      BY <3>1
    <3>3. f[z \ {Max(z)}] \in R
      BY <2>1, <3>2
    <3>4. q[Max(z)] \in Fit
      BY <1>1, <3>2
    <3> QED
      BY <3>3, <3>4
  <2>3. f = [z \in SUBSET (1 .. n) |->
               IF z = {} THEN l ELSE G[<<f[z \ {Max(z)}], q[Max(z)]>>]]
    BY <2>1 DEF Folds
  <2> HIDE DEF G
  <2>4. Solves(f)
    BY <2>2, <2>3
  <2> QED
    BY <2>4
<1>5. Solves(g)
  BY <1>4
<1>6. fold = g[1 .. n]
  BY <1>1 DEF FoldLeft, MapThenFoldSet
<1> HIDE DEF g, G, op, fold
<1>7. h[0] = l
  <2>1. 1 .. 0 = {}
    OBVIOUS
  <2>2. g[{}] = l
    BY <1>5
  <2> QED
    BY <1>1, <2>1, <2>2
<1>8. ASSUME NEW i \in 1 .. n PROVE h[i] = op(h[i - 1], q[i])
  <2>1. /\ 1 .. i \in SUBSET (1 .. n) /\ 1 .. i # {} /\ Max(1 .. i) = i
        /\ (1 .. i) \ {i} = 1 .. (i - 1) /\ i - 1 \in 0 .. n /\ i \in 0 .. n
    BY <1>1, UpTo
  <2>2. g[1 .. i] = op(g[1 .. (i - 1)], q[i])
    BY <1>5, <2>1
  <2> QED
    BY <2>1, <2>2
<1>9. h[n] = fold
  BY <1>1, <1>6
<1>10. \A i \in 0 .. n : h[i] \in R
  <2> DEFINE T == {i \in 0 .. n : h[i] \in R}
  <2>1. 0 \in T
    BY <1>1, <1>7
  <2>2. ASSUME NEW i \in 1 .. n, i - 1 \in T PROVE i \in T
    <3>1. i \in 0 .. n /\ q[i] \in Fit
      BY <1>1
    <3> HIDE DEF h
    <3> QED
      BY <1>2, <1>8, <2>2, <3>1
  <2> HIDE DEF T
  <2>3. \A i \in 0 .. n : i \in T
    BY <1>1, <2>1, <2>2, Along
  <2> QED
    BY <2>3 DEF T
<1>11. h \in [0 .. n -> R]
  BY <1>10
<1> HIDE DEF h
<1> QED
  BY <1>7, <1>8, <1>9, <1>11 DEF R, op, fold

-----------------------------------------------------------------------------
(* Sums along a sequence. *)

\* What a frame counts for stream `g`, and an ack for slot `s`.
Weight(g) == [f \in Frames |-> IF f.gen = g THEN f.len ELSE 0]
Worth(s) == [a \in Acks |-> IF a[1] = s /\ a # Gone(s) THEN a[2] ELSE 0]

\* Weighed by `W`, the elements of `q` come along `h` to `v`.
Sums(h, v, q, W) ==
  /\ h[0] = 0 /\ h[Len(q)] = v
  /\ \A i \in 1 .. Len(q) : h[i] = h[i - 1] + W[q[i]]

\* What a channel holds of a stream is such a sum, ...
LEMMA ChunkSum ==
  ASSUME NEW gg, NEW q \in Seq(Frames)
  PROVE  \E h \in [0 .. Len(q) -> Nat] : Sums(h, InChunk(q, gg), q, Weight(gg))
<1> DEFINE n == Len(q)
           R == Nat
           op(r, f) == IF f.gen = gg THEN r + f.len ELSE r
           fold == InChunk(q, gg)
           G == [x \in R \X Frames |-> op(x[1], x[2])]
           Solves(g) == g = [z \in SUBSET (1 .. n) |->
                               IF z = {} THEN 0
                               ELSE op(g[z \ {Max(z)}], q[Max(z)])]
           g == CHOOSE g : Solves(g)
           h == [i \in 0 .. n |-> g[1 .. i]]
           W == Weight(gg)
<1>1. n \in Nat /\ DOMAIN q = 1 .. n /\ 0 \in R
  OBVIOUS
<1>2. \A r \in R, f \in Frames : (op(r, f)) \in R
  BY DEF Frames
<1> HIDE DEF R
<1>3. G \in [R \X Frames -> R]
  BY <1>2
<1>4. \E f : Solves(f)
  <2>1. PICK f \in [SUBSET (1 .. n) -> R] : Folds(G, n, 0, q, f)
    <3> HIDE DEF G
    <3> QED
      BY <1>1, <1>3, FoldsExist
  <2>2. ASSUME NEW z \in SUBSET (1 .. n), z # {}
        PROVE  G[<<f[z \ {Max(z)}], q[Max(z)]>>] = op(f[z \ {Max(z)}], q[Max(z)])
    <3>1. Max(z) \in z
      BY <1>1, <2>2, MaxIn
    <3>2. Max(z) \in 1 .. n /\ z \ {Max(z)} \in SUBSET (1 .. n)
      BY <3>1
    <3>3. f[z \ {Max(z)}] \in R
      BY <2>1, <3>2
    <3>4. q[Max(z)] \in Frames
      BY <1>1, <3>2
    <3> QED
      BY <3>3, <3>4
  <2>3. f = [z \in SUBSET (1 .. n) |->
               IF z = {} THEN 0 ELSE G[<<f[z \ {Max(z)}], q[Max(z)]>>]]
    BY <2>1 DEF Folds
  <2> HIDE DEF G
  <2>4. Solves(f)
    BY <2>2, <2>3
  <2> QED
    BY <2>4
<1>5. Solves(g)
  BY <1>4
<1>6. fold = g[1 .. n]
  BY <1>1 DEF InChunk, FoldLeft, MapThenFoldSet
<1> HIDE DEF g, G, op, fold
<1>7. h[0] = 0
  <2>1. 1 .. 0 = {}
    OBVIOUS
  <2>2. g[{}] = 0
    BY <1>5
  <2> QED
    BY <1>1, <2>1, <2>2
<1>8. ASSUME NEW i \in 1 .. n PROVE h[i] = op(h[i - 1], q[i])
  <2>1. /\ 1 .. i \in SUBSET (1 .. n) /\ 1 .. i # {} /\ Max(1 .. i) = i
        /\ (1 .. i) \ {i} = 1 .. (i - 1) /\ i - 1 \in 0 .. n /\ i \in 0 .. n
    BY <1>1, UpTo
  <2>2. g[1 .. i] = op(g[1 .. (i - 1)], q[i])
    BY <1>5, <2>1
  <2> QED
    BY <2>1, <2>2
<1>9. h[n] = fold
  BY <1>1, <1>6
<1>10. \A i \in 0 .. n : h[i] \in R
  <2> DEFINE T == {i \in 0 .. n : h[i] \in R}
  <2>1. 0 \in T
    BY <1>1, <1>7
  <2>2. ASSUME NEW i \in 1 .. n, i - 1 \in T PROVE i \in T
    <3>1. i \in 0 .. n /\ q[i] \in Frames
      BY <1>1
    <3> HIDE DEF h
    <3> QED
      BY <1>2, <1>8, <2>2, <3>1
  <2> HIDE DEF T
  <2>3. \A i \in 0 .. n : i \in T
    BY <1>1, <2>1, <2>2, Along
  <2> QED
    BY <2>3 DEF T
<1>11. h \in [0 .. n -> R]
  BY <1>10
<1> HIDE DEF h
<1>12. ASSUME NEW i \in 1 .. n PROVE h[i] = h[i - 1] + W[q[i]]
  <2>1. i - 1 \in 0 .. n /\ q[i] \in Frames
    BY <1>1
  <2>2. h[i - 1] \in R
    BY <1>11, <2>1
  <2>3. h[i] = op(h[i - 1], q[i])
    BY <1>8
  <2>4. op(h[i - 1], q[i]) = IF q[i].gen = gg THEN h[i - 1] + q[i].len ELSE h[i - 1]
    BY DEF op
  <2>5. W[q[i]] = IF q[i].gen = gg THEN q[i].len ELSE 0
    BY <2>1 DEF W, Weight
  <2> DEFINE x == h[i - 1]
  <2>6. x \in R /\ (h[i] = IF q[i].gen = gg THEN x + q[i].len ELSE x)
    BY <2>2, <2>3, <2>4
  <2> HIDE DEF x
  <2>7. h[i] = x + W[q[i]]
    BY <2>5, <2>6 DEF R
  <2> QED
    BY <2>7 DEF x
<1>13. h \in [0 .. n -> R] /\ Sums(h, fold, q, W)
  <2> HIDE DEF W
  <2> QED
    BY <1>7, <1>9, <1>11, <1>12 DEF Sums
<1> QED
  BY <1>13 DEF R, fold, W

\* ... and so is what an ack pair credits a slot with.
LEMMA CreditSum ==
  ASSUME NEW s, NEW q \in Seq(Acks)
  PROVE  \E h \in [0 .. Len(q) -> Int] : Sums(h, CreditIn(q, s), q, Worth(s))
<1> DEFINE n == Len(q)
           R == Int
           op(r, f) == IF f[1] = s /\ f # Gone(s) THEN r + f[2] ELSE r
           fold == CreditIn(q, s)
           G == [x \in R \X Acks |-> op(x[1], x[2])]
           Solves(g) == g = [z \in SUBSET (1 .. n) |->
                               IF z = {} THEN 0
                               ELSE op(g[z \ {Max(z)}], q[Max(z)])]
           g == CHOOSE g : Solves(g)
           h == [i \in 0 .. n |-> g[1 .. i]]
           W == Worth(s)
<1>1. n \in Nat /\ DOMAIN q = 1 .. n /\ 0 \in R
  OBVIOUS
<1>2. \A r \in R, f \in Acks : (op(r, f)) \in R
  BY DEF Acks
<1> HIDE DEF R
<1>3. G \in [R \X Acks -> R]
  BY <1>2
<1>4. \E f : Solves(f)
  <2>1. PICK f \in [SUBSET (1 .. n) -> R] : Folds(G, n, 0, q, f)
    <3> HIDE DEF G
    <3> QED
      BY <1>1, <1>3, FoldsExist
  <2>2. ASSUME NEW z \in SUBSET (1 .. n), z # {}
        PROVE  G[<<f[z \ {Max(z)}], q[Max(z)]>>] = op(f[z \ {Max(z)}], q[Max(z)])
    <3>1. Max(z) \in z
      BY <1>1, <2>2, MaxIn
    <3>2. Max(z) \in 1 .. n /\ z \ {Max(z)} \in SUBSET (1 .. n)
      BY <3>1
    <3>3. f[z \ {Max(z)}] \in R
      BY <2>1, <3>2
    <3>4. q[Max(z)] \in Acks
      BY <1>1, <3>2
    <3> QED
      BY <3>3, <3>4
  <2>3. f = [z \in SUBSET (1 .. n) |->
               IF z = {} THEN 0 ELSE G[<<f[z \ {Max(z)}], q[Max(z)]>>]]
    BY <2>1 DEF Folds
  <2> HIDE DEF G
  <2>4. Solves(f)
    BY <2>2, <2>3
  <2> QED
    BY <2>4
<1>5. Solves(g)
  BY <1>4
<1>6. fold = g[1 .. n]
  BY <1>1 DEF CreditIn, FoldLeft, MapThenFoldSet
<1> HIDE DEF g, G, op, fold
<1>7. h[0] = 0
  <2>1. 1 .. 0 = {}
    OBVIOUS
  <2>2. g[{}] = 0
    BY <1>5
  <2> QED
    BY <1>1, <2>1, <2>2
<1>8. ASSUME NEW i \in 1 .. n PROVE h[i] = op(h[i - 1], q[i])
  <2>1. /\ 1 .. i \in SUBSET (1 .. n) /\ 1 .. i # {} /\ Max(1 .. i) = i
        /\ (1 .. i) \ {i} = 1 .. (i - 1) /\ i - 1 \in 0 .. n /\ i \in 0 .. n
    BY <1>1, UpTo
  <2>2. g[1 .. i] = op(g[1 .. (i - 1)], q[i])
    BY <1>5, <2>1
  <2> QED
    BY <2>1, <2>2
<1>9. h[n] = fold
  BY <1>1, <1>6
<1>10. \A i \in 0 .. n : h[i] \in R
  <2> DEFINE T == {i \in 0 .. n : h[i] \in R}
  <2>1. 0 \in T
    BY <1>1, <1>7
  <2>2. ASSUME NEW i \in 1 .. n, i - 1 \in T PROVE i \in T
    <3>1. i \in 0 .. n /\ q[i] \in Acks
      BY <1>1
    <3> HIDE DEF h
    <3> QED
      BY <1>2, <1>8, <2>2, <3>1
  <2> HIDE DEF T
  <2>3. \A i \in 0 .. n : i \in T
    BY <1>1, <2>1, <2>2, Along
  <2> QED
    BY <2>3 DEF T
<1>11. h \in [0 .. n -> R]
  BY <1>10
<1> HIDE DEF h
<1>12. ASSUME NEW i \in 1 .. n PROVE h[i] = h[i - 1] + W[q[i]]
  <2>1. i - 1 \in 0 .. n /\ q[i] \in Acks
    BY <1>1
  <2>2. h[i - 1] \in R
    BY <1>11, <2>1
  <2>3. h[i] = op(h[i - 1], q[i])
    BY <1>8
  <2>4. op(h[i - 1], q[i]) = IF q[i][1] = s /\ q[i] # Gone(s) THEN h[i - 1] + q[i][2] ELSE h[i - 1]
    BY DEF op
  <2>5. W[q[i]] = IF q[i][1] = s /\ q[i] # Gone(s) THEN q[i][2] ELSE 0
    BY <2>1 DEF W, Worth
  <2> DEFINE x == h[i - 1]
  <2>6. x \in R /\ (h[i] = IF q[i][1] = s /\ q[i] # Gone(s) THEN x + q[i][2] ELSE x)
    BY <2>2, <2>3, <2>4
  <2> HIDE DEF x
  <2>7. h[i] = x + W[q[i]]
    BY <2>5, <2>6 DEF R
  <2> QED
    BY <2>7 DEF x
<1>13. h \in [0 .. n -> R] /\ Sums(h, fold, q, W)
  <2> HIDE DEF W
  <2> QED
    BY <1>7, <1>9, <1>11, <1>12 DEF Sums
<1> QED
  BY <1>13 DEF R, fold, W

\* One more element brings its weight; without the first, it is less by that one's.
LEMMA SumMore ==
  ASSUME NEW F, NEW W \in [F -> Int], NEW q \in Seq(F), NEW a \in F, NEW v, NEW u,
         \E h \in [0 .. Len(q) -> Int] : Sums(h, v, q, W),
         \E h \in [0 .. Len(Append(q, a)) -> Int] : Sums(h, u, Append(q, a), W)
  PROVE  u = v + W[a]
<1> DEFINE r == Append(q, a)
           n == Len(q)
<1>1. /\ r \in Seq(F) /\ Len(r) = n + 1 /\ n \in Nat /\ r[n + 1] = a
      /\ \A i \in 1 .. n : r[i] = q[i]
  OBVIOUS
<1>2a. PICK g \in [0 .. Len(q) -> Int] : Sums(g, v, q, W)
  OBVIOUS
<1>2. /\ g[0] = 0 /\ g[Len(q)] = v /\ \A i \in 1 .. Len(q) : g[i] = g[i - 1] + W[q[i]]
  BY <1>2a DEF Sums
<1>3a. PICK h \in [0 .. Len(r) -> Int] : Sums(h, u, r, W)
  OBVIOUS
<1> HIDE DEF r
<1>3. /\ h[0] = 0 /\ h[Len(r)] = u /\ \A i \in 1 .. Len(r) : h[i] = h[i - 1] + W[r[i]]
  BY <1>3a DEF Sums
<1> DEFINE T == {i \in 0 .. n : h[i] = g[i]}
<1>4. 0 \in T
  BY <1>1, <1>2, <1>3
<1>5. ASSUME NEW i \in 1 .. n, i - 1 \in T PROVE i \in T
  <2>1. i \in 1 .. Len(r) /\ i \in 0 .. n
    BY <1>1
  <2> QED
    BY <1>1, <1>2, <1>3, <1>5, <2>1
<1> HIDE DEF T
<1>6. \A i \in 0 .. n : i \in T
  BY <1>1, <1>4, <1>5, Along
<1>7. h[n] = g[n]
  BY <1>1, <1>6 DEF T
<1>8. n + 1 \in 1 .. Len(r) /\ (n + 1) - 1 = n
  BY <1>1
<1>9. h[n + 1] = h[n] + W[r[n + 1]]
  BY <1>3, <1>8
<1> QED
  BY <1>1, <1>2, <1>3, <1>7, <1>9

LEMMA SumLess ==
  ASSUME NEW F, NEW W \in [F -> Int], NEW q \in Seq(F), q # <<>>, NEW v, NEW u,
         \E h \in [0 .. Len(q) -> Int] : Sums(h, v, q, W),
         \E h \in [0 .. Len(Tail(q)) -> Int] : Sums(h, u, Tail(q), W)
  PROVE  v = u + W[Head(q)]
<1> DEFINE r == Tail(q)
           n == Len(r)
           w == W[q[1]]
<1>1. /\ r \in Seq(F) /\ Len(q) = n + 1 /\ n \in Nat /\ Head(q) = q[1] /\ q[1] \in F
      /\ \A i \in 1 .. n : r[i] = q[i + 1]
  OBVIOUS
<1>2. w \in Int
  BY <1>1
<1>3a. PICK g \in [0 .. Len(q) -> Int] : Sums(g, v, q, W)
  OBVIOUS
<1>3. /\ g[0] = 0 /\ g[Len(q)] = v /\ \A i \in 1 .. Len(q) : g[i] = g[i - 1] + W[q[i]]
  BY <1>3a DEF Sums
<1>4a. PICK h \in [0 .. Len(r) -> Int] : Sums(h, u, r, W)
  OBVIOUS
<1> HIDE DEF r
<1>4. /\ h[0] = 0 /\ h[Len(r)] = u /\ \A i \in 1 .. Len(r) : h[i] = h[i - 1] + W[r[i]]
  BY <1>4a DEF Sums
<1> HIDE DEF w
<1> DEFINE T == {i \in 0 .. n : g[i + 1] = h[i] + w}
<1>5. 0 \in T
  <2>1. 1 \in 1 .. Len(q) /\ 0 \in 0 .. n /\ 1 - 1 = 0 /\ 0 + 1 = 1
    BY <1>1
  <2>2. g[1] = g[0] + w
    BY <1>3, <2>1 DEF w
  <2> QED
    BY <1>2, <1>3, <1>4, <2>1, <2>2
<1>6. ASSUME NEW i \in 1 .. n, i - 1 \in T PROVE i \in T
  <2>1. i + 1 \in 1 .. Len(q) /\ i \in 0 .. n /\ (i + 1) - 1 = i /\ (i - 1) + 1 = i
        /\ i \in 1 .. Len(r) /\ i - 1 \in 0 .. n
    BY <1>1
  <2>2. g[i + 1] = g[i] + W[q[i + 1]]
    BY <1>3, <2>1
  <2>3. h[i] = h[i - 1] + W[r[i]]
    BY <1>4, <2>1
  <2>4. g[i] = h[i - 1] + w
    BY <1>6, <2>1
  <2>5. r[i] = q[i + 1] /\ W[r[i]] \in Int /\ h[i - 1] \in Int
    <3>1. r[i] \in F /\ r[i] = q[i + 1]
      BY <1>1, <2>1
    <3>2. W[r[i]] \in Int
      BY <3>1
    <3> QED
      BY <1>4a, <2>1, <3>1, <3>2
  <2> DEFINE b == W[r[i]]
             c == h[i - 1]
  <2>6. g[i + 1] = (c + w) + b /\ h[i] = c + b
    BY <2>2, <2>3, <2>4, <2>5
  <2>7. b \in Int /\ c \in Int
    BY <2>5
  <2> HIDE DEF b, c
  <2>8. g[i + 1] = h[i] + w
    BY <1>2, <2>6, <2>7
  <2> QED
    BY <2>1, <2>8
<1> HIDE DEF T
<1>7. \A i \in 0 .. n : i \in T
  BY <1>1, <1>5, <1>6, Along
<1>8. g[n + 1] = h[n] + w
  BY <1>1, <1>7 DEF T
<1> QED
  BY <1>1, <1>3, <1>4, <1>8 DEF w

\* What a channel holds of a stream, and what an ack pair credits a slot with.
LEMMA InChunkFacts ==
  ASSUME NEW q \in Seq(Frames), NEW g
  PROVE  /\ InChunk(q, g) \in Nat /\ InChunk(<<>>, g) = 0
         /\ \A f \in Frames :
              InChunk(Append(q, f), g) = InChunk(q, g) + (IF f.gen = g THEN f.len ELSE 0)
<1>1. Weight(g) \in [Frames -> Int]
  BY DEF Weight, Frames
<1>2. InChunk(q, g) \in Nat
  <2>1. PICK h \in [0 .. Len(q) -> Nat] : Sums(h, InChunk(q, g), q, Weight(g))
    BY ChunkSum
  <2>2. h[Len(q)] = InChunk(q, g)
    BY <2>1 DEF Sums
  <2>3. Len(q) \in 0 .. Len(q)
    OBVIOUS
  <2> QED
    BY <2>1, <2>2, <2>3
<1>3. InChunk(<<>>, g) = 0
  <2> DEFINE e == <<>>
  <2>1. e \in Seq(Frames) /\ Len(e) = 0
    OBVIOUS
  <2> HIDE DEF e
  <2>2. PICK h \in [0 .. Len(e) -> Nat] : Sums(h, InChunk(e, g), e, Weight(g))
    BY <2>1, ChunkSum
  <2>3. InChunk(e, g) = 0
    BY <2>1, <2>2 DEF Sums
  <2> QED
    BY <2>3 DEF e
<1>4. ASSUME NEW f \in Frames
      PROVE  InChunk(Append(q, f), g) = InChunk(q, g) + (IF f.gen = g THEN f.len ELSE 0)
  <2> DEFINE r == Append(q, f)
  <2>1. r \in Seq(Frames)
    OBVIOUS
  <2>2. \E h \in [0 .. Len(q) -> Int] : Sums(h, InChunk(q, g), q, Weight(g))
    <3>1. PICK h \in [0 .. Len(q) -> Nat] : Sums(h, InChunk(q, g), q, Weight(g))
      BY ChunkSum
    <3>2. h \in [0 .. Len(q) -> Int]
      OBVIOUS
    <3> QED
      BY <3>1, <3>2
  <2>3. \E h \in [0 .. Len(r) -> Int] : Sums(h, InChunk(r, g), r, Weight(g))
    <3> HIDE DEF r
    <3>1. PICK h \in [0 .. Len(r) -> Nat] : Sums(h, InChunk(r, g), r, Weight(g))
      BY <2>1, ChunkSum
    <3>2. h \in [0 .. Len(r) -> Int]
      OBVIOUS
    <3> QED
      BY <3>1, <3>2
  <2>4. InChunk(r, g) = InChunk(q, g) + Weight(g)[f]
    BY <1>1, <2>2, <2>3, SumMore
  <2> QED
    BY <2>4 DEF Weight
<1> QED
  BY <1>2, <1>3, <1>4

\* An ack more, or one fewer: what the pair credits a slot with afterwards.
LEMMA CreditInFacts ==
  ASSUME NEW q \in Seq(Acks), NEW s
  PROVE  /\ CreditIn(q, s) \in Int /\ CreditIn(<<>>, s) = 0
         /\ \A a \in Acks : CreditIn(Append(q, a), s) = CreditIn(q, s) + Worth(s)[a]
         /\ q # <<>> => CreditIn(q, s) = CreditIn(Tail(q), s) + Worth(s)[Head(q)]
         /\ \A a \in Acks : CreditIn(<<a>>, s) = Worth(s)[a]
         /\ \A a \in Acks : Worth(s)[a] \in Int
<1>1. Worth(s) \in [Acks -> Int]
  BY DEF Worth, Acks
<1>2. CreditIn(q, s) \in Int
  <2>1. PICK h \in [0 .. Len(q) -> Int] : Sums(h, CreditIn(q, s), q, Worth(s))
    BY CreditSum
  <2>2. h[Len(q)] = CreditIn(q, s)
    BY <2>1 DEF Sums
  <2>3. Len(q) \in 0 .. Len(q)
    OBVIOUS
  <2> QED
    BY <2>1, <2>2, <2>3
<1>3. CreditIn(<<>>, s) = 0
  <2> DEFINE e == <<>>
  <2>1. e \in Seq(Acks) /\ Len(e) = 0
    OBVIOUS
  <2> HIDE DEF e
  <2>2. PICK h \in [0 .. Len(e) -> Int] : Sums(h, CreditIn(e, s), e, Worth(s))
    BY <2>1, CreditSum
  <2>3. CreditIn(e, s) = 0
    BY <2>1, <2>2 DEF Sums
  <2> QED
    BY <2>3 DEF e
<1>4. ASSUME NEW p \in Seq(Acks), NEW a \in Acks
      PROVE  CreditIn(Append(p, a), s) = CreditIn(p, s) + Worth(s)[a]
  <2> DEFINE r == Append(p, a)
  <2>1. r \in Seq(Acks)
    OBVIOUS
  <2>2. \E h \in [0 .. Len(p) -> Int] : Sums(h, CreditIn(p, s), p, Worth(s))
    BY CreditSum
  <2>3. \E h \in [0 .. Len(r) -> Int] : Sums(h, CreditIn(r, s), r, Worth(s))
    <3> HIDE DEF r
    <3> QED
      BY <2>1, CreditSum
  <2> QED
    BY <1>1, <2>2, <2>3, SumMore
<1>5. ASSUME q # <<>> PROVE CreditIn(q, s) = CreditIn(Tail(q), s) + Worth(s)[Head(q)]
  <2> DEFINE r == Tail(q)
  <2>1. r \in Seq(Acks)
    BY <1>5
  <2>2. \E h \in [0 .. Len(q) -> Int] : Sums(h, CreditIn(q, s), q, Worth(s))
    BY CreditSum
  <2>3. \E h \in [0 .. Len(r) -> Int] : Sums(h, CreditIn(r, s), r, Worth(s))
    <3> HIDE DEF r
    <3> QED
      BY <2>1, CreditSum
  <2> QED
    BY <1>1, <1>5, <2>2, <2>3, SumLess
<1>6. ASSUME NEW a \in Acks PROVE CreditIn(<<a>>, s) = Worth(s)[a]
  <2> DEFINE e == <<>>
  <2>1. e \in Seq(Acks) /\ <<a>> = Append(e, a)
    OBVIOUS
  <2>2. CreditIn(Append(e, a), s) = CreditIn(e, s) + Worth(s)[a]
    <3> HIDE DEF e
    <3> QED
      BY <1>4, <2>1
  <2>3. CreditIn(<<a>>, s) = 0 + Worth(s)[a]
    BY <1>3, <2>1, <2>2
  <2> QED
    BY <1>1, <2>3
<1>7. \A a \in Acks : Worth(s)[a] \in Int
  BY <1>1
<1>8. \A a \in Acks : CreditIn(Append(q, a), s) = CreditIn(q, s) + Worth(s)[a]
  BY <1>4
<1> QED
  BY <1>2, <1>3, <1>5, <1>6, <1>7, <1>8

\* So an ack pair credits nothing negative.
LEMMA CreditNat ==
  ASSUME NEW q \in Seq(Acks), Proper(q), NEW s
  PROVE  CreditIn(q, s) \in Nat
<1>1. PICK h \in [0 .. Len(q) -> Int] : Sums(h, CreditIn(q, s), q, Worth(s))
  BY CreditSum
<1>2. /\ h[0] = 0 /\ h[Len(q)] = CreditIn(q, s)
      /\ \A i \in 1 .. Len(q) : h[i] = h[i - 1] + Worth(s)[q[i]]
  BY <1>1 DEF Sums
<1> DEFINE n == Len(q)
           T == {i \in 0 .. n : h[i] \in Nat}
<1>3. 0 \in T /\ n \in Nat
  BY <1>2
<1>4. ASSUME NEW i \in 1 .. n, i - 1 \in T PROVE i \in T
  <2>1. q[i] \in Acks /\ i \in DOMAIN q /\ i \in 0 .. n /\ i - 1 \in 0 .. n
    OBVIOUS
  <2>2. q[i][2] >= 1 \/ q[i][2] = -1
    BY <2>1 DEF Proper
  <2>3. q[i][2] \in Int /\ q[i] = <<q[i][1], q[i][2]>>
    BY <2>1 DEF Acks
  <2>4. Worth(s)[q[i]] \in Nat
    <3>1. Worth(s)[q[i]] = IF q[i][1] = s /\ q[i] # Gone(s) THEN q[i][2] ELSE 0
      BY <2>1 DEF Worth
    <3>2. q[i][1] = s /\ q[i] # Gone(s) => q[i][2] # -1
      BY <2>3 DEF Gone
    <3> QED
      BY <2>2, <2>3, <3>1, <3>2
  <2>5. h[i] = h[i - 1] + Worth(s)[q[i]] /\ h[i - 1] \in Nat
    BY <1>2, <1>4
  <2> QED
    BY <2>1, <2>4, <2>5
<1> HIDE DEF T
<1>5. \A i \in 0 .. n : i \in T
  BY <1>3, <1>4, Along
<1>6. n \in T
  BY <1>3, <1>5
<1> QED
  BY <1>2, <1>6 DEF T

-----------------------------------------------------------------------------
(* What the steps do.  A thread's steps, ... *)

\* What only has to keep its type.
Sundry ==
  /\ made' \in [Threads -> Nat]
  /\ posted' \in Seq(Slots \X Gens) /\ aborts' \in Seq(Slots \X Gens) /\ due' \subseteq Slots
  /\ wire' \in [Slots -> Seq(Nat \X Int)] /\ body' \in [Slots -> Bodies]
Aside == UNCHANGED <<slots, handler, asked, server>> /\ Sundry

Taking(t, s) ==
  /\ pc[t] = "idle" /\ jobs # <<>> /\ s = Head(jobs) /\ jobs' = Tail(jobs) /\ s \in Slots
  /\ pc' = [pc EXCEPT ![t] = "begin"] /\ at' = [at EXCEPT ![t] = s]
  /\ pair' = [pair EXCEPT ![t] = <<>>] /\ slotAckFd' = [slotAckFd EXCEPT ![s] = t]
  /\ UNCHANGED <<nth, hand, credit, ring, parked, chunk, marks>> /\ Aside

Beginning(t) ==
  /\ pc[t] = "begin" /\ pc' = [pc EXCEPT ![t] = "head"]
  /\ chunk' = Append(chunk, Frame("P", at[t], Gen(t), t, 0))
  /\ UNCHANGED <<at, nth, hand, credit, jobs, ring, parked, slotAckFd, pair, marks>> /\ Aside

Refusing(t) ==
  /\ pc[t] = "begin" /\ pc' = [pc EXCEPT ![t] = "idle"] /\ at' = [at EXCEPT ![t] = None]
  /\ slotAckFd' = [slotAckFd EXCEPT ![at[t]] = None]
  /\ parked' = [parked EXCEPT ![at[t]] = 0] /\ ring' = Append(ring, at[t])
  /\ marks' = [marks EXCEPT ![t] = {}]
  /\ UNCHANGED <<nth, hand, credit, jobs, chunk, pair>> /\ Aside

Completing(t) ==
  /\ pc[t] = "head" /\ pc' = [pc EXCEPT ![t] = "pump"]
  /\ parked' = [parked EXCEPT ![at[t]] = Gen(t)] /\ ring' = Append(ring, at[t])
  /\ credit' = [credit EXCEPT ![t] = server.window]
  /\ UNCHANGED <<at, nth, hand, jobs, slotAckFd, chunk, pair, marks>> /\ Aside

Leaving(t, q) ==
  /\ Active(t) /\ pc' = [pc EXCEPT ![t] = "idle"] /\ at' = [at EXCEPT ![t] = None]
  /\ nth' = [nth EXCEPT ![t] = @ + 1] /\ hand' = [hand EXCEPT ![t] = 0]
  /\ credit' = [credit EXCEPT ![t] = 0] /\ marks' = [marks EXCEPT ![t] = {}]
  /\ q \in Seq(Acks) /\ pair' = [pair EXCEPT ![t] = q] /\ (Proper(pair[t]) => Proper(q))
  /\ \/ chunk' = chunk
     \/ chunk' = Append(chunk, Frame("e", at[t], Gen(t), 0, 0))
  /\ UNCHANGED <<jobs, ring, parked, slotAckFd>> /\ Aside

\* It goes from one point to another, its credit and what its pair credits it with
\* going into the piece it places.
Pumping == {"pump", "wait", "place", "end", "full", "abort"}
Moving(t, p, x, c, q, n) ==
  /\ Active(t) /\ p \in Pumping /\ pc' = [pc EXCEPT ![t] = p]
  /\ x \in Nat /\ c \in Nat /\ n \in Nat /\ q \in Seq(Acks)
  /\ hand' = [hand EXCEPT ![t] = x] /\ credit' = [credit EXCEPT ![t] = c]
  /\ p \in {"pump", "end"} => x = 0
  /\ p \in {"place", "full"} => x <= c
  /\ pair' = [pair EXCEPT ![t] = q] /\ Proper(q)
  /\ c + n + CreditIn(q, at[t]) <= credit[t] + CreditIn(pair[t], at[t])
  /\ \/ n = 0 /\ chunk' = chunk
     \/ \E v \in Nat : n <= v /\ chunk' = Append(chunk, Frame("s", at[t], Gen(t), v, n))
  /\ \A u \in Threads : marks[u] \subseteq marks'[u]
  /\ marks' \in [Threads -> SUBSET Marks]
  /\ UNCHANGED <<at, nth, jobs, ring, parked, slotAckFd>> /\ Aside

(* ... and the loop's, from its handler or from what it is once the channel is read. *)
From(l) == (l = handler /\ chunk' = chunk) \/ (l = Delivered /\ chunk' = <<>>)

Asking(s) ==
  /\ s \in Slots /\ slots[s].conn \in {"unused", "ready"}
  /\ asked < server.requests /\ asked' = asked + 1 /\ jobs' = Append(jobs, s)
  /\ slots' \in [Slots -> Records] /\ \A z \in Slots \ {s} : slots'[z] = slots[z]
  /\ slots'[s].conn = "offloaded" /\ slots'[s].sse = slots[s].sse
  /\ slots'[s].owes = slots[s].owes /\ slots'[s].owed = slots[s].owed
  /\ \/ slots[s].conn = "unused" /\ slots'[s].gen = 0
        /\ slotAckFd' = [slotAckFd EXCEPT ![s] = None]
     \/ slots[s].conn = "ready" /\ slots'[s].gen = slots[s].gen /\ slotAckFd' = slotAckFd
  /\ UNCHANGED <<pc, at, nth, hand, credit, ring, parked, chunk, pair, handler, marks, server>>
  /\ Sundry

Resting(l) ==
  /\ From(l) /\ handler' \in Registries /\ \A z \in Slots : Same(handler', l, z)
  /\ UNCHANGED <<pc, at, nth, hand, credit, jobs, ring, parked, slotAckFd, pair, slots, marks,
                 asked, server>>
  /\ Sundry

Retrying(s) ==
  /\ s \in Slots /\ slots' = [slots EXCEPT ![s].owed = 0] /\ slots[s].owed > 0
  /\ \A t \in Threads : marks[t] \subseteq marks'[t]
  /\ marks' \in [Threads -> SUBSET Marks]
  /\ \/ pair' = pair
     \/ /\ slotAckFd[s] # None
        /\ pair' = [pair EXCEPT ![slotAckFd[s]] = Append(@, <<s, slots[s].owed>>)]
        /\ at[slotAckFd[s]] = s /\ slots[s].gen # Gen(slotAckFd[s])
             => "paid" \in marks'[slotAckFd[s]]
  /\ UNCHANGED <<pc, at, nth, hand, credit, jobs, ring, parked, slotAckFd, chunk, handler,
                 asked, server>>
  /\ Sundry

\* What a slot and a registry hold of the credit of stream `g`.
Pend(h, s, g) == IF h.gen[s] = g THEN Len(h.pending[s]) ELSE 0
Owes(r, g) == IF r.gen = g THEN r.owes + r.owed ELSE 0

\* The stream that slot `s` serves, or is about to.
Now(s) == IF slots[s].conn = "offloaded" THEN parked[s] ELSE slots[s].gen

\* A handler of slot `s`, with its stream as `l` has it: `n` is acked.
Given(t, s, n) ==
  IF n > 0 /\ slotAckFd[s] = t THEN Append(pair[t], <<s, n>>) ELSE pair[t]
Keeps(s, l, r) ==
  \/ handler'.sub[s] = None /\ handler'.pending[s] = <<>>
  \/ /\ handler'.sub[s] = l.sub[s] /\ handler'.gen[s] = l.gen[s]
     /\ l.sub[s] = None => handler'.pending[s] = <<>>
     /\ l.sub[s] = None \/ (r.sse /\ r.gen = Now(s))
Turn(s, l, n) ==
  /\ s \in Slots /\ n \in Nat /\ From(l)
  /\ \/ slots[s].conn = "offloaded" /\ ring # <<>> /\ s = Head(ring) /\ ring' = Tail(ring)
        /\ (chunk' = <<>> \/ parked[s] = 0)
     \/ slots[s].conn \notin {"offloaded", "unused"} /\ ring' = ring
  /\ parked' \in [Slots -> AnyGen] /\ \A z \in Slots : parked'[z] \in {0, parked[z]}
  /\ \A z \in Slots \ {s} : parked'[z] = parked[z]
  /\ slotAckFd' = slotAckFd \/ slotAckFd' = [slotAckFd EXCEPT ![s] = None]
  /\ slots' \in [Slots -> Records] /\ \A z \in Slots \ {s} : slots'[z] = slots[z]
  /\ slots'[s].conn # "offloaded" /\ Shaped(slots'[s]) /\ slots'[s].gen \in {0, Now(s)}
  /\ \A t \in Threads : Active(t) /\ at[t] = s /\ slotAckFd'[s] = t =>
       slots'[s].conn = "unused" \/ (slots'[s].sse /\ slots'[s].gen = Now(s))
  /\ handler' \in Registries /\ \A z \in Slots \ {s} : Same(handler', l, z)
  /\ handler'.gen[s] \in {0, l.gen[s]} /\ Keeps(s, l, slots'[s])
  /\ \A g \in Gens :
       Pend(handler', s, g) + Owes(slots'[s], g) + (IF g = Now(s) THEN n ELSE 0)
         <= Pend(l, s, g) + Owes(slots[s], g)
  /\ n > 0 => slots[s].conn \in {"sending", "idle"}
  /\ pair' \in [Threads -> Seq(Acks)]
  /\ \A t \in Threads : pair'[t] \in {Given(t, s, n), Append(Given(t, s, n), Gone(s))}
  /\ \A t \in Threads : marks[t] \subseteq marks'[t]
  /\ marks' \in [Threads -> SUBSET Marks]
  /\ UNCHANGED <<pc, at, nth, hand, credit, jobs, asked, server>> /\ Sundry

Step ==
  \/ \E t \in Threads :
       \/ \E s \in Slots : Taking(t, s)
       \/ Beginning(t) \/ Refusing(t) \/ Completing(t)
       \/ \E q \in Seq(Acks) : Leaving(t, q)
       \/ \E p \in Pumping, x \in Nat, c \in Nat, q \in Seq(Acks), n \in Nat :
            Moving(t, p, x, c, q, n)
  \/ \E s \in Slots : Asking(s) \/ Retrying(s)
  \/ \E l \in Registries : Resting(l) \/ \E s \in Slots, n \in Nat : Turn(s, l, n)

\* A thread with a job: its slot, and its stream.
LEMMA ThreadFacts ==
  ASSUME TypeOK, Counted, Working, NEW t \in Threads
  PROVE  /\ pc[t] \in Points /\ nth[t] \in Nat /\ credit[t] \in Nat /\ hand[t] \in Nat
         /\ made[t] \in Nat /\ pair[t] \in Seq(Acks) /\ marks[t] \subseteq Marks
         /\ Active(t) => Busy(t)
         /\ Busy(t) => at[t] \in Slots
         /\ Gen(t) \in Gens /\ Gen(t) \in AnyGen /\ t \in Nat
         /\ Busy(t) => body[at[t]] \in Bodies /\ slotAckFd[at[t]] \in Threads \cup {None}
<1>1. /\ pc \in [Threads -> Points] /\ nth \in [Threads -> Nat] /\ credit \in [Threads -> Nat]
      /\ hand \in [Threads -> Nat] /\ made \in [Threads -> Nat] /\ pair \in [Threads -> Seq(Acks)]
      /\ marks \in [Threads -> SUBSET Marks] /\ body \in [Slots -> Bodies]
      /\ slotAckFd \in [Slots -> Threads \cup {None}]
  BY Typed
<1>2. Busy(t) => at[t] \in Slots
  BY DEF Working, Works
<1>3. Gen(t) \in Gens
  BY GenFacts
<1>4. t \in Nat
  BY StreamsAssumption DEF Threads
<1> QED
  BY <1>1, <1>2, <1>3, <1>4 DEF Active, Busy, AnyGen

\* The bodies after a thread has said something of its own.
LEMMA SaidFacts ==
  ASSUME TypeOK, NEW t \in Threads, at[t] \in Slots, NEW b \in Bodies, Said(t, b)
  PROVE  body' \in [Slots -> Bodies]
<1>1. body \in [Slots -> Bodies]
  BY Typed
<1>2. body' = body \/ body' = [body EXCEPT ![at[t]] = b]
  BY DEF Said
<1> QED
  BY <1>1, <1>2

\* Nothing moves that only has to keep its type.
LEMMA Stays0 ==
  ASSUME TypeOK, UNCHANGED <<made, posted, aborts, due, wire, body>>
  PROVE  Sundry
BY Typed DEF Sundry

\* What a thread does, action by action: before its body, ...
LEMMA TakeStep ==
  ASSUME TypeOK, Counted, Working, NEW t \in Threads, Take(t)
  PROVE  \E s \in Slots : Taking(t, s)
<1> DEFINE s == Head(jobs)
<1>1. /\ pc[t] = "idle" /\ jobs # <<>> /\ jobs' = Tail(jobs)
      /\ pc' = [pc EXCEPT ![t] = "begin"] /\ at' = [at EXCEPT ![t] = s]
      /\ pair' = [pair EXCEPT ![t] = <<>>] /\ slotAckFd' = [slotAckFd EXCEPT ![s] = t]
      /\ body' = [body EXCEPT ![s] = Body(Gen(t))]
      /\ UNCHANGED <<nth, made, hand, credit, ring, parked, chunk, posted, loopVars, wire, marks,
                     server, asked>>
  BY DEF Take, Goes
<1>2. jobs \in Seq(Slots) /\ s \in Slots
  <2>1. jobs \in Seq(Slots)
    BY Typed
  <2> QED
    BY <1>1, <2>1
<1>3. Gen(t) \in AnyGen
  BY ThreadFacts
<1>4. Body(Gen(t)) \in Bodies
  BY <1>3 DEF Body, Bodies
<1>5. body' \in [Slots -> Bodies]
  <2>1. body \in [Slots -> Bodies]
    BY Typed
  <2> QED
    BY <1>1, <1>4, <2>1
<1>6. Sundry
  BY <1>1, <1>5, Typed DEF Sundry, loopVars
<1>7. Aside
  BY <1>1, <1>6 DEF Aside, loopVars
<1>8. Taking(t, s)
  BY <1>1, <1>2, <1>7 DEF Taking
<1> QED
  BY <1>2, <1>8

LEMMA BeginStep ==
  ASSUME TypeOK, NEW t \in Threads, Begin(t)
  PROVE  Beginning(t)
<1>1. /\ pc[t] = "begin" /\ chunk' = Append(chunk, Frame("P", at[t], Gen(t), t, 0))
      /\ pc' = [pc EXCEPT ![t] = "head"]
      /\ UNCHANGED <<at, nth, made, hand, credit, jobs, ring, parked, slotAckFd, pair, posted,
                     loopVars, history, server, asked>>
  BY DEF Begin, Goes
<1>2. Sundry
  BY <1>1, Stays0 DEF loopVars, history
<1> QED
  BY <1>1, <1>2 DEF Beginning, Aside, loopVars, history

LEMMA RefuseStep ==
  ASSUME TypeOK, NEW t \in Threads, BeginRefused(t)
  PROVE  Refusing(t)
<1>1. /\ pc[t] = "begin" /\ pc' = [pc EXCEPT ![t] = "idle"] /\ at' = [at EXCEPT ![t] = None]
      /\ slotAckFd' = [slotAckFd EXCEPT ![at[t]] = None]
      /\ parked' = [parked EXCEPT ![at[t]] = 0] /\ ring' = Append(ring, at[t])
      /\ marks' = [marks EXCEPT ![t] = {}]
      /\ UNCHANGED <<nth, made, hand, credit, jobs, chunk, pair, posted, loopVars, wire, body,
                     server, asked>>
  BY DEF BeginRefused, Goes
<1>2. Sundry
  BY <1>1, Stays0 DEF loopVars
<1> QED
  BY <1>1, <1>2 DEF Refusing, Aside, loopVars

LEMMA CompleteStep ==
  ASSUME TypeOK, NEW t \in Threads, Complete(t)
  PROVE  Completing(t)
<1>1. /\ pc[t] = "head" /\ pc' = [pc EXCEPT ![t] = "pump"]
      /\ parked' = [parked EXCEPT ![at[t]] = Gen(t)] /\ ring' = Append(ring, at[t])
      /\ credit' = [credit EXCEPT ![t] = server.window]
      /\ UNCHANGED <<at, nth, made, hand, jobs, slotAckFd, chunk, pair, posted, loopVars, history,
                     server, asked>>
  BY DEF Complete, Goes
<1>2. Sundry
  BY <1>1, Stays0 DEF loopVars, history
<1> QED
  BY <1>1, <1>2 DEF Completing, Aside, loopVars, history

\* Proper acks read in part leave proper acks.
LEMMA ProperTail ==
  ASSUME NEW q \in Seq(Acks), Proper(q), q # <<>>
  PROVE  Tail(q) \in Seq(Acks) /\ Proper(Tail(q)) /\ Head(q) \in Acks /\ Proper(<<Head(q)>>)
<1>1. /\ Tail(q) \in Seq(Acks) /\ Head(q) \in Acks /\ Len(Tail(q)) = Len(q) - 1
      /\ Len(q) \in Nat \ {0} /\ Head(q) = q[1]
      /\ \A i \in 1 .. Len(q) - 1 : Tail(q)[i] = q[i + 1]
  OBVIOUS
<1>2. ASSUME NEW i \in DOMAIN Tail(q) PROVE Tail(q)[i][2] >= 1 \/ Tail(q)[i][2] = -1
  <2>1. i + 1 \in DOMAIN q /\ Tail(q)[i] = q[i + 1]
    BY <1>1
  <2> QED
    BY <2>1 DEF Proper
<1>3. Head(q)[2] >= 1 \/ Head(q)[2] = -1
  <2>1. 1 \in DOMAIN q
    BY <1>1
  <2> QED
    BY <1>1, <2>1 DEF Proper
<1>4. Proper(<<Head(q)>>)
  BY <1>3 DEF Proper
<1> QED
  BY <1>1, <1>2, <1>4 DEF Proper

\* A thread's stream ends: its record is reset, and it is past its generation.
LEMMA ReturnsFacts ==
  ASSUME TypeOK, NEW t \in Threads, Active(t), Returns(t), NEW q \in Seq(Acks),
         pair' = [pair EXCEPT ![t] = q], Proper(pair[t]) => Proper(q),
         chunk' = chunk \/ chunk' = Append(chunk, Frame("e", at[t], Gen(t), 0, 0)),
         posted' \in Seq(Slots \X Gens),
         UNCHANGED <<jobs, ring, parked, slotAckFd, loopVars, wire, body, server, asked>>
  PROVE  Leaving(t, q)
<1>1. /\ pc' = [pc EXCEPT ![t] = "idle"] /\ nth' = [nth EXCEPT ![t] = @ + 1]
      /\ at' = [at EXCEPT ![t] = None] /\ made' = [made EXCEPT ![t] = 0]
      /\ hand' = [hand EXCEPT ![t] = 0]
      /\ credit' = [credit EXCEPT ![t] = 0] /\ marks' = [marks EXCEPT ![t] = {}]
  BY DEF Returns, Goes
<1>2. made' \in [Threads -> Nat]
  <2>1. made \in [Threads -> Nat]
    BY Typed
  <2> QED
    BY <1>1, <2>1
<1>3. Sundry
  BY <1>2, Typed DEF Sundry, loopVars
<1>4. Aside
  BY <1>3 DEF Aside, loopVars
<1> QED
  BY <1>1, <1>4 DEF Leaving

\* A thread that goes on: its record afterwards.
LEMMA GoesOn ==
  ASSUME TypeOK, Counted, Working, NEW t \in Threads, Active(t),
         NEW p \in Pumping, NEW x \in Nat, NEW c \in Nat, NEW q \in Seq(Acks), NEW n \in Nat,
         pc' = [pc EXCEPT ![t] = p], hand' = [hand EXCEPT ![t] = x],
         credit' = [credit EXCEPT ![t] = c], pair' = [pair EXCEPT ![t] = q], Proper(q),
         p \in {"pump", "end"} => x = 0, p \in {"place", "full"} => x <= c,
         c + n + CreditIn(q, at[t]) <= credit[t] + CreditIn(pair[t], at[t]),
         \/ n = 0 /\ chunk' = chunk
         \/ \E v \in Nat : n <= v /\ chunk' = Append(chunk, Frame("s", at[t], Gen(t), v, n)),
         \A u \in Threads : marks[u] \subseteq marks'[u], marks' \in [Threads -> SUBSET Marks],
         made' \in [Threads -> Nat], body' \in [Slots -> Bodies],
         UNCHANGED <<at, nth, jobs, ring, parked, slotAckFd, posted, loopVars, wire, server, asked>>
  PROVE  Moving(t, p, x, c, q, n)
<1>1. Sundry
  BY Typed DEF Sundry, loopVars
<1>2. Aside
  BY <1>1 DEF Aside, loopVars
<1> QED
  BY <1>2 DEF Moving

\* Functions changed at one point to what they are there.
LEMMA Unmoved ==
  ASSUME TypeOK, NEW t \in Threads
  PROVE  /\ hand = [hand EXCEPT ![t] = hand[t]] /\ credit = [credit EXCEPT ![t] = credit[t]]
         /\ pair = [pair EXCEPT ![t] = pair[t]] /\ pc = [pc EXCEPT ![t] = pc[t]]
<1>1. /\ hand \in [Threads -> Nat] /\ credit \in [Threads -> Nat]
      /\ pair \in [Threads -> Seq(Acks)] /\ pc \in [Threads -> Points]
  BY Typed
<1> QED
  BY <1>1

Moves(t) ==
  \/ \E q \in Seq(Acks) : Leaving(t, q)
  \/ \E p \in Pumping, x \in Nat, c \in Nat, q \in Seq(Acks), n \in Nat :
       Moving(t, p, x, c, q, n)

\* With credit for the piece or without, the record is one that goes on.
LEMMA WithCreditFacts ==
  ASSUME TypeOK, Counted, Working, NEW t \in Threads, Active(t),
         NEW x \in Nat, NEW c \in Nat, NEW q \in Seq(Acks), WithCredit(t, x, c),
         pair' = [pair EXCEPT ![t] = q], Proper(q),
         c + CreditIn(q, at[t]) <= credit[t] + CreditIn(pair[t], at[t]),
         UNCHANGED <<jobs, ring, parked, slotAckFd, chunk, posted, loopVars, wire, body, server,
                     asked>>
  PROVE  Moves(t)
<1> DEFINE p == IF c >= x THEN "place" ELSE "wait"
<1>1. /\ pc' = [pc EXCEPT ![t] = p] /\ hand' = [hand EXCEPT ![t] = x]
      /\ credit' = [credit EXCEPT ![t] = c] /\ UNCHANGED <<at, nth, made, marks>>
  BY DEF WithCredit, Goes
<1>2. p \in Pumping /\ p \notin {"pump", "end"} /\ (p \in {"place", "full"} => x <= c)
  BY DEF Pumping
<1> HIDE DEF p
<1>3. marks' \in [Threads -> SUBSET Marks] /\ made' \in [Threads -> Nat]
      /\ body' \in [Slots -> Bodies]
  BY <1>1, Typed
<1>4. at[t] \in Slots /\ credit[t] \in Nat
  BY ThreadFacts
<1>5. CreditIn(q, at[t]) \in Nat
  BY CreditNat
<1>6. c + 0 + CreditIn(q, at[t]) <= credit[t] + CreditIn(pair[t], at[t])
  BY <1>5
<1>7. Moving(t, p, x, c, q, 0)
  BY <1>1, <1>2, <1>3, <1>6, GoesOn
<1> QED
  BY <1>2, <1>7 DEF Moves

\* ... and while it gives its body.
LEMMA YieldStep ==
  ASSUME TypeOK, Counted, Working, Heard, NEW t \in Threads, Yield(t)
  PROVE  Moves(t)
<1> DEFINE told == {i \in DOMAIN pair[t] : pair[t][i] = Gone(at[t])}
           s == at[t]
<1>1. /\ pc[t] = "pump"
      /\ \/ /\ told # {} /\ Returns(t)
            /\ pair' = [pair EXCEPT ![t] = SubSeq(@, Min(told) + 1, Len(@))]
         \/ /\ told = {}
            /\ \E n \in server.sizes : /\ n <= server.units - made[t]
                                      /\ WithCredit(t, n, credit[t] + CreditIn(pair[t], s))
            /\ pair' = [pair EXCEPT ![t] = <<>>]
      /\ UNCHANGED <<jobs, ring, parked, slotAckFd, chunk, posted, loopVars, wire, body, server,
                     asked>>
  BY DEF Yield
<1>2. /\ Active(t) /\ pair[t] \in Seq(Acks) /\ Proper(pair[t]) /\ credit[t] \in Nat /\ s \in Slots
      /\ pair \in [Threads -> Seq(Acks)]
  BY <1>1, ThreadFacts, Typed DEF Active, Heard, Hears
<1>3. CASE told # {} /\ Returns(t) /\ pair' = [pair EXCEPT ![t] = SubSeq(@, Min(told) + 1, Len(@))]
  <2> DEFINE m == Min(told) + 1
             q == SubSeq(pair[t], m, Len(pair[t]))
  <2>1. Min(told) \in told
    <3>1. Len(pair[t]) \in Nat /\ told \in SUBSET (1 .. Len(pair[t]))
      BY <1>2
    <3> HIDE DEF told
    <3> QED
      BY <1>3, <3>1, MinIn
  <2>2. m \in Nat /\ m >= 1
    BY <1>2, <2>1
  <2> HIDE DEF m
  <2>3. q \in Seq(Acks)
    BY <1>2, <2>2
  <2>4. Proper(q)
    <3>1. ASSUME NEW i \in DOMAIN q PROVE q[i][2] >= 1 \/ q[i][2] = -1
      <4>1. q[i] = pair[t][m + i - 1] /\ m + i - 1 \in DOMAIN pair[t]
        BY <1>2, <2>2
      <4> QED
        BY <1>2, <4>1 DEF Proper
    <3> QED
      BY <3>1 DEF Proper
  <2>5. pair' = [pair EXCEPT ![t] = q]
    BY <1>2, <1>3 DEF m
  <2> HIDE DEF q
  <2>6. posted' \in Seq(Slots \X Gens)
    BY <1>1, Typed
  <2>7. Leaving(t, q)
    BY <1>1, <1>2, <1>3, <2>3, <2>4, <2>5, <2>6, ReturnsFacts
  <2> QED
    BY <2>3, <2>7 DEF Moves
<1>4. CASE /\ \E n \in server.sizes : WithCredit(t, n, credit[t] + CreditIn(pair[t], s))
           /\ pair' = [pair EXCEPT ![t] = <<>>]
  <2> DEFINE c == credit[t] + CreditIn(pair[t], s)
             e == <<>>
  <2>1. CreditIn(pair[t], s) \in Nat
    BY <1>2, CreditNat
  <2>2. c \in Nat
    BY <1>2, <2>1
  <2>3. PICK n \in server.sizes : WithCredit(t, n, c)
    BY <1>4
  <2>4. n \in Nat
    <3>1. server.sizes \subseteq 1 .. server.window /\ server.window \in Nat
      BY ServerFacts
    <3> QED
      BY <2>3, <3>1
  <2>5. e \in Seq(Acks) /\ Proper(e) /\ CreditIn(e, s) = 0
    BY <1>2, CreditInFacts DEF Proper
  <2>6. c + CreditIn(e, s) <= credit[t] + CreditIn(pair[t], s)
    BY <1>2, <2>1, <2>5
  <2>7. pair' = [pair EXCEPT ![t] = e]
    BY <1>4
  <2> HIDE DEF e, c
  <2> QED
    BY <1>1, <1>2, <2>2, <2>3, <2>4, <2>5, <2>6, <2>7, WithCreditFacts
<1> QED
  BY <1>1, <1>3, <1>4

\* What an ack, heard or passed over, leaves of a pair.
LEMMA HeadFacts ==
  ASSUME TypeOK, Counted, Working, Heard, NEW t \in Threads, Active(t), pair[t] # <<>>,
         pair' = [pair EXCEPT ![t] = Tail(@)]
  PROVE  LET q == Tail(pair[t])
             s == at[t]
             w == Worth(s)[Head(pair[t])]
         IN /\ q \in Seq(Acks) /\ Proper(q) /\ pair' = [pair EXCEPT ![t] = q]
            /\ w \in Nat /\ CreditIn(<<Head(pair[t])>>, s) = w
            /\ CreditIn(pair[t], s) = CreditIn(q, s) + w
            /\ CreditIn(q, s) \in Nat /\ CreditIn(pair[t], s) \in Nat
<1>1. pair[t] \in Seq(Acks) /\ Proper(pair[t]) /\ pair \in [Threads -> Seq(Acks)] /\ at[t] \in Slots
  BY ThreadFacts, Typed DEF Active, Heard, Hears
<1> DEFINE q == Tail(pair[t])
           a == Head(pair[t])
           s == at[t]
<1>2. q \in Seq(Acks) /\ Proper(q) /\ a \in Acks /\ Proper(<<a>>)
  BY <1>1, ProperTail
<1>3. pair' = [pair EXCEPT ![t] = q]
  BY <1>1
<1>4. CreditIn(<<a>>, s) = Worth(s)[a] /\ CreditIn(pair[t], s) = CreditIn(q, s) + Worth(s)[a]
  BY <1>1, <1>2, CreditInFacts
<1>5. <<a>> \in Seq(Acks)
  BY <1>2
<1>6. CreditIn(<<a>>, s) \in Nat /\ CreditIn(q, s) \in Nat /\ CreditIn(pair[t], s) \in Nat
  <2> HIDE DEF a, q
  <2> QED
    BY <1>1, <1>2, <1>5, CreditNat
<1> QED
  BY <1>2, <1>3, <1>4, <1>6

LEMMA WaitAckStep ==
  ASSUME TypeOK, Counted, Working, Heard, NEW t \in Threads, WaitAck(t)
  PROVE  Moves(t)
<1> DEFINE a == Head(pair[t])
           q == Tail(pair[t])
           s == at[t]
           w == Worth(s)[a]
<1>1. /\ pc[t] = "wait" /\ pair[t] # <<>> /\ pair' = [pair EXCEPT ![t] = Tail(@)]
      /\ \/ Returns(t)
         \/ WithCredit(t, hand[t], credit[t] + CreditIn(<<a>>, s))
      /\ UNCHANGED <<jobs, ring, parked, slotAckFd, chunk, posted, loopVars, wire, body, server,
                     asked>>
  BY DEF WaitAck
<1>2. Active(t) /\ credit[t] \in Nat /\ hand[t] \in Nat
  BY <1>1, ThreadFacts DEF Active
<1>3. /\ q \in Seq(Acks) /\ Proper(q) /\ pair' = [pair EXCEPT ![t] = q]
      /\ w \in Nat /\ CreditIn(<<a>>, s) = w /\ CreditIn(pair[t], s) = CreditIn(q, s) + w
      /\ CreditIn(q, s) \in Nat /\ CreditIn(pair[t], s) \in Nat
  BY <1>1, <1>2, HeadFacts
<1> HIDE DEF q, w, a, s
<1>4. CASE Returns(t)
  <2>1. posted' \in Seq(Slots \X Gens)
    BY <1>1, Typed
  <2>2. Leaving(t, q)
    BY <1>1, <1>2, <1>3, <1>4, <2>1, ReturnsFacts
  <2> QED
    BY <1>3, <2>2 DEF Moves
<1>5. CASE WithCredit(t, hand[t], credit[t] + CreditIn(<<a>>, s))
  <2> DEFINE c == credit[t] + CreditIn(<<a>>, s)
             x == CreditIn(q, s)
             y == CreditIn(pair[t], s)
  <2>1. c \in Nat /\ c = credit[t] + w
    BY <1>2, <1>3
  <2>2. y = x + w /\ x \in Nat /\ w \in Nat /\ y \in Nat
    BY <1>3
  <2>3. WithCredit(t, hand[t], c)
    BY <1>5
  <2> HIDE DEF c, x, y
  <2>4. c + x <= credit[t] + y
    BY <1>2, <2>1, <2>2
  <2>5. c + CreditIn(q, at[t]) <= credit[t] + CreditIn(pair[t], at[t])
    BY <2>4 DEF x, y, s
  <2> QED
    BY <1>1, <1>2, <1>3, <2>1, <2>3, <2>5, WithCreditFacts
<1> QED
  BY <1>1, <1>4, <1>5

LEMMA PlaceWaitsStep ==
  ASSUME TypeOK, Counted, Working, Heard, NEW t \in Threads, PlaceWaits(t)
  PROVE  Moves(t)
<1> DEFINE q == Tail(pair[t])
           s == at[t]
           w == Worth(s)[Head(pair[t])]
<1>1. /\ pc[t] = "full" /\ pair[t] # <<>> /\ pair' = [pair EXCEPT ![t] = Tail(@)]
      /\ \/ Returns(t)
         \/ /\ UNCHANGED threadVars
            /\ marks' = marks \/ marks' = [marks EXCEPT ![t] = @ \cup {"starved"}]
      /\ UNCHANGED <<jobs, ring, parked, slotAckFd, chunk, posted, loopVars, wire, body, server,
                     asked>>
  BY DEF PlaceWaits
<1>2. Active(t) /\ credit[t] \in Nat /\ hand[t] \in Nat
  BY <1>1, ThreadFacts DEF Active
<1>3. /\ q \in Seq(Acks) /\ Proper(q) /\ pair' = [pair EXCEPT ![t] = q]
      /\ w \in Nat /\ CreditIn(pair[t], s) = CreditIn(q, s) + w
      /\ CreditIn(q, s) \in Nat /\ CreditIn(pair[t], s) \in Nat
  BY <1>1, <1>2, HeadFacts
<1> HIDE DEF q, w, s
<1>4. CASE Returns(t)
  <2>1. posted' \in Seq(Slots \X Gens)
    BY <1>1, Typed
  <2>2. Leaving(t, q)
    BY <1>1, <1>2, <1>3, <1>4, <2>1, ReturnsFacts
  <2> QED
    BY <1>3, <2>2 DEF Moves
<1>5. CASE UNCHANGED threadVars
           /\ (marks' = marks \/ marks' = [marks EXCEPT ![t] = @ \cup {"starved"}])
  <2>1. UNCHANGED <<pc, at, nth, made, hand, credit>>
    BY <1>5 DEF threadVars
  <2>2. /\ marks' \in [Threads -> SUBSET Marks]
        /\ \A u \in Threads : marks[u] \subseteq marks'[u]
    <3>1. marks \in [Threads -> SUBSET Marks] /\ "starved" \in Marks
      BY Typed DEF Marks
    <3> QED
      BY <1>5, <3>1
  <2>3. pc' = [pc EXCEPT ![t] = pc[t]] /\ hand' = [hand EXCEPT ![t] = hand[t]]
        /\ credit' = [credit EXCEPT ![t] = credit[t]]
    BY <2>1, Unmoved
  <2>4. pc[t] \in Pumping /\ pc[t] \notin {"pump", "end"} /\ hand[t] <= credit[t]
    BY <1>1 DEF Pumping, Working, Works
  <2> DEFINE x == CreditIn(q, s)
             y == CreditIn(pair[t], s)
  <2>5. y = x + w /\ x \in Nat /\ w \in Nat /\ y \in Nat
    BY <1>3
  <2> HIDE DEF x, y
  <2>6. credit[t] + 0 + x <= credit[t] + y
    BY <1>2, <2>5
  <2>7. credit[t] + 0 + CreditIn(q, at[t]) <= credit[t] + CreditIn(pair[t], at[t])
    BY <2>6 DEF x, y, s
  <2>8. made' \in [Threads -> Nat] /\ body' \in [Slots -> Bodies]
    BY <1>1, <2>1, Typed
  <2>9. Moving(t, pc[t], hand[t], credit[t], q, 0)
    BY <1>1, <1>2, <1>3, <2>1, <2>2, <2>3, <2>4, <2>7, <2>8, GoesOn
  <2> QED
    BY <1>2, <1>3, <2>4, <2>9 DEF Moves
<1> QED
  BY <1>1, <1>4, <1>5

\* A thread that only changes its point.
LEMMA PointStep ==
  ASSUME TypeOK, Counted, Working, Heard, NEW t \in Threads, Active(t), NEW p \in Pumping,
         Goes(t, p), p \in {"pump", "end"} => hand[t] = 0,
         p \in {"place", "full"} => hand[t] <= credit[t], body' \in [Slots -> Bodies],
         UNCHANGED <<at, nth, made, hand, credit, jobs, ring, parked, slotAckFd, chunk, pair,
                     posted, loopVars, wire, marks, server, asked>>
  PROVE  Moves(t)
<1>1. /\ credit[t] \in Nat /\ hand[t] \in Nat /\ pair[t] \in Seq(Acks)
      /\ Proper(pair[t]) /\ at[t] \in Slots
  BY ThreadFacts DEF Heard, Hears
<1>2. pc' = [pc EXCEPT ![t] = p]
  BY DEF Goes
<1>3. /\ hand' = [hand EXCEPT ![t] = hand[t]] /\ credit' = [credit EXCEPT ![t] = credit[t]]
      /\ pair' = [pair EXCEPT ![t] = pair[t]]
  BY Unmoved
<1>4. CreditIn(pair[t], at[t]) \in Nat
  BY <1>1, CreditNat
<1>5. credit[t] + 0 + CreditIn(pair[t], at[t]) <= credit[t] + CreditIn(pair[t], at[t])
  BY <1>1, <1>4
<1>6. marks' \in [Threads -> SUBSET Marks] /\ made' \in [Threads -> Nat]
      /\ \A u \in Threads : marks[u] \subseteq marks'[u]
  BY Typed
<1>7. Moving(t, p, hand[t], credit[t], pair[t], 0)
  BY <1>1, <1>2, <1>3, <1>5, <1>6, GoesOn
<1> QED
  BY <1>1, <1>7 DEF Moves

LEMMA StopStep ==
  ASSUME TypeOK, Counted, Working, Heard, NEW t \in Threads, Stop(t)
  PROVE  Moves(t)
<1>1. /\ pc[t] = "pump"
      /\ \/ Goes(t, "end") /\ Ends(t, "whole")
         \/ Goes(t, "abort") /\ Ends(t, "cut")
      /\ UNCHANGED <<at, nth, made, hand, credit, jobs, ring, parked, slotAckFd, chunk, pair,
                     posted, loopVars, wire, marks, server, asked>>
  BY DEF Stop
<1>2. PICK p \in {"end", "abort"}, how \in {"whole", "cut"} : Goes(t, p) /\ Ends(t, how)
  BY <1>1
<1>3. /\ Active(t) /\ credit[t] \in Nat /\ hand[t] = 0 /\ pair[t] \in Seq(Acks)
      /\ Proper(pair[t]) /\ at[t] \in Slots /\ body[at[t]] \in Bodies
  BY <1>1, ThreadFacts DEF Active, Heard, Hears, Working, Works
<1>4. body' \in [Slots -> Bodies]
  <2>1. [body[at[t]] EXCEPT !.end = how] \in Bodies
    BY <1>3 DEF Bodies
  <2> QED
    BY <1>2, <1>3, <2>1, SaidFacts DEF Ends
<1>5. p \in Pumping /\ p \notin {"place", "full"}
  BY <1>2 DEF Pumping
<1> QED
  BY <1>1, <1>2, <1>3, <1>4, <1>5, PointStep

LEMMA PlaceRefusedStep ==
  ASSUME TypeOK, Counted, Working, Heard, NEW t \in Threads, PlaceRefused(t)
  PROVE  Moves(t)
<1>1. /\ pc[t] \in {"place", "end"} /\ Goes(t, "full")
      /\ UNCHANGED <<at, nth, made, hand, credit, jobs, ring, parked, slotAckFd, chunk, pair,
                     posted, loopVars, history, server, asked>>
  BY DEF PlaceRefused
<1>2. hand[t] <= credit[t]
  <2>1. hand[t] \in Nat /\ credit[t] \in Nat
    BY ThreadFacts
  <2> QED
    BY <1>1, <2>1 DEF Working, Works
<1>3. Active(t) /\ "full" \in Pumping
  BY <1>1 DEF Active, Pumping
<1>4. body' \in [Slots -> Bodies] /\ UNCHANGED <<marks, wire>>
  BY <1>1, Typed DEF history
<1> QED
  BY <1>1, <1>2, <1>3, <1>4, PointStep

LEMMA GiveUpStep ==
  ASSUME TypeOK, Counted, Working, Heard, NEW t \in Threads, GiveUp(t)
  PROVE  Moves(t)
<1>1. /\ pc[t] = "full" /\ Goes(t, "abort") /\ Ends(t, "cut")
      /\ UNCHANGED <<at, nth, made, hand, credit, jobs, ring, parked, slotAckFd, chunk, pair,
                     posted, loopVars, wire, marks, server, asked>>
  BY DEF GiveUp
<1>2. Active(t) /\ "abort" \in Pumping
  BY <1>1 DEF Active, Pumping
<1>3. body' \in [Slots -> Bodies]
  <2>1. at[t] \in Slots /\ body[at[t]] \in Bodies
    BY <1>2, ThreadFacts
  <2>2. [body[at[t]] EXCEPT !.end = "cut"] \in Bodies
    BY <2>1 DEF Bodies
  <2> QED
    BY <1>1, <2>1, <2>2, SaidFacts DEF Ends
<1> QED
  BY <1>1, <1>2, <1>3, PointStep

LEMMA AbortStep ==
  ASSUME TypeOK, Counted, Working, Heard, NEW t \in Threads, Abort(t)
  PROVE  Moves(t)
<1>1. /\ pc[t] = "abort" /\ posted' = Append(posted, <<at[t], Gen(t)>>) /\ Returns(t)
      /\ UNCHANGED <<jobs, ring, parked, slotAckFd, chunk, pair, loopVars, wire, body, server,
                     asked>>
  BY DEF Abort
<1>2. Active(t) /\ pair[t] \in Seq(Acks) /\ at[t] \in Slots /\ Gen(t) \in Gens
  BY <1>1, ThreadFacts DEF Active
<1>3. posted' \in Seq(Slots \X Gens)
  <2>1. posted \in Seq(Slots \X Gens)
    BY Typed
  <2> QED
    BY <1>1, <1>2, <2>1
<1>4. pair' = [pair EXCEPT ![t] = pair[t]]
  BY <1>1, Unmoved
<1>5. Leaving(t, pair[t])
  BY <1>1, <1>2, <1>3, <1>4, ReturnsFacts
<1> QED
  BY <1>2, <1>5 DEF Moves

LEMMA PlaceStep ==
  ASSUME TypeOK, Counted, Working, Heard, NEW t \in Threads, Place(t)
  PROVE  Moves(t)
<1>1. UNCHANGED <<jobs, ring, parked, slotAckFd, pair, posted, loopVars, wire, server, asked>>
  BY DEF Place
<1>2. \/ /\ pc[t] \in {"place", "full"} /\ hand[t] > 0 /\ made' = [made EXCEPT ![t] = @ + hand[t]]
         /\ chunk' = Append(chunk, Frame("s", at[t], Gen(t), made'[t], hand[t]))
         /\ Said(t, [body[at[t]] EXCEPT !.units = made'[t]])
         /\ credit' = [credit EXCEPT ![t] = @ - hand[t]] /\ Goes(t, "pump")
         /\ hand' = [hand EXCEPT ![t] = 0]
         /\ UNCHANGED <<at, nth, marks>>
      \/ /\ pc[t] \in {"end", "full"} /\ Returns(t) /\ UNCHANGED body
         /\ chunk' = Append(chunk, Frame("e", at[t], Gen(t), 0, 0))
  BY DEF Place
<1>3. /\ Active(t) /\ credit[t] \in Nat /\ hand[t] \in Nat /\ pair[t] \in Seq(Acks)
      /\ Proper(pair[t]) /\ at[t] \in Slots /\ body[at[t]] \in Bodies /\ made[t] \in Nat
  <2>1. Active(t)
    BY <1>2 DEF Active
  <2> QED
    BY <2>1, ThreadFacts DEF Heard, Hears
<1>4. pair' = [pair EXCEPT ![t] = pair[t]]
  BY <1>1, Unmoved
<1>5. CASE /\ pc[t] \in {"end", "full"} /\ Returns(t) /\ UNCHANGED body
           /\ chunk' = Append(chunk, Frame("e", at[t], Gen(t), 0, 0))
  <2>1. posted' \in Seq(Slots \X Gens)
    BY <1>1, Typed
  <2>2. Leaving(t, pair[t])
    BY <1>1, <1>3, <1>4, <1>5, <2>1, ReturnsFacts
  <2> QED
    BY <1>3, <2>2 DEF Moves
<1>6. CASE /\ pc[t] \in {"place", "full"} /\ made' = [made EXCEPT ![t] = @ + hand[t]]
           /\ chunk' = Append(chunk, Frame("s", at[t], Gen(t), made'[t], hand[t]))
           /\ Said(t, [body[at[t]] EXCEPT !.units = made'[t]])
           /\ credit' = [credit EXCEPT ![t] = @ - hand[t]] /\ Goes(t, "pump")
           /\ hand' = [hand EXCEPT ![t] = 0]
           /\ UNCHANGED <<at, nth, marks>>
  <2> DEFINE c == credit[t] - hand[t]
             v == made[t] + hand[t]
             y == CreditIn(pair[t], at[t])
  <2>1. hand[t] <= credit[t]
    BY <1>6 DEF Working, Works
  <2>2. c \in Nat /\ v \in Nat /\ hand[t] <= v /\ y \in Nat
    BY <1>3, <2>1, CreditNat
  <2>3. made' \in [Threads -> Nat] /\ made'[t] = v
    <3>1. made \in [Threads -> Nat]
      BY Typed
    <3> QED
      BY <1>3, <1>6, <3>1
  <2>4. body' \in [Slots -> Bodies]
    <3>1. [body[at[t]] EXCEPT !.units = made'[t]] \in Bodies
      BY <1>3, <2>2, <2>3 DEF Bodies
    <3> QED
      BY <1>3, <1>6, <3>1, SaidFacts
  <2>5. /\ pc' = [pc EXCEPT ![t] = "pump"] /\ "pump" \in Pumping
        /\ credit' = [credit EXCEPT ![t] = c]
    <3>1. credit \in [Threads -> Nat]
      BY Typed
    <3> QED
      BY <1>6, <3>1 DEF Goes, Pumping
  <2>6. c + hand[t] + y <= credit[t] + y
    BY <1>3, <2>2
  <2>7. \E w \in Nat : hand[t] <= w /\ chunk' = Append(chunk, Frame("s", at[t], Gen(t), w, hand[t]))
    BY <1>6, <2>2, <2>3
  <2>8. marks' \in [Threads -> SUBSET Marks] /\ \A u \in Threads : marks[u] \subseteq marks'[u]
    BY <1>6, Typed
  <2> HIDE DEF c, v
  <2>9. UNCHANGED <<at, nth>> /\ hand' = [hand EXCEPT ![t] = 0]
    BY <1>6
  <2>10. c + hand[t] + CreditIn(pair[t], at[t]) <= credit[t] + CreditIn(pair[t], at[t])
    BY <2>6 DEF y
  <2> HIDE DEF y
  <2>11. Moving(t, "pump", 0, c, pair[t], hand[t])
    BY <1>1, <1>3, <1>4, <2>2, <2>3, <2>4, <2>5, <2>7, <2>8, <2>9, <2>10, GoesOn
  <2> QED
    BY <1>3, <2>2, <2>5, <2>11 DEF Moves
<1> QED
  BY <1>2, <1>5, <1>6

-----------------------------------------------------------------------------
(* What is delivered. *)

\* A slot that waits for a stream is offloaded, and waits for one.
LEMMA WaitingOne ==
  ASSUME TypeOK, Counted, Working, Turns, Settled, NEW s \in Slots
  PROVE  /\ \A g : Waiting(s, g) => slots[s].conn = "offloaded"
         /\ \A g, k : Waiting(s, g) /\ Serving(s, k) => g = k
         /\ \A g : Serving(s, g) /\ slots[s].conn # "offloaded" => slots[s].sse /\ slots[s].gen = g
         /\ \A g : Serving(s, g) /\ Has(ring, s) => parked[s] = g
         /\ Has(ring, s) => slots[s].conn = "offloaded"
<1>1. Has(ring, s) => slots[s].conn = "offloaded"
  BY DEF Turns, Has
<1>2. \A t \in Threads : pc[t] = "head" /\ at[t] = s =>
        /\ slots[s].conn = "offloaded" /\ ~Has(ring, s)
        /\ \A u \in Threads : pc[u] = "head" /\ at[u] = s => u = t
  BY DEF Turns, Early
<1>3. slots[s].conn = "offloaded" => ~slots[s].sse
  BY DEF Settled, Shaped
<1>4. \A g : Waiting(s, g) => slots[s].conn = "offloaded"
  BY <1>1, <1>2 DEF Waiting
<1>5. \A g, k : Waiting(s, g) /\ Waiting(s, k) => g = k
  BY <1>2 DEF Waiting
<1>6. \A g : Serving(s, g) /\ Has(ring, s) => parked[s] = g
  BY <1>1, <1>2, <1>3 DEF Serving, Waiting
<1> QED
  BY <1>1, <1>3, <1>4, <1>5, <1>6 DEF Serving

\* A function on the first numbers is a sequence.
LEMMA Listing ==
  ASSUME NEW S, NEW n \in Nat, NEW q \in [1 .. n -> S]
  PROVE  q \in Seq(S) /\ Len(q) = n
OBVIOUS

\* Two sequences one behind the other.
LEMMA Joining ==
  ASSUME NEW S, NEW p \in Seq(S), NEW q \in Seq(S), NEW r, r = p \o q
  PROVE  Len(r) = Len(p) + Len(q)
OBVIOUS

\* A frame keeps a registry sound, and gives a stream no more than it holds.
LEMMA PeerKeeps ==
  ASSUME TypeOK, Counted, Working, Turns, Settled, NEW h \in Registries, NEW f \in Fit,
         Frameable(f), NEW s \in Slots, Registered(h, s), NEW g \in Gens
  PROVE  /\ Registered(Peer(h, f), s)
         /\ Pend(Peer(h, f), s, g) <= Pend(h, s, g) + (IF f.gen = g THEN f.len ELSE 0)
<1> DEFINE m == Peer(h, f)
<1>1. /\ m \in Registries /\ f.slot \in Slots
      /\ \A z \in Slots \ {f.slot} : Same(m, h, z)
      /\ f.kind = "P" => /\ m.sub[f.slot] = f.val /\ m.gen[f.slot] = f.gen
                         /\ m.pending[f.slot] = h.pending[f.slot]
      /\ f.kind = "s" /\ h.gen[f.slot] = f.gen /\ h.sub[f.slot] # None =>
           /\ m.sub[f.slot] = h.sub[f.slot] /\ m.gen[f.slot] = h.gen[f.slot]
           /\ m.pending[f.slot] = h.pending[f.slot]
                             \o [i \in 1 .. f.len |-> Unit(f.gen, f.val - f.len + i)]
      /\ f.kind = "e" /\ h.gen[f.slot] = f.gen /\ h.pending[f.slot] # <<>> =>
           /\ m.sub[f.slot] = h.sub[f.slot] /\ m.gen[f.slot] = h.gen[f.slot]
           /\ m.pending[f.slot] = h.pending[f.slot]
      /\ f.kind = "e" /\ h.gen[f.slot] = f.gen /\ h.pending[f.slot] = <<>> =>
           /\ m.sub[f.slot] = None /\ m.gen[f.slot] = h.gen[f.slot]
           /\ m.pending[f.slot] = <<>>
      /\ \/ f.kind = "s" /\ (h.gen[f.slot] # f.gen \/ h.sub[f.slot] = None)
         \/ f.kind = "e" /\ h.gen[f.slot] # f.gen
         => m = h
  BY PeerFacts
<1> HIDE DEF m
<1>2. /\ h.pending[s] \in Seq(Gens \X Nat) /\ Len(h.pending[s]) \in Nat /\ Pend(h, s, g) \in Nat
  <2>1. h.pending[s] \in Seq(Gens \X Nat)
    BY DEF Registries
  <2> QED
    BY <2>1 DEF Pend
<1>3. /\ f.kind \in {"P", "s", "e"} /\ f.len \in Nat /\ f.val \in Nat /\ f.gen \in Gens /\ f.gen # 0
      /\ f.kind = "P" => f.val # None
  BY StreamsAssumption DEF Fit, Frames, Gens
<1>4. CASE (s # f.slot) \/ m = h
  <2>1. Same(m, h, s)
    BY <1>1, <1>4 DEF Same
  <2>2. Registered(m, s) /\ Pend(m, s, g) = Pend(h, s, g)
    BY <2>1 DEF Same, Registered, Pend
  <2> QED
    BY <1>2, <1>3, <2>2 DEF m
<1>5. CASE s = f.slot /\ f.kind = "P"
  <2>1. m.sub[s] = f.val /\ m.gen[s] = f.gen /\ m.pending[s] = h.pending[s]
    BY <1>1, <1>5
  <2>2. Known(s, f.gen) /\ Waiting(s, f.gen)
    BY <1>5 DEF Frameable
  <2>3. Registered(m, s)
    BY <1>3, <1>5, <2>1, <2>2 DEF Registered, Serving
  <2>4. m.pending[s] = <<>> \/ h.gen[s] = f.gen
    <3>1. CASE h.sub[s] = None
      BY <2>1, <3>1 DEF Registered
    <3>2. CASE h.sub[s] # None
      <4>1. Serving(s, h.gen[s])
        BY <3>2 DEF Registered
      <4> QED
        BY <2>2, <4>1, WaitingOne
    <3> QED
      BY <3>1, <3>2
  <2>5. Pend(m, s, g) <= Pend(h, s, g)
    <3>1. CASE h.gen[s] = f.gen
      BY <1>2, <2>1, <3>1 DEF Pend
    <3>2. CASE m.pending[s] = <<>>
      <4>1. Pend(m, s, g) = 0
        BY <3>2 DEF Pend
      <4> QED
        BY <1>2, <4>1
    <3> QED
      BY <2>4, <3>1, <3>2
  <2>6. Pend(m, s, g) \in Nat
    BY <1>2, <2>1 DEF Pend
  <2> QED
    BY <1>2, <1>3, <2>3, <2>5, <2>6 DEF m
<1>6. CASE s = f.slot /\ f.kind = "s" /\ h.gen[s] = f.gen /\ h.sub[s] # None
  <2> DEFINE piece == [i \in 1 .. f.len |-> Unit(f.gen, f.val - f.len + i)]
  <2>1. m.sub[s] = h.sub[s] /\ m.gen[s] = h.gen[s] /\ m.pending[s] = h.pending[s] \o piece
    BY <1>1, <1>6
  <2>2. piece \in Seq(Gens \X Nat) /\ Len(piece) = f.len
    <3>1. f.len <= f.val
      BY <1>6 DEF Fit
    <3>2. \A i \in 1 .. f.len : f.val - f.len + i \in Nat
      BY <1>3, <3>1
    <3>3. \A i \in 1 .. f.len : Unit(f.gen, f.val - f.len + i) \in Gens \X Nat
      BY <1>3, <3>2 DEF Unit
    <3>4. f.len \in Nat /\ piece \in [1 .. f.len -> Gens \X Nat]
      BY <1>3, <3>3
    <3> HIDE DEF piece
    <3> QED
      BY <3>4, Listing
  <2> HIDE DEF piece
  <2>3. Len(m.pending[s]) = Len(h.pending[s]) + f.len
    <3>1. Len(m.pending[s]) = Len(h.pending[s]) + Len(piece)
      BY <1>2, <2>1, <2>2, Joining
    <3> QED
      BY <2>2, <3>1
  <2>4. Registered(m, s)
    BY <1>6, <2>1 DEF Registered
  <2>5. Pend(m, s, g) = Pend(h, s, g) + (IF f.gen = g THEN f.len ELSE 0)
    BY <1>2, <1>3, <1>6, <2>1, <2>3 DEF Pend
  <2> QED
    BY <1>2, <1>3, <2>4, <2>5 DEF m
<1>7. CASE s = f.slot /\ f.kind = "e" /\ h.gen[s] = f.gen /\ h.pending[s] # <<>>
  <2>1. m.sub[s] = h.sub[s] /\ m.gen[s] = h.gen[s] /\ m.pending[s] = h.pending[s]
    BY <1>1, <1>7
  <2>2. Registered(m, s) /\ Pend(m, s, g) = Pend(h, s, g)
    BY <2>1 DEF Registered, Pend
  <2> QED
    BY <1>2, <1>3, <2>2 DEF m
<1>8. CASE s = f.slot /\ f.kind = "e" /\ h.gen[s] = f.gen /\ h.pending[s] = <<>>
  <2>1. m.sub[s] = None /\ m.gen[s] = h.gen[s] /\ m.pending[s] = <<>>
    BY <1>1, <1>8
  <2>2. Registered(m, s) /\ Pend(m, s, g) = 0
    BY <2>1 DEF Registered, Pend
  <2> QED
    BY <1>2, <1>3, <2>2 DEF m
<1> QED
  BY <1>1, <1>3, <1>4, <1>5, <1>6, <1>7, <1>8

\* The frames under way are ones that a registry can take.
LEMMA ChunkFit ==
  ASSUME TypeOK, Framed
  PROVE  /\ chunk \in Seq(Fit) /\ chunk \in Seq(Frames)
         /\ \A i \in DOMAIN chunk : chunk[i] \in Fit /\ Frameable(chunk[i])
<1>1. chunk \in Seq(Frames)
  BY Typed
<1>2. \A i \in DOMAIN chunk : chunk[i] \in Fit /\ Frameable(chunk[i])
  BY <1>1 DEF Framed, Frameable, Fit
<1> QED
  BY <1>1, <1>2

\* So the registry is sound when all are delivered, and no stream has gained anything.
LEMMA DeliveredFacts ==
  ASSUME TypeOK, Counted, Working, Turns, Framed, Settled
  PROVE  /\ Delivered \in Registries
         /\ \A s \in Slots : Registered(Delivered, s)
         /\ \A s \in Slots, g \in Gens :
              Pend(Delivered, s, g) <= Pend(handler, s, g) + InChunk(chunk, g)
<1> DEFINE n == Len(chunk)
<1>1. /\ chunk \in Seq(Fit) /\ chunk \in Seq(Frames) /\ handler \in Registries
      /\ \A i \in DOMAIN chunk : chunk[i] \in Fit /\ Frameable(chunk[i])
      /\ n \in Nat /\ DOMAIN chunk = 1 .. n
  BY ChunkFit, Typed
<1>2. PICK h \in [0 .. n -> Registries] :
        /\ h[0] = handler /\ h[n] = FoldLeft(Peer, handler, chunk)
        /\ \A i \in 1 .. n : h[i] = Peer(h[i - 1], chunk[i])
  BY <1>1, DeliveredWalk
<1>3. h[n] = Delivered
  BY <1>2 DEF Delivered
<1>4. Delivered \in Registries
  BY <1>1, <1>2, <1>3
<1>5. ASSUME NEW s \in Slots, NEW g \in Gens
      PROVE  /\ Registered(Delivered, s)
             /\ Pend(Delivered, s, g) <= Pend(handler, s, g) + InChunk(chunk, g)
  <2>1. PICK c \in [0 .. n -> Nat] : Sums(c, InChunk(chunk, g), chunk, Weight(g))
    BY <1>1, ChunkSum
  <2>2. /\ c[0] = 0 /\ c[n] = InChunk(chunk, g)
        /\ \A i \in 1 .. n : c[i] = c[i - 1] + Weight(g)[chunk[i]]
    BY <2>1 DEF Sums
  <2> DEFINE d == Pend(handler, s, g)
             T == {i \in 0 .. n : Registered(h[i], s) /\ Pend(h[i], s, g) <= d + c[i]}
  <2>3. d \in Nat
    <3>1. handler.pending[s] \in Seq(Gens \X Nat)
      BY <1>1 DEF Registries
    <3> QED
      BY <3>1 DEF Pend
  <2>4. 0 \in T
    <3>1. Registered(h[0], s)
      BY <1>2 DEF Settled
    <3>2. Pend(h[0], s, g) = d
      BY <1>2
    <3> HIDE DEF d
    <3> QED
      BY <1>1, <2>2, <2>3, <3>1, <3>2
  <2>5. ASSUME NEW i \in 1 .. n, i - 1 \in T PROVE i \in T
    <3>1. i \in DOMAIN chunk /\ i - 1 \in 0 .. n /\ i \in 0 .. n
      BY <1>1
    <3>2. /\ chunk[i] \in Fit /\ chunk[i] \in Frames /\ Frameable(chunk[i])
          /\ h[i - 1] \in Registries /\ h[i] \in Registries
      BY <1>1, <1>2, <3>1
    <3>3. Registered(h[i - 1], s) /\ Pend(h[i - 1], s, g) <= d + c[i - 1]
      BY <2>5
    <3> DEFINE w == IF chunk[i].gen = g THEN chunk[i].len ELSE 0
    <3>4. /\ Registered(Peer(h[i - 1], chunk[i]), s)
          /\ Pend(Peer(h[i - 1], chunk[i]), s, g) <= Pend(h[i - 1], s, g) + w
      BY <3>2, <3>3, PeerKeeps
    <3>5. w \in Nat /\ c[i] = c[i - 1] + w /\ c[i - 1] \in Nat
      BY <2>1, <2>2, <3>1, <3>2 DEF Weight, Frames
    <3>6. h[i] = Peer(h[i - 1], chunk[i])
      BY <1>2
    <3>7. Pend(h[i], s, g) \in Nat /\ Pend(h[i - 1], s, g) \in Nat
      <4>1. h[i].pending[s] \in Seq(Gens \X Nat) /\ h[i - 1].pending[s] \in Seq(Gens \X Nat)
        BY <3>2 DEF Registries
      <4> QED
        BY <4>1 DEF Pend
    <3> DEFINE a == Pend(h[i], s, g)
               b == Pend(h[i - 1], s, g)
               e == c[i - 1]
    <3>8. a <= b + w /\ b <= d + e /\ c[i] = e + w
      BY <3>3, <3>4, <3>5, <3>6
    <3>9. a \in Nat /\ b \in Nat /\ e \in Nat
      BY <3>5, <3>7
    <3> HIDE DEF a, b, e, w, d
    <3>10. a <= d + c[i]
      BY <2>3, <3>5, <3>8, <3>9
    <3> QED
      BY <3>1, <3>4, <3>6, <3>10 DEF a
  <2> HIDE DEF T
  <2>6. \A i \in 0 .. n : i \in T
    BY <1>1, <2>4, <2>5, Along
  <2>7. n \in T
    BY <1>1, <2>6
  <2> QED
    BY <1>3, <2>2, <2>7 DEF T
<1> HIDE DEF n
<1>6. ASSUME NEW s \in Slots PROVE Registered(Delivered, s)
  <2>1. handler.gen \in [Slots -> AnyGen]
    BY <1>1 DEF Registries
  <2>2. \E g : g \in Gens
    <3>1. s \in Slots /\ NumThreads \in Nat /\ MaxRequests \in Nat
      BY StreamsAssumption
    <3>2. server.threads \in Threads
      BY ServerFacts
    <3> QED
      BY <3>2, ThreadFacts
  <2> QED
    BY <1>5, <2>2
<1> QED
  BY <1>4, <1>5, <1>6

\* So whichever the loop goes by, its handler or what it becomes.
LEMMA FromFacts ==
  ASSUME TypeOK, Counted, Working, Turns, Framed, Settled, NEW l, From(l)
  PROVE  /\ l \in Registries /\ \A s \in Slots : Registered(l, s)
         /\ \A s \in Slots, g \in Gens :
              Pend(l, s, g) + InChunk(chunk', g) <= Pend(handler, s, g) + InChunk(chunk, g)
         /\ \A i \in DOMAIN chunk' : i \in DOMAIN chunk /\ chunk'[i] = chunk[i]
         /\ chunk' \in Seq(Frames)
<1>1. chunk \in Seq(Frames) /\ handler \in Registries
  BY Typed
<1>2. \A h \in Registries, s \in Slots, g \in Gens : Pend(h, s, g) \in Nat
  <2>1. \A h \in Registries, s \in Slots : h.pending[s] \in Seq(Gens \X Nat)
    BY DEF Registries
  <2> QED
    BY <2>1 DEF Pend
<1>3. \A g \in Gens : InChunk(chunk, g) \in Nat
  BY <1>1, InChunkFacts
<1>4. CASE l = handler /\ chunk' = chunk
  <2>1. \A s \in Slots : Registered(l, s)
    BY <1>4 DEF Settled
  <2>2. ASSUME NEW s \in Slots, NEW g \in Gens
        PROVE  Pend(l, s, g) + InChunk(chunk', g) <= Pend(handler, s, g) + InChunk(chunk, g)
    <3> DEFINE a == Pend(handler, s, g)
               b == InChunk(chunk, g)
    <3>1. a \in Nat /\ b \in Nat
      BY <1>1, <1>2, <1>3
    <3> HIDE DEF a, b
    <3>2. a + b <= a + b
      BY <3>1
    <3> QED
      BY <1>4, <3>2 DEF a, b
  <2> QED
    BY <1>1, <1>4, <2>1, <2>2
<1>5. CASE l = Delivered /\ chunk' = <<>>
  <2>1. \A g \in Gens : InChunk(chunk', g) = 0
    <3>1. \A g : InChunk(<<>>, g) = 0
      BY <1>1, InChunkFacts
    <3> QED
      BY <1>5, <3>1
  <2>2. /\ l \in Registries /\ \A s \in Slots : Registered(l, s)
        /\ \A s \in Slots, g \in Gens : Pend(l, s, g) <= Pend(handler, s, g) + InChunk(chunk, g)
    BY <1>5, DeliveredFacts
  <2>3. ASSUME NEW s \in Slots, NEW g \in Gens
        PROVE  Pend(l, s, g) + InChunk(chunk', g) <= Pend(handler, s, g) + InChunk(chunk, g)
    <3> DEFINE a == Pend(handler, s, g)
               b == InChunk(chunk, g)
               c == Pend(l, s, g)
               e == InChunk(chunk', g)
    <3>1. c \in Nat /\ e = 0 /\ c <= a + b
      BY <1>2, <2>1, <2>2
    <3> HIDE DEF a, b, c, e
    <3>2. c + e <= a + b
      BY <3>1
    <3> QED
      BY <3>2 DEF a, b, c, e
  <2>4. chunk' \in Seq(Frames) /\ DOMAIN chunk' = {}
    BY <1>5
  <2> QED
    BY <2>2, <2>3, <2>4
<1> QED
  BY <1>4, <1>5 DEF From

-----------------------------------------------------------------------------
(* How a handler of the loop leaves its slot. *)

LEMMA Widen ==
  ASSUME NEW A, NEW B, A \subseteq B, NEW q \in Seq(A)
  PROVE  q \in Seq(B)
<1>1. q = [i \in 1 .. Len(q) |-> q[i]] /\ Len(q) \in Nat /\ \A i \in 1 .. Len(q) : q[i] \in B
  OBVIOUS
<1> QED
  BY <1>1

\* The pairs and the marks after a disconnect is told.
Told(s, p) ==
  /\ pair' \in [Threads -> Seq(Acks)]
  /\ \A t \in Threads : pair'[t] \in {p[t], Append(p[t], Gone(s))}
  /\ \A t \in Threads : marks[t] \subseteq marks'[t]
  /\ marks' \in [Threads -> SUBSET Marks]

\* What Tell, Closes, Stays and the outcomes leave of the pairs and the marks, and of the slot.
LEMMA ToldSame ==
  ASSUME TypeOK, NEW s, NEW p \in [Threads -> Seq(Acks)], pair' = p, UNCHANGED marks
  PROVE  Told(s, p)
BY Typed DEF Told

LEMMA TellFacts ==
  ASSUME TypeOK, NEW s \in Slots, NEW h \in Registries, NEW p \in [Threads -> Seq(Acks)],
         Tell(s, h, p)
  PROVE  Told(s, p)
<1> DEFINE t == h.sub[s]
<1>1. t \in Threads \cup {None} /\ marks \in [Threads -> SUBSET Marks] /\ "deaf" \in Marks
  BY Typed DEF Registries, Marks
<1>2. Gone(s) \in Acks
  BY DEF Gone, Acks
<1>3. \/ pair' = p /\ UNCHANGED marks
      \/ t # None /\ pair' = [p EXCEPT ![t] = Append(@, Gone(s))] /\ UNCHANGED marks
      \/ t # None /\ pair' = p /\ marks' = [marks EXCEPT ![t] = @ \cup {"deaf"}]
  BY DEF Tell
<1> HIDE DEF t
<1>4. CASE pair' = p /\ UNCHANGED marks
  BY <1>4, ToldSame
<1>5. CASE t # None /\ pair' = [p EXCEPT ![t] = Append(@, Gone(s))] /\ UNCHANGED marks
  <2>1. t \in Threads /\ Append(p[t], Gone(s)) \in Seq(Acks)
    BY <1>1, <1>2, <1>5
  <2>2. pair' \in [Threads -> Seq(Acks)]
    BY <1>5, <2>1
  <2>3. \A u \in Threads : pair'[u] \in {p[u], Append(p[u], Gone(s))}
    BY <1>5
  <2> QED
    BY <1>1, <1>5, <2>2, <2>3 DEF Told
<1>6. CASE t # None /\ pair' = p /\ marks' = [marks EXCEPT ![t] = @ \cup {"deaf"}]
  <2>1. marks' \in [Threads -> SUBSET Marks] /\ \A u \in Threads : marks[u] \subseteq marks'[u]
    BY <1>1, <1>6
  <2> QED
    BY <1>6, <2>1 DEF Told
<1> QED
  BY <1>3, <1>4, <1>5, <1>6

\* The slot's record, and what is left of its stream in the registry.
Left(s, r, h, k) ==
  /\ k \in Records /\ slots' = [slots EXCEPT ![s] = k]
  /\ k.conn # "offloaded" /\ Shaped(k) /\ k.gen = r.gen
  /\ k.conn = "unused" \/ k.sse = r.sse
  /\ k.owed = r.owed /\ k.owes \in {0, r.owes}
  /\ handler' \in Registries /\ \A z \in Slots \ {s} : Same(handler', h, z)
  /\ \/ handler'.sub[s] = None /\ handler'.pending[s] = <<>> /\ handler'.gen[s] = 0
     \/ handler' = h /\ (r.sse => k.sse)

\* The ways to leave it, and what has then reached its client.
Outcome(s, r, h, p, out) ==
  \/ Landed(s, r, h, p, out) \/ Waits(s, r, h, p, out) \/ Fails(s, r, h, p)
  \/ Closes(s, r, h, p) /\ wire' \in [Slots -> Seq(Nat \X Int)]
  \/ Stays(s, r, h, p) /\ r.conn = "idle" /\ r.sse /\ wire' \in [Slots -> Seq(Nat \X Int)]

LEMMA ClosesFacts ==
  ASSUME TypeOK, NEW s \in Slots, NEW r \in Records, NEW h \in Registries,
         NEW p \in [Threads -> Seq(Acks)], Closes(s, r, h, p)
  PROVE  Told(s, p) /\ \E k \in Records : Left(s, r, h, k)
<1> DEFINE k == [Unused EXCEPT !.gen = r.gen, !.owed = r.owed]
<1>1. /\ slots' = [slots EXCEPT ![s] = k]
      /\ handler' = IF r.sse THEN Disconnected(h, s) ELSE h
      /\ IF r.sse THEN Tell(s, h, p) ELSE pair' = p /\ UNCHANGED marks
  BY DEF Closes
<1>2. r.gen \in AnyGen /\ r.owed \in Nat
  BY DEF Records
<1>3. k = [conn |-> "unused", kind |-> "plain", sse |-> FALSE, chunked |-> FALSE,
           close |-> FALSE, gen |-> r.gen, buf |-> <<>>, owes |-> 0, owed |-> r.owed]
  <2> DEFINE u == Unused
  <2>1. u = [conn |-> "unused", kind |-> "plain", sse |-> FALSE, chunked |-> FALSE,
             close |-> FALSE, gen |-> 0, buf |-> <<>>, owes |-> 0, owed |-> 0]
    BY DEF Unused
  <2>2. k = [u EXCEPT !.gen = r.gen, !.owed = r.owed]
    OBVIOUS
  <2> HIDE DEF u, k
  <2>3. k = [conn |-> u.conn, kind |-> u.kind, sse |-> u.sse, chunked |-> u.chunked,
             close |-> u.close, gen |-> r.gen, buf |-> u.buf, owes |-> u.owes, owed |-> r.owed]
    BY <2>1, <2>2
  <2>4. /\ u.conn = "unused" /\ u.kind = "plain" /\ u.sse = FALSE /\ u.chunked = FALSE
        /\ u.close = FALSE /\ u.buf = <<>> /\ u.owes = 0
    BY <2>1
  <2> QED
    BY <2>3, <2>4
<1>4. <<>> \in Seq(Nat \X Nat) /\ 0 \in Nat /\ "plain" \in Kinds
  BY DEF Kinds
<1> HIDE DEF k
<1>5. /\ k \in Records /\ k.conn = "unused" /\ ~k.sse /\ k.gen = r.gen /\ k.owed = r.owed
      /\ k.owes = 0
  BY <1>2, <1>3, <1>4 DEF Records
<1>6. Shaped(k)
  BY <1>5 DEF Shaped
<1>7. Told(s, p)
  BY <1>1, ToldSame, TellFacts
<1>8. CASE r.sse
  <2>1. handler' = Disconnected(h, s)
    BY <1>1, <1>8
  <2>2. /\ handler' \in Registries /\ \A z \in Slots \ {s} : Same(handler', h, z)
        /\ handler'.sub[s] = None /\ handler'.pending[s] = <<>> /\ handler'.gen[s] = 0
    BY <2>1, RegistryFacts
  <2>3. Left(s, r, h, k)
    BY <1>1, <1>5, <1>6, <2>2 DEF Left
  <2> QED
    BY <1>5, <1>7, <2>3
<1>9. CASE ~r.sse
  <2>1. handler' = h /\ \A z \in Slots : Same(handler', h, z)
    BY <1>1, <1>9 DEF Same
  <2>2. Left(s, r, h, k)
    BY <1>1, <1>5, <1>6, <1>9, <2>1 DEF Left
  <2> QED
    BY <1>5, <1>7, <2>2
<1> QED
  BY <1>8, <1>9

LEMMA StaysFacts ==
  ASSUME TypeOK, NEW s \in Slots, NEW r \in Records, NEW k \in Records, NEW h \in Registries,
         NEW p \in [Threads -> Seq(Acks)], Stays(s, k, h, p),
         k.conn # "offloaded", Shaped(k), k.gen = r.gen, k.sse = r.sse, k.owed = r.owed,
         k.owes = r.owes
  PROVE  Told(s, p) /\ Left(s, r, h, k)
<1>1. slots' = [slots EXCEPT ![s] = k] /\ handler' = h /\ pair' = p /\ UNCHANGED marks
  BY DEF Stays
<1>2. Told(s, p)
  BY <1>1, ToldSame
<1>3. \A z \in Slots : Same(handler', h, z)
  BY <1>1 DEF Same
<1> QED
  BY <1>1, <1>2, <1>3 DEF Left

LEMMA OutcomeFacts ==
  ASSUME TypeOK, NEW s \in Slots, NEW r \in Records, NEW h \in Registries,
         NEW p \in [Threads -> Seq(Acks)], NEW out \in Seq(Nat \X Nat), Outcome(s, r, h, p, out),
         ~r.sse => r.gen = 0
  PROVE  /\ Told(s, p) /\ wire' \in [Slots -> Seq(Nat \X Int)]
         /\ \E k \in Records : Left(s, r, h, k)
<1>1. wire \in [Slots -> Seq(Nat \X Int)]
  BY Typed
<1>2. Reaches(s, out) => wire' \in [Slots -> Seq(Nat \X Int)]
  <2>1. out \in Seq(Nat \X Int)
    BY Nat \X Nat \subseteq Nat \X Int, Widen
  <2>2. wire[s] \o out \in Seq(Nat \X Int)
    BY <1>1, <2>1
  <2> QED
    BY <1>1, <2>2 DEF Reaches
<1>3. CASE Closes(s, r, h, p) /\ wire' \in [Slots -> Seq(Nat \X Int)]
  BY <1>3, ClosesFacts
<1>4. CASE Stays(s, r, h, p) /\ r.conn = "idle" /\ r.sse /\ wire' \in [Slots -> Seq(Nat \X Int)]
  <2>1. Shaped(r)
    BY <1>4 DEF Shaped
  <2> QED
    BY <1>4, <2>1, StaysFacts
<1>5. CASE Fails(s, r, h, p)
  BY <1>1, <1>5, ClosesFacts DEF Fails
<1>6. CASE Waits(s, r, h, p, out)
  <2> DEFINE k == [r EXCEPT !.conn = "sending", !.buf = out]
  <2>1. Stays(s, k, h, p) /\ wire' = wire
    BY <1>6 DEF Waits
  <2>2. /\ k \in Records /\ k.conn = "sending" /\ k.gen = r.gen /\ k.sse = r.sse
        /\ k.owed = r.owed /\ k.owes = r.owes
    BY DEF Records
  <2> HIDE DEF k
  <2>3. Shaped(k)
    BY <2>2 DEF Shaped
  <2>4. Told(s, p) /\ Left(s, r, h, k)
    BY <2>1, <2>2, <2>3, StaysFacts
  <2> QED
    BY <1>1, <2>1, <2>2, <2>4
<1>7. CASE Landed(s, r, h, p, out)
  <2>1. /\ Reaches(s, out)
        /\ \/ Closes(s, r, h, p)
           \/ r.sse /\ Stays(s, [r EXCEPT !.conn = "idle", !.buf = <<>>], h, p)
           \/ ~r.sse /\ Stays(s, [r EXCEPT !.conn = "ready", !.buf = <<>>], h, p)
    BY <1>7 DEF Landed
  <2>2. CASE Closes(s, r, h, p)
    BY <1>2, <2>1, <2>2, ClosesFacts
  <2>3. ASSUME NEW c \in {"idle", "ready"}, c = "idle" <=> r.sse,
               Stays(s, [r EXCEPT !.conn = c, !.buf = <<>>], h, p)
        PROVE  Told(s, p) /\ \E k \in Records : Left(s, r, h, k)
    <3> DEFINE k == [r EXCEPT !.conn = c, !.buf = <<>>]
    <3>1. <<>> \in Seq(Nat \X Nat)
      OBVIOUS
    <3>2. /\ k \in Records /\ k.conn = c /\ k.gen = r.gen /\ k.sse = r.sse
          /\ k.owed = r.owed /\ k.owes = r.owes
      BY <3>1 DEF Records
    <3>3. Stays(s, k, h, p)
      BY <2>3
    <3> HIDE DEF k
    <3>4. Shaped(k)
      BY <2>3, <3>2 DEF Shaped
    <3>5. Told(s, p) /\ Left(s, r, h, k)
      BY <2>3, <3>2, <3>3, <3>4, StaysFacts
    <3> QED
      BY <3>2, <3>5
  <2> QED
    BY <1>2, <2>1, <2>2, <2>3
<1> QED
  BY <1>3, <1>4, <1>5, <1>6, <1>7 DEF Outcome

\* What its handler makes of a slot before it leaves it: the slot's stream goes on
\* from `l` to `h`, or is over, and what it is credited with is within what it held.
Ready(s, l, r, h, p, n) ==
  /\ s \in Slots /\ n \in Nat /\ From(l) /\ l \in Registries
  /\ r \in Records /\ h \in Registries
  /\ p \in [Threads -> Seq(Acks)] /\ \A t \in Threads : p[t] = Given(t, s, n)
  /\ \A z \in Slots \ {s} : Same(h, l, z)
  /\ h.sub[s] \in {l.sub[s], None}
  /\ h.gen[s] = l.gen[s] \/ (h.gen[s] = 0 /\ h.sub[s] = None)
  /\ h.sub[s] = None => h.pending[s] = <<>>
  /\ ~r.sse => r.gen = 0 /\ h.sub[s] = None
  /\ r.gen \in {0, Now(s)} /\ (r.gen = Now(s) \/ h.sub[s] = None)
  /\ \A g \in Gens :
       Pend(h, s, g) + Owes(r, g) + (IF g = Now(s) THEN n ELSE 0)
         <= Pend(l, s, g) + Owes(slots[s], g)
  /\ n > 0 => slots[s].conn \in {"sending", "idle"}
  /\ slotAckFd' = slotAckFd \/ slotAckFd' = [slotAckFd EXCEPT ![s] = None]
  /\ \A t \in Threads : Active(t) /\ at[t] = s /\ slotAckFd'[s] = t => r.sse /\ r.gen = Now(s)
  /\ \/ slots[s].conn = "offloaded" /\ ring # <<>> /\ s = Head(ring) /\ ring' = Tail(ring)
        /\ (chunk' = <<>> \/ parked[s] = 0)
     \/ slots[s].conn \notin {"offloaded", "unused"} /\ ring' = ring
  /\ parked' \in [Slots -> AnyGen] /\ \A z \in Slots : parked'[z] \in {0, parked[z]}
  /\ \A z \in Slots \ {s} : parked'[z] = parked[z]

\* From these a handler is a turn of its slot, or the loop is at rest.
LEMMA TurnFacts ==
  ASSUME TypeOK, NEW s, NEW l, NEW r, NEW h, NEW p, NEW n, Ready(s, l, r, h, p, n),
         Told(s, p), \E k \in Records : Left(s, r, h, k), wire' \in [Slots -> Seq(Nat \X Int)],
         UNCHANGED <<threadVars, jobs, posted, body, server, asked>>,
         aborts' \in Seq(Slots \X Gens), due' \subseteq Slots
  PROVE  Turn(s, l, n)
<1>1. s \in Slots /\ r \in Records /\ h \in Registries /\ p \in [Threads -> Seq(Acks)]
      /\ (~r.sse => r.gen = 0)
  BY DEF Ready
<1>2. Told(s, p)
  OBVIOUS
<1>3. PICK k \in Records : Left(s, r, h, k)
  OBVIOUS
<1>4. Sundry
  BY Typed DEF Sundry, threadVars
<1>5. slots \in [Slots -> Records]
  BY Typed
<1>6. /\ slots' \in [Slots -> Records] /\ \A z \in Slots \ {s} : slots'[z] = slots[z]
      /\ slots'[s] = k
  BY <1>1, <1>3, <1>5 DEF Left
<1>7. /\ k.conn # "offloaded" /\ Shaped(k) /\ k.gen \in {0, Now(s)}
      /\ \A t \in Threads : Active(t) /\ at[t] = s /\ slotAckFd'[s] = t =>
           k.conn = "unused" \/ (k.sse /\ k.gen = Now(s))
  BY <1>3 DEF Left, Ready
<1>8. handler' \in Registries /\ \A z \in Slots \ {s} : Same(handler', l, z)
  BY <1>3 DEF Left, Ready, Same
<1>9. handler'.gen[s] \in {0, l.gen[s]}
  BY <1>3 DEF Left, Ready
<1>10. Keeps(s, l, k)
  BY <1>3 DEF Left, Ready, Keeps
<1>11. ASSUME NEW g \in Gens
       PROVE  Pend(handler', s, g) + Owes(k, g) + (IF g = Now(s) THEN n ELSE 0)
                <= Pend(l, s, g) + Owes(slots[s], g)
  <2>1. /\ h.pending[s] \in Seq(Gens \X Nat) /\ n \in Nat /\ k.gen = r.gen /\ k.owed = r.owed
        /\ k.owes \in {0, r.owes} /\ r.owes \in Nat /\ r.owed \in Nat
    BY <1>1, <1>3 DEF Left, Ready, Registries, Records
  <2>2. Owes(k, g) \in Nat /\ Owes(r, g) \in Nat /\ Owes(k, g) <= Owes(r, g)
    BY <2>1 DEF Owes
  <2>3. Pend(h, s, g) \in Nat
    BY <2>1 DEF Pend
  <2>4. Pend(handler', s, g) \in {0, Pend(h, s, g)}
    <3>1. CASE handler'.sub[s] = None /\ handler'.pending[s] = <<>> /\ handler'.gen[s] = 0
      BY <3>1 DEF Pend
    <3>2. CASE handler' = h
      BY <3>2
    <3> QED
      BY <1>3, <3>1, <3>2 DEF Left
  <2> DEFINE a == Pend(handler', s, g)
             b == Pend(h, s, g)
             c == Owes(k, g)
             d == Owes(r, g)
             e == IF g = Now(s) THEN n ELSE 0
             f == Pend(l, s, g) + Owes(slots[s], g)
  <2>5. b + d + e <= f
    BY DEF Ready
  <2>6. e \in Nat /\ f \in Int
    <3>2. e \in Nat
      BY <2>1
    <3>3. Owes(slots[s], g) \in Nat
      BY <1>1, <1>5 DEF Owes, Records
    <3>4. Pend(l, s, g) \in Nat
      <4>1. l.pending[s] \in Seq(Gens \X Nat)
        BY DEF Ready, Registries
      <4> QED
        BY <4>1 DEF Pend
    <3> QED
      BY <3>2, <3>3, <3>4
  <2> HIDE DEF a, b, c, d, e, f
  <2>7. a + c + e <= f
    BY <2>2, <2>3, <2>4, <2>5, <2>6 DEF a, b, c, d
  <2> QED
    BY <2>7 DEF a, c, e, f
<1>12. UNCHANGED <<pc, at, nth, hand, credit, jobs, asked, server>>
  BY DEF threadVars
<1>13. \A t \in Threads : pair'[t] \in {Given(t, s, n), Append(Given(t, s, n), Gone(s))}
  BY <1>2 DEF Told, Ready
<1> QED
  BY <1>1, <1>2, <1>4, <1>6, <1>7, <1>8, <1>9, <1>10, <1>11, <1>12, <1>13 DEF Turn, Ready, Told

\* The same from an outcome.
LEMMA OutcomeTurn ==
  ASSUME TypeOK, NEW s, NEW l, NEW r, NEW h, NEW p, NEW n, Ready(s, l, r, h, p, n),
         NEW out \in Seq(Nat \X Nat), Outcome(s, r, h, p, out),
         UNCHANGED <<threadVars, jobs, posted, body, server, asked>>,
         aborts' \in Seq(Slots \X Gens), due' \subseteq Slots
  PROVE  Turn(s, l, n)
<1>1. s \in Slots /\ r \in Records /\ h \in Registries /\ p \in [Threads -> Seq(Acks)]
      /\ (~r.sse => r.gen = 0)
  BY DEF Ready
<1>2. /\ Told(s, p) /\ wire' \in [Slots -> Seq(Nat \X Int)]
      /\ \E k \in Records : Left(s, r, h, k)
  BY <1>1, OutcomeFacts
<1> QED
  BY <1>2, TurnFacts

-----------------------------------------------------------------------------
(* The loop's steps. *)

\* A slot as a handler finds it.
LEMMA SlotFacts ==
  ASSUME Base, NEW s \in Slots
  PROVE  /\ TypeOK /\ slots[s] \in Records /\ handler \in Registries /\ slots[s].gen \in AnyGen
         /\ handler.pending[s] \in Seq(Gens \X Nat) /\ Len(handler.pending[s]) \in Nat
         /\ handler.pending[s] \in Seq(Nat \X Nat) /\ slots[s].buf \in Seq(Nat \X Nat)
         /\ slots[s].owes \in Nat /\ slots[s].owed \in Nat
         /\ pair \in [Threads -> Seq(Acks)] /\ parked \in [Slots -> AnyGen]
         /\ slotAckFd[s] \in Threads \cup {None} /\ None \notin Threads
         /\ parked[s] \in AnyGen
         /\ aborts \in Seq(Slots \X Gens) /\ due \subseteq Slots
         /\ wire \in [Slots -> Seq(Nat \X Int)]
         /\ handler.sub[s] = None => handler.pending[s] = <<>>
         /\ slots[s].conn # "offloaded" /\ handler.sub[s] # None =>
              slots[s].sse /\ slots[s].gen = handler.gen[s]
         /\ slots[s].conn \in {"sending", "idle", "ready"} =>
              \A t \in Threads : Active(t) /\ at[t] = s /\ slotAckFd[s] = t =>
                slots[s].sse /\ slots[s].gen = Gen(t)
         /\ slots[s].conn # "unused" /\ ~slots[s].sse => slots[s].gen = 0
         /\ Now(s) = IF slots[s].conn = "offloaded" THEN parked[s] ELSE slots[s].gen
<1>1. /\ slots[s] \in Records /\ handler \in Registries /\ pair \in [Threads -> Seq(Acks)]
      /\ slotAckFd[s] \in Threads \cup {None} /\ parked[s] \in AnyGen
      /\ parked \in [Slots -> AnyGen] /\ aborts \in Seq(Slots \X Gens) /\ due \subseteq Slots
      /\ wire \in [Slots -> Seq(Nat \X Int)] /\ TypeOK
  BY Typed DEF Base
<1>2. /\ handler.pending[s] \in Seq(Gens \X Nat) /\ Len(handler.pending[s]) \in Nat
      /\ slots[s].buf \in Seq(Nat \X Nat) /\ slots[s].owes \in Nat /\ slots[s].owed \in Nat
      /\ slots[s].gen \in AnyGen
  BY <1>1 DEF Registries, Records
<1>3. handler.pending[s] \in Seq(Nat \X Nat)
  <2>1. Gens \X Nat \subseteq Nat \X Nat
    BY DEF Gens
  <2> QED
    BY <1>2, <2>1, Widen
<1>4. /\ handler.sub[s] = None => handler.pending[s] = <<>>
      /\ handler.sub[s] # None => Serving(s, handler.gen[s])
  BY DEF Base, Settled, Registered
<1>5. slots[s].conn # "offloaded" /\ handler.sub[s] # None =>
        slots[s].sse /\ slots[s].gen = handler.gen[s]
  BY <1>4, WaitingOne DEF Base
<1>6. ~Has(ring, s) \/ slots[s].conn = "offloaded"
  BY WaitingOne DEF Base
<1>7. slots[s].conn \in {"sending", "idle", "ready"} =>
        \A t \in Threads : Active(t) /\ at[t] = s /\ slotAckFd[s] = t =>
          slots[s].sse /\ slots[s].gen = Gen(t)
  BY <1>6 DEF Base, Heard, Hears
<1>8. slots[s].conn # "unused" /\ ~slots[s].sse => slots[s].gen = 0
  BY DEF Base, Settled, Shaped
<1>9. None \notin Threads
  BY StreamsAssumption
<1> QED
  BY <1>1, <1>2, <1>3, <1>4, <1>5, <1>7, <1>8, <1>9 DEF Now

\* The first of the slots completed.
LEMMA RingFacts ==
  ASSUME Base, ring # <<>>
  PROVE  /\ Head(ring) \in Slots /\ Has(ring, Head(ring))
         /\ slots[Head(ring)].conn = "offloaded" /\ Tail(ring) \in Seq(Slots)
<1>1. ring \in Seq(Slots)
  BY Typed DEF Base
<1>2. Head(ring) \in Slots /\ Tail(ring) \in Seq(Slots) /\ Head(ring) = ring[1] /\ 1 \in DOMAIN ring
  BY <1>1
<1>3. Has(ring, Head(ring))
  BY <1>2 DEF Has
<1> QED
  BY <1>2, <1>3, WaitingOne DEF Base

\* Nothing acked.
LEMMA GivenNone ==
  ASSUME TypeOK, NEW s, NEW t \in Threads
  PROVE  pair[t] = Given(t, s, 0)
BY DEF Given

LEMMA ParkedFacts ==
  ASSUME TypeOK, NEW s \in Slots, parked' = [parked EXCEPT ![s] = 0] \/ parked' = parked
  PROVE  /\ parked' \in [Slots -> AnyGen] /\ \A z \in Slots : parked'[z] \in {0, parked[z]}
         /\ \A z \in Slots \ {s} : parked'[z] = parked[z]
<1>1. parked \in [Slots -> AnyGen] /\ 0 \in AnyGen
  BY Typed DEF AnyGen
<1> QED
  BY <1>1

\* The three completions are turns of the slot at the head of the ring, ...
LEMMA CompleteStreamTurn ==
  ASSUME Base, CompleteStream
  PROVE  \E s \in Slots, l \in Registries, n \in Nat : Turn(s, l, n)
<1> DEFINE s == Head(ring)
           g == parked[s]
           r == Streaming(slots[s], g)
           out == <<HeadOf(g)>>
           l == Delivered
<1>1. /\ ring # <<>> /\ g # 0 /\ ring' = Tail(ring) /\ parked' = [parked EXCEPT ![s] = 0]
      /\ chunk' = <<>>
      /\ \/ Landed(s, r, l, pair, out) /\ DueIf(s, r)
         \/ Waits(s, r, l, pair, out) /\ UNCHANGED due
         \/ Fails(s, r, l, pair) /\ UNCHANGED due
      /\ UNCHANGED <<threadVars, jobs, slotAckFd, posted, aborts, body, server, asked>>
  BY DEF CompleteStream
<1>2. s \in Slots /\ slots[s].conn = "offloaded" /\ TypeOK
  BY <1>1, RingFacts DEF Base
<1>3. From(l)
  BY <1>1 DEF From
<1>4. l \in Registries /\ Registered(l, s)
  BY <1>2, <1>3, FromFacts DEF Base
<1> HIDE DEF l, s
<1>5. /\ slots[s] \in Records /\ g \in AnyGen /\ pair \in [Threads -> Seq(Acks)] /\ Now(s) = g
      /\ aborts \in Seq(Slots \X Gens) /\ due \subseteq Slots /\ slots[s].owes \in Nat
      /\ slots[s].owed \in Nat
  BY <1>2, SlotFacts
<1>6. /\ r \in Records /\ r.sse /\ r.gen = g /\ r.owes = 0 /\ r.owed = 0
  BY <1>5 DEF Streaming, Records
<1>7. out \in Seq(Nat \X Nat)
  BY <1>5 DEF HeadOf, AnyGen, Gens
<1> HIDE DEF r, out, g
<1>8. ASSUME NEW k \in Gens
      PROVE  Pend(l, s, k) + Owes(r, k) + (IF k = Now(s) THEN 0 ELSE 0)
               <= Pend(l, s, k) + Owes(slots[s], k)
  <2>1. Owes(r, k) = 0 /\ Owes(slots[s], k) \in Nat
    BY <1>5, <1>6 DEF Owes
  <2>2. Pend(l, s, k) \in Nat
    <3>1. l.pending[s] \in Seq(Gens \X Nat)
      BY <1>2, <1>4 DEF Registries
    <3> QED
      BY <3>1 DEF Pend
  <2> QED
    BY <2>1, <2>2
<1>9. \A z \in Slots \ {s} : Same(l, l, z)
  BY DEF Same
<1>10. parked' \in [Slots -> AnyGen] /\ (\A z \in Slots : parked'[z] \in {0, parked[z]})
       /\ \A z \in Slots \ {s} : parked'[z] = parked[z]
  BY <1>1, <1>2, ParkedFacts
<1>11. \A t \in Threads : pair[t] = Given(t, s, 0)
  BY <1>2, GivenNone
<1>12. slots[s].conn = "offloaded" /\ ring # <<>> /\ s = Head(ring) /\ ring' = Tail(ring)
  BY <1>1, <1>2 DEF s
<1>13. l.sub[s] = None => l.pending[s] = <<>>
  BY <1>4 DEF Registered
<1>14. Ready(s, l, r, l, pair, 0)
  BY <1>1, <1>2, <1>3, <1>4, <1>5, <1>6, <1>8, <1>9, <1>10, <1>11, <1>12, <1>13 DEF Ready
<1>15. Outcome(s, r, l, pair, out)
  BY <1>1 DEF Outcome, s, l, r, out, g
<1>16. due' \subseteq Slots
  BY <1>1, <1>2, <1>5 DEF DueIf
<1>17. Turn(s, l, 0)
  BY <1>1, <1>2, <1>5, <1>7, <1>14, <1>15, <1>16, OutcomeTurn
<1> QED
  BY <1>2, <1>4, <1>17

LEMMA CompleteRefusedTurn ==
  ASSUME Base, CompleteRefused
  PROVE  \E s \in Slots, l \in Registries, n \in Nat : Turn(s, l, n)
<1> DEFINE s == Head(ring)
           r == Ordinary(slots[s], 0)
           out == <<HeadOf(0)>>
           l == handler
<1>1. /\ ring # <<>> /\ parked[s] = 0 /\ ring' = Tail(ring)
      /\ parked' = [parked EXCEPT ![s] = 0] /\ Cleared(s)
      /\ \/ Landed(s, r, l, pair, out)
         \/ Waits(s, r, l, pair, out)
         \/ Fails(s, r, l, pair)
      /\ UNCHANGED <<threadVars, jobs, chunk, due, posted, aborts, body, server, asked>>
  BY DEF CompleteRefused
<1>2. s \in Slots /\ slots[s].conn = "offloaded" /\ TypeOK /\ Has(ring, s)
  BY <1>1, RingFacts DEF Base
<1>3. From(l)
  BY <1>1 DEF From
<1> HIDE DEF s
<1>5. /\ slots[s] \in Records /\ l \in Registries /\ pair \in [Threads -> Seq(Acks)]
      /\ Now(s) = 0 /\ slots[s].owes \in Nat /\ slots[s].owed \in Nat
      /\ aborts \in Seq(Slots \X Gens) /\ due \subseteq Slots
      /\ (l.sub[s] = None => l.pending[s] = <<>>) /\ l.pending[s] \in Seq(Gens \X Nat)
      /\ slotAckFd \in [Slots -> Threads \cup {None}] /\ None \notin Threads
  BY <1>1, <1>2, SlotFacts, Typed
<1>6. /\ r \in Records /\ ~r.sse /\ r.gen = 0
  BY <1>5 DEF Ordinary, Records, AnyGen
<1>7. out \in Seq(Nat \X Nat)
  BY DEF HeadOf
<1>8. l.sub[s] = None
  <2>1. l.sub[s] # None => l.gen[s] # 0 /\ Serving(s, l.gen[s])
    BY <1>2 DEF Base, Settled, Registered
  <2>2. \A g : Serving(s, g) => parked[s] = g
    BY <1>2, WaitingOne DEF Base
  <2> QED
    BY <1>1, <2>1, <2>2
<1> HIDE DEF r, out
<1>9. ASSUME NEW k \in Gens
      PROVE  Pend(l, s, k) + Owes(r, k) + (IF k = Now(s) THEN 0 ELSE 0)
               <= Pend(l, s, k) + Owes(slots[s], k)
  <2>1. Owes(r, k) = 0 /\ Owes(slots[s], k) \in Nat
    BY <1>5, <1>6 DEF Owes, Gens
  <2>2. Pend(l, s, k) \in Nat
    BY <1>5 DEF Pend
  <2> QED
    BY <2>1, <2>2
<1>10. \A z \in Slots \ {s} : Same(l, l, z)
  BY DEF Same
<1>11. parked' \in [Slots -> AnyGen] /\ (\A z \in Slots : parked'[z] \in {0, parked[z]})
       /\ \A z \in Slots \ {s} : parked'[z] = parked[z]
  BY <1>1, <1>2, ParkedFacts
<1>12. \A t \in Threads : pair[t] = Given(t, s, 0)
  BY <1>2, GivenNone
<1>13. slots[s].conn = "offloaded" /\ ring # <<>> /\ s = Head(ring) /\ ring' = Tail(ring)
  BY <1>1, <1>2 DEF s
<1>14. slotAckFd' = [slotAckFd EXCEPT ![s] = None] /\ \A t \in Threads : slotAckFd'[s] # t
  BY <1>1, <1>2, <1>5 DEF Cleared
<1>15. Ready(s, l, r, l, pair, 0)
  BY <1>1, <1>2, <1>3, <1>5, <1>6, <1>8, <1>9, <1>10, <1>11, <1>12, <1>13, <1>14 DEF Ready
<1>16. Outcome(s, r, l, pair, out)
  BY <1>1 DEF Outcome, s, r, out
<1>17. due' \subseteq Slots /\ aborts' \in Seq(Slots \X Gens)
  BY <1>1, <1>5
<1>18. UNCHANGED <<threadVars, jobs, posted, body, server, asked>>
  BY <1>1
<1>19. TypeOK
  BY <1>2
<1> HIDE DEF l
<1>20. Turn(s, l, 0)
  BY <1>7, <1>15, <1>16, <1>17, <1>18, <1>19, OutcomeTurn
<1>21. s \in Slots /\ l \in Registries
  BY <1>2, <1>5
<1>22. \E m \in Nat : Turn(s, l, m)
  BY <1>20
<1> QED
  BY <1>21, <1>22

LEMMA CompleteHeadTurn ==
  ASSUME Base, CompleteHead
  PROVE  \E s \in Slots, l \in Registries, n \in Nat : Turn(s, l, n)
<1> DEFINE s == Head(ring)
           r == Ordinary(slots[s], parked[s])
           out == <<HeadOf(0)>>
           l == Delivered
           h == Disconnected(l, s)
<1>1. /\ ring # <<>> /\ parked[s] # 0 /\ ring' = Tail(ring)
      /\ parked' = [parked EXCEPT ![s] = 0] /\ chunk' = <<>> /\ Cleared(s)
      /\ Tell(s, l, pair) /\ handler' = h
      /\ \/ slots' = [slots EXCEPT ![s] = [r EXCEPT !.conn = "ready"]] /\ Reaches(s, out)
         \/ /\ slots' = [slots EXCEPT ![s] = [r EXCEPT !.conn = "sending", !.buf = out]]
            /\ UNCHANGED wire
         \/ slots' = [slots EXCEPT ![s] = Unused] /\ UNCHANGED wire
      /\ UNCHANGED <<threadVars, jobs, posted, aborts, due, body, server, asked>>
  BY DEF CompleteHead
<1>2. s \in Slots /\ slots[s].conn = "offloaded" /\ TypeOK
  BY <1>1, RingFacts DEF Base
<1>3. From(l)
  BY <1>1 DEF From
<1>4. l \in Registries
  BY <1>3, FromFacts DEF Base
<1> HIDE DEF l, s
<1>5. /\ slots[s] \in Records /\ pair \in [Threads -> Seq(Acks)] /\ Now(s) = parked[s]
      /\ aborts \in Seq(Slots \X Gens) /\ due \subseteq Slots /\ slots[s].owes \in Nat
      /\ slots[s].owed \in Nat /\ wire \in [Slots -> Seq(Nat \X Int)]
      /\ slotAckFd \in [Slots -> Threads \cup {None}] /\ None \notin Threads
  BY <1>2, SlotFacts, Typed
<1>6. /\ h \in Registries /\ h.sub[s] = None /\ h.pending[s] = <<>> /\ h.gen[s] = 0
      /\ \A z \in Slots \ {s} : Same(h, l, z)
  BY <1>2, <1>4, RegistryFacts
<1>7. /\ r \in Records /\ ~r.sse /\ r.gen = 0 /\ r.owed = 0 /\ r.owes = 0
  BY <1>5 DEF Ordinary, Records, AnyGen
<1>8. out \in Seq(Nat \X Nat) /\ out \in Seq(Nat \X Int)
  BY DEF HeadOf
<1> HIDE DEF r, out, h
<1>9. ASSUME NEW k \in Gens
      PROVE  Pend(h, s, k) + Owes(r, k) + (IF k = Now(s) THEN 0 ELSE 0)
               <= Pend(l, s, k) + Owes(slots[s], k)
  <2>1. Owes(r, k) = 0 /\ Owes(slots[s], k) \in Nat
    BY <1>5, <1>7 DEF Owes
  <2>2. Pend(l, s, k) \in Nat
    <3>1. l.pending[s] \in Seq(Gens \X Nat)
      BY <1>2, <1>4 DEF Registries
    <3> QED
      BY <3>1 DEF Pend
  <2>3. Pend(h, s, k) = 0
    BY <1>6 DEF Pend, Gens
  <2> QED
    BY <2>1, <2>2, <2>3
<1>10. Told(s, pair)
  BY <1>1, <1>2, <1>4, <1>5, TellFacts
<1>11. parked' \in [Slots -> AnyGen] /\ (\A z \in Slots : parked'[z] \in {0, parked[z]})
       /\ \A z \in Slots \ {s} : parked'[z] = parked[z]
  BY <1>1, <1>2, ParkedFacts
<1>12. \A t \in Threads : pair[t] = Given(t, s, 0)
  BY <1>2, GivenNone
<1>13. slots[s].conn = "offloaded" /\ ring # <<>> /\ s = Head(ring) /\ ring' = Tail(ring)
  BY <1>1, <1>2 DEF s
<1>14. slotAckFd' = [slotAckFd EXCEPT ![s] = None] /\ \A t \in Threads : slotAckFd'[s] # t
  BY <1>1, <1>2, <1>5 DEF Cleared
<1>15. Ready(s, l, r, h, pair, 0)
  BY <1>1, <1>2, <1>3, <1>4, <1>5, <1>6, <1>7, <1>9, <1>11, <1>12, <1>13, <1>14 DEF Ready
<1>16. \E k \in Records : Left(s, r, h, k)
  <2>1. ASSUME NEW k \in Records, slots' = [slots EXCEPT ![s] = k], k.conn # "offloaded",
               ~k.sse, k.gen = 0, k.owed = 0, k.owes = 0
        PROVE  Left(s, r, h, k)
    <3>1. Shaped(k)
      BY <2>1 DEF Shaped
    <3>2. \A z \in Slots \ {s} : Same(handler', h, z)
      BY <1>1 DEF Same
    <3>3. k.sse = r.sse
      BY <1>7, <2>1 DEF Records
    <3>4. handler' \in Registries /\ handler' = h /\ k.owed = r.owed /\ k.gen = r.gen
      BY <1>1, <1>6, <1>7, <2>1
    <3> QED
      BY <1>6, <1>7, <2>1, <3>1, <3>2, <3>3, <3>4 DEF Left
  <2>2. CASE slots' = [slots EXCEPT ![s] = [r EXCEPT !.conn = "ready"]]
    <3> DEFINE k == [r EXCEPT !.conn = "ready"]
    <3>1. k \in Records /\ k.conn = "ready" /\ ~k.sse /\ k.gen = 0 /\ k.owed = 0 /\ k.owes = 0
      BY <1>7 DEF Records
    <3>2. slots' = [slots EXCEPT ![s] = k]
      BY <2>2
    <3> HIDE DEF k
    <3> QED
      BY <2>1, <3>1, <3>2
  <2>3. CASE slots' = [slots EXCEPT ![s] = [r EXCEPT !.conn = "sending", !.buf = out]]
    <3> DEFINE k == [r EXCEPT !.conn = "sending", !.buf = out]
    <3>1. k \in Records /\ k.conn = "sending" /\ ~k.sse /\ k.gen = 0 /\ k.owed = 0 /\ k.owes = 0
      BY <1>7, <1>8 DEF Records
    <3>2. slots' = [slots EXCEPT ![s] = k]
      BY <2>3
    <3> HIDE DEF k
    <3> QED
      BY <2>1, <3>1, <3>2
  <2>4. CASE slots' = [slots EXCEPT ![s] = Unused]
    <3>1. <<>> \in Seq(Nat \X Nat)
      OBVIOUS
    <3>2. Unused \in Records /\ Unused.conn = "unused" /\ ~Unused.sse /\ Unused.gen = 0
          /\ Unused.owed = 0 /\ Unused.owes = 0
      BY <3>1 DEF Unused, Records, Kinds, AnyGen
    <3> QED
      BY <2>1, <2>4, <3>2
  <2> QED
    BY <1>1, <2>2, <2>3, <2>4
<1>17. wire' \in [Slots -> Seq(Nat \X Int)]
  <2>1. wire[s] \o out \in Seq(Nat \X Int)
    BY <1>2, <1>5, <1>8
  <2> QED
    BY <1>1, <1>5, <2>1 DEF Reaches
<1>18. Turn(s, l, 0)
  BY <1>1, <1>2, <1>5, <1>10, <1>15, <1>16, <1>17, TurnFacts
<1> QED
  BY <1>2, <1>4, <1>18

\* What is acked of what is to be, and what is then owed.
LEMMA AckedFacts ==
  ASSUME Base, NEW s \in Slots, NEW n \in Nat, slotAckFd[s] = None => n = 0
  PROVE  \E m \in 0 .. n :
           /\ Acked(s, n) \in [Threads -> Seq(Acks)]
           /\ \A t \in Threads : Acked(s, n)[t] = Given(t, s, m)
           /\ \A r \in Records :
                /\ Owing(s, r, n) \in Records /\ Owing(s, r, n).owed = r.owed + (n - m)
                /\ Owing(s, r, n).owes = r.owes /\ Owing(s, r, n).gen = r.gen
                /\ Owing(s, r, n).sse = r.sse /\ Owing(s, r, n).conn = r.conn
<1>1. /\ pair \in [Threads -> Seq(Acks)] /\ slotAckFd[s] \in Threads \cup {None}
      /\ None \notin Threads
  BY SlotFacts
<1>2. \A r \in Records : r.owed + n \in Nat /\ r.owed \in Nat
  BY DEF Records
<1>3. CASE Room(s)
  <2>1. \A r \in Records : Owing(s, r, n) = r
    BY <1>3 DEF Owing
  <2>2. n - n = 0 /\ n \in 0 .. n
    OBVIOUS
  <2>3. CASE n = 0 \/ slotAckFd[s] = None
    <3>1. Acked(s, n) = pair /\ n = 0
      BY <2>3 DEF Acked
    <3>2. \A t \in Threads : pair[t] = Given(t, s, n)
      BY <3>1 DEF Given
    <3> QED
      BY <1>1, <1>2, <2>1, <2>2, <3>1, <3>2
  <2>4. CASE ~(n = 0 \/ slotAckFd[s] = None)
    <3>1. Acked(s, n) = [pair EXCEPT ![slotAckFd[s]] = Append(@, <<s, n>>)]
      BY <1>3, <2>4 DEF Acked
    <3>2. <<s, n>> \in Acks /\ slotAckFd[s] \in Threads /\ n > 0
      BY <1>1, <2>4 DEF Acks
    <3>3. Append(pair[slotAckFd[s]], <<s, n>>) \in Seq(Acks)
      BY <1>1, <3>2
    <3>4. Acked(s, n) \in [Threads -> Seq(Acks)]
      BY <1>1, <3>1, <3>3
    <3>5. \A t \in Threads : Acked(s, n)[t] = Given(t, s, n)
      BY <1>1, <3>1, <3>2 DEF Given
    <3> QED
      BY <1>2, <2>1, <2>2, <3>4, <3>5
  <2> QED
    BY <2>3, <2>4
<1>4. CASE ~Room(s)
  <2>1. Acked(s, n) = pair
    BY <1>4 DEF Acked
  <2>2. \A t \in Threads : pair[t] = Given(t, s, 0)
    BY DEF Given
  <2>3. ASSUME NEW r \in Records
        PROVE  /\ Owing(s, r, n) \in Records /\ Owing(s, r, n).owed = r.owed + (n - 0)
               /\ Owing(s, r, n).owes = r.owes /\ Owing(s, r, n).gen = r.gen
               /\ Owing(s, r, n).sse = r.sse /\ Owing(s, r, n).conn = r.conn
    <3>1. Owing(s, r, n) = [r EXCEPT !.owed = @ + n]
      BY <1>4 DEF Owing
    <3>2. r.owed + n \in Nat /\ n - 0 = n
      BY <1>2
    <3> QED
      BY <3>1, <3>2 DEF Records
  <2>4. 0 \in 0 .. n
    OBVIOUS
  <2> QED
    BY <1>1, <2>1, <2>2, <2>3, <2>4
<1> QED
  BY <1>3, <1>4

\* A handler of a slot that streams, or has streamed: what is the same of them all.
Handling(s) ==
  /\ slots[s].conn \in {"sending", "idle", "ready"} /\ chunk' = chunk
  /\ UNCHANGED <<threadVars, jobs, ring, parked, posted, body, server, asked>>
  /\ aborts' \in Seq(Slots \X Gens) /\ due' \subseteq Slots
  /\ slotAckFd' = slotAckFd \/ slotAckFd' = [slotAckFd EXCEPT ![s] = None]

\* It is ready when its stream goes on, ...
LEMMA GoingReady ==
  ASSUME Base, NEW s \in Slots, Handling(s), NEW r \in Records, NEW h \in Registries,
         NEW p \in [Threads -> Seq(Acks)], NEW n \in Nat,
         \A t \in Threads : p[t] = Given(t, s, n),
         \A z \in Slots \ {s} : Same(h, handler, z),
         h.gen[s] = handler.gen[s], h.sub[s] \in {handler.sub[s], None},
         h.sub[s] = None => h.pending[s] = <<>>,
         r.sse = slots[s].sse, r.gen = slots[s].gen,
         Len(h.pending[s]) + r.owes + r.owed + n
           <= Len(handler.pending[s]) + slots[s].owes + slots[s].owed,
         h.pending[s] \in {handler.pending[s], <<>>},
         n > 0 => slots[s].conn # "ready"
  PROVE  Ready(s, handler, r, h, p, n)
<1>1. /\ handler \in Registries /\ slots[s].gen \in AnyGen /\ Now(s) = slots[s].gen
      /\ slots[s].conn # "offloaded" /\ slots[s].conn # "unused"
      /\ slotAckFd[s] \in Threads \cup {None} /\ None \notin Threads
      /\ (~slots[s].sse => slots[s].gen = 0)
      /\ Len(handler.pending[s]) \in Nat /\ slots[s].owes \in Nat /\ slots[s].owed \in Nat
  BY SlotFacts DEF Handling
<1>2. handler.sub[s] = None => handler.pending[s] = <<>>
  BY SlotFacts
<1>3. handler.sub[s] # None => slots[s].sse /\ slots[s].gen = handler.gen[s]
  BY <1>1, SlotFacts
<1>4. ~r.sse => r.gen = 0 /\ h.sub[s] = None
  BY <1>1, <1>3
<1>5. ASSUME NEW t \in Threads, Active(t), at[t] = s, slotAckFd'[s] = t
      PROVE  r.sse /\ r.gen = Now(s)
  <2>1. slotAckFd[s] = t
    <3>1. slotAckFd \in [Slots -> Threads \cup {None}]
      BY Typed DEF Base
    <3> QED
      BY <1>1, <1>5, <3>1 DEF Handling
  <2> QED
    BY <1>1, <1>5, <2>1, SlotFacts DEF Handling
<1>6. ASSUME NEW g \in Gens
      PROVE  Pend(h, s, g) + Owes(r, g) + (IF g = Now(s) THEN n ELSE 0)
               <= Pend(handler, s, g) + Owes(slots[s], g)
  <2> DEFINE a == Len(h.pending[s])
             b == Len(handler.pending[s])
             o == r.owes + r.owed
             q == slots[s].owes + slots[s].owed
  <2>1. /\ a \in Nat /\ b \in Nat /\ o \in Nat /\ q \in Nat /\ a + o + n <= b + q /\ a <= b
        /\ h.pending[s] \in Seq(Gens \X Nat)
    <3> DEFINE x == r.owes
               y == r.owed
               u == slots[s].owes
               v == slots[s].owed
    <3>1. x \in Nat /\ y \in Nat /\ h.pending[s] \in Seq(Gens \X Nat)
      BY DEF Records, Registries
    <3>2. a \in Nat /\ b \in Nat /\ u \in Nat /\ v \in Nat
      BY <1>1, <3>1
    <3>3. a + x + y + n <= b + u + v
      OBVIOUS
    <3>4. a = 0 \/ a = b
      OBVIOUS
    <3> HIDE DEF a, b, x, y, u, v
    <3>5. a + (x + y) + n <= b + (u + v) /\ a <= b /\ x + y \in Nat /\ u + v \in Nat
      BY <3>1, <3>2, <3>3, <3>4
    <3> QED
      BY <3>1, <3>2, <3>5 DEF x, y, u, v
  <2>2. /\ Pend(h, s, g) = IF handler.gen[s] = g THEN a ELSE 0
        /\ Pend(handler, s, g) = IF handler.gen[s] = g THEN b ELSE 0
        /\ Owes(r, g) = IF slots[s].gen = g THEN o ELSE 0
        /\ Owes(slots[s], g) = IF slots[s].gen = g THEN q ELSE 0
    BY DEF Pend, Owes
  <2>3. b # 0 => slots[s].gen = handler.gen[s]
    BY <1>2, <1>3
  <2> HIDE DEF a, b, o, q
  <2>4. CASE slots[s].gen = g
    <3>1. handler.gen[s] = g \/ (a = 0 /\ b = 0)
      BY <2>1, <2>3, <2>4
    <3> QED
      BY <1>1, <2>1, <2>2, <2>4, <3>1
  <2>5. CASE slots[s].gen # g
    BY <1>1, <2>1, <2>2, <2>5
  <2> QED
    BY <2>4, <2>5
<1>7. parked' \in [Slots -> AnyGen] /\ (\A z \in Slots : parked'[z] \in {0, parked[z]})
      /\ \A z \in Slots \ {s} : parked'[z] = parked[z]
  BY ParkedFacts DEF Handling, Base
<1>8. From(handler)
  BY DEF From, Handling
<1>9. n > 0 => slots[s].conn \in {"sending", "idle"}
  BY DEF Handling
<1> QED
  BY <1>1, <1>4, <1>5, <1>6, <1>7, <1>8, <1>9 DEF Ready, Handling

\* ... or is over.
LEMMA OverReady ==
  ASSUME Base, NEW s \in Slots, Handling(s), NEW r \in Records, NEW h \in Registries,
         NEW p \in [Threads -> Seq(Acks)], NEW n \in Nat,
         \A t \in Threads : p[t] = Given(t, s, n),
         \A z \in Slots \ {s} : Same(h, handler, z),
         h.gen[s] = handler.gen[s] \/ h.gen[s] = 0, h.sub[s] = None, h.pending[s] = <<>>,
         r.gen = 0, n <= Len(handler.pending[s]),
         n > 0 => slots[s].conn # "ready",
         slotAckFd' = [slotAckFd EXCEPT ![s] = None]
  PROVE  Ready(s, handler, r, h, p, n)
<1>1. /\ handler \in Registries /\ slots[s].gen \in AnyGen /\ Now(s) = slots[s].gen
      /\ slots[s].conn # "offloaded" /\ slots[s].conn # "unused"
      /\ slotAckFd \in [Slots -> Threads \cup {None}] /\ None \notin Threads
      /\ Len(handler.pending[s]) \in Nat /\ slots[s].owes \in Nat /\ slots[s].owed \in Nat
  BY SlotFacts, Typed DEF Handling
<1>2. handler.sub[s] = None => handler.pending[s] = <<>>
  BY SlotFacts
<1>3. handler.sub[s] # None => slots[s].sse /\ slots[s].gen = handler.gen[s]
  BY <1>1, SlotFacts
<1>4. \A t \in Threads : slotAckFd'[s] # t
  BY <1>1
<1>5. ASSUME NEW g \in Gens
      PROVE  Pend(h, s, g) + Owes(r, g) + (IF g = Now(s) THEN n ELSE 0)
               <= Pend(handler, s, g) + Owes(slots[s], g)
  <2> DEFINE b == Len(handler.pending[s])
             q == slots[s].owes + slots[s].owed
  <2>1. b \in Nat /\ q \in Nat /\ g # 0 /\ n <= b /\ Len(h.pending[s]) = 0
    BY <1>1 DEF Gens
  <2>2. /\ Pend(h, s, g) = 0 /\ Owes(r, g) = 0
        /\ Pend(handler, s, g) = IF handler.gen[s] = g THEN b ELSE 0
        /\ Owes(slots[s], g) = IF slots[s].gen = g THEN q ELSE 0
    BY <2>1 DEF Pend, Owes
  <2>3. b # 0 => slots[s].gen = handler.gen[s]
    BY <1>2, <1>3
  <2> HIDE DEF b, q
  <2> QED
    BY <1>1, <2>1, <2>2, <2>3
<1>6. parked' \in [Slots -> AnyGen] /\ (\A z \in Slots : parked'[z] \in {0, parked[z]})
      /\ \A z \in Slots \ {s} : parked'[z] = parked[z]
  BY ParkedFacts DEF Handling, Base
<1>7. From(handler)
  BY DEF From, Handling
<1>8. n > 0 => slots[s].conn \in {"sending", "idle"}
  BY DEF Handling
<1> QED
  BY <1>1, <1>4, <1>5, <1>6, <1>7, <1>8 DEF Ready, Handling

\* An outcome of a handler that is ready is a turn of it.
LEMMA HandlingTurn ==
  ASSUME Base, NEW s \in Slots, Handling(s), NEW r, NEW h, NEW p, NEW n,
         Ready(s, handler, r, h, p, n), NEW out \in Seq(Nat \X Nat), Outcome(s, r, h, p, out)
  PROVE  \E z \in Slots, l \in Registries, m \in Nat : Turn(z, l, m)
<1>1. TypeOK /\ handler \in Registries
  BY SlotFacts
<1>2. /\ UNCHANGED <<threadVars, jobs, posted, body, server, asked>>
      /\ aborts' \in Seq(Slots \X Gens) /\ due' \subseteq Slots
  BY DEF Handling
<1> DEFINE l == handler
<1>3. Ready(s, l, r, h, p, n) /\ l \in Registries
  BY <1>1
<1>4. n \in Nat
  BY DEF Ready
<1> HIDE DEF l
<1>5. Turn(s, l, n)
  BY <1>1, <1>2, <1>3, OutcomeTurn
<1> QED
  BY <1>3, <1>4, <1>5

\* A slot whose client is gone.
LEMMA FailsTurn ==
  ASSUME Base, NEW s \in Slots, Handling(s), slotAckFd' = slotAckFd,
         Fails(s, slots[s], handler, pair)
  PROVE  \E z \in Slots, l \in Registries, m \in Nat : Turn(z, l, m)
<1> DEFINE r == slots[s]
           h == handler
           p == pair
           out == <<>>
           n == 0
<1>1. /\ r \in Records /\ h \in Registries /\ p \in [Threads -> Seq(Acks)]
      /\ Len(h.pending[s]) \in Nat /\ r.owes \in Nat /\ r.owed \in Nat
      /\ (h.sub[s] = None => h.pending[s] = <<>>)
  BY SlotFacts
<1>2. \A t \in Threads : p[t] = Given(t, s, n)
  BY GivenNone DEF Base
<1>3. \A z \in Slots \ {s} : Same(h, handler, z)
  BY DEF Same
<1>4. Len(h.pending[s]) + r.owes + r.owed + n
        <= Len(handler.pending[s]) + slots[s].owes + slots[s].owed
  <2> DEFINE a == Len(h.pending[s])
             b == r.owes
             c == r.owed
  <2>1. a \in Nat /\ b \in Nat /\ c \in Nat
    BY <1>1
  <2> HIDE DEF a, b, c
  <2>2. a + b + c + n <= a + b + c
    BY <2>1
  <2> QED
    BY <2>2 DEF a, b, c
<1>5. /\ h.gen[s] = handler.gen[s] /\ h.sub[s] \in {handler.sub[s], None}
      /\ r.sse = slots[s].sse /\ r.gen = slots[s].gen
      /\ h.pending[s] \in {handler.pending[s], <<>>}
      /\ Outcome(s, r, h, p, out) /\ out \in Seq(Nat \X Nat)
  BY DEF Outcome
<1>6. n \in Nat /\ (n > 0 => slots[s].conn # "ready")
  OBVIOUS
<1> HIDE DEF r, h, p, out, n
<1>7. Ready(s, handler, r, h, p, n)
  BY <1>1, <1>2, <1>3, <1>4, <1>5, <1>6, GoingReady
<1> QED
  BY <1>5, <1>7, HandlingTurn

\* ... the others of the slot they are about.
LEMMA ClientLeavesTurn ==
  ASSUME Base, NEW s \in Slots, ClientLeaves(s)
  PROVE  \E z \in Slots, l \in Registries, m \in Nat : Turn(z, l, m)
<1>1. /\ slots[s].conn \in {"idle", "ready"} /\ Fails(s, slots[s], handler, pair)
      /\ UNCHANGED <<due, threadVars, jobs, ring, parked, slotAckFd, chunk, posted,
                     aborts, body, server, asked>>
  BY DEF ClientLeaves
<1>2. aborts' \in Seq(Slots \X Gens) /\ due' \subseteq Slots
  BY <1>1, SlotFacts
<1>3. Handling(s)
  BY <1>1, <1>2 DEF Handling
<1> QED
  BY <1>1, <1>3, FailsTurn

LEMMA WriteReadyTurn ==
  ASSUME Base, NEW s \in Slots, WriteReady(s)
  PROVE  \E z \in Slots, l \in Registries, m \in Nat : Turn(z, l, m)
<1> DEFINE r == slots[s]
           n == IF slotAckFd[s] = None THEN 0 ELSE r.owes
           w == Owing(s, r, n)
           k == [w EXCEPT !.owes = 0]
           h == handler
           p == Acked(s, n)
           out == r.buf
<1>1. /\ r.conn = "sending"
      /\ \/ Landed(s, k, h, p, out) /\ DueIf(s, r)
         \/ Fails(s, r, h, pair) /\ UNCHANGED due
      /\ UNCHANGED <<threadVars, jobs, ring, parked, slotAckFd, chunk, posted, aborts, body,
                     server, asked>>
  BY DEF WriteReady
<1>2. /\ r \in Records /\ h \in Registries /\ r.owes \in Nat /\ r.owed \in Nat
      /\ Len(h.pending[s]) \in Nat /\ (h.sub[s] = None => h.pending[s] = <<>>)
      /\ aborts \in Seq(Slots \X Gens) /\ due \subseteq Slots /\ out \in Seq(Nat \X Nat)
  BY SlotFacts
<1>3. Handling(s)
  <2>1. due' \subseteq Slots
    BY <1>1, <1>2 DEF DueIf
  <2> QED
    BY <1>1, <1>2, <2>1 DEF Handling
<1>4. CASE Fails(s, r, h, pair)
  BY <1>1, <1>3, <1>4, FailsTurn
<1>5. CASE Landed(s, k, h, p, out)
  <2>1. n \in Nat /\ n <= r.owes /\ (slotAckFd[s] = None => n = 0)
    BY <1>2
  <2> HIDE DEF n
  <2>2. PICK m \in 0 .. n :
          /\ Acked(s, n) \in [Threads -> Seq(Acks)]
          /\ \A t \in Threads : Acked(s, n)[t] = Given(t, s, m)
          /\ \A x \in Records :
               /\ Owing(s, x, n) \in Records /\ Owing(s, x, n).owed = x.owed + (n - m)
               /\ Owing(s, x, n).owes = x.owes /\ Owing(s, x, n).gen = x.gen
               /\ Owing(s, x, n).sse = x.sse /\ Owing(s, x, n).conn = x.conn
    BY <2>1, AckedFacts
  <2>3. /\ w \in Records /\ w.owed = r.owed + (n - m) /\ w.gen = r.gen /\ w.sse = r.sse
        /\ p \in [Threads -> Seq(Acks)] /\ \A t \in Threads : p[t] = Given(t, s, m)
    BY <1>2, <2>2
  <2> HIDE DEF w, p
  <2>4. k \in Records /\ k.owed = w.owed /\ k.gen = w.gen /\ k.sse = w.sse /\ k.owes = 0
    BY <2>3 DEF Records
  <2> HIDE DEF k
  <2>5. m \in Nat /\ m <= n
    BY <2>1, <2>2
  <2>6. Len(h.pending[s]) + k.owes + k.owed + m
          <= Len(handler.pending[s]) + slots[s].owes + slots[s].owed
    <3> DEFINE a == Len(h.pending[s])
               b == r.owes
               c == r.owed
               e == k.owed
               f == k.owes
    <3>1. a \in Nat /\ b \in Nat /\ c \in Nat /\ e = c + (n - m) /\ f = 0 /\ n <= b
      BY <1>2, <2>1, <2>3, <2>4
    <3> HIDE DEF a, b, c, e, f
    <3>2. a + f + e + m <= a + b + c
      BY <2>1, <2>5, <3>1
    <3> QED
      BY <3>2 DEF a, b, c, e, f
  <2>7. \A z \in Slots \ {s} : Same(h, handler, z)
    BY DEF Same
  <2>8. /\ h.gen[s] = handler.gen[s] /\ h.sub[s] \in {handler.sub[s], None}
        /\ k.sse = slots[s].sse /\ k.gen = slots[s].gen
        /\ h.pending[s] \in {handler.pending[s], <<>>}
        /\ slots[s].conn # "ready"
    BY <1>1, <2>3, <2>4
  <2>9. Outcome(s, k, h, p, out)
    BY <1>5 DEF Outcome
  <2> HIDE DEF h, r, out
  <2>10. Ready(s, handler, k, h, p, m)
    BY <1>2, <1>3, <2>3, <2>4, <2>5, <2>6, <2>7, <2>8, GoingReady
  <2> QED
    BY <1>2, <1>3, <2>9, <2>10, HandlingTurn
<1> QED
  BY <1>1, <1>4, <1>5

\* The registry once a slot is named, visited and drained.
LEMMA DrainedFacts ==
  ASSUME Base, NEW s \in Slots, NEW h, h = Drained(Named(handler, s), s)
  PROVE  /\ h \in Registries /\ \A z \in Slots \ {s} : Same(h, handler, z)
         /\ h.gen[s] = handler.gen[s] /\ h.pending[s] = <<>> /\ Len(h.pending[s]) = 0
         /\ h.sub[s] \in {handler.sub[s], None}
<1> DEFINE m == Named(handler, s)
<1>1. handler \in Registries
  BY SlotFacts
<1>2. m \in Registries /\ \A z \in Slots : Same(m, handler, z)
  BY <1>1, RegistryFacts
<1> HIDE DEF m
<1>3. h = Drained(m, s)
  BY DEF m
<1>4. /\ Drained(m, s) \in Registries /\ \A z \in Slots \ {s} : Same(Drained(m, s), m, z)
      /\ Drained(m, s).gen[s] = m.gen[s] /\ Drained(m, s).pending[s] = <<>>
      /\ Drained(m, s).sub[s] = IF m.done[s] THEN None ELSE m.sub[s]
  BY <1>2, RegistryFacts
<1>5. m.gen[s] = handler.gen[s] /\ m.sub[s] = handler.sub[s]
  BY <1>2 DEF Same
<1>6. \A z \in Slots \ {s} : Same(h, handler, z)
  BY <1>2, <1>3, <1>4 DEF Same
<1>7. h.pending[s] = <<>> /\ Len(h.pending[s]) = 0
  BY <1>3, <1>4
<1> QED
  BY <1>3, <1>4, <1>5, <1>6, <1>7

LEMMA DrainBytesTurn ==
  ASSUME Base, NEW s \in Slots, DrainBytes(s)
  PROVE  \E z \in Slots, l \in Registries, m \in Nat : Turn(z, l, m)
<1> DEFINE r == slots[s]
           h == Drained(Named(handler, s), s)
           out == handler.pending[s]
           n == IF slotAckFd[s] = None THEN 0 ELSE Len(out)
           w == Owing(s, r, n)
           k == [r EXCEPT !.owes = n]
           p == Acked(s, n)
<1>1. /\ r.sse /\ r.conn = "idle" /\ due' = due \ {s}
      /\ \/ Reaches(s, out) /\ Stays(s, w, h, p)
         \/ Waits(s, k, h, pair, out)
         \/ Fails(s, r, h, pair)
         \/ Stays(s, r, h, pair) /\ UNCHANGED wire
      /\ UNCHANGED <<threadVars, jobs, ring, parked, slotAckFd, chunk, posted, aborts, body,
                     server, asked>>
  BY DEF DrainBytes, Visits, Drainable
<1>2. /\ r \in Records /\ r.owes \in Nat /\ r.owed \in Nat /\ pair \in [Threads -> Seq(Acks)]
      /\ Len(out) \in Nat /\ aborts \in Seq(Slots \X Gens) /\ due \subseteq Slots
      /\ out \in Seq(Nat \X Nat) /\ wire \in [Slots -> Seq(Nat \X Int)]
  BY SlotFacts
<1>3. Handling(s)
  BY <1>1, <1>2 DEF Handling
<1>4. /\ h \in Registries /\ \A z \in Slots \ {s} : Same(h, handler, z)
      /\ h.gen[s] = handler.gen[s] /\ h.pending[s] = <<>> /\ Len(h.pending[s]) = 0
      /\ h.sub[s] \in {handler.sub[s], None}
  BY DrainedFacts
<1>5. n \in Nat /\ n <= Len(out) /\ (slotAckFd[s] = None => n = 0)
  BY <1>2
<1>6. slots[s].conn # "ready" /\ h.pending[s] \in {handler.pending[s], <<>>}
      /\ (h.sub[s] = None => h.pending[s] = <<>>)
  BY <1>1, <1>4
<1> HIDE DEF n, h
<1>7. ASSUME NEW x \in Records, NEW y \in [Threads -> Seq(Acks)], NEW m \in Nat,
             \A t \in Threads : y[t] = Given(t, s, m),
             x.sse = r.sse, x.gen = r.gen, Outcome(s, x, h, y, out),
             x.owes + x.owed + m <= Len(out) + r.owes + r.owed
      PROVE  \E z \in Slots, l \in Registries, i \in Nat : Turn(z, l, i)
  <2>1. Len(h.pending[s]) + x.owes + x.owed + m
          <= Len(handler.pending[s]) + slots[s].owes + slots[s].owed
    <3>1. x.owes \in Nat /\ x.owed \in Nat
      BY DEF Records
    <3> DEFINE a == x.owes
               b == x.owed
               c == Len(h.pending[s])
               u == Len(out)
               v == r.owes
               w0 == r.owed
               k0 == Len(handler.pending[s])
    <3>2. a \in Nat /\ b \in Nat
      BY <3>1
    <3>3. c = 0
      BY <1>4
    <3>4. u \in Nat /\ v \in Nat /\ w0 \in Nat
      BY <1>2
    <3>5. a + b + m <= u + v + w0
      BY <1>7
    <3>6. u = k0
      OBVIOUS
    <3> HIDE DEF a, b, c, u, v, w0, k0
    <3>7. c + a + b + m <= k0 + v + w0
      BY <3>2, <3>3, <3>4, <3>5, <3>6
    <3> QED
      BY <3>7 DEF a, b, c, v, w0, k0
  <2>2. x.sse = slots[s].sse /\ x.gen = slots[s].gen
    BY <1>7
  <2>3. Ready(s, handler, x, h, y, m)
    BY <1>3, <1>4, <1>6, <1>7, <2>1, <2>2, GoingReady
  <2> QED
    BY <1>2, <1>3, <1>7, <2>3, HandlingTurn
<1>8. \A t \in Threads : pair[t] = Given(t, s, 0)
  BY GivenNone DEF Base
<1>9. CASE Reaches(s, out) /\ Stays(s, w, h, p)
  <2>1. PICK m \in 0 .. n :
          /\ Acked(s, n) \in [Threads -> Seq(Acks)]
          /\ \A t \in Threads : Acked(s, n)[t] = Given(t, s, m)
          /\ \A x \in Records :
               /\ Owing(s, x, n) \in Records /\ Owing(s, x, n).owed = x.owed + (n - m)
               /\ Owing(s, x, n).owes = x.owes /\ Owing(s, x, n).gen = x.gen
               /\ Owing(s, x, n).sse = x.sse /\ Owing(s, x, n).conn = x.conn
    BY <1>5, AckedFacts
  <2>2. /\ w \in Records /\ w.owed = r.owed + (n - m) /\ w.owes = r.owes /\ w.gen = r.gen
        /\ w.sse = r.sse /\ w.conn = r.conn
        /\ p \in [Threads -> Seq(Acks)] /\ \A t \in Threads : p[t] = Given(t, s, m)
    BY <1>2, <2>1
  <2>3. wire' \in [Slots -> Seq(Nat \X Int)]
    <3>1. out \in Seq(Nat \X Int)
      BY <1>2, Nat \X Nat \subseteq Nat \X Int, Widen
    <3>2. wire[s] \o out \in Seq(Nat \X Int)
      BY <1>2, <3>1
    <3> QED
      BY <1>2, <1>9, <3>2 DEF Reaches
  <2> HIDE DEF w, p
  <2>4. Outcome(s, w, h, p, out)
    BY <1>1, <1>9, <2>2, <2>3 DEF Outcome
  <2>5. m \in Nat /\ m <= n
    BY <1>5, <2>1
  <2>6. w.owes + w.owed + m <= Len(out) + r.owes + r.owed
    <3> DEFINE a == w.owes
               b == w.owed
               c == r.owed
               d == Len(out)
    <3>1. a \in Nat /\ c \in Nat /\ b = c + (n - m) /\ r.owes = a /\ d \in Nat /\ n <= d
      BY <1>2, <1>5, <2>2
    <3> HIDE DEF a, b, c, d
    <3>2. a + b + m <= d + a + c
      BY <1>5, <2>5, <3>1
    <3> QED
      BY <3>1, <3>2 DEF a, b, c, d
  <2> QED
    BY <1>7, <2>2, <2>4, <2>5, <2>6
<1>10. CASE Waits(s, k, h, pair, out)
  <2>1. k \in Records /\ k.owes = n /\ k.owed = r.owed /\ k.sse = r.sse /\ k.gen = r.gen
    BY <1>2, <1>5 DEF Records
  <2> HIDE DEF k
  <2> DEFINE m == 0
  <2>2. k.owes + k.owed + m <= Len(out) + r.owes + r.owed
    <3> DEFINE a == r.owes
               b == r.owed
               c == Len(out)
    <3>1. a \in Nat /\ b \in Nat /\ c \in Nat /\ n <= c /\ k.owes = n /\ k.owed = b
      BY <1>2, <1>5, <2>1
    <3> HIDE DEF a, b, c
    <3>2. n + b + m <= c + a + b
      BY <1>5, <3>1
    <3> QED
      BY <3>1, <3>2 DEF a, b, c
  <2>3. Outcome(s, k, h, pair, out)
    BY <1>10 DEF Outcome
  <2>4. m \in Nat /\ \A t \in Threads : pair[t] = Given(t, s, m)
    BY <1>8
  <2> HIDE DEF m
  <2> QED
    BY <1>2, <1>7, <2>1, <2>2, <2>3, <2>4
<1>11. CASE Fails(s, r, h, pair) \/ (Stays(s, r, h, pair) /\ UNCHANGED wire)
  <2>1. Outcome(s, r, h, pair, out)
    BY <1>1, <1>2, <1>11 DEF Outcome
  <2>2. r.owes + r.owed + 0 <= Len(out) + r.owes + r.owed
    BY <1>2
  <2> QED
    BY <1>2, <1>7, <1>8, <2>1, <2>2
<1> QED
  BY <1>1, <1>9, <1>10, <1>11

LEMMA DrainLastTurn ==
  ASSUME Base, NEW s \in Slots, DrainLast(s)
  PROVE  \E z \in Slots, l \in Registries, m \in Nat : Turn(z, l, m)
<1> DEFINE r == slots[s]
           h == Drained(Named(handler, s), s)
           n == Len(handler.pending[s])
           out == handler.pending[s] \o IF r.chunked THEN <<Terminator>> ELSE <<>>
           over == IF r.chunked THEN [r EXCEPT !.sse = FALSE, !.chunked = FALSE, !.gen = 0]
                                ELSE [r EXCEPT !.close = TRUE, !.gen = 0]
           w == Owing(s, over, n)
           k == [over EXCEPT !.owes = n]
           p == Acked(s, n)
<1>1. /\ r.sse /\ r.conn = "idle" /\ due' = due \ {s} /\ slotAckFd[s] # None
      /\ h.sub[s] = None /\ slotAckFd' = [slotAckFd EXCEPT ![s] = None]
      /\ \/ Landed(s, w, h, p, out)
         \/ Waits(s, k, h, pair, out)
         \/ Fails(s, r, h, pair)
      /\ UNCHANGED <<threadVars, jobs, ring, parked, chunk, posted, aborts, body, server, asked>>
  BY DEF DrainLast, Visits, Drainable, Cleared
<1>2. /\ r \in Records /\ r.owes \in Nat /\ r.owed \in Nat /\ pair \in [Threads -> Seq(Acks)]
      /\ n \in Nat /\ aborts \in Seq(Slots \X Gens) /\ due \subseteq Slots
      /\ handler.pending[s] \in Seq(Nat \X Nat)
  BY SlotFacts
<1>3. Handling(s)
  BY <1>1, <1>2 DEF Handling
<1>4. /\ h \in Registries /\ \A z \in Slots \ {s} : Same(h, handler, z)
      /\ h.gen[s] = handler.gen[s] /\ h.pending[s] = <<>> /\ Len(h.pending[s]) = 0
      /\ h.sub[s] \in {handler.sub[s], None}
  BY DrainedFacts
<1>5. out \in Seq(Nat \X Nat)
  <2> DEFINE e == IF r.chunked THEN <<Terminator>> ELSE <<>>
  <2>1. e \in Seq(Nat \X Nat)
    BY DEF Terminator
  <2> HIDE DEF e
  <2>2. handler.pending[s] \o e \in Seq(Nat \X Nat)
    BY <1>2, <2>1
  <2> QED
    BY <2>2 DEF e
<1>6. over \in Records /\ over.gen = 0
  BY <1>2 DEF Records, AnyGen
<1>7. slots[s].conn # "ready" /\ h.sub[s] = None
  BY <1>1
<1> HIDE DEF n, h, over, out
<1>8. ASSUME NEW x \in Records, NEW y \in [Threads -> Seq(Acks)], NEW m \in Nat,
             \A t \in Threads : y[t] = Given(t, s, m), x.gen = 0, Outcome(s, x, h, y, out),
             m <= n
      PROVE  \E z \in Slots, l \in Registries, i \in Nat : Turn(z, l, i)
  <2>1. m <= Len(handler.pending[s])
    BY <1>8 DEF n
  <2>2. Ready(s, handler, x, h, y, m)
    BY <1>1, <1>3, <1>4, <1>7, <1>8, <2>1, OverReady
  <2> QED
    BY <1>3, <1>5, <1>8, <2>2, HandlingTurn
<1>9. \A t \in Threads : pair[t] = Given(t, s, 0)
  BY GivenNone DEF Base
<1>10. CASE Landed(s, w, h, p, out)
  <2>1. PICK m \in 0 .. n :
          /\ Acked(s, n) \in [Threads -> Seq(Acks)]
          /\ \A t \in Threads : Acked(s, n)[t] = Given(t, s, m)
          /\ \A x \in Records :
               /\ Owing(s, x, n) \in Records /\ Owing(s, x, n).owed = x.owed + (n - m)
               /\ Owing(s, x, n).owes = x.owes /\ Owing(s, x, n).gen = x.gen
               /\ Owing(s, x, n).sse = x.sse /\ Owing(s, x, n).conn = x.conn
    BY <1>1, <1>2, AckedFacts
  <2>2. /\ w \in Records /\ w.gen = 0
        /\ p \in [Threads -> Seq(Acks)] /\ \A t \in Threads : p[t] = Given(t, s, m)
    BY <1>6, <2>1
  <2>3. m \in Nat /\ m <= n
    BY <1>2, <2>1
  <2> HIDE DEF w, p
  <2>4. Outcome(s, w, h, p, out)
    BY <1>10 DEF Outcome
  <2> QED
    BY <1>8, <2>2, <2>3, <2>4
<1>11. CASE Waits(s, k, h, pair, out)
  <2>1. k \in Records /\ k.gen = 0
    BY <1>2, <1>6 DEF Records
  <2> HIDE DEF k
  <2>2. Outcome(s, k, h, pair, out)
    BY <1>11 DEF Outcome
  <2> DEFINE m == 0
  <2>3. m \in Nat /\ m <= n /\ \A t \in Threads : pair[t] = Given(t, s, m)
    BY <1>2, <1>9
  <2> HIDE DEF m
  <2> QED
    BY <1>2, <1>8, <2>1, <2>2, <2>3
<1>12. CASE Fails(s, r, h, pair)
  <2> DEFINE p0 == pair
             m == 0
  <2>1. Outcome(s, r, h, p0, out)
    BY <1>12 DEF Outcome
  <2>2. Len(h.pending[s]) + r.owes + r.owed + m
          <= Len(handler.pending[s]) + slots[s].owes + slots[s].owed
    <3> DEFINE a == r.owes
               b == r.owed
               c == Len(h.pending[s])
    <3>1. a \in Nat /\ b \in Nat /\ c = 0
      BY <1>2, <1>4
    <3> HIDE DEF a, b, c
    <3>2. c + a + b + m <= n + a + b
      BY <1>2, <3>1
    <3> QED
      BY <3>2 DEF a, b, c, n
  <2>3. /\ m \in Nat /\ (m > 0 => slots[s].conn # "ready") /\ p0 \in [Threads -> Seq(Acks)]
        /\ \A t \in Threads : p0[t] = Given(t, s, m)
    BY <1>2, <1>9
  <2>4. /\ r.sse = slots[s].sse /\ r.gen = slots[s].gen
        /\ h.pending[s] \in {handler.pending[s], <<>>}
        /\ (h.sub[s] = None => h.pending[s] = <<>>)
    BY <1>4
  <2> HIDE DEF p0, m, r
  <2>5. Ready(s, handler, r, h, p0, m)
    BY <1>2, <1>3, <1>4, <2>2, <2>3, <2>4, GoingReady
  <2> QED
    BY <1>3, <1>5, <2>1, <2>5, HandlingTurn
<1> QED
  BY <1>1, <1>10, <1>11, <1>12

\* An abort for the stream its slot still serves closes the slot.
LEMMA ServeAbortTurn ==
  ASSUME Base, NEW s \in Slots, slots[s].sse, NEW out \in Seq(Nat \X Int), Reaches(s, out),
         Closes(s, [slots[s] EXCEPT !.gen = 0], Drained(handler, s), pair), Cleared(s),
         aborts' \in Seq(Slots \X Gens),
         UNCHANGED <<threadVars, jobs, ring, parked, chunk, posted, due, body, server, asked>>
  PROVE  \E z \in Slots, l \in Registries, m \in Nat : Turn(z, l, m)
<1> DEFINE r == [slots[s] EXCEPT !.gen = 0]
           d == Drained(handler, s)
           h == Disconnected(d, s)
           n == 0
           l == handler
           p == pair
<1>1. /\ slots[s] \in Records /\ l \in Registries /\ p \in [Threads -> Seq(Acks)] /\ TypeOK
      /\ Len(l.pending[s]) \in Nat /\ due \subseteq Slots
      /\ wire \in [Slots -> Seq(Nat \X Int)]
  BY SlotFacts
<1>2. slots[s].conn \notin {"unused", "ready", "offloaded"}
  BY DEF Base, Settled, Shaped
<1>3. slots[s].conn \in {"sending", "idle", "ready"} /\ slots[s].conn # "ready"
  BY <1>1, <1>2 DEF Records
<1>4. slotAckFd' = [slotAckFd EXCEPT ![s] = None]
  BY DEF Cleared
<1>5. Handling(s)
  BY <1>1, <1>3, <1>4 DEF Handling
<1>6. /\ d \in Registries /\ \A z \in Slots \ {s} : Same(d, l, z)
      /\ d.gen[s] = l.gen[s]
  BY <1>1, RegistryFacts
<1>7. r \in Records /\ r.gen = 0 /\ r.sse
  BY <1>1 DEF Records, AnyGen
<1> HIDE DEF d
<1>8. /\ h \in Registries /\ \A z \in Slots \ {s} : Same(h, d, z)
      /\ h.sub[s] = None /\ h.pending[s] = <<>> /\ h.gen[s] = 0
  BY <1>6, RegistryFacts
<1>9. handler' = h
  BY <1>7 DEF Closes, d
<1>10. \A z \in Slots \ {s} : Same(h, l, z)
  BY <1>6, <1>8 DEF Same
<1> HIDE DEF h, r
<1>11. n \in Nat /\ n <= Len(l.pending[s]) /\ (n > 0 => slots[s].conn # "ready")
       /\ \A t \in Threads : p[t] = Given(t, s, n)
  BY <1>1, GivenNone
<1> HIDE DEF n, p
<1>12. Ready(s, l, r, h, p, n)
  BY <1>1, <1>3, <1>4, <1>5, <1>7, <1>8, <1>10, <1>11, OverReady
<1>13. Told(s, p) /\ \E k \in Records : Left(s, r, d, k)
  <2>1. Closes(s, r, d, p)
    BY DEF r, d, p
  <2> QED
    BY <1>1, <1>6, <1>7, <2>1, ClosesFacts
<1>14. \E k \in Records : Left(s, r, h, k)
  <2>1. PICK k \in Records : Left(s, r, d, k)
    BY <1>13
  <2>2. \A z \in Slots \ {s} : Same(handler', h, z)
    BY <1>9 DEF Same
  <2>3. handler'.sub[s] = None /\ handler'.pending[s] = <<>> /\ handler'.gen[s] = 0
    BY <1>8, <1>9
  <2>4. Left(s, r, h, k)
    BY <2>1, <2>2, <2>3 DEF Left
  <2> QED
    BY <2>4
<1>15. wire' \in [Slots -> Seq(Nat \X Int)]
  <2>1. wire[s] \o out \in Seq(Nat \X Int)
    BY <1>1
  <2> QED
    BY <1>1, <2>1 DEF Reaches
<1>16. due' \subseteq Slots /\ UNCHANGED <<threadVars, jobs, posted, body, server, asked>>
  BY <1>1
<1>17. TypeOK
  BY <1>1
<1> HIDE DEF l
<1>18. Turn(s, l, n)
  BY <1>12, <1>13, <1>14, <1>15, <1>16, <1>17, TurnFacts
<1> QED
  BY <1>1, <1>11, <1>18

\* The loop is at rest: nothing moves but what only has to keep its type.
LEMMA RestingFacts ==
  ASSUME Base, NEW l, l \in Registries, From(l), handler' \in Registries,
         \A z \in Slots : Same(handler', l, z), Sundry,
         UNCHANGED <<pc, at, nth, hand, credit, jobs, ring, parked, slotAckFd, pair, slots, marks,
                     asked, server>>
  PROVE  \E m \in Registries : Resting(m)
BY DEF Resting

LEMMA StandStill ==
  ASSUME Base, Sundry, handler' \in Registries, \A z \in Slots : Same(handler', handler, z),
         UNCHANGED <<pc, at, nth, hand, credit, jobs, ring, parked, slotAckFd, chunk, pair, slots,
                     marks, asked, server>>
  PROVE  \E m \in Registries : Resting(m)
<1> DEFINE l == handler
<1>1. l \in Registries /\ From(l) /\ \A z \in Slots : Same(handler', l, z)
  BY Typed DEF Base, From
<1> HIDE DEF l
<1> QED
  BY <1>1, RestingFacts

\* The rest of the loop.
LEMMA ServeAbortStep ==
  ASSUME Base, ServeAbort
  PROVE  Step
<1> DEFINE s == aborts[1][1]
           g == aborts[1][2]
           r == slots[s]
           q == handler.pending[s]
<1>1. /\ aborts # <<>> /\ aborts' = Tail(aborts)
      /\ \/ /\ r.sse
            /\ Reaches(s, Append(q, CutOff(g))) \/ Reaches(s, <<CutOff(g)>>)
            /\ Closes(s, [r EXCEPT !.gen = 0], Drained(handler, s), pair) /\ Cleared(s)
         \/ UNCHANGED <<wire, slots, handler, pair, marks, slotAckFd>>
      /\ UNCHANGED <<threadVars, jobs, ring, parked, chunk, posted, due, body, server, asked>>
  BY DEF ServeAbort
<1>2. aborts \in Seq(Slots \X Gens) /\ TypeOK
  BY Typed DEF Base
<1>3. aborts' \in Seq(Slots \X Gens) /\ aborts[1] \in Slots \X Gens
  BY <1>1, <1>2
<1>4. s \in Slots /\ g \in Gens /\ CutOff(g) \in Nat \X Int
  BY <1>3 DEF CutOff, Gens
<1>5. q \in Seq(Nat \X Int)
  <2>1. q \in Seq(Nat \X Nat)
    BY <1>4, SlotFacts
  <2> HIDE DEF q
  <2> QED
    BY <2>1, Nat \X Nat \subseteq Nat \X Int, Widen
<1> HIDE DEF s, g, q
<1>6. CASE /\ r.sse
           /\ Reaches(s, Append(q, CutOff(g))) \/ Reaches(s, <<CutOff(g)>>)
           /\ Closes(s, [r EXCEPT !.gen = 0], Drained(handler, s), pair) /\ Cleared(s)
  <2>1. PICK out \in Seq(Nat \X Int) : Reaches(s, out)
    <3>1. Append(q, CutOff(g)) \in Seq(Nat \X Int) /\ <<CutOff(g)>> \in Seq(Nat \X Int)
      BY <1>4, <1>5
    <3> QED
      BY <1>6, <3>1
  <2>2. \E z \in Slots, l \in Registries, m \in Nat : Turn(z, l, m)
    BY <1>1, <1>3, <1>4, <1>6, <2>1, ServeAbortTurn
  <2> QED
    BY <2>2 DEF Step
<1>7. CASE UNCHANGED <<wire, slots, handler, pair, marks, slotAckFd>>
  <2>1. Sundry
    BY <1>1, <1>2, <1>3, <1>7, Typed DEF Sundry, threadVars
  <2>2. handler' \in Registries /\ \A z \in Slots : Same(handler', handler, z)
    BY <1>2, <1>7, Typed DEF Same
  <2>3. \E m \in Registries : Resting(m)
    BY <1>1, <1>7, <2>1, <2>2, StandStill DEF threadVars
  <2> QED
    BY <2>3 DEF Step
<1> QED
  BY <1>1, <1>6, <1>7

LEMMA AskStep ==
  ASSUME Base, NEW s \in Slots, NEW kind \in Kinds, Ask(s, kind)
  PROVE  Asking(s)
<1> DEFINE r == slots[s]
           k == [r EXCEPT !.conn = "offloaded", !.kind = kind, !.gen = 0]
           m == [r EXCEPT !.conn = "offloaded", !.kind = kind]
<1>1. /\ asked < server.requests /\ asked' = asked + 1
      /\ \/ /\ r.conn = "unused" /\ slotAckFd' = [slotAckFd EXCEPT ![s] = None]
            /\ slots' = [slots EXCEPT ![s] = k]
         \/ r.conn = "ready" /\ slotAckFd' = slotAckFd /\ slots' = [slots EXCEPT ![s] = m]
      /\ jobs' = Append(jobs, s) /\ wire' = [wire EXCEPT ![s] = <<>>]
      /\ UNCHANGED <<threadVars, ring, parked, chunk, pair, posted, handler, aborts, due, body,
                     marks, server>>
  BY DEF Ask, Cleared
<1>2. /\ r \in Records /\ slots \in [Slots -> Records] /\ wire \in [Slots -> Seq(Nat \X Int)]
      /\ TypeOK
  BY SlotFacts, Typed DEF Base
<1>3. wire' \in [Slots -> Seq(Nat \X Int)]
  BY <1>1, <1>2
<1>4. Sundry
  BY <1>1, <1>2, <1>3, Typed DEF Sundry, threadVars
<1>5. /\ k \in Records /\ k.conn = "offloaded" /\ k.gen = 0 /\ k.sse = r.sse /\ k.owes = r.owes
      /\ k.owed = r.owed
  BY <1>2 DEF Records, AnyGen
<1>6. /\ m \in Records /\ m.conn = "offloaded" /\ m.gen = r.gen /\ m.sse = r.sse
      /\ m.owes = r.owes /\ m.owed = r.owed
  BY <1>2 DEF Records
<1>7. UNCHANGED <<pc, at, nth, hand, credit, ring, parked, chunk, pair, handler, marks, server>>
  BY <1>1 DEF threadVars
<1> HIDE DEF k, m
<1>8. CASE /\ r.conn = "unused" /\ slotAckFd' = [slotAckFd EXCEPT ![s] = None]
           /\ slots' = [slots EXCEPT ![s] = k]
  <2>1. slots' \in [Slots -> Records] /\ slots'[s] = k /\ \A z \in Slots \ {s} : slots'[z] = slots[z]
    BY <1>2, <1>5, <1>8
  <2> QED
    BY <1>1, <1>4, <1>5, <1>7, <1>8, <2>1 DEF Asking
<1>9. CASE r.conn = "ready" /\ slotAckFd' = slotAckFd /\ slots' = [slots EXCEPT ![s] = m]
  <2>1. slots' \in [Slots -> Records] /\ slots'[s] = m /\ \A z \in Slots \ {s} : slots'[z] = slots[z]
    BY <1>2, <1>6, <1>9
  <2> QED
    BY <1>1, <1>4, <1>6, <1>7, <1>9, <2>1 DEF Asking
<1> QED
  BY <1>1, <1>8, <1>9

LEMMA RetryStep ==
  ASSUME Base, NEW s \in Slots, RetryOwedAcks(s)
  PROVE  Retrying(s)
<1> DEFINE r == slots[s]
           t == slotAckFd[s]
           n == r.owed
<1>1. /\ n > 0
      /\ \/ UNCHANGED <<pair, marks>>
         \/ /\ pair' = Acked(s, n)
            /\ marks' = IF t # None /\ at[t] = s /\ r.gen # Gen(t)
                        THEN [marks EXCEPT ![t] = @ \cup {"paid"}] ELSE marks
      /\ slots' = [slots EXCEPT ![s].owed = 0]
      /\ UNCHANGED <<threadVars, jobs, ring, parked, slotAckFd, chunk, posted, handler, aborts,
                     due, wire, body, server, asked>>
  BY DEF RetryOwedAcks
<1>2. /\ t \in Threads \cup {None} /\ None \notin Threads /\ n \in Nat /\ TypeOK
      /\ marks \in [Threads -> SUBSET Marks] /\ "paid" \in Marks
  BY SlotFacts, Typed DEF Base, Marks
<1>3. Sundry
  BY <1>1, <1>2, Stays0 DEF threadVars
<1> HIDE DEF t
<1>4. /\ marks' \in [Threads -> SUBSET Marks] /\ \A u \in Threads : marks[u] \subseteq marks'[u]
  BY <1>1, <1>2
<1>5. \/ pair' = pair
      \/ /\ t # None /\ pair' = [pair EXCEPT ![t] = Append(@, <<s, n>>)]
         /\ at[t] = s /\ r.gen # Gen(t) => "paid" \in marks'[t]
  <2>1. Acked(s, n) = pair \/ (t # None /\ Acked(s, n) = [pair EXCEPT ![t] = Append(@, <<s, n>>)])
    BY DEF Acked, t
  <2> QED
    BY <1>1, <1>2, <2>1
<1>6. UNCHANGED <<pc, at, nth, hand, credit, jobs, ring, parked, slotAckFd, chunk, handler,
                  asked, server>>
  BY <1>1 DEF threadVars
<1> QED
  BY <1>1, <1>3, <1>4, <1>5, <1>6 DEF Retrying, t

\* Every step of the system is one of these.
LEMMA ThreadStep ==
  ASSUME Base, NEW t \in Threads, Produces(t) \/ PlaceWaits(t) \/ GiveUp(t)
  PROVE  Step
<1>1. TypeOK /\ Counted /\ Working /\ Heard
  BY DEF Base
<1>2. ASSUME Moves(t) PROVE Step
  BY <1>2 DEF Moves, Step
<1>3. CASE Take(t)
  BY <1>1, <1>3, TakeStep DEF Step
<1>4. CASE Begin(t)
  BY <1>1, <1>4, BeginStep DEF Step
<1>5. CASE BeginRefused(t)
  BY <1>1, <1>5, RefuseStep DEF Step
<1>6. CASE Complete(t)
  BY <1>1, <1>6, CompleteStep DEF Step
<1>7. CASE Yield(t)
  BY <1>1, <1>2, <1>7, YieldStep
<1>8. CASE Stop(t)
  BY <1>1, <1>2, <1>8, StopStep
<1>9. CASE WaitAck(t)
  BY <1>1, <1>2, <1>9, WaitAckStep
<1>10. CASE Place(t)
  BY <1>1, <1>2, <1>10, PlaceStep
<1>11. CASE PlaceRefused(t)
  BY <1>1, <1>2, <1>11, PlaceRefusedStep
<1>12. CASE Abort(t)
  BY <1>1, <1>2, <1>12, AbortStep
<1>13. CASE PlaceWaits(t)
  BY <1>1, <1>2, <1>13, PlaceWaitsStep
<1>14. CASE GiveUp(t)
  BY <1>1, <1>2, <1>14, GiveUpStep
<1> QED
  BY <1>3, <1>4, <1>5, <1>6, <1>7, <1>8, <1>9, <1>10, <1>11, <1>12, <1>13, <1>14 DEF Produces

LEMMA DeliverStep ==
  ASSUME Base, DeliverBusFrames
  PROVE  Step
<1> DEFINE l == Delivered
<1>1. /\ chunk' = <<>> /\ handler' = l
      /\ UNCHANGED <<threadVars, jobs, ring, parked, slotAckFd, pair, posted, slots, aborts, due,
                     history, server, asked>>
  BY DEF DeliverBusFrames
<1>2. From(l) /\ TypeOK
  BY <1>1 DEF From, Base
<1> HIDE DEF l
<1>3. l \in Registries
  BY <1>2, FromFacts DEF Base
<1>4. Sundry
  BY <1>1, <1>2, Stays0 DEF threadVars, history
<1>5. \A z \in Slots : Same(handler', l, z)
  BY <1>1 DEF Same
<1>6. \E m \in Registries : Resting(m)
  BY <1>1, <1>2, <1>3, <1>4, <1>5, RestingFacts DEF threadVars, history
<1> QED
  BY <1>6 DEF Step

LEMMA RestStep ==
  ASSUME Base, \/ ReadChannel \/ ForgetDue \/ (\E s \in Slots : PassBy(s)) \/ Rest \/ UNCHANGED vars
  PROVE  Step
<1>1. /\ TypeOK /\ handler \in Registries /\ posted \in Seq(Slots \X Gens) /\ due \subseteq Slots
      /\ aborts \in Seq(Slots \X Gens)
  BY Typed DEF Base
<1>2. /\ UNCHANGED <<pc, at, nth, made, hand, credit, jobs, ring, parked, slotAckFd, chunk, pair,
                     slots, marks, wire, body, asked, server>>
      /\ posted' \in {posted, <<>>} /\ aborts' \in {aborts, posted} /\ due' \subseteq due
      /\ handler' = handler \/ \E s \in Slots : handler' = Named(handler, s)
  BY DEF ReadChannel, ForgetDue, PassBy, Visits, Rest, vars, threadVars, loopVars, history
<1>3. Sundry
  <2>1. posted' \in Seq(Slots \X Gens) /\ aborts' \in Seq(Slots \X Gens) /\ due' \subseteq Slots
    <3>1. <<>> \in Seq(Slots \X Gens)
      OBVIOUS
    <3>2. posted' = posted \/ posted' = <<>>
      BY <1>2
    <3>3. aborts' = aborts \/ aborts' = posted
      BY <1>2
    <3> QED
      BY <1>1, <1>2, <3>1, <3>2, <3>3
  <2> QED
    BY <1>1, <1>2, <2>1, Typed DEF Sundry
<1>4. handler' \in Registries /\ \A z \in Slots : Same(handler', handler, z)
  <2>1. CASE handler' = handler
    BY <1>1, <2>1 DEF Same
  <2>2. ASSUME NEW s \in Slots, handler' = Named(handler, s)
        PROVE  handler' \in Registries /\ \A z \in Slots : Same(handler', handler, z)
    BY <1>1, <2>2, RegistryFacts
  <2> QED
    BY <1>2, <2>1, <2>2
<1>5. \E m \in Registries : Resting(m)
  BY <1>2, <1>3, <1>4, StandStill
<1> QED
  BY <1>5 DEF Step

LEMMA Steps ==
  ASSUME Base, [Next]_vars
  PROVE  Step
<1>1. ASSUME \E z \in Slots, l \in Registries, m \in Nat : Turn(z, l, m) PROVE Step
  BY <1>1 DEF Step
<1>2. CASE \E t \in Threads : Produces(t) \/ PlaceWaits(t) \/ GiveUp(t)
  BY <1>2, ThreadStep
<1>3. CASE DeliverBusFrames
  BY <1>3, DeliverStep
<1>4. CASE CompleteStream
  BY <1>1, <1>4, CompleteStreamTurn
<1>5. CASE CompleteHead
  BY <1>1, <1>5, CompleteHeadTurn
<1>6. CASE CompleteRefused
  BY <1>1, <1>6, CompleteRefusedTurn
<1>7. CASE ServeAbort
  BY <1>7, ServeAbortStep
<1>8. CASE \E s \in Slots : RetryOwedAcks(s)
  BY <1>8, RetryStep DEF Step
<1>9. CASE \E s \in Slots : DrainBytes(s)
  BY <1>1, <1>9, DrainBytesTurn
<1>10. CASE \E s \in Slots : DrainLast(s)
  BY <1>1, <1>10, DrainLastTurn
<1>11. CASE \E s \in Slots : WriteReady(s)
  BY <1>1, <1>11, WriteReadyTurn
<1>12. CASE \E s \in Slots : ClientLeaves(s)
  BY <1>1, <1>12, ClientLeavesTurn
<1>13. CASE \E s \in Slots, kind \in Kinds : Ask(s, kind)
  BY <1>13, AskStep DEF Step
<1>14. CASE \/ ReadChannel \/ ForgetDue \/ (\E s \in Slots : PassBy(s)) \/ Rest \/ UNCHANGED vars
  BY <1>14, RestStep
<1>15. Next \/ UNCHANGED vars
  OBVIOUS
<1> QED
  BY <1>2, <1>3, <1>4, <1>5, <1>6, <1>7, <1>8, <1>9, <1>10, <1>11, <1>12, <1>13, <1>14, <1>15
     DEF Next, Serves

-----------------------------------------------------------------------------
(* What a step keeps: types, and counts. *)

\* The parts of Base, for one step at a time.
LEMMA Parts ==
  ASSUME Base
  PROVE  TypeOK /\ Counted /\ Working /\ Turns /\ Framed /\ Settled /\ Heard
BY DEF Base

\* What a thread's step leaves of the rest.
LEMMA TypeTaking ==
  ASSUME Base, NEW t \in Threads, NEW s \in Slots, Taking(t, s)
  PROVE  TypeOK'
<1>1. TypeOK /\ jobs # <<>> /\ jobs' = Tail(jobs)
  BY DEF Base, Taking
<1>2. /\ pc' = [pc EXCEPT ![t] = "begin"] /\ at' = [at EXCEPT ![t] = s]
      /\ pair' = [pair EXCEPT ![t] = <<>>] /\ slotAckFd' = [slotAckFd EXCEPT ![s] = t]
      /\ UNCHANGED <<nth, hand, credit, ring, parked, chunk, marks, slots, handler, asked, server>>
      /\ Sundry
  BY DEF Taking, Aside
<1>3. jobs' \in Seq(Slots)
  <2>1. jobs \in Seq(Slots)
    BY <1>1, Typed
  <2> QED
    BY <1>1, <2>1
<1>4. /\ pc' \in [Threads -> Points] /\ at' \in [Threads -> Slots \cup {None}]
      /\ pair' \in [Threads -> Seq(Acks)] /\ slotAckFd' \in [Slots -> Threads \cup {None}]
  BY <1>1, <1>2, Typed DEF Points
<1> QED
  BY <1>1, <1>2, <1>3, <1>4, Typed, TypedNext DEF Sundry

\* The types, effect by effect.
LEMMA TypeBeginning ==
  ASSUME Base, NEW t \in Threads, Beginning(t)
  PROVE  TypeOK'
<1>1. TypeOK /\ Counted /\ Working
  BY DEF Base
<1>2. /\ pc[t] = "begin" /\ pc' = [pc EXCEPT ![t] = "head"]
      /\ chunk' = Append(chunk, Frame("P", at[t], Gen(t), t, 0))
      /\ UNCHANGED <<at, nth, hand, credit, jobs, ring, parked, slotAckFd, pair, marks, slots,
                     handler, asked, server>>
      /\ Sundry
  BY DEF Beginning, Aside
<1>3. at[t] \in Slots /\ Gen(t) \in Gens /\ t \in Nat
  BY <1>1, <1>2, ThreadFacts DEF Busy
<1>4. Frame("P", at[t], Gen(t), t, 0) \in Frames
  BY <1>3 DEF Frame, Frames
<1>5. chunk' \in Seq(Frames)
  <2>1. chunk \in Seq(Frames)
    BY <1>1, Typed
  <2> QED
    BY <1>2, <1>4, <2>1
<1>6. pc' \in [Threads -> Points]
  BY <1>1, <1>2, Typed DEF Points
<1> QED
  BY <1>1, <1>2, <1>5, <1>6, Typed, TypedNext DEF Sundry

LEMMA TypeRefusing ==
  ASSUME Base, NEW t \in Threads, Refusing(t)
  PROVE  TypeOK'
<1>1. TypeOK /\ Counted /\ Working
  BY DEF Base
<1>2. /\ pc[t] = "begin" /\ pc' = [pc EXCEPT ![t] = "idle"] /\ at' = [at EXCEPT ![t] = None]
      /\ slotAckFd' = [slotAckFd EXCEPT ![at[t]] = None]
      /\ parked' = [parked EXCEPT ![at[t]] = 0] /\ ring' = Append(ring, at[t])
      /\ marks' = [marks EXCEPT ![t] = {}]
      /\ UNCHANGED <<nth, hand, credit, jobs, chunk, pair, slots, handler, asked, server>> /\ Sundry
  BY DEF Refusing, Aside
<1>3. at[t] \in Slots
  BY <1>1, <1>2, ThreadFacts DEF Busy
<1>4. /\ pc' \in [Threads -> Points] /\ at' \in [Threads -> Slots \cup {None}]
      /\ slotAckFd' \in [Slots -> Threads \cup {None}] /\ parked' \in [Slots -> AnyGen]
      /\ marks' \in [Threads -> SUBSET Marks]
  BY <1>1, <1>2, <1>3, Typed DEF Points, AnyGen
<1>5. ring' \in Seq(Slots)
  BY <1>1, <1>2, <1>3, Typed
<1> QED
  BY <1>1, <1>2, <1>4, <1>5, Typed, TypedNext DEF Sundry

LEMMA TypeCompleting ==
  ASSUME Base, NEW t \in Threads, Completing(t)
  PROVE  TypeOK'
<1>1. TypeOK /\ Counted /\ Working
  BY DEF Base
<1>2. /\ pc[t] = "head" /\ pc' = [pc EXCEPT ![t] = "pump"]
      /\ parked' = [parked EXCEPT ![at[t]] = Gen(t)] /\ ring' = Append(ring, at[t])
      /\ credit' = [credit EXCEPT ![t] = server.window]
      /\ UNCHANGED <<at, nth, hand, jobs, slotAckFd, chunk, pair, marks, slots, handler, asked,
                     server>>
      /\ Sundry
  BY DEF Completing, Aside
<1>3. at[t] \in Slots /\ Gen(t) \in AnyGen /\ server.window \in Nat
  BY <1>1, <1>2, ThreadFacts, ServerFacts DEF Busy
<1>4. /\ pc' \in [Threads -> Points] /\ parked' \in [Slots -> AnyGen]
      /\ credit' \in [Threads -> Nat]
  BY <1>1, <1>2, <1>3, Typed DEF Points
<1>5. ring' \in Seq(Slots)
  BY <1>1, <1>2, <1>3, Typed
<1> QED
  BY <1>1, <1>2, <1>4, <1>5, Typed, TypedNext DEF Sundry

LEMMA TypeLeaving ==
  ASSUME Base, NEW t \in Threads, NEW q \in Seq(Acks), Leaving(t, q)
  PROVE  TypeOK'
<1>1. TypeOK /\ Counted /\ Working
  BY DEF Base
<1>2. /\ Active(t) /\ pc' = [pc EXCEPT ![t] = "idle"] /\ at' = [at EXCEPT ![t] = None]
      /\ nth' = [nth EXCEPT ![t] = @ + 1] /\ hand' = [hand EXCEPT ![t] = 0]
      /\ credit' = [credit EXCEPT ![t] = 0] /\ marks' = [marks EXCEPT ![t] = {}]
      /\ pair' = [pair EXCEPT ![t] = q]
      /\ chunk' = chunk \/ chunk' = Append(chunk, Frame("e", at[t], Gen(t), 0, 0))
      /\ UNCHANGED <<jobs, ring, parked, slotAckFd, slots, handler, asked, server>> /\ Sundry
  BY DEF Leaving, Aside
<1>3. at[t] \in Slots /\ Gen(t) \in Gens
  BY <1>1, <1>2, ThreadFacts
<1>4. Frame("e", at[t], Gen(t), 0, 0) \in Frames
  BY <1>3 DEF Frame, Frames
<1>5. chunk' \in Seq(Frames)
  <2>1. chunk \in Seq(Frames)
    BY <1>1, Typed
  <2> DEFINE f == Frame("e", at[t], Gen(t), 0, 0)
  <2>2. f \in Frames /\ (chunk' = chunk \/ chunk' = Append(chunk, f))
    BY <1>2, <1>4
  <2> HIDE DEF f
  <2>3. Append(chunk, f) \in Seq(Frames)
    BY <2>1, <2>2
  <2> QED
    BY <2>1, <2>2, <2>3
<1>6. /\ pc' \in [Threads -> Points] /\ at' \in [Threads -> Slots \cup {None}]
      /\ hand' \in [Threads -> Nat] /\ credit' \in [Threads -> Nat]
      /\ marks' \in [Threads -> SUBSET Marks] /\ pair' \in [Threads -> Seq(Acks)]
  BY <1>1, <1>2, Typed DEF Points
<1>7. nth' \in [Threads -> Nat]
  BY <1>1, <1>2, Typed
<1> QED
  BY <1>1, <1>2, <1>5, <1>6, <1>7, Typed, TypedNext DEF Sundry

LEMMA TypeMoving ==
  ASSUME Base, NEW t \in Threads, NEW p \in Pumping, NEW x \in Nat, NEW c \in Nat,
         NEW q \in Seq(Acks), NEW n \in Nat, Moving(t, p, x, c, q, n)
  PROVE  TypeOK'
<1>1. TypeOK /\ Counted /\ Working
  BY DEF Base
<1>2. /\ Active(t) /\ pc' = [pc EXCEPT ![t] = p]
      /\ hand' = [hand EXCEPT ![t] = x] /\ credit' = [credit EXCEPT ![t] = c]
      /\ pair' = [pair EXCEPT ![t] = q] /\ marks' \in [Threads -> SUBSET Marks]
      /\ \/ chunk' = chunk
         \/ \E v \in Nat : chunk' = Append(chunk, Frame("s", at[t], Gen(t), v, n))
      /\ UNCHANGED <<at, nth, jobs, ring, parked, slotAckFd, slots, handler, asked, server>>
      /\ Sundry
  BY DEF Moving, Aside
<1>3. at[t] \in Slots /\ Gen(t) \in Gens
  BY <1>1, <1>2, ThreadFacts
<1>4. \A v \in Nat : Frame("s", at[t], Gen(t), v, n) \in Frames
  BY <1>3 DEF Frame, Frames
<1>5. chunk' \in Seq(Frames)
  <2>1. chunk \in Seq(Frames)
    BY <1>1, Typed
  <2>2. \A f \in Frames : Append(chunk, f) \in Seq(Frames)
    BY <2>1
  <2>3. chunk' = chunk \/ \E f \in Frames : chunk' = Append(chunk, f)
    BY <1>2, <1>4
  <2> QED
    BY <2>1, <2>2, <2>3
<1>6. p \in Points
  BY DEF Pumping, Points
<1>7. /\ pc' \in [Threads -> Points] /\ hand' \in [Threads -> Nat]
      /\ credit' \in [Threads -> Nat] /\ pair' \in [Threads -> Seq(Acks)]
  BY <1>1, <1>2, <1>6, Typed
<1> QED
  BY <1>1, <1>2, <1>5, <1>7, Typed, TypedNext DEF Sundry

LEMMA TypeAsking ==
  ASSUME Base, NEW s \in Slots, Asking(s)
  PROVE  TypeOK'
<1>1. TypeOK
  BY DEF Base
<1>2. /\ asked' = asked + 1 /\ jobs' = Append(jobs, s) /\ slots' \in [Slots -> Records]
      /\ slotAckFd' = slotAckFd \/ slotAckFd' = [slotAckFd EXCEPT ![s] = None]
      /\ UNCHANGED <<pc, at, nth, hand, credit, ring, parked, chunk, pair, handler, marks, server>>
      /\ Sundry
  BY DEF Asking
<1>3. asked' \in Nat /\ slotAckFd' \in [Slots -> Threads \cup {None}]
  <2>1. asked \in Nat /\ slotAckFd \in [Slots -> Threads \cup {None}]
    BY <1>1, Typed
  <2> QED
    BY <1>2, <2>1
<1>4. jobs' \in Seq(Slots)
  BY <1>1, <1>2, Typed
<1> QED
  BY <1>1, <1>2, <1>3, <1>4, Typed, TypedNext DEF Sundry

LEMMA TypeRetrying ==
  ASSUME Base, NEW s \in Slots, Retrying(s)
  PROVE  TypeOK' /\ slots' \in [Slots -> Records] /\ slots'[s] = [slots[s] EXCEPT !.owed = 0]
<1>1. TypeOK /\ slots[s] \in Records /\ slots[s].owed \in Nat
      /\ slotAckFd[s] \in Threads \cup {None}
  BY SlotFacts
<1>2. /\ slots' = [slots EXCEPT ![s].owed = 0] /\ marks' \in [Threads -> SUBSET Marks]
      /\ \/ pair' = pair
         \/ /\ slotAckFd[s] # None
            /\ pair' = [pair EXCEPT ![slotAckFd[s]] = Append(@, <<s, slots[s].owed>>)]
      /\ UNCHANGED <<pc, at, nth, hand, credit, jobs, ring, parked, slotAckFd, chunk, handler,
                     asked, server>>
      /\ Sundry
  BY DEF Retrying
<1> DEFINE k == [slots[s] EXCEPT !.owed = 0]
<1>3. k \in Records
  BY <1>1 DEF Records
<1>4. slots' = [slots EXCEPT ![s] = k]
  BY <1>2
<1>5. slots' \in [Slots -> Records] /\ slots'[s] = k
  <2> HIDE DEF k
  <2> QED
    BY <1>1, <1>3, <1>4, Typed
<1>6. <<s, slots[s].owed>> \in Acks
  BY <1>1 DEF Acks
<1>7. pair' \in [Threads -> Seq(Acks)]
  <2>1. pair \in [Threads -> Seq(Acks)]
    BY <1>1, Typed
  <2>2. \A t \in Threads : Append(pair[t], <<s, slots[s].owed>>) \in Seq(Acks)
    BY <1>6, <2>1
  <2> QED
    BY <1>1, <1>2, <2>1, <2>2
<1>8. TypeOK'
  BY <1>1, <1>2, <1>5, <1>7, Typed, TypedNext DEF Sundry
<1> QED
  BY <1>5, <1>8

LEMMA TypeResting ==
  ASSUME Base, NEW l \in Registries, Resting(l)
  PROVE  TypeOK'
<1>1. From(l) /\ TypeOK
  BY DEF Resting, Base
<1>2. chunk' \in Seq(Frames)
  BY <1>1, FromFacts DEF Base
<1>3. /\ handler' \in Registries /\ Sundry
      /\ UNCHANGED <<pc, at, nth, hand, credit, jobs, ring, parked, slotAckFd, pair, slots, marks,
                     asked, server>>
  BY DEF Resting
<1> QED
  BY <1>1, <1>2, <1>3, Typed, TypedNext DEF Sundry

LEMMA TypeTurn ==
  ASSUME Base, NEW s \in Slots, NEW l \in Registries, NEW n \in Nat, Turn(s, l, n)
  PROVE  TypeOK'
<1>1. From(l) /\ TypeOK
  BY DEF Turn, Base
<1>2. chunk' \in Seq(Frames)
  BY <1>1, FromFacts DEF Base
<1>3. /\ ring' = ring \/ (ring # <<>> /\ ring' = Tail(ring))
      /\ slotAckFd' = slotAckFd \/ slotAckFd' = [slotAckFd EXCEPT ![s] = None]
      /\ parked' \in [Slots -> AnyGen] /\ slots' \in [Slots -> Records]
      /\ handler' \in Registries /\ pair' \in [Threads -> Seq(Acks)]
      /\ marks' \in [Threads -> SUBSET Marks]
      /\ UNCHANGED <<pc, at, nth, hand, credit, jobs, asked, server>> /\ Sundry
  BY DEF Turn
<1>4. ring' \in Seq(Slots)
  <2>1. ring \in Seq(Slots)
    BY <1>1, Typed
  <2>2. ring # <<>> => Tail(ring) \in Seq(Slots)
    BY <2>1
  <2>3. ring' = ring \/ (ring # <<>> /\ ring' = Tail(ring))
    BY <1>3
  <2> QED
    BY <2>1, <2>2, <2>3
<1>5. slotAckFd' \in [Slots -> Threads \cup {None}]
  BY <1>1, <1>3, Typed
<1> QED
  BY <1>1, <1>2, <1>3, <1>4, <1>5, Typed, TypedNext DEF Sundry

LEMMA TypeStep ==
  ASSUME Base, Step
  PROVE  TypeOK'
BY TypeTaking, TypeBeginning, TypeRefusing, TypeCompleting, TypeLeaving, TypeMoving, TypeAsking,
   TypeRetrying, TypeResting, TypeTurn DEF Step

\* A thread that a step leaves alone, and how the others go forward.
Idem(u) ==
  /\ pc'[u] = pc[u] /\ at'[u] = at[u] /\ nth'[u] = nth[u] /\ credit'[u] = credit[u]
  /\ hand'[u] = hand[u]
Forward(u) ==
  \/ Idem(u)
  \/ pc[u] = "idle" /\ pc'[u] = "begin" /\ nth'[u] = nth[u]
  \/ pc[u] = "begin" /\ pc'[u] \in {"head", "idle"} /\ nth'[u] = nth[u]
  \/ /\ pc[u] \notin {"idle", "begin"} /\ pc'[u] \notin {"idle", "begin"}
     /\ at'[u] = at[u] /\ nth'[u] = nth[u]
  \/ pc[u] \notin {"idle", "begin"} /\ pc'[u] = "idle" /\ nth'[u] = nth[u] + 1

\* A step of one thread.
ThreadsOwn(t) ==
  \/ \E s \in Slots : Taking(t, s)
  \/ Beginning(t) \/ Refusing(t) \/ Completing(t)
  \/ \E q \in Seq(Acks) : Leaving(t, q)
  \/ \E p \in Pumping, x \in Nat, c \in Nat, q \in Seq(Acks), n \in Nat : Moving(t, p, x, c, q, n)

\* A thread's step leaves the other threads as they are.
LEMMA Others ==
  ASSUME TypeOK, NEW t \in Threads, ThreadsOwn(t)
  PROVE  \A u \in Threads \ {t} :
           /\ Idem(u) /\ pair'[u] = pair[u] /\ marks[u] \subseteq marks'[u]
<1>1. /\ pc \in [Threads -> Points] /\ at \in [Threads -> Slots \cup {None}]
      /\ nth \in [Threads -> Nat] /\ credit \in [Threads -> Nat] /\ hand \in [Threads -> Nat]
      /\ pair \in [Threads -> Seq(Acks)] /\ marks \in [Threads -> SUBSET Marks]
  BY Typed
<1>2. CASE \E s \in Slots : Taking(t, s)
  BY <1>1, <1>2 DEF Taking, Idem
<1>3. CASE Beginning(t)
  BY <1>1, <1>3 DEF Beginning, Idem
<1>4. CASE Refusing(t)
  BY <1>1, <1>4 DEF Refusing, Idem
<1>5. CASE Completing(t)
  BY <1>1, <1>5 DEF Completing, Idem
<1>6. CASE \E q \in Seq(Acks) : Leaving(t, q)
  BY <1>1, <1>6 DEF Leaving, Idem
<1>7. CASE \E p \in Pumping, x \in Nat, c \in Nat, q \in Seq(Acks), n \in Nat :
             Moving(t, p, x, c, q, n)
  BY <1>1, <1>7 DEF Moving, Idem
<1> QED
  BY <1>2, <1>3, <1>4, <1>5, <1>6, <1>7 DEF ThreadsOwn

\* A step of the loop.
LoopsOwn ==
  \/ \E s \in Slots : Asking(s) \/ Retrying(s)
  \/ \E l \in Registries : Resting(l) \/ \E s \in Slots, n \in Nat : Turn(s, l, n)

\* A step is a thread's or the loop's.
LEMMA Whose ==
  ASSUME Step
  PROVE  LoopsOwn \/ \E t \in Threads : ThreadsOwn(t)
BY DEF Step, LoopsOwn, ThreadsOwn

\* The loop's leaves all threads as they are.
LEMMA LoopIdem ==
  ASSUME LoopsOwn
  PROVE  /\ UNCHANGED <<pc, at, nth, hand, credit, server>> /\ \A u \in Threads : Idem(u)
         /\ \A t \in Threads : marks[t] \subseteq marks'[t]
<1>1. /\ UNCHANGED <<pc, at, nth, hand, credit, server>>
      /\ \A t \in Threads : marks[t] \subseteq marks'[t]
  BY DEF LoopsOwn, Asking, Retrying, Resting, Turn
<1> QED
  BY <1>1 DEF Idem

\* Threads only go forward.
LEMMA Forwards ==
  ASSUME Base, Step, NEW u \in Threads
  PROVE  Forward(u)
<1>1. /\ pc \in [Threads -> Points] /\ at \in [Threads -> Slots \cup {None}]
      /\ nth \in [Threads -> Nat] /\ TypeOK
  BY Typed DEF Base
<1>2. CASE LoopsOwn
  BY <1>2, LoopIdem DEF Forward
<1>3. ASSUME NEW t \in Threads, ThreadsOwn(t) PROVE Forward(u)
  <2>1. CASE u # t
    BY <1>1, <1>3, <2>1, Others DEF Forward
  <2>2. CASE u = t
    <3>1. CASE \E s \in Slots : Taking(t, s)
      BY <1>1, <2>2, <3>1 DEF Taking, Forward
    <3>2. CASE Beginning(t)
      BY <1>1, <2>2, <3>2 DEF Beginning, Forward
    <3>3. CASE Refusing(t)
      BY <1>1, <2>2, <3>3 DEF Refusing, Forward
    <3>4. CASE Completing(t)
      BY <1>1, <2>2, <3>4 DEF Completing, Forward
    <3>5. CASE \E q \in Seq(Acks) : Leaving(t, q)
      BY <1>1, <2>2, <3>5 DEF Leaving, Forward, Active
    <3>6. ASSUME NEW p \in Pumping, NEW x \in Nat, NEW c \in Nat, NEW q \in Seq(Acks),
                 NEW n \in Nat, Moving(t, p, x, c, q, n)
          PROVE  Forward(u)
      <4>1. Active(t) /\ pc' = [pc EXCEPT ![t] = p] /\ at' = at /\ nth' = nth
        BY <3>6 DEF Moving
      <4> QED
        BY <1>1, <2>2, <4>1 DEF Forward, Active, Pumping
    <3> QED
      BY <1>3, <3>1, <3>2, <3>3, <3>4, <3>5, <3>6 DEF ThreadsOwn
  <2> QED
    BY <2>1, <2>2
<1> QED
  BY <1>2, <1>3, Whose

\* What is known of a stream stays known.
LEMMA KnownStep ==
  ASSUME Base, Step, NEW s, NEW g \in Gens, Known(s, g)
  PROVE  Known(s, g)'
<1> SUFFICES ASSUME NEW u \in Threads, Its(u, g)
             PROVE  g < Gen(u)' \/ (g = Gen(u)' /\ at'[u] = s /\ Busy(u)' /\ pc'[u] # "begin")
  BY DEF Known, Its, Low
<1>1. g < Gen(u) \/ (g = Gen(u) /\ at[u] = s /\ Busy(u) /\ pc[u] # "begin")
  BY DEF Known
<1>2. Forward(u)
  BY Forwards
<1>3. Gen(u) = Low(u) + nth[u] /\ Gen(u)' = Low(u) + nth'[u] /\ Low(u) \in Nat /\ nth[u] \in Nat
  BY GenFacts DEF Base, Gen, Low
<1>4. g \in Nat
  BY DEF Gens
<1>5. nth'[u] = nth[u] \/ nth'[u] = nth[u] + 1
  BY <1>2 DEF Forward, Idem
<1> DEFINE a == Gen(u)
           b == Gen(u)'
           c == Low(u)
<1>6. a = c + nth[u] /\ b = c + nth'[u] /\ c \in Nat /\ nth[u] \in Nat /\ (g < a \/ g = a)
  BY <1>1, <1>3
<1> HIDE DEF a, b, c
<1>7. (g < a => g < b) /\ (nth'[u] = nth[u] => a = b) /\ (nth'[u] = nth[u] + 1 => a < b)
      /\ (g = a /\ a < b => g < b)
  BY <1>4, <1>5, <1>6
<1>8. CASE g < Gen(u)
  BY <1>7, <1>8 DEF a, b
<1>9. CASE g = Gen(u) /\ at[u] = s /\ Busy(u) /\ pc[u] # "begin"
  <2>1. CASE nth'[u] = nth[u] + 1
    BY <1>7, <1>9, <2>1 DEF a, b
  <2>2. CASE nth'[u] = nth[u]
    <3>1. g = Gen(u)'
      BY <1>7, <1>9, <2>2 DEF a, b
    <3>2. at'[u] = s /\ pc'[u] # "idle" /\ pc'[u] # "begin"
      BY <1>2, <1>3, <1>9, <2>2 DEF Forward, Idem, Busy
    <3> QED
      BY <3>1, <3>2 DEF Busy
  <2> QED
    BY <1>5, <2>1, <2>2
<1> QED
  BY <1>1, <1>8, <1>9

\* No step gives a thread more generations than it has.
LEMMA CountedStep ==
  ASSUME Base, Step
  PROVE  Counted'
<1>1. /\ pc \in [Threads -> Points] /\ nth \in [Threads -> Nat] /\ asked \in Nat
      /\ jobs \in Seq(Slots) /\ TypeOK /\ server.requests \in Nat
  BY Typed, ServerFacts DEF Base
<1>2. /\ asked <= server.requests
      /\ \A u \in Threads : nth[u] >= 1 /\ nth[u] + Len(jobs) + (IF Busy(u) THEN 1 ELSE 0) <= asked + 1
  BY DEF Base, Counted
<1>3. ASSUME asked' <= server.requests, server' = server,
             NEW j \in Nat, NEW a \in Nat, Len(jobs') = j, asked' = a,
             \A u \in Threads : nth'[u] >= 1 /\ nth'[u] + j + (IF Busy(u)' THEN 1 ELSE 0) <= a + 1
      PROVE  Counted'
  BY <1>3 DEF Counted
<1>4. CASE \E s \in Slots : Asking(s)
  <2>1. /\ asked < server.requests /\ asked' = asked + 1
        /\ UNCHANGED <<pc, nth, server>>
    BY <1>4 DEF Asking
  <2>2. Len(jobs') = Len(jobs) + 1 /\ Len(jobs) + 1 \in Nat
    BY <1>1, <1>4 DEF Asking
  <2>3. asked + 1 <= server.requests /\ asked + 1 \in Nat
    BY <1>1, <2>1
  <2>4. ASSUME NEW u \in Threads
        PROVE  nth'[u] >= 1 /\ nth'[u] + (Len(jobs) + 1) + (IF Busy(u)' THEN 1 ELSE 0) <= (asked + 1) + 1
    <3> DEFINE b == IF Busy(u) THEN 1 ELSE 0
               c == IF Busy(u)' THEN 1 ELSE 0
    <3>1. b = c /\ b \in Nat
      BY <2>1 DEF Busy
    <3>2. nth[u] >= 1 /\ nth[u] + Len(jobs) + b <= asked + 1 /\ nth'[u] = nth[u] /\ nth[u] \in Nat
          /\ Len(jobs) \in Nat
      BY <1>1, <1>2, <2>1
    <3> HIDE DEF b, c
    <3>3. nth'[u] >= 1 /\ nth'[u] + (Len(jobs) + 1) + c <= (asked + 1) + 1
      BY <1>1, <3>1, <3>2
    <3> QED
      BY <3>3 DEF c
  <2> QED
    BY <1>3, <2>1, <2>2, <2>3, <2>4
<1>5. CASE /\ jobs' = jobs /\ asked' = asked /\ server' = server
           /\ \A u \in Threads : nth'[u] + (IF Busy(u)' THEN 1 ELSE 0)
                                   <= nth[u] + (IF Busy(u) THEN 1 ELSE 0)
           /\ \A u \in Threads : nth'[u] \in {nth[u], nth[u] + 1}
  <2>1. ASSUME NEW u \in Threads
        PROVE  nth'[u] >= 1 /\ nth'[u] + Len(jobs) + (IF Busy(u)' THEN 1 ELSE 0) <= asked + 1
    <3> DEFINE b == IF Busy(u) THEN 1 ELSE 0
               c == IF Busy(u)' THEN 1 ELSE 0
               m == nth'[u]
               k == nth[u]
               j == Len(jobs)
    <3>1. b \in Nat /\ c \in Nat /\ m + c <= k + b /\ m \in {k, k + 1} /\ k \in Nat /\ j \in Nat
          /\ k >= 1 /\ k + j + b <= asked + 1
      BY <1>1, <1>2, <1>5
    <3> HIDE DEF b, c, m, k, j
    <3>2. m >= 1 /\ m + j + c <= asked + 1
      BY <1>1, <3>1
    <3> QED
      BY <3>2 DEF m, j, c
  <2>2. Len(jobs) \in Nat /\ asked' <= server.requests /\ Len(jobs') = Len(jobs)
    BY <1>1, <1>2, <1>5
  <2> QED
    BY <1>1, <1>3, <1>5, <2>1, <2>2
<1>6. CASE LoopsOwn /\ ~\E s \in Slots : Asking(s)
  <2>1. jobs' = jobs /\ asked' = asked
    BY <1>6 DEF LoopsOwn, Retrying, Resting, Turn
  <2>2. ASSUME NEW u \in Threads
        PROVE  /\ nth'[u] + (IF Busy(u)' THEN 1 ELSE 0) <= nth[u] + (IF Busy(u) THEN 1 ELSE 0)
               /\ nth'[u] \in {nth[u], nth[u] + 1}
    <3>1. nth'[u] = nth[u] /\ pc'[u] = pc[u] /\ nth[u] \in Nat
      BY <1>1, <1>6, LoopIdem DEF Idem
    <3> QED
      BY <3>1 DEF Busy
  <2> QED
    BY <1>5, <1>6, <2>1, <2>2, LoopIdem
<1>7. ASSUME NEW t \in Threads, ThreadsOwn(t), ~\E s \in Slots : Taking(t, s) PROVE Counted'
  <2>1. jobs' = jobs /\ asked' = asked /\ server' = server
    BY <1>7 DEF ThreadsOwn, Beginning, Refusing, Completing, Leaving, Moving, Aside
  <2>2. ASSUME NEW u \in Threads
        PROVE  /\ nth'[u] + (IF Busy(u)' THEN 1 ELSE 0) <= nth[u] + (IF Busy(u) THEN 1 ELSE 0)
               /\ nth'[u] \in {nth[u], nth[u] + 1}
    <3>1. Forward(u) /\ nth[u] \in Nat
      BY <1>1, <1>7, Forwards DEF Step, ThreadsOwn
    <3>2. ~(pc[u] = "idle" /\ pc'[u] = "begin")
      <4>1. CASE u # t
        <5>1. pc'[u] = pc[u]
          BY <1>1, <1>7, <4>1, Others DEF Idem
        <5> QED
          BY <5>1
      <4>2. CASE u = t
        <5>1. pc[t] # "idle"
          BY <1>7 DEF ThreadsOwn, Beginning, Refusing, Completing, Leaving, Moving, Active
        <5> QED
          BY <4>2, <5>1
      <4> QED
        BY <4>1, <4>2
    <3> QED
      BY <3>1, <3>2 DEF Forward, Idem, Busy
  <2> QED
    BY <1>5, <2>1, <2>2
<1>8. ASSUME NEW t \in Threads, NEW s \in Slots, Taking(t, s) PROVE Counted'
  <2>1. /\ pc[t] = "idle" /\ pc' = [pc EXCEPT ![t] = "begin"] /\ nth' = nth /\ asked' = asked
        /\ jobs # <<>> /\ jobs' = Tail(jobs) /\ server' = server
    BY <1>8 DEF Taking, Aside
  <2>2. Len(jobs') + 1 = Len(jobs) /\ Len(jobs') \in Nat
    BY <1>1, <2>1
  <2>3. ASSUME NEW u \in Threads
        PROVE  nth'[u] >= 1 /\ nth'[u] + Len(jobs') + (IF Busy(u)' THEN 1 ELSE 0) <= asked + 1
    <3> DEFINE b == IF Busy(u) THEN 1 ELSE 0
               c == IF Busy(u)' THEN 1 ELSE 0
               j == Len(jobs')
               k == nth[u]
               m == Len(jobs)
    <3>1. b \in Nat /\ c \in Nat /\ c <= b + 1
      <4>1. CASE u = t
        BY <1>1, <2>1, <4>1 DEF Busy
      <4>2. CASE u # t
        BY <1>1, <2>1, <4>2 DEF Busy
      <4> QED
        BY <4>1, <4>2
    <3>2. j + 1 = m /\ j \in Nat /\ k \in Nat /\ k >= 1 /\ k + m + b <= asked + 1
      BY <1>1, <1>2, <2>2
    <3> HIDE DEF b, c, j, k, m
    <3>3. k >= 1 /\ k + j + c <= asked + 1
      BY <1>1, <3>1, <3>2
    <3> QED
      BY <2>1, <3>3 DEF k, j, c
  <2>4. asked' <= server.requests
    BY <1>2, <2>1
  <2> QED
    BY <1>1, <1>3, <2>1, <2>2, <2>3, <2>4
<1> QED
  BY <1>4, <1>6, <1>7, <1>8, Whose

\* No step leaves a thread with a piece that its credit does not cover.
LEMMA WorkingStep ==
  ASSUME Base, Step
  PROVE  Working'
<1>1. /\ pc \in [Threads -> Points] /\ at \in [Threads -> Slots \cup {None}]
      /\ nth \in [Threads -> Nat] /\ credit \in [Threads -> Nat] /\ hand \in [Threads -> Nat]
      /\ TypeOK /\ server.window \in Nat
  BY Typed, ServerFacts DEF Base
<1> SUFFICES ASSUME NEW u \in Threads PROVE Works(u)'
  BY DEF Working
<1>2. Works(u)
  BY DEF Base, Working
<1>3. ASSUME Idem(u) PROVE Works(u)'
  BY <1>2, <1>3 DEF Works, Idem, Busy, Active
<1>4. CASE LoopsOwn
  BY <1>3, <1>4, LoopIdem
<1>5. ASSUME NEW t \in Threads, ThreadsOwn(t) PROVE Works(u)'
  <2>1. CASE u # t
    BY <1>1, <1>3, <1>5, <2>1, Others
  <2>2. CASE u = t
    <3>1. ASSUME NEW s \in Slots, Taking(t, s) PROVE Works(t)'
      <4>1. /\ pc[t] = "idle" /\ pc' = [pc EXCEPT ![t] = "begin"] /\ at' = [at EXCEPT ![t] = s]
            /\ hand' = hand /\ credit' = credit
        BY <3>1 DEF Taking
      <4> QED
        BY <1>1, <1>2, <2>2, <4>1 DEF Works, Busy, Active
    <3>2. CASE Beginning(t)
      <4>1. pc[t] = "begin" /\ pc' = [pc EXCEPT ![t] = "head"] /\ UNCHANGED <<at, hand, credit>>
        BY <3>2 DEF Beginning
      <4> QED
        BY <1>1, <1>2, <2>2, <4>1 DEF Works, Busy, Active
    <3>3. CASE Refusing(t)
      <4>1. pc[t] = "begin" /\ pc' = [pc EXCEPT ![t] = "idle"] /\ UNCHANGED <<hand, credit>>
        BY <3>3 DEF Refusing
      <4> QED
        BY <1>1, <1>2, <2>2, <4>1 DEF Works, Busy, Active
    <3>4. CASE Completing(t)
      <4>1. /\ pc[t] = "head" /\ pc' = [pc EXCEPT ![t] = "pump"] /\ UNCHANGED <<at, hand>>
            /\ credit' = [credit EXCEPT ![t] = server.window]
        BY <3>4 DEF Completing
      <4> QED
        BY <1>1, <1>2, <2>2, <4>1 DEF Works, Busy, Active
    <3>5. ASSUME NEW q \in Seq(Acks), Leaving(t, q) PROVE Works(t)'
      <4>1. /\ pc' = [pc EXCEPT ![t] = "idle"] /\ hand' = [hand EXCEPT ![t] = 0]
            /\ credit' = [credit EXCEPT ![t] = 0]
        BY <3>5 DEF Leaving
      <4> QED
        BY <1>1, <4>1 DEF Works, Busy, Active
    <3>6. ASSUME NEW p \in Pumping, NEW x \in Nat, NEW c \in Nat, NEW q \in Seq(Acks),
                 NEW n \in Nat, Moving(t, p, x, c, q, n)
          PROVE  Works(t)'
      <4>1. /\ pc[t] # "idle" /\ pc' = [pc EXCEPT ![t] = p] /\ hand' = [hand EXCEPT ![t] = x]
            /\ credit' = [credit EXCEPT ![t] = c] /\ at' = at
            /\ p \in {"pump", "end"} => x = 0
            /\ p \in {"place", "full"} => x <= c
        BY <3>6 DEF Moving, Active
      <4>2. pc'[t] = p /\ hand'[t] = x /\ credit'[t] = c /\ at'[t] = at[t] /\ at[t] \in Slots
        BY <1>1, <1>2, <2>2, <4>1 DEF Works, Busy
      <4> QED
        BY <4>1, <4>2 DEF Works, Busy, Active, Pumping
    <3> QED
      BY <1>5, <2>2, <3>1, <3>2, <3>3, <3>4, <3>5, <3>6 DEF ThreadsOwn
  <2> QED
    BY <2>1, <2>2
<1> QED
  BY <1>4, <1>5, Whose

-----------------------------------------------------------------------------
(* What a step keeps: whose turn a slot is. *)

\* What a queue whose members are apart has after one more, and without its head.
LEMMA QueueFacts ==
  ASSUME NEW q \in Seq(Slots), Apart(q)
  PROVE  /\ \A s \in Slots : /\ \A z : Has(Append(q, s), z) <=> Has(q, z) \/ z = s
                             /\ ~Has(q, s) => Apart(Append(q, s))
         /\ q # <<>> => /\ \A z : Has(Tail(q), z) <=> Has(q, z) /\ z # Head(q)
                        /\ Apart(Tail(q)) /\ Has(q, Head(q)) /\ Head(q) \in Slots
<1>1. ASSUME NEW s \in Slots
      PROVE  /\ \A z : Has(Append(q, s), z) <=> Has(q, z) \/ z = s
             /\ ~Has(q, s) => Apart(Append(q, s))
  <2> DEFINE r == Append(q, s)
             n == Len(q)
  <2>1. /\ DOMAIN r = 1 .. n + 1 /\ DOMAIN q = 1 .. n /\ n \in Nat /\ r[n + 1] = s
        /\ \A i \in 1 .. n : r[i] = q[i]
    OBVIOUS
  <2>2. \A i \in 1 .. n + 1 : i \in 1 .. n \/ i = n + 1
    BY <2>1
  <2> HIDE DEF r, n
  <2>3. \A z : Has(r, z) <=> Has(q, z) \/ z = s
    <3>1. n + 1 \in 1 .. n + 1 /\ \A i \in 1 .. n : i \in 1 .. n + 1
      BY <2>1
    <3> QED
      BY <2>1, <2>2, <3>1 DEF Has
  <2>4. ~Has(q, s) => Apart(r)
    BY <2>1, <2>2 DEF Has, Apart
  <2> QED
    BY <2>3, <2>4 DEF r
<1>2. ASSUME q # <<>>
      PROVE  /\ \A z : Has(Tail(q), z) <=> Has(q, z) /\ z # Head(q)
             /\ Apart(Tail(q)) /\ Has(q, Head(q)) /\ Head(q) \in Slots
  <2> DEFINE r == Tail(q)
             n == Len(r)
  <2>1. /\ DOMAIN r = 1 .. n /\ DOMAIN q = 1 .. n + 1 /\ n \in Nat /\ q[1] = Head(q)
        /\ \A i \in 1 .. n : r[i] = q[i + 1]
        /\ Head(q) \in Slots
    BY <1>2
  <2> HIDE DEF r, n
  <2>2. \A i \in 1 .. n : i + 1 \in 1 .. n + 1 /\ i + 1 # 1
    BY <2>1
  <2>3. \A i \in 1 .. n + 1 : i = 1 \/ (i - 1 \in 1 .. n /\ (i - 1) + 1 = i)
    BY <2>1
  <2>4. 1 \in 1 .. n + 1
    BY <2>1
  <2>5. ASSUME NEW z PROVE Has(r, z) <=> Has(q, z) /\ z # Head(q)
    <3>1. ASSUME Has(r, z) PROVE Has(q, z) /\ z # Head(q)
      <4>1. PICK i \in 1 .. n : r[i] = z
        BY <2>1, <3>1 DEF Has
      <4>2. i + 1 \in DOMAIN q /\ q[i + 1] = z /\ 1 \in DOMAIN q /\ i + 1 # 1
        BY <2>1, <2>2, <2>4, <4>1
      <4> QED
        BY <2>1, <4>2 DEF Has, Apart
    <3>2. ASSUME Has(q, z), z # Head(q) PROVE Has(r, z)
      <4>1. PICK i \in 1 .. n + 1 : q[i] = z
        BY <2>1, <3>2 DEF Has
      <4>2. i - 1 \in 1 .. n /\ (i - 1) + 1 = i
        BY <2>1, <2>3, <3>2, <4>1
      <4>3. r[i - 1] = q[(i - 1) + 1]
        BY <2>1, <4>2
      <4> QED
        BY <2>1, <4>1, <4>2, <4>3 DEF Has
    <3> QED
      BY <3>1, <3>2
  <2>6. Apart(r)
    <3> SUFFICES ASSUME NEW i \in 1 .. n, NEW j \in 1 .. n, r[i] = r[j] PROVE i = j
      BY <2>1 DEF Apart
    <3>1. q[i + 1] = q[j + 1] /\ i + 1 \in DOMAIN q /\ j + 1 \in DOMAIN q
      BY <2>1, <2>2
    <3>2. i + 1 = j + 1
      BY <3>1 DEF Apart
    <3> QED
      BY <3>2
  <2>7. Has(q, Head(q))
    BY <2>1, <2>4 DEF Has
  <2> QED
    BY <2>1, <2>5, <2>6, <2>7 DEF r
<1> QED
  BY <1>1, <1>2

\* What Turns says of the state, and what a step has to show of the next one.
LEMMA TurnsFacts ==
  ASSUME Base
  PROVE  /\ jobs \in Seq(Slots) /\ ring \in Seq(Slots) /\ Apart(jobs) /\ Apart(ring)
         /\ \A s \in Slots : Has(jobs, s) \/ Has(ring, s) => slots[s].conn = "offloaded"
         /\ \A s \in Slots : ~(Has(jobs, s) /\ Has(ring, s))
         /\ \A t \in Threads : Early(t) =>
              /\ slots[at[t]].conn = "offloaded" /\ ~Has(ring, at[t]) /\ ~Has(jobs, at[t])
              /\ at[t] \in Slots
              /\ \A u \in Threads : Early(u) /\ at[u] = at[t] => u = t
<1>1. jobs \in Seq(Slots) /\ ring \in Seq(Slots)
  BY Typed DEF Base
<1>2. \A t \in Threads : Early(t) => at[t] \in Slots
  BY DEF Base, Working, Works, Early, Busy
<1> QED
  BY <1>1, <1>2 DEF Base, Turns

\* A thread whose slot is as it was, at an early point as it was.
LEMMA TurnsStep ==
  ASSUME Base, Step
  PROVE  Turns'
<1>1. /\ jobs \in Seq(Slots) /\ ring \in Seq(Slots) /\ Apart(jobs) /\ Apart(ring)
      /\ \A s \in Slots : Has(jobs, s) \/ Has(ring, s) => slots[s].conn = "offloaded"
      /\ \A s \in Slots : ~(Has(jobs, s) /\ Has(ring, s))
      /\ \A t \in Threads : Early(t) =>
           /\ slots[at[t]].conn = "offloaded" /\ ~Has(ring, at[t]) /\ ~Has(jobs, at[t])
           /\ at[t] \in Slots
           /\ \A u \in Threads : Early(u) /\ at[u] = at[t] => u = t
  BY TurnsFacts
<1>2. /\ pc \in [Threads -> Points] /\ at \in [Threads -> Slots \cup {None}] /\ TypeOK
  BY Typed DEF Base
<1>3. ASSUME NEW t \in Threads, NEW s \in Slots, Taking(t, s) PROVE Turns'
  <2>1. /\ pc[t] = "idle" /\ jobs # <<>> /\ s = Head(jobs) /\ jobs' = Tail(jobs)
        /\ pc' = [pc EXCEPT ![t] = "begin"] /\ at' = [at EXCEPT ![t] = s]
        /\ ring' = ring /\ slots' = slots
    BY <1>3 DEF Taking, Aside
  <2>2. /\ \A z : Has(jobs', z) <=> Has(jobs, z) /\ z # s
        /\ Apart(jobs') /\ Has(jobs, s)
    BY <1>1, <2>1, QueueFacts
  <2>3. \A u \in Threads \ {t} : pc'[u] = pc[u] /\ at'[u] = at[u]
    BY <1>2, <2>1
  <2>4. pc'[t] = "begin" /\ at'[t] = s
    BY <1>2, <2>1
  <2>5. ASSUME NEW u \in Threads, Early(u)'
        PROVE  /\ slots'[at'[u]].conn = "offloaded" /\ ~Has(ring', at'[u]) /\ ~Has(jobs', at'[u])
               /\ \A v \in Threads : Early(v)' /\ at'[v] = at'[u] => v = u
    <3>1. \A v \in Threads : Early(v)' => v = t \/ (Early(v) /\ at'[v] = at[v] /\ at[v] # s)
      BY <1>1, <2>2, <2>3 DEF Early
    <3>2. CASE u = t
      BY <1>1, <2>1, <2>2, <2>4, <3>1, <3>2
    <3>3. CASE u # t
      BY <1>1, <2>1, <2>2, <2>4, <2>5, <3>1, <3>3
    <3> QED
      BY <3>2, <3>3
  <2> QED
    BY <1>1, <2>1, <2>2, <2>5 DEF Turns
<1>4. ASSUME NEW t \in Threads, Refusing(t) \/ Completing(t) PROVE Turns'
  <2>1. /\ Early(t) /\ \E p \in {"idle", "pump"} : pc' = [pc EXCEPT ![t] = p]
        /\ at' = at \/ at' = [at EXCEPT ![t] = None]
        /\ ring' = Append(ring, at[t]) /\ jobs' = jobs /\ slots' = slots
    BY <1>4 DEF Refusing, Completing, Early, Aside
  <2>2. at[t] \in Slots /\ ~Has(ring, at[t]) /\ ~Has(jobs, at[t]) /\ slots[at[t]].conn = "offloaded"
    BY <1>1, <2>1
  <2>3. (\A z : Has(ring', z) <=> Has(ring, z) \/ z = at[t]) /\ Apart(ring')
    BY <1>1, <2>1, <2>2, QueueFacts
  <2>4. \A v \in Threads : Early(v)' => Early(v) /\ v # t /\ at'[v] = at[v] /\ at[v] # at[t]
    <3>1. \A v \in Threads \ {t} : pc'[v] = pc[v] /\ at'[v] = at[v]
      BY <1>2, <2>1
    <3>2. pc'[t] \in {"idle", "pump"}
      BY <1>2, <2>1
    <3> QED
      BY <1>1, <2>1, <3>1, <3>2 DEF Early
  <2>5. ASSUME NEW u \in Threads, Early(u)'
        PROVE  /\ slots'[at'[u]].conn = "offloaded" /\ ~Has(ring', at'[u]) /\ ~Has(jobs', at'[u])
               /\ \A v \in Threads : Early(v)' /\ at'[v] = at'[u] => v = u
    BY <1>1, <2>1, <2>3, <2>4, <2>5
  <2> QED
    BY <1>1, <2>1, <2>2, <2>3, <2>5 DEF Turns
<1>5. ASSUME UNCHANGED <<at, jobs, ring>> \/ (UNCHANGED <<jobs, ring>> /\ \A u \in Threads : Early(u)' => at'[u] = at[u]),
             \A u \in Threads : Early(u)' => Early(u),
             \A s \in Slots : slots'[s].conn = slots[s].conn
      PROVE  Turns'
  <2>1. \A u \in Threads : Early(u)' => Early(u) /\ at'[u] = at[u]
    BY <1>5
  <2>2. ASSUME NEW u \in Threads, Early(u)'
        PROVE  /\ slots'[at'[u]].conn = "offloaded" /\ ~Has(ring', at'[u]) /\ ~Has(jobs', at'[u])
               /\ \A v \in Threads : Early(v)' /\ at'[v] = at'[u] => v = u
    BY <1>1, <1>5, <2>1, <2>2
  <2> QED
    BY <1>1, <1>5, <2>2 DEF Turns
<1>6. ASSUME NEW t \in Threads,
             \/ Beginning(t) \/ (\E q \in Seq(Acks) : Leaving(t, q))
             \/ \E p \in Pumping, x \in Nat, c \in Nat, q \in Seq(Acks), n \in Nat :
                  Moving(t, p, x, c, q, n)
      PROVE  Turns'
  <2>1. UNCHANGED <<jobs, ring, slots>>
    BY <1>6 DEF Beginning, Leaving, Moving, Aside
  <2>2. \A u \in Threads \ {t} : Idem(u)
    BY <1>2, <1>6, Others DEF ThreadsOwn
  <2>3. Early(t)' => Early(t) /\ at'[t] = at[t]
    BY <1>2, <1>6 DEF Beginning, Leaving, Moving, Early, Pumping
  <2>4. \A u \in Threads : Early(u)' => Early(u) /\ at'[u] = at[u]
    BY <2>2, <2>3 DEF Idem, Early
  <2> QED
    BY <1>5, <2>1, <2>4
<1>7. ASSUME NEW s \in Slots, Retrying(s) PROVE Turns'
  <2>1. UNCHANGED <<pc, at, jobs, ring>>
    BY <1>7 DEF Retrying
  <2>2. slots'[s] = [slots[s] EXCEPT !.owed = 0] /\ slots' = [slots EXCEPT ![s].owed = 0]
        /\ slots \in [Slots -> Records]
    BY <1>2, <1>7, TypeRetrying, Typed DEF Retrying
  <2>3. slots'[s].conn = slots[s].conn
    BY <2>2 DEF Records
  <2>4. \A z \in Slots : slots'[z].conn = slots[z].conn
    BY <2>2, <2>3
  <2> QED
    BY <1>5, <2>1, <2>4 DEF Early
<1>8. ASSUME NEW l \in Registries, Resting(l) PROVE Turns'
  <2>1. UNCHANGED <<pc, at, jobs, ring, slots>>
    BY <1>8 DEF Resting
  <2> QED
    BY <1>5, <2>1 DEF Early
<1>9. ASSUME NEW s \in Slots, Asking(s) PROVE Turns'
  <2>1. /\ slots[s].conn \in {"unused", "ready"} /\ jobs' = Append(jobs, s)
        /\ \A z \in Slots \ {s} : slots'[z] = slots[z]
        /\ slots'[s].conn = "offloaded" /\ UNCHANGED <<pc, at, ring>>
    BY <1>9 DEF Asking
  <2>2. ~Has(jobs, s) /\ ~Has(ring, s) /\ \A u \in Threads : Early(u) => at[u] # s
    BY <1>1, <2>1
  <2>3. (\A z : Has(jobs', z) <=> Has(jobs, z) \/ z = s) /\ Apart(jobs')
    BY <1>1, <2>1, <2>2, QueueFacts
  <2>4. \A u \in Threads : Early(u)' <=> Early(u)
    BY <2>1 DEF Early
  <2>5. ASSUME NEW u \in Threads, Early(u)'
        PROVE  /\ slots'[at'[u]].conn = "offloaded" /\ ~Has(ring', at'[u]) /\ ~Has(jobs', at'[u])
               /\ \A v \in Threads : Early(v)' /\ at'[v] = at'[u] => v = u
    BY <1>1, <2>1, <2>2, <2>3, <2>4, <2>5
  <2> QED
    BY <1>1, <2>1, <2>2, <2>3, <2>5 DEF Turns
<1>10. ASSUME NEW s \in Slots, NEW l \in Registries, NEW n \in Nat, Turn(s, l, n) PROVE Turns'
  <2>1. /\ \/ slots[s].conn = "offloaded" /\ ring # <<>> /\ s = Head(ring) /\ ring' = Tail(ring)
           \/ slots[s].conn # "offloaded" /\ ring' = ring
        /\ \A z \in Slots \ {s} : slots'[z] = slots[z]
        /\ UNCHANGED <<pc, at, jobs>>
    BY <1>10 DEF Turn
  <2>2. /\ Apart(ring') /\ \A z : Has(ring', z) => Has(ring, z) /\ z # s
        /\ ~Has(jobs, s) /\ \A u \in Threads : Early(u) => at[u] # s
    <3>1. CASE ring # <<>> /\ s = Head(ring) /\ ring' = Tail(ring)
      <4>1. (\A z : Has(ring', z) <=> Has(ring, z) /\ z # s) /\ Apart(ring') /\ Has(ring, s)
        BY <1>1, <3>1, QueueFacts
      <4> QED
        BY <1>1, <4>1
    <3>2. CASE slots[s].conn # "offloaded" /\ ring' = ring
      BY <1>1, <3>2
    <3> QED
      BY <2>1, <3>1, <3>2
  <2>3. \A u \in Threads : Early(u)' <=> Early(u)
    BY <2>1 DEF Early
  <2>4. ASSUME NEW u \in Threads, Early(u)'
        PROVE  /\ slots'[at'[u]].conn = "offloaded" /\ ~Has(ring', at'[u]) /\ ~Has(jobs', at'[u])
               /\ \A v \in Threads : Early(v)' /\ at'[v] = at'[u] => v = u
    BY <1>1, <2>1, <2>2, <2>3, <2>4
  <2> QED
    BY <1>1, <2>1, <2>2, <2>4 DEF Turns
<1> QED
  BY <1>3, <1>4, <1>6, <1>7, <1>8, <1>9, <1>10 DEF Step

-----------------------------------------------------------------------------
(* What a step keeps: the streams waited for, and the frames. *)

\* The loop answers the slot at the head of the ring.
Popped(s) ==
  /\ slots[s].conn = "offloaded" /\ ring # <<>> /\ s = Head(ring) /\ Has(ring, s)
  /\ chunk' = <<>> \/ parked[s] = 0
  /\ \E l \in Registries, n \in Nat : Turn(s, l, n)

\* A slot waits for its stream until the loop answers it.
LEMMA WaitingStep ==
  ASSUME Base, Step, NEW s \in Slots, NEW g \in Gens, Waiting(s, g)
  PROVE  Waiting(s, g)' \/ Popped(s)
<1>1. /\ pc \in [Threads -> Points] /\ at \in [Threads -> Slots \cup {None}]
      /\ nth \in [Threads -> Nat] /\ TypeOK /\ parked \in [Slots -> AnyGen]
  BY Typed DEF Base
<1>2. /\ ring \in Seq(Slots) /\ Apart(ring)
      /\ \A t \in Threads : Early(t) =>
           /\ ~Has(ring, at[t]) /\ at[t] \in Slots
           /\ \A u \in Threads : Early(u) /\ at[u] = at[t] => u = t
  BY TurnsFacts
<1>3. ASSUME NEW u \in Threads, pc'[u] = "head", at'[u] = s, nth'[u] = nth[u], Gen(u) = g
      PROVE  Waiting(s, g)'
  <2>1. Gen(u)' = g
    BY <1>3 DEF Gen
  <2> QED
    BY <1>3, <2>1 DEF Waiting
<1>4. ASSUME Has(ring', s), parked'[s] = g PROVE Waiting(s, g)'
  BY <1>4 DEF Waiting, Has
<1>5. CASE LoopsOwn /\ ring' = ring /\ parked' = parked
  <2>1. UNCHANGED <<pc, at, nth>>
    BY <1>5, LoopIdem
  <2> QED
    BY <1>3, <1>4, <1>5, <2>1 DEF Waiting
<1>6. ASSUME NEW z \in Slots, NEW l \in Registries, NEW n \in Nat, Turn(z, l, n)
      PROVE  Waiting(s, g)' \/ Popped(s)
  <2>1. /\ \/ slots[z].conn = "offloaded" /\ ring # <<>> /\ z = Head(ring) /\ ring' = Tail(ring)
              /\ (chunk' = <<>> \/ parked[z] = 0)
           \/ slots[z].conn # "offloaded" /\ ring' = ring
        /\ \A y \in Slots \ {z} : parked'[y] = parked[y]
        /\ UNCHANGED <<pc, at, nth>>
    BY <1>6 DEF Turn
  <2>2. ring # <<>> => /\ \A y : Has(Tail(ring), y) <=> Has(ring, y) /\ y # Head(ring)
                       /\ Has(ring, Head(ring))
    BY <1>2, QueueFacts
  <2>3. CASE z = s
    <3>1. slots[s].conn = "offloaded"
      BY WaitingOne DEF Base
    <3> QED
      BY <1>6, <2>1, <2>2, <2>3, <3>1 DEF Popped
  <2>4. CASE z # s
    <3>1. Has(ring, s) => Has(ring', s)
      BY <2>1, <2>2, <2>4
    <3>2. parked'[s] = parked[s]
      BY <2>1, <2>4
    <3> QED
      BY <1>3, <1>4, <2>1, <3>1, <3>2 DEF Waiting
  <2> QED
    BY <2>3, <2>4
<1>7. ASSUME NEW t \in Threads, ThreadsOwn(t) PROVE Waiting(s, g)'
  <2>1. \A u \in Threads \ {t} : pc'[u] = pc[u] /\ at'[u] = at[u] /\ nth'[u] = nth[u]
    BY <1>1, <1>7, Others DEF Idem
  <2>2. ASSUME pc[t] # "head", Has(ring, s) => Has(ring', s) /\ parked'[s] = parked[s]
        PROVE  Waiting(s, g)'
    BY <1>3, <1>4, <2>1, <2>2 DEF Waiting
  <2>3. CASE ring' = ring /\ parked' = parked /\ pc[t] # "head"
    BY <2>2, <2>3
  <2>4. CASE \E z \in Slots : Taking(t, z)
    BY <2>3, <2>4 DEF Taking
  <2>5. CASE Beginning(t)
    BY <2>3, <2>5 DEF Beginning
  <2>6. CASE \E q \in Seq(Acks) : Leaving(t, q)
    BY <2>3, <2>6 DEF Leaving, Active
  <2>7. CASE \E p \in Pumping, x \in Nat, c \in Nat, q \in Seq(Acks), n \in Nat :
               Moving(t, p, x, c, q, n)
    BY <2>3, <2>7 DEF Moving, Active
  <2>8. CASE Refusing(t)
    <3>1. /\ pc[t] = "begin" /\ parked' = [parked EXCEPT ![at[t]] = 0]
          /\ ring' = Append(ring, at[t])
      BY <2>8 DEF Refusing
    <3>2. Early(t)
      BY <3>1 DEF Early
    <3>3. at[t] \in Slots /\ ~Has(ring, at[t])
      BY <1>2, <3>2
    <3>4. Has(ring, s) => Has(ring', s) /\ parked'[s] = parked[s]
      BY <1>1, <1>2, <3>1, <3>3, QueueFacts
    <3> QED
      BY <2>2, <3>1, <3>4
  <2>9. CASE Completing(t)
    <3>1. /\ pc[t] = "head" /\ parked' = [parked EXCEPT ![at[t]] = Gen(t)]
          /\ ring' = Append(ring, at[t])
      BY <2>9 DEF Completing
    <3>2. Early(t)
      BY <3>1 DEF Early
    <3>3. at[t] \in Slots /\ ~Has(ring, at[t]) /\ (\A z : Has(ring', z) <=> Has(ring, z) \/ z = at[t])
      BY <1>2, <3>1, <3>2, QueueFacts
    <3>4. CASE at[t] = s
      <4>1. \A u \in Threads : pc[u] = "head" /\ at[u] = s => u = t
        BY <1>2, <3>2, <3>4 DEF Early
      <4>2. Gen(t) = g
        BY <3>3, <3>4, <4>1 DEF Waiting
      <4>3. parked'[s] = g /\ Has(ring', s)
        BY <1>1, <3>1, <3>3, <3>4, <4>2
      <4> QED
        BY <1>4, <4>3
    <3>5. CASE at[t] # s
      <4>1. parked'[s] = parked[s]
        BY <1>1, <3>1, <3>5
      <4> QED
        BY <1>3, <1>4, <2>1, <3>3, <3>5, <4>1 DEF Waiting
    <3> QED
      BY <3>4, <3>5
  <2> QED
    BY <1>7, <2>4, <2>5, <2>6, <2>7, <2>8, <2>9 DEF ThreadsOwn
<1>8. CASE (\E z \in Slots : Asking(z) \/ Retrying(z)) \/ \E l \in Registries : Resting(l)
  <2>1. ring' = ring /\ parked' = parked
    BY <1>8 DEF Asking, Retrying, Resting
  <2> QED
    BY <1>5, <1>8, <2>1 DEF LoopsOwn
<1> QED
  BY <1>6, <1>7, <1>8, Whose DEF LoopsOwn

\* A thread knows its own stream.
LEMMA OwnKnown ==
  ASSUME Base, NEW t \in Threads, Busy(t), pc[t] # "begin"
  PROVE  Known(at[t], Gen(t)) /\ Gen(t) \in Gens /\ at[t] \in Slots
<1>1. Gen(t) \in Gens /\ \A u \in Threads : Its(u, Gen(t)) => u = t
  BY GenFacts, GenApart DEF Base
<1>2. at[t] \in Slots
  BY DEF Base, Working, Works
<1> QED
  BY <1>1, <1>2 DEF Known

\* A slot that is popped waits for no stream whose begin frame is still under way.
LEMMA PoppedNot ==
  ASSUME Base, NEW s \in Slots, NEW g \in Gens, Waiting(s, g), Popped(s)
  PROVE  chunk' = <<>>
<1>1. parked[s] = g /\ g # 0
  <2>1. Serving(s, g) /\ Has(ring, s)
    BY DEF Serving, Popped
  <2> QED
    BY <2>1, WaitingOne DEF Base, Gens
<1> QED
  BY <1>1 DEF Popped

\* No step leaves a frame behind whose stream is not begun or not awaited.
LEMMA FramedStep ==
  ASSUME Base, Step
  PROVE  Framed'
<1>1. /\ chunk \in Seq(Frames) /\ chunk \in Seq(Fit)
      /\ \A i \in DOMAIN chunk : chunk[i] \in Frames /\ Frameable(chunk[i])
      /\ pc \in [Threads -> Points] /\ at \in [Threads -> Slots \cup {None}]
      /\ nth \in [Threads -> Nat] /\ TypeOK
  BY Typed, ChunkFit DEF Base, Fit
<1>2. ASSUME NEW f \in Frames, Frameable(f), chunk' # <<>> PROVE Frameable(f)'
  <2>1. Known(f.slot, f.gen) /\ f.gen \in Gens /\ f.slot \in Slots
    BY <1>2 DEF Frameable, Frames
  <2>2. Known(f.slot, f.gen)'
    <3> DEFINE s == f.slot
               g == f.gen
    <3>1. Known(s, g) /\ g \in Gens
      BY <2>1
    <3> HIDE DEF s, g
    <3>2. Known(s, g)'
      BY <3>1, KnownStep
    <3> QED
      BY <3>2 DEF s, g
  <2>3. f.kind = "P" => Waiting(f.slot, f.gen)'
    <3> DEFINE s == f.slot
               g == f.gen
    <3>1. f.kind = "P" => Waiting(s, g)
      BY <1>2 DEF Frameable
    <3>2. s \in Slots /\ g \in Gens
      BY <2>1
    <3> HIDE DEF s, g
    <3>3. f.kind = "P" => Waiting(s, g)'
      BY <1>2, <3>1, <3>2, WaitingStep, PoppedNot
    <3> QED
      BY <3>3 DEF s, g
  <2> QED
    BY <1>2, <2>2, <2>3 DEF Frameable
<1>3. ASSUME \A i \in DOMAIN chunk' : \E f \in Frames : f = chunk'[i] /\ Frameable(f)'
      PROVE  Framed'
  <2> SUFFICES ASSUME NEW i \in DOMAIN chunk' PROVE Frameable(chunk[i])'
    BY DEF Framed
  <2>1. PICK f \in Frames : f = chunk'[i] /\ Frameable(f)'
    BY <1>3
  <2> QED
    BY <2>1 DEF Frameable, Known, Waiting, Has
<1>4. CASE chunk' = <<>> \/ chunk' = chunk
  <2>1. ASSUME NEW i \in DOMAIN chunk' PROVE \E f \in Frames : f = chunk'[i] /\ Frameable(f)'
    <3>1. chunk[i] \in Frames /\ Frameable(chunk[i]) /\ chunk' # <<>> /\ chunk'[i] = chunk[i]
      BY <1>1, <1>4, <2>1
    <3>2. PICK f \in Frames : Frameable(f) /\ f = chunk'[i]
      BY <3>1
    <3>3. Frameable(f)'
      BY <1>2, <3>1, <3>2
    <3> QED
      BY <3>2, <3>3
  <2> QED
    BY <1>3, <2>1
<1>5. ASSUME NEW f \in Frames, chunk' = Append(chunk, f), Frameable(f)' PROVE Framed'
  <2>0. chunk \in Seq(Frames)
    BY <1>1
  <2>1. chunk' # <<>> /\ DOMAIN chunk' = 1 .. Len(chunk) + 1 /\ Len(chunk) \in Nat
        /\ chunk'[Len(chunk) + 1] = f
        /\ \A i \in 1 .. Len(chunk) : chunk'[i] = chunk[i] /\ i \in DOMAIN chunk
    BY <1>5, <2>0
  <2>2. ASSUME NEW i \in DOMAIN chunk' PROVE \E e \in Frames : e = chunk'[i] /\ Frameable(e)'
    <3>1. CASE i = Len(chunk) + 1
      BY <1>5, <2>1, <3>1
    <3>2. CASE i \in 1 .. Len(chunk)
      <4>1. PICK e \in Frames : e = chunk[i] /\ Frameable(e)
        BY <1>1, <2>1, <3>2
      <4>2. Frameable(e)'
        BY <1>2, <2>1, <4>1
      <4> QED
        BY <2>1, <3>2, <4>1, <4>2
    <3> QED
      BY <2>1, <2>2, <3>1, <3>2
  <2> QED
    BY <1>3, <2>2
<1>6. ASSUME NEW k \in {"P", "s", "e"}, NEW s \in Slots, NEW g \in Gens, NEW v \in Nat,
             NEW n \in Nat, chunk' = Append(chunk, Frame(k, s, g, v, n)), Known(s, g)',
             k = "s" => n <= v, k = "P" => v \in Threads /\ Waiting(s, g)'
      PROVE  Framed'
  <2>1. PICK f \in Frames : f = Frame(k, s, g, v, n)
    BY DEF Frames, Frame
  <2>2. f.kind = k /\ f.slot = s /\ f.gen = g /\ f.val = v /\ f.len = n
    BY <2>1 DEF Frame
  <2>3. Frameable(f)'
    BY <1>6, <2>2 DEF Frameable
  <2> QED
    BY <1>5, <1>6, <2>1, <2>3
<1>7. CASE LoopsOwn
  <2>1. CASE \E l : From(l)
    BY <1>4, <2>1 DEF From
  <2>2. CASE chunk' = chunk
    BY <1>4, <2>2
  <2> QED
    BY <1>7, <2>1, <2>2 DEF LoopsOwn, Asking, Retrying, Resting, Turn
<1>8. ASSUME NEW t \in Threads, ThreadsOwn(t) PROVE Framed'
  <2>0. /\ Gen(t) \in Gens /\ 0 \in Nat /\ t \in Nat
        /\ \A u \in Threads : Its(u, Gen(t)) => u = t
    BY GenFacts, GenApart, ServerFacts DEF Base
  <2>1. CASE chunk' = chunk
    BY <1>4, <2>1
  <2>2. CASE \E z \in Slots : Taking(t, z)
    BY <2>1, <2>2 DEF Taking
  <2>3. CASE Refusing(t) \/ Completing(t)
    BY <2>1, <2>3 DEF Refusing, Completing
  <2>4. CASE Beginning(t)
    <3> DEFINE s == at[t]
               g == Gen(t)
    <3>1. /\ pc[t] = "begin" /\ pc' = [pc EXCEPT ![t] = "head"] /\ at' = at /\ nth' = nth
          /\ chunk' = Append(chunk, Frame("P", s, g, t, 0))
      BY <2>4 DEF Beginning
    <3>2. s \in Slots /\ pc'[t] = "head" /\ at'[t] = s /\ Gen(t)' = g
      BY <1>1, <3>1 DEF Base, Working, Works, Busy, Gen
    <3>3. PICK x \in Slots, y \in Gens : x = s /\ y = g
      BY <2>0, <3>2
    <3>4. Waiting(x, y)'
      BY <3>2, <3>3 DEF Waiting
    <3>5. Known(x, y)'
      BY <2>0, <3>2, <3>3 DEF Known, Busy, Its, Low
    <3> QED
      BY <1>6, <2>0, <3>1, <3>3, <3>4, <3>5
  <2>5. ASSUME Active(t) PROVE \E x \in Slots, y \in Gens : x = at[t] /\ y = Gen(t) /\ Known(x, y)'
    <3>1. Known(at[t], Gen(t)) /\ Gen(t) \in Gens /\ at[t] \in Slots
      BY <2>5, OwnKnown DEF Active, Busy
    <3>2. PICK x \in Slots, y \in Gens : x = at[t] /\ y = Gen(t)
      BY <3>1
    <3>3. Known(x, y)'
      BY <3>1, <3>2, KnownStep
    <3> QED
      BY <3>2, <3>3
  <2>6. ASSUME NEW q \in Seq(Acks), Leaving(t, q) PROVE Framed'
    <3>1. Active(t) /\ (chunk' = chunk \/ chunk' = Append(chunk, Frame("e", at[t], Gen(t), 0, 0)))
      BY <2>6 DEF Leaving
    <3>2. PICK x \in Slots, y \in Gens : x = at[t] /\ y = Gen(t) /\ Known(x, y)'
      BY <2>5, <3>1
    <3> QED
      BY <1>6, <2>0, <2>1, <3>1, <3>2
  <2>7. ASSUME NEW p \in Pumping, NEW x \in Nat, NEW c \in Nat, NEW q \in Seq(Acks),
               NEW n \in Nat, Moving(t, p, x, c, q, n)
        PROVE  Framed'
    <3>1. /\ Active(t)
          /\ \/ chunk' = chunk
             \/ \E v \in Nat : n <= v /\ chunk' = Append(chunk, Frame("s", at[t], Gen(t), v, n))
      BY <2>7 DEF Moving
    <3>2. PICK y \in Slots, z \in Gens : y = at[t] /\ z = Gen(t) /\ Known(y, z)'
      BY <2>5, <3>1
    <3>3. CASE chunk' = chunk
      BY <2>1, <3>3
    <3>4. ASSUME NEW v \in Nat, n <= v, chunk' = Append(chunk, Frame("s", at[t], Gen(t), v, n))
          PROVE  Framed'
      BY <1>6, <3>2, <3>4
    <3> QED
      BY <3>1, <3>3, <3>4
  <2> QED
    BY <1>8, <2>2, <2>3, <2>4, <2>6, <2>7 DEF ThreadsOwn
<1> QED
  BY <1>7, <1>8, Whose

-----------------------------------------------------------------------------
(* What a step keeps: a slot's record and its stream in the registry. *)

\* A slot serves its stream until the loop takes it from the ring, or from the slot.
LEMMA ServingStep ==
  ASSUME Base, Step, NEW s \in Slots, NEW g \in Gens, Serving(s, g),
         slots[s].sse => slots'[s].sse /\ slots'[s].gen = slots[s].gen,
         Has(ring, s) => Has(ring', s)
  PROVE  Serving(s, g)'
<1>1. ~Popped(s)
  <2> SUFFICES ASSUME Popped(s) PROVE FALSE
    OBVIOUS
  <2>1. slots[s].conn = "offloaded" /\ ring # <<>> /\ s = Head(ring) /\ Has(ring, s)
        /\ \E l \in Registries, n \in Nat : Turn(s, l, n)
    BY DEF Popped
  <2>2. ring' = Tail(ring)
    BY <2>1 DEF Turn
  <2>3. ring \in Seq(Slots) /\ Apart(ring)
    BY TurnsFacts
  <2>4. ~Has(ring', s)
    BY <2>1, <2>2, <2>3, QueueFacts
  <2> QED
    BY <2>1, <2>4
<1>2. CASE Waiting(s, g)
  <2>1. Waiting(s, g)'
    BY <1>1, <1>2, WaitingStep
  <2> QED
    BY <2>1 DEF Serving
<1>3. CASE slots[s].sse /\ slots[s].gen = g
  BY <1>3 DEF Serving
<1> QED
  BY <1>2, <1>3 DEF Serving

\* A registry that is sound for a slot stays so, and so does a slot's record.
LEMMA RegisteredStep ==
  ASSUME Base, Step, NEW s \in Slots, NEW l \in Registries, Registered(l, s),
         Same(handler', l, s),
         slots[s].sse => slots'[s].sse /\ slots'[s].gen = slots[s].gen,
         Has(ring, s) => Has(ring', s)
  PROVE  Registered(handler, s)'
<1>1. l.gen[s] \in AnyGen
  BY DEF Registries
<1>2. l.gen[s] # 0 => l.gen[s] \in Gens
  BY <1>1 DEF AnyGen
<1>3. /\ l.gen[s] # 0 => Known(s, l.gen[s])
      /\ l.sub[s] = None => l.pending[s] = <<>>
      /\ l.sub[s] # None => l.gen[s] # 0 /\ Serving(s, l.gen[s])
  BY DEF Registered
<1>4. /\ handler'.gen[s] = l.gen[s] /\ handler'.sub[s] = l.sub[s]
      /\ handler'.pending[s] = l.pending[s]
  BY DEF Same
<1>5. CASE l.gen[s] = 0
  BY <1>3, <1>4, <1>5 DEF Registered
<1>6. CASE l.gen[s] # 0
  <2>1. PICK g \in Gens : g = l.gen[s]
    BY <1>2, <1>6
  <2>2. Known(s, g)'
    BY <1>3, <1>6, <2>1, KnownStep
  <2>3. l.sub[s] # None => Serving(s, g)'
    BY <1>3, <2>1, ServingStep
  <2>4. g = handler'.gen[s]
    BY <1>4, <2>1
  <2>5. Known(s, handler.gen[s])'
    BY <2>2, <2>4 DEF Known
  <2>6. l.sub[s] # None => Serving(s, handler.gen[s])'
    BY <2>3, <2>4 DEF Serving, Waiting
  <2> QED
    BY <1>3, <1>4, <1>6, <2>5, <2>6 DEF Registered
<1> QED
  BY <1>5, <1>6

LEMMA OwnedStep ==
  ASSUME Base, Step, NEW s \in Slots,
         slots'[s].gen \in {0, slots[s].gen, parked[s]},
         \/ parked'[s] \in {0, parked[s]}
         \/ \E g \in Gens : parked'[s] = g /\ Known(s, g)
  PROVE  Owned(s)'
<1>1. /\ slots[s].gen \in AnyGen /\ parked[s] \in AnyGen
  <2>1. slots \in [Slots -> Records] /\ parked \in [Slots -> AnyGen]
    BY Typed DEF Base
  <2>2. slots[s] \in Records /\ parked[s] \in AnyGen
    BY <2>1
  <2> QED
    BY <2>2 DEF Records
<1>2. /\ slots[s].gen # 0 => Known(s, slots[s].gen)
      /\ parked[s] # 0 => Known(s, parked[s])
  BY DEF Base, Settled, Owned
<1>3. \A g \in Gens : Known(s, g) => Known(s, g)'
  BY KnownStep
<1>4. ASSUME slots'[s].gen # 0 PROVE Known(s, slots[s].gen)'
  <2>1. PICK g \in Gens : g = slots'[s].gen /\ Known(s, g)
    BY <1>1, <1>2, <1>4 DEF AnyGen
  <2>2. Known(s, g)'
    BY <1>3, <2>1
  <2> QED
    BY <2>1, <2>2 DEF Known
<1>5. ASSUME parked'[s] # 0 PROVE Known(s, parked[s])'
  <2>1. PICK g \in Gens : g = parked'[s] /\ Known(s, g)
    BY <1>1, <1>2, <1>5 DEF AnyGen
  <2>2. Known(s, g)'
    BY <1>3, <2>1
  <2> QED
    BY <2>1, <2>2 DEF Known
<1> QED
  BY <1>4, <1>5 DEF Owned

\* A thread answers its own slot and no other.
LEMMA ThreadsRing ==
  ASSUME Base, NEW t \in Threads, ThreadsOwn(t)
  PROVE  /\ slots' = slots /\ handler' = handler /\ server' = server
         /\ \A s \in Slots : /\ Has(ring, s) => Has(ring', s)
                             /\ \/ parked'[s] \in {0, parked[s]}
                                \/ s = at[t] /\ pc[t] = "head" /\ parked'[s] = Gen(t)
<1>1. slots' = slots /\ handler' = handler /\ server' = server
  BY DEF ThreadsOwn, Taking, Beginning, Refusing, Completing, Leaving, Moving, Aside
<1>2. ring \in Seq(Slots) /\ Apart(ring) /\ parked \in [Slots -> AnyGen]
  BY TurnsFacts, Typed DEF Base
<1>3. CASE ring' = ring /\ parked' = parked
  BY <1>1, <1>2, <1>3
<1>4. CASE Refusing(t) \/ Completing(t)
  <2>1. /\ pc[t] \in {"begin", "head"} /\ ring' = Append(ring, at[t])
        /\ \/ parked' = [parked EXCEPT ![at[t]] = 0]
           \/ pc[t] = "head" /\ parked' = [parked EXCEPT ![at[t]] = Gen(t)]
    BY <1>4 DEF Refusing, Completing
  <2>2. at[t] \in Slots
    BY <2>1 DEF Base, Working, Works, Busy
  <2>3. \A s \in Slots : Has(ring, s) => Has(ring', s)
    BY <1>2, <2>1, <2>2, QueueFacts
  <2> QED
    BY <1>1, <1>2, <2>1, <2>2, <2>3
<1> QED
  BY <1>3, <1>4 DEF ThreadsOwn, Taking, Beginning, Leaving, Moving

\* No step leaves a slot with a stream that was not begun for it.
LEMMA SettledStep ==
  ASSUME Base, Step
  PROVE  Settled'
<1>1. /\ ring \in Seq(Slots) /\ Apart(ring) /\ parked \in [Slots -> AnyGen]
      /\ slots \in [Slots -> Records] /\ handler \in Registries /\ TypeOK
  BY TurnsFacts, Typed DEF Base
<1>2. \A s \in Slots : Shaped(slots[s]) /\ Owned(s) /\ Registered(handler, s)
  BY DEF Base, Settled
<1>3. ASSUME NEW s \in Slots, NEW l \in Registries, Registered(l, s), Same(handler', l, s),
             slots'[s].conn = slots[s].conn, slots'[s].sse = slots[s].sse,
             slots'[s].gen = slots[s].gen,
             Has(ring, s) => Has(ring', s),
             \/ parked'[s] \in {0, parked[s]}
             \/ \E g \in Gens : parked'[s] = g /\ Known(s, g)
      PROVE  Shaped(slots[s])' /\ Owned(s)' /\ Registered(handler, s)'
  <2>1. Shaped(slots[s])'
    BY <1>2, <1>3 DEF Shaped
  <2>2. Owned(s)'
    BY <1>3, OwnedStep
  <2>3. Registered(handler, s)'
    BY <1>3, RegisteredStep
  <2> QED
    BY <2>1, <2>2, <2>3
<1>4. \A s : Same(handler, handler, s)
  BY DEF Same
<1>5. ASSUME NEW t \in Threads, ThreadsOwn(t) PROVE Settled'
  <2>1. /\ slots' = slots /\ handler' = handler
        /\ \A s \in Slots : /\ Has(ring, s) => Has(ring', s)
                            /\ \/ parked'[s] \in {0, parked[s]}
                               \/ s = at[t] /\ pc[t] = "head" /\ parked'[s] = Gen(t)
    BY <1>5, ThreadsRing
  <2>2. ASSUME NEW s \in Slots PROVE Shaped(slots[s])' /\ Owned(s)' /\ Registered(handler, s)'
    <3>1. \/ parked'[s] \in {0, parked[s]}
          \/ \E g \in Gens : parked'[s] = g /\ Known(s, g)
      <4>1. pc[t] = "head" => Known(at[t], Gen(t)) /\ Gen(t) \in Gens
        BY OwnKnown DEF Busy
      <4> QED
        BY <2>1, <4>1
    <3>2. Same(handler', handler, s)
      BY <1>4, <2>1
    <3> QED
      BY <1>1, <1>2, <1>3, <2>1, <3>1, <3>2
  <2> QED
    BY <2>2 DEF Settled
<1>6. ASSUME NEW l \in Registries, Resting(l) PROVE Settled'
  <2>1. /\ UNCHANGED <<ring, parked, slots>> /\ From(l) /\ \A s \in Slots : Same(handler', l, s)
    BY <1>6 DEF Resting
  <2>2. \A s \in Slots : Registered(l, s)
    BY <2>1, FromFacts DEF Base
  <2> QED
    BY <1>3, <2>1, <2>2 DEF Settled
<1>7. ASSUME NEW z \in Slots, Asking(z) PROVE Settled'
  <2>1. /\ UNCHANGED <<ring, parked, handler>>
        /\ slots[z].conn \in {"unused", "ready"}
        /\ \A y \in Slots \ {z} : slots'[y] = slots[y]
        /\ slots'[z].conn = "offloaded" /\ slots'[z].sse = slots[z].sse
        /\ \/ slots[z].conn = "unused" /\ slots'[z].gen = 0
           \/ slots[z].conn = "ready" /\ slots'[z].gen = slots[z].gen
    BY <1>7 DEF Asking
  <2>2. ~slots[z].sse /\ slots'[z].gen = 0
    BY <1>2, <2>1 DEF Shaped
  <2>3. Shaped(slots[z])' /\ Owned(z)' /\ Registered(handler, z)'
    <3>1. Shaped(slots[z])'
      BY <2>1, <2>2 DEF Shaped
    <3>2. Owned(z)'
      BY <2>1, <2>2, OwnedStep
    <3>3. Registered(handler, z)'
      <4>1. Same(handler', handler, z) /\ Registered(handler, z)
        BY <1>2, <1>4, <2>1
      <4>2. Has(ring, z) => Has(ring', z)
        BY <2>1
      <4> QED
        BY <1>1, <2>2, <4>1, <4>2, RegisteredStep
    <3> QED
      BY <3>1, <3>2, <3>3
  <2>4. ASSUME NEW s \in Slots \ {z}
        PROVE  Shaped(slots[s])' /\ Owned(s)' /\ Registered(handler, s)'
    <3>1. s \in Slots /\ Same(handler', handler, s) /\ Registered(handler, s)
      BY <1>2, <1>4, <2>1
    <3>2. slots'[s] = slots[s] /\ (Has(ring, s) => Has(ring', s)) /\ parked'[s] = parked[s]
      BY <2>1
    <3> QED
      BY <1>1, <1>3, <3>1, <3>2
  <2> QED
    BY <2>3, <2>4 DEF Settled
<1>8. ASSUME NEW z \in Slots, Retrying(z) PROVE Settled'
  <2>1. UNCHANGED <<ring, parked, handler>> /\ slots' = [slots EXCEPT ![z].owed = 0]
    BY <1>8 DEF Retrying
  <2>2. slots'[z] = [slots[z] EXCEPT !.owed = 0]
    BY <1>1, <1>8, TypeRetrying DEF Retrying
  <2>3. ASSUME NEW s \in Slots
        PROVE  /\ slots'[s].conn = slots[s].conn /\ slots'[s].sse = slots[s].sse
               /\ slots'[s].gen = slots[s].gen
    <3>1. CASE s = z
      BY <1>1, <2>2, <3>1 DEF Records
    <3>2. CASE s # z
      BY <1>1, <2>1, <3>2
    <3> QED
      BY <3>1, <3>2
  <2>4. ASSUME NEW s \in Slots PROVE Shaped(slots[s])' /\ Owned(s)' /\ Registered(handler, s)'
    <3>1. Same(handler', handler, s) /\ Registered(handler, s)
      BY <1>2, <1>4, <2>1
    <3>2. (Has(ring, s) => Has(ring', s)) /\ parked'[s] = parked[s]
      BY <2>1
    <3> QED
      BY <1>1, <1>3, <2>3, <3>1, <3>2
  <2> QED
    BY <2>4 DEF Settled
<1>9. ASSUME NEW z \in Slots, NEW l \in Registries, NEW n \in Nat, Turn(z, l, n) PROVE Settled'
  <2>1. /\ \/ slots[z].conn = "offloaded" /\ ring # <<>> /\ z = Head(ring) /\ ring' = Tail(ring)
           \/ slots[z].conn # "offloaded" /\ ring' = ring
        /\ \A y \in Slots : parked'[y] \in {0, parked[y]}
        /\ \A y \in Slots \ {z} : slots'[y] = slots[y] /\ Same(handler', l, y)
        /\ From(l)
    BY <1>9 DEF Turn
  <2>2. /\ Shaped(slots'[z]) /\ slots'[z].gen \in {0, Now(z)}
        /\ handler'.gen[z] \in {0, l.gen[z]} /\ Keeps(z, l, slots'[z])
    BY <1>9 DEF Turn
  <2>3. \A s \in Slots : Registered(l, s)
    BY <2>1, FromFacts DEF Base
  <2>4. ring # <<>> => /\ \A y : Has(Tail(ring), y) <=> Has(ring, y) /\ y # Head(ring)
                       /\ Has(ring, Head(ring))
    BY <1>1, QueueFacts
  <2>5. Shaped(slots[z])' /\ Owned(z)' /\ Registered(handler, z)'
    <3>1. Shaped(slots[z])'
      BY <2>2 DEF Shaped
    <3>2. Owned(z)'
      BY <2>1, <2>2, OwnedStep DEF Now
    <3>3. l.gen[z] \in AnyGen /\ Registered(l, z)
      BY <2>3 DEF Registries
    <3>4. ASSUME handler'.gen[z] # 0 PROVE Known(z, handler.gen[z])'
      <4>1. PICK g \in Gens : g = handler'.gen[z] /\ g = l.gen[z]
        BY <2>2, <3>3, <3>4 DEF AnyGen
      <4>2. Known(z, g)'
        BY <3>3, <4>1, KnownStep DEF Registered, Gens
      <4> QED
        BY <4>1, <4>2 DEF Known
    <3>5. CASE handler'.sub[z] = None
      <4>1. handler'.pending[z] = <<>>
        BY <2>2, <3>5 DEF Keeps
      <4>2. handler'.gen[z] # 0 => Known(z, handler.gen[z])'
        BY <3>4
      <4> QED
        BY <3>1, <3>2, <3>5, <4>1, <4>2 DEF Registered
    <3>6. CASE handler'.sub[z] # None
      <4>1. /\ handler'.sub[z] = l.sub[z] /\ handler'.gen[z] = l.gen[z]
            /\ slots'[z].sse /\ slots'[z].gen = Now(z)
        BY <2>2, <3>6 DEF Keeps
      <4>2. l.gen[z] # 0 /\ Serving(z, l.gen[z])
        BY <3>3, <3>6, <4>1 DEF Registered
      <4>3. Now(z) = l.gen[z]
        <5> DEFINE g == l.gen[z]
        <5>1. Serving(z, g)
          BY <4>2
        <5> HIDE DEF g
        <5>2. CASE slots[z].conn = "offloaded"
          <6>1. Has(ring, z)
            BY <2>1, <2>4, <5>2
          <6>2. parked[z] = g
            BY <5>1, <6>1, WaitingOne DEF Base
          <6> QED
            BY <5>2, <6>2 DEF Now, g
        <5>3. CASE slots[z].conn # "offloaded"
          <6>1. slots[z].gen = g
            BY <5>1, <5>3, WaitingOne DEF Base
          <6> QED
            BY <5>3, <6>1 DEF Now, g
        <5> QED
          BY <5>2, <5>3
      <4>4. Serving(z, handler.gen[z])'
        BY <4>1, <4>3 DEF Serving
      <4> QED
        <5>1. handler'.gen[z] # 0 => Known(z, handler.gen[z])'
          BY <3>4
        <5>2. handler'.gen[z] # 0
          BY <4>1, <4>2
        <5> QED
          BY <3>1, <3>2, <3>6, <4>4, <5>1, <5>2 DEF Registered
    <3> QED
      BY <3>1, <3>2, <3>5, <3>6
  <2>6. ASSUME NEW s \in Slots \ {z}
        PROVE  Shaped(slots[s])' /\ Owned(s)' /\ Registered(handler, s)'
    <3>1. s \in Slots /\ Same(handler', l, s) /\ Registered(l, s) /\ slots'[s] = slots[s]
      BY <2>1, <2>3
    <3>2. (Has(ring, s) => Has(ring', s)) /\ parked'[s] \in {0, parked[s]}
      BY <2>1, <2>4
    <3> QED
      BY <1>3, <3>1, <3>2
  <2> QED
    BY <2>5, <2>6 DEF Settled
<1> QED
  BY <1>5, <1>6, <1>7, <1>8, <1>9, Whose DEF LoopsOwn

-----------------------------------------------------------------------------
(* What a step keeps: what the threads hear. *)

\* Acks stay proper with one more.
LEMMA ProperMore ==
  ASSUME NEW q \in Seq(Acks), Proper(q), NEW a \in Acks, a[2] >= 1 \/ a[2] = -1
  PROVE  Proper(Append(q, a)) /\ Append(q, a) \in Seq(Acks)
<1> DEFINE r == Append(q, a)
           n == Len(q)
<1>1. /\ r \in Seq(Acks) /\ DOMAIN r = 1 .. n + 1 /\ DOMAIN q = 1 .. n /\ n \in Nat
      /\ r[n + 1] = a /\ \A i \in 1 .. n : r[i] = q[i]
  OBVIOUS
<1>2. \A i \in 1 .. n + 1 : i \in 1 .. n \/ i = n + 1
  BY <1>1
<1> HIDE DEF r, n
<1>3. Proper(r)
  BY <1>1, <1>2 DEF Proper
<1> QED
  BY <1>1, <1>3 DEF r

LEMMA AckOf ==
  ASSUME NEW s \in Slots, NEW n \in Nat, n > 0
  PROVE  \E a \in Acks : a = <<s, n>> /\ a[2] >= 1
<1> DEFINE a == <<s, n>>
<1>1. n \in Int /\ n >= 1
  OBVIOUS
<1>2. a \in Acks /\ a[2] = n
  BY <1>1 DEF Acks
<1> QED
  BY <1>1, <1>2

\* The slot at which a thread is active, while it hears from it.
Matched(t) ==
  \/ Has(ring, at[t]) /\ parked[at[t]] = Gen(t)
  \/ slots[at[t]].sse /\ slots[at[t]].gen = Gen(t)
  \/ slots[at[t]].conn = "unused"

\* Of the invariant, what is about a thread's ears.
LEMMA HearsFacts ==
  ASSUME Base, NEW t \in Threads
  PROVE  /\ Proper(pair[t]) /\ pair[t] \in Seq(Acks)
         /\ Early(t) => slotAckFd[at[t]] = t
         /\ Active(t) /\ slotAckFd[at[t]] = t => Matched(t)
         /\ Early(t) \/ Active(t) => at[t] \in Slots
BY Typed DEF Base, Heard, Hears, Matched, Working, Works, Early, Active, Busy

\* A thread that hears from its slot what it heard.
LEMMA HeardOn ==
  ASSUME Base, Step, NEW t \in Threads, Proper(pair'[t]),
         pc'[t] = pc[t] \/ (Active(t) /\ pc'[t] \in Pumping), at'[t] = at[t], nth'[t] = nth[t],
         Early(t) => slotAckFd'[at[t]] = slotAckFd[at[t]],
         Active(t) /\ slotAckFd'[at[t]] = t =>
           /\ slotAckFd[at[t]] = t
           /\ slots'[at[t]].sse = slots[at[t]].sse /\ slots'[at[t]].gen = slots[at[t]].gen
           /\ slots'[at[t]].conn = slots[at[t]].conn
           /\ Has(ring, at[t]) => Has(ring', at[t]) /\ parked'[at[t]] = parked[at[t]]
  PROVE  Hears(t)'
<1>1. /\ Early(t) => slotAckFd[at[t]] = t
      /\ Active(t) /\ slotAckFd[at[t]] = t => Matched(t)
  BY HearsFacts
<1>2. (Early(t)' <=> Early(t)) /\ (Active(t)' <=> Active(t))
  BY DEF Early, Active, Pumping
<1>3. Gen(t)' = Gen(t)
  BY DEF Gen
<1>4. Early(t)' => slotAckFd'[at'[t]] = t
  BY <1>1, <1>2
<1>5. Active(t)' /\ slotAckFd'[at'[t]] = t => Matched(t)'
  <2> SUFFICES ASSUME Active(t)', slotAckFd'[at'[t]] = t PROVE Matched(t)'
    OBVIOUS
  <2>1. Matched(t) /\ slots'[at[t]].sse = slots[at[t]].sse /\ slots'[at[t]].gen = slots[at[t]].gen
        /\ slots'[at[t]].conn = slots[at[t]].conn
        /\ (Has(ring, at[t]) => Has(ring', at[t]) /\ parked'[at[t]] = parked[at[t]])
    BY <1>1, <1>2
  <2> QED
    BY <1>3, <2>1 DEF Matched, Has
<1>6. Proper(pair[t])'
  BY DEF Proper
<1> QED
  BY <1>4, <1>5, <1>6 DEF Hears, Matched

\* A thread's step changes what another hears only where that one is done with the slot; ...
LEMMA HeardByThreads ==
  ASSUME Base, Step, NEW t \in Threads, ThreadsOwn(t), NEW u \in Threads, u # t
  PROVE  Hears(u)'
<1>1. /\ Idem(u) /\ pair'[u] = pair[u]
  BY Others DEF Base
<1>2. pc'[u] = pc[u] /\ at'[u] = at[u] /\ nth'[u] = nth[u]
  BY <1>1 DEF Idem
<1>3. /\ Proper(pair[u]) /\ (Early(u) => slotAckFd[at[u]] = u)
      /\ Early(u) \/ Active(u) => at[u] \in Slots
  BY HearsFacts
<1>4. /\ ring \in Seq(Slots) /\ Apart(ring) /\ parked \in [Slots -> AnyGen]
      /\ slotAckFd \in [Slots -> Threads \cup {None}] /\ jobs \in Seq(Slots) /\ Apart(jobs)
      /\ pc \in [Threads -> Points]
  BY TurnsFacts, Typed DEF Base
<1>5. slots' = slots
  BY ThreadsRing
<1>6. ASSUME Early(u) => slotAckFd'[at[u]] = slotAckFd[at[u]],
             Active(u) /\ slotAckFd'[at[u]] = u =>
               /\ slotAckFd[at[u]] = u
               /\ Has(ring, at[u]) => Has(ring', at[u]) /\ parked'[at[u]] = parked[at[u]]
      PROVE  Hears(u)'
  BY <1>1, <1>2, <1>3, <1>5, <1>6, HeardOn
<1>7. CASE UNCHANGED <<slotAckFd, ring, parked>>
  BY <1>6, <1>7
<1>8. ASSUME NEW s \in Slots, Taking(t, s) PROVE Hears(u)'
  <2>1. /\ jobs # <<>> /\ s = Head(jobs) /\ slotAckFd' = [slotAckFd EXCEPT ![s] = t]
        /\ UNCHANGED <<ring, parked>>
    BY <1>8 DEF Taking
  <2>2. Has(jobs, s)
    BY <1>4, <2>1, QueueFacts
  <2>3. Early(u) => at[u] # s
    BY <2>2, TurnsFacts
  <2>4. Early(u) => slotAckFd'[at[u]] = slotAckFd[at[u]]
    BY <1>3, <1>4, <2>1, <2>3
  <2>5. Active(u) /\ slotAckFd'[at[u]] = u => slotAckFd[at[u]] = u
    BY <1>3, <1>4, <2>1
  <2> QED
    BY <1>6, <2>1, <2>4, <2>5
<1>9. CASE Refusing(t) \/ Completing(t)
  <2>1. /\ Early(t) /\ ring' = Append(ring, at[t])
        /\ slotAckFd' = slotAckFd \/ slotAckFd' = [slotAckFd EXCEPT ![at[t]] = None]
        /\ \E g : parked' = [parked EXCEPT ![at[t]] = g]
    BY <1>9 DEF Refusing, Completing, Early
  <2>2. slotAckFd[at[t]] = t /\ at[t] \in Slots
    BY <2>1, HearsFacts
  <2>3. Early(u) => at[u] # at[t]
    BY <1>3, <2>2
  <2>4. Active(u) /\ slotAckFd'[at[u]] = u => at[u] # at[t] /\ slotAckFd[at[u]] = u
    <3>1. u # None
      BY StreamsAssumption
    <3> QED
      BY <1>3, <1>4, <2>1, <2>2, <3>1
  <2>5. Early(u) => slotAckFd'[at[u]] = slotAckFd[at[u]]
    BY <1>3, <1>4, <2>1, <2>3
  <2>6. \A z \in Slots : Has(ring, z) => Has(ring', z)
    BY <1>4, <2>1, <2>2, QueueFacts
  <2>7. \A z \in Slots : z # at[t] => parked'[z] = parked[z]
    BY <1>4, <2>1
  <2> QED
    BY <1>3, <1>6, <2>4, <2>5, <2>6, <2>7
<1> QED
  BY <1>7, <1>8, <1>9 DEF ThreadsOwn, Beginning, Leaving, Moving

\* ... it hears its own stream's acks from the slot it begins; ...
LEMMA HeardByItself ==
  ASSUME Base, Step, NEW t \in Threads, ThreadsOwn(t)
  PROVE  Hears(t)'
<1>1. /\ Proper(pair[t]) /\ (Early(t) => slotAckFd[at[t]] = t) /\ pair[t] \in Seq(Acks)
      /\ Early(t) \/ Active(t) => at[t] \in Slots
  BY HearsFacts
<1>2. /\ ring \in Seq(Slots) /\ Apart(ring) /\ parked \in [Slots -> AnyGen]
      /\ slotAckFd \in [Slots -> Threads \cup {None}]
      /\ pc \in [Threads -> Points] /\ at \in [Threads -> Slots \cup {None}]
      /\ pair \in [Threads -> Seq(Acks)] /\ nth \in [Threads -> Nat]
  BY TurnsFacts, Typed DEF Base
<1>3. ASSUME Proper(pair'[t]), pc'[t] = "idle" PROVE Hears(t)'
  BY <1>3 DEF Hears, Early, Active, Proper
<1>4. ASSUME NEW s \in Slots, Taking(t, s) PROVE Hears(t)'
  <2>1. /\ pc' = [pc EXCEPT ![t] = "begin"] /\ at' = [at EXCEPT ![t] = s]
        /\ pair' = [pair EXCEPT ![t] = <<>>] /\ slotAckFd' = [slotAckFd EXCEPT ![s] = t]
    BY <1>4 DEF Taking
  <2>2. pc'[t] = "begin" /\ at'[t] = s /\ pair'[t] = <<>> /\ slotAckFd'[s] = t
    BY <1>2, <2>1
  <2> QED
    BY <2>2 DEF Hears, Early, Active, Proper
<1>5. CASE Beginning(t)
  <2>1. pc[t] = "begin" /\ pc' = [pc EXCEPT ![t] = "head"] /\ UNCHANGED <<at, pair, slotAckFd>>
    BY <1>5 DEF Beginning
  <2>2. pc'[t] = "head" /\ Early(t)
    BY <1>2, <2>1 DEF Early
  <2> QED
    BY <1>1, <2>1, <2>2 DEF Hears, Early, Active, Proper
<1>6. CASE Refusing(t)
  <2>1. pc' = [pc EXCEPT ![t] = "idle"] /\ pair' = pair
    BY <1>6 DEF Refusing
  <2> QED
    BY <1>1, <1>2, <1>3, <2>1
<1>7. CASE Completing(t)
  <2>1. /\ pc[t] = "head" /\ pc' = [pc EXCEPT ![t] = "pump"]
        /\ parked' = [parked EXCEPT ![at[t]] = Gen(t)] /\ ring' = Append(ring, at[t])
        /\ UNCHANGED <<at, nth, pair>>
    BY <1>7 DEF Completing
  <2>2. pc'[t] = "pump" /\ at[t] \in Slots /\ Gen(t)' = Gen(t)
    BY <1>1, <1>2, <2>1 DEF Early, Gen
  <2>3. parked'[at[t]] = Gen(t) /\ Has(ring', at[t])
    BY <1>2, <2>1, <2>2, QueueFacts
  <2> QED
    BY <1>1, <2>1, <2>2, <2>3 DEF Hears, Early, Active, Proper, Has
<1>8. ASSUME NEW q \in Seq(Acks), Leaving(t, q) PROVE Hears(t)'
  <2>1. /\ pc' = [pc EXCEPT ![t] = "idle"] /\ pair' = [pair EXCEPT ![t] = q]
        /\ Proper(pair[t]) => Proper(q)
    BY <1>8 DEF Leaving
  <2>2. pair'[t] = q
    BY <1>2, <2>1
  <2> QED
    BY <1>1, <1>2, <1>3, <2>1, <2>2
<1>9. ASSUME NEW p \in Pumping, NEW x \in Nat, NEW c \in Nat, NEW q \in Seq(Acks), NEW n \in Nat,
             Moving(t, p, x, c, q, n)
      PROVE  Hears(t)'
  <2>1. /\ Active(t) /\ pc' = [pc EXCEPT ![t] = p] /\ pair' = [pair EXCEPT ![t] = q] /\ Proper(q)
        /\ UNCHANGED <<at, nth, ring, parked, slotAckFd, slots>>
    BY <1>9 DEF Moving, Aside
  <2>2. pair'[t] = q /\ pc'[t] \in Pumping
    BY <1>2, <2>1
  <2>3. Proper(pair'[t])
    BY <2>1, <2>2
  <2> QED
    BY <2>1, <2>2, <2>3, HeardOn
<1> QED
  BY <1>4, <1>5, <1>6, <1>7, <1>8, <1>9 DEF ThreadsOwn

\* ... and the loop lets a slot go before another stream has it.
LEMMA HeardByLoop ==
  ASSUME Base, Step, LoopsOwn, NEW u \in Threads
  PROVE  Hears(u)'
<1>1. UNCHANGED <<pc, at, nth>>
  BY LoopIdem
<1>2. /\ Proper(pair[u]) /\ (Early(u) => slotAckFd[at[u]] = u) /\ pair[u] \in Seq(Acks)
      /\ Early(u) \/ Active(u) => at[u] \in Slots
      /\ Active(u) /\ slotAckFd[at[u]] = u => Matched(u)
  BY HearsFacts
<1>3. /\ ring \in Seq(Slots) /\ Apart(ring) /\ parked \in [Slots -> AnyGen]
      /\ slotAckFd \in [Slots -> Threads \cup {None}] /\ slots \in [Slots -> Records]
      /\ pair \in [Threads -> Seq(Acks)] /\ u # None
      /\ \A s \in Slots : Has(ring, s) => slots[s].conn = "offloaded"
      /\ \A s \in Slots : Shaped(slots[s])
      /\ Early(u) => slots[at[u]].conn = "offloaded" /\ ~Has(ring, at[u])
  BY TurnsFacts, Typed, StreamsAssumption DEF Base, Settled
<1>4. ASSUME Proper(pair'[u]),
             Early(u) => slotAckFd'[at[u]] = slotAckFd[at[u]],
             Active(u) /\ slotAckFd'[at[u]] = u =>
               /\ slotAckFd[at[u]] = u
               /\ slots'[at[u]].sse = slots[at[u]].sse /\ slots'[at[u]].gen = slots[at[u]].gen
               /\ slots'[at[u]].conn = slots[at[u]].conn
               /\ Has(ring, at[u]) => Has(ring', at[u]) /\ parked'[at[u]] = parked[at[u]]
      PROVE  Hears(u)'
  BY <1>1, <1>4, HeardOn
<1>5. ASSUME NEW l \in Registries, Resting(l) PROVE Hears(u)'
  <2>1. UNCHANGED <<ring, parked, slotAckFd, pair, slots>>
    BY <1>5 DEF Resting
  <2> QED
    BY <1>2, <1>4, <2>1
<1>6. ASSUME NEW z \in Slots, Asking(z) PROVE Hears(u)'
  <2>1. /\ slots[z].conn \in {"unused", "ready"}
        /\ \A y \in Slots \ {z} : slots'[y] = slots[y]
        /\ \/ slots[z].conn = "unused" /\ slotAckFd' = [slotAckFd EXCEPT ![z] = None]
           \/ slots[z].conn = "ready" /\ slotAckFd' = slotAckFd
        /\ UNCHANGED <<ring, parked, pair>>
    BY <1>6 DEF Asking
  <2>2. ~slots[z].sse /\ ~Has(ring, z) /\ (Early(u) => at[u] # z)
    BY <1>3, <2>1 DEF Shaped
  <2>3. Active(u) /\ at[u] = z => slotAckFd'[z] # u
    <3>1. CASE slots[z].conn = "unused"
      BY <1>3, <2>1, <3>1
    <3>2. CASE slots[z].conn = "ready"
      BY <1>2, <2>1, <2>2, <3>2 DEF Matched
    <3> QED
      BY <2>1, <3>1, <3>2
  <2>4. \A y \in Slots \ {z} : slotAckFd'[y] = slotAckFd[y]
    BY <1>3, <2>1
  <2> QED
    BY <1>2, <1>4, <2>1, <2>2, <2>3, <2>4
<1>7. ASSUME NEW z \in Slots, Retrying(z) PROVE Hears(u)'
  <2>1. /\ UNCHANGED <<ring, parked, slotAckFd>> /\ slots' = [slots EXCEPT ![z].owed = 0]
        /\ slots[z].owed > 0
        /\ \/ pair' = pair
           \/ pair' = [pair EXCEPT ![slotAckFd[z]] = Append(@, <<z, slots[z].owed>>)]
    BY <1>7 DEF Retrying
  <2>2. slots'[z] = [slots[z] EXCEPT !.owed = 0] /\ slots[z] \in Records
    BY <1>3, <1>7, TypeRetrying
  <2>3. \A y \in Slots : /\ slots'[y].sse = slots[y].sse /\ slots'[y].gen = slots[y].gen
                         /\ slots'[y].conn = slots[y].conn
    <3>1. slots'[z].sse = slots[z].sse /\ slots'[z].gen = slots[z].gen
          /\ slots'[z].conn = slots[z].conn
      BY <2>2 DEF Records
    <3>2. \A y \in Slots \ {z} : slots'[y] = slots[y]
      BY <1>3, <2>1
    <3> QED
      BY <3>1, <3>2
  <2>4. Proper(pair'[u])
    <3>1. slots[z].owed \in Nat
      BY <2>2 DEF Records
    <3>2. PICK a \in Acks : a = <<z, slots[z].owed>> /\ a[2] >= 1
      BY <2>1, <3>1, AckOf
    <3>3. pair'[u] = pair[u] \/ pair'[u] = Append(pair[u], a)
      BY <1>3, <2>1, <3>2
    <3>4. Proper(Append(pair[u], a))
      BY <1>2, <3>2, ProperMore
    <3> QED
      BY <1>2, <3>3, <3>4
  <2> QED
    BY <1>2, <1>4, <2>1, <2>3, <2>4
<1>8. ASSUME NEW z \in Slots, NEW l \in Registries, NEW n \in Nat, Turn(z, l, n) PROVE Hears(u)'
  <2>1. /\ \/ slots[z].conn = "offloaded" /\ ring # <<>> /\ z = Head(ring) /\ ring' = Tail(ring)
           \/ slots[z].conn \notin {"offloaded", "unused"} /\ ring' = ring
        /\ \A y \in Slots \ {z} : parked'[y] = parked[y]
        /\ slotAckFd' = slotAckFd \/ slotAckFd' = [slotAckFd EXCEPT ![z] = None]
        /\ \A y \in Slots \ {z} : slots'[y] = slots[y]
        /\ \A t \in Threads : pair'[t] \in {Given(t, z, n), Append(Given(t, z, n), Gone(z))}
    BY <1>8 DEF Turn
  <2>2. Active(u) /\ at[u] = z /\ slotAckFd'[z] = u =>
          slots'[z].conn = "unused" \/ (slots'[z].sse /\ slots'[z].gen = Now(z))
    BY <1>8 DEF Turn
  <2>3. ring # <<>> => /\ \A y : Has(Tail(ring), y) <=> Has(ring, y) /\ y # Head(ring)
                       /\ Has(ring, Head(ring))
    BY <1>3, QueueFacts
  <2>4. Early(u) => at[u] # z
    BY <1>3, <2>1, <2>3
  <2>5. Proper(pair'[u])
    <3>1. Gone(z) \in Acks /\ Gone(z)[2] = -1
      BY DEF Gone, Acks
    <3>2. Given(u, z, n) \in Seq(Acks) /\ Proper(Given(u, z, n))
      <4>1. CASE n > 0 /\ slotAckFd[z] = u
        <5>1. PICK a \in Acks : a = <<z, n>> /\ a[2] >= 1
          BY <4>1, AckOf
        <5> QED
          BY <1>2, <4>1, <5>1, ProperMore DEF Given
      <4>2. CASE ~(n > 0 /\ slotAckFd[z] = u)
        BY <1>2, <4>2 DEF Given
      <4> QED
        BY <4>1, <4>2
    <3> DEFINE q == Given(u, z, n)
               a == Gone(z)
    <3> HIDE DEF q, a
    <3>3. q \in Seq(Acks) /\ Proper(q) /\ a \in Acks /\ a[2] = -1
      BY <3>1, <3>2 DEF q, a
    <3>4. Proper(Append(q, a))
      BY <3>3, ProperMore
    <3> QED
      BY <2>1, <3>3, <3>4 DEF q, a
  <2>6. CASE at[u] # z
    <3>1. Early(u) \/ Active(u) => slotAckFd'[at[u]] = slotAckFd[at[u]]
      BY <1>2, <1>3, <2>1, <2>6
    <3>2. Active(u) => /\ slots'[at[u]] = slots[at[u]] /\ parked'[at[u]] = parked[at[u]]
                       /\ Has(ring, at[u]) => Has(ring', at[u])
      BY <1>2, <2>1, <2>3, <2>6
    <3> QED
      BY <1>4, <2>5, <3>1, <3>2
  <2>7. CASE at[u] = z
    <3>1. (Active(u)' <=> Active(u)) /\ ~Early(u)' /\ Gen(u)' = Gen(u) /\ at'[u] = z
      BY <1>1, <2>4, <2>7 DEF Early, Active, Gen
    <3>2. Active(u) /\ slotAckFd'[z] = u => Matched(u)'
      <4> SUFFICES ASSUME Active(u), slotAckFd'[z] = u PROVE Matched(u)'
        OBVIOUS
      <4>1. slotAckFd[z] = u
        BY <1>3, <2>1
      <4>2. Matched(u)
        BY <1>2, <2>7, <4>1
      <4>3. Now(z) = Gen(u)
        <5>1. CASE slots[z].conn = "offloaded"
          <6>1. ~slots[z].sse
            BY <1>3, <5>1 DEF Shaped
          <6> QED
            BY <2>7, <4>2, <5>1, <6>1 DEF Matched, Now
        <5>2. CASE slots[z].conn \notin {"offloaded", "unused"}
          <6>1. ~Has(ring, z)
            BY <1>3, <5>2
          <6> QED
            BY <2>7, <4>2, <5>2, <6>1 DEF Matched, Now
        <5> QED
          BY <2>1, <5>1, <5>2
      <4> QED
        BY <2>2, <2>7, <3>1, <4>3 DEF Matched
    <3>3. Proper(pair[u])'
      BY <2>5 DEF Proper
    <3> QED
      BY <3>1, <3>2, <3>3 DEF Hears, Matched
  <2> QED
    BY <2>6, <2>7
<1> QED
  BY <1>5, <1>6, <1>7, <1>8 DEF LoopsOwn

\* No step has a thread take another stream's acks for its own.
LEMMA HeardStep ==
  ASSUME Base, Step
  PROVE  Heard'
<1>1. ASSUME NEW u \in Threads PROVE Hears(u)'
  <2>1. CASE LoopsOwn
    BY <2>1, HeardByLoop
  <2>2. ASSUME NEW t \in Threads, ThreadsOwn(t) PROVE Hears(u)'
    <3>1. CASE u = t
      BY <2>2, <3>1, HeardByItself
    <3>2. CASE u # t
      BY <2>2, <3>2, HeardByThreads
    <3> QED
      BY <3>1, <3>2
  <2> QED
    BY <2>1, <2>2, Whose
<1> QED
  BY <1>1 DEF Heard

-----------------------------------------------------------------------------
(* What a step keeps: what a stream has under way. *)

\* What a stream has under way, in this state and in the next.
LEMMA Bill ==
  ASSUME NEW t \in Threads
  PROVE  /\ UnderWay(t) = InChunk(chunk, Gen(t)) + Pend(handler, at[t], Gen(t))
                          + Owes(slots[at[t]], Gen(t)) + CreditIn(pair[t], at[t])
         /\ UnderWay(t)' = InChunk(chunk', Gen(t)') + Pend(handler', at'[t], Gen(t)')
                           + Owes(slots'[at'[t]], Gen(t)') + CreditIn(pair'[t], at'[t])
BY DEF UnderWay, Pend, Owes

\* Its parts are counts.
LEMMA PendNat ==
  ASSUME NEW h \in Registries, NEW s \in Slots, NEW g
  PROVE  Pend(h, s, g) \in Nat
<1>1. h.pending[s] \in Seq(Gens \X Nat)
  BY DEF Registries
<1> QED
  BY <1>1 DEF Pend

LEMMA OwesNat ==
  ASSUME NEW r \in Records, NEW g
  PROVE  Owes(r, g) \in Nat
BY DEF Owes, Records

LEMMA BillFacts ==
  ASSUME Base, NEW t \in Threads, Busy(t)
  PROVE  /\ at[t] \in Slots /\ Gen(t) \in Gens /\ credit[t] \in Nat
         /\ InChunk(chunk, Gen(t)) \in Nat /\ Pend(handler, at[t], Gen(t)) \in Nat
         /\ Owes(slots[at[t]], Gen(t)) \in Nat /\ CreditIn(pair[t], at[t]) \in Nat
         /\ UnderWay(t) \in Nat /\ server.window \in Nat /\ Quota(t) \in Nat
<1>1. at[t] \in Slots /\ Gen(t) \in Gens /\ credit[t] \in Nat
  BY ThreadFacts DEF Base
<1>2. /\ chunk \in Seq(Frames) /\ handler \in Registries /\ slots \in [Slots -> Records]
      /\ pair[t] \in Seq(Acks) /\ Proper(pair[t]) /\ server.window \in Nat
  BY Typed, HearsFacts, ServerFacts DEF Base
<1>3. InChunk(chunk, Gen(t)) \in Nat
  BY <1>2, InChunkFacts
<1>4. Pend(handler, at[t], Gen(t)) \in Nat
  BY <1>1, <1>2, PendNat
<1>5. Owes(slots[at[t]], Gen(t)) \in Nat
  BY <1>1, <1>2, OwesNat
<1>6. CreditIn(pair[t], at[t]) \in Nat
  BY <1>2, CreditNat
<1>7. UnderWay(t) \in Nat
  BY <1>3, <1>4, <1>5, <1>6, Bill
<1>8. Quota(t) \in Nat
  BY <1>2 DEF Quota
<1> QED
  BY <1>1, <1>2, <1>3, <1>4, <1>5, <1>6, <1>7, <1>8

\* A thread's stream is in its window.
Charge(t) == Busy(t) /\ "paid" \notin marks[t] => credit[t] + UnderWay(t) <= Quota(t)

\* It stays so while no more of it is under way.
LEMMA ChargeOn ==
  ASSUME Base, NEW t \in Threads, Charge(t), Idem(t), server' = server,
         "paid" \in marks[t] => "paid" \in marks'[t],
         Busy(t) /\ "paid" \notin marks'[t] =>
           UnderWay(t)' \in Nat /\ UnderWay(t)' <= UnderWay(t)
  PROVE  Charge(t)'
<1>1. (Busy(t)' <=> Busy(t)) /\ Quota(t)' = Quota(t) /\ credit'[t] = credit[t]
  BY DEF Idem, Busy, Quota, Early
<1> SUFFICES ASSUME Busy(t)', "paid" \notin marks'[t]
             PROVE  credit'[t] + UnderWay(t)' <= Quota(t)'
  BY DEF Charge
<1> DEFINE c == credit[t]
           a == UnderWay(t)
           b == UnderWay(t)'
           q == Quota(t)
<1>2. c + a <= q /\ b <= a /\ a \in Nat /\ b \in Nat /\ c \in Nat /\ q \in Nat
  BY <1>1, BillFacts DEF Charge
<1> HIDE DEF c, a, b, q
<1>3. c + b <= q
  BY <1>2
<1> QED
  BY <1>1, <1>3 DEF c, b, q

\* A channel holds nothing of a stream that none of its frames is of.
LEMMA InChunkNone ==
  ASSUME NEW q \in Seq(Frames), NEW g, \A i \in DOMAIN q : q[i].gen # g
  PROVE  InChunk(q, g) = 0
<1> DEFINE n == Len(q)
<1>1. PICK h \in [0 .. n -> Nat] : Sums(h, InChunk(q, g), q, Weight(g))
  BY ChunkSum
<1>2. /\ h[0] = 0 /\ h[n] = InChunk(q, g)
      /\ \A i \in 1 .. n : h[i] = h[i - 1] + Weight(g)[q[i]]
  BY <1>1 DEF Sums
<1>3. n \in Nat /\ DOMAIN q = 1 .. n /\ \A i \in 1 .. n : q[i] \in Frames
  OBVIOUS
<1> HIDE DEF n
<1>4. \A i \in 1 .. n : Weight(g)[q[i]] = 0
  BY <1>3 DEF Weight
<1> DEFINE T == {i \in 0 .. n : h[i] = 0}
<1>5. 0 \in T
  BY <1>2, <1>3
<1>6. ASSUME NEW i \in 1 .. n, i - 1 \in T PROVE i \in T
  <2>1. i \in 0 .. n /\ h[i - 1] = 0
    BY <1>3, <1>6
  <2>2. h[i] = 0
    BY <1>2, <1>4, <2>1
  <2> QED
    BY <2>1, <2>2
<1> HIDE DEF T
<1>7. \A i \in 0 .. n : i \in T
  BY <1>3, <1>5, <1>6, Along
<1>8. n \in T
  BY <1>3, <1>7
<1> QED
  BY <1>2, <1>8 DEF T

\* A thread that is idle has nothing under way, at any slot.
LEMMA NoneYet ==
  ASSUME Base, NEW t \in Threads, pc[t] = "idle", NEW s \in Slots
  PROVE  /\ InChunk(chunk, Gen(t)) = 0 /\ Pend(handler, s, Gen(t)) = 0
         /\ Owes(slots[s], Gen(t)) = 0
<1> DEFINE g == Gen(t)
<1>1. g \in Gens /\ g # 0 /\ \A z : ~Known(z, g)
  BY GenFacts, GenApart DEF Base, Busy
<1>2. chunk \in Seq(Frames) /\ \A i \in DOMAIN chunk : Frameable(chunk[i])
  BY ChunkFit DEF Base
<1> HIDE DEF g
<1>3. \A i \in DOMAIN chunk : chunk[i].gen # g
  BY <1>1, <1>2 DEF Frameable
<1>4. InChunk(chunk, g) = 0
  BY <1>2, <1>3, InChunkNone
<1>5. handler.gen[s] # g /\ slots[s].gen # g
  BY <1>1 DEF Base, Settled, Registered, Owned
<1> QED
  BY <1>4, <1>5 DEF Pend, Owes, g

\* A frame of given fields, and an ack more.
LEMMA FrameOf ==
  ASSUME NEW k \in {"P", "s", "e"}, NEW s \in Slots, NEW g \in Gens, NEW v \in Nat, NEW n \in Nat
  PROVE  \E f \in Frames : f = Frame(k, s, g, v, n) /\ f.gen = g /\ f.len = n
<1> DEFINE f == Frame(k, s, g, v, n)
<1>1. f \in Frames
  BY DEF Frames, Frame
<1>2. f.gen = g /\ f.len = n
  BY DEF Frame
<1> HIDE DEF f
<1>3. f = f
  OBVIOUS
<1> QED
  BY <1>1, <1>2, <1>3 DEF f

\* A thread's step changes nothing of another thread's stream.
LEMMA ChargedOther ==
  ASSUME Base, NEW t \in Threads, ThreadsOwn(t), NEW u \in Threads, u # t, Charge(u)
  PROVE  Charge(u)'
<1>1. Idem(u) /\ pair'[u] = pair[u] /\ marks[u] \subseteq marks'[u]
  BY Others DEF Base
<1>2. slots' = slots /\ handler' = handler /\ server' = server
  BY ThreadsRing
<1>3. /\ chunk \in Seq(Frames) /\ Gen(t) \in Gens /\ Gen(t) # Gen(u) /\ t \in Nat /\ 0 \in Nat
      /\ (Active(t) \/ pc[t] = "begin") => at[t] \in Slots
  BY Typed, ThreadFacts, GenApart DEF Base, Busy
<1>4. ASSUME Busy(u) PROVE InChunk(chunk', Gen(u)) = InChunk(chunk, Gen(u))
  <2> DEFINE g == Gen(u)
             c == InChunk(chunk, g)
  <2>0. c \in Nat
    BY <1>3, InChunkFacts
  <2>1. ASSUME NEW k \in {"P", "s", "e"}, NEW v \in Nat, NEW n \in Nat, at[t] \in Slots,
               chunk' = Append(chunk, Frame(k, at[t], Gen(t), v, n))
        PROVE  InChunk(chunk', g) = c
    <3>1. PICK f \in Frames : f = Frame(k, at[t], Gen(t), v, n) /\ f.gen # g
      BY <1>3, <2>1 DEF Frames, Frame
    <3> HIDE DEF g
    <3>2. InChunk(Append(chunk, f), g) = InChunk(chunk, g) + (IF f.gen = g THEN f.len ELSE 0)
      BY <1>3, InChunkFacts
    <3> HIDE DEF c
    <3>3. InChunk(Append(chunk, f), g) = c + 0
      BY <3>1, <3>2 DEF c
    <3> QED
      BY <2>0, <2>1, <3>1, <3>3
  <2>2. CASE chunk' = chunk
    BY <2>2
  <2>3. CASE Beginning(t)
    BY <1>3, <2>1, <2>3 DEF Beginning
  <2>4. ASSUME NEW q \in Seq(Acks), Leaving(t, q) PROVE InChunk(chunk', g) = c
    BY <1>3, <2>1, <2>2, <2>4 DEF Leaving
  <2>5. ASSUME NEW p \in Pumping, NEW x \in Nat, NEW y \in Nat, NEW q \in Seq(Acks),
               NEW n \in Nat, Moving(t, p, x, y, q, n)
        PROVE  InChunk(chunk', g) = c
    <3>1. /\ Active(t)
          /\ \/ chunk' = chunk
             \/ \E v \in Nat : chunk' = Append(chunk, Frame("s", at[t], Gen(t), v, n))
      BY <2>5 DEF Moving
    <3> QED
      BY <1>3, <2>1, <2>2, <3>1
  <2>6. CASE (\E s \in Slots : Taking(t, s)) \/ Refusing(t) \/ Completing(t)
    BY <2>2, <2>6 DEF Taking, Refusing, Completing
  <2> QED
    BY <2>3, <2>4, <2>5, <2>6 DEF ThreadsOwn
<1>5. ASSUME Busy(u) PROVE UnderWay(u)' = UnderWay(u) /\ UnderWay(u) \in Nat
  <2>1. Gen(u)' = Gen(u) /\ at'[u] = at[u]
    BY <1>1 DEF Idem, Gen
  <2>2. InChunk(chunk', Gen(u)) = InChunk(chunk, Gen(u))
    BY <1>4, <1>5
  <2> QED
    BY <1>1, <1>2, <1>5, <2>1, <2>2, Bill, BillFacts
<1>6. Busy(u) => UnderWay(u)' \in Nat /\ UnderWay(u)' <= UnderWay(u)
  <2> SUFFICES ASSUME Busy(u) PROVE UnderWay(u)' \in Nat /\ UnderWay(u)' <= UnderWay(u)
    OBVIOUS
  <2> DEFINE a == UnderWay(u)
             b == UnderWay(u)'
  <2>1. b = a /\ a \in Nat
    BY <1>5
  <2> HIDE DEF a, b
  <2>2. b \in Nat /\ b <= a
    BY <2>1
  <2> QED
    BY <2>2 DEF a, b
<1> QED
  BY <1>1, <1>2, <1>6, ChargeOn

\* ... and what it does to its own.
LEMMA ChargedItself ==
  ASSUME Base, NEW t \in Threads, ThreadsOwn(t), Charge(t)
  PROVE  Charge(t)'
<1>1. /\ pc \in [Threads -> Points] /\ at \in [Threads -> Slots \cup {None}]
      /\ nth \in [Threads -> Nat] /\ credit \in [Threads -> Nat]
      /\ pair \in [Threads -> Seq(Acks)] /\ marks \in [Threads -> SUBSET Marks]
      /\ chunk \in Seq(Frames) /\ Gen(t) \in Gens /\ t \in Nat /\ 0 \in Nat
  BY Typed, ThreadFacts DEF Base
<1>2. slots' = slots /\ handler' = handler /\ server' = server
  BY ThreadsRing
<1>3. ASSUME pc'[t] = "idle" PROVE Charge(t)'
  BY <1>3 DEF Charge, Busy
<1>4. UnderWay(t)' = InChunk(chunk', Gen(t)') + Pend(handler', at'[t], Gen(t)')
                     + Owes(slots'[at'[t]], Gen(t)') + CreditIn(pair'[t], at'[t])
  BY Bill
<1>5. UnderWay(t) = InChunk(chunk, Gen(t)) + Pend(handler, at[t], Gen(t))
                    + Owes(slots[at[t]], Gen(t)) + CreditIn(pair[t], at[t])
  BY Bill
<1>6. ASSUME NEW s \in Slots, Taking(t, s) PROVE Charge(t)'
  <2>1. /\ pc[t] = "idle" /\ pc' = [pc EXCEPT ![t] = "begin"] /\ at' = [at EXCEPT ![t] = s]
        /\ pair' = [pair EXCEPT ![t] = <<>>] /\ UNCHANGED <<nth, credit, chunk>>
    BY <1>6 DEF Taking
  <2>2. pc'[t] = "begin" /\ at'[t] = s /\ pair'[t] = <<>> /\ Gen(t)' = Gen(t)
    BY <1>1, <2>1 DEF Gen
  <2>3. credit[t] = 0
    BY <2>1 DEF Base, Working, Works, Active
  <2>4. CreditIn(<<>>, s) = 0
    BY <1>1, CreditInFacts
  <2>5. /\ InChunk(chunk, Gen(t)) = 0 /\ Pend(handler, s, Gen(t)) = 0
        /\ Owes(slots[s], Gen(t)) = 0
    BY <2>1, NoneYet
  <2>6. UnderWay(t)' = 0
    BY <1>2, <1>4, <2>1, <2>2, <2>4, <2>5
  <2>7. Quota(t)' = 0
    BY <2>2 DEF Quota, Early
  <2> QED
    BY <2>1, <2>3, <2>6, <2>7 DEF Charge
<1>7. CASE Beginning(t)
  <2>1. /\ pc[t] = "begin" /\ pc' = [pc EXCEPT ![t] = "head"]
        /\ chunk' = Append(chunk, Frame("P", at[t], Gen(t), t, 0))
        /\ UNCHANGED <<at, nth, credit, pair, marks>>
    BY <1>7 DEF Beginning
  <2>2. pc'[t] = "head" /\ Gen(t)' = Gen(t) /\ Busy(t)
    BY <1>1, <2>1 DEF Gen, Busy
  <2>3. InChunk(chunk', Gen(t)) = InChunk(chunk, Gen(t))
    <3> DEFINE g == Gen(t)
               c == InChunk(chunk, g)
    <3>1. at[t] \in Slots /\ c \in Nat
      BY <2>2, BillFacts
    <3>2. PICK f \in Frames : f = Frame("P", at[t], Gen(t), t, 0) /\ f.len = 0
      <4>1. PICK f \in Frames : f = Frame("P", at[t], Gen(t), t, 0) /\ f.gen = Gen(t) /\ f.len = 0
        BY <1>1, <3>1, FrameOf
      <4> QED
        BY <4>1
    <3> HIDE DEF g
    <3>3. InChunk(Append(chunk, f), g) = InChunk(chunk, g) + (IF f.gen = g THEN f.len ELSE 0)
      BY <1>1, InChunkFacts
    <3> HIDE DEF c
    <3>4. InChunk(Append(chunk, f), g) = c + 0
      BY <3>2, <3>3 DEF c
    <3>5. InChunk(chunk', g) = c
      BY <2>1, <3>1, <3>2, <3>4
    <3> QED
      BY <3>5 DEF c, g
  <2>4. UnderWay(t)' = UnderWay(t)
    BY <1>2, <1>4, <1>5, <2>1, <2>2, <2>3
  <2>5. Quota(t)' = Quota(t) /\ (Busy(t)' <=> Busy(t))
    BY <2>1, <2>2 DEF Quota, Early, Busy
  <2> QED
    BY <2>1, <2>4, <2>5 DEF Charge
<1>8. CASE Refusing(t)
  BY <1>1, <1>3, <1>8 DEF Refusing
<1>9. CASE Completing(t)
  <2>1. /\ pc[t] = "head" /\ pc' = [pc EXCEPT ![t] = "pump"]
        /\ credit' = [credit EXCEPT ![t] = server.window]
        /\ UNCHANGED <<at, nth, chunk, pair, marks>>
    BY <1>9 DEF Completing
  <2>2. pc'[t] = "pump" /\ Gen(t)' = Gen(t) /\ Busy(t) /\ credit'[t] = server.window
    BY <1>1, <2>1 DEF Gen, Busy
  <2>3. UnderWay(t)' = UnderWay(t) /\ UnderWay(t) \in Nat /\ server.window \in Nat
        /\ credit[t] \in Nat
    BY <1>2, <1>4, <1>5, <2>1, <2>2, BillFacts
  <2>4. Quota(t) = 0 /\ Quota(t)' = server.window
    BY <1>2, <2>1, <2>2 DEF Quota, Early
  <2> SUFFICES ASSUME "paid" \notin marks'[t]
               PROVE  credit'[t] + UnderWay(t)' <= Quota(t)'
    BY DEF Charge
  <2> DEFINE a == UnderWay(t)
             b == UnderWay(t)'
             w == server.window
             c == credit[t]
  <2>5. c + a <= 0 /\ b = a
    BY <2>1, <2>2, <2>3, <2>4 DEF Charge
  <2>6. a \in Nat /\ c \in Nat /\ w \in Nat
    BY <2>3
  <2> HIDE DEF a, b, w, c
  <2>7. w + b <= w
    BY <2>5, <2>6
  <2> QED
    BY <2>2, <2>4, <2>7 DEF b, w
<1>10. ASSUME NEW q \in Seq(Acks), Leaving(t, q) PROVE Charge(t)'
  BY <1>1, <1>3, <1>10 DEF Leaving
<1>11. ASSUME NEW p \in Pumping, NEW x \in Nat, NEW y \in Nat, NEW q \in Seq(Acks),
              NEW n \in Nat, Moving(t, p, x, y, q, n)
       PROVE  Charge(t)'
  <2>1. /\ Active(t) /\ pc' = [pc EXCEPT ![t] = p]
        /\ credit' = [credit EXCEPT ![t] = y] /\ pair' = [pair EXCEPT ![t] = q] /\ Proper(q)
        /\ y + n + CreditIn(q, at[t]) <= credit[t] + CreditIn(pair[t], at[t])
        /\ \/ n = 0 /\ chunk' = chunk
           \/ \E v \in Nat : n <= v /\ chunk' = Append(chunk, Frame("s", at[t], Gen(t), v, n))
        /\ marks[t] \subseteq marks'[t] /\ UNCHANGED <<at, nth>>
    BY <1>11 DEF Moving
  <2>2. /\ pc'[t] = p /\ credit'[t] = y /\ pair'[t] = q /\ Gen(t)' = Gen(t) /\ at'[t] = at[t]
        /\ Busy(t)
    BY <1>1, <2>1 DEF Gen, Active, Busy
  <2>3. Quota(t) = server.window /\ Quota(t)' = server.window
    BY <1>2, <2>1, <2>2 DEF Quota, Early, Active, Pumping
  <2> DEFINE g == Gen(t)
             c == InChunk(chunk, g)
             d == InChunk(chunk', g)
             h == Pend(handler, at[t], g)
             o == Owes(slots[at[t]], g)
             i == CreditIn(pair[t], at[t])
             j == CreditIn(q, at[t])
             k == credit[t]
             w == server.window
  <2>4. /\ c \in Nat /\ h \in Nat /\ o \in Nat /\ i \in Nat /\ k \in Nat /\ w \in Nat
        /\ at[t] \in Slots
    BY <2>2, BillFacts
  <2>5. j \in Nat
    BY <2>1, CreditNat
  <2>6. d = c + n
    <3>1. CASE n = 0 /\ chunk' = chunk
      BY <2>4, <3>1
    <3>2. ASSUME NEW v \in Nat, chunk' = Append(chunk, Frame("s", at[t], Gen(t), v, n))
          PROVE  d = c + n
      <4>1. PICK f \in Frames : f = Frame("s", at[t], Gen(t), v, n) /\ f.gen = Gen(t) /\ f.len = n
        <5>1. at[t] \in Slots /\ Gen(t) \in Gens
          BY <1>1, <2>4
        <5>2. "s" \in {"P", "s", "e"}
          OBVIOUS
        <5> HIDE DEF g, c, d, h, o, i, j, k, w
        <5> QED
          BY <5>1, <5>2, FrameOf
      <4>3. f.gen = g
        BY <4>1
      <4> HIDE DEF g
      <4>2. InChunk(Append(chunk, f), g) = InChunk(chunk, g) + (IF f.gen = g THEN f.len ELSE 0)
        BY <1>1, InChunkFacts
      <4> QED
        BY <3>2, <4>1, <4>2, <4>3
    <3> QED
      BY <2>1, <3>1, <3>2
  <2>7. UnderWay(t)' = d + h + o + j /\ UnderWay(t) = c + h + o + i
    BY <1>2, <1>4, <1>5, <2>2
  <2>8. y + n + j <= k + i
    BY <2>1
  <2> SUFFICES ASSUME "paid" \notin marks'[t]
               PROVE  credit'[t] + UnderWay(t)' <= Quota(t)'
    BY DEF Charge
  <2>9. k + (c + h + o + i) <= w
    BY <2>1, <2>2, <2>3, <2>7 DEF Charge
  <2> HIDE DEF g, c, d, h, o, i, j, k, w
  <2>10. y + (d + h + o + j) <= w
    BY <2>4, <2>5, <2>6, <2>8, <2>9
  <2> QED
    BY <2>2, <2>3, <2>7, <2>10 DEF w
<1> QED
  BY <1>6, <1>7, <1>8, <1>9, <1>10, <1>11 DEF ThreadsOwn

LEMMA CreditMore ==
  ASSUME NEW q \in Seq(Acks), NEW s \in Slots, NEW z \in Slots, NEW n \in Nat
  PROVE  /\ n > 0 => CreditIn(Append(q, <<z, n>>), s) = CreditIn(q, s) + (IF z = s THEN n ELSE 0)
         /\ CreditIn(Append(q, Gone(z)), s) = CreditIn(q, s)
         /\ Append(q, <<z, n>>) \in Seq(Acks) /\ CreditIn(q, s) \in Int
<1>1. /\ CreditIn(q, s) \in Int
      /\ \A a \in Acks : CreditIn(Append(q, a), s) = CreditIn(q, s) + Worth(s)[a]
  BY CreditInFacts
<1>2. PICK a \in Acks : a = <<z, n>> /\ a[1] = z /\ a[2] = n
  <2> DEFINE b == <<z, n>>
  <2>1. b \in Acks /\ b[1] = z /\ b[2] = n
    BY DEF Acks
  <2> QED
    BY <2>1
<1>3. n > 0 => Worth(s)[a] = IF z = s THEN n ELSE 0
  <2>1. a # Gone(s) \/ n = -1
    BY <1>2 DEF Gone
  <2> QED
    BY <1>2, <2>1 DEF Worth
<1>4. PICK b \in Acks : b = Gone(z) /\ b[1] = z
  <2> DEFINE b == Gone(z)
  <2>1. b \in Acks /\ b[1] = z
    BY DEF Acks, Gone
  <2> QED
    BY <2>1
<1>5. Worth(s)[b] = 0
  BY <1>4 DEF Worth
<1> DEFINE c == CreditIn(q, s)
<1>6. n > 0 => CreditIn(Append(q, a), s) = c + (IF z = s THEN n ELSE 0)
  BY <1>1, <1>3
<1>7. CreditIn(Append(q, b), s) = c
  <2>1. CreditIn(Append(q, b), s) = c + 0 /\ c \in Int
    BY <1>1, <1>5
  <2> HIDE DEF c
  <2> QED
    BY <2>1
<1>8. Append(q, a) \in Seq(Acks)
  OBVIOUS
<1> QED
  BY <1>1, <1>2, <1>4, <1>6, <1>7, <1>8

\* No more of a stream is under way after a step of the loop.
LEMMA ChargedByLoop ==
  ASSUME Base, LoopsOwn, NEW u \in Threads, Charge(u)
  PROVE  Charge(u)'
<1>1. UNCHANGED <<pc, at, nth, credit, server>> /\ Idem(u) /\ marks[u] \subseteq marks'[u]
  BY LoopIdem
<1> SUFFICES ASSUME Busy(u), "paid" \notin marks'[u]
             PROVE  UnderWay(u)' \in Nat /\ UnderWay(u)' <= UnderWay(u)
  BY <1>1, ChargeOn
<1> DEFINE s == at[u]
           g == Gen(u)
           c == InChunk(chunk, g)
           h == Pend(handler, s, g)
           o == Owes(slots[s], g)
           i == CreditIn(pair[u], s)
           c2 == InChunk(chunk', g)
           h2 == Pend(handler', s, g)
           o2 == Owes(slots'[s], g)
           i2 == CreditIn(pair'[u], s)
<1>2. s \in Slots /\ g \in Gens /\ c \in Nat /\ h \in Nat /\ o \in Nat /\ i \in Nat
  BY BillFacts
<1>3. UnderWay(u)' = c2 + h2 + o2 + i2 /\ UnderWay(u) = c + h + o + i
  <2>1. Gen(u)' = g /\ at'[u] = s
    BY <1>1 DEF Gen
  <2> QED
    BY <2>1, Bill
<1>4. ASSUME c2 \in Nat, h2 \in Nat, o2 \in Nat, i2 \in Nat,
             c2 + h2 + o2 + i2 <= c + h + o + i
      PROVE  UnderWay(u)' \in Nat /\ UnderWay(u)' <= UnderWay(u)
  <2> HIDE DEF c, h, o, i, c2, h2, o2, i2
  <2>1. c2 + h2 + o2 + i2 \in Nat
    BY <1>4
  <2> QED
    BY <1>3, <1>4, <2>1
<1>5. /\ chunk \in Seq(Frames) /\ handler \in Registries /\ slots \in [Slots -> Records]
      /\ pair \in [Threads -> Seq(Acks)] /\ pair[u] \in Seq(Acks) /\ TypeOK
      /\ slotAckFd \in [Slots -> Threads \cup {None}]
  BY Typed DEF Base
<1> HIDE DEF s, g
<1>6. ASSUME NEW l \in Registries, Resting(l)
      PROVE  UnderWay(u)' \in Nat /\ UnderWay(u)' <= UnderWay(u)
  <2>1. From(l) /\ handler' \in Registries /\ Same(handler', l, s) /\ UNCHANGED <<pair, slots>>
    BY <1>2, <1>6 DEF Resting
  <2>2. chunk' \in Seq(Frames) /\ Pend(l, s, g) + c2 <= h + c
    BY <1>2, <2>1, FromFacts DEF Base
  <2>3. h2 = Pend(l, s, g)
    BY <2>1 DEF Same, Pend
  <2>4. c2 \in Nat /\ h2 \in Nat /\ o2 = o /\ i2 = i
    BY <1>2, <2>1, <2>2, PendNat, InChunkFacts
  <2>5. h2 + c2 <= h + c
    BY <2>2, <2>3
  <2> HIDE DEF c, h, o, i, c2, h2, o2, i2
  <2>6. c2 + h2 + o2 + i2 <= c + h + o + i
    BY <1>2, <2>4, <2>5
  <2> QED
    BY <1>2, <1>4, <2>4, <2>6
<1>7. ASSUME NEW z \in Slots, Asking(z)
      PROVE  UnderWay(u)' \in Nat /\ UnderWay(u)' <= UnderWay(u)
  <2>1. /\ UNCHANGED <<chunk, pair, handler>> /\ slots' \in [Slots -> Records]
        /\ \A y \in Slots \ {z} : slots'[y] = slots[y]
        /\ slots'[z].owes = slots[z].owes /\ slots'[z].owed = slots[z].owed
        /\ slots'[z].gen \in {0, slots[z].gen}
    BY <1>7 DEF Asking
  <2>2. o2 \in Nat
    BY <1>2, <2>1, OwesNat
  <2>3. o2 <= o
    <3>1. CASE s # z
      <4>1. o2 = o
        BY <1>2, <2>1, <3>1
      <4> HIDE DEF o, o2
      <4> QED
        BY <1>2, <4>1
    <3>2. CASE s = z
      <4>1. g # 0
        BY <1>2 DEF Gens
      <4>2. o2 = 0 \/ o2 = o
        BY <2>1, <3>2, <4>1 DEF Owes
      <4> HIDE DEF o, o2
      <4> QED
        BY <1>2, <4>2
    <3> QED
      BY <3>1, <3>2
  <2>4. c2 = c /\ h2 = h /\ i2 = i
    BY <2>1
  <2> HIDE DEF c, h, o, i, c2, h2, o2, i2
  <2>5. c2 + h2 + o2 + i2 <= c + h + o + i
    BY <1>2, <2>2, <2>3, <2>4
  <2> QED
    BY <1>2, <1>4, <2>2, <2>4, <2>5
<1>8. ASSUME NEW z \in Slots, Retrying(z)
      PROVE  UnderWay(u)' \in Nat /\ UnderWay(u)' <= UnderWay(u)
  <2>1. /\ UNCHANGED <<chunk, handler>> /\ slots' = [slots EXCEPT ![z].owed = 0]
        /\ slots[z].owed > 0
        /\ \/ pair' = pair
           \/ /\ slotAckFd[z] # None
              /\ pair' = [pair EXCEPT ![slotAckFd[z]] = Append(@, <<z, slots[z].owed>>)]
              /\ at[slotAckFd[z]] = z /\ slots[z].gen # Gen(slotAckFd[z])
                   => "paid" \in marks'[slotAckFd[z]]
    BY <1>8 DEF Retrying
  <2>2. slots' \in [Slots -> Records] /\ slots'[z] = [slots[z] EXCEPT !.owed = 0]
    BY <1>8, TypeRetrying
  <2>3. slots[z] \in Records /\ slots[z].owed \in Nat /\ slots[z].owes \in Nat
    BY <1>5 DEF Records
  <2> DEFINE n == slots[z].owed
  <2>4. slots'[z].gen = slots[z].gen /\ slots'[z].owes = slots[z].owes /\ slots'[z].owed = 0
    BY <2>2, <2>3 DEF Records
  <2>5. o2 \in Nat
    BY <1>2, <2>2, OwesNat
  <2>6. pair'[u] = pair[u] \/ (slotAckFd[z] = u /\ pair'[u] = Append(pair[u], <<z, n>>)
                               /\ (s = z => slots[z].gen = g))
    <3>1. CASE /\ slotAckFd[z] = u /\ pair' = [pair EXCEPT ![u] = Append(@, <<z, n>>)]
               /\ at[u] = z /\ slots[z].gen # Gen(u) => "paid" \in marks'[u]
      <4>1. s = z => slots[z].gen = g
        BY <3>1 DEF s, g
      <4> QED
        BY <1>5, <3>1, <4>1
    <3>2. CASE pair'[u] = pair[u]
      BY <3>2
    <3> QED
      BY <1>5, <2>1, <3>1, <3>2
  <2>7. n > 0 => /\ CreditIn(Append(pair[u], <<z, n>>), s) = i + (IF z = s THEN n ELSE 0)
                 /\ n \in Nat
    BY <1>2, <1>5, <2>3, CreditMore
  <2>8. i2 = i \/ (i2 = i + n /\ s = z /\ slots[z].gen = g) \/ (i2 = i + 0 /\ s # z)
    BY <2>1, <2>6, <2>7
  <2>9. s # z => o2 = o
    <3>1. s # z => slots'[s] = slots[s]
      BY <1>2, <1>5, <2>1
    <3> QED
      BY <3>1
  <2>10. s = z /\ slots[z].gen = g => o2 + n = o
    <3>1. s = z /\ slots[z].gen = g => o2 = slots[z].owes + 0 /\ o = slots[z].owes + n
      BY <2>4 DEF Owes
    <3> QED
      BY <2>3, <3>1
  <2>11. s = z /\ slots[z].gen # g => o2 = 0 /\ o = 0
    BY <2>4 DEF Owes
  <2>12. c2 = c /\ h2 = h /\ n \in Nat
    BY <2>1, <2>3
  <2> HIDE DEF c, h, o, i, c2, h2, o2, i2, n
  <2>13. i2 \in Nat
    BY <1>2, <2>8, <2>12
  <2>14. c2 + h2 + o2 + i2 <= c + h + o + i
    BY <1>2, <2>5, <2>8, <2>9, <2>10, <2>11, <2>12
  <2> QED
    BY <1>2, <1>4, <2>5, <2>12, <2>13, <2>14
<1>9. ASSUME NEW z \in Slots, NEW l \in Registries, NEW n \in Nat, Turn(z, l, n)
      PROVE  UnderWay(u)' \in Nat /\ UnderWay(u)' <= UnderWay(u)
  <2>1. /\ From(l) /\ handler' \in Registries /\ \A y \in Slots \ {z} : Same(handler', l, y)
        /\ slots' \in [Slots -> Records] /\ \A y \in Slots \ {z} : slots'[y] = slots[y]
        /\ pair'[u] \in {Given(u, z, n), Append(Given(u, z, n), Gone(z))}
        /\ n > 0 => slots[z].conn \in {"sending", "idle"}
    BY <1>9 DEF Turn
  <2>2. \A k \in Gens :
          Pend(handler', z, k) + Owes(slots'[z], k) + (IF k = Now(z) THEN n ELSE 0)
            <= Pend(l, z, k) + Owes(slots[z], k)
    BY <1>9 DEF Turn
  <2> DEFINE p == Pend(l, s, g)
             e == Given(u, z, n)
             m == IF n > 0 /\ slotAckFd[z] = u /\ s = z THEN n ELSE 0
  <2>3. chunk' \in Seq(Frames) /\ p + c2 <= h + c
    BY <1>2, <2>1, FromFacts DEF Base
  <2>4. c2 \in Nat /\ h2 \in Nat /\ o2 \in Nat /\ p \in Nat
    BY <1>2, <2>1, <2>3, PendNat, OwesNat, InChunkFacts
  <2>5. e \in Seq(Acks) /\ CreditIn(e, s) = i + m
    <3>1. CASE n > 0 /\ slotAckFd[z] = u
      BY <1>2, <1>5, <3>1, CreditMore DEF Given
    <3>2. CASE ~(n > 0 /\ slotAckFd[z] = u)
      <4>1. e = pair[u] /\ m = 0
        BY <3>2 DEF Given
      <4>2. i = i + 0
        <5> HIDE DEF i
        <5> QED
          BY <1>2
      <4> QED
        BY <1>5, <4>1, <4>2
    <3> QED
      BY <3>1, <3>2
  <2>6. i2 = i + m
    <3> HIDE DEF e
    <3>1. CreditIn(Append(e, Gone(z)), s) = CreditIn(e, s)
      BY <1>2, <2>5, CreditMore
    <3> QED
      BY <2>1, <2>5, <3>1 DEF e
  <2>7. m \in Nat
    OBVIOUS
  <2>8. h2 + o2 + m <= p + o
    <3>1. CASE s # z
      <4>1. Same(handler', l, s) /\ slots'[s] = slots[s]
        BY <1>2, <2>1, <3>1
      <4>2. h2 = p /\ o2 = o /\ m = 0
        BY <3>1, <4>1 DEF Same, Pend
      <4> HIDE DEF h2, p, o2, o, m
      <4> QED
        BY <1>2, <2>4, <4>2
    <3>2. CASE s = z
      <4> DEFINE j == IF g = Now(z) THEN n ELSE 0
      <4>1. h2 + o2 + j <= p + o
        BY <1>2, <2>2, <3>2
      <4>2. m <= j
        <5>1. CASE n > 0 /\ slotAckFd[z] = u
          <6>1. slots[z].conn \in {"sending", "idle"}
            BY <2>1, <5>1
          <6>2. ~Early(u)
            BY <3>2, <6>1, TurnsFacts DEF s
          <6>3. Active(u)
            <7>1. pc[u] \in Points
              BY Typed DEF Base
            <7> QED
              BY <6>2, <7>1 DEF Points, Early, Active, Busy
          <6>4. slots[z].gen = g
            BY <3>2, <5>1, <6>1, <6>3, SlotFacts DEF s, g
          <6>5. g = Now(z)
            BY <6>1, <6>4 DEF Now
          <6> QED
            BY <6>5
        <5>2. CASE ~(n > 0 /\ slotAckFd[z] = u)
          BY <5>2
        <5> QED
          BY <5>1, <5>2
      <4>3. j \in Nat
        OBVIOUS
      <4> HIDE DEF h2, o2, j, p, o, m
      <4> QED
        BY <1>2, <2>4, <2>7, <4>1, <4>2, <4>3
    <3> QED
      BY <3>1, <3>2
  <2> HIDE DEF c, h, o, i, c2, h2, o2, i2, p, m
  <2>9. i2 \in Nat
    BY <1>2, <2>6, <2>7
  <2>10. c2 + h2 + o2 + i2 <= c + h + o + i
    BY <1>2, <2>3, <2>4, <2>6, <2>7, <2>8
  <2> QED
    BY <1>2, <1>4, <2>4, <2>9, <2>10
<1> QED
  BY <1>6, <1>7, <1>8, <1>9 DEF LoopsOwn

\* No step gives a stream more than its window.
LEMMA ChargedStep ==
  ASSUME Inductive, Step
  PROVE  Charged'
<1>1. Base /\ \A u \in Threads : Charge(u)
  BY DEF Inductive, Charged, Charge
<1>2. ASSUME NEW u \in Threads PROVE Charge(u)'
  <2>1. CASE LoopsOwn
    BY <1>1, <2>1, ChargedByLoop
  <2>2. ASSUME NEW t \in Threads, ThreadsOwn(t) PROVE Charge(u)'
    <3>1. CASE u = t
      BY <1>1, <2>2, <3>1, ChargedItself
    <3>2. CASE u # t
      BY <1>1, <2>2, <3>2, ChargedOther
    <3> QED
      BY <3>1, <3>2
  <2> QED
    BY <2>1, <2>2, Whose
<1> QED
  BY <1>2 DEF Charged, Charge

-----------------------------------------------------------------------------
(* The invariant, and what follows from it. *)

\* The invariant is kept, and holds at first.
LEMMA InductiveStep ==
  ASSUME Inductive, [Next]_vars
  PROVE  Inductive'
<1>1. Base
  BY DEF Inductive
<1>2. Step
  BY <1>1, Steps
<1>3. TypeOK' /\ Counted' /\ Working' /\ Turns' /\ Framed' /\ Settled' /\ Heard'
  BY <1>1, <1>2, TypeStep, CountedStep, WorkingStep, TurnsStep, FramedStep, SettledStep, HeardStep
<1>4. Charged'
  BY <1>2, ChargedStep
<1> QED
  BY <1>3, <1>4 DEF Inductive, Base

LEMMA InductiveInit ==
  ASSUME Init
  PROVE  Inductive
<1>1. /\ server \in Deployments /\ asked = 0 /\ jobs = <<>> /\ ring = <<>> /\ chunk = <<>>
      /\ posted = <<>> /\ aborts = <<>> /\ due = {}
      /\ pc = [t \in Threads |-> "idle"] /\ at = [t \in Threads |-> None]
      /\ nth = [t \in Threads |-> 1] /\ made = [t \in Threads |-> 0]
      /\ hand = [t \in Threads |-> 0] /\ credit = [t \in Threads |-> 0]
      /\ parked = [s \in Slots |-> 0] /\ slotAckFd = [s \in Slots |-> None]
      /\ pair = [t \in Threads |-> <<>>] /\ slots = [s \in Slots |-> Unused]
      /\ handler = [sub |-> [s \in Slots |-> None], pending |-> [s \in Slots |-> <<>>],
                    done |-> [s \in Slots |-> FALSE], gen |-> [s \in Slots |-> 0], ready |-> {}]
      /\ wire = [s \in Slots |-> <<>>] /\ body = [s \in Slots |-> Body(0)]
      /\ marks = [t \in Threads |-> {}]
  BY DEF Init
<1>2. Unused \in Records /\ Unused.conn = "unused" /\ ~Unused.sse /\ Unused.gen = 0
  BY DEF Unused, Records, Kinds, AnyGen
<1>3. Body(0) \in Bodies
  BY DEF Body, Bodies, AnyGen
<1>4. handler \in Registries
  BY <1>1 DEF Registries, AnyGen
<1>5. TypeOK
  <2>1. "idle" \in Points /\ 0 \in AnyGen
    BY DEF Points, AnyGen
  <2>2. /\ \A s \in Slots : slots[s] \in Records
    BY <1>1, <1>2
  <2>3. slots \in [Slots -> Records]
    BY <1>1, <2>2
  <2>4. body \in [Slots -> Bodies]
    BY <1>1, <1>3
  <2>5. /\ pc \in [Threads -> Points] /\ at \in [Threads -> Slots \cup {None}]
        /\ nth \in [Threads -> Nat] /\ made \in [Threads -> Nat]
        /\ hand \in [Threads -> Nat] /\ credit \in [Threads -> Nat]
        /\ parked \in [Slots -> AnyGen] /\ slotAckFd \in [Slots -> Threads \cup {None}]
        /\ marks \in [Threads -> SUBSET Marks]
    BY <1>1, <2>1
  <2>6. /\ jobs \in Seq(Slots) /\ ring \in Seq(Slots) /\ chunk \in Seq(Frames)
        /\ posted \in Seq(Slots \X Gens) /\ aborts \in Seq(Slots \X Gens)
        /\ pair \in [Threads -> Seq(Acks)] /\ wire \in [Slots -> Seq(Nat \X Int)]
    BY <1>1
  <2> QED
    BY <1>1, <1>4, <2>3, <2>4, <2>5, <2>6 DEF TypeOK, Points, AnyGen, Frames, Acks, Records, Registries, Bodies
<1>6. Counted
  <2>1. server.requests \in Nat
    BY <1>5, ServerFacts
  <2>2. \A t \in Threads : nth[t] = 1 /\ ~Busy(t)
    BY <1>1 DEF Busy
  <2>3. Len(jobs) = 0
    BY <1>1
  <2> QED
    BY <1>1, <2>1, <2>2, <2>3 DEF Counted
<1>7. \A t \in Threads : pc[t] = "idle" /\ credit[t] = 0 /\ hand[t] = 0 /\ pair[t] = <<>>
  BY <1>1
<1>8. Working
  BY <1>7 DEF Working, Works, Busy, Active
<1>9. Turns
  BY <1>1, <1>7 DEF Turns, Has, Apart, Early
<1>10. Framed
  BY <1>1 DEF Framed
<1>11. Settled
  <2>1. ASSUME NEW s \in Slots PROVE Shaped(slots[s]) /\ Owned(s) /\ Registered(handler, s)
    <3>1. /\ slots[s] = Unused /\ parked[s] = 0 /\ handler.sub[s] = None
          /\ handler.pending[s] = <<>> /\ handler.gen[s] = 0
      BY <1>1
    <3> QED
      BY <1>2, <3>1 DEF Shaped, Owned, Registered
  <2> QED
    BY <2>1 DEF Settled
<1>12. Heard
  BY <1>7 DEF Heard, Hears, Proper, Early, Active
<1>13. Charged
  BY <1>7 DEF Charged, Busy
<1> QED
  BY <1>5, <1>6, <1>8, <1>9, <1>10, <1>11, <1>12, <1>13 DEF Inductive, Base

\* Whatever its applications, clients and channels do, each of the server's variables
\* keeps the values its code can give it.
THEOREM Types == Spec => []TypeOK
<1>1. Inductive => TypeOK
  BY DEF Inductive, Base
<1> QED
  BY <1>1, InductiveInit, InductiveStep, PTL DEF Spec

\* What a thread has to spend and what its stream has under way, in the chunk channel, in
\* the registry, in the slot's buffer and in the acks, is at most the window that put_response
\* opened it with, unless an ack an earlier stream was owed has been paid to it.
THEOREM WindowKept == Spec => []InWindow
<1>1. Inductive => InWindow
  <2> SUFFICES ASSUME Inductive, NEW t \in Threads, pc[t] \in {"pump", "wait", "place", "full"},
                      "paid" \notin marks[t]
               PROVE  credit[t] + UnderWay(t) <= server.window
    BY DEF InWindow
  <2>1. Busy(t) /\ ~Early(t)
    BY DEF Busy, Early
  <2> QED
    BY <2>1 DEF Inductive, Charged, Quota
<1> QED
  BY <1>1, InductiveInit, InductiveStep, PTL DEF Spec
=============================================================================
