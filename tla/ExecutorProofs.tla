--------------------------- MODULE ExecutorProofs ---------------------------
(***************************************************************************)
(* Proofs about Executor, for any number of slots and requests, any        *)
(* windows and any application: whose bytes a client reads, and that no    *)
(* window is overrun or lost.                                              *)
(***************************************************************************)
EXTENDS Executor, SequenceTheorems, FiniteSetTheorems, WellFoundedInduction, TLAPS

\* The submit channel has room: the tag of a client that leaves is not dropped.
HasRoom == Len(submit) < server.room

Frames ==
  [kind : {"b", "e"}, slot : Slots, gen : Gens, piece : {<<>>}]
    \cup [kind : {"s"}, slot : Slots, gen : Gens, piece : Tasks \X Nat]
Entries == [kind : {"done", "abort"}, slot : Slots, gen : Gens]
Datagrams ==
  [tag : {"job"}, slot : Slots, req : Tasks] \cup [tag : {"gone"}, slot : Slots, req : {0}]
Acks == [slot : Slots, n : Nat, gen : Gens]
Registries ==
  [sub : SUBSET Slots, done : SUBSET Slots, pending : [Slots -> Seq(Tasks \X Nat)],
   gen : [Slots -> Gens]]

\* A task that has begun a body and not ended it.
Live == {"stream", "credit", "global"}

IsJob(i) == submit[i].tag = "job"

\* Request `k` of slot `s` is not answered: it is on its way to the executor, its
\* task has not answered it, or the answer waits for the loop.
Outstanding(k, s) ==
  \/ \E i \in DOMAIN submit : IsJob(i) /\ submit[i].slot = s /\ submit[i].req = k
  \/ stage[k] \in {"run", "failed"} /\ at[k] = s
  \/ parked[s][1] = k

\* Stream `k` is the one slot `s` is to serve, or serves.
Serving(s, k) == parked[s] = <<k, k>> \/ slots[s] = [conn |-> "stream", gen |-> k]

\* The executor will hear that the client of slot `s` left before it hears of the
\* slot's next request.
Departing(s) ==
  \E j \in DOMAIN submit :
    /\ submit[j] = Tag(s)
    /\ \A i \in 1 .. j : IsJob(i) => submit[i].slot # s

\* A task that has begun no stream has left no trace of one.
NoTrace(k) ==
  /\ \A i \in DOMAIN chunk : chunk[i].gen # k
  /\ \A i \in DOMAIN acks : acks[i].gen # k
  /\ \A i \in DOMAIN comps : comps[i].gen # k
  /\ \A i \in DOMAIN aborts : aborts[i].gen # k
  /\ \A s \in Slots : handler.gen[s] # k /\ slots[s].gen # k /\ gens[s] # k /\ parked[s][1] # k
  /\ made[k] = 0

\* Who has been woken waits.
Woken == \A k \in woken : k \in Tasks /\ stage[k] \in {"credit", "global"}

\* A request is on its way once, and then its task begins.
Fresh ==
  /\ \A i \in DOMAIN submit :
       IsJob(i) => submit[i].req \in 1 .. asked /\ stage[submit[i].req] = "none"
  /\ \A i, j \in DOMAIN submit :
       IsJob(i) /\ IsJob(j) /\ submit[i].req = submit[j].req => i = j
  /\ \A k \in Tasks : stage[k] # "none" => k <= asked
  /\ Woken

Numbered ==
  /\ \A k \in Tasks : stage[k] = "none" => k \notin gone /\ \A s \in Slots : owner[s] # k
  /\ \A k \in Tasks : stage[k] \in {"none", "run", "failed"} => NoTrace(k)
  /\ \A k \in Tasks : end[k] # "open" => stage[k] \in {"late", "over", "reported"}

\* Whatever names a task's stream on its slot's behalf names a stream of the slot.
Homed ==
  /\ \A i \in DOMAIN chunk : chunk[i].gen # 0 /\ at[chunk[i].gen] = chunk[i].slot
  /\ \A i \in DOMAIN acks : acks[i].gen # 0
  /\ \A s \in Slots :
       /\ handler.gen[s] # 0 => at[handler.gen[s]] = s
       /\ gens[s] # 0 => at[gens[s]] = s
       /\ parked[s][1] # 0 => at[parked[s][1]] = s
       /\ slots[s].conn = "stream" => slots[s].gen # 0 /\ at[slots[s].gen] = s

Turns ==
  /\ \A k \in Tasks, s \in Slots :
       Outstanding(k, s) => slots[s] = [conn |-> "out", gen |-> 0]
  /\ \A k, l \in Tasks, s \in Slots : Outstanding(k, s) /\ Outstanding(l, s) => k = l
  /\ \A s \in Slots :
       /\ parked[s][2] \in {0, parked[s][1]}
       /\ parked[s][1] # 0 /\ parked[s][2] = 0 =>
            end[parked[s][1]] = "whole" /\ made[parked[s][1]] = 0

\* A completion is for the response that is parked, and there is one for it.
Completing ==
  /\ \A i \in DOMAIN pendingDone : parked[pendingDone[i]][1] # 0
  /\ \A i \in DOMAIN comps : comps[i].kind = "done" => parked[comps[i].slot][1] # 0
  /\ \A i \in DOMAIN batch : batch[i].kind = "done" /\ parked[batch[i].slot][1] # 0
  /\ \A i, j \in DOMAIN pendingDone : pendingDone[i] = pendingDone[j] => i = j
  /\ \A i, j \in DOMAIN comps :
       comps[i].kind = "done" /\ comps[j].kind = "done" /\ comps[i].slot = comps[j].slot => i = j
  /\ \A i, j \in DOMAIN batch : batch[i].slot = batch[j].slot => i = j
  /\ \A i \in DOMAIN pendingDone, j \in DOMAIN comps :
       comps[j].kind = "done" => comps[j].slot # pendingDone[i]
  /\ \A i \in DOMAIN pendingDone, j \in DOMAIN batch : batch[j].slot # pendingDone[i]
  /\ \A i \in DOMAIN comps, j \in DOMAIN batch :
       comps[i].kind = "done" => comps[i].slot # batch[j].slot

\* An abort is of a body that failed.
Aborting ==
  /\ \A i \in DOMAIN comps :
       comps[i].kind = "abort" => comps[i].gen # 0 /\ end[comps[i].gen] = "cut"
  /\ \A i \in DOMAIN aborts : aborts[i].gen # 0 /\ end[aborts[i].gen] = "cut"

\* Who may still send owns its slot.
Owning ==
  /\ \A k \in Tasks : stage[k] = "run" => owner[at[k]] = k
  /\ \A k \in Tasks : stage[k] \in Live /\ k \notin gone =>
       /\ owner[at[k]] = k /\ gens[at[k]] = k
       /\ Serving(at[k], k) \/ Departing(at[k])
       /\ stage[k] = "global" => credit[at[k]] >= 1
  /\ \A s \in Slots, k \in Tasks : Serving(s, k) => gens[s] = k

IsBegin(i) == chunk[i].kind = "b"

\* The order of a slot's frames.
Ordered ==
  /\ \A i \in DOMAIN chunk : IsBegin(i) =>
       /\ parked[chunk[i].slot] = <<chunk[i].gen, chunk[i].gen>>
       /\ chunk[i].slot \notin handler.sub
       /\ \A j \in DOMAIN chunk : j > i /\ chunk[j].slot = chunk[i].slot =>
            chunk[j].gen = chunk[i].gen /\ chunk[j].kind # "b"
       /\ \A j \in 1 .. i - 1 : chunk[j].gen # chunk[i].gen
  /\ \A i \in DOMAIN chunk : chunk[i].kind = "e" =>
       /\ end[chunk[i].gen] = "whole"
       /\ \A j \in DOMAIN chunk : j > i => chunk[j].gen # chunk[i].gen

\* The handler's registry.
Registered ==
  \A s \in Slots :
    /\ s \in handler.sub => handler.gen[s] # 0 /\ Serving(s, handler.gen[s])
    /\ s \notin handler.sub => s \notin handler.done /\ handler.pending[s] = <<>>
    /\ s \in handler.done => handler.pending[s] # <<>>

Begun(s, k) == \A i \in DOMAIN chunk : ~(IsBegin(i) /\ chunk[i].slot = s)

\* The pieces of its body on slot `s`'s wire.
Landed(s) == IF slots[s].conn = "stream" THEN Len(wire[s]) - 1 ELSE 0
Arrived(s) == Landed(s) + Len(handler.pending[s])
PiecesOf(k) == {i \in DOMAIN chunk : chunk[i].kind = "s" /\ chunk[i].gen = k}

\* What has come of stream `k` and what is to come are what its task sent.
Streaming(s, k) ==
  /\ Begun(s, k) => handler.gen[s] = k
  /\ Begun(s, k) /\ (s \notin handler.sub \/ s \in handler.done) =>
       end[k] = "whole" /\ \A i \in DOMAIN chunk : chunk[i].gen # k
  /\ slots[s].conn = "stream" =>
       /\ wire[s] # <<>> /\ wire[s][1] = HeadOf(k)
       /\ \A i \in 2 .. Len(wire[s]) : wire[s][i] = Piece(k, i - 1)
  /\ \A i \in DOMAIN handler.pending[s] : handler.pending[s][i] = Piece(k, Landed(s) + i)
  /\ \A i, j \in PiecesOf(k) : i < j => chunk[i].piece[2] < chunk[j].piece[2]
  /\ \A i \in PiecesOf(k) : chunk[i].piece = Piece(k, chunk[i].piece[2])
  /\ {chunk[i].piece[2] : i \in PiecesOf(k)} = Arrived(s) + 1 .. made[k]
  /\ Arrived(s) <= made[k]

Served == \A s \in Slots, k \in Tasks : Serving(s, k) => Streaming(s, k)

\* What is left of a response once its slot is free.
Complete(k, q) ==
  /\ Len(q) >= 2 /\ q[1] = HeadOf(k)
  /\ \A i \in 2 .. Len(q) - 1 : q[i] = Piece(k, i - 1)
  /\ \/ q[Len(q)] = Terminator /\ end[k] = "whole" /\ Len(q) - 2 = made[k]
     \/ q[Len(q)] = CutOff /\ end[k] = "cut"

Answered ==
  \A s \in Slots :
    /\ slots[s].conn = "out" => wire[s] = <<>>
    /\ slots[s].conn = "free" /\ wire[s] # <<>> => \E k \in Tasks : Complete(k, wire[s])

\* The pieces of slot `s` on the chunk channel that the handler will take.
Coming(s) == IF gens[s] # 0 /\ Serving(s, gens[s]) THEN Placed(s, {gens[s]}) ELSE 0

Refunded ==
  /\ global + FoldFunction(+, 0, inflight) = server.total
  /\ \A s \in Slots :
       \/ \E i \in DOMAIN submit : submit[i] = Tag(s)
       \/ inflight[s] <= Coming(s) + Len(handler.pending[s]) + Returning(s, Gens)

Charged ==
  \A k \in Tasks : stage[k] \in Live /\ k \notin gone /\ "paid" \notin marks[k] =>
    credit[at[k]] + UnderWay(at[k], {k}) <= server.window

Inductive ==
  /\ TypeOK /\ Fresh /\ Numbered /\ Homed /\ Turns /\ Completing /\ Aborting /\ Owning /\ Ordered
  /\ Registered /\ Served /\ Answered /\ Refunded /\ Charged
-----------------------------------------------------------------------------
(* Folds. *)

\* Induction on the numbers, of a set of them.
LEMMA NatSet ==
  ASSUME NEW T, 0 \in T, \A i \in Nat : i \in T => i + 1 \in T
  PROVE  Nat \subseteq T
<1> SUFFICES ASSUME Nat \ T # {} PROVE FALSE
  OBVIOUS
<1>1. PICK i \in Nat \ T : \A j \in Nat \ T : ~(<<j, i>> \in OpToRel(<, Nat))
  BY NatLessThanWellFounded, WFMin, Nat \ T \subseteq Nat
<1>2. i # 0 /\ i - 1 \in Nat /\ i - 1 < i
  OBVIOUS
<1>3. i - 1 \in T
  BY <1>1, <1>2 DEF OpToRel
<1> QED
  BY <1>2, <1>3

\* The greatest of numbers that go up to one of them.
LEMMA MaxOf ==
  ASSUME NEW n \in Nat, NEW s \in SUBSET (1 .. n + 1), n + 1 \in s
  PROVE  Max(s) = n + 1
<1>1. \A y \in s : y \in Nat /\ n + 1 >= y
  OBVIOUS
<1>2. \A x \in s : (\A y \in s : x >= y) => x = n + 1
  BY <1>1
<1>3. \E x \in s : \A y \in s : x >= y
  BY <1>1
<1> QED
  BY <1>2, <1>3 DEF Max

\* A finite set of numbers has its greatest.
LEMMA MaxIn ==
  ASSUME NEW n \in Nat, NEW s \in SUBSET (1 .. n), s # {}
  PROVE  Max(s) \in s
<1> DEFINE T == {m \in Nat : \A z \in SUBSET (1 .. m) :
                               z # {} => \E x \in z : \A y \in z : x >= y}
<1>1. 0 \in T
  <2>1. \A z \in SUBSET (1 .. 0) : z = {}
    OBVIOUS
  <2> QED
    BY <2>1
<1>2. ASSUME NEW m \in Nat, m \in T PROVE m + 1 \in T
  <2> SUFFICES ASSUME NEW z \in SUBSET (1 .. m + 1), z # {}
               PROVE  \E x \in z : \A y \in z : x >= y
    OBVIOUS
  <2>1. CASE m + 1 \in z
    <3>1. \A y \in z : m + 1 >= y
      OBVIOUS
    <3> QED
      BY <2>1, <3>1
  <2>2. CASE m + 1 \notin z
    <3>1. z \in SUBSET (1 .. m)
      BY <2>2
    <3> QED
      BY <1>2, <3>1
  <2> QED
    BY <2>1, <2>2
<1>3. Nat \subseteq T
  BY <1>1, <1>2, NatSet
<1>4. \E x \in s : \A y \in s : x >= y
  BY <1>3
<1> QED
  BY <1>4 DEF Max

\* The same along a stretch of them.
LEMMA Along ==
  ASSUME NEW n \in Nat, NEW T, 0 \in T, \A i \in 1 .. n : i - 1 \in T => i \in T
  PROVE  \A i \in 0 .. n : i \in T
<1> DEFINE U == {i \in Nat : i <= n => i \in T}
<1>1. 0 \in U
  OBVIOUS
<1>2. ASSUME NEW i \in Nat, i \in U PROVE i + 1 \in U
  <2> SUFFICES ASSUME i + 1 <= n PROVE i + 1 \in T
    OBVIOUS
  <2>1. i \in T /\ i + 1 \in 1 .. n /\ (i + 1) - 1 = i
    BY <1>2
  <2> QED
    BY <2>1
<1>3. Nat \subseteq U
  BY <1>1, <1>2, NatSet
<1> QED
  BY <1>3

\* The values of a fold on the sets of the first n positions of a sequence, where
\* its step goes from R to R over elements of F.
Folds(G, n, base, seq, g) ==
  g = [s \in SUBSET (1 .. n) |-> IF s = {} THEN base ELSE G[<<g[s \ {Max(s)}], seq[Max(s)]>>]]

\* They exist.
LEMMA FoldsExist ==
  ASSUME NEW R, NEW F, NEW G \in [R \X F -> R], NEW base \in R, NEW seq \in Seq(F)
  PROVE  \E g \in [SUBSET (1 .. Len(seq)) -> R] : Folds(G, Len(seq), base, seq, g)
<1> DEFINE Made(n) == \E g \in [SUBSET (1 .. n) -> R] : Folds(G, n, base, seq, g)
           T == {n \in Nat : Made(n)}
<1>1. 0 \in T
  <2> DEFINE g == [s \in SUBSET (1 .. 0) |-> base]
  <2>1. \A s \in SUBSET (1 .. 0) : s = {}
    OBVIOUS
  <2>2. Folds(G, 0, base, seq, g)
    BY <2>1 DEF Folds
  <2>3. g \in [SUBSET (1 .. 0) -> R]
    OBVIOUS
  <2> QED
    BY <2>2, <2>3
<1>2. ASSUME NEW i \in 1 .. Len(seq), i - 1 \in T PROVE i \in T
  <2> DEFINE n == i - 1
  <2>1. PICK g \in [SUBSET (1 .. n) -> R] : Folds(G, n, base, seq, g)
    BY <1>2
  <2>2. n \in Nat /\ n + 1 = i /\ seq[n + 1] \in F
    OBVIOUS
  <2> HIDE DEF n
  <2> DEFINE h == [s \in SUBSET (1 .. n + 1) |->
                     IF n + 1 \in s THEN G[<<g[s \ {n + 1}], seq[n + 1]>>] ELSE g[s]]
             val(s) == IF s = {} THEN base ELSE G[<<h[s \ {Max(s)}], seq[Max(s)]>>]
  <2>3. ASSUME NEW s \in SUBSET (1 .. n + 1) PROVE h[s] = val(s)
    <3>1. CASE n + 1 \in s
      <4>1. Max(s) = n + 1 /\ s # {}
        BY <2>2, <3>1, MaxOf
      <4>2. s \ {n + 1} \in SUBSET (1 .. n + 1) /\ n + 1 \notin s \ {n + 1}
        OBVIOUS
      <4>3. h[s \ {n + 1}] = g[s \ {n + 1}]
        BY <4>2
      <4> QED
        BY <3>1, <4>1, <4>3
    <3>2. CASE n + 1 \notin s
      <4>1. s \in SUBSET (1 .. n)
        BY <2>2, <3>2
      <4>2. /\ h[s] = g[s]
            /\ g[s] = IF s = {} THEN base ELSE G[<<g[s \ {Max(s)}], seq[Max(s)]>>]
        BY <2>1, <3>2, <4>1 DEF Folds
      <4>3. s \ {Max(s)} \in SUBSET (1 .. n + 1) /\ n + 1 \notin s \ {Max(s)}
        BY <3>2
      <4>4. h[s \ {Max(s)}] = g[s \ {Max(s)}]
        BY <4>3
      <4> QED
        BY <4>2, <4>4
    <3> QED
      BY <3>1, <3>2
  <2>4. ASSUME NEW s \in SUBSET (1 .. n + 1) PROVE h[s] \in R
    <3>1. CASE n + 1 \in s
      <4>1. s \ {n + 1} \in SUBSET (1 .. n)
        BY <2>2
      <4>2. <<g[s \ {n + 1}], seq[n + 1]>> \in R \X F
        BY <2>1, <2>2, <4>1
      <4> QED
        BY <3>1, <4>2
    <3>2. CASE n + 1 \notin s
      <4>1. s \in SUBSET (1 .. n)
        BY <2>2, <3>2
      <4> QED
        BY <2>1, <3>2, <4>1
    <3> QED
      BY <3>1, <3>2
  <2>5. h = [s \in SUBSET (1 .. n + 1) |-> val(s)]
    <3> HIDE DEF val
    <3> QED
      BY <2>3
  <2>6. Folds(G, n + 1, base, seq, h)
    BY <2>5 DEF Folds
  <2>7. h \in [SUBSET (1 .. n + 1) -> R]
    <3>1. h = [s \in SUBSET (1 .. n + 1) |-> h[s]]
      OBVIOUS
    <3> HIDE DEF h
    <3> QED
      BY <2>4, <3>1
  <2>8. Made(n + 1)
    <3> HIDE DEF h
    <3> QED
      BY <2>6, <2>7
  <2> HIDE DEF Made
  <2> QED
    BY <2>2, <2>8
<1>3. Len(seq) \in Nat
  OBVIOUS
<1> HIDE DEF T
<1>4. \A i \in 0 .. Len(seq) : i \in T
  BY <1>1, <1>2, <1>3, Along
<1>5. Len(seq) \in T
  BY <1>3, <1>4
<1> QED
  BY <1>5 DEF T

\* The first positions, as a fold goes back over them.
LEMMA UpTo ==
  ASSUME NEW n \in Nat, NEW i \in 1 .. n
  PROVE  /\ 1 .. i \in SUBSET (1 .. n) /\ 1 .. i # {} /\ Max(1 .. i) = i
         /\ (1 .. i) \ {i} = 1 .. (i - 1) /\ i - 1 \in 0 .. n /\ i \in 0 .. n
<1>1. i \in Nat /\ 1 <= i /\ i <= n
  OBVIOUS
<1>2. i - 1 \in Nat /\ (i - 1) + 1 = i /\ i - 1 \in 0 .. n /\ i \in 0 .. n
  BY <1>1
<1>3. 1 .. i \in SUBSET (1 .. n) /\ i \in 1 .. i /\ 1 .. i \in SUBSET (1 .. (i - 1) + 1)
  BY <1>1
<1>4. 1 .. i # {}
  BY <1>3
<1>5. Max(1 .. i) = i
  BY <1>2, <1>3, MaxOf
<1>6. (1 .. i) \ {i} = 1 .. (i - 1)
  BY <1>1
<1> QED
  BY <1>2, <1>3, <1>4, <1>5, <1>6

-----------------------------------------------------------------------------
(* Types. *)

\* The lesser of two numbers.
LEMMA MinOf ==
  ASSUME NEW a \in Int, NEW b \in Int
  PROVE  Min({a, b}) = IF a <= b THEN a ELSE b
<1> DEFINE m == IF a <= b THEN a ELSE b
<1>1. m \in {a, b} /\ \A y \in {a, b} : m <= y
  OBVIOUS
<1>2. \A x \in {a, b} : (\A y \in {a, b} : x <= y) => x = m
  OBVIOUS
<1> HIDE DEF m
<1>3. Min({a, b}) = m
  BY <1>1, <1>2 DEF Min
<1> QED
  BY <1>3 DEF m

\* What TypeOK says of each variable.
LEMMA Typed ==
  ASSUME TypeOK
  PROVE  /\ server \in Deployed /\ asked \in Gens
         /\ stage \in [Tasks -> Stages] /\ at \in [Tasks -> Slots]
         /\ gone \subseteq Tasks /\ woken \subseteq Tasks
         /\ made \in [Tasks -> Nat] /\ end \in [Tasks -> {"open", "whole", "cut"}]
         /\ event \in [Tasks -> Gens]
         /\ owner \in [Slots -> Tasks \cup {None}] /\ gens \in [Slots -> Gens]
         /\ open \subseteq Slots /\ credit \in [Slots -> Int] /\ inflight \in [Slots -> Nat]
         /\ global \in Nat /\ pendingDone \in Seq(Slots)
         /\ submit \in Seq(Datagrams) /\ acks \in Seq(Acks) /\ chunk \in Seq(Frames)
         /\ comps \in Seq(Entries) /\ batch \in Seq(Entries) /\ aborts \in Seq(Entries)
         /\ parked \in [Slots -> Gens \X Gens]
         /\ slots \in [Slots -> [conn : {"free", "out", "stream"}, gen : Gens]]
         /\ handler \in Registries
         /\ wire \in [Slots -> Seq(Gens \X Int)] /\ marks \in [Tasks -> SUBSET Marks]
         /\ server \in Deployments
<1>1. server \in Deployed
  BY ExecutorAssumption DEF TypeOK
<1> QED
  BY <1>1 DEF TypeOK, Datagrams, Acks, Frames, Entries, Registries

\* A server's numbers.
LEMMA ServerFacts ==
  ASSUME TypeOK
  PROVE  /\ server.slots \in Slots /\ server.room \in Nat /\ server.window \in Nat \ {0}
         /\ server.total \in Nat /\ server.pieces \in Nat /\ server.requests \in Gens
         /\ NumSlots \in Nat /\ MaxRequests \in Nat
<1>1. server \in Deployed
  BY Typed
<1> QED
  BY <1>1, ExecutorAssumption DEF Deployed

\* The constructors have the types they are used at.
LEMMA FrameTypes ==
  ASSUME NEW s \in Slots, NEW g \in Gens
  PROVE  /\ Frame("b", s, g, <<>>) \in Frames /\ Frame("e", s, g, <<>>) \in Frames
         /\ \A v \in Tasks \X Nat : Frame("s", s, g, v) \in Frames
         /\ Done(s) \in Entries /\ AbortOf(s, g) \in Entries
         /\ Tag(s) \in Datagrams /\ (g \in Tasks => Job(s, g) \in Datagrams)
         /\ \A n \in Nat : [slot |-> s, n |-> n, gen |-> g] \in Acks
<1>1. 0 \in Gens
  BY ExecutorAssumption DEF Gens
<1> QED
  BY <1>1 DEF Frames, Frame, Entries, Done, AbortOf, Datagrams, Tag, Job, Acks

LEMMA TaskIsGen == \A k \in Tasks : k \in Gens /\ k # 0
  BY ExecutorAssumption DEF Tasks, Gens

\* What a flush sends.
LEMMA FlushedType ==
  ASSUME TypeOK
  PROVE  /\ Flushed \in Seq(Entries) /\ Len(Flushed) = Len(comps) + Len(pendingDone)
         /\ \A i \in DOMAIN comps : Flushed[i] = comps[i]
         /\ \A i \in DOMAIN pendingDone : Flushed[Len(comps) + i] = Done(pendingDone[i])
<1> DEFINE q == [i \in DOMAIN pendingDone |-> Done(pendingDone[i])]
<1>1. pendingDone \in Seq(Slots) /\ comps \in Seq(Entries) /\ 0 \in Gens
  BY Typed, ExecutorAssumption DEF Gens
<1>2. \A i \in DOMAIN pendingDone : Done(pendingDone[i]) \in Entries
  BY <1>1, FrameTypes
<1>3. q \in Seq(Entries) /\ Len(q) = Len(pendingDone)
      /\ \A i \in DOMAIN pendingDone : q[i] = Done(pendingDone[i])
  <2>1. DOMAIN pendingDone = 1 .. Len(pendingDone) /\ Len(pendingDone) \in Nat
    BY <1>1
  <2>2. q \in [1 .. Len(pendingDone) -> Entries]
    BY <1>2, <2>1
  <2> QED
    BY <2>1, <2>2
<1>4. Flushed = comps \o q
  BY DEF Flushed
<1> HIDE DEF q
<1>5. DOMAIN comps = 1 .. Len(comps) /\ DOMAIN pendingDone = 1 .. Len(pendingDone)
      /\ Len(comps) \in Nat /\ Len(pendingDone) \in Nat
  BY <1>1
<1>6. /\ Flushed \in Seq(Entries) /\ Len(Flushed) = Len(comps) + Len(q)
      /\ \A i \in 1 .. Len(comps) + Len(q) :
           Flushed[i] = IF i <= Len(comps) THEN comps[i] ELSE q[i - Len(comps)]
  <2>1. comps \in Seq(Entries) /\ q \in Seq(Entries)
    BY <1>1, <1>3
  <2>2. \A a, b \in Seq(Entries) :
          /\ a \o b \in Seq(Entries) /\ Len(a \o b) = Len(a) + Len(b)
          /\ \A i \in 1 .. Len(a) + Len(b) :
               (a \o b)[i] = IF i <= Len(a) THEN a[i] ELSE b[i - Len(a)]
    BY ConcatProperties
  <2> QED
    BY <1>4, <2>1, <2>2
<1>7. ASSUME NEW i \in DOMAIN pendingDone PROVE Flushed[Len(comps) + i] = Done(pendingDone[i])
  <2>1. Len(comps) + i \in 1 .. Len(comps) + Len(q) /\ ~(Len(comps) + i <= Len(comps))
        /\ (Len(comps) + i) - Len(comps) = i
    BY <1>3, <1>5
  <2> QED
    BY <1>3, <1>6, <2>1
<1>8. ASSUME NEW i \in DOMAIN comps PROVE Flushed[i] = comps[i]
  BY <1>3, <1>5, <1>6
<1> QED
  BY <1>3, <1>6, <1>7, <1>8

\* The registry, one frame at a time: of the slots only the frame's is touched.
LEMMA PeerFacts ==
  ASSUME NEW h \in Registries, NEW f \in Frames
  PROVE  LET m == Peer(h, f)
             s == f.slot
         IN /\ m \in Registries /\ s \in Slots
            /\ \A z \in Slots \ {s} :
                 /\ z \in m.sub <=> z \in h.sub
                 /\ z \in m.done <=> z \in h.done
                 /\ m.pending[z] = h.pending[z] /\ m.gen[z] = h.gen[z]
            /\ f.kind = "b" => /\ s \in m.sub /\ s \notin m.done /\ m.gen[s] = f.gen
                               /\ m.pending[s] = h.pending[s]
            /\ f.kind # "b" => m.gen[s] = h.gen[s]
            /\ f.kind # "b" /\ h.gen[s] # f.gen => m = h
            /\ f.kind = "s" /\ s \notin h.sub => m = h
            /\ f.kind = "s" /\ s \in h.sub /\ h.gen[s] = f.gen =>
                 /\ m.pending[s] = Append(h.pending[s], f.piece)
                 /\ s \in m.sub /\ (s \in m.done <=> s \in h.done)
            /\ f.kind = "e" /\ h.gen[s] = f.gen /\ h.pending[s] # <<>> =>
                 /\ m.pending[s] = h.pending[s] /\ s \in m.done /\ (s \in m.sub <=> s \in h.sub)
            /\ f.kind = "e" /\ h.gen[s] = f.gen /\ h.pending[s] = <<>> =>
                 /\ m.pending[s] = <<>> /\ s \notin m.sub /\ (s \in m.done <=> s \in h.done)
<1> DEFINE m == Peer(h, f)
           s == f.slot
<1>1. /\ h.sub \subseteq Slots /\ h.done \subseteq Slots
      /\ h.pending \in [Slots -> Seq(Tasks \X Nat)] /\ h.gen \in [Slots -> Gens]
      /\ h = [sub |-> h.sub, done |-> h.done, pending |-> h.pending, gen |-> h.gen]
  BY DEF Registries
<1>2. /\ f.kind \in {"b", "s", "e"} /\ s \in Slots /\ f.gen \in Gens
      /\ f.kind = "s" => f.piece \in Tasks \X Nat
  BY DEF Frames
<1> HIDE DEF s
<1>3. CASE f.kind = "b"
  <2>1. m = [h EXCEPT !.sub = @ \cup {s}, !.done = @ \ {s}, !.gen[s] = f.gen]
    BY <1>3 DEF Peer, s
  <2>2. m = [sub |-> h.sub \cup {s}, done |-> h.done \ {s}, pending |-> h.pending,
             gen |-> [h.gen EXCEPT ![s] = f.gen]]
    BY <1>1, <2>1
  <2> QED
    BY <1>1, <1>2, <1>3, <2>2 DEF Registries, s
<1>4. CASE f.kind = "s" /\ s \in h.sub /\ h.gen[s] = f.gen
  <2>1. m = [h EXCEPT !.pending[s] = Append(@, f.piece)]
    BY <1>4 DEF Peer, s
  <2>2. m = [sub |-> h.sub, done |-> h.done,
             pending |-> [h.pending EXCEPT ![s] = Append(@, f.piece)], gen |-> h.gen]
    BY <1>1, <2>1
  <2>3. Append(h.pending[s], f.piece) \in Seq(Tasks \X Nat)
    BY <1>1, <1>2, <1>4
  <2> QED
    BY <1>1, <1>2, <1>4, <2>2, <2>3 DEF Registries, s
<1>5. CASE f.kind = "e" /\ h.gen[s] = f.gen /\ h.pending[s] # <<>>
  <2>1. m = [h EXCEPT !.done = @ \cup {s}]
    BY <1>5 DEF Peer, s
  <2>2. m = [sub |-> h.sub, done |-> h.done \cup {s}, pending |-> h.pending, gen |-> h.gen]
    BY <1>1, <2>1
  <2> QED
    BY <1>1, <1>2, <1>5, <2>2 DEF Registries, s
<1>6. CASE f.kind = "e" /\ h.gen[s] = f.gen /\ h.pending[s] = <<>>
  <2>1. m = [h EXCEPT !.sub = @ \ {s}, !.pending[s] = <<>>]
    BY <1>6 DEF Peer, s, Unsubscribed
  <2>2. m = [sub |-> h.sub \ {s}, done |-> h.done,
             pending |-> [h.pending EXCEPT ![s] = <<>>], gen |-> h.gen]
    BY <1>1, <2>1
  <2> QED
    BY <1>1, <1>2, <1>6, <2>2 DEF Registries, s
<1>7. CASE (f.kind \in {"s", "e"} /\ h.gen[s] # f.gen) \/ (f.kind = "s" /\ s \notin h.sub)
  <2>1. m = h
    BY <1>7 DEF Peer, s
  <2> QED
    BY <1>1, <1>2, <1>7, <2>1 DEF s
<1> QED
  BY <1>2, <1>3, <1>4, <1>5, <1>6, <1>7

\* A channel read to its end is a walk along its frames.
LEMMA DeliveredWalk ==
  ASSUME NEW l \in Registries, NEW q \in Seq(Frames)
  PROVE  \E h \in [0 .. Len(q) -> Registries] :
           /\ h[0] = l
           /\ h[Len(q)] = FoldLeft(Peer, l, q)
           /\ \A i \in 1 .. Len(q) : h[i] = Peer(h[i - 1], q[i])
<1> DEFINE n == Len(q)
           R == Registries
           op(r, f) == Peer(r, f)
           fold == FoldLeft(Peer, l, q)
           G == [x \in R \X Frames |-> op(x[1], x[2])]
           Solves(g) == g = [z \in SUBSET (1 .. n) |->
                               IF z = {} THEN l
                               ELSE op(g[z \ {Max(z)}], q[Max(z)])]
           g == CHOOSE g : Solves(g)
           h == [i \in 0 .. n |-> g[1 .. i]]
<1>1. n \in Nat /\ DOMAIN q = 1 .. n /\ l \in R
  OBVIOUS
<1>2. \A r \in R, f \in Frames : (op(r, f)) \in R
  BY PeerFacts
<1> HIDE DEF R
<1>3. G \in [R \X Frames -> R]
  BY <1>2
<1>4. \E f : Solves(f)
  <2>1. PICK f \in [SUBSET (1 .. n) -> R] : Folds(G, n, l, q, f)
    <3> HIDE DEF G
    <3> QED
      BY <1>1, <1>3, FoldsExist
  <2>2. ASSUME NEW z \in SUBSET (1 .. n), z # {}
        PROVE  G[<<f[z \ {Max(z)}], q[Max(z)]>>] = op(f[z \ {Max(z)}], q[Max(z)])
    <3>1. Max(z) \in z
      BY <1>1, <2>2, MaxIn
    <3>2. Max(z) \in 1 .. n /\ z \ {Max(z)} \in SUBSET (1 .. n)
      BY <3>1
    <3>3. f[z \ {Max(z)}] \in R
      BY <2>1, <3>2
    <3>4. q[Max(z)] \in Frames
      BY <1>1, <3>2
    <3> QED
      BY <3>3, <3>4
  <2>3. f = [z \in SUBSET (1 .. n) |->
               IF z = {} THEN l ELSE G[<<f[z \ {Max(z)}], q[Max(z)]>>]]
    BY <2>1 DEF Folds
  <2> HIDE DEF G
  <2>4. Solves(f)
    BY <2>2, <2>3
  <2> QED
    BY <2>4
<1>5. Solves(g)
  BY <1>4
<1>6. fold = g[1 .. n]
  BY <1>1 DEF FoldLeft, MapThenFoldSet
<1> HIDE DEF g, G, op, fold
<1>7. h[0] = l
  <2>1. 1 .. 0 = {}
    OBVIOUS
  <2>2. g[{}] = l
    BY <1>5
  <2> QED
    BY <1>1, <2>1, <2>2
<1>8. ASSUME NEW i \in 1 .. n PROVE h[i] = op(h[i - 1], q[i])
  <2>1. /\ 1 .. i \in SUBSET (1 .. n) /\ 1 .. i # {} /\ Max(1 .. i) = i
        /\ (1 .. i) \ {i} = 1 .. (i - 1) /\ i - 1 \in 0 .. n /\ i \in 0 .. n
    BY <1>1, UpTo
  <2>2. g[1 .. i] = op(g[1 .. (i - 1)], q[i])
    BY <1>5, <2>1
  <2> QED
    BY <2>1, <2>2
<1>9. h[n] = fold
  BY <1>1, <1>6
<1>10. \A i \in 0 .. n : h[i] \in R
  <2> DEFINE T == {i \in 0 .. n : h[i] \in R}
  <2>1. 0 \in T
    BY <1>1, <1>7
  <2>2. ASSUME NEW i \in 1 .. n, i - 1 \in T PROVE i \in T
    <3>1. i \in 0 .. n /\ q[i] \in Frames
      BY <1>1
    <3> HIDE DEF h
    <3> QED
      BY <1>2, <1>8, <2>2, <3>1
  <2> HIDE DEF T
  <2>3. \A i \in 0 .. n : i \in T
    BY <1>1, <2>1, <2>2, Along
  <2> QED
    BY <2>3 DEF T
<1>11. h \in [0 .. n -> R]
  BY <1>10
<1> HIDE DEF h
<1> QED
  BY <1>7, <1>8, <1>9, <1>11 DEF R, op, fold

\* The entries of `q` of a kind, and what its acks bring back of the streams `A` of slot `s`.
ReadOf(q, kind) ==
  FoldLeft(LAMBDA r, f : IF f.kind = kind THEN Append(r, f) ELSE r, <<>>, q)
Paying(q, s, A) ==
  FoldLeft(LAMBDA m, a : IF a.slot = s /\ a.gen \in A THEN m + a.n ELSE m, 0, q)

\* Reading them is a walk along `q`.
ReadAlong(h, q, kind) ==
  /\ h[0] = <<>>
  /\ h[Len(q)] = ReadOf(q, kind)
  /\ \A i \in 1 .. Len(q) :
       h[i] = IF q[i].kind = kind THEN Append(h[i - 1], q[i]) ELSE h[i - 1]
LEMMA ReadWalk ==
  ASSUME NEW kind, NEW q \in Seq(Entries)
  PROVE  \E h \in [0 .. Len(q) -> Seq(Entries)] : ReadAlong(h, q, kind)
<1> DEFINE n == Len(q)
           R == Seq(Entries)
           op(r, f) == IF f.kind = kind THEN Append(r, f) ELSE r
           fold == ReadOf(q, kind)
           G == [x \in R \X Entries |-> op(x[1], x[2])]
           Solves(g) == g = [z \in SUBSET (1 .. n) |->
                               IF z = {} THEN <<>>
                               ELSE op(g[z \ {Max(z)}], q[Max(z)])]
           g == CHOOSE g : Solves(g)
           h == [i \in 0 .. n |-> g[1 .. i]]
<1>1. n \in Nat /\ DOMAIN q = 1 .. n /\ <<>> \in R
  OBVIOUS
<1>2. \A r \in R, f \in Entries : (op(r, f)) \in R
  OBVIOUS
<1> HIDE DEF R
<1>3. G \in [R \X Entries -> R]
  BY <1>2
<1>4. \E f : Solves(f)
  <2>1. PICK f \in [SUBSET (1 .. n) -> R] : Folds(G, n, <<>>, q, f)
    <3> HIDE DEF G
    <3> QED
      BY <1>1, <1>3, FoldsExist
  <2>2. ASSUME NEW z \in SUBSET (1 .. n), z # {}
        PROVE  G[<<f[z \ {Max(z)}], q[Max(z)]>>] = op(f[z \ {Max(z)}], q[Max(z)])
    <3>1. Max(z) \in z
      BY <1>1, <2>2, MaxIn
    <3>2. Max(z) \in 1 .. n /\ z \ {Max(z)} \in SUBSET (1 .. n)
      BY <3>1
    <3>3. f[z \ {Max(z)}] \in R
      BY <2>1, <3>2
    <3>4. q[Max(z)] \in Entries
      BY <1>1, <3>2
    <3> QED
      BY <3>3, <3>4
  <2>3. f = [z \in SUBSET (1 .. n) |->
               IF z = {} THEN <<>> ELSE G[<<f[z \ {Max(z)}], q[Max(z)]>>]]
    BY <2>1 DEF Folds
  <2> HIDE DEF G
  <2>4. Solves(f)
    BY <2>2, <2>3
  <2> QED
    BY <2>4
<1>5. Solves(g)
  BY <1>4
<1>6. fold = g[1 .. n]
  BY <1>1 DEF ReadOf, FoldLeft, MapThenFoldSet
<1> HIDE DEF g, G, op, fold
<1>7. h[0] = <<>>
  <2>1. 1 .. 0 = {}
    OBVIOUS
  <2>2. g[{}] = <<>>
    BY <1>5
  <2> QED
    BY <1>1, <2>1, <2>2
<1>8. ASSUME NEW i \in 1 .. n PROVE h[i] = op(h[i - 1], q[i])
  <2>1. /\ 1 .. i \in SUBSET (1 .. n) /\ 1 .. i # {} /\ Max(1 .. i) = i
        /\ (1 .. i) \ {i} = 1 .. (i - 1) /\ i - 1 \in 0 .. n /\ i \in 0 .. n
    BY <1>1, UpTo
  <2>2. g[1 .. i] = op(g[1 .. (i - 1)], q[i])
    BY <1>5, <2>1
  <2> QED
    BY <2>1, <2>2
<1>9. h[n] = fold
  BY <1>1, <1>6
<1>10. \A i \in 0 .. n : h[i] \in R
  <2> DEFINE T == {i \in 0 .. n : h[i] \in R}
  <2>1. 0 \in T
    BY <1>1, <1>7
  <2>2. ASSUME NEW i \in 1 .. n, i - 1 \in T PROVE i \in T
    <3>1. i \in 0 .. n /\ q[i] \in Entries
      BY <1>1
    <3> HIDE DEF h
    <3> QED
      BY <1>2, <1>8, <2>2, <3>1
  <2> HIDE DEF T
  <2>3. \A i \in 0 .. n : i \in T
    BY <1>1, <2>1, <2>2, Along
  <2> QED
    BY <2>3 DEF T
<1>11. h \in [0 .. n -> R]
  BY <1>10
<1> HIDE DEF h
<1> QED
  BY <1>7, <1>8, <1>9, <1>11 DEF R, op, fold, ReadAlong

\* And so is counting them.
CountAlong(h, q, s, A) ==
  /\ h[0] = 0
  /\ h[Len(q)] = Paying(q, s, A)
  /\ \A i \in 1 .. Len(q) :
       h[i] = IF q[i].slot = s /\ q[i].gen \in A THEN h[i - 1] + q[i].n ELSE h[i - 1]

LEMMA ReturningWalk ==
  ASSUME NEW s, NEW A, NEW q \in Seq(Acks)
  PROVE  \E h \in [0 .. Len(q) -> Nat] : CountAlong(h, q, s, A)
<1> DEFINE n == Len(q)
           R == Nat
           op(r, f) == IF f.slot = s /\ f.gen \in A THEN r + f.n ELSE r
           fold == Paying(q, s, A)
           G == [x \in R \X Acks |-> op(x[1], x[2])]
           Solves(g) == g = [z \in SUBSET (1 .. n) |->
                               IF z = {} THEN 0
                               ELSE op(g[z \ {Max(z)}], q[Max(z)])]
           g == CHOOSE g : Solves(g)
           h == [i \in 0 .. n |-> g[1 .. i]]
<1>1. n \in Nat /\ DOMAIN q = 1 .. n /\ 0 \in R
  OBVIOUS
<1>2. \A r \in R, f \in Acks : (op(r, f)) \in R
  BY DEF Acks
<1> HIDE DEF R
<1>3. G \in [R \X Acks -> R]
  BY <1>2
<1>4. \E f : Solves(f)
  <2>1. PICK f \in [SUBSET (1 .. n) -> R] : Folds(G, n, 0, q, f)
    <3> HIDE DEF G
    <3> QED
      BY <1>1, <1>3, FoldsExist
  <2>2. ASSUME NEW z \in SUBSET (1 .. n), z # {}
        PROVE  G[<<f[z \ {Max(z)}], q[Max(z)]>>] = op(f[z \ {Max(z)}], q[Max(z)])
    <3>1. Max(z) \in z
      BY <1>1, <2>2, MaxIn
    <3>2. Max(z) \in 1 .. n /\ z \ {Max(z)} \in SUBSET (1 .. n)
      BY <3>1
    <3>3. f[z \ {Max(z)}] \in R
      BY <2>1, <3>2
    <3>4. q[Max(z)] \in Acks
      BY <1>1, <3>2
    <3> QED
      BY <3>3, <3>4
  <2>3. f = [z \in SUBSET (1 .. n) |->
               IF z = {} THEN 0 ELSE G[<<f[z \ {Max(z)}], q[Max(z)]>>]]
    BY <2>1 DEF Folds
  <2> HIDE DEF G
  <2>4. Solves(f)
    BY <2>2, <2>3
  <2> QED
    BY <2>4
<1>5. Solves(g)
  BY <1>4
<1>6. fold = g[1 .. n]
  BY <1>1 DEF Paying, FoldLeft, MapThenFoldSet
<1> HIDE DEF g, G, op, fold
<1>7. h[0] = 0
  <2>1. 1 .. 0 = {}
    OBVIOUS
  <2>2. g[{}] = 0
    BY <1>5
  <2> QED
    BY <1>1, <2>1, <2>2
<1>8. ASSUME NEW i \in 1 .. n PROVE h[i] = op(h[i - 1], q[i])
  <2>1. /\ 1 .. i \in SUBSET (1 .. n) /\ 1 .. i # {} /\ Max(1 .. i) = i
        /\ (1 .. i) \ {i} = 1 .. (i - 1) /\ i - 1 \in 0 .. n /\ i \in 0 .. n
    BY <1>1, UpTo
  <2>2. g[1 .. i] = op(g[1 .. (i - 1)], q[i])
    BY <1>5, <2>1
  <2> QED
    BY <2>1, <2>2
<1>9. h[n] = fold
  BY <1>1, <1>6
<1>10. \A i \in 0 .. n : h[i] \in R
  <2> DEFINE T == {i \in 0 .. n : h[i] \in R}
  <2>1. 0 \in T
    BY <1>1, <1>7
  <2>2. ASSUME NEW i \in 1 .. n, i - 1 \in T PROVE i \in T
    <3>1. i \in 0 .. n /\ q[i] \in Acks
      BY <1>1
    <3> HIDE DEF h
    <3> QED
      BY <1>2, <1>8, <2>2, <3>1
  <2> HIDE DEF T
  <2>3. \A i \in 0 .. n : i \in T
    BY <1>1, <2>1, <2>2, Along
  <2> QED
    BY <2>3 DEF T
<1>11. h \in [0 .. n -> R]
  BY <1>10
<1> HIDE DEF h
<1> QED
  BY <1>7, <1>8, <1>9, <1>11 DEF R, op, fold, CountAlong

-----------------------------------------------------------------------------
(* What the folds come to. *)

LEMMA DeliveredType ==
  ASSUME NEW l \in Registries, NEW q \in Seq(Frames)
  PROVE  FoldLeft(Peer, l, q) \in Registries
<1>1. PICK h \in [0 .. Len(q) -> Registries] : h[Len(q)] = FoldLeft(Peer, l, q)
  BY DeliveredWalk
<1>2. Len(q) \in 0 .. Len(q)
  OBVIOUS
<1> QED
  BY <1>1, <1>2

\* What is read of a kind is what there is of it, each entry once.
LEMMA ReadFacts ==
  ASSUME TypeOK, NEW kind
  PROVE  /\ Read(kind) \in Seq(Entries)
         /\ \A i \in DOMAIN Read(kind) :
              \E j \in DOMAIN comps : comps[j].kind = kind /\ Read(kind)[i] = comps[j]
         /\ (\A i, j \in DOMAIN comps :
               comps[i].kind = kind /\ comps[j].kind = kind /\ comps[i].slot = comps[j].slot
                 => i = j)
            => \A i, j \in DOMAIN Read(kind) :
                 Read(kind)[i].slot = Read(kind)[j].slot => i = j
<1>1. comps \in Seq(Entries)
  BY Typed
<1> DEFINE n == Len(comps)
           Once == \A i, j \in DOMAIN comps :
                     comps[i].kind = kind /\ comps[j].kind = kind /\ comps[i].slot = comps[j].slot
                       => i = j
<1>2. PICK h \in [0 .. Len(comps) -> Seq(Entries)] : ReadAlong(h, comps, kind)
  BY <1>1, ReadWalk
<1>2a. /\ h[0] = <<>> /\ h[Len(comps)] = ReadOf(comps, kind)
       /\ \A i \in 1 .. Len(comps) :
            h[i] = IF comps[i].kind = kind THEN Append(h[i - 1], comps[i]) ELSE h[i - 1]
  BY <1>2 DEF ReadAlong
<1>3. Read(kind) = ReadOf(comps, kind)
  BY DEF Read, ReadOf
<1> HIDE DEF Once
<1> DEFINE T == {m \in 0 .. n :
                  /\ \A x \in DOMAIN h[m] :
                       \E j \in 1 .. m : comps[j].kind = kind /\ h[m][x] = comps[j]
                  /\ Once => \A x, y \in DOMAIN h[m] : h[m][x].slot = h[m][y].slot => x = y}
<1>4. n \in Nat /\ DOMAIN comps = 1 .. n
  BY <1>1
<1>5. 0 \in T
  BY <1>2a, <1>4
<1>6. ASSUME NEW m \in 1 .. n, m - 1 \in T PROVE m \in T
  <2> DEFINE p == h[m - 1]
             q == h[m]
  <2>1. m - 1 \in 0 .. n /\ m \in 0 .. n /\ m \in Nat
    BY <1>4
  <2>2. p \in Seq(Entries) /\ q \in Seq(Entries)
    BY <1>2, <1>4, <2>1
  <2>3. /\ \A x \in DOMAIN p : \E j \in 1 .. m - 1 : comps[j].kind = kind /\ p[x] = comps[j]
        /\ Once => \A x, y \in DOMAIN p : p[x].slot = p[y].slot => x = y
    BY <1>6
  <2>4. q = IF comps[m].kind = kind THEN Append(p, comps[m]) ELSE p
    BY <1>2a, <1>4
  <2> SUFFICES /\ \A x \in DOMAIN q : \E j \in 1 .. m : comps[j].kind = kind /\ q[x] = comps[j]
               /\ Once => \A x, y \in DOMAIN q : q[x].slot = q[y].slot => x = y
    BY <2>1
  <2> HIDE DEF p, q, T
  <2>5. CASE comps[m].kind # kind
    <3>1. q = p /\ \A j \in 1 .. m - 1 : j \in 1 .. m
      BY <2>1, <2>4, <2>5
    <3> QED
      BY <2>3, <3>1
  <2>6. CASE comps[m].kind = kind
    <3>1. /\ q = Append(p, comps[m]) /\ Len(p) \in Nat /\ DOMAIN q = 1 .. Len(p) + 1
          /\ DOMAIN p = 1 .. Len(p)
          /\ q[Len(p) + 1] = comps[m] /\ \A x \in 1 .. Len(p) : q[x] = p[x]
      BY <1>4, <2>2, <2>4, <2>6
    <3>2. ASSUME NEW x \in DOMAIN q
          PROVE \E j \in 1 .. m : comps[j].kind = kind /\ q[x] = comps[j]
      <4>1. CASE x = Len(p) + 1
        BY <2>1, <2>6, <3>1, <4>1
      <4>2. CASE x \in 1 .. Len(p)
        BY <2>1, <2>3, <3>1, <4>2
      <4> QED
        BY <3>1, <4>1, <4>2
    <3>3. ASSUME Once, NEW x \in DOMAIN q, NEW y \in DOMAIN q, q[x].slot = q[y].slot
          PROVE  x = y
      <4>1. ASSUME NEW z \in 1 .. Len(p) PROVE q[z].slot # comps[m].slot
        <5>1. PICK j \in 1 .. m - 1 : comps[j].kind = kind /\ p[z] = comps[j]
          BY <2>3, <3>1
        <5>2. j # m /\ j \in 1 .. n /\ m \in 1 .. n
          BY <1>4, <2>1
        <5>3. comps[j].slot # comps[m].slot
          BY <1>4, <2>6, <3>3, <5>1, <5>2 DEF Once
        <5> QED
          BY <3>1, <5>1, <5>3
      <4>2. CASE x \in 1 .. Len(p) /\ y \in 1 .. Len(p)
        BY <2>3, <3>1, <3>3, <4>2
      <4>3. CASE x = Len(p) + 1 \/ y = Len(p) + 1
        <5>1. x \in 1 .. Len(p) \/ x = Len(p) + 1
          BY <3>1
        <5>2. y \in 1 .. Len(p) \/ y = Len(p) + 1
          BY <3>1
        <5> QED
          BY <3>1, <3>3, <4>1, <4>3, <5>1, <5>2
      <4> QED
        BY <3>1, <4>2, <4>3
    <3> QED
      BY <3>2, <3>3
  <2> QED
    BY <2>5, <2>6
<1> HIDE DEF T
<1>7. \A m \in 0 .. n : m \in T
  BY <1>4, <1>5, <1>6, Along
<1>8. n \in T /\ n \in 0 .. n
  BY <1>4, <1>7
<1>9. h[n] = Read(kind) /\ h[n] \in Seq(Entries)
  BY <1>2, <1>2a, <1>3, <1>8
<1> QED
  BY <1>4, <1>8, <1>9 DEF T, Once

\* What one ack brings back.
Brings(a, s, A) == IF a.slot = s /\ a.gen \in A THEN a.n ELSE 0

\* So they are counted one at a time, along `h`.
PayAlong(h, q, s, A) ==
  /\ h[0] = 0 /\ h[Len(q)] = Paying(q, s, A)
  /\ \A i \in 1 .. Len(q) : h[i] = h[i - 1] + Brings(q[i], s, A)

LEMMA PayingWalk ==
  ASSUME NEW s, NEW A, NEW q \in Seq(Acks)
  PROVE  \E h \in [0 .. Len(q) -> Nat] : PayAlong(h, q, s, A)
<1>1. PICK h \in [0 .. Len(q) -> Nat] : CountAlong(h, q, s, A)
  BY ReturningWalk
<1>2. /\ h[0] = 0 /\ h[Len(q)] = Paying(q, s, A)
      /\ \A i \in 1 .. Len(q) :
           h[i] = IF q[i].slot = s /\ q[i].gen \in A THEN h[i - 1] + q[i].n ELSE h[i - 1]
  BY <1>1 DEF CountAlong
<1>3. ASSUME NEW i \in 1 .. Len(q) PROVE h[i] = h[i - 1] + Brings(q[i], s, A)
  <2>1. i - 1 \in 0 .. Len(q)
    OBVIOUS
  <2>2. h[i - 1] \in Nat
    BY <1>1, <2>1
  <2> QED
    BY <1>2, <2>2 DEF Brings
<1>4. PayAlong(h, q, s, A)
  BY <1>2, <1>3 DEF PayAlong
<1> QED
  BY <1>1, <1>4

LEMMA PayingNat ==
  ASSUME NEW s, NEW A, NEW q \in Seq(Acks)
  PROVE  Paying(q, s, A) \in Nat
<1>1. PICK h \in [0 .. Len(q) -> Nat] : PayAlong(h, q, s, A)
  BY PayingWalk
<1>2. h[Len(q)] = Paying(q, s, A)
  BY <1>1 DEF PayAlong
<1>3. Len(q) \in 0 .. Len(q)
  OBVIOUS
<1> QED
  BY <1>1, <1>2, <1>3

\* One more ack brings what it brings.
LEMMA PayingMore ==
  ASSUME NEW s, NEW A, NEW q \in Seq(Acks), NEW a \in Acks
  PROVE  Paying(Append(q, a), s, A) = Paying(q, s, A) + Brings(a, s, A)
<1> DEFINE r == Append(q, a)
           n == Len(q)
<1>1. /\ r \in Seq(Acks) /\ Len(r) = n + 1 /\ n \in Nat /\ r[n + 1] = a
      /\ \A i \in 1 .. n : r[i] = q[i]
  OBVIOUS
<1> HIDE DEF r
<1>2a. PICK g \in [0 .. Len(q) -> Nat] : PayAlong(g, q, s, A)
  BY PayingWalk
<1>2. /\ g[0] = 0 /\ g[Len(q)] = Paying(q, s, A)
      /\ \A i \in 1 .. Len(q) : g[i] = g[i - 1] + Brings(q[i], s, A)
  BY <1>2a DEF PayAlong
<1>3a. PICK h \in [0 .. Len(r) -> Nat] : PayAlong(h, r, s, A)
  <2>1. r \in Seq(Acks)
    BY <1>1
  <2> QED
    BY <2>1, PayingWalk
<1>3. /\ h[0] = 0 /\ h[Len(r)] = Paying(r, s, A)
      /\ \A i \in 1 .. Len(r) : h[i] = h[i - 1] + Brings(r[i], s, A)
  BY <1>3a DEF PayAlong
<1> DEFINE T == {i \in 0 .. n : h[i] = g[i]}
<1>4. 0 \in T
  BY <1>1, <1>2, <1>3
<1>5. ASSUME NEW i \in 1 .. n, i - 1 \in T PROVE i \in T
  <2>1. i \in 1 .. Len(r) /\ i \in 0 .. n
    BY <1>1
  <2> QED
    BY <1>1, <1>2, <1>3, <1>5, <2>1
<1> HIDE DEF T
<1>6. \A i \in 0 .. n : i \in T
  BY <1>1, <1>4, <1>5, Along
<1>7. h[n] = g[n]
  BY <1>1, <1>6 DEF T
<1>8. n + 1 \in 1 .. Len(r) /\ (n + 1) - 1 = n
  BY <1>1
<1>9. h[n + 1] = h[n] + Brings(r[n + 1], s, A)
  BY <1>3, <1>8
<1> QED
  BY <1>1, <1>2, <1>3, <1>7, <1>9 DEF r

\* The first ack brings the difference.
LEMMA PayingLess ==
  ASSUME NEW s, NEW A, NEW q \in Seq(Acks), q # <<>>
  PROVE  Paying(q, s, A) = Paying(Tail(q), s, A) + Brings(Head(q), s, A)
<1> DEFINE r == Tail(q)
           n == Len(r)
           v == Brings(q[1], s, A)
<1>1. /\ r \in Seq(Acks) /\ Len(q) = n + 1 /\ n \in Nat /\ Head(q) = q[1] /\ q[1] \in Acks
      /\ \A i \in 1 .. n : r[i] = q[i + 1]
  OBVIOUS
<1>2. v \in Nat
  BY <1>1 DEF Brings, Acks
<1> HIDE DEF r, v
<1>3a. PICK g \in [0 .. Len(q) -> Nat] : PayAlong(g, q, s, A)
  BY PayingWalk
<1>3. /\ g[0] = 0 /\ g[Len(q)] = Paying(q, s, A)
      /\ \A i \in 1 .. Len(q) : g[i] = g[i - 1] + Brings(q[i], s, A)
  BY <1>3a DEF PayAlong
<1>4a. PICK h \in [0 .. Len(r) -> Nat] : PayAlong(h, r, s, A)
  BY <1>1, PayingWalk
<1>4. /\ h[0] = 0 /\ h[Len(r)] = Paying(r, s, A)
      /\ \A i \in 1 .. Len(r) : h[i] = h[i - 1] + Brings(r[i], s, A)
  BY <1>4a DEF PayAlong
<1> DEFINE T == {i \in 0 .. n : g[i + 1] = h[i] + v}
<1>5. 0 \in T
  <2>1. 1 \in 1 .. Len(q) /\ 0 \in 0 .. n /\ 1 - 1 = 0 /\ 0 + 1 = 1
    BY <1>1
  <2>2. g[1] = g[0] + v
    BY <1>3, <2>1 DEF v
  <2> QED
    BY <1>2, <1>3, <1>4, <2>1, <2>2
<1>6. ASSUME NEW i \in 1 .. n, i - 1 \in T PROVE i \in T
  <2>1. i + 1 \in 1 .. Len(q) /\ i \in 0 .. n /\ (i + 1) - 1 = i /\ (i - 1) + 1 = i
        /\ i \in 1 .. Len(r) /\ i - 1 \in 0 .. n
    BY <1>1
  <2>2. g[i + 1] = g[i] + Brings(q[i + 1], s, A)
    BY <1>3, <2>1
  <2>3. h[i] = h[i - 1] + Brings(r[i], s, A)
    BY <1>4, <2>1
  <2>4. g[i] = h[i - 1] + v
    BY <1>6, <2>1
  <2>5. r[i] = q[i + 1] /\ Brings(r[i], s, A) \in Nat /\ h[i - 1] \in Nat
    <3>1. r[i] = q[i + 1] /\ r[i] \in Acks
      BY <1>1, <2>1
    <3>2. Brings(r[i], s, A) \in Nat
      BY <3>1 DEF Brings, Acks
    <3> QED
      BY <1>4, <2>1, <3>1, <3>2
  <2> DEFINE b == Brings(r[i], s, A)
             c == h[i - 1]
  <2>6. g[i + 1] = (c + v) + b /\ h[i] = c + b
    BY <2>2, <2>3, <2>4, <2>5
  <2>7. b \in Nat /\ c \in Nat
    BY <2>5
  <2> HIDE DEF b, c
  <2>8. g[i + 1] = h[i] + v
    BY <1>2, <2>6, <2>7
  <2> QED
    BY <2>1, <2>8
<1> HIDE DEF T
<1>7. \A i \in 0 .. n : i \in T
  BY <1>1, <1>5, <1>6, Along
<1>8. g[n + 1] = h[n] + v
  BY <1>1, <1>7 DEF T
<1> QED
  BY <1>1, <1>3, <1>4, <1>8 DEF r, v

LEMMA ReturningPaying == \A s, A : Returning(s, A) = Paying(acks, s, A)
  BY DEF Returning, Paying

-----------------------------------------------------------------------------
(* Sums. *)

First(t) == CHOOSE x \in t : TRUE

\* The sums of `f` over the sets of `D`, as its fold makes them.
Sums(g, f, D) ==
  \A t \in D : g[t] = IF t = {} THEN 0 ELSE f[First(t)] + g[t \ {First(t)}]

\* A subset without its first is smaller by one.
LEMMA FirstOff ==
  ASSUME NEW S, IsFiniteSet(S)
  PROVE  \A t \in SUBSET S :
           /\ Cardinality(t) \in Nat
           /\ Cardinality(t) <= 0 => t = {}
           /\ t = {} => Cardinality(t) = 0
           /\ t # {} => /\ First(t) \in t /\ First(t) \in S /\ t \ {First(t)} \in SUBSET S
                        /\ Cardinality(t \ {First(t)}) = Cardinality(t) - 1
<1> SUFFICES ASSUME NEW t \in SUBSET S
             PROVE  /\ Cardinality(t) \in Nat
                    /\ Cardinality(t) <= 0 => t = {}
                    /\ t = {} => Cardinality(t) = 0
                    /\ t # {} => /\ First(t) \in t /\ First(t) \in S
                                 /\ t \ {First(t)} \in SUBSET S
                                 /\ Cardinality(t \ {First(t)}) = Cardinality(t) - 1
  OBVIOUS
<1>1. IsFiniteSet(t) /\ Cardinality(t) \in Nat
  BY FS_Subset, FS_CardinalityType
<1>2. Cardinality(t) = 0 <=> t = {}
  BY <1>1, FS_EmptySet
<1>3. ASSUME t # {} PROVE First(t) \in t
  BY <1>3 DEF First
<1>4. ASSUME t # {} PROVE Cardinality(t \ {First(t)}) = Cardinality(t) - 1
  BY <1>1, <1>3, <1>4, FS_RemoveElement
<1> QED
  BY <1>1, <1>2, <1>3, <1>4

LEMMA SumsExist ==
  ASSUME NEW S, IsFiniteSet(S), NEW f \in [S -> Int]
  PROVE  \E g \in [SUBSET S -> Int] : Sums(g, f, SUBSET S)
<1> DEFINE Sets(n) == {t \in SUBSET S : Cardinality(t) <= n}
           T == {n \in Nat : \E g \in [Sets(n) -> Int] : Sums(g, f, Sets(n))}
<1>1. 0 \in T
  <2> DEFINE g == [t \in Sets(0) |-> 0]
  <2>1. \A t \in Sets(0) : t = {}
    BY FirstOff
  <2>2. g \in [Sets(0) -> Int] /\ Sums(g, f, Sets(0))
    BY <2>1 DEF Sums
  <2> QED
    BY <2>2
<1>2. ASSUME NEW n \in Nat, n \in T PROVE n + 1 \in T
  <2>1. PICK g \in [Sets(n) -> Int] : Sums(g, f, Sets(n))
    BY <1>2
  <2> DEFINE h == [t \in Sets(n + 1) |->
                     IF Cardinality(t) <= n THEN g[t]
                     ELSE f[First(t)] + g[t \ {First(t)}]]
  <2>2. ASSUME NEW t \in Sets(n + 1), t # {}
        PROVE  /\ First(t) \in S /\ t \ {First(t)} \in Sets(n)
               /\ t \ {First(t)} \in Sets(n + 1)
    <3>1. /\ First(t) \in t /\ t \ {First(t)} \in SUBSET S /\ Cardinality(t) \in Nat
          /\ Cardinality(t \ {First(t)}) = Cardinality(t) - 1 /\ Cardinality(t) <= n + 1
      BY <2>2, FirstOff
    <3> QED
      BY <3>1
  <2>3. ASSUME NEW t \in Sets(n + 1) PROVE h[t] \in Int
    <3>1. CASE Cardinality(t) <= n
      BY <2>1, <3>1
    <3>2. CASE ~(Cardinality(t) <= n)
      <4>1. t # {}
        BY <3>2, FirstOff
      <4> QED
        BY <2>1, <2>2, <3>2, <4>1
    <3> QED
      BY <3>1, <3>2
  <2>4. ASSUME NEW t \in Sets(n + 1)
        PROVE  h[t] = IF t = {} THEN 0 ELSE f[First(t)] + h[t \ {First(t)}]
    <3>1. CASE t = {}
      <4>0. Cardinality(t) = 0 /\ 0 <= n /\ t \in SUBSET S
        BY <3>1, FS_EmptySet
      <4>1. t \in Sets(n) /\ Cardinality(t) <= n
        <5> HIDE <3>1
        <5> QED
          BY <4>0
      <4> QED
        BY <2>1, <3>1, <4>1 DEF Sums
    <3>2. CASE t # {}
      <4>1. t \ {First(t)} \in Sets(n) /\ t \ {First(t)} \in Sets(n + 1)
        BY <2>2, <3>2
      <4>2. h[t \ {First(t)}] = g[t \ {First(t)}]
        BY <4>1
      <4>3. h[t] = f[First(t)] + g[t \ {First(t)}]
        <5>1. CASE Cardinality(t) <= n
          <6>1. t \in Sets(n) /\ h[t] = g[t]
            BY <5>1
          <6> QED
            BY <2>1, <3>2, <6>1 DEF Sums
        <5>2. CASE ~(Cardinality(t) <= n)
          BY <5>2
        <5> QED
          BY <5>1, <5>2
      <4> HIDE DEF h
      <4> QED
        BY <3>2, <4>2, <4>3
    <3> QED
      BY <3>1, <3>2
  <2>5. h \in [Sets(n + 1) -> Int]
    <3>1. h = [t \in Sets(n + 1) |-> h[t]]
      OBVIOUS
    <3> HIDE DEF h
    <3> QED
      BY <2>3, <3>1
  <2> HIDE DEF h, Sets
  <2>6. Sums(h, f, Sets(n + 1))
    BY <2>4 DEF Sums
  <2>7. n + 1 \in Nat
    OBVIOUS
  <2> QED
    BY <2>5, <2>6, <2>7
<1>3. Nat \subseteq T
  <2> HIDE DEF T
  <2> QED
    BY <1>1, <1>2, NatSet
<1>4. Cardinality(S) \in Nat /\ \A t \in SUBSET S : Cardinality(t) <= Cardinality(S)
  BY FS_Subset, FS_CardinalityType
<1>5. Sets(Cardinality(S)) = SUBSET S
  BY <1>4
<1>6. Cardinality(S) \in T
  BY <1>3, <1>4
<1> HIDE DEF Sets
<1> QED
  BY <1>5, <1>6

\* The sum of a function is one of them.
LEMMA SumIs ==
  ASSUME NEW S, IsFiniteSet(S), NEW f \in [S -> Int]
  PROVE  \E g \in [SUBSET S -> Int] :
           Sums(g, f, SUBSET S) /\ FoldFunction(+, 0, f) = g[S]
<1> DEFINE Solves(g) == g = [t \in SUBSET S |->
                               IF t = {} THEN 0
                               ELSE f[CHOOSE x \in t : TRUE] + g[t \ {CHOOSE x \in t : TRUE}]]
           g == CHOOSE g : Solves(g)
<1>1. PICK h \in [SUBSET S -> Int] : Sums(h, f, SUBSET S)
  BY SumsExist
<1>2. Solves(h)
  BY <1>1 DEF Sums, First
<1>3. Solves(g)
  BY <1>2
<1>4. DOMAIN f = S
  OBVIOUS
<1>5. FoldFunction(+, 0, f) = g[S]
  BY <1>4 DEF FoldFunction, FoldFunctionOnSet, MapThenFoldSet
<1> HIDE DEF g
<1>6. Sums(g, f, SUBSET S)
  BY <1>3 DEF Sums, First
<1>7. ASSUME NEW u \in [SUBSET S -> Int], Sums(u, f, SUBSET S)
      PROVE  \A t \in SUBSET S : g[t] = u[t]
  <2> DEFINE T == {n \in Nat : \A t \in SUBSET S : Cardinality(t) <= n => g[t] = u[t]}
  <2>1. 0 \in T
    <3>1. \A t \in SUBSET S : Cardinality(t) <= 0 => t = {}
      BY FirstOff
    <3> QED
      BY <1>6, <1>7, <3>1 DEF Sums
  <2>2. ASSUME NEW n \in Nat, n \in T PROVE n + 1 \in T
    <3> SUFFICES ASSUME NEW t \in SUBSET S, Cardinality(t) <= n + 1 PROVE g[t] = u[t]
      OBVIOUS
    <3>1. CASE t = {}
      BY <1>6, <1>7, <3>1 DEF Sums
    <3>2. CASE t # {}
      <4>1. t \ {First(t)} \in SUBSET S /\ Cardinality(t \ {First(t)}) <= n
        BY <3>2, FirstOff
      <4>2. g[t \ {First(t)}] = u[t \ {First(t)}]
        BY <2>2, <4>1
      <4> QED
        BY <1>6, <1>7, <3>2, <4>2 DEF Sums
    <3> QED
      BY <3>1, <3>2
  <2> HIDE DEF T
  <2>3. Nat \subseteq T
    BY <2>1, <2>2, NatSet
  <2> SUFFICES ASSUME NEW t \in SUBSET S PROVE g[t] = u[t]
    OBVIOUS
  <2>4. Cardinality(t) \in T
    BY <2>3, FirstOff
  <2>5. Cardinality(t) \in Nat /\ Cardinality(t) <= Cardinality(t)
    <3>1. Cardinality(t) \in Nat
      BY FirstOff
    <3> QED
      BY <3>1
  <2> QED
    BY <2>4, <2>5 DEF T
<1>8. g[S] = h[S]
  BY <1>1, <1>7
<1> QED
  BY <1>1, <1>5, <1>8

\* It changes by what one value does.
LEMMA SumUpdate ==
  ASSUME NEW S, IsFiniteSet(S), NEW f \in [S -> Int], NEW s \in S, NEW v \in Int
  PROVE  /\ FoldFunction(+, 0, f) \in Int
         /\ FoldFunction(+, 0, [f EXCEPT ![s] = v]) = (FoldFunction(+, 0, f) + v) - f[s]
<1> DEFINE e == [f EXCEPT ![s] = v]
<1>1. e \in [S -> Int] /\ e[s] = v /\ \A x \in S \ {s} : e[x] = f[x]
  OBVIOUS
<1> HIDE DEF e
<1>2. PICK g \in [SUBSET S -> Int] : Sums(g, f, SUBSET S) /\ FoldFunction(+, 0, f) = g[S]
  BY SumIs
<1>3. PICK h \in [SUBSET S -> Int] : Sums(h, e, SUBSET S) /\ FoldFunction(+, 0, e) = h[S]
  BY <1>1, SumIs
<1> DEFINE more(t) == IF s \in t THEN v - f[s] ELSE 0
           T == {n \in Nat : \A t \in SUBSET S : Cardinality(t) <= n => h[t] = g[t] + more(t)}
<1>3a. h[{}] = g[{}] + more({})
  <2>1. {} \in SUBSET S /\ s \notin {}
    OBVIOUS
  <2>2. g[{}] = 0 /\ h[{}] = 0
    BY <1>2, <1>3, <2>1 DEF Sums
  <2>3. more({}) = 0
    BY <2>1
  <2> HIDE DEF more
  <2> QED
    BY <2>2, <2>3
<1>4. 0 \in T
  <2>1. \A t \in SUBSET S : Cardinality(t) <= 0 => t = {}
    BY FirstOff
  <2> QED
    BY <1>3a, <2>1
<1>5. ASSUME NEW n \in Nat, n \in T PROVE n + 1 \in T
  <2> SUFFICES ASSUME NEW t \in SUBSET S, Cardinality(t) <= n + 1 PROVE h[t] = g[t] + more(t)
    OBVIOUS
  <2>1. CASE t = {}
    BY <1>3a, <2>1
  <2>2. CASE t # {}
    <3> DEFINE x == First(t)
               u == t \ {First(t)}
    <3>1. u \in SUBSET S /\ Cardinality(u) <= n /\ x \in t /\ x \in S
      BY <2>2, FirstOff
    <3>2. h[u] = g[u] + more(u) /\ g[u] \in Int
      BY <1>2, <1>5, <3>1
    <3>3. g[t] = f[x] + g[u] /\ h[t] = e[x] + h[u]
      BY <1>2, <1>3, <2>2 DEF Sums
    <3>4. CASE x = s
      <4>1. s \in t /\ s \notin u /\ e[x] = v
        BY <1>1, <3>1, <3>4
      <4> HIDE DEF x, u
      <4> QED
        BY <3>2, <3>3, <3>4, <4>1
    <3>5. CASE x # s
      <4>1. (s \in t <=> s \in u) /\ e[x] = f[x] /\ f[x] \in Int /\ f[s] \in Int
        BY <1>1, <3>1, <3>5
      <4> HIDE DEF x, u
      <4> QED
        BY <3>2, <3>3, <4>1
    <3> QED
      BY <3>4, <3>5
  <2> QED
    BY <2>1, <2>2
<1> HIDE DEF T
<1>6. Nat \subseteq T
  BY <1>4, <1>5, NatSet
<1>7. Cardinality(S) \in Nat
  BY FS_CardinalityType
<1>8. h[S] = g[S] + more(S)
  BY <1>6, <1>7 DEF T
<1>9. g[S] \in Int /\ f[s] \in Int
  BY <1>2
<1>10. h[S] = (g[S] + v) - f[s]
  BY <1>8, <1>9
<1> QED
  BY <1>2, <1>3, <1>9, <1>10 DEF e

\* Of nothing it is nothing.
LEMMA SumOfNone ==
  ASSUME NEW S, IsFiniteSet(S)
  PROVE  FoldFunction(+, 0, [s \in S |-> 0]) = 0
<1> DEFINE f == [s \in S |-> 0]
<1>1. f \in [S -> Int] /\ \A s \in S : f[s] = 0
  OBVIOUS
<1> HIDE DEF f
<1>2. PICK g \in [SUBSET S -> Int] : Sums(g, f, SUBSET S) /\ FoldFunction(+, 0, f) = g[S]
  BY <1>1, SumIs
<1> DEFINE T == {n \in Nat : \A t \in SUBSET S : Cardinality(t) <= n => g[t] = 0}
<1>3. 0 \in T
  <2>1. \A t \in SUBSET S : Cardinality(t) <= 0 => t = {}
    BY FirstOff
  <2> QED
    BY <1>2, <2>1 DEF Sums
<1>4. ASSUME NEW n \in Nat, n \in T PROVE n + 1 \in T
  <2> SUFFICES ASSUME NEW t \in SUBSET S, Cardinality(t) <= n + 1 PROVE g[t] = 0
    OBVIOUS
  <2>1. CASE t = {}
    BY <1>2, <2>1 DEF Sums
  <2>2. CASE t # {}
    <3>1. /\ t \ {First(t)} \in SUBSET S /\ Cardinality(t \ {First(t)}) <= n
          /\ First(t) \in S
      BY <2>2, FirstOff
    <3>2. g[t \ {First(t)}] = 0
      BY <1>4, <3>1
    <3>3. g[t] = f[First(t)] + g[t \ {First(t)}]
      BY <1>2, <2>2 DEF Sums
    <3>4. f[First(t)] = 0
      BY <1>1, <3>1
    <3> QED
      BY <3>2, <3>3, <3>4
  <2> QED
    BY <2>1, <2>2
<1> HIDE DEF T
<1>5. Nat \subseteq T
  BY <1>3, <1>4, NatSet
<1>6. Cardinality(S) \in Nat
  BY FS_CardinalityType
<1>7. g[S] = 0
  BY <1>5, <1>6 DEF T
<1> QED
  BY <1>2, <1>7 DEF f

-----------------------------------------------------------------------------
(* The steps, each with what it does to every variable that an invariant speaks of. *)

\* A completion is parked or flushed ...
Flushing ==
  /\ comps' = Flushed /\ pendingDone' = <<>>
  /\ UNCHANGED <<stage, at, gone, made, end, owner, gens, credit, inflight, global,
                 submit, acks, chunk, parked, slots, handler, batch, aborts, wire, marks,
                 asked, server, woken, open>>

Answering(k) ==
  /\ stage[k] = "run" /\ stage' = [stage EXCEPT ![k] = "late"]
  /\ parked' = [parked EXCEPT ![at[k]] = <<k, 0>>]
  /\ pendingDone' = Append(pendingDone, at[k]) /\ end' = [end EXCEPT ![k] = "whole"]
  /\ UNCHANGED <<at, gone, made, owner, gens, credit, inflight, global,
                 submit, acks, chunk, comps, slots, handler, batch, aborts, wire, marks,
                 asked, server, woken, open>>

Starting(k) ==
  /\ stage[k] = "run" /\ stage' = [stage EXCEPT ![k] = "stream"]
  /\ credit' = [credit EXCEPT ![at[k]] = server.window]
  /\ gens' = [gens EXCEPT ![at[k]] = k]
  /\ chunk' = Append(chunk, Frame("b", at[k], k, <<>>))
  /\ parked' = [parked EXCEPT ![at[k]] = <<k, k>>]
  /\ pendingDone' = Append(pendingDone, at[k])
  /\ open' = open \cup {at[k]}
  /\ UNCHANGED <<at, gone, made, end, owner, inflight, global,
                 submit, acks, comps, slots, handler, batch, aborts, wire, marks,
                 asked, server, woken>>

\* ... a task says nothing to the loop: it waits, or goes on after a wait, or has
\* nobody to say it to ...
Quiet(k, p, w) ==
  \/ /\ stage[k] \in Live /\ p \in Live /\ w = end[k]
     /\ p = "global" => stage[k] = "global" \/ credit[at[k]] >= 1
  \/ stage[k] \in Live /\ k \in gone /\ p \in {"late", "over"} /\ w \in {"whole", "cut"}
  \/ stage[k] = "late" /\ p = "over" /\ w = end[k]
  \/ stage[k] = "run" /\ p = "failed" /\ w = end[k]

Moving(k, p, w) ==
  /\ Quiet(k, p, w)
  /\ stage' = [stage EXCEPT ![k] = p] /\ end' = [end EXCEPT ![k] = w]
  /\ Woken'
  /\ UNCHANGED <<at, gone, made, owner, gens, credit, inflight, global, pendingDone,
                 submit, acks, chunk, comps, parked, slots, handler, batch, aborts, wire,
                 marks, asked, server, open>>

\* ... sends a piece, or the end of its body, or that it failed ...
Sending(k) ==
  /\ stage[k] \in Live /\ k \notin gone /\ global >= 1
  /\ stage[k] = "global" \/ credit[at[k]] >= 1
  /\ stage' = [stage EXCEPT ![k] = "stream"] /\ made' = [made EXCEPT ![k] = made[k] + 1]
  /\ credit' = [credit EXCEPT ![at[k]] = credit[at[k]] - 1] /\ global' = global - 1
  /\ inflight' = [inflight EXCEPT ![at[k]] = inflight[at[k]] + 1]
  /\ comps' = Flushed /\ pendingDone' = <<>>
  /\ chunk' = Append(chunk, Frame("s", at[k], gens[at[k]], Piece(k, made[k] + 1)))
  /\ Woken'
  /\ UNCHANGED <<at, gone, end, owner, gens, submit, acks, parked, slots, handler, batch,
                 aborts, wire, marks, asked, server, open>>

Ending(k, p) ==
  /\ stage[k] \in Live /\ k \notin gone /\ p \in {"late", "over"}
  /\ stage' = [stage EXCEPT ![k] = p] /\ end' = [end EXCEPT ![k] = "whole"]
  /\ comps' = Flushed /\ pendingDone' = <<>>
  /\ chunk' = Append(chunk, Frame("e", at[k], gens[at[k]], <<>>))
  /\ Woken'
  /\ UNCHANGED <<at, gone, made, owner, gens, credit, inflight, global,
                 submit, acks, parked, slots, handler, batch, aborts, wire, marks,
                 asked, server, open>>

Failing(k) ==
  /\ stage[k] \in Live /\ k \notin gone
  /\ stage' = [stage EXCEPT ![k] = "over"] /\ end' = [end EXCEPT ![k] = "cut"]
  /\ comps' = Append(comps, AbortOf(at[k], gens[at[k]]))
  /\ Woken'
  /\ UNCHANGED <<at, gone, made, owner, gens, credit, inflight, global, pendingDone,
                 submit, acks, chunk, parked, slots, handler, batch, aborts, wire, marks,
                 asked, server, open>>

\* ... is reported, with what of its slot it still owns ...
Reporting(k) ==
  /\ stage[k] \in {"failed", "over"} /\ stage' = [stage EXCEPT ![k] = "reported"]
  /\ \/ /\ owner[at[k]] = k /\ owner' = [owner EXCEPT ![at[k]] = None]
        /\ global' = global + inflight[at[k]] /\ inflight' = [inflight EXCEPT ![at[k]] = 0]
        /\ credit' = [credit EXCEPT ![at[k]] = 0]
     \/ owner[at[k]] # k /\ UNCHANGED <<owner, global, inflight, credit>>
  /\ \/ /\ stage[k] = "failed" /\ parked' = [parked EXCEPT ![at[k]] = <<k, 0>>]
        /\ pendingDone' = Append(pendingDone, at[k]) /\ end' = [end EXCEPT ![k] = "whole"]
     \/ stage[k] = "over" /\ UNCHANGED <<parked, pendingDone, end>>
  /\ Woken' /\ open' \subseteq Slots
  /\ UNCHANGED <<at, gone, made, gens, submit, acks, chunk, comps, slots, handler, batch,
                 aborts, wire, marks, asked, server>>

\* ... the executor reads its channels ...
Spawning(s, k) ==
  /\ submit # <<>> /\ Head(submit).tag = "job"
  /\ s = Head(submit).slot /\ k = Head(submit).req /\ submit' = Tail(submit)
  /\ stage' = [stage EXCEPT ![k] = "run"] /\ at' = [at EXCEPT ![k] = s]
  /\ owner' = [owner EXCEPT ![s] = k]
  /\ UNCHANGED <<gone, made, end, gens, credit, inflight, global, pendingDone,
                 acks, chunk, comps, parked, slots, handler, batch, aborts, wire, marks,
                 asked, server, woken, open>>

Departed(s) ==
  /\ submit # <<>> /\ Head(submit).tag = "gone" /\ s = Head(submit).slot
  /\ submit' = Tail(submit) /\ gone' = gone \cup ({owner[s]} \ {None})
  /\ global' = global + inflight[s] /\ inflight' = [inflight EXCEPT ![s] = 0]
  /\ Woken'
  /\ UNCHANGED <<stage, at, made, end, owner, gens, credit, pendingDone,
                 acks, chunk, comps, parked, slots, handler, batch, aborts, wire, marks,
                 asked, server, open>>

Least(a, b) == IF a <= b THEN a ELSE b

Acked(s, n, g) ==
  /\ acks # <<>> /\ Head(acks) = [slot |-> s, n |-> n, gen |-> g] /\ acks' = Tail(acks)
  /\ \/ /\ credit' = [credit EXCEPT ![s] = Least(credit[s] + n, server.window)]
        /\ \/ g # gens[s] /\ credit[s] < server.window
              /\ marks' = [marks EXCEPT ![gens[s]] = @ \cup {"paid"}]
           \/ (g = gens[s] \/ credit[s] >= server.window) /\ marks' = marks
     \/ credit' = credit /\ marks' = marks
  /\ global' = global + Least(n, inflight[s])
  /\ inflight' = [inflight EXCEPT ![s] = inflight[s] - Least(n, inflight[s])]
  /\ Woken'
  /\ UNCHANGED <<stage, at, gone, made, end, owner, gens, pendingDone, submit,
                 chunk, comps, parked, slots, handler, batch, aborts, wire, asked, server,
                 open>>

\* ... and the loop does its handlers.
Telling(s) ==
  \/ submit' = Append(submit, Tag(s))
  \/ ~HasRoom /\ submit' = submit

Asking(s) ==
  /\ slots[s].conn = "free" /\ asked + 1 \in Tasks
  /\ asked' = asked + 1 /\ submit' = Append(submit, Job(s, asked + 1))
  /\ slots' = [slots EXCEPT ![s] = [conn |-> "out", gen |-> 0]]
  /\ wire' = [wire EXCEPT ![s] = <<>>]
  /\ UNCHANGED <<stage, at, gone, made, end, owner, gens, credit, inflight, global,
                 pendingDone, acks, chunk, comps, parked, handler, batch, aborts, marks,
                 server, woken, open>>

Delivering ==
  /\ chunk' = <<>> /\ handler' = Delivered
  /\ UNCHANGED <<stage, at, gone, made, end, owner, gens, credit, inflight, global,
                 pendingDone, submit, acks, comps, parked, slots, batch, aborts, wire,
                 marks, asked, server, woken, open>>

Reading ==
  /\ batch = <<>> /\ aborts = <<>> /\ comps' = <<>>
  /\ batch' = Read("done") /\ aborts' = Read("abort")
  /\ UNCHANGED <<stage, at, gone, made, end, owner, gens, credit, inflight, global,
                 pendingDone, submit, acks, chunk, parked, slots, handler, wire,
                 marks, asked, server, woken, open>>

Completed(s) ==
  /\ batch # <<>> /\ s = batch[1].slot /\ batch' = Tail(batch)
  /\ parked' = [parked EXCEPT ![s] = <<0, 0>>]

Replying(s) ==
  /\ Completed(s) /\ parked[s][2] = 0
  /\ slots' = [slots EXCEPT ![s].conn = "free"]
  /\ \/ wire' = [wire EXCEPT ![s] = @ \o <<HeadOf(parked[s][1]), Terminator>>]
     \/ wire' = wire
  /\ UNCHANGED <<stage, at, gone, made, end, owner, gens, credit, inflight, global,
                 pendingDone, submit, acks, chunk, comps, handler, aborts,
                 marks, asked, server, woken, open>>

Opening(s) ==
  /\ Completed(s) /\ parked[s][2] # 0 /\ chunk' = <<>> /\ handler' = Delivered
  /\ slots' = [slots EXCEPT ![s] = [conn |-> "stream", gen |-> parked[s][2]]]
  /\ wire' = [wire EXCEPT ![s] = @ \o <<HeadOf(parked[s][1])>>]
  /\ UNCHANGED <<stage, at, gone, made, end, owner, gens, credit, inflight, global,
                 pendingDone, submit, acks, comps, aborts, marks, asked, server, woken, open>>

Refusing(s) ==
  /\ Completed(s) /\ parked[s][2] # 0 /\ chunk' = <<>>
  /\ handler' = Disconnected(Delivered, s) /\ Telling(s)
  /\ slots' = [slots EXCEPT ![s].conn = "free"]
  /\ UNCHANGED <<stage, at, gone, made, end, owner, gens, credit, inflight, global,
                 pendingDone, acks, comps, aborts, wire, marks, asked, server, woken, open>>

Cutting(s, g) ==
  /\ aborts # <<>> /\ s = aborts[1].slot /\ g = aborts[1].gen /\ aborts' = Tail(aborts)
  /\ slots[s] = [conn |-> "stream", gen |-> g]
  /\ wire' = [wire EXCEPT ![s] = @ \o Append(handler.pending[s], CutOff)]
  /\ slots' = [slots EXCEPT ![s].conn = "free"]
  /\ handler' = Disconnected(Drained(handler, s), s) /\ Telling(s)
  /\ UNCHANGED <<stage, at, gone, made, end, owner, gens, credit, inflight, global,
                 pendingDone, acks, chunk, comps, parked, batch, marks, asked, server,
                 woken, open>>

Missing ==
  /\ aborts # <<>> /\ aborts' = Tail(aborts)
  /\ \/ marks' = marks
     \/ \E g \in Gens : marks' = [marks EXCEPT ![g] = @ \cup {"unheard"}]
  /\ UNCHANGED <<stage, at, gone, made, end, owner, gens, credit, inflight, global,
                 pendingDone, submit, acks, chunk, comps, parked, slots, handler, batch,
                 wire, asked, server, woken, open>>

Draining(s) ==
  /\ slots[s].conn = "stream" /\ handler' = Drained(handler, s)
  /\ \/ handler.pending[s] = <<>> /\ acks' = acks
     \/ /\ handler.pending[s] # <<>>
        /\ acks' = Append(acks, [slot |-> s, n |-> Len(handler.pending[s]),
                                 gen |-> slots[s].gen])
  /\ \/ /\ s \in handler.sub' /\ slots' = slots
        /\ wire' = [wire EXCEPT ![s] = @ \o handler.pending[s]]
     \/ /\ s \notin handler.sub'
        /\ slots' = [slots EXCEPT ![s] = [conn |-> "free", gen |-> 0]]
        /\ wire' = [wire EXCEPT ![s] = @ \o Append(handler.pending[s], Terminator)]
  /\ UNCHANGED <<stage, at, gone, made, end, owner, gens, credit, inflight, global,
                 pendingDone, submit, chunk, comps, parked, batch, aborts, marks, asked,
                 server, woken, open>>

Leaving(s) ==
  /\ slots[s].conn = "stream" /\ slots' = [slots EXCEPT ![s].conn = "free"]
  /\ handler' = Disconnected(handler, s) /\ Telling(s)
  /\ wire' = [wire EXCEPT ![s] = <<>>]
  /\ UNCHANGED <<stage, at, gone, made, end, owner, gens, credit, inflight, global,
                 pendingDone, acks, chunk, comps, parked, batch, aborts, marks, asked,
                 server, woken, open>>

Step ==
  \/ Flushing \/ Delivering \/ Reading \/ Missing
  \/ \E k \in Tasks : Answering(k) \/ Starting(k) \/ Sending(k) \/ Failing(k) \/ Reporting(k)
  \/ \E k \in Tasks, p \in Stages, w \in {"open", "whole", "cut"} : Moving(k, p, w)
  \/ \E k \in Tasks, p \in Stages : Ending(k, p)
  \/ \E s \in Slots :
       \/ Departed(s) \/ Asking(s) \/ Replying(s) \/ Opening(s) \/ Refusing(s)
       \/ Draining(s) \/ Leaving(s)
  \/ \E s \in Slots, k \in Tasks : Spawning(s, k)
  \/ \E s \in Slots, g \in Gens : Cutting(s, g)
  \/ \E s \in Slots, n \in Nat, g \in Gens : Acked(s, n, g)

LEMMA Heads ==
  ASSUME TypeOK
  PROVE  /\ submit # <<>> =>
              /\ Head(submit) = submit[1] /\ Head(submit) \in Datagrams
                   /\ Head(submit).slot \in Slots
              /\ Head(submit).tag = "job" => Head(submit).req \in Tasks
         /\ acks # <<>> =>
              Head(acks) \in Acks /\ Head(acks) = acks[1]
         /\ batch # <<>> => batch[1] \in Entries /\ batch[1].slot \in Slots
         /\ aborts # <<>> => aborts[1] \in Entries /\ aborts[1].slot \in Slots
                            /\ aborts[1].gen \in Gens
<1>1. submit \in Seq(Datagrams) /\ acks \in Seq(Acks) /\ batch \in Seq(Entries)
        /\ aborts \in Seq(Entries)
  BY Typed
<1>2. submit # <<>> => Head(submit) = submit[1] /\ Head(submit) \in Datagrams
  BY <1>1
<1>3. acks # <<>> => Head(acks) = acks[1] /\ Head(acks) \in Acks
  BY <1>1
<1>4. batch # <<>> => batch[1] \in Entries
  BY <1>1
<1>5. aborts # <<>> => aborts[1] \in Entries
  BY <1>1
<1> QED
  BY <1>2, <1>3, <1>4, <1>5 DEF Datagrams, Entries

LEMMA Steps ==
  ASSUME TypeOK, Fresh, Next
  PROVE  Step
<1>W. \A k \in woken : k \in Tasks /\ stage[k] \in {"credit", "global"}
  BY DEF Fresh, Woken
<1>T. /\ stage \in [Tasks -> Stages] /\ at \in [Tasks -> Slots] /\ woken \subseteq Tasks
      /\ made \in [Tasks -> Nat] /\ end \in [Tasks -> {"open", "whole", "cut"}]
      /\ gens \in [Slots -> Gens] /\ inflight \in [Slots -> Nat] /\ global \in Nat
      /\ credit \in [Slots -> Int] /\ open \subseteq Slots
      /\ slots \in [Slots -> [conn : {"free", "out", "stream"}, gen : Gens]]
      /\ handler \in Registries /\ asked \in Gens /\ parked \in [Slots -> Gens \X Gens]
      /\ owner \in [Slots -> Tasks \cup {None}]
  BY Typed
<1>0. /\ server.slots \in Slots /\ server.room \in Nat /\ server.window \in Nat \ {0}
      /\ server.total \in Nat /\ server.pieces \in Nat /\ server.requests \in Gens
      /\ NumSlots \in Nat /\ MaxRequests \in Nat
  BY ServerFacts
<1>1. CASE Flush
  <2>1. Flushing
    BY <1>1 DEF Flush, Flushing, taskVars, tables, windows, loopVars
  <2> QED
    BY <2>1 DEF Step
<1>2. CASE Spawn
  <2>1. Spawning(Head(submit).slot, Head(submit).req)
    BY <1>2 DEF Spawn, Spawning, Goes, tables, windows, loopVars
  <2>2. Head(submit).slot \in Slots /\ Head(submit).req \in Tasks
    BY <1>2, Heads DEF Spawn
  <2> QED
    BY <2>1, <2>2 DEF Step
<1>3. CASE OnDisconnect
  <2> DEFINE s == Head(submit).slot
  <2>1. s \in Slots
    BY <1>3, Heads DEF OnDisconnect
  <2>2. /\ submit # <<>> /\ Head(submit).tag = "gone" /\ submit' = Tail(submit)
        /\ Departs(s) /\ Refund(s, Stranded(s))
        /\ woken' = woken \cup WokenAt(s) \cup WokenBy(Stranded(s))
        /\ UNCHANGED <<stage, at, made, end, event, tables, open, credit, pendingDone, acks,
                        chunk, comps, parked, loopVars, wire, marks, asked, server>>
    BY <1>3 DEF OnDisconnect
  <2>3. Woken'
    BY <1>W, <2>2 DEF Woken, WokenAt, WokenBy
  <2>4. global' = global + inflight[s] /\ inflight' = [inflight EXCEPT ![s] = 0]
    <3>1. inflight[s] \in Nat /\ inflight[s] - inflight[s] = 0
      BY <1>T, <2>1
    <3> QED
      BY <2>2, <3>1 DEF Refund, Stranded
  <2>5. Departed(s)
    BY <2>2, <2>3, <2>4 DEF Departed, Departs, tables, loopVars
  <2> QED
    BY <2>1, <2>5 DEF Step
<1>4. CASE OnAck
  <2> DEFINE ack == Head(acks)
             s == ack.slot
             n == ack.n
             g == ack.gen
  <2>1. s \in Slots /\ n \in Nat /\ g \in Gens /\ ack = [slot |-> s, n |-> n, gen |-> g]
    <3>1. ack \in Acks
      BY <1>4, Heads DEF OnAck
    <3> QED
      BY <3>1 DEF Acks
  <2>2. /\ acks # <<>> /\ acks' = Tail(acks)
        /\ credit' = IF s \in open THEN [credit EXCEPT ![s] = Min({credit[s] + n, server.window})]
                      ELSE credit
        /\ Refund(s, Spent(ack))
        /\ woken' = woken \cup WokenBy(Spent(ack)) \cup WokenAt(s)
        /\ marks' = IF s \in open /\ g # gens[s] /\ credit[s] < server.window
                     THEN [marks EXCEPT ![gens[s]] = @ \cup {"paid"}] ELSE marks
        /\ UNCHANGED <<stage, at, gone, made, end, tables, open, pendingDone, submit,
                    chunk, comps, parked, loopVars, wire, asked, server>>
    BY <1>4 DEF OnAck
  <2>3. Woken'
    <3>1. woken' \subseteq woken \cup WokenBy(Spent(ack)) \cup WokenAt(s)
      BY <2>2
    <3> QED
      BY <1>W, <2>2, <3>1 DEF Woken, WokenAt, WokenBy
  <2>4. Min({credit[s] + n, server.window}) = Least(credit[s] + n, server.window)
    <3>1. credit[s] + n \in Int /\ server.window \in Int
      BY <1>T, <1>0, <2>1
    <3> QED
      BY <3>1, MinOf DEF Least
  <2>5. Spent(ack) = Least(n, inflight[s])
    <3>1. n \in Int /\ inflight[s] \in Int
      BY <1>T, <2>1
    <3> QED
      BY <3>1, MinOf DEF Least, Spent
  <2>6. /\ global' = global + Least(n, inflight[s])
        /\ inflight' = [inflight EXCEPT ![s] = inflight[s] - Least(n, inflight[s])]
    BY <2>2, <2>5 DEF Refund
  <2> HIDE DEF s, n, g
  <2>7. Acked(s, n, g)
    <3>1. /\ acks # <<>> /\ Head(acks) = [slot |-> s, n |-> n, gen |-> g] /\ acks' = Tail(acks)
          /\ UNCHANGED <<stage, at, gone, made, end, owner, gens, pendingDone, submit,
                 chunk, comps, parked, slots, handler, batch, aborts, wire, asked, server,
                 open>>
      BY <2>1, <2>2 DEF tables, loopVars
    <3>2. CASE s \in open
      <4>1. credit' = [credit EXCEPT ![s] = Least(credit[s] + n, server.window)]
        BY <2>2, <2>4, <3>2
      <4>2. CASE g # gens[s] /\ credit[s] < server.window
        <5>1. marks' = [marks EXCEPT ![gens[s]] = @ \cup {"paid"}]
          BY <2>2, <3>2, <4>2
        <5> QED
          BY <2>3, <2>6, <3>1, <4>1, <4>2, <5>1 DEF Acked
      <4>3. CASE ~(g # gens[s] /\ credit[s] < server.window)
        <5>1. marks' = marks
          BY <2>2, <4>3
        <5>2. g = gens[s] \/ credit[s] >= server.window
          BY <1>T, <1>0, <2>1, <4>3
        <5> QED
          BY <2>3, <2>6, <3>1, <4>1, <5>1, <5>2 DEF Acked
      <4> QED
        BY <4>2, <4>3
    <3>3. CASE s \notin open
      <4>1. credit' = credit /\ marks' = marks
        BY <2>2, <3>3
      <4> QED
        BY <2>3, <2>6, <3>1, <4>1 DEF Acked
    <3> QED
      BY <3>2, <3>3
  <2> QED
    BY <2>1, <2>7 DEF Step
<1>5. ASSUME NEW k \in Tasks, Emit(k, stage[k] # "global"), stage[k] \in Live, k \notin gone,
             UNCHANGED <<at, gone, end, tables, submit, acks, parked, loopVars, wire, marks,
                         asked, server>>
      PROVE  Step
  <2> DEFINE s == at[k]
             short == stage[k] # "global" /\ credit[s] < 1
  <2>1. s \in Slots /\ credit[s] \in Int /\ made[k] \in Nat /\ inflight[s] \in Nat
    BY <1>T
  <2>2. CASE /\ short \/ global < 1
             /\ Goes(k, IF short THEN "credit" ELSE "global") /\ woken' = woken \ {k}
             /\ UNCHANGED <<windows, made, chunk, comps, pendingDone>>
    <3> DEFINE p == IF short THEN "credit" ELSE "global"
    <3>1. p \in Live /\ p \in Stages /\ (p = "global" => stage[k] = "global" \/ credit[s] >= 1)
      BY <2>1 DEF Live, Stages
    <3>2. Quiet(k, p, end[k])
      <4> HIDE DEF p
      <4> QED
        BY <1>5, <3>1 DEF Quiet
    <3>3. stage' = [stage EXCEPT ![k] = p] /\ Woken'
      BY <1>T, <1>W, <2>2 DEF Goes, Woken
    <3>4. end' = [end EXCEPT ![k] = end[k]] /\ end[k] \in {"open", "whole", "cut"}
      BY <1>T, <1>5
    <3> HIDE DEF p
    <3>5. Moving(k, p, end[k])
      BY <1>5, <2>2, <3>2, <3>3, <3>4 DEF Moving, tables, windows, loopVars
    <3> QED
      BY <3>1, <3>4, <3>5 DEF Step
  <2>3. CASE /\ ~short /\ global >= 1
             /\ Charges(k) /\ Goes(k, "stream") /\ woken' = woken \ {k}
             /\ made' = [made EXCEPT ![k] = @ + 1]
             /\ Sends(Frame("s", s, gens[s], Piece(k, made'[k])))
    <3>1. made'[k] = made[k] + 1 /\ made' = [made EXCEPT ![k] = made[k] + 1]
      BY <1>T, <2>3
    <3>2. /\ chunk' = Append(chunk, Frame("s", at[k], gens[at[k]], Piece(k, made[k] + 1)))
          /\ comps' = Flushed /\ pendingDone' = <<>>
      BY <2>3, <3>1 DEF Sends
    <3>3. /\ credit' = [credit EXCEPT ![at[k]] = credit[at[k]] - 1] /\ global' = global - 1
          /\ inflight' = [inflight EXCEPT ![at[k]] = inflight[at[k]] + 1] /\ open' = open
      BY <2>3 DEF Charges
    <3>4. stage[k] = "global" \/ credit[at[k]] >= 1
      BY <2>1, <2>3
    <3>5. stage' = [stage EXCEPT ![k] = "stream"] /\ Woken'
      BY <1>T, <1>W, <2>3 DEF Goes, Woken
    <3>6. Sending(k)
      BY <1>5, <2>3, <3>1, <3>2, <3>3, <3>4, <3>5 DEF Sending, tables, loopVars
    <3> QED
      BY <3>6 DEF Step
  <2> QED
    BY <1>5, <2>2, <2>3 DEF Emit
<1>6. ASSUME NEW k \in Tasks, Answer(k) PROVE Step
  <2>1. Answering(k)
    BY <1>6 DEF Answer, Answering, Answers, Goes, Ended, tables, windows, loopVars
  <2> QED
    BY <2>1 DEF Step
<1>7. ASSUME NEW k \in Tasks, StreamStart(k) PROVE Step
  <2>1. Starting(k)
    BY <1>7 DEF StreamStart, Starting, Answers, Goes, loopVars
  <2> QED
    BY <2>1 DEF Step
<1>8. ASSUME NEW k \in Tasks, Send(k) PROVE Step
  <2>1. stage[k] = "stream" /\ stage[k] \in Live /\ k \notin gone /\ stage[k] # "global"
    BY <1>8 DEF Send, TaskGone, Live
  <2>2. Emit(k, stage[k] # "global")
    <3>1. (stage[k] # "global") = TRUE
      BY <2>1
    <3> QED
      BY <1>8, <3>1 DEF Send
  <2> QED
    BY <1>5, <1>8, <2>1, <2>2 DEF Send
<1>9. ASSUME NEW k \in Tasks, Resume(k) PROVE Step
  <2>1. stage[k] \in {"credit", "global"} /\ stage[k] \in Live /\ (TaskGone(k) <=> k \in gone)
        /\ (stage[k] # "global") = (stage[k] = "credit")
    BY <1>9, <1>W DEF Resume, TaskGone, Live
  <2>2. CASE ~TaskGone(k) /\ Emit(k, stage[k] = "credit")
    BY <1>5, <1>9, <2>1, <2>2 DEF Resume
  <2>3. CASE /\ Goes(k, "stream") /\ woken' = woken \ {k}
             /\ UNCHANGED <<windows, made, chunk, comps, pendingDone>>
    <3>1. Quiet(k, "stream", end[k]) /\ "stream" \in Stages
      BY <2>1 DEF Quiet, Live, Stages
    <3>2. end' = [end EXCEPT ![k] = end[k]] /\ end[k] \in {"open", "whole", "cut"}
      BY <1>T, <1>9 DEF Resume
    <3>3. Woken'
      BY <1>T, <1>W, <2>3 DEF Goes, Woken
    <3>4. Moving(k, "stream", end[k])
      BY <1>9, <2>3, <3>1, <3>2, <3>3 DEF Resume, Moving, Goes, tables, windows, loopVars
    <3> QED
      BY <3>1, <3>2, <3>4 DEF Step
  <2> QED
    BY <1>9, <2>2, <2>3 DEF Resume
<1>10. ASSUME NEW k \in Tasks, Final(k) PROVE Step
  <2>1. stage[k] = "stream" /\ stage[k] \in Live /\ (TaskGone(k) <=> k \in gone)
        /\ "late" \in Stages /\ k \notin woken
    BY <1>10, <1>W DEF Final, TaskGone, Live, Stages
  <2>2. CASE ~TaskGone(k) /\ SendsEnd(k)
    <3>0. Woken'
      BY <1>T, <1>W, <1>10, <2>1 DEF Final, Goes, Woken
    <3>1. Ending(k, "late")
      BY <1>10, <2>1, <2>2, <3>0 DEF Final, SendsEnd, Sends, Ending, Goes, Ended, tables, windows,
         loopVars
    <3> QED
      BY <2>1, <3>1 DEF Step
  <2>3. CASE TaskGone(k) /\ UNCHANGED <<chunk, comps, pendingDone>>
    <3>1. Quiet(k, "late", "whole")
      BY <2>1, <2>3 DEF Quiet
    <3>2. Woken'
      BY <1>T, <1>W, <1>10, <2>1 DEF Final, Goes, Woken
    <3>3. Moving(k, "late", "whole")
      BY <1>10, <2>3, <3>1, <3>2 DEF Final, Moving, Goes, Ended, tables, windows, loopVars
    <3> QED
      BY <2>1, <3>3 DEF Step
  <2> QED
    BY <1>10, <2>2, <2>3 DEF Final
<1>11. ASSUME NEW k \in Tasks, stage[k] \in Live, NEW w \in {"whole", "cut"},
              Signals(k, w), Goes(k, "over"), Ended(k, w), Woken',
              w = "whole" => woken' = woken,
              UNCHANGED <<at, gone, made, tables, windows, submit, acks, parked, loopVars, wire,
                          marks, asked, server>>
       PROVE  Step
  <2>1. (TaskGone(k) <=> k \in gone) /\ "over" \in Stages
    BY <1>11 DEF TaskGone, Live, Stages
  <2>2. CASE ~TaskGone(k) /\ w = "whole" /\ SendsEnd(k)
    <3>1. Ending(k, "over")
      BY <1>11, <2>1, <2>2 DEF SendsEnd, Sends, Ending, Goes, Ended, tables, windows, loopVars
    <3> QED
      BY <2>1, <3>1 DEF Step
  <2>3. CASE ~TaskGone(k) /\ w = "cut" /\ SendsAbort(k)
    <3>1. Failing(k)
      BY <1>11, <2>1, <2>3 DEF SendsAbort, Failing, Goes, Ended, tables, windows, loopVars
    <3> QED
      BY <3>1 DEF Step
  <2>4. CASE TaskGone(k) /\ UNCHANGED <<chunk, comps, pendingDone>>
    <3>1. Quiet(k, "over", w)
      BY <1>11, <2>1, <2>4 DEF Quiet
    <3>2. Moving(k, "over", w)
      BY <1>11, <2>4, <3>1 DEF Moving, Goes, Ended, tables, windows, loopVars
    <3> QED
      BY <2>1, <3>2 DEF Step
  <2> QED
    BY <1>11, <2>2, <2>3, <2>4 DEF Signals
<1>12. ASSUME NEW k \in Tasks, Return(k) PROVE Step
  <2>1. /\ woken' = woken
        /\ UNCHANGED <<at, gone, made, tables, windows, submit, acks, parked, loopVars, wire,
                        marks, asked, server>>
    BY <1>12 DEF Return
  <2>2. CASE /\ stage[k] = "stream" /\ Goes(k, "over")
             /\ \/ Signals(k, "whole") /\ Ended(k, "whole")
                \/ Signals(k, "cut") /\ Ended(k, "cut")
    <3>1. stage[k] \in Live /\ Woken'
      BY <1>T, <1>W, <2>1, <2>2 DEF Live, Goes, Woken
    <3>2. PICK w \in {"whole", "cut"} : Signals(k, w) /\ Ended(k, w)
      BY <2>2
    <3> QED
      BY <1>11, <2>1, <2>2, <3>1, <3>2
  <2>3. ASSUME NEW p \in {"over", "failed"}, Goes(k, p),
               \/ stage[k] = "late" /\ p = "over"
               \/ stage[k] = "run" /\ p = "failed",
               UNCHANGED <<end, chunk, comps, pendingDone>>
        PROVE  Step
    <3>1. Quiet(k, p, end[k]) /\ p \in Stages
      BY <2>3 DEF Quiet, Stages
    <3>2. end' = [end EXCEPT ![k] = end[k]] /\ end[k] \in {"open", "whole", "cut"}
      BY <1>T, <2>3
    <3>3. Woken'
      BY <1>T, <1>W, <2>1, <2>3 DEF Goes, Woken
    <3>4. Moving(k, p, end[k])
      BY <2>1, <2>3, <3>1, <3>2, <3>3 DEF Moving, Goes, tables, windows, loopVars
    <3> QED
      BY <3>1, <3>2, <3>4 DEF Step
  <2> QED
    BY <1>12, <2>2, <2>3 DEF Return
<1>13. ASSUME NEW k \in Tasks, Cancelled(k) PROVE Step
  <2>1. /\ stage[k] \in Live /\ Signals(k, "cut") /\ Goes(k, "over") /\ Ended(k, "cut")
        /\ woken' = woken \ {k}
        /\ UNCHANGED <<at, gone, made, tables, windows, submit, acks, parked, loopVars, wire,
                        marks, asked, server>>
    BY <1>13 DEF Cancelled, Live
  <2>2. Woken'
    BY <1>T, <1>W, <2>1 DEF Goes, Woken
  <2> QED
    BY <1>11, <2>1, <2>2
<1>14. ASSUME NEW k \in Tasks, Report(k) PROVE Step
  <2> DEFINE s == at[k]
  <2>1. s \in Slots /\ inflight[s] \in Nat /\ inflight[s] - inflight[s] = 0
    BY <1>T
  <2>2. \/ /\ owner[s] = k /\ owner' = [owner EXCEPT ![s] = None]
           /\ global' = global + inflight[s] /\ inflight' = [inflight EXCEPT ![s] = 0]
           /\ credit' = [credit EXCEPT ![s] = 0]
        \/ owner[s] # k /\ UNCHANGED <<owner, global, inflight, credit>>
    <3>1. CASE /\ owner[s] = k /\ owner' = [owner EXCEPT ![s] = None]
               /\ Refund(s, Stranded(s)) /\ credit' = [credit EXCEPT ![s] = 0]
      BY <2>1, <3>1 DEF Refund, Stranded
    <3>2. CASE owner[s] # k /\ UNCHANGED <<owner, windows, woken>>
      BY <3>2 DEF windows
    <3> QED
      BY <1>14, <3>1, <3>2 DEF Report
  <2>3. woken' \subseteq woken \cup WokenBy(Stranded(s)) /\ open' \subseteq open \cup {}
    BY <1>14 DEF Report, windows
  <2>4. stage' = [stage EXCEPT ![k] = "reported"] /\ stage[k] \in {"failed", "over"}
    BY <1>14 DEF Report, Goes
  <2>5. Woken' /\ open' \subseteq Slots
    BY <1>T, <1>W, <2>3, <2>4 DEF WokenBy, Woken
  <2>6. \/ /\ stage[k] = "failed" /\ parked' = [parked EXCEPT ![at[k]] = <<k, 0>>]
           /\ pendingDone' = Append(pendingDone, at[k]) /\ end' = [end EXCEPT ![k] = "whole"]
        \/ stage[k] = "over" /\ UNCHANGED <<parked, pendingDone, end>>
    BY <1>14 DEF Report, Answers, Ended
  <2>7. UNCHANGED <<at, gone, made, gens, submit, acks, chunk, comps, slots, handler, batch,
                    aborts, wire, marks, asked, server>>
    BY <1>14 DEF Report, loopVars
  <2>8. Reporting(k)
    BY <2>2, <2>4, <2>5, <2>6, <2>7 DEF Reporting
  <2> QED
    BY <2>8 DEF Step
<1>15. CASE DeliverBusFrames
  <2>1. Delivering
    BY <1>15 DEF DeliverBusFrames, Delivering, taskVars, tables, windows
  <2> QED
    BY <2>1 DEF Step
<1>16. CASE ReadChannel
  <2>1. Reading
    BY <1>16 DEF ReadChannel, Free, Reading, taskVars, tables, windows
  <2> QED
    BY <2>1 DEF Step
<1>17. CASE CompleteAnswer
  <2>1. Replying(batch[1].slot)
    BY <1>17 DEF CompleteAnswer, Reaches, Replying, Completed, taskVars, tables, windows
  <2>2. batch[1].slot \in Slots
    BY <1>17, Heads DEF CompleteAnswer
  <2> QED
    BY <2>1, <2>2 DEF Step
<1>18. ASSUME NEW s \in Slots, NEW h, Closes(s, h)
       PROVE  /\ slots' = [slots EXCEPT ![s].conn = "free"] /\ handler' = Disconnected(h, s)
              /\ Telling(s)
  BY <1>18 DEF Closes, Telling, HasRoom
<1>19. CASE CompleteHead
  <2> DEFINE s == batch[1].slot
  <2>1. s \in Slots
    BY <1>19, Heads DEF CompleteHead
  <2>2. /\ Completed(s) /\ parked[s][2] # 0 /\ chunk' = <<>>
        /\ UNCHANGED <<stage, at, gone, made, end, owner, gens, credit, inflight, global,
                 pendingDone, acks, comps, aborts, marks, asked, server, woken, open>>
    BY <1>19 DEF CompleteHead, Completed, taskVars, tables, windows
  <2>3. \/ /\ Reaches(s, <<HeadOf(parked[s][1])>>) /\ handler' = Delivered
           /\ slots' = [slots EXCEPT ![s] = [conn |-> "stream", gen |-> parked[s][2]]]
           /\ UNCHANGED submit
        \/ Closes(s, Delivered) /\ UNCHANGED wire
    BY <1>19 DEF CompleteHead
  <2>4. Opening(s) \/ Refusing(s)
    <3> HIDE DEF s
    <3>1. CASE Closes(s, Delivered) /\ UNCHANGED wire
      BY <1>18, <2>1, <2>2, <3>1 DEF Refusing
    <3>2. CASE ~(Closes(s, Delivered) /\ UNCHANGED wire)
      BY <2>2, <2>3, <3>2 DEF Opening, Reaches
    <3> QED
      BY <3>1, <3>2
  <2> QED
    BY <2>1, <2>4 DEF Step
<1>20. CASE ServeAbort
  <2> DEFINE s == aborts[1].slot
             g == aborts[1].gen
  <2>1. s \in Slots /\ g \in Gens
    BY <1>20, Heads DEF ServeAbort
  <2>2. /\ aborts # <<>> /\ aborts' = Tail(aborts)
        /\ UNCHANGED <<stage, at, gone, made, end, owner, gens, credit, inflight, global,
                 pendingDone, acks, chunk, comps, parked, batch, asked, server, woken, open>>
    BY <1>20 DEF ServeAbort, taskVars, tables, windows
  <2>3. CASE /\ slots[s] = [conn |-> "stream", gen |-> g] /\ UNCHANGED marks
             /\ Reaches(s, Append(handler.pending[s], CutOff)) /\ Closes(s, Drained(handler, s))
    <3>1. Cutting(s, g)
      BY <1>18, <2>1, <2>2, <2>3 DEF Cutting, Reaches
    <3> QED
      BY <2>1, <3>1 DEF Step
  <2>4. CASE /\ UNCHANGED <<slots, handler, submit, wire>>
             /\ marks' = IF parked[s][2] = g THEN [marks EXCEPT ![g] = @ \cup {"unheard"}]
                                             ELSE marks
    <3>1. \/ marks' = marks
          \/ \E x \in Gens : marks' = [marks EXCEPT ![x] = @ \cup {"unheard"}]
      BY <2>1, <2>4
    <3>2. Missing
      BY <2>2, <2>4, <3>1 DEF Missing
    <3> QED
      BY <3>2 DEF Step
  <2> QED
    BY <1>20, <2>3, <2>4 DEF ServeAbort
<1>21. ASSUME NEW s \in Slots, Ask(s) PROVE Step
  <2>1. asked + 1 \in Tasks
    <3>1. asked \in Nat /\ server.requests \in Nat /\ server.requests <= MaxRequests
          /\ asked < server.requests
      <4>1. asked < server.requests
        BY <1>21 DEF Ask
      <4>2. asked \in Nat /\ server.requests \in Nat /\ server.requests <= MaxRequests
        BY <1>T, <1>0 DEF Gens
      <4> QED
        BY <4>1, <4>2
    <3> QED
      BY <1>0, <3>1 DEF Tasks
  <2>2. Asking(s)
    BY <1>21, <2>1 DEF Ask, Asking, taskVars, tables, windows
  <2> QED
    BY <2>2 DEF Step
<1>22. ASSUME NEW s \in Slots, Drain(s) PROVE Step
  <2> DEFINE ended == s \notin Drained(handler, s).sub
             out == handler.pending[s]
  <2>1. /\ slots[s].conn = "stream" /\ handler' = Drained(handler, s)
        /\ wire' = [wire EXCEPT ![s] = @ \o (IF ended THEN Append(out, Terminator) ELSE out)]
        /\ acks' = IF out = <<>> THEN acks
                   ELSE Append(acks, [slot |-> s, n |-> Len(out), gen |-> slots[s].gen])
        /\ slots' = IF ended THEN [slots EXCEPT ![s] = [conn |-> "free", gen |-> 0]] ELSE slots
        /\ UNCHANGED <<stage, at, gone, made, end, owner, gens, credit, inflight, global,
                 pendingDone, submit, chunk, comps, parked, batch, aborts, marks, asked,
                 server, woken, open>>
    BY <1>22 DEF Drain, Reaches, taskVars, tables, windows
  <2>2. (s \notin handler'.sub) = ended
    BY <2>1
  <2>3. \/ out = <<>> /\ acks' = acks
        \/ /\ out # <<>>
           /\ acks' = Append(acks, [slot |-> s, n |-> Len(out), gen |-> slots[s].gen])
    BY <2>1
  <2>4. CASE ended
    <3>1. /\ wire' = [wire EXCEPT ![s] = @ \o Append(out, Terminator)]
          /\ slots' = [slots EXCEPT ![s] = [conn |-> "free", gen |-> 0]]
      BY <2>1, <2>4
    <3>2. Draining(s)
      BY <2>1, <2>2, <2>3, <2>4, <3>1 DEF Draining
    <3> QED
      BY <3>2 DEF Step
  <2>5. CASE ~ended
    <3>1. wire' = [wire EXCEPT ![s] = @ \o out] /\ slots' = slots
      BY <2>1, <2>5
    <3>2. Draining(s)
      BY <2>1, <2>2, <2>3, <2>5, <3>1 DEF Draining
    <3> QED
      BY <3>2 DEF Step
  <2> QED
    BY <2>4, <2>5
<1>23. ASSUME NEW s \in Slots, ClientLeaves(s) PROVE Step
  <2>1. Leaving(s)
    BY <1>18, <1>23 DEF ClientLeaves, Leaving, taskVars, tables, windows
  <2> QED
    BY <2>1 DEF Step
<1> QED
  BY <1>1, <1>2, <1>3, <1>4, <1>6, <1>7, <1>8, <1>9, <1>10, <1>12, <1>13, <1>14, <1>15, <1>16,
     <1>17, <1>19, <1>20, <1>21, <1>22, <1>23 DEF Next, Reads, Runs, Serves

\* The event a task waits on is a stream's: no step but a send takes another.
LEMMA EventStep ==
  ASSUME TypeOK, Next
  PROVE  event' \in [Tasks -> Gens]
<1>1. event \in [Tasks -> Gens] /\ at \in [Tasks -> Slots] /\ gens \in [Slots -> Gens]
  BY Typed
<1>2. CASE UNCHANGED event
  BY <1>1, <1>2
<1>3. CASE Flush \/ Reads \/ OnAck
  BY <1>2, <1>3 DEF Flush, Reads, Spawn, OnDisconnect, OnAck, taskVars
<1>4. ASSUME NEW k \in Tasks, Runs(k) \/ Cancelled(k)
      PROVE  event' \in [Tasks -> Gens]
  <2>1. CASE Send(k)
    <3>1. event' = [event EXCEPT ![k] = gens[at[k]]]
      BY <2>1 DEF Send
    <3> QED
      BY <1>1, <3>1
  <2>2. CASE Answer(k) \/ StreamStart(k) \/ Resume(k) \/ Final(k)
    BY <1>2, <2>2 DEF Answer, StreamStart, Resume, Final
  <2>3. CASE Return(k) \/ Report(k) \/ Cancelled(k)
    BY <1>2, <2>3 DEF Return, Report, Cancelled
  <2> QED
    BY <1>4, <2>1, <2>2, <2>3 DEF Runs
<1>5. CASE Serves
  BY <1>2, <1>5 DEF Serves, DeliverBusFrames, ReadChannel, CompleteAnswer, CompleteHead,
     ServeAbort, taskVars
<1>6. CASE \E s \in Slots : Ask(s) \/ Drain(s) \/ ClientLeaves(s)
  BY <1>2, <1>6 DEF Ask, Drain, ClientLeaves, taskVars
<1> QED
  BY <1>3, <1>4, <1>5, <1>6 DEF Next

-----------------------------------------------------------------------------
(* The registry. *)

\* What the loop's handlers do to it: of the slots only one is touched.
LEMMA RegistryFacts ==
  ASSUME NEW h \in Registries, NEW s \in Slots
  PROVE  /\ Drained(h, s) \in Registries
         /\ Disconnected(h, s) \in Registries
         /\ \A z \in Slots \ {s} :
              /\ z \in Drained(h, s).sub <=> z \in h.sub
              /\ z \in Drained(h, s).done <=> z \in h.done
              /\ Drained(h, s).pending[z] = h.pending[z]
              /\ z \in Disconnected(h, s).sub <=> z \in h.sub
              /\ z \in Disconnected(h, s).done <=> z \in h.done
              /\ Disconnected(h, s).pending[z] = h.pending[z]
              /\ Disconnected(h, s).gen[z] = h.gen[z]
         /\ Drained(h, s).gen = h.gen /\ Drained(h, s).pending[s] = <<>>
         /\ s \notin Drained(h, s).done
         /\ s \in Drained(h, s).sub <=> s \in h.sub /\ s \notin h.done
         /\ s \notin Disconnected(h, s).sub /\ s \notin Disconnected(h, s).done
         /\ Disconnected(h, s).pending[s] = <<>> /\ Disconnected(h, s).gen[s] = 0
<1>1. /\ h.sub \subseteq Slots /\ h.done \subseteq Slots
      /\ h.pending \in [Slots -> Seq(Tasks \X Nat)] /\ h.gen \in [Slots -> Gens]
      /\ h = [sub |-> h.sub, done |-> h.done, pending |-> h.pending, gen |-> h.gen]
  BY DEF Registries
<1>2. 0 \in Gens /\ <<>> \in Seq(Tasks \X Nat)
  BY ExecutorAssumption DEF Gens
<1>3. Unsubscribed(h, s) = [sub |-> h.sub \ {s}, done |-> h.done,
                            pending |-> [h.pending EXCEPT ![s] = <<>>], gen |-> h.gen]
  <2>1. Unsubscribed(h, s) = [h EXCEPT !.sub = @ \ {s}, !.pending[s] = <<>>]
    BY DEF Unsubscribed
  <2> QED
    BY <1>1, <2>1
<1>4. Disconnected(h, s) = [sub |-> h.sub \ {s}, done |-> h.done \ {s},
                            pending |-> [h.pending EXCEPT ![s] = <<>>],
                            gen |-> [h.gen EXCEPT ![s] = 0]]
  <2>1. Disconnected(h, s) = [Unsubscribed(h, s) EXCEPT !.done = @ \ {s}, !.gen[s] = 0]
    BY DEF Disconnected
  <2> DEFINE u == Unsubscribed(h, s)
  <2>2. /\ u.sub = h.sub \ {s} /\ u.done = h.done /\ u.gen = h.gen
        /\ u.pending = [h.pending EXCEPT ![s] = <<>>]
        /\ u = [sub |-> u.sub, done |-> u.done, pending |-> u.pending, gen |-> u.gen]
    BY <1>3
  <2>3. Disconnected(h, s) = [u EXCEPT !.done = @ \ {s}, !.gen[s] = 0]
    BY <2>1
  <2> HIDE DEF u
  <2>4. Disconnected(h, s) = [sub |-> u.sub, done |-> u.done \ {s}, pending |-> u.pending,
                              gen |-> [u.gen EXCEPT ![s] = 0]]
    BY <2>2, <2>3
  <2> QED
    BY <2>2, <2>4
<1>5. Drained(h, s) = IF s \in h.done
                      THEN [sub |-> h.sub \ {s}, done |-> h.done \ {s},
                            pending |-> [h.pending EXCEPT ![s] = <<>>], gen |-> h.gen]
                      ELSE [sub |-> h.sub, done |-> h.done,
                            pending |-> [h.pending EXCEPT ![s] = <<>>], gen |-> h.gen]
  <2>1. CASE s \in h.done
    <3>1. Drained(h, s) = [Unsubscribed(h, s) EXCEPT !.done = @ \ {s}]
      BY <2>1 DEF Drained
    <3> DEFINE u == Unsubscribed(h, s)
    <3>2. /\ u.sub = h.sub \ {s} /\ u.done = h.done /\ u.gen = h.gen
          /\ u.pending = [h.pending EXCEPT ![s] = <<>>]
          /\ u = [sub |-> u.sub, done |-> u.done, pending |-> u.pending, gen |-> u.gen]
      BY <1>3
    <3>3. Drained(h, s) = [u EXCEPT !.done = @ \ {s}]
      BY <3>1
    <3> HIDE DEF u
    <3>4. Drained(h, s) = [sub |-> u.sub, done |-> u.done \ {s}, pending |-> u.pending,
                           gen |-> u.gen]
      BY <3>2, <3>3
    <3> QED
      BY <2>1, <3>2, <3>4
  <2>2. CASE s \notin h.done
    <3>1. Drained(h, s) = [h EXCEPT !.pending[s] = <<>>]
      BY <2>2 DEF Drained
    <3>2. Drained(h, s)
          = [sub |-> h.sub, done |-> h.done,
             pending |-> [h.pending EXCEPT ![s] = <<>>], gen |-> h.gen]
      BY <1>1, <3>1
    <3> QED
      BY <2>2, <3>2
  <2> QED
    BY <2>1, <2>2
<1>6. /\ [h.pending EXCEPT ![s] = <<>>] \in [Slots -> Seq(Tasks \X Nat)]
      /\ [h.gen EXCEPT ![s] = 0] \in [Slots -> Gens]
  BY <1>1, <1>2
<1>7. Disconnected(h, s) \in Registries /\ Drained(h, s) \in Registries
  BY <1>1, <1>4, <1>5, <1>6 DEF Registries
<1>8. /\ \A z \in Slots \ {s} : [h.pending EXCEPT ![s] = <<>>][z] = h.pending[z]
      /\ \A z \in Slots \ {s} : [h.gen EXCEPT ![s] = 0][z] = h.gen[z]
      /\ [h.pending EXCEPT ![s] = <<>>][s] = <<>> /\ [h.gen EXCEPT ![s] = 0][s] = 0
  BY <1>1
<1>9. CASE s \in h.done
  BY <1>4, <1>5, <1>7, <1>8, <1>9
<1>10. CASE s \notin h.done
  BY <1>4, <1>5, <1>7, <1>8, <1>10
<1> QED
  BY <1>9, <1>10

-----------------------------------------------------------------------------
(* Every step keeps the types. *)

LEMMA TypedNext ==
  ASSUME server' \in Deployments, asked' \in Gens,
         stage' \in [Tasks -> Stages], at' \in [Tasks -> Slots],
         gone' \subseteq Tasks, woken' \subseteq Tasks,
         made' \in [Tasks -> Nat], end' \in [Tasks -> {"open", "whole", "cut"}],
         event' \in [Tasks -> Gens],
         owner' \in [Slots -> Tasks \cup {None}], gens' \in [Slots -> Gens],
         open' \subseteq Slots, credit' \in [Slots -> Int], inflight' \in [Slots -> Nat],
         global' \in Nat, pendingDone' \in Seq(Slots),
         submit' \in Seq(Datagrams), acks' \in Seq(Acks), chunk' \in Seq(Frames),
         comps' \in Seq(Entries), batch' \in Seq(Entries), aborts' \in Seq(Entries),
         parked' \in [Slots -> Gens \X Gens],
         slots' \in [Slots -> [conn : {"free", "out", "stream"}, gen : Gens]],
         handler' \in Registries,
         wire' \in [Slots -> Seq(Gens \X Int)], marks' \in [Tasks -> SUBSET Marks]
  PROVE  TypeOK'
<1>1. \A c \in {comps', batch', aborts'} : c \in Seq(Entries)
  OBVIOUS
<1> QED
  BY <1>1 DEF TypeOK, Datagrams, Acks, Frames, Entries, Registries

LEMMA TypeStep ==
  ASSUME TypeOK, Step, event' \in [Tasks -> Gens]
  PROVE  TypeOK'
<1>1. /\ server \in Deployments /\ asked \in Gens
      /\ stage \in [Tasks -> Stages] /\ at \in [Tasks -> Slots]
      /\ gone \subseteq Tasks /\ woken \subseteq Tasks
      /\ made \in [Tasks -> Nat] /\ end \in [Tasks -> {"open", "whole", "cut"}]
      /\ owner \in [Slots -> Tasks \cup {None}] /\ gens \in [Slots -> Gens]
      /\ open \subseteq Slots /\ credit \in [Slots -> Int] /\ inflight \in [Slots -> Nat]
      /\ global \in Nat /\ pendingDone \in Seq(Slots)
      /\ submit \in Seq(Datagrams) /\ acks \in Seq(Acks) /\ chunk \in Seq(Frames)
      /\ comps \in Seq(Entries) /\ batch \in Seq(Entries) /\ aborts \in Seq(Entries)
      /\ parked \in [Slots -> Gens \X Gens]
      /\ slots \in [Slots -> [conn : {"free", "out", "stream"}, gen : Gens]]
      /\ handler \in Registries
      /\ wire \in [Slots -> Seq(Gens \X Int)] /\ marks \in [Tasks -> SUBSET Marks]
  BY Typed
<1>2. /\ server.window \in Nat \ {0} /\ MaxRequests \in Nat /\ 0 \in Gens
      /\ \A k \in Tasks : k \in Gens /\ k # 0
      /\ {"late", "over", "stream", "failed", "reported", "run", "credit", "global"}
           \subseteq Stages
  BY ServerFacts, TaskIsGen DEF Gens, Stages
<1>3. Woken' => woken' \subseteq Tasks
  BY DEF Woken
<1>4. Flushed \in Seq(Entries) /\ <<>> \in Seq(Entries) /\ <<>> \in Seq(Slots)
      /\ <<>> \in Seq(Frames) /\ <<>> \in Seq(Gens \X Int)
  BY FlushedType
<1>5. handler.pending \in [Slots -> Seq(Tasks \X Nat)]
      /\ \A s \in Slots : handler.pending[s] \in Seq(Gens \X Int)
  <2>1. handler.pending \in [Slots -> Seq(Tasks \X Nat)]
    BY <1>1 DEF Registries
  <2>2. \A k \in Tasks : k \in Gens
    BY <1>2
  <2>3. Seq(Tasks \X Nat) \subseteq Seq(Gens \X Int)
    BY <2>2
  <2> QED
    BY <2>1, <2>3
<1>6. /\ \A g \in Gens : HeadOf(g) \in Gens \X Int
      /\ Terminator \in Gens \X Int /\ CutOff \in Gens \X Int
  BY <1>2 DEF HeadOf, Terminator, CutOff
<1> HIDE DEF Slots, Gens
<1>7. CASE Flushing
  BY <1>1, <1>4, <1>7, TypedNext DEF Flushing
<1>8. CASE Delivering
  <2>1. handler' \in Registries /\ chunk' = <<>>
    BY <1>1, <1>8, DeliveredType DEF Delivering, Delivered
  <2> QED
    BY <1>1, <1>4, <1>8, <2>1, TypedNext DEF Delivering
<1>9. CASE Reading
  <2>1. Read("done") \in Seq(Entries) /\ Read("abort") \in Seq(Entries)
    BY ReadFacts
  <2> QED
    BY <1>1, <1>4, <1>9, <2>1, TypedNext DEF Reading
<1>10. CASE Missing
  <2>1. aborts' \in Seq(Entries)
    BY <1>1, <1>10 DEF Missing
  <2>2. marks' \in [Tasks -> SUBSET Marks]
    <3>1. CASE marks' = marks
      BY <1>1, <3>1
    <3>2. ASSUME NEW g \in Gens, marks' = [marks EXCEPT ![g] = @ \cup {"unheard"}]
          PROVE  marks' \in [Tasks -> SUBSET Marks]
      BY <1>1, <3>2 DEF Marks
    <3> QED
      BY <1>10, <3>1, <3>2 DEF Missing
  <2> QED
    BY <1>1, <1>10, <2>1, <2>2, TypedNext DEF Missing
<1>11. ASSUME NEW k \in Tasks, Answering(k) PROVE TypeOK'
  <2>1. at[k] \in Slots /\ <<k, 0>> \in Gens \X Gens
    BY <1>1, <1>2
  <2>2. /\ stage' \in [Tasks -> Stages] /\ parked' \in [Slots -> Gens \X Gens]
        /\ pendingDone' \in Seq(Slots) /\ end' \in [Tasks -> {"open", "whole", "cut"}]
    BY <1>1, <1>2, <1>11, <2>1 DEF Answering
  <2> QED
    BY <1>1, <1>11, <2>2, TypedNext DEF Answering
<1>12. ASSUME NEW k \in Tasks, Starting(k) PROVE TypeOK'
  <2>1. at[k] \in Slots /\ <<k, k>> \in Gens \X Gens /\ k \in Gens
    BY <1>1, <1>2
  <2>2. /\ stage' \in [Tasks -> Stages] /\ parked' \in [Slots -> Gens \X Gens]
        /\ pendingDone' \in Seq(Slots) /\ gens' \in [Slots -> Gens]
        /\ credit' \in [Slots -> Int] /\ open' \subseteq Slots
    BY <1>1, <1>2, <1>12, <2>1 DEF Starting
  <2>3. chunk' \in Seq(Frames)
    <3>1. Frame("b", at[k], k, <<>>) \in Frames
      BY <2>1, FrameTypes
    <3> QED
      BY <1>1, <1>12, <3>1 DEF Starting
  <2> QED
    BY <1>1, <1>12, <2>2, <2>3, TypedNext DEF Starting
<1>13. ASSUME NEW k \in Tasks, Sending(k) PROVE TypeOK'
  <2>1. at[k] \in Slots /\ gens[at[k]] \in Gens /\ made[k] + 1 \in Nat
        /\ Piece(k, made[k] + 1) \in Tasks \X Nat /\ credit[at[k]] \in Int
        /\ inflight[at[k]] \in Nat
    BY <1>1 DEF Piece
  <2>2. /\ stage' \in [Tasks -> Stages] /\ made' \in [Tasks -> Nat]
        /\ credit' \in [Slots -> Int] /\ inflight' \in [Slots -> Nat]
    <3>1. credit[at[k]] - 1 \in Int /\ inflight[at[k]] + 1 \in Nat
      BY <2>1
    <3>2. /\ stage' = [stage EXCEPT ![k] = "stream"] /\ made' = [made EXCEPT ![k] = made[k] + 1]
          /\ credit' = [credit EXCEPT ![at[k]] = credit[at[k]] - 1]
          /\ inflight' = [inflight EXCEPT ![at[k]] = inflight[at[k]] + 1]
      BY <1>13 DEF Sending
    <3> QED
      BY <1>1, <1>2, <2>1, <3>1, <3>2
  <2>3. chunk' \in Seq(Frames)
    <3>1. Frame("s", at[k], gens[at[k]], Piece(k, made[k] + 1)) \in Frames
      BY <2>1, FrameTypes
    <3> QED
      BY <1>1, <1>13, <3>1 DEF Sending
  <2>4. global' \in Nat
    BY <1>1, <1>13 DEF Sending
  <2> QED
    BY <1>1, <1>3, <1>4, <1>13, <2>2, <2>3, <2>4, TypedNext DEF Sending
<1>14. ASSUME NEW k \in Tasks, Failing(k) PROVE TypeOK'
  <2>1. at[k] \in Slots /\ gens[at[k]] \in Gens
    BY <1>1
  <2>2. stage' \in [Tasks -> Stages] /\ end' \in [Tasks -> {"open", "whole", "cut"}]
    BY <1>1, <1>2, <1>14 DEF Failing
  <2>3. comps' \in Seq(Entries)
    <3>1. AbortOf(at[k], gens[at[k]]) \in Entries
      BY <2>1, FrameTypes
    <3> QED
      BY <1>1, <1>14, <3>1 DEF Failing
  <2> QED
    BY <1>1, <1>3, <1>14, <2>2, <2>3, TypedNext DEF Failing
<1>15. ASSUME NEW k \in Tasks, Reporting(k) PROVE TypeOK'
  <2>1. at[k] \in Slots /\ <<k, 0>> \in Gens \X Gens /\ inflight[at[k]] \in Nat
    BY <1>1, <1>2
  <2>2. stage' \in [Tasks -> Stages]
    BY <1>1, <1>2, <1>15 DEF Reporting
  <2>3. /\ owner' \in [Slots -> Tasks \cup {None}] /\ global' \in Nat
        /\ inflight' \in [Slots -> Nat] /\ credit' \in [Slots -> Int]
    <3>1. CASE /\ owner' = [owner EXCEPT ![at[k]] = None]
               /\ global' = global + inflight[at[k]] /\ inflight' = [inflight EXCEPT ![at[k]] = 0]
               /\ credit' = [credit EXCEPT ![at[k]] = 0]
      BY <1>1, <2>1, <3>1
    <3>2. CASE UNCHANGED <<owner, global, inflight, credit>>
      BY <1>1, <3>2
    <3> QED
      BY <1>15, <3>1, <3>2 DEF Reporting
  <2>4. /\ parked' \in [Slots -> Gens \X Gens] /\ pendingDone' \in Seq(Slots)
        /\ end' \in [Tasks -> {"open", "whole", "cut"}]
    <3>1. CASE /\ parked' = [parked EXCEPT ![at[k]] = <<k, 0>>]
               /\ pendingDone' = Append(pendingDone, at[k])
               /\ end' = [end EXCEPT ![k] = "whole"]
      BY <1>1, <2>1, <3>1
    <3>2. CASE UNCHANGED <<parked, pendingDone, end>>
      BY <1>1, <3>2
    <3> QED
      BY <1>15, <3>1, <3>2 DEF Reporting
  <2> QED
    BY <1>1, <1>3, <1>15, <2>2, <2>3, <2>4, TypedNext DEF Reporting
<1>16. ASSUME NEW k \in Tasks, NEW p \in Stages, NEW w \in {"open", "whole", "cut"},
              Moving(k, p, w)
       PROVE  TypeOK'
  <2>1. stage' \in [Tasks -> Stages] /\ end' \in [Tasks -> {"open", "whole", "cut"}]
    BY <1>1, <1>16 DEF Moving
  <2> QED
    BY <1>1, <1>3, <1>16, <2>1, TypedNext DEF Moving
<1>17. ASSUME NEW k \in Tasks, NEW p \in Stages, Ending(k, p) PROVE TypeOK'
  <2>1. at[k] \in Slots /\ gens[at[k]] \in Gens
    BY <1>1
  <2>2. stage' \in [Tasks -> Stages] /\ end' \in [Tasks -> {"open", "whole", "cut"}]
    BY <1>1, <1>17 DEF Ending
  <2>3. chunk' \in Seq(Frames)
    <3>1. Frame("e", at[k], gens[at[k]], <<>>) \in Frames
      BY <2>1, FrameTypes
    <3> QED
      BY <1>1, <1>17, <3>1 DEF Ending
  <2> QED
    BY <1>1, <1>3, <1>4, <1>17, <2>2, <2>3, TypedNext DEF Ending
<1>18. ASSUME NEW s \in Slots, Departed(s) PROVE TypeOK'
  <2>1. submit' \in Seq(Datagrams)
    BY <1>1, <1>18 DEF Departed
  <2>2. gone' \subseteq Tasks
    BY <1>1, <1>18 DEF Departed
  <2>3. global' \in Nat /\ inflight' \in [Slots -> Nat]
    <3>1. global \in Nat /\ inflight \in [Slots -> Nat] /\ inflight[s] \in Nat
      BY <1>1
    <3>2. global' = global + inflight[s] /\ inflight' = [inflight EXCEPT ![s] = 0]
      BY <1>18 DEF Departed
    <3> QED
      BY <3>1, <3>2
  <2> QED
    BY <1>1, <1>3, <1>18, <2>1, <2>2, <2>3, TypedNext DEF Departed
<1>19. ASSUME NEW s \in Slots, Telling(s) PROVE submit' \in Seq(Datagrams)
  <2>1. Tag(s) \in Datagrams
    BY <1>2, FrameTypes
  <2>2. CASE submit' = Append(submit, Tag(s))
    BY <1>1, <2>1, <2>2
  <2>3. CASE submit' = submit
    BY <1>1, <2>3
  <2> QED
    BY <1>19, <2>2, <2>3 DEF Telling
<1>20. ASSUME NEW s \in Slots, Asking(s) PROVE TypeOK'
  <2>1. asked + 1 \in Tasks /\ asked + 1 \in Gens /\ Job(s, asked + 1) \in Datagrams
    BY <1>2, <1>20, FrameTypes DEF Asking
  <2>2. submit' \in Seq(Datagrams) /\ asked' \in Gens
    BY <1>1, <1>20, <2>1 DEF Asking
  <2>3. slots' \in [Slots -> [conn : {"free", "out", "stream"}, gen : Gens]]
        /\ wire' \in [Slots -> Seq(Gens \X Int)]
    BY <1>1, <1>2, <1>4, <1>20 DEF Asking
  <2> QED
    BY <1>1, <1>20, <2>2, <2>3, TypedNext DEF Asking
<1>21. ASSUME NEW s \in Slots, slots' = [slots EXCEPT ![s].conn = "free"]
       PROVE  slots' \in [Slots -> [conn : {"free", "out", "stream"}, gen : Gens]]
  BY <1>1, <1>21
<1>22. ASSUME NEW s \in Slots, Completed(s)
       PROVE  batch' \in Seq(Entries) /\ parked' \in [Slots -> Gens \X Gens]
              /\ parked[s][1] \in Gens /\ parked[s][2] \in Gens
  <2>1. batch' \in Seq(Entries)
    BY <1>1, <1>22 DEF Completed
  <2>2. <<0, 0>> \in Gens \X Gens /\ parked[s] \in Gens \X Gens
    BY <1>1, <1>2
  <2> QED
    BY <1>1, <1>22, <2>1, <2>2 DEF Completed
<1>23. ASSUME NEW s \in Slots, NEW out \in Seq(Gens \X Int), wire' = [wire EXCEPT ![s] = @ \o out]
       PROVE  wire' \in [Slots -> Seq(Gens \X Int)]
  <2>1. wire[s] \o out \in Seq(Gens \X Int)
    BY <1>1
  <2> QED
    BY <1>1, <1>23, <2>1
<1>24. ASSUME NEW s \in Slots, Replying(s) PROVE TypeOK'
  <2>1. <<HeadOf(parked[s][1]), Terminator>> \in Seq(Gens \X Int)
    <3>1. HeadOf(parked[s][1]) \in Gens \X Int
      BY <1>6, <1>22, <1>24 DEF Replying
    <3> QED
      BY <1>6, <3>1
  <2>2. wire' \in [Slots -> Seq(Gens \X Int)]
    BY <1>1, <1>23, <1>24, <2>1 DEF Replying
  <2> QED
    BY <1>1, <1>21, <1>22, <1>24, <2>2, TypedNext DEF Replying
<1>25. Delivered \in Registries
  BY <1>1, DeliveredType DEF Delivered
<1>26. ASSUME NEW s \in Slots, Opening(s) PROVE TypeOK'
  <2>1. <<HeadOf(parked[s][1])>> \in Seq(Gens \X Int)
    <3>1. HeadOf(parked[s][1]) \in Gens \X Int
      BY <1>6, <1>22, <1>26 DEF Opening
    <3> QED
      BY <3>1
  <2>2. wire' \in [Slots -> Seq(Gens \X Int)]
    BY <1>1, <1>23, <1>26, <2>1 DEF Opening
  <2>3. slots' \in [Slots -> [conn : {"free", "out", "stream"}, gen : Gens]]
    BY <1>1, <1>22, <1>26 DEF Opening
  <2> QED
    BY <1>1, <1>4, <1>22, <1>25, <1>26, <2>2, <2>3, TypedNext DEF Opening
<1>27. ASSUME NEW s \in Slots, Refusing(s) PROVE TypeOK'
  <2>1. handler' \in Registries
    BY <1>25, <1>27, RegistryFacts DEF Refusing
  <2> QED
    BY <1>1, <1>4, <1>19, <1>21, <1>22, <1>27, <2>1, TypedNext DEF Refusing
<1>28. ASSUME NEW s \in Slots, Draining(s) PROVE TypeOK'
  <2>1. handler' \in Registries
    BY <1>1, <1>28, RegistryFacts DEF Draining
  <2>2. handler.pending[s] \in Seq(Gens \X Int)
        /\ Append(handler.pending[s], Terminator) \in Seq(Gens \X Int)
        /\ Len(handler.pending[s]) \in Nat
    <3>1. handler.pending[s] \in Seq(Gens \X Int)
      BY <1>5
    <3> QED
      BY <1>6, <3>1
  <2>3. wire' \in [Slots -> Seq(Gens \X Int)]
    BY <1>23, <1>28, <2>2 DEF Draining
  <2>4. acks' \in Seq(Acks)
    <3>1. slots[s].gen \in Gens
      BY <1>1
    <3>2. [slot |-> s, n |-> Len(handler.pending[s]), gen |-> slots[s].gen] \in Acks
      BY <2>2, <3>1, FrameTypes
    <3>3. CASE acks' = acks
      BY <1>1, <3>3
    <3>4. CASE acks' = Append(acks, [slot |-> s, n |-> Len(handler.pending[s]),
                                     gen |-> slots[s].gen])
      BY <1>1, <3>2, <3>4
    <3> QED
      BY <1>28, <3>3, <3>4 DEF Draining
  <2>5. slots' \in [Slots -> [conn : {"free", "out", "stream"}, gen : Gens]]
    <3>1. CASE slots' = slots
      BY <1>1, <3>1
    <3>2. CASE slots' = [slots EXCEPT ![s] = [conn |-> "free", gen |-> 0]]
      BY <1>1, <1>2, <3>2
    <3> QED
      BY <1>28, <3>1, <3>2 DEF Draining
  <2> QED
    BY <1>1, <1>28, <2>1, <2>3, <2>4, <2>5, TypedNext DEF Draining
<1>29. ASSUME NEW s \in Slots, Leaving(s) PROVE TypeOK'
  <2>1. handler' \in Registries
    BY <1>1, <1>29, RegistryFacts DEF Leaving
  <2>2. wire' \in [Slots -> Seq(Gens \X Int)]
    BY <1>1, <1>4, <1>29 DEF Leaving
  <2> QED
    BY <1>1, <1>19, <1>21, <1>29, <2>1, <2>2, TypedNext DEF Leaving
<1>30. ASSUME NEW s \in Slots, NEW k \in Tasks, Spawning(s, k) PROVE TypeOK'
  <2>1. submit' \in Seq(Datagrams)
    BY <1>1, <1>30 DEF Spawning
  <2>2. stage' \in [Tasks -> Stages] /\ at' \in [Tasks -> Slots]
        /\ owner' \in [Slots -> Tasks \cup {None}]
    BY <1>1, <1>2, <1>30 DEF Spawning
  <2> QED
    BY <1>1, <1>30, <2>1, <2>2, TypedNext DEF Spawning
<1>31. ASSUME NEW s \in Slots, NEW g \in Gens, Cutting(s, g) PROVE TypeOK'
  <2>1. handler' \in Registries
    BY <1>1, <1>31, RegistryFacts DEF Cutting
  <2>2. Append(handler.pending[s], CutOff) \in Seq(Gens \X Int)
    <3>1. handler.pending[s] \in Seq(Gens \X Int)
      BY <1>5
    <3> QED
      BY <1>6, <3>1
  <2>3. wire' \in [Slots -> Seq(Gens \X Int)]
    BY <1>23, <1>31, <2>2 DEF Cutting
  <2>4. aborts' \in Seq(Entries)
    BY <1>1, <1>31 DEF Cutting
  <2> QED
    BY <1>1, <1>19, <1>21, <1>31, <2>1, <2>3, <2>4, TypedNext DEF Cutting
<1>32. ASSUME NEW s \in Slots, NEW n \in Nat, NEW g \in Gens, Acked(s, n, g) PROVE TypeOK'
  <2>1. acks' \in Seq(Acks)
    BY <1>1, <1>32 DEF Acked
  <2>2. credit[s] \in Int /\ inflight[s] \in Nat /\ server.window \in Int
    BY <1>1, <1>2
  <2>3. Least(credit[s] + n, server.window) \in Int /\ Least(n, inflight[s]) \in Nat
        /\ inflight[s] - Least(n, inflight[s]) \in Nat
    BY <2>2 DEF Least
  <2>4. credit' \in [Slots -> Int]
    BY <1>1, <1>32, <2>3 DEF Acked
  <2>5. marks' \in [Tasks -> SUBSET Marks]
    <3>1. CASE marks' = marks
      BY <1>1, <3>1
    <3>2. CASE marks' = [marks EXCEPT ![gens[s]] = @ \cup {"paid"}]
      BY <1>1, <3>2 DEF Marks
    <3> QED
      BY <1>32, <3>1, <3>2 DEF Acked
  <2>6. global' \in Nat /\ inflight' \in [Slots -> Nat]
    <3>1. /\ global' = global + Least(n, inflight[s])
          /\ inflight' = [inflight EXCEPT ![s] = inflight[s] - Least(n, inflight[s])]
      BY <1>32 DEF Acked
    <3>2. global \in Nat /\ inflight \in [Slots -> Nat]
      BY <1>1
    <3> DEFINE b == Least(n, inflight[s])
               r == inflight[s] - b
    <3>3. b \in Nat /\ r \in Nat /\ global' = global + b
          /\ inflight' = [inflight EXCEPT ![s] = r]
      BY <2>3, <3>1
    <3> HIDE DEF b, r
    <3> QED
      BY <3>2, <3>3
  <2> QED
    BY <1>1, <1>3, <1>32, <2>1, <2>4, <2>5, <2>6, TypedNext DEF Acked
<1> QED
  BY <1>7, <1>8, <1>9, <1>10, <1>11, <1>12, <1>13, <1>14, <1>15, <1>16, <1>17, <1>18, <1>20,
     <1>24, <1>26, <1>27, <1>28, <1>29, <1>30, <1>31, <1>32 DEF Step

-----------------------------------------------------------------------------
(* What a delivery brings. *)

\* The frames behind the first `i`: the pieces of stream `k`, and no begin of `s`.
Left(i, k) == {j \in i + 1 .. Len(chunk) : chunk[j].kind = "s" /\ chunk[j].gen = k}
BegunBy(i, s) == \A j \in i + 1 .. Len(chunk) : ~(IsBegin(j) /\ chunk[j].slot = s)

\* Stream `k` is over before them.
Shut(i, k) == end[k] = "whole" /\ \A j \in i + 1 .. Len(chunk) : chunk[j].gen # k

\* Slot `s` serves stream `k`, and registry `h` has been told the first `i` frames.
Come(h, i, s, k) ==
  /\ s \notin h.sub => s \notin h.done /\ h.pending[s] = <<>>
  /\ s \in h.done => h.pending[s] # <<>>
  /\ s \in h.sub => BegunBy(i, s)
  /\ BegunBy(i, s) => h.gen[s] = k
  /\ BegunBy(i, s) /\ (s \notin h.sub \/ s \in h.done) => Shut(i, k)
  /\ \A x \in DOMAIN h.pending[s] : h.pending[s][x] = Piece(k, Landed(s) + x)
  /\ {chunk[j].piece[2] : j \in Left(i, k)} = Landed(s) + Len(h.pending[s]) + 1 .. made[k]
  /\ Landed(s) + Len(h.pending[s]) <= made[k]

\* Its frames.
Framed(s, k) ==
  /\ \A i \in DOMAIN chunk : chunk[i].gen = k => chunk[i].slot = s
  /\ \A i \in DOMAIN chunk : IsBegin(i) /\ chunk[i].slot = s =>
       /\ chunk[i].gen = k /\ \A j \in 1 .. i - 1 : chunk[j].gen # k
       /\ \A j \in DOMAIN chunk : j > i /\ chunk[j].slot = s => chunk[j].kind # "b"
  /\ \A i \in DOMAIN chunk : chunk[i].kind = "e" /\ chunk[i].gen = k =>
       end[k] = "whole" /\ \A j \in DOMAIN chunk : j > i => chunk[j].gen # k
  /\ \A i, j \in PiecesOf(k) : i < j => chunk[i].piece[2] < chunk[j].piece[2]
  /\ \A i \in PiecesOf(k) : chunk[i].piece = Piece(k, chunk[i].piece[2])

LEMMA ComeStep ==
  ASSUME TypeOK, NEW s \in Slots, NEW k \in Tasks, Framed(s, k), Landed(s) \in Nat,
         NEW h \in Registries, NEW i \in 1 .. Len(chunk), Come(h, i - 1, s, k)
  PROVE  Come(Peer(h, chunk[i]), i, s, k)
<1> DEFINE f == chunk[i]
           m == Peer(h, f)
           n == Len(chunk)
           a == Landed(s) + Len(h.pending[s])
<1>1. /\ chunk \in Seq(Frames) /\ n \in Nat /\ DOMAIN chunk = 1 .. n /\ f \in Frames
      /\ i \in Nat /\ i >= 1 /\ i <= n /\ (i - 1) + 1 = i /\ k \in Gens
      /\ made[k] \in Nat
  <2>1. chunk \in Seq(Frames) /\ made[k] \in Nat /\ k \in Gens
    BY Typed, TaskIsGen
  <2>2. n \in Nat /\ DOMAIN chunk = 1 .. n /\ f \in Frames
    BY <2>1
  <2> QED
    BY <2>1, <2>2
<1>2. h.pending[s] \in Seq(Tasks \X Nat) /\ Len(h.pending[s]) \in Nat /\ a \in Nat
  BY DEF Registries
<1>3. i .. n = {i} \cup (i + 1 .. n)
  BY <1>1
<1>4. /\ Left(i - 1, k) = IF f.kind = "s" /\ f.gen = k THEN Left(i, k) \cup {i} ELSE Left(i, k)
      /\ BegunBy(i - 1, s) <=> BegunBy(i, s) /\ ~(f.kind = "b" /\ f.slot = s)
  BY <1>1, <1>3 DEF Left, BegunBy, IsBegin
<1>5. \A j \in i + 1 .. n : j \in DOMAIN chunk /\ j > i
  BY <1>1
<1>6. f.slot \in Slots /\ f.kind \in {"b", "s", "e"} /\ f.gen \in Gens
  BY <1>1 DEF Frames
<1>7. /\ m \in Registries
      /\ f.slot # s => /\ s \in m.sub <=> s \in h.sub
                       /\ s \in m.done <=> s \in h.done
                       /\ m.pending[s] = h.pending[s] /\ m.gen[s] = h.gen[s]
      /\ f.slot = s =>
           /\ f.kind = "b" => /\ s \in m.sub /\ s \notin m.done /\ m.gen[s] = f.gen
                              /\ m.pending[s] = h.pending[s]
           /\ f.kind # "b" => m.gen[s] = h.gen[s]
           /\ f.kind # "b" /\ h.gen[s] # f.gen => m = h
           /\ f.kind = "s" /\ s \notin h.sub => m = h
           /\ f.kind = "s" /\ s \in h.sub /\ h.gen[s] = f.gen =>
                /\ m.pending[s] = Append(h.pending[s], f.piece)
                /\ s \in m.sub /\ (s \in m.done <=> s \in h.done)
           /\ f.kind = "e" /\ h.gen[s] = f.gen /\ h.pending[s] # <<>> =>
                /\ m.pending[s] = h.pending[s] /\ s \in m.done /\ (s \in m.sub <=> s \in h.sub)
           /\ f.kind = "e" /\ h.gen[s] = f.gen /\ h.pending[s] = <<>> =>
                /\ m.pending[s] = <<>> /\ s \notin m.sub /\ (s \in m.done <=> s \in h.done)
  <2>1. CASE f.slot # s
    <3>1. s \in Slots \ {f.slot}
      BY <2>1
    <3> QED
      BY <1>1, <2>1, <3>1, PeerFacts
  <2>2. CASE f.slot = s
    BY <1>1, <2>2, PeerFacts
  <2> QED
    BY <2>1, <2>2
<1>8. /\ s \notin h.sub => s \notin h.done /\ h.pending[s] = <<>>
      /\ s \in h.done => h.pending[s] # <<>>
      /\ s \in h.sub => BegunBy(i - 1, s)
      /\ BegunBy(i - 1, s) => h.gen[s] = k
      /\ BegunBy(i - 1, s) /\ (s \notin h.sub \/ s \in h.done) => Shut(i - 1, k)
      /\ \A x \in DOMAIN h.pending[s] : h.pending[s][x] = Piece(k, Landed(s) + x)
      /\ {chunk[j].piece[2] : j \in Left(i - 1, k)} = a + 1 .. made[k]
      /\ a <= made[k]
  BY <1>1 DEF Come
<1>8a. Shut(i - 1, k) => Shut(i, k) /\ f.gen # k
  BY <1>1, <1>3 DEF Shut
<1>8b. a = Landed(s) + Len(h.pending[s])
  OBVIOUS
<1> SUFFICES Come(m, i, s, k)
  OBVIOUS
<1> HIDE DEF m, a
\* Nothing but the subscription may have changed.
<1>9. ASSUME m.pending[s] = h.pending[s], ~(f.kind = "s" /\ f.gen = k),
             s \notin m.sub => s \notin m.done /\ m.pending[s] = <<>>,
             s \in m.done => m.pending[s] # <<>>,
             s \in m.sub => BegunBy(i, s),
             BegunBy(i, s) => m.gen[s] = k,
             BegunBy(i, s) /\ (s \notin m.sub \/ s \in m.done) => Shut(i, k)
      PROVE  Come(m, i, s, k)
  <2>1. Left(i - 1, k) = Left(i, k)
    BY <1>4, <1>9
  <2>2. /\ \A x \in DOMAIN m.pending[s] : m.pending[s][x] = Piece(k, Landed(s) + x)
        /\ {chunk[j].piece[2] : j \in Left(i, k)} = Landed(s) + Len(m.pending[s]) + 1 .. made[k]
        /\ Landed(s) + Len(m.pending[s]) <= made[k]
    BY <1>8, <1>8b, <1>9, <2>1
  <2> QED
    BY <1>9, <2>2 DEF Come
<1>10. CASE f.slot # s
  <2>1. f.gen # k
    BY <1>1, <1>10 DEF Framed
  <2>2. BegunBy(i - 1, s) <=> BegunBy(i, s)
    BY <1>4, <1>10
  <2> QED
    BY <1>7, <1>8, <1>8a, <1>9, <1>10, <2>1, <2>2
<1>11. CASE f.slot = s /\ f.kind = "b"
  <2>1. f.gen = k /\ BegunBy(i, s) /\ ~BegunBy(i - 1, s)
    BY <1>1, <1>4, <1>5, <1>11 DEF Framed, BegunBy, IsBegin
  <2> QED
    BY <1>7, <1>8, <1>9, <1>11, <2>1
<1>12. ASSUME f.slot = s, f.kind # "b", f.gen = k
       PROVE  BegunBy(i - 1, s) /\ h.gen[s] = k /\ s \in h.sub /\ s \notin h.done
  <2>1. BegunBy(i - 1, s)
    <3> SUFFICES ASSUME NEW j \in i .. n, IsBegin(j), chunk[j].slot = s PROVE FALSE
      BY <1>1 DEF BegunBy
    <3>1. j # i /\ j \in DOMAIN chunk
      BY <1>1, <1>12 DEF IsBegin
    <3>2. i \in 1 .. j - 1
      BY <1>1, <3>1
    <3> QED
      BY <1>12, <3>1, <3>2 DEF Framed
  <2> QED
    BY <1>8, <1>8a, <1>12, <2>1
<1>13. CASE f.slot = s /\ f.kind = "s" /\ f.gen = k
  <2>1. BegunBy(i, s) /\ m.gen[s] = k /\ s \in m.sub /\ s \notin m.done
        /\ m.pending[s] = Append(h.pending[s], f.piece)
    BY <1>4, <1>7, <1>12, <1>13
  <2>2. Left(i - 1, k) = Left(i, k) \cup {i} /\ Left(i - 1, k) \subseteq PiecesOf(k)
        /\ i \in PiecesOf(k) /\ Left(i, k) \subseteq i + 1 .. n
        /\ Left(i, k) \subseteq PiecesOf(k)
    BY <1>1, <1>4, <1>13 DEF Left, PiecesOf
  <2>3. \A j \in PiecesOf(k) : chunk[j].piece[2] \in Nat
    BY <1>1 DEF PiecesOf, Frames
  <2>4. \A j \in Left(i, k) : f.piece[2] < chunk[j].piece[2]
    BY <2>2 DEF Framed
  <2>5. f.piece[2] \in a + 1 .. made[k]
    BY <1>8, <2>2
  <2>6. f.piece[2] = a + 1
    <3>1. a + 1 \in a + 1 .. made[k]
      BY <1>1, <1>2, <2>5
    <3>2. PICK j \in Left(i - 1, k) : chunk[j].piece[2] = a + 1
      BY <1>8, <3>1
    <3>3. CASE j = i
      BY <3>2, <3>3
    <3>4. CASE j \in Left(i, k)
      <4>1. f.piece[2] < a + 1 /\ f.piece[2] \in Nat
        BY <2>2, <2>3, <2>4, <3>2, <3>4
      <4> QED
        BY <1>2, <2>5, <4>1
    <3> QED
      BY <2>2, <3>3, <3>4
  <2>7. f.piece = Piece(k, a + 1)
    BY <2>2, <2>6 DEF Framed
  <2>8. Len(m.pending[s]) = Len(h.pending[s]) + 1
        /\ DOMAIN m.pending[s] = 1 .. Len(h.pending[s]) + 1
        /\ m.pending[s][Len(h.pending[s]) + 1] = f.piece
        /\ \A x \in 1 .. Len(h.pending[s]) : m.pending[s][x] = h.pending[s][x]
        /\ DOMAIN h.pending[s] = 1 .. Len(h.pending[s])
    <3>1. m.pending[s] \in Seq(Tasks \X Nat)
      BY <1>7 DEF Registries
    <3>2. f.piece \in Tasks \X Nat
      BY <1>1, <1>13 DEF Frames
    <3> QED
      BY <1>2, <2>1, <3>1, <3>2
  <2>9. Landed(s) + Len(m.pending[s]) = a + 1 /\ m.pending[s] # <<>>
    <3>1. m.pending[s] # <<>>
      BY <2>8
    <3> DEFINE l == Len(h.pending[s])
               d == Landed(s)
    <3>2. Len(m.pending[s]) = l + 1 /\ l \in Nat /\ a = d + l /\ d \in Nat
      BY <1>2, <1>8b, <2>8
    <3> HIDE DEF l, d
    <3>3. d + Len(m.pending[s]) = a + 1
      BY <3>2
    <3> QED
      BY <3>1, <3>3 DEF d
  <2>10. \A x \in DOMAIN m.pending[s] : m.pending[s][x] = Piece(k, Landed(s) + x)
    <3> SUFFICES ASSUME NEW x \in 1 .. Len(h.pending[s]) + 1
                 PROVE  m.pending[s][x] = Piece(k, Landed(s) + x)
      BY <2>8
    <3>1. CASE x = Len(h.pending[s]) + 1
      <4>1. Landed(s) + x = a + 1
        <5> DEFINE l == Len(h.pending[s])
                   d == Landed(s)
        <5>1. l \in Nat /\ d \in Nat /\ a = d + l /\ x = l + 1
          BY <1>2, <1>8b, <3>1
        <5> HIDE DEF l, d
        <5>2. d + x = a + 1
          BY <5>1
        <5> QED
          BY <5>2 DEF d
      <4> QED
        BY <2>7, <2>8, <3>1, <4>1
    <3>2. CASE x \in 1 .. Len(h.pending[s])
      BY <1>8, <2>8, <3>2
    <3>3. x = Len(h.pending[s]) + 1 \/ x \in 1 .. Len(h.pending[s])
      <4> DEFINE l == Len(h.pending[s])
      <4>1. l \in Nat /\ x \in 1 .. l + 1
        BY <1>2
      <4> HIDE DEF l
      <4>2. x = l + 1 \/ x \in 1 .. l
        BY <4>1
      <4> QED
        BY <4>2 DEF l
    <3> QED
      BY <3>1, <3>2, <3>3
  <2>11. {chunk[j].piece[2] : j \in Left(i, k)} = (a + 1) + 1 .. made[k]
    <3>1. ASSUME NEW j \in Left(i, k) PROVE chunk[j].piece[2] \in (a + 1) + 1 .. made[k]
      <4>1. chunk[j].piece[2] \in a + 1 .. made[k] /\ a + 1 < chunk[j].piece[2]
        BY <1>8, <2>2, <2>4, <2>6
      <4> QED
        BY <1>1, <1>2, <4>1
    <3>2. ASSUME NEW v \in (a + 1) + 1 .. made[k]
          PROVE  \E j \in Left(i, k) : chunk[j].piece[2] = v
      <4>1. v \in a + 1 .. made[k] /\ v # a + 1
        BY <1>1, <1>2
      <4>2. PICK j \in Left(i - 1, k) : chunk[j].piece[2] = v
        BY <1>8, <4>1
      <4>3. j # i
        BY <2>6, <4>1, <4>2
      <4> QED
        BY <2>2, <4>2, <4>3
    <3> QED
      BY <3>1, <3>2
  <2>12. a + 1 <= made[k]
    BY <1>1, <1>2, <2>5
  <2>13. s \in m.done => m.pending[s] # <<>>
    BY <2>9
  <2> QED
    BY <2>1, <2>9, <2>10, <2>11, <2>12, <2>13 DEF Come
<1>14. CASE f.slot = s /\ f.kind = "e" /\ f.gen = k
  <2>1. BegunBy(i, s) /\ h.gen[s] = k /\ s \in h.sub /\ s \notin h.done /\ m.gen[s] = k
    BY <1>4, <1>7, <1>12, <1>14
  <2>2. Shut(i, k)
    BY <1>1, <1>5, <1>14 DEF Framed, Shut
  <2> QED
    BY <1>7, <1>9, <1>14, <2>1, <2>2
<1>15. CASE f.slot = s /\ f.kind # "b" /\ f.gen # k
  <2>1. BegunBy(i - 1, s) <=> BegunBy(i, s)
    BY <1>4, <1>15
  <2>2. CASE m = h
    <3>1. /\ m.pending[s] = h.pending[s] /\ m.gen[s] = h.gen[s]
          /\ (s \in m.sub <=> s \in h.sub) /\ (s \in m.done <=> s \in h.done)
      BY <2>2
    <3> QED
      BY <1>8, <1>8a, <1>9, <1>15, <2>1, <3>1
  <2>3. CASE m # h
    <3>1. h.gen[s] = f.gen /\ ~BegunBy(i - 1, s) /\ s \notin h.sub /\ f.kind = "e"
      BY <1>6, <1>7, <1>8, <1>15, <2>3
    <3> QED
      <4>1. h.pending[s] = <<>> /\ s \notin h.done
        BY <1>8, <3>1
      <4>2. m.pending[s] = <<>> /\ s \notin m.sub /\ s \notin m.done
        BY <1>7, <1>15, <3>1, <4>1
      <4> QED
        BY <1>8, <1>9, <1>15, <2>1, <3>1, <4>1, <4>2
  <2> QED
    BY <2>2, <2>3
<1> QED
  BY <1>6, <1>10, <1>11, <1>13, <1>14, <1>15

\* What the invariants say of a slot that serves a stream, and of its frames.
LEMMA FramedBy ==
  ASSUME TypeOK, Homed, Turns, Ordered, Registered, Served,
         NEW s \in Slots, NEW k \in Tasks, Serving(s, k)
  PROVE  /\ Framed(s, k) /\ Landed(s) \in Nat /\ Come(handler, 0, s, k)
         /\ at[k] = s /\ Arrived(s) \in Nat /\ Arrived(s) <= made[k] /\ Streaming(s, k)
<1>1. /\ chunk \in Seq(Frames) /\ DOMAIN chunk = 1 .. Len(chunk) /\ Len(chunk) \in Nat
      /\ wire[s] \in Seq(Gens \X Int) /\ handler.pending[s] \in Seq(Tasks \X Nat)
      /\ k # 0 /\ k \in Gens /\ parked[s] \in Gens \X Gens
  <2>1. handler \in Registries /\ chunk \in Seq(Frames) /\ wire[s] \in Seq(Gens \X Int)
        /\ parked[s] \in Gens \X Gens
    BY Typed
  <2>2. handler.pending[s] \in Seq(Tasks \X Nat)
    BY <2>1 DEF Registries
  <2>3. DOMAIN chunk = 1 .. Len(chunk) /\ Len(chunk) \in Nat
    BY <2>1
  <2> QED
    BY <2>1, <2>2, <2>3, TaskIsGen
<1>2. Streaming(s, k)
  BY DEF Served
<1>3. at[k] = s
  BY <1>1 DEF Homed, Serving
<1>4. ASSUME NEW g \in Gens, g # 0, parked[s] = <<g, g>> PROVE g = k
  <2>1. CASE parked[s] = <<k, k>>
    BY <1>4, <2>1
  <2>2. CASE slots[s] = [conn |-> "stream", gen |-> k]
    <3>1. g \in Tasks
      BY <1>4 DEF Gens, Tasks
    <3>2. Outstanding(g, s)
      BY <1>4 DEF Outstanding
    <3>3. slots[s].conn = "out"
      BY <3>1, <3>2 DEF Turns
    <3> QED
      BY <2>2, <3>3
  <2> QED
    BY <2>1, <2>2 DEF Serving
<1>5. ASSUME NEW i \in DOMAIN chunk, chunk[i].gen = k PROVE chunk[i].slot = s
  BY <1>1, <1>3, <1>5 DEF Homed
<1>6. ASSUME NEW i \in DOMAIN chunk, IsBegin(i), chunk[i].slot = s
      PROVE  /\ chunk[i].gen = k /\ \A j \in 1 .. i - 1 : chunk[j].gen # k
             /\ \A j \in DOMAIN chunk : j > i /\ chunk[j].slot = s => chunk[j].kind # "b"
  <2>1. chunk[i].gen \in Gens /\ chunk[i].gen # 0
    <3>1. chunk[i] \in Frames
      BY <1>1
    <3> QED
      BY <3>1 DEF Homed, Frames
  <2>2. chunk[i].gen = k
    BY <1>4, <1>6, <2>1 DEF Ordered
  <2> QED
    BY <1>6, <2>2 DEF Ordered
<1>7. Framed(s, k)
  BY <1>2, <1>5, <1>6 DEF Framed, Ordered, Streaming
<1>8. Landed(s) \in Nat
  <2>1. CASE slots[s].conn = "stream"
    <3>1. wire[s] # <<>>
      BY <1>2, <2>1 DEF Streaming
    <3> QED
      BY <1>1, <2>1, <3>1 DEF Landed
  <2> QED
    BY <2>1 DEF Landed
<1>9. Arrived(s) \in Nat /\ Arrived(s) <= made[k]
  BY <1>1, <1>2, <1>8 DEF Arrived, Streaming
<1>10. (BegunBy(0, s) <=> Begun(s, k)) /\ Left(0, k) = PiecesOf(k)
  BY <1>1 DEF BegunBy, Begun, Left, PiecesOf
<1>11. Come(handler, 0, s, k)
  <2>1. s \in handler.sub => BegunBy(0, s)
    BY <1>1 DEF Ordered, BegunBy
  <2>2. (\A i \in DOMAIN chunk : chunk[i].gen # k)
          => \A i \in 0 + 1 .. Len(chunk) : chunk[i].gen # k
    BY <1>1
  <2>3. Begun(s, k) /\ (s \notin handler.sub \/ s \in handler.done) => Shut(0, k)
    BY <1>2, <2>2 DEF Streaming, Shut
  <2>4. /\ \A x \in DOMAIN handler.pending[s] : handler.pending[s][x] = Piece(k, Landed(s) + x)
        /\ {chunk[j].piece[2] : j \in PiecesOf(k)} = Landed(s) + Len(handler.pending[s]) + 1 .. made[k]
        /\ Landed(s) + Len(handler.pending[s]) <= made[k]
        /\ Begun(s, k) => handler.gen[s] = k
    BY <1>2 DEF Streaming, Arrived
  <2>5. /\ s \notin handler.sub => s \notin handler.done /\ handler.pending[s] = <<>>
        /\ s \in handler.done => handler.pending[s] # <<>>
    BY DEF Registered
  <2> QED
    BY <1>10, <2>1, <2>3, <2>4, <2>5 DEF Come
<1> QED
  BY <1>2, <1>3, <1>7, <1>8, <1>9, <1>11

\* A stream's pieces on the channel are as many as have not arrived.
LEMMA Counted ==
  ASSUME TypeOK, NEW s \in Slots, NEW k \in Tasks, Framed(s, k), NEW a \in Nat, a <= made[k],
         {chunk[i].piece[2] : i \in PiecesOf(k)} = a + 1 .. made[k]
  PROVE  Placed(s, {k}) = made[k] - a
<1> DEFINE S == PiecesOf(k)
           T == a + 1 .. made[k]
           f == [i \in S |-> chunk[i].piece[2]]
<1>1. chunk \in Seq(Frames) /\ DOMAIN chunk = 1 .. Len(chunk) /\ Len(chunk) \in Nat
      /\ made[k] \in Nat
  BY Typed
<1>2. IsFiniteSet(S)
  <2>1. IsFiniteSet(1 .. Len(chunk))
    BY <1>1, FS_Interval
  <2>2. S \in SUBSET (1 .. Len(chunk))
    BY <1>1 DEF PiecesOf
  <2> QED
    BY <2>1, <2>2, FS_Subset
<1>3. f \in Surjection(S, T)
  BY DEF Surjection
<1>4. f \in Injection(S, T)
  <2>1. ASSUME NEW i \in S, NEW j \in S, f[i] = f[j] PROVE i = j
    <3>1. i \in Nat /\ j \in Nat /\ chunk[i].piece[2] = chunk[j].piece[2]
          /\ chunk[i].piece[2] \in T
      BY <1>1, <2>1 DEF PiecesOf
    <3>2. ~(i < j) /\ ~(j < i)
      <4>1. chunk[i].piece[2] \in Nat
        BY <1>1, <3>1
      <4> QED
        BY <3>1, <4>1 DEF Framed
    <3> QED
      BY <3>1, <3>2
  <2> QED
    BY <1>3, <2>1 DEF Surjection, Injection, IsInjective
<1> HIDE DEF f
<1>5. Cardinality(T) = Cardinality(S)
  <2> HIDE DEF S, T
  <2> QED
    BY <1>2, <1>3, <1>4, FS_Surjection
<1>6. Cardinality(T) = made[k] - a
  <2> DEFINE b == a + 1
             c == made[k]
  <2>1. b \in Int /\ c \in Int /\ (IF b > c THEN 0 ELSE c - b + 1) = c - a
    BY <1>1
  <2>2. Cardinality(b .. c) = IF b > c THEN 0 ELSE c - b + 1
    <3> HIDE DEF b, c
    <3> QED
      BY <2>1, FS_Interval
  <2> QED
    BY <2>1, <2>2
<1>7. {i \in DOMAIN chunk : chunk[i].slot = s /\ chunk[i].kind = "s" /\ chunk[i].gen \in {k}} = S
  BY DEF PiecesOf, Framed
<1> QED
  BY <1>5, <1>6, <1>7 DEF Placed

\* A delivery to a slot that serves stream `k`: all of what was sent has come.
LEMMA Arrives ==
  ASSUME TypeOK, Homed, Turns, Ordered, Registered, Served,
         NEW s \in Slots, NEW k \in Tasks, Serving(s, k)
  PROVE  /\ Delivered.gen[s] = k
         /\ Len(Delivered.pending[s]) = made[k] - Landed(s)
         /\ Len(Delivered.pending[s]) = Len(handler.pending[s]) + Placed(s, {k})
         /\ \A x \in DOMAIN Delivered.pending[s] :
              Delivered.pending[s][x] = Piece(k, Landed(s) + x)
         /\ s \notin Delivered.sub => s \notin Delivered.done /\ Delivered.pending[s] = <<>>
         /\ s \in Delivered.done => Delivered.pending[s] # <<>>
         /\ s \notin Delivered.sub \/ s \in Delivered.done => end[k] = "whole"
<1> DEFINE n == Len(chunk)
           D == Delivered
<1>1. chunk \in Seq(Frames) /\ n \in Nat /\ handler \in Registries /\ made[k] \in Nat
  BY Typed
<1>2. Framed(s, k) /\ Landed(s) \in Nat /\ Come(handler, 0, s, k) /\ Arrived(s) \in Nat
      /\ Arrived(s) <= made[k] /\ Streaming(s, k)
  BY FramedBy
<1>3. PICK h \in [0 .. Len(chunk) -> Registries] :
        /\ h[0] = handler /\ h[Len(chunk)] = FoldLeft(Peer, handler, chunk)
        /\ \A i \in 1 .. Len(chunk) : h[i] = Peer(h[i - 1], chunk[i])
  BY <1>1, DeliveredWalk
<1> DEFINE T == {i \in 0 .. n : Come(h[i], i, s, k)}
<1>4. 0 \in T
  BY <1>1, <1>2, <1>3
<1>5. ASSUME NEW i \in 1 .. n, i - 1 \in T PROVE i \in T
  <2>1. i - 1 \in 0 .. n /\ i \in 0 .. n
    BY <1>1
  <2>2. h[i - 1] \in Registries
    BY <1>3, <2>1
  <2>3. Come(h[i - 1], i - 1, s, k)
    BY <1>5
  <2>4. Come(Peer(h[i - 1], chunk[i]), i, s, k)
    BY <1>2, <2>2, <2>3, ComeStep
  <2> QED
    BY <1>3, <2>1, <2>4
<1> HIDE DEF T
<1>6. \A i \in 0 .. n : i \in T
  BY <1>1, <1>4, <1>5, Along
<1>7. Come(D, n, s, k) /\ D \in Registries
  <2>1. n \in 0 .. n
    BY <1>1
  <2>2. h[n] = D /\ h[n] \in Registries
    BY <1>3, <2>1 DEF Delivered
  <2> QED
    BY <1>6, <2>1, <2>2 DEF T
<1> HIDE DEF D
<1>8. BegunBy(n, s) /\ Left(n, k) = {}
  <2>1. n + 1 .. n = {}
    BY <1>1
  <2> QED
    BY <2>1 DEF BegunBy, Left
<1>9. D.pending[s] \in Seq(Tasks \X Nat) /\ Len(D.pending[s]) \in Nat
  BY <1>7 DEF Registries
<1>10. Len(D.pending[s]) = made[k] - Landed(s)
  <2> DEFINE b == Landed(s) + Len(D.pending[s])
  <2>1. {chunk[j].piece[2] : j \in Left(n, k)} = b + 1 .. made[k] /\ b <= made[k]
    BY <1>7 DEF Come
  <2>2. b \in Nat
    BY <1>2, <1>9
  <2>3. b + 1 .. made[k] = {}
    BY <1>8, <2>1
  <2> HIDE DEF b
  <2>4. b = made[k]
    BY <1>1, <2>1, <2>2, <2>3
  <2> QED
    BY <1>1, <1>2, <1>9, <2>4 DEF b
<1>11. Len(D.pending[s]) = Len(handler.pending[s]) + Placed(s, {k})
  <2> DEFINE a == Arrived(s)
             l == Landed(s)
             q == Len(handler.pending[s])
  <2>1. Placed(s, {k}) = made[k] - a
    <3>1. {chunk[i].piece[2] : i \in PiecesOf(k)} = a + 1 .. made[k]
      BY <1>2 DEF Streaming
    <3> HIDE DEF a
    <3> QED
      BY <1>2, <3>1, Counted DEF a
  <2>2. a = l + q /\ l \in Nat /\ q \in Nat
    BY <1>1, <1>2 DEF Arrived, Registries
  <2>3. Len(D.pending[s]) = made[k] - l
    BY <1>10
  <2> HIDE DEF a, l, q
  <2>4. Len(D.pending[s]) = q + Placed(s, {k})
    BY <1>1, <2>1, <2>2, <2>3
  <2> QED
    BY <2>4 DEF q
<1>12. s \notin D.sub \/ s \in D.done => end[k] = "whole"
  BY <1>7, <1>8 DEF Come, Shut
<1> QED
  BY <1>7, <1>8, <1>10, <1>11, <1>12 DEF Come, D

\* A delivery does nothing to one that serves none.
LEMMA Rests ==
  ASSUME TypeOK, Homed, Turns, Ordered, Registered,
         NEW s \in Slots, \A k \in Tasks : ~Serving(s, k)
  PROVE  /\ s \notin handler.sub /\ s \notin handler.done /\ handler.pending[s] = <<>>
         /\ s \notin Delivered.sub /\ s \notin Delivered.done /\ Delivered.pending[s] = <<>>
         /\ Delivered.gen[s] = handler.gen[s]
<1> DEFINE n == Len(chunk)
           Same(h) == /\ s \notin h.sub /\ s \notin h.done /\ h.pending[s] = <<>>
                      /\ h.gen[s] = handler.gen[s]
<1>1. chunk \in Seq(Frames) /\ n \in Nat /\ DOMAIN chunk = 1 .. n /\ handler \in Registries
      /\ handler.gen[s] \in Gens
  <2>1. handler \in Registries
    BY Typed
  <2> QED
    BY <2>1, Typed DEF Registries
<1>2. Same(handler)
  <2>1. s \notin handler.sub
    <3> SUFFICES ASSUME s \in handler.sub PROVE FALSE
      OBVIOUS
    <3>1. handler.gen[s] # 0 /\ Serving(s, handler.gen[s])
      BY DEF Registered
    <3>2. handler.gen[s] \in Tasks
      BY <1>1, <3>1 DEF Gens, Tasks
    <3> QED
      BY <3>1, <3>2
  <2> QED
    BY <2>1 DEF Registered
<1>3. ASSUME NEW i \in DOMAIN chunk, chunk[i].slot = s PROVE chunk[i].kind # "b"
  <2> SUFFICES ASSUME IsBegin(i) PROVE FALSE
    BY DEF IsBegin
  <2>1. chunk[i].gen \in Gens /\ chunk[i].gen # 0
    <3>1. chunk[i] \in Frames
      BY <1>1
    <3> QED
      BY <3>1 DEF Homed, Frames
  <2>2. Serving(s, chunk[i].gen)
    BY <1>3 DEF Ordered, Serving
  <2>3. chunk[i].gen \in Tasks
    BY <2>1 DEF Gens, Tasks
  <2> QED
    BY <2>2, <2>3
<1>4. PICK h \in [0 .. Len(chunk) -> Registries] :
        /\ h[0] = handler /\ h[Len(chunk)] = FoldLeft(Peer, handler, chunk)
        /\ \A i \in 1 .. Len(chunk) : h[i] = Peer(h[i - 1], chunk[i])
  BY <1>1, DeliveredWalk
<1> DEFINE T == {i \in 0 .. n : Same(h[i])}
<1>5. 0 \in T
  BY <1>1, <1>2, <1>4
<1>6. ASSUME NEW i \in 1 .. n, i - 1 \in T PROVE i \in T
  <2>1. i - 1 \in 0 .. n /\ i \in 0 .. n
    BY <1>1
  <2> DEFINE g == h[i - 1]
             f == chunk[i]
             m == Peer(g, f)
  <2>2. g \in Registries /\ f \in Frames
    BY <1>1, <1>4, <2>1
  <2>3. Same(g)
    BY <1>6
  <2>4. h[i] = m
    BY <1>4
  <2> HIDE DEF g, f, m
  <2>5. Same(m)
    <3>1. CASE f.slot # s
      <4>1. s \in Slots \ {f.slot}
        BY <3>1
      <4> QED
        BY <2>2, <2>3, <3>1, <4>1, PeerFacts DEF m
    <3>2. CASE f.slot = s
      <4>1. f.kind \in {"s", "e"}
        BY <1>1, <1>3, <2>2, <3>2 DEF f, Frames
      <4>2. CASE f.kind = "s"
        BY <2>2, <2>3, <3>2, <4>2, PeerFacts DEF m
      <4>3. CASE f.kind = "e" /\ g.gen[s] = f.gen
        BY <2>2, <2>3, <3>2, <4>3, PeerFacts DEF m
      <4>4. CASE f.kind = "e" /\ g.gen[s] # f.gen
        BY <2>2, <2>3, <3>2, <4>4, PeerFacts DEF m
      <4> QED
        BY <4>1, <4>2, <4>3, <4>4
    <3> QED
      BY <3>1, <3>2
  <2> QED
    BY <2>1, <2>4, <2>5
<1> HIDE DEF T
<1>7. \A i \in 0 .. n : i \in T
  BY <1>1, <1>5, <1>6, Along
<1>8. Same(Delivered)
  <2>1. n \in 0 .. n
    BY <1>1
  <2>2. h[n] = Delivered
    BY <1>4 DEF Delivered
  <2> QED
    BY <1>7, <2>1, <2>2 DEF T
<1> QED
  BY <1>2, <1>8

-----------------------------------------------------------------------------
(* The requests. *)

\* The submit channel, whoever writes to it or reads it.
LEMMA SubmitFacts ==
  ASSUME TypeOK
  PROVE  /\ submit \in Seq(Datagrams) /\ DOMAIN submit = 1 .. Len(submit) /\ Len(submit) \in Nat
         /\ \A i \in DOMAIN submit :
              /\ submit[i].slot \in Slots
              /\ IsJob(i) => submit[i].req \in Tasks
              /\ ~IsJob(i) <=> submit[i] = Tag(submit[i].slot)
         /\ submit # <<>> => /\ 1 \in DOMAIN submit /\ Head(submit) = submit[1]
                             /\ Len(Tail(submit)) = Len(submit) - 1
                             /\ DOMAIN Tail(submit) = 1 .. Len(submit) - 1
                             /\ \A i \in 1 .. Len(submit) - 1 :
                                  Tail(submit)[i] = submit[i + 1] /\ i + 1 \in DOMAIN submit
<1>1. submit \in Seq(Datagrams)
  BY Typed
<1>2. ASSUME NEW i \in DOMAIN submit
      PROVE  /\ submit[i].slot \in Slots
             /\ IsJob(i) => submit[i].req \in Tasks
             /\ ~IsJob(i) <=> submit[i] = Tag(submit[i].slot)
  <2>1. submit[i] \in Datagrams
    BY <1>1
  <2> QED
    BY <2>1 DEF Datagrams, IsJob, Tag
<1>3. submit # <<>> => /\ 1 \in DOMAIN submit /\ Head(submit) = submit[1]
                       /\ Len(Tail(submit)) = Len(submit) - 1
                       /\ DOMAIN Tail(submit) = 1 .. Len(submit) - 1
                       /\ \A i \in 1 .. Len(submit) - 1 :
                            Tail(submit)[i] = submit[i + 1] /\ i + 1 \in DOMAIN submit
  BY <1>1
<1> QED
  BY <1>1, <1>2, <1>3

\* One more datagram.
LEMMA SubmitMore ==
  ASSUME TypeOK, NEW d, submit' = Append(submit, d)
  PROVE  /\ DOMAIN submit' = 1 .. Len(submit) + 1 /\ Len(submit) + 1 \notin DOMAIN submit
         /\ submit'[Len(submit) + 1] = d /\ Len(submit) + 1 \in DOMAIN submit'
         /\ \A i \in DOMAIN submit : i \in DOMAIN submit' /\ submit'[i] = submit[i]
         /\ \A i \in DOMAIN submit' : i \in DOMAIN submit \/ i = Len(submit) + 1
<1>1. submit \in Seq(Datagrams) /\ DOMAIN submit = 1 .. Len(submit) /\ Len(submit) \in Nat
  BY SubmitFacts
<1> DEFINE n == Len(submit)
<1>2. /\ DOMAIN submit' = 1 .. n + 1 /\ submit'[n + 1] = d
      /\ \A i \in 1 .. n : submit'[i] = submit[i]
  BY <1>1
<1>3. n \in Nat /\ DOMAIN submit = 1 .. n
  BY <1>1
<1> HIDE DEF n
<1>4. /\ n + 1 \notin 1 .. n /\ n + 1 \in 1 .. n + 1
      /\ \A i \in 1 .. n : i \in 1 .. n + 1
      /\ \A i \in 1 .. n + 1 : i \in 1 .. n \/ i = n + 1
  BY <1>3
<1>5. /\ DOMAIN submit' = 1 .. n + 1 /\ n + 1 \notin DOMAIN submit
      /\ submit'[n + 1] = d /\ n + 1 \in DOMAIN submit'
      /\ \A i \in DOMAIN submit : i \in DOMAIN submit' /\ submit'[i] = submit[i]
      /\ \A i \in DOMAIN submit' : i \in DOMAIN submit \/ i = n + 1
  BY <1>2, <1>3, <1>4
<1> QED
  BY <1>5 DEF n

LEMMA FreshStep ==
  ASSUME TypeOK, Fresh, Step, TypeOK'
  PROVE  Fresh'
<1>1. /\ stage \in [Tasks -> Stages] /\ asked \in Nat /\ asked' \in Nat
      /\ submit \in Seq(Datagrams) /\ DOMAIN submit = 1 .. Len(submit) /\ Len(submit) \in Nat
      /\ Tasks \subseteq Nat
  <2>1. asked \in Nat
    BY Typed, ServerFacts DEF Gens
  <2>2. asked' \in Gens
    BY DEF TypeOK
  <2> QED
    BY <2>1, <2>2, Typed, SubmitFacts DEF Tasks, Gens
<1>2. /\ \A i \in DOMAIN submit :
           IsJob(i) => submit[i].req \in 1 .. asked /\ stage[submit[i].req] = "none"
      /\ \A i, j \in DOMAIN submit :
           IsJob(i) /\ IsJob(j) /\ submit[i].req = submit[j].req => i = j
      /\ \A k \in Tasks : stage[k] # "none" => k <= asked
      /\ \A k \in woken : k \in Tasks /\ stage[k] \in {"credit", "global"}
  BY DEF Fresh, Woken
<1>3. \A i \in DOMAIN submit : IsJob(i) => submit[i].req \in Tasks
  BY SubmitFacts
\* A step of the tasks.
<1>4. ASSUME UNCHANGED <<submit, asked>>, Woken',
             \A k \in Tasks : stage'[k] = "none" <=> stage[k] = "none"
      PROVE  Fresh'
  BY <1>2, <1>3, <1>4 DEF Fresh, IsJob
<1>5. ASSUME UNCHANGED <<submit, asked, stage, woken>> PROVE Fresh'
  BY <1>4, <1>5 DEF Fresh, Woken
<1>6. ASSUME NEW k \in Tasks, NEW p, stage' = [stage EXCEPT ![k] = p],
             stage[k] # "none", p # "none"
      PROVE  \A l \in Tasks : stage'[l] = "none" <=> stage[l] = "none"
  BY <1>1, <1>6
<1>7. ASSUME NEW k \in Tasks, NEW p, stage' = [stage EXCEPT ![k] = p],
             stage[k] \notin {"credit", "global"}, woken' = woken
      PROVE  Woken'
  BY <1>1, <1>2, <1>7 DEF Woken
\* The loop writes a tag.
<1>8. ASSUME NEW s \in Slots, Telling(s), UNCHANGED <<asked, stage, woken>> PROVE Fresh'
  <2>1. CASE submit' = submit
    BY <1>5, <1>8, <2>1
  <2>2. CASE submit' = Append(submit, Tag(s))
    <3>1. /\ \A i \in DOMAIN submit : i \in DOMAIN submit' /\ submit'[i] = submit[i]
          /\ \A i \in DOMAIN submit' :
               i \in DOMAIN submit \/ (submit'[i] = Tag(s) /\ i \notin DOMAIN submit)
      BY <2>2, SubmitMore
    <3>2. \A i \in DOMAIN submit' : IsJob(i)' => i \in DOMAIN submit /\ IsJob(i)
      BY <3>1 DEF IsJob, Tag
    <3>3. Woken'
      BY <1>8 DEF Fresh, Woken
    <3> QED
      BY <1>2, <1>3, <1>8, <3>1, <3>2, <3>3 DEF Fresh
  <2> QED
    BY <1>8, <2>1, <2>2 DEF Telling
\* The executor reads a datagram.
<1>9. ASSUME submit # <<>>, submit' = Tail(submit), asked' = asked, Woken',
             \A k \in Tasks : stage'[k] # stage[k] =>
               stage[k] = "none" /\ IsJob(1) /\ k = submit[1].req
      PROVE  Fresh'
  <2>1. /\ DOMAIN submit' = 1 .. Len(submit) - 1
        /\ \A i \in 1 .. Len(submit) - 1 : submit'[i] = submit[i + 1] /\ i + 1 \in DOMAIN submit
        /\ 1 \in DOMAIN submit
    BY <1>9, SubmitFacts
  <2>2. \A i \in DOMAIN submit' : IsJob(i)' => IsJob(i + 1)
    BY <2>1 DEF IsJob
  <2>3. ASSUME NEW i \in DOMAIN submit', IsJob(i)'
        PROVE  submit'[i].req \in 1 .. asked' /\ stage'[submit'[i].req] = "none"
    <3>1. i + 1 \in DOMAIN submit /\ IsJob(i + 1) /\ submit'[i] = submit[i + 1] /\ i + 1 # 1
      BY <1>1, <2>1, <2>2, <2>3
    <3>2. submit[i + 1].req \in 1 .. asked /\ stage[submit[i + 1].req] = "none"
          /\ submit[i + 1].req \in Tasks
      BY <1>2, <1>3, <3>1
    <3>3. stage'[submit[i + 1].req] = stage[submit[i + 1].req]
      BY <1>2, <1>9, <2>1, <3>1, <3>2
    <3> QED
      BY <1>9, <3>1, <3>2, <3>3
  <2>4. ASSUME NEW i \in DOMAIN submit', NEW j \in DOMAIN submit', IsJob(i)', IsJob(j)',
               submit'[i].req = submit'[j].req
        PROVE  i = j
    <3>1. i + 1 = j + 1
      BY <1>2, <2>1, <2>2, <2>4
    <3> QED
      BY <1>1, <2>1, <3>1
  <2>5. ASSUME NEW k \in Tasks, stage'[k] # "none" PROVE k <= asked'
    <3>1. CASE stage'[k] = stage[k]
      BY <1>2, <1>9, <2>5, <3>1
    <3>2. CASE stage'[k] # stage[k]
      BY <1>1, <1>2, <1>9, <2>1, <3>2
    <3> QED
      BY <3>1, <3>2
  <2> QED
    BY <1>9, <2>3, <2>4, <2>5 DEF Fresh
<1>10. CASE Flushing \/ Delivering \/ Reading \/ Missing
  BY <1>5, <1>10 DEF Flushing, Delivering, Reading, Missing
<1>11. ASSUME NEW k \in Tasks, Answering(k) PROVE Fresh'
  BY <1>4, <1>6, <1>7, <1>11 DEF Answering
<1>12. ASSUME NEW k \in Tasks, Starting(k) PROVE Fresh'
  BY <1>4, <1>6, <1>7, <1>12 DEF Starting
<1>13. ASSUME NEW k \in Tasks, Sending(k) PROVE Fresh'
  BY <1>4, <1>6, <1>13 DEF Sending, Live
<1>14. ASSUME NEW k \in Tasks, Failing(k) PROVE Fresh'
  BY <1>4, <1>6, <1>14 DEF Failing, Live
<1>15. ASSUME NEW k \in Tasks, Reporting(k) PROVE Fresh'
  BY <1>4, <1>6, <1>15 DEF Reporting
<1>16. ASSUME NEW k \in Tasks, NEW p \in Stages, NEW w, Moving(k, p, w) PROVE Fresh'
  BY <1>4, <1>6, <1>16 DEF Moving, Quiet, Live
<1>17. ASSUME NEW k \in Tasks, NEW p \in Stages, Ending(k, p) PROVE Fresh'
  BY <1>4, <1>6, <1>17 DEF Ending, Live
<1>18. ASSUME NEW s \in Slots, Departed(s) PROVE Fresh'
  BY <1>9, <1>18 DEF Departed
<1>19. ASSUME NEW s \in Slots, Asking(s) PROVE Fresh'
  <2> DEFINE k == asked + 1
  <2>1. submit' = Append(submit, Job(s, k)) /\ k \in Tasks /\ asked' = k /\ stage' = stage
    BY <1>19 DEF Asking
  <2>2. /\ \A i \in DOMAIN submit : i \in DOMAIN submit' /\ submit'[i] = submit[i]
        /\ \A i \in DOMAIN submit' :
             i \in DOMAIN submit \/ (submit'[i] = Job(s, k) /\ i = Len(submit) + 1)
    BY <2>1, SubmitMore
  <2>3. stage[k] = "none" /\ \A i \in DOMAIN submit : IsJob(i) => submit[i].req # k
    BY <1>1, <1>2, <2>1
  <2>4. \A i \in DOMAIN submit' : i \in DOMAIN submit => (IsJob(i)' <=> IsJob(i))
    BY <2>2 DEF IsJob
  <2>5. ASSUME NEW i \in DOMAIN submit', IsJob(i)'
        PROVE  submit'[i].req \in 1 .. asked' /\ stage'[submit'[i].req] = "none"
    <3>1. CASE i \in DOMAIN submit
      <4>1. submit'[i].req \in 1 .. asked /\ stage[submit'[i].req] = "none"
        BY <1>2, <2>2, <2>4, <2>5, <3>1
      <4> QED
        BY <1>1, <2>1, <4>1
    <3>2. CASE submit'[i] = Job(s, k)
      BY <1>1, <2>1, <2>3, <3>2 DEF Job
    <3> QED
      BY <2>2, <3>1, <3>2
  <2>6. ASSUME NEW i \in DOMAIN submit', NEW j \in DOMAIN submit', IsJob(i)', IsJob(j)',
               submit'[i].req = submit'[j].req
        PROVE  i = j
    <3>1. Job(s, k).req = k
      BY DEF Job
    <3>2. CASE i \in DOMAIN submit /\ j \in DOMAIN submit
      BY <1>2, <2>2, <2>4, <2>6, <3>2
    <3>3. CASE i \notin DOMAIN submit \/ j \notin DOMAIN submit
      BY <2>2, <2>3, <2>4, <2>6, <3>1, <3>3
    <3> QED
      BY <3>2, <3>3
  <2>7. \A l \in Tasks : stage'[l] # "none" => l <= asked'
    BY <1>1, <1>2, <2>1
  <2>8. Woken'
    BY <1>19 DEF Asking, Fresh, Woken
  <2> QED
    BY <2>5, <2>6, <2>7, <2>8 DEF Fresh
<1>20. ASSUME NEW s \in Slots, Replying(s) \/ Opening(s) PROVE Fresh'
  BY <1>5, <1>20 DEF Replying, Opening, Completed
<1>21. ASSUME NEW s \in Slots, Refusing(s) PROVE Fresh'
  BY <1>8, <1>21 DEF Refusing
<1>22. ASSUME NEW s \in Slots, Draining(s) PROVE Fresh'
  BY <1>5, <1>22 DEF Draining
<1>23. ASSUME NEW s \in Slots, Leaving(s) PROVE Fresh'
  BY <1>8, <1>23 DEF Leaving
<1>24. ASSUME NEW s \in Slots, NEW k \in Tasks, Spawning(s, k) PROVE Fresh'
  <2>1. submit # <<>> /\ submit' = Tail(submit) /\ asked' = asked /\ IsJob(1)
        /\ k = submit[1].req /\ stage' = [stage EXCEPT ![k] = "run"] /\ woken' = woken
        /\ 1 \in DOMAIN submit
    BY <1>24, SubmitFacts DEF Spawning, IsJob
  <2>2. stage[k] = "none"
    BY <1>2, <2>1
  <2>3. Woken'
    BY <1>7, <2>1, <2>2
  <2>4. \A l \in Tasks : stage'[l] # stage[l] => stage[l] = "none" /\ l = k
    BY <1>1, <2>1, <2>2
  <2> QED
    BY <1>9, <2>1, <2>3, <2>4
<1>25. ASSUME NEW s \in Slots, NEW g \in Gens, Cutting(s, g) PROVE Fresh'
  BY <1>8, <1>25 DEF Cutting
<1>26. ASSUME NEW s \in Slots, NEW n \in Nat, NEW g \in Gens, Acked(s, n, g) PROVE Fresh'
  BY <1>4, <1>26 DEF Acked
<1> QED
  BY <1>10, <1>11, <1>12, <1>13, <1>14, <1>15, <1>16, <1>17, <1>18, <1>19, <1>20, <1>21, <1>22,
     <1>23, <1>24, <1>25, <1>26 DEF Step

-----------------------------------------------------------------------------
(* What the invariant says of a slot, by where its response is. *)

\* The parts of a slot and of a task, typed.
LEMMA Shapes ==
  ASSUME TypeOK
  PROVE  /\ \A s \in Slots :
              /\ parked[s] \in Gens \X Gens /\ parked[s][1] \in Gens /\ parked[s][2] \in Gens
              /\ parked[s] = <<parked[s][1], parked[s][2]>>
              /\ slots[s] = [conn |-> slots[s].conn, gen |-> slots[s].gen]
              /\ slots[s].conn \in {"free", "out", "stream"} /\ slots[s].gen \in Gens
              /\ handler.gen[s] \in Gens /\ gens[s] \in Gens
              /\ handler.pending[s] \in Seq(Tasks \X Nat) /\ Len(handler.pending[s]) \in Nat
         /\ \A k \in Tasks : at[k] \in Slots /\ k \in Gens /\ k # 0
         /\ \A g \in Gens : g # 0 => g \in Tasks
<1>1. /\ parked \in [Slots -> Gens \X Gens] /\ gens \in [Slots -> Gens] /\ at \in [Tasks -> Slots]
      /\ slots \in [Slots -> [conn : {"free", "out", "stream"}, gen : Gens]]
      /\ handler \in Registries
  BY Typed
<1>2. /\ handler.gen \in [Slots -> Gens] /\ handler.pending \in [Slots -> Seq(Tasks \X Nat)]
  BY <1>1 DEF Registries
<1>3. \A g \in Gens : g # 0 => g \in Tasks
  BY DEF Gens, Tasks
<1>4. \A k \in Tasks : k \in Gens /\ k # 0
  BY TaskIsGen
<1>5. ASSUME NEW s \in Slots
      PROVE  /\ parked[s] \in Gens \X Gens /\ parked[s][1] \in Gens /\ parked[s][2] \in Gens
             /\ parked[s] = <<parked[s][1], parked[s][2]>>
  BY <1>1
<1>6. ASSUME NEW s \in Slots
      PROVE  /\ slots[s] = [conn |-> slots[s].conn, gen |-> slots[s].gen]
             /\ slots[s].conn \in {"free", "out", "stream"} /\ slots[s].gen \in Gens
  BY <1>1
<1>7. ASSUME NEW s \in Slots
      PROVE  handler.pending[s] \in Seq(Tasks \X Nat) /\ Len(handler.pending[s]) \in Nat
  BY <1>2
<1> QED
  BY <1>1, <1>2, <1>3, <1>4, <1>5, <1>6, <1>7

\* A slot whose request is outstanding serves nothing but that request's stream.
LEMMA Out ==
  ASSUME Inductive, NEW s \in Slots, NEW k \in Tasks, Outstanding(k, s)
  PROVE  /\ slots[s].conn = "out" /\ slots[s].gen = 0
         /\ \A l \in Tasks : Outstanding(l, s) => l = k
         /\ \A l \in Tasks : Serving(s, l) => l = k /\ parked[s] = <<k, k>>
<1>1. Turns /\ TypeOK
  BY DEF Inductive
<1>2. slots[s] = [conn |-> "out", gen |-> 0]
  BY <1>1 DEF Turns
<1>3. slots[s].conn = "out" /\ slots[s].gen = 0
  BY <1>2
<1>4. \A l \in Tasks : Outstanding(l, s) => l = k
  BY <1>1 DEF Turns
<1>5. ASSUME NEW l \in Tasks, Serving(s, l) PROVE l = k /\ parked[s] = <<k, k>>
  <2>1. slots[s] # [conn |-> "stream", gen |-> l]
    BY <1>3
  <2>2. parked[s] = <<l, l>>
    BY <1>5, <2>1 DEF Serving
  <2>3. Outstanding(l, s)
    BY <2>2 DEF Outstanding
  <2> QED
    BY <1>4, <2>2, <2>3
<1> QED
  BY <1>3, <1>4, <1>5

\* A task about to answer: nothing is parked for its slot, nor on its way.
LEMMA Blank ==
  ASSUME Inductive, NEW k \in Tasks, stage[k] \in {"run", "failed"}
  PROVE  /\ at[k] \in Slots /\ parked[at[k]][1] = 0 /\ parked[at[k]][2] = 0
         /\ slots[at[k]].conn = "out" /\ NoTrace(k) /\ end[k] = "open" /\ Outstanding(k, at[k])
         /\ \A l \in Tasks : ~Serving(at[k], l) /\ (Outstanding(l, at[k]) => l = k)
         /\ at[k] \notin handler.sub /\ at[k] \notin handler.done
         /\ handler.pending[at[k]] = <<>>
         /\ \A i \in DOMAIN chunk : IsBegin(i) => chunk[i].slot # at[k]
         /\ \A i \in DOMAIN pendingDone : pendingDone[i] # at[k]
         /\ \A i \in DOMAIN comps : comps[i].kind = "done" => comps[i].slot # at[k]
         /\ \A i \in DOMAIN batch : batch[i].slot # at[k]
<1> DEFINE s == at[k]
<1>1. TypeOK /\ Numbered /\ Turns /\ Completing /\ Ordered /\ Registered /\ Homed
  BY DEF Inductive
<1>2. s \in Slots /\ k # 0 /\ k \in Gens /\ parked[s][1] \in Gens /\ handler.gen[s] \in Gens
      /\ \A g \in Gens : g # 0 => g \in Tasks
  BY <1>1, Shapes
<1>3. Outstanding(k, s)
  BY DEF Outstanding
<1>4. NoTrace(k) /\ end[k] = "open"
  BY <1>1 DEF Numbered
<1> HIDE DEF s
<1>5. parked[s][1] = 0
  <2> SUFFICES ASSUME parked[s][1] # 0 PROVE FALSE
    OBVIOUS
  <2>1. parked[s][1] \in Tasks
    BY <1>2
  <2>2. Outstanding(parked[s][1], s)
    BY DEF Outstanding
  <2>3. parked[s][1] = k
    BY <1>2, <1>3, <2>1, <2>2, Out
  <2> QED
    BY <1>2, <1>4, <2>3 DEF NoTrace
<1>6. parked[s][2] = 0
  BY <1>1, <1>2, <1>5 DEF Turns
<1>7. slots[s].conn = "out" /\ \A l \in Tasks : Outstanding(l, s) => l = k
  BY <1>2, <1>3, Out
<1>8. ASSUME NEW l \in Tasks PROVE ~Serving(s, l)
  <2>1. parked[s] # <<k, k>>
    BY <1>2, <1>5
  <2> QED
    BY <1>2, <1>3, <2>1, Out
<1>9. s \notin handler.sub
  <2> SUFFICES ASSUME s \in handler.sub PROVE FALSE
    OBVIOUS
  <2>1. handler.gen[s] # 0 /\ Serving(s, handler.gen[s])
    BY <1>1, <1>2 DEF Registered
  <2> QED
    BY <1>2, <1>8, <2>1
<1>10. s \notin handler.done /\ handler.pending[s] = <<>>
  BY <1>1, <1>2, <1>9 DEF Registered
<1>11. \A i \in DOMAIN chunk : IsBegin(i) => chunk[i].slot # s
  <2> SUFFICES ASSUME NEW i \in DOMAIN chunk, IsBegin(i), chunk[i].slot = s PROVE FALSE
    OBVIOUS
  <2>1. parked[s] = <<chunk[i].gen, chunk[i].gen>> /\ chunk[i].gen # 0
    BY <1>1 DEF Ordered, Homed
  <2> QED
    BY <1>5, <2>1
<1>12. /\ \A i \in DOMAIN pendingDone : pendingDone[i] # s
       /\ \A i \in DOMAIN comps : comps[i].kind = "done" => comps[i].slot # s
       /\ \A i \in DOMAIN batch : batch[i].slot # s
  BY <1>1, <1>5 DEF Completing
<1> QED
  BY <1>2, <1>3, <1>4, <1>5, <1>6, <1>7, <1>8, <1>9, <1>10, <1>11, <1>12 DEF s

\* A response is parked: its slot's request is nowhere else.
LEMMA Waiting ==
  ASSUME Inductive, NEW s \in Slots, parked[s][1] # 0
  PROVE  LET k == parked[s][1]
         IN /\ k \in Tasks /\ at[k] = s /\ slots[s].conn = "out" /\ slots[s].gen = 0
            /\ Outstanding(k, s)
            /\ \A l \in Tasks : (Outstanding(l, s) => l = k) /\ (Serving(s, l) => l = k)
            /\ \A i \in DOMAIN submit : IsJob(i) => submit[i].slot # s
            /\ \A l \in Tasks : stage[l] \in {"run", "failed"} => at[l] # s
            /\ parked[s][2] \in {0, k}
            /\ stage[k] \notin {"none", "run", "failed"}
            /\ parked[s][2] = 0 => end[k] = "whole" /\ made[k] = 0
                                   /\ \A l \in Tasks : ~Serving(s, l)
            /\ parked[s][2] # 0 => parked[s] = <<k, k>> /\ Serving(s, k)
<1> DEFINE k == parked[s][1]
<1>1. TypeOK /\ Numbered /\ Turns /\ Homed /\ Fresh
  BY DEF Inductive
<1>2. k \in Tasks /\ k # 0 /\ parked[s] = <<parked[s][1], parked[s][2]>>
  BY <1>1, Shapes
<1>3. Outstanding(k, s)
  BY DEF Outstanding
<1>4. at[k] = s
  BY <1>1 DEF Homed
<1>5. parked[s][2] \in {0, k} /\ (parked[s][2] = 0 => end[k] = "whole" /\ made[k] = 0)
  BY <1>1 DEF Turns
<1>6. stage[k] \notin {"none", "run", "failed"}
  BY <1>1, <1>2 DEF Numbered, NoTrace
<1>7. parked[s][1] = k
  OBVIOUS
<1> HIDE DEF k
<1>8. /\ slots[s].conn = "out" /\ slots[s].gen = 0
      /\ \A l \in Tasks : Outstanding(l, s) => l = k
      /\ \A l \in Tasks : Serving(s, l) => l = k /\ parked[s] = <<k, k>>
  BY <1>2, <1>3, Out
<1>9. ASSUME NEW i \in DOMAIN submit, IsJob(i), submit[i].slot = s PROVE FALSE
  <2>1. submit[i].req \in Tasks
    BY <1>1, <1>9, SubmitFacts
  <2>2. Outstanding(submit[i].req, s)
    BY <1>9 DEF Outstanding
  <2>3. submit[i].req = k
    BY <1>8, <2>1, <2>2
  <2>4. stage[k] = "none"
    BY <1>1, <1>9, <2>3 DEF Fresh
  <2> QED
    BY <1>6, <2>4
<1>10. ASSUME NEW l \in Tasks, stage[l] \in {"run", "failed"}, at[l] = s PROVE FALSE
  <2>1. Outstanding(l, s)
    BY <1>10 DEF Outstanding
  <2> QED
    BY <1>6, <1>8, <1>10, <2>1
<1>11. parked[s][2] # 0 => parked[s] = <<k, k>> /\ Serving(s, k)
  BY <1>2, <1>5, <1>7 DEF Serving
<1>12. ASSUME parked[s][2] = 0, NEW l \in Tasks PROVE ~Serving(s, l)
  <2>1. parked[s] # <<k, k>>
    BY <1>2, <1>12
  <2> QED
    BY <1>8, <2>1
<1> QED
  BY <1>2, <1>3, <1>4, <1>5, <1>6, <1>8, <1>9, <1>10, <1>11, <1>12 DEF k

\* A slot that streams has no request outstanding, and its begin has been delivered.
LEMMA Streams ==
  ASSUME Inductive, NEW s \in Slots, slots[s].conn = "stream"
  PROVE  LET g == slots[s].gen
         IN /\ g \in Tasks /\ at[g] = s /\ Serving(s, g) /\ gens[s] = g /\ Streaming(s, g)
            /\ parked[s][1] = 0 /\ handler.gen[s] = g /\ Begun(s, g)
            /\ slots[s] = [conn |-> "stream", gen |-> g]
            /\ \A l \in Tasks : ~Outstanding(l, s) /\ (Serving(s, l) => l = g)
            /\ \A i \in DOMAIN submit : IsJob(i) => submit[i].slot # s
            /\ s \notin handler.sub \/ s \in handler.done =>
                 end[g] = "whole" /\ \A i \in DOMAIN chunk : chunk[i].gen # g
<1> DEFINE g == slots[s].gen
<1>1. TypeOK /\ Turns /\ Homed /\ Owning /\ Ordered /\ Served
  BY DEF Inductive
<1>2. g \in Tasks /\ at[g] = s /\ slots[s] = [conn |-> "stream", gen |-> g]
  BY <1>1, Shapes DEF Homed
<1>3. Serving(s, g) /\ gens[s] = g /\ Streaming(s, g)
  <2>1. Serving(s, g)
    BY <1>2 DEF Serving
  <2> HIDE DEF g
  <2> QED
    BY <1>1, <1>2, <2>1 DEF Owning, Served
<1>4. ASSUME NEW l \in Tasks, Outstanding(l, s) PROVE FALSE
  BY <1>4, Out
<1>5. parked[s][1] = 0
  <2> SUFFICES ASSUME parked[s][1] # 0 PROVE FALSE
    OBVIOUS
  <2>1. parked[s][1] \in Tasks
    BY <1>1, Shapes
  <2> QED
    BY <1>4, <2>1 DEF Outstanding
<1>6. ASSUME NEW i \in DOMAIN submit, IsJob(i), submit[i].slot = s PROVE FALSE
  <2>1. submit[i].req \in Tasks
    BY <1>1, <1>6, SubmitFacts
  <2> QED
    BY <1>4, <1>6, <2>1 DEF Outstanding
<1>7. Begun(s, g)
  <2> SUFFICES ASSUME NEW i \in DOMAIN chunk, IsBegin(i), chunk[i].slot = s PROVE FALSE
    BY DEF Begun
  <2>1. parked[s] = <<chunk[i].gen, chunk[i].gen>> /\ chunk[i].gen # 0
    BY <1>1 DEF Ordered, Homed
  <2> QED
    BY <1>5, <2>1
<1>8. handler.gen[s] = g
  BY <1>3, <1>7 DEF Streaming
<1>9. s \notin handler.sub \/ s \in handler.done =>
        end[g] = "whole" /\ \A i \in DOMAIN chunk : chunk[i].gen # g
  BY <1>3, <1>7 DEF Streaming
<1>10. \A l \in Tasks : Serving(s, l) => l = g
  BY <1>1, <1>3 DEF Owning
<1> QED
  BY <1>2, <1>3, <1>4, <1>5, <1>6, <1>7, <1>8, <1>9, <1>10

\* One stream is served at a time.
LEMMA OneServed ==
  ASSUME Inductive, NEW s \in Slots, NEW k \in Tasks, Serving(s, k)
  PROVE  gens[s] = k /\ at[k] = s /\ \A l \in Tasks : Serving(s, l) => l = k
<1>1. Owning /\ Homed /\ TypeOK
  BY DEF Inductive
<1>2. k # 0
  BY <1>1, Shapes
<1>3. at[k] = s
  BY <1>1, <1>2 DEF Homed, Serving
<1> QED
  BY <1>1, <1>3 DEF Owning

\* Who may still send.
LEMMA Alive ==
  ASSUME Inductive, NEW k \in Tasks, stage[k] \in Live, k \notin gone
  PROVE  /\ at[k] \in Slots /\ end[k] = "open" /\ owner[at[k]] = k /\ gens[at[k]] = k
         /\ Serving(at[k], k) \/ Departing(at[k])
         /\ \A l \in Tasks : stage[l] \in Live /\ l \notin gone /\ at[l] = at[k] => l = k
         /\ stage[k] = "global" => credit[at[k]] >= 1
<1>1. TypeOK /\ Numbered /\ Owning
  BY DEF Inductive
<1>2. at[k] \in Slots
  BY <1>1, Shapes
<1>3. end[k] = "open"
  BY <1>1 DEF Numbered, Live
<1> QED
  BY <1>1, <1>2, <1>3 DEF Owning

\* Who begins or goes on with a body, or fails, has not ended it; an end stands.
LEMMA EndStands ==
  ASSUME Inductive, Step
  PROVE  /\ \A k \in Tasks : end[k] # "open" => end'[k] = end[k] /\ made'[k] = made[k]
         /\ \A k \in Tasks : stage'[k] \in {"none", "run", "failed"} =>
              /\ stage[k] \in {"none", "run", "failed"}
              /\ end'[k] = end[k] /\ made'[k] = made[k]
<1>1. /\ TypeOK /\ Numbered /\ Fresh
  BY DEF Inductive
<1>2. /\ stage \in [Tasks -> Stages] /\ made \in [Tasks -> Nat]
      /\ end \in [Tasks -> {"open", "whole", "cut"}]
  BY <1>1, Typed
<1>3. \A k \in Tasks : end[k] # "open" => stage[k] \in {"late", "over", "reported"}
  BY <1>1 DEF Numbered
<1> DEFINE Goal ==
         /\ \A k \in Tasks : end[k] # "open" => end'[k] = end[k] /\ made'[k] = made[k]
         /\ \A k \in Tasks : stage'[k] \in {"none", "run", "failed"} =>
              /\ stage[k] \in {"none", "run", "failed"}
              /\ end'[k] = end[k] /\ made'[k] = made[k]
<1> SUFFICES Goal
  OBVIOUS
<1>4. ASSUME UNCHANGED <<end, made, stage>> PROVE Goal
  BY <1>4
<1>5. ASSUME NEW k \in Tasks, Answering(k) PROVE Goal
  BY <1>2, <1>3, <1>5 DEF Answering
<1>6. ASSUME NEW k \in Tasks, Starting(k) PROVE Goal
  BY <1>2, <1>3, <1>6 DEF Starting
<1>7. ASSUME NEW k \in Tasks, Sending(k) PROVE Goal
  BY <1>2, <1>3, <1>7 DEF Sending, Live
<1>8. ASSUME NEW k \in Tasks, Failing(k) PROVE Goal
  BY <1>2, <1>3, <1>8 DEF Failing, Live
<1>9. ASSUME NEW k \in Tasks, Reporting(k) PROVE Goal
  <2>1. CASE stage[k] = "failed" /\ end' = [end EXCEPT ![k] = "whole"]
    BY <1>2, <1>3, <1>9, <2>1 DEF Reporting
  <2>2. CASE end' = end
    BY <1>2, <1>3, <1>9, <2>2 DEF Reporting
  <2> QED
    BY <1>9, <2>1, <2>2 DEF Reporting
<1>10. ASSUME NEW k \in Tasks, NEW p \in Stages, NEW w, Moving(k, p, w) PROVE Goal
  BY <1>2, <1>3, <1>10 DEF Moving, Quiet, Live
<1>11. ASSUME NEW k \in Tasks, NEW p \in Stages, Ending(k, p) PROVE Goal
  BY <1>2, <1>3, <1>11 DEF Ending, Live
<1>12. ASSUME NEW s \in Slots, NEW k \in Tasks, Spawning(s, k) PROVE Goal
  <2>1. stage[k] = "none"
    BY <1>1, <1>12, SubmitFacts DEF Spawning, Fresh, IsJob
  <2> QED
    BY <1>2, <1>12, <2>1 DEF Spawning
<1> HIDE DEF Goal
<1>13. CASE Flushing \/ Delivering \/ Reading \/ Missing
  BY <1>4, <1>13 DEF Flushing, Delivering, Reading, Missing
<1>14. ASSUME NEW s \in Slots,
              \/ Departed(s) \/ Asking(s) \/ Replying(s) \/ Opening(s) \/ Refusing(s)
              \/ Draining(s) \/ Leaving(s)
       PROVE  Goal
  BY <1>4, <1>14 DEF Departed, Asking, Replying, Opening, Refusing, Draining, Leaving
<1>15. ASSUME NEW s \in Slots, NEW g \in Gens, Cutting(s, g) PROVE Goal
  BY <1>4, <1>15 DEF Cutting
<1>16. ASSUME NEW s \in Slots, NEW n \in Nat, NEW g \in Gens, Acked(s, n, g) PROVE Goal
  BY <1>4, <1>16 DEF Acked
<1> QED
  BY <1>5, <1>6, <1>7, <1>8, <1>9, <1>10, <1>11, <1>12, <1>13, <1>14, <1>15, <1>16 DEF Step

-----------------------------------------------------------------------------
(* Sequences as the steps change them. *)

LEMMA Appended ==
  ASSUME NEW T, NEW q \in Seq(T), NEW d, NEW r, r = Append(q, d)
  PROVE  /\ DOMAIN q = 1 .. Len(q) /\ Len(q) \in Nat /\ DOMAIN r = 1 .. Len(q) + 1
         /\ Len(q) + 1 \notin DOMAIN q /\ Len(q) + 1 \in DOMAIN r /\ r[Len(q) + 1] = d
         /\ \A i \in DOMAIN q : i \in DOMAIN r /\ r[i] = q[i] /\ i < Len(q) + 1
         /\ \A i \in DOMAIN r : i \in DOMAIN q \/ i = Len(q) + 1
<1> DEFINE n == Len(q)
<1>1. n \in Nat /\ DOMAIN q = 1 .. n
  OBVIOUS
<1>2. /\ DOMAIN r = 1 .. n + 1 /\ r[n + 1] = d /\ \A i \in 1 .. n : r[i] = q[i]
  OBVIOUS
<1> HIDE DEF n
<1>3. /\ n + 1 \notin 1 .. n /\ n + 1 \in 1 .. n + 1
      /\ \A i \in 1 .. n : i \in 1 .. n + 1 /\ i < n + 1
      /\ \A i \in 1 .. n + 1 : i \in 1 .. n \/ i = n + 1
  BY <1>1
<1> QED
  BY <1>1, <1>2, <1>3 DEF n

LEMMA Beheaded ==
  ASSUME NEW T, NEW q \in Seq(T), q # <<>>, NEW r, r = Tail(q)
  PROVE  /\ 1 \in DOMAIN q /\ q[1] = Head(q) /\ r \in Seq(T) /\ Len(r) = Len(q) - 1
         /\ \A i \in DOMAIN r : i + 1 \in DOMAIN q /\ r[i] = q[i + 1] /\ i + 1 # 1 /\ i \in Nat
         /\ \A i \in DOMAIN q : i # 1 => i - 1 \in DOMAIN r /\ r[i - 1] = q[i]
<1> DEFINE n == Len(q)
<1>1. n \in Nat /\ n >= 1 /\ DOMAIN q = 1 .. n /\ q[1] = Head(q)
  OBVIOUS
<1>2. r \in Seq(T) /\ Len(r) = n - 1 /\ DOMAIN r = 1 .. n - 1
        /\ \A i \in 1 .. n - 1 : r[i] = q[i + 1]
  OBVIOUS
<1> HIDE DEF n
<1>3. /\ 1 \in 1 .. n /\ \A i \in 1 .. n - 1 : i + 1 \in 1 .. n /\ i + 1 # 1 /\ i \in Nat
      /\ \A i \in 1 .. n : i # 1 => i - 1 \in 1 .. n - 1 /\ (i - 1) + 1 = i
  BY <1>1
<1> QED
  BY <1>1, <1>2, <1>3 DEF n

\* A flush, entry by entry.
LEMMA FlushedParts ==
  ASSUME TypeOK
  PROVE  /\ \A i \in DOMAIN Flushed :
              \/ i \in DOMAIN comps /\ Flushed[i] = comps[i]
              \/ \E j \in DOMAIN pendingDone :
                   i = Len(comps) + j /\ i \notin DOMAIN comps /\ Flushed[i] = Done(pendingDone[j])
         /\ \A i \in DOMAIN comps : i \in DOMAIN Flushed
<1> DEFINE n == Len(comps)
           m == Len(pendingDone)
<1>1. n \in Nat /\ m \in Nat /\ DOMAIN comps = 1 .. n /\ DOMAIN pendingDone = 1 .. m
  <2>1. comps \in Seq(Entries) /\ pendingDone \in Seq(Slots)
    BY Typed
  <2> QED
    BY <2>1
<1>2. Flushed \in Seq(Entries) /\ Len(Flushed) = n + m
      /\ \A i \in 1 .. n : Flushed[i] = comps[i]
  BY <1>1, FlushedType
<1>2a. ASSUME NEW j \in 1 .. m PROVE Flushed[n + j] = Done(pendingDone[j])
  BY <1>1, FlushedType
<1>3. DOMAIN Flushed = 1 .. n + m
  BY <1>2
<1> HIDE DEF n, m
<1>4. \A i \in 1 .. n + m : i \in 1 .. n \/ (i - n \in 1 .. m /\ i = n + (i - n) /\ i \notin 1 .. n)
  BY <1>1
<1>5. ASSUME NEW i \in DOMAIN Flushed
      PROVE  \/ i \in DOMAIN comps /\ Flushed[i] = comps[i]
             \/ \E j \in DOMAIN pendingDone :
                  i = n + j /\ i \notin DOMAIN comps /\ Flushed[i] = Done(pendingDone[j])
  <2>1. CASE i \in 1 .. n
    BY <1>1, <1>2, <2>1
  <2>2. CASE i \notin 1 .. n
    <3> DEFINE j == i - n
    <3>1. j \in 1 .. m /\ i = n + j
      BY <1>3, <1>4, <2>2
    <3> HIDE DEF j
    <3>2. Flushed[n + j] = Done(pendingDone[j])
      BY <1>2a, <3>1
    <3> QED
      BY <1>1, <2>2, <3>1, <3>2
  <2> QED
    BY <2>1, <2>2
<1>6. \A i \in 1 .. n : i \in 1 .. n + m
  BY <1>1
<1> QED
  BY <1>1, <1>3, <1>5, <1>6 DEF n

-----------------------------------------------------------------------------
(* The registry after a step. *)

LEMMA DeliveredGen ==
  ASSUME Inductive
  PROVE  /\ Delivered \in Registries
         /\ \A s \in Slots :
              \/ Delivered.gen[s] = handler.gen[s] /\ \A k \in Tasks : ~Serving(s, k)
              \/ \E k \in Tasks : Serving(s, k) /\ Delivered.gen[s] = k
<1>1. TypeOK /\ Homed /\ Turns /\ Ordered /\ Registered /\ Served
  BY DEF Inductive
<1>2. Delivered \in Registries
  BY <1>1, Typed, DeliveredType DEF Delivered
<1>3. ASSUME NEW s \in Slots
      PROVE  \/ Delivered.gen[s] = handler.gen[s] /\ \A k \in Tasks : ~Serving(s, k)
             \/ \E k \in Tasks : Serving(s, k) /\ Delivered.gen[s] = k
  <2>1. CASE \A k \in Tasks : ~Serving(s, k)
    BY <1>1, <2>1, Rests
  <2>2. ASSUME NEW k \in Tasks, Serving(s, k) PROVE Delivered.gen[s] = k
    BY <1>1, <2>2, Arrives
  <2> QED
    BY <2>1, <2>2
<1> QED
  BY <1>2, <1>3

\* Of slot `s` the registry has nothing; of the others what `h` has.
Without(h, s) ==
  /\ handler' \in Registries
  /\ \A z \in Slots \ {s} :
       /\ z \in handler'.sub <=> z \in h.sub
       /\ z \in handler'.done <=> z \in h.done
       /\ handler'.pending[z] = h.pending[z] /\ handler'.gen[z] = h.gen[z]
  /\ s \notin handler'.sub /\ s \notin handler'.done
  /\ handler'.pending[s] = <<>> /\ handler'.gen[s] = 0

LEMMA Forgotten ==
  ASSUME TypeOK, NEW s \in Slots
  PROVE  /\ Leaving(s) => Without(handler, s)
         /\ \A g \in Gens : Cutting(s, g) => Without(handler, s)
         /\ Refusing(s) => Without(Delivered, s)
<1>1. handler \in Registries /\ Delivered \in Registries
  BY Typed, DeliveredType DEF Delivered
<1>1a. ASSUME NEW h \in Registries, handler' = Disconnected(h, s) PROVE Without(h, s)
  BY <1>1a, RegistryFacts, ZenonT(30) DEF Without
<1>2. Leaving(s) => Without(handler, s)
  BY <1>1, <1>1a DEF Leaving
<1>3. Refusing(s) => Without(Delivered, s)
  BY <1>1, <1>1a DEF Refusing
<1>4. ASSUME NEW g \in Gens, Cutting(s, g) PROVE Without(handler, s)
  <2> DEFINE h == Drained(handler, s)
  <2>1. h \in Registries
    BY <1>1, RegistryFacts
  <2>2. /\ \A z \in Slots \ {s} :
             /\ z \in h.sub <=> z \in handler.sub
             /\ z \in h.done <=> z \in handler.done
             /\ h.pending[z] = handler.pending[z]
        /\ h.gen = handler.gen
    BY <1>1, RegistryFacts
  <2>3. handler' = Disconnected(h, s)
    BY <1>4 DEF Cutting
  <2> HIDE DEF h
  <2>4. Without(h, s)
    BY <1>1a, <2>1, <2>3
  <2> QED
    BY <2>2, <2>4 DEF Without
<1> QED
  BY <1>2, <1>3, <1>4

-----------------------------------------------------------------------------
(* Numbered stays. *)

\* Nothing in a channel names stream `l`.
Clean(q, l) == \A i \in DOMAIN q : q[i].gen # l

LEMMA CleanMore ==
  ASSUME NEW l
  PROVE  /\ Clean(<<>>, l)
         /\ \A T : \A q \in Seq(T) : \A d \in T : Clean(q, l) /\ d.gen # l => Clean(Append(q, d), l)
         /\ \A T : \A q \in Seq(T) : Clean(q, l) /\ q # <<>> => Clean(Tail(q), l)
<1>1. ASSUME NEW T, NEW q \in Seq(T), NEW d \in T, Clean(q, l), d.gen # l
      PROVE  Clean(Append(q, d), l)
  <2> DEFINE r == Append(q, d)
  <2>1. /\ \A i \in DOMAIN q : r[i] = q[i]
        /\ \A i \in DOMAIN r : i \in DOMAIN q \/ r[i] = d
    BY Appended
  <2> HIDE DEF r
  <2>2. Clean(r, l)
    BY <1>1, <2>1 DEF Clean
  <2> QED
    BY <2>2 DEF r
<1>2. ASSUME NEW T, NEW q \in Seq(T), Clean(q, l), q # <<>>
      PROVE  Clean(Tail(q), l)
  <2> DEFINE r == Tail(q)
  <2>1. \A i \in DOMAIN r : i + 1 \in DOMAIN q /\ r[i] = q[i + 1]
    BY <1>2, Beheaded
  <2> HIDE DEF r
  <2>2. Clean(r, l)
    BY <1>2, <2>1 DEF Clean
  <2> QED
    BY <2>2 DEF r
<1>3. Clean(<<>>, l)
  BY DEF Clean
<1> QED
  BY <1>1, <1>2, <1>3

\* A task that has begun no stream still leaves no trace of one.
LEMMA TraceStep ==
  ASSUME Inductive, Step, NEW l \in Tasks, stage'[l] \in {"none", "run", "failed"}
  PROVE  NoTrace(l)'
<1>1. TypeOK /\ Homed /\ Turns /\ Fresh /\ Owning
  BY DEF Inductive
<1>2. stage[l] \in {"none", "run", "failed"} /\ made'[l] = made[l]
  BY EndStands
<1>3. /\ Clean(chunk, l) /\ Clean(acks, l) /\ Clean(comps, l) /\ Clean(aborts, l)
      /\ \A s \in Slots : handler.gen[s] # l /\ slots[s].gen # l /\ gens[s] # l /\ parked[s][1] # l
      /\ made[l] = 0 /\ made'[l] = 0
  <2>1. NoTrace(l)
    BY <1>2 DEF Inductive, Numbered
  <2> QED
    BY <1>2, <2>1 DEF NoTrace, Clean
<1>4. /\ stage \in [Tasks -> Stages] /\ gens \in [Slots -> Gens] /\ at \in [Tasks -> Slots]
      /\ chunk \in Seq(Frames) /\ acks \in Seq(Acks) /\ comps \in Seq(Entries)
      /\ aborts \in Seq(Entries) /\ parked \in [Slots -> Gens \X Gens]
      /\ slots \in [Slots -> [conn : {"free", "out", "stream"}, gen : Gens]]
      /\ handler \in Registries
      /\ l # 0 /\ 0 \in Gens /\ \A k \in Tasks : k \in Gens
  <2>1. 0 \in Gens
    BY <1>1, ServerFacts DEF Gens
  <2> QED
    BY <1>1, <2>1, Typed, TaskIsGen
<1>5. Clean(Flushed, l)
  <2>1. \A s \in Slots : Done(s).gen = 0
    BY DEF Done
  <2>2. \A i \in DOMAIN pendingDone : pendingDone[i] \in Slots
    <3>1. pendingDone \in Seq(Slots)
      BY <1>1, Typed
    <3> QED
      BY <3>1
  <2> QED
    BY <1>1, <1>3, <1>4, <2>1, <2>2, FlushedParts, SMTT(30) DEF Clean
<1>6. ASSUME NEW T, NEW q \in Seq(T), NEW d \in T, Clean(q, l), d.gen # l
      PROVE  Clean(Append(q, d), l)
  BY <1>6, CleanMore
<1>7. ASSUME NEW T, NEW q \in Seq(T), Clean(q, l), q # <<>> PROVE Clean(Tail(q), l)
  BY <1>7, CleanMore
<1>8. Clean(<<>>, l)
  BY CleanMore
<1>9. ASSUME Clean(chunk', l), Clean(acks', l), Clean(comps', l), Clean(aborts', l),
             \A s \in Slots : handler'.gen[s] # l /\ slots'[s].gen # l /\ gens'[s] # l
                              /\ parked'[s][1] # l
      PROVE  NoTrace(l)'
  BY <1>3, <1>9 DEF NoTrace, Clean
<1>10. \A s \in Slots : Delivered.gen[s] # l
  <2> SUFFICES ASSUME NEW s \in Slots PROVE Delivered.gen[s] # l
    OBVIOUS
  <2>1. ASSUME NEW k \in Tasks, Serving(s, k) PROVE k # l
    BY <1>3, <2>1 DEF Serving
  <2> QED
    BY <1>3, <2>1, DeliveredGen
<1>11. ASSUME NEW h, NEW s \in Slots, Without(h, s), \A z \in Slots : h.gen[z] # l
       PROVE  \A z \in Slots : handler'.gen[z] # l
  BY <1>4, <1>11 DEF Without
<1>12. \A s \in Slots : [slots EXCEPT ![s].conn = "free"][s].gen = slots[s].gen
                        /\ \A z \in Slots : [slots EXCEPT ![s].conn = "free"][z].gen = slots[z].gen
  BY <1>4
<1>13. CASE Flushing
  BY <1>3, <1>5, <1>9, <1>13 DEF Flushing
<1>14. CASE Delivering
  BY <1>3, <1>8, <1>9, <1>10, <1>14 DEF Delivering
<1>15. CASE Reading
  <2>1. Clean(Read("abort"), l)
    BY <1>1, <1>3, ReadFacts DEF Clean
  <2> QED
    BY <1>3, <1>8, <1>9, <1>15, <2>1 DEF Reading
<1>16. CASE Missing
  <2>1. Clean(aborts', l)
    BY <1>3, <1>4, <1>7, <1>16 DEF Missing
  <2> QED
    BY <1>3, <1>9, <1>16, <2>1 DEF Missing
<1>17. ASSUME NEW k \in Tasks, Answering(k) \/ Starting(k) PROVE NoTrace(l)'
  <2>1. k # l /\ k \in Gens /\ at[k] \in Slots
    BY <1>2, <1>4, <1>17 DEF Answering, Starting
  <2>2. CASE Answering(k)
    BY <1>3, <1>4, <1>9, <2>1, <2>2 DEF Answering
  <2>3. CASE Starting(k)
    <3>1. Frame("b", at[k], k, <<>>) \in Frames /\ Frame("b", at[k], k, <<>>).gen = k
      BY <2>1, FrameTypes DEF Frame
    <3>2. Clean(chunk', l)
      BY <1>3, <1>4, <1>6, <2>1, <2>3, <3>1 DEF Starting
    <3>3. \A s \in Slots : gens'[s] # l /\ parked'[s][1] # l
      BY <1>3, <1>4, <2>1, <2>3 DEF Starting
    <3> QED
      BY <1>3, <1>9, <2>3, <3>2, <3>3 DEF Starting
  <2> QED
    BY <1>17, <2>2, <2>3
<1>18. ASSUME NEW k \in Tasks, stage[k] \in Live, k \notin gone
       PROVE  gens[at[k]] = k /\ k # l /\ at[k] \in Slots
  BY <1>2, <1>18, Alive DEF Live
<1>19. ASSUME NEW k \in Tasks, Sending(k) PROVE NoTrace(l)'
  <2>1. gens[at[k]] = k /\ k # l /\ at[k] \in Slots /\ k \in Gens
    BY <1>4, <1>18, <1>19 DEF Sending
  <2> DEFINE f == Frame("s", at[k], gens[at[k]], Piece(k, made[k] + 1))
  <2>2. f \in Frames /\ f.gen = k
    <3>1. made \in [Tasks -> Nat]
      BY <1>1, Typed
    <3>2. Piece(k, made[k] + 1) \in Tasks \X Nat
      BY <3>1 DEF Piece
    <3> QED
      BY <2>1, <3>2, FrameTypes DEF Frame
  <2>3. chunk' = Append(chunk, f)
    BY <1>19 DEF Sending
  <2> HIDE DEF f
  <2>4. Clean(chunk', l)
    BY <1>3, <1>4, <1>6, <2>1, <2>2, <2>3
  <2> QED
    BY <1>3, <1>5, <1>9, <1>19, <2>4 DEF Sending
<1>20. ASSUME NEW k \in Tasks, NEW p \in Stages, Ending(k, p) PROVE NoTrace(l)'
  <2>1. gens[at[k]] = k /\ k # l /\ at[k] \in Slots /\ k \in Gens
    BY <1>4, <1>18, <1>20 DEF Ending
  <2> DEFINE f == Frame("e", at[k], gens[at[k]], <<>>)
  <2>2. f \in Frames /\ f.gen = k
    BY <2>1, FrameTypes DEF Frame
  <2>3. chunk' = Append(chunk, f)
    BY <1>20 DEF Ending
  <2> HIDE DEF f
  <2>4. Clean(chunk', l)
    BY <1>3, <1>4, <1>6, <2>1, <2>2, <2>3
  <2> QED
    BY <1>3, <1>5, <1>9, <1>20, <2>4 DEF Ending
<1>21. ASSUME NEW k \in Tasks, Failing(k) PROVE NoTrace(l)'
  <2>1. gens[at[k]] = k /\ k # l /\ at[k] \in Slots /\ k \in Gens
    BY <1>4, <1>18, <1>21 DEF Failing
  <2>2. AbortOf(at[k], gens[at[k]]) \in Entries /\ AbortOf(at[k], gens[at[k]]).gen = k
    BY <2>1, FrameTypes DEF AbortOf
  <2>3. Clean(comps', l)
    BY <1>3, <1>4, <1>6, <1>21, <2>1, <2>2 DEF Failing
  <2> QED
    BY <1>3, <1>9, <1>21, <2>3 DEF Failing
<1>22. ASSUME NEW k \in Tasks, Reporting(k) PROVE NoTrace(l)'
  <2>1. k # l
    BY <1>4, <1>22 DEF Reporting
  <2>2. \A s \in Slots : parked'[s][1] # l
    <3>1. CASE parked' = parked
      BY <1>3, <3>1
    <3>2. CASE parked' = [parked EXCEPT ![at[k]] = <<k, 0>>]
      BY <1>3, <1>4, <2>1, <3>2
    <3> QED
      BY <1>22, <3>1, <3>2 DEF Reporting
  <2> QED
    BY <1>3, <1>9, <1>22, <2>2 DEF Reporting
<1>23. ASSUME NEW k \in Tasks, NEW p \in Stages, NEW w, Moving(k, p, w) PROVE NoTrace(l)'
  BY <1>3, <1>9, <1>23 DEF Moving
<1>24. ASSUME NEW s \in Slots, Departed(s) PROVE NoTrace(l)'
  BY <1>3, <1>9, <1>24 DEF Departed
<1>25. ASSUME NEW s \in Slots, NEW k \in Tasks, Spawning(s, k) PROVE NoTrace(l)'
  BY <1>3, <1>9, <1>25 DEF Spawning
<1>26. ASSUME NEW s \in Slots, Asking(s) PROVE NoTrace(l)'
  <2>1. \A z \in Slots : slots'[z].gen # l
    BY <1>3, <1>4, <1>26 DEF Asking
  <2> QED
    BY <1>3, <1>9, <1>26, <2>1 DEF Asking
<1>27. ASSUME NEW s \in Slots, Completed(s) PROVE \A z \in Slots : parked'[z][1] # l
  BY <1>3, <1>4, <1>27 DEF Completed
<1>28. ASSUME NEW s \in Slots, Replying(s) PROVE NoTrace(l)'
  <2>1. \A z \in Slots : slots'[z].gen # l
    BY <1>3, <1>12, <1>28 DEF Replying
  <2>2. \A z \in Slots : parked'[z][1] # l
    BY <1>27, <1>28 DEF Replying
  <2> QED
    BY <1>3, <1>9, <1>28, <2>1, <2>2 DEF Replying
<1>29. ASSUME NEW s \in Slots, Opening(s) PROVE NoTrace(l)'
  <2>1. parked[s][2] # l
    <3>1. parked[s][2] \in {0, parked[s][1]}
      BY <1>1 DEF Turns
    <3> QED
      BY <1>3, <1>4, <3>1
  <2>2. \A z \in Slots : slots'[z].gen # l
    BY <1>3, <1>4, <1>29, <2>1 DEF Opening
  <2>3. \A z \in Slots : parked'[z][1] # l
    BY <1>27, <1>29 DEF Opening
  <2> QED
    BY <1>3, <1>8, <1>9, <1>10, <1>29, <2>2, <2>3 DEF Opening
<1>30. ASSUME NEW s \in Slots, Refusing(s) PROVE NoTrace(l)'
  <2>1. \A z \in Slots : slots'[z].gen # l
    BY <1>3, <1>12, <1>30 DEF Refusing
  <2>2. \A z \in Slots : parked'[z][1] # l
    BY <1>27, <1>30 DEF Refusing
  <2>3. \A z \in Slots : handler'.gen[z] # l
    BY <1>1, <1>10, <1>11, <1>30, Forgotten
  <2> QED
    BY <1>3, <1>8, <1>9, <1>30, <2>1, <2>2, <2>3 DEF Refusing
<1>31. ASSUME NEW s \in Slots, Draining(s) PROVE NoTrace(l)'
  <2>1. slots[s].gen # l /\ slots[s].gen \in Gens /\ Len(handler.pending[s]) \in Nat
    BY <1>1, <1>3, Shapes
  <2>2. Clean(acks', l)
    <3> DEFINE a == [slot |-> s, n |-> Len(handler.pending[s]), gen |-> slots[s].gen]
    <3>1. a \in Acks /\ a.gen # l
      BY <2>1 DEF Acks
    <3>2. acks' = acks \/ acks' = Append(acks, a)
      BY <1>31 DEF Draining
    <3> HIDE DEF a
    <3>3. Clean(Append(acks, a), l)
      BY <1>3, <1>4, <1>6, <3>1
    <3> QED
      BY <1>3, <3>2, <3>3
  <2>3. \A z \in Slots : slots'[z].gen # l
    <3>1. CASE slots' = slots
      BY <1>3, <3>1
    <3>2. CASE slots' = [slots EXCEPT ![s] = [conn |-> "free", gen |-> 0]]
      BY <1>3, <1>4, <3>2
    <3> QED
      BY <1>31, <3>1, <3>2 DEF Draining
  <2>4. \A z \in Slots : handler'.gen[z] # l
    <3>1. Drained(handler, s).gen = handler.gen
      BY <1>4, RegistryFacts
    <3> QED
      BY <1>3, <1>31, <3>1 DEF Draining
  <2> QED
    BY <1>3, <1>9, <1>31, <2>2, <2>3, <2>4 DEF Draining
<1>32. ASSUME NEW s \in Slots, Leaving(s) PROVE NoTrace(l)'
  <2>1. \A z \in Slots : slots'[z].gen # l
    BY <1>3, <1>12, <1>32 DEF Leaving
  <2>2. \A z \in Slots : handler'.gen[z] # l
    BY <1>1, <1>3, <1>11, <1>32, Forgotten
  <2> QED
    BY <1>3, <1>9, <1>32, <2>1, <2>2 DEF Leaving
<1>33. ASSUME NEW s \in Slots, NEW g \in Gens, Cutting(s, g) PROVE NoTrace(l)'
  <2>1. \A z \in Slots : slots'[z].gen # l
    BY <1>3, <1>12, <1>33 DEF Cutting
  <2>2. \A z \in Slots : handler'.gen[z] # l
    BY <1>1, <1>3, <1>11, <1>33, Forgotten
  <2>3. Clean(aborts', l)
    BY <1>3, <1>4, <1>7, <1>33 DEF Cutting
  <2> QED
    BY <1>3, <1>9, <1>33, <2>1, <2>2, <2>3 DEF Cutting
<1>34. ASSUME NEW s \in Slots, NEW n \in Nat, NEW g \in Gens, Acked(s, n, g) PROVE NoTrace(l)'
  <2>1. Clean(acks', l)
    BY <1>3, <1>4, <1>7, <1>34 DEF Acked
  <2> QED
    BY <1>3, <1>9, <1>34, <2>1 DEF Acked
<1> QED
  BY <1>13, <1>14, <1>15, <1>16, <1>17, <1>19, <1>20, <1>21, <1>22, <1>23, <1>24, <1>25, <1>26,
     <1>28, <1>29, <1>30, <1>31, <1>32, <1>33, <1>34 DEF Step

LEMMA NumberedStep ==
  ASSUME Inductive, Step, TypeOK'
  PROVE  Numbered'
<1>1. TypeOK /\ Fresh /\ Numbered /\ TypeOK'
  BY DEF Inductive
<1>2. /\ stage \in [Tasks -> Stages] /\ end \in [Tasks -> {"open", "whole", "cut"}]
      /\ owner \in [Slots -> Tasks \cup {None}] /\ at \in [Tasks -> Slots]
      /\ \A k \in Tasks : k # None
  BY <1>1, Typed, ExecutorAssumption
<1>3. /\ \A k \in Tasks : stage[k] = "none" => k \notin gone /\ \A s \in Slots : owner[s] # k
      /\ \A k \in Tasks : end[k] # "open" => stage[k] \in {"late", "over", "reported"}
  BY <1>1 DEF Numbered
<1> DEFINE Goal == /\ \A k \in Tasks : stage'[k] = "none" =>
                        k \notin gone' /\ \A s \in Slots : owner'[s] # k
                   /\ \A k \in Tasks : end'[k] # "open"
                        => stage'[k] \in {"late", "over", "reported"}
<1> SUFFICES Goal
  <2>1. \A k \in Tasks : stage'[k] \in {"none", "run", "failed"} => NoTrace(k)'
    BY TraceStep
  <2> QED
    BY <2>1 DEF Numbered
<1>4. ASSUME UNCHANGED <<end, stage, owner, gone>> PROVE Goal
  BY <1>3, <1>4
<1>5. ASSUME NEW k \in Tasks, Answering(k) PROVE Goal
  BY <1>2, <1>3, <1>5 DEF Answering
<1>6. ASSUME NEW k \in Tasks, Starting(k) PROVE Goal
  BY <1>2, <1>3, <1>6 DEF Starting
<1>7. ASSUME NEW k \in Tasks, Sending(k) PROVE Goal
  BY <1>2, <1>3, <1>7 DEF Sending, Live
<1>8. ASSUME NEW k \in Tasks, Failing(k) PROVE Goal
  BY <1>2, <1>3, <1>8 DEF Failing, Live
<1>9. ASSUME NEW k \in Tasks, Reporting(k) PROVE Goal
  <2>1. \A s \in Slots : owner'[s] \in {owner[s], None}
    BY <1>2, <1>9 DEF Reporting
  <2>2. end' = end \/ end' = [end EXCEPT ![k] = "whole"]
    BY <1>9 DEF Reporting
  <2> QED
    BY <1>2, <1>3, <1>9, <2>1, <2>2 DEF Reporting
<1>10. ASSUME NEW k \in Tasks, NEW p \in Stages, NEW w, Moving(k, p, w) PROVE Goal
  BY <1>2, <1>3, <1>10 DEF Moving, Quiet, Live
<1>11. ASSUME NEW k \in Tasks, NEW p \in Stages, Ending(k, p) PROVE Goal
  BY <1>2, <1>3, <1>11 DEF Ending, Live
<1>12. ASSUME NEW s \in Slots, NEW k \in Tasks, Spawning(s, k) PROVE Goal
  <2>1. stage[k] = "none"
    BY <1>1, <1>12, SubmitFacts DEF Spawning, Fresh, IsJob
  <2> QED
    BY <1>2, <1>3, <1>12, <2>1 DEF Spawning
<1>12a. ASSUME NEW s \in Slots, Departed(s) PROVE Goal
  BY <1>2, <1>3, <1>12a DEF Departed
<1> HIDE DEF Goal
<1>13. CASE Flushing \/ Delivering \/ Reading \/ Missing
  BY <1>4, <1>13 DEF Flushing, Delivering, Reading, Missing
<1>14. ASSUME NEW s \in Slots,
              \/ Asking(s) \/ Replying(s) \/ Opening(s) \/ Refusing(s)
              \/ Draining(s) \/ Leaving(s)
       PROVE  Goal
  BY <1>4, <1>14 DEF Asking, Replying, Opening, Refusing, Draining, Leaving
<1>15. ASSUME NEW s \in Slots, NEW g \in Gens, Cutting(s, g) PROVE Goal
  BY <1>4, <1>15 DEF Cutting
<1>16. ASSUME NEW s \in Slots, NEW n \in Nat, NEW g \in Gens, Acked(s, n, g) PROVE Goal
  BY <1>4, <1>16 DEF Acked
<1> QED
  BY <1>5, <1>6, <1>7, <1>8, <1>9, <1>10, <1>11, <1>12, <1>12a, <1>13, <1>14, <1>15, <1>16
     DEF Step

-----------------------------------------------------------------------------
(* Homed stays. *)

LEMMA HomedStep ==
  ASSUME Inductive, Step
  PROVE  Homed'
<1>1. TypeOK /\ Homed /\ Turns /\ Fresh /\ Numbered
  BY DEF Inductive
<1>2. /\ stage \in [Tasks -> Stages] /\ gens \in [Slots -> Gens] /\ at \in [Tasks -> Slots]
      /\ chunk \in Seq(Frames) /\ acks \in Seq(Acks) /\ parked \in [Slots -> Gens \X Gens]
      /\ slots \in [Slots -> [conn : {"free", "out", "stream"}, gen : Gens]]
      /\ handler \in Registries /\ \A k \in Tasks : k # 0
      /\ \A k \in Tasks : k \in Gens
  BY <1>1, Typed, TaskIsGen
<1>3. /\ \A i \in DOMAIN chunk : chunk[i].gen # 0 /\ at[chunk[i].gen] = chunk[i].slot
      /\ \A i \in DOMAIN acks : acks[i].gen # 0
      /\ \A s \in Slots : handler.gen[s] # 0 => at[handler.gen[s]] = s
      /\ \A s \in Slots : gens[s] # 0 => at[gens[s]] = s
      /\ \A s \in Slots : parked[s][1] # 0 => at[parked[s][1]] = s
      /\ \A s \in Slots : slots[s].conn = "stream" => slots[s].gen # 0 /\ at[slots[s].gen] = s
  BY <1>1 DEF Homed
<1> DEFINE Chunk == \A i \in DOMAIN chunk' : chunk'[i].gen # 0 /\ at[chunk'[i].gen] = chunk'[i].slot
           Handler == \A s \in Slots : handler'.gen[s] # 0 => at[handler'.gen[s]] = s
           Parked == \A s \in Slots : parked'[s][1] # 0 => at[parked'[s][1]] = s
           Conns == \A s \in Slots :
                      slots'[s].conn = "stream" => slots'[s].gen # 0 /\ at[slots'[s].gen] = s
           AcksHomed == \A i \in DOMAIN acks' : acks'[i].gen # 0
           Gensh == \A s \in Slots : gens'[s] # 0 => at[gens'[s]] = s
<1>4. ASSUME at' = at, Chunk, AcksHomed, Handler, Gensh, Parked, Conns PROVE Homed'
  BY <1>4 DEF Homed
<1>5. /\ chunk' = chunk => Chunk
      /\ chunk' = <<>> => Chunk
      /\ acks' = acks => AcksHomed
      /\ handler' = handler => Handler
      /\ gens' = gens => Gensh
      /\ parked' = parked => Parked
      /\ slots' = slots => Conns
  BY <1>3
<1>6. ASSUME NEW d \in Frames, chunk' = Append(chunk, d), d.gen # 0, at[d.gen] = d.slot
      PROVE  Chunk
  <2>1. /\ \A i \in DOMAIN chunk : chunk'[i] = chunk[i]
        /\ \A i \in DOMAIN chunk' : i \in DOMAIN chunk \/ chunk'[i] = d
    BY <1>2, <1>6, Appended
  <2> QED
    BY <1>3, <1>6, <2>1
<1>7. ASSUME NEW k \in Tasks, NEW g, parked' = [parked EXCEPT ![at[k]] = <<k, g>>] PROVE Parked
  BY <1>2, <1>3, <1>7
<1>8. ASSUME NEW s \in Slots, Completed(s) PROVE Parked
  BY <1>2, <1>3, <1>8 DEF Completed
<1>9. ASSUME NEW s \in Slots, slots' = [slots EXCEPT ![s].conn = "free"] PROVE Conns
  BY <1>2, <1>3, <1>9
<1>10. ASSUME NEW s \in Slots, NEW c, NEW g,
              slots' = [slots EXCEPT ![s] = [conn |-> c, gen |-> g]],
              c = "stream" => g # 0 /\ at[g] = s
       PROVE  Conns
  BY <1>2, <1>3, <1>10
<1>11. \A s \in Slots : Delivered.gen[s] # 0 => at[Delivered.gen[s]] = s
  <2> SUFFICES ASSUME NEW s \in Slots, Delivered.gen[s] # 0 PROVE at[Delivered.gen[s]] = s
    OBVIOUS
  <2> QED
    BY <1>3, DeliveredGen, OneServed
<1>12. ASSUME NEW h, NEW s \in Slots, Without(h, s),
              \A z \in Slots : h.gen[z] # 0 => at[h.gen[z]] = z
       PROVE  Handler
  BY <1>12 DEF Without
<1>13. ASSUME NEW k \in Tasks, stage[k] \in Live, k \notin gone
       PROVE  gens[at[k]] = k /\ at[k] \in Slots
  BY <1>13, Alive
<1> HIDE DEF Chunk, AcksHomed, Handler, Gensh, Parked, Conns
<1>14. CASE Flushing \/ Reading \/ Missing
  BY <1>4, <1>5, <1>14 DEF Flushing, Reading, Missing
<1>15. CASE Delivering
  <2>1. Handler
    BY <1>11, <1>15 DEF Delivering, Handler
  <2> QED
    BY <1>4, <1>5, <1>15, <2>1 DEF Delivering
<1>16. ASSUME NEW k \in Tasks, Answering(k) PROVE Homed'
  BY <1>4, <1>5, <1>7, <1>16 DEF Answering
<1>17. ASSUME NEW k \in Tasks, Starting(k) PROVE Homed'
  <2> DEFINE f == Frame("b", at[k], k, <<>>)
  <2>1. f \in Frames /\ f.gen = k /\ f.slot = at[k]
    BY <1>2, FrameTypes DEF Frame
  <2>2. chunk' = Append(chunk, f)
    BY <1>17 DEF Starting
  <2> HIDE DEF f
  <2>3. Chunk
    BY <1>2, <1>6, <2>1, <2>2
  <2>4. Gensh
    BY <1>2, <1>3, <1>17 DEF Starting, Gensh
  <2>5. Parked
    BY <1>7, <1>17 DEF Starting
  <2> QED
    BY <1>4, <1>5, <1>17, <2>3, <2>4, <2>5 DEF Starting
<1>18. ASSUME NEW k \in Tasks, Sending(k) PROVE Homed'
  <2> DEFINE f == Frame("s", at[k], gens[at[k]], Piece(k, made[k] + 1))
  <2>1. f \in Frames /\ f.gen = k /\ f.slot = at[k]
    <3>1. made \in [Tasks -> Nat]
      BY <1>1, Typed
    <3>2. Piece(k, made[k] + 1) \in Tasks \X Nat
      BY <3>1 DEF Piece
    <3>3. gens[at[k]] = k /\ at[k] \in Slots
      BY <1>13, <1>18 DEF Sending
    <3> QED
      BY <1>2, <3>2, <3>3, FrameTypes DEF Frame
  <2>2. chunk' = Append(chunk, f)
    BY <1>18 DEF Sending
  <2> HIDE DEF f
  <2>3. Chunk
    BY <1>2, <1>6, <2>1, <2>2
  <2> QED
    BY <1>4, <1>5, <1>18, <2>3 DEF Sending
<1>19. ASSUME NEW k \in Tasks, NEW p \in Stages, Ending(k, p) PROVE Homed'
  <2> DEFINE f == Frame("e", at[k], gens[at[k]], <<>>)
  <2>1. f \in Frames /\ f.gen = k /\ f.slot = at[k]
    <3>1. gens[at[k]] = k /\ at[k] \in Slots
      BY <1>13, <1>19 DEF Ending
    <3> QED
      BY <1>2, <3>1, FrameTypes DEF Frame
  <2>2. chunk' = Append(chunk, f)
    BY <1>19 DEF Ending
  <2> HIDE DEF f
  <2>3. Chunk
    BY <1>2, <1>6, <2>1, <2>2
  <2> QED
    BY <1>4, <1>5, <1>19, <2>3 DEF Ending
<1>20. ASSUME NEW k \in Tasks, Failing(k) PROVE Homed'
  BY <1>4, <1>5, <1>20 DEF Failing
<1>21. ASSUME NEW k \in Tasks, Reporting(k) PROVE Homed'
  BY <1>4, <1>5, <1>7, <1>21 DEF Reporting
<1>22. ASSUME NEW k \in Tasks, NEW p \in Stages, NEW w, Moving(k, p, w) PROVE Homed'
  BY <1>4, <1>5, <1>22 DEF Moving
<1>23. ASSUME NEW s \in Slots, Departed(s) PROVE Homed'
  BY <1>4, <1>5, <1>23 DEF Departed
<1>24. ASSUME NEW s \in Slots, NEW k \in Tasks, Spawning(s, k) PROVE Homed'
  <2>1. stage[k] = "none"
    BY <1>1, <1>24, SubmitFacts DEF Spawning, Fresh, IsJob
  <2>2. NoTrace(k)
    BY <1>1, <2>1 DEF Numbered
  <2>3. \A g : g # k => at'[g] = at[g]
    BY <1>2, <1>24 DEF Spawning
  <2>4. UNCHANGED <<chunk, acks, handler, gens, parked, slots>>
    BY <1>24 DEF Spawning
  <2>5. \A i \in DOMAIN chunk : at'[chunk[i].gen] = at[chunk[i].gen]
    BY <2>2, <2>3 DEF NoTrace
  <2>6. \A z \in Slots :
          /\ at'[handler.gen[z]] = at[handler.gen[z]] /\ at'[gens[z]] = at[gens[z]]
          /\ at'[parked[z][1]] = at[parked[z][1]] /\ at'[slots[z].gen] = at[slots[z].gen]
    BY <2>2, <2>3 DEF NoTrace
  <2> QED
    BY <1>3, <2>4, <2>5, <2>6 DEF Homed
<1>25. ASSUME NEW s \in Slots, Asking(s) PROVE Homed'
  <2>1. Conns
    BY <1>10, <1>25 DEF Asking
  <2> QED
    BY <1>4, <1>5, <1>25, <2>1 DEF Asking
<1>26. ASSUME NEW s \in Slots, Replying(s) PROVE Homed'
  BY <1>4, <1>5, <1>8, <1>9, <1>26 DEF Replying
<1>27. ASSUME NEW s \in Slots, Opening(s) PROVE Homed'
  <2>1. parked[s][2] # 0 /\ at[parked[s][2]] = s
    <3>1. parked[s][2] \in {0, parked[s][1]} /\ parked[s][2] # 0
      BY <1>1, <1>27 DEF Turns, Opening
    <3> QED
      BY <1>3, <3>1
  <2>2. Conns
    BY <1>10, <1>27, <2>1 DEF Opening
  <2>3. Handler
    BY <1>11, <1>27 DEF Opening, Handler
  <2> QED
    BY <1>4, <1>5, <1>8, <1>27, <2>2, <2>3 DEF Opening
<1>28. ASSUME NEW s \in Slots, Refusing(s) PROVE Homed'
  <2>1. Handler
    BY <1>1, <1>11, <1>12, <1>28, Forgotten
  <2> QED
    BY <1>4, <1>5, <1>8, <1>9, <1>28, <2>1 DEF Refusing
<1>29. ASSUME NEW s \in Slots, Draining(s) PROVE Homed'
  <2>1. slots[s].gen # 0
    BY <1>3, <1>29 DEF Draining
  <2>2. AcksHomed
    <3> DEFINE a == [slot |-> s, n |-> Len(handler.pending[s]), gen |-> slots[s].gen]
    <3>1. a.gen # 0
      BY <2>1
    <3>2. acks' = acks \/ acks' = Append(acks, a)
      BY <1>29 DEF Draining
    <3> HIDE DEF a
    <3>3. ASSUME acks' = Append(acks, a) PROVE AcksHomed
      <4>1. /\ \A i \in DOMAIN acks : acks'[i] = acks[i]
            /\ \A i \in DOMAIN acks' : i \in DOMAIN acks \/ acks'[i] = a
        BY <1>2, <3>3, Appended
      <4> QED
        BY <1>3, <3>1, <4>1 DEF AcksHomed
    <3> QED
      BY <1>5, <3>2, <3>3
  <2>3. Conns
    <3>1. slots' = slots \/ slots' = [slots EXCEPT ![s] = [conn |-> "free", gen |-> 0]]
      BY <1>29 DEF Draining
    <3> QED
      BY <1>5, <1>10, <3>1
  <2>4. Handler
    <3>1. Drained(handler, s).gen = handler.gen
      BY <1>2, RegistryFacts
    <3> QED
      BY <1>3, <1>29, <3>1 DEF Draining, Handler
  <2> QED
    BY <1>4, <1>5, <1>29, <2>2, <2>3, <2>4 DEF Draining
<1>30. ASSUME NEW s \in Slots, Leaving(s) PROVE Homed'
  <2>1. Handler
    BY <1>1, <1>3, <1>12, <1>30, Forgotten
  <2> QED
    BY <1>4, <1>5, <1>9, <1>30, <2>1 DEF Leaving
<1>31. ASSUME NEW s \in Slots, NEW g \in Gens, Cutting(s, g) PROVE Homed'
  <2>1. Handler
    BY <1>1, <1>3, <1>12, <1>31, Forgotten
  <2> QED
    BY <1>4, <1>5, <1>9, <1>31, <2>1 DEF Cutting
<1>32. ASSUME NEW s \in Slots, NEW n \in Nat, NEW g \in Gens, Acked(s, n, g) PROVE Homed'
  <2>1. AcksHomed
    BY <1>2, <1>3, <1>32, Beheaded DEF Acked, AcksHomed
  <2> QED
    BY <1>4, <1>5, <1>32, <2>1 DEF Acked
<1> QED
  BY <1>14, <1>15, <1>16, <1>17, <1>18, <1>19, <1>20, <1>21, <1>22, <1>23, <1>24, <1>25, <1>26,
     <1>27, <1>28, <1>29, <1>30, <1>31, <1>32 DEF Step

-----------------------------------------------------------------------------
(* Turns stays. *)

\* The jobs of the submit channel, after a step that adds none.
LEMMA JobsLeft ==
  ASSUME TypeOK
  PROVE  /\ submit # <<>> /\ submit' = Tail(submit) =>
              \A i \in DOMAIN submit' : i + 1 \in DOMAIN submit /\ submit'[i] = submit[i + 1]
         /\ \A s \in Slots : Telling(s) =>
              \A i \in DOMAIN submit' :
                (i \in DOMAIN submit /\ submit'[i] = submit[i]) \/ submit'[i] = Tag(s)
<1>1. submit \in Seq(Datagrams)
  BY Typed
<1>2. submit # <<>> /\ submit' = Tail(submit) =>
        \A i \in DOMAIN submit' : i + 1 \in DOMAIN submit /\ submit'[i] = submit[i + 1]
  BY <1>1, Beheaded
<1>3. ASSUME NEW s \in Slots, Telling(s)
      PROVE  \A i \in DOMAIN submit' :
               (i \in DOMAIN submit /\ submit'[i] = submit[i]) \/ submit'[i] = Tag(s)
  <2>1. CASE submit' = submit
    BY <2>1
  <2>2. CASE submit' = Append(submit, Tag(s))
    BY <2>2, SubmitMore
  <2> QED
    BY <1>3, <2>1, <2>2 DEF Telling
<1> QED
  BY <1>2, <1>3

\* But for a new request, what is outstanding was, and its slot is as it was.
LEMMA OutStep ==
  ASSUME Inductive, Step,
         NEW k \in Tasks, NEW s \in Slots, Outstanding(k, s)', ~Asking(s)
  PROVE  Outstanding(k, s) /\ slots'[s] = slots[s]
<1>1. TypeOK /\ Fresh /\ Completing
  BY DEF Inductive
<1>2. /\ stage \in [Tasks -> Stages] /\ at \in [Tasks -> Slots] /\ k # 0
      /\ parked \in [Slots -> Gens \X Gens]
      /\ slots \in [Slots -> [conn : {"free", "out", "stream"}, gen : Gens]]
  BY <1>1, Typed, TaskIsGen
<1> DEFINE J == \E i \in DOMAIN submit : IsJob(i) /\ submit[i].slot = s /\ submit[i].req = k
           R == stage[k] \in {"run", "failed"} /\ at[k] = s
           P == parked[s][1] = k
           Goal == Outstanding(k, s) /\ slots'[s] = slots[s]
           Job1 == \E i \in DOMAIN submit' :
                     submit'[i].tag = "job" /\ submit'[i].slot = s /\ submit'[i].req = k
           Run1 == stage'[k] \in {"run", "failed"} /\ at'[k] = s
           Park1 == parked'[s][1] = k
<1> SUFFICES Goal
  OBVIOUS
<1>3. (J \/ R \/ P <=> Outstanding(k, s)) /\ (Job1 \/ Run1 \/ Park1)
  BY DEF Outstanding, IsJob
<1>4. ASSUME Job1 => J \/ R \/ P, Run1 => J \/ R \/ P, Park1 => J \/ R \/ P,
             slots'[s] = slots[s]
      PROVE  Goal
  BY <1>3, <1>4
<1>5. /\ submit' = submit => (Job1 => J)
      /\ submit # <<>> /\ submit' = Tail(submit) => (Job1 => J)
      /\ \A z \in Slots : Telling(z) => (Job1 => J)
  <2>1. submit' = submit => (Job1 => J)
    BY DEF IsJob
  <2>2. submit # <<>> /\ submit' = Tail(submit) => (Job1 => J)
    BY <1>1, JobsLeft DEF IsJob
  <2>3. ASSUME NEW z \in Slots, Telling(z), Job1 PROVE J
    <3>1. \A i \in DOMAIN submit' :
                (i \in DOMAIN submit /\ submit'[i] = submit[i]) \/ submit'[i] = Tag(z)
      BY <1>1, <2>3, JobsLeft
    <3> QED
      BY <2>3, <3>1 DEF IsJob, Tag
  <2> QED
    BY <2>1, <2>2, <2>3
<1>6. /\ UNCHANGED <<stage, at>> => (Run1 => R)
      /\ parked' = parked => (Park1 => P)
  OBVIOUS
<1>7. ASSUME NEW l \in Tasks, NEW p, stage' = [stage EXCEPT ![l] = p], at' = at,
             p \in {"run", "failed"} => stage[l] \in {"run", "failed"}
      PROVE  Run1 => R
  BY <1>2, <1>7
<1>8. ASSUME NEW l \in Tasks, NEW g, stage[l] \in {"run", "failed"},
             parked' = [parked EXCEPT ![at[l]] = <<l, g>>]
      PROVE  Park1 => R \/ P
  BY <1>2, <1>8
\* A response that was parked is answered.
<1>9. ASSUME NEW z \in Slots, Completed(z), UNCHANGED <<stage, at>>, Job1 => J,
             \A y \in Slots \ {z} : slots'[y] = slots[y]
      PROVE  Goal
  <2>1. parked[z][1] # 0
    <3>1. batch \in Seq(Entries)
      BY <1>1, Typed
    <3>2. 1 \in DOMAIN batch
      BY <1>9, <3>1 DEF Completed
    <3> QED
      BY <1>1, <1>9, <3>2 DEF Completed, Completing
  <2>2. CASE s # z
    <3>1. parked'[s] = parked[s]
      BY <1>2, <1>9, <2>2 DEF Completed
    <3> QED
      BY <1>3, <1>9, <2>2, <3>1
  <2>3. CASE s = z
    <3>1. parked'[s] = <<0, 0>>
      BY <1>2, <1>9, <2>3 DEF Completed
    <3>2. ~Park1
      BY <1>2, <3>1
    <3>3. ~J /\ ~R
      BY <2>1, <2>3, Waiting
    <3> QED
      BY <1>3, <1>6, <1>9, <3>2, <3>3
  <2> QED
    BY <2>2, <2>3
\* A stream's slot has none.
<1>10. ASSUME NEW z \in Slots, slots[z].conn = "stream",
              UNCHANGED <<stage, at, parked>>, Job1 => J,
              \A y \in Slots \ {z} : slots'[y] = slots[y]
       PROVE  Goal
  <2>1. J \/ R \/ P
    BY <1>3, <1>6, <1>10
  <2>2. s # z
    BY <1>3, <1>10, <2>1, Streams
  <2> QED
    BY <1>3, <1>10, <2>1, <2>2
<1>11. ASSUME NEW z \in Slots, NEW v,
              slots' = [slots EXCEPT ![z] = v] \/ slots' = [slots EXCEPT ![z].conn = v]
                \/ slots' = slots
       PROVE  \A y \in Slots \ {z} : slots'[y] = slots[y]
  BY <1>2, <1>11
<1> HIDE DEF J, R, P, Goal, Job1, Run1, Park1
<1>12. CASE Flushing \/ Delivering \/ Reading \/ Missing
  BY <1>4, <1>5, <1>6, <1>12 DEF Flushing, Delivering, Reading, Missing
<1>13. ASSUME NEW l \in Tasks, Answering(l) PROVE Goal
  <2>1. /\ stage[l] = "run" /\ stage' = [stage EXCEPT ![l] = "late"]
        /\ parked' = [parked EXCEPT ![at[l]] = <<l, 0>>]
        /\ UNCHANGED <<at, submit, slots>>
    BY <1>13 DEF Answering
  <2>2. Run1 => R
    BY <1>7, <2>1
  <2>3. Park1 => R \/ P
    BY <1>2, <2>1 DEF Park1, R, P
  <2> QED
    BY <1>4, <1>5, <2>1, <2>2, <2>3
<1>14. ASSUME NEW l \in Tasks, Starting(l) PROVE Goal
  <2>1. /\ stage[l] = "run" /\ stage' = [stage EXCEPT ![l] = "stream"]
        /\ parked' = [parked EXCEPT ![at[l]] = <<l, l>>]
        /\ UNCHANGED <<at, submit, slots>>
    BY <1>14 DEF Starting
  <2>2. Run1 => R
    BY <1>7, <2>1
  <2>3. Park1 => R \/ P
    BY <1>2, <2>1 DEF Park1, R, P
  <2> QED
    BY <1>4, <1>5, <2>1, <2>2, <2>3
<1>15. ASSUME NEW l \in Tasks, Sending(l) PROVE Goal
  BY <1>4, <1>5, <1>6, <1>7, <1>15 DEF Sending
<1>16. ASSUME NEW l \in Tasks, NEW p \in Stages, Ending(l, p) PROVE Goal
  BY <1>4, <1>5, <1>6, <1>7, <1>16 DEF Ending
<1>17. ASSUME NEW l \in Tasks, Failing(l) PROVE Goal
  BY <1>4, <1>5, <1>6, <1>7, <1>17 DEF Failing
<1>18. ASSUME NEW l \in Tasks, NEW p \in Stages, NEW w, Moving(l, p, w) PROVE Goal
  <2>1. p \in {"run", "failed"} => stage[l] \in {"run", "failed"}
    BY <1>18 DEF Moving, Quiet, Live
  <2> QED
    BY <1>4, <1>5, <1>6, <1>7, <1>18, <2>1 DEF Moving
<1>19. ASSUME NEW l \in Tasks, Reporting(l) PROVE Goal
  <2>1. stage' = [stage EXCEPT ![l] = "reported"] /\ UNCHANGED <<at, submit, slots>>
    BY <1>19 DEF Reporting
  <2>2. Run1 => R
    BY <1>7, <2>1
  <2>3. Park1 => R \/ P
    BY <1>6, <1>8, <1>19 DEF Reporting
  <2> QED
    BY <1>4, <1>5, <2>1, <2>2, <2>3
<1>20. ASSUME NEW z \in Slots, Departed(z) PROVE Goal
  BY <1>4, <1>5, <1>6, <1>20 DEF Departed
<1>21. ASSUME NEW z \in Slots, NEW l \in Tasks, Spawning(z, l) PROVE Goal
  <2>1. Run1 => J \/ R
    <3>1. CASE l # k
      BY <1>2, <1>21, <3>1 DEF Spawning, Run1, R
    <3>2. CASE l = k
      <4>1. at'[k] = z
        BY <1>2, <1>21, <3>2 DEF Spawning
      <4>2. 1 \in DOMAIN submit /\ IsJob(1) /\ submit[1].slot = z /\ submit[1].req = k
        BY <1>1, <1>21, <3>2, SubmitFacts DEF Spawning, IsJob
      <4> QED
        BY <4>1, <4>2 DEF Run1, J
    <3> QED
      BY <3>1, <3>2
  <2> QED
    BY <1>4, <1>5, <1>6, <1>21, <2>1 DEF Spawning
<1>22. ASSUME NEW z \in Slots, Asking(z) PROVE Goal
  <2>1. z # s /\ slots' = [slots EXCEPT ![z] = [conn |-> "out", gen |-> 0]]
        /\ submit' = Append(submit, Job(z, asked + 1)) /\ UNCHANGED <<stage, at, parked>>
    BY <1>22 DEF Asking
  <2>2. slots'[s] = slots[s]
    BY <1>11, <2>1
  <2>3. Job1 => J
    BY <1>1, <2>1, SubmitMore DEF Job1, J, Job, IsJob
  <2> QED
    BY <1>4, <1>6, <2>1, <2>2, <2>3
<1>23. ASSUME NEW z \in Slots, Replying(z) \/ Opening(z) \/ Refusing(z) PROVE Goal
  <2>1. Completed(z) /\ UNCHANGED <<stage, at>>
    BY <1>23 DEF Replying, Opening, Refusing
  <2>2. Job1 => J
    BY <1>5, <1>23 DEF Replying, Opening, Refusing
  <2>3. \A y \in Slots \ {z} : slots'[y] = slots[y]
    <3>1. CASE Replying(z)
      BY <1>11, <3>1 DEF Replying
    <3>2. CASE Opening(z)
      BY <1>11, <3>2 DEF Opening
    <3>3. CASE Refusing(z)
      BY <1>11, <3>3 DEF Refusing
    <3> QED
      BY <1>23, <3>1, <3>2, <3>3
  <2> QED
    BY <1>9, <2>1, <2>2, <2>3
<1>24. ASSUME NEW z \in Slots, Draining(z) PROVE Goal
  <2>1. slots[z].conn = "stream" /\ UNCHANGED <<stage, at, parked, submit>>
    BY <1>24 DEF Draining
  <2>2. \A y \in Slots \ {z} : slots'[y] = slots[y]
    <3>1. slots' = slots \/ slots' = [slots EXCEPT ![z] = [conn |-> "free", gen |-> 0]]
      BY <1>24 DEF Draining
    <3> QED
      BY <1>11, <3>1
  <2> QED
    BY <1>5, <1>10, <2>1, <2>2
<1>25. ASSUME NEW z \in Slots, Leaving(z) PROVE Goal
  <2>1. slots[z].conn = "stream" /\ UNCHANGED <<stage, at, parked>> /\ Telling(z)
    BY <1>25 DEF Leaving
  <2>2. \A y \in Slots \ {z} : slots'[y] = slots[y]
    BY <1>11, <1>25 DEF Leaving
  <2> QED
    BY <1>5, <1>10, <2>1, <2>2
<1>26. ASSUME NEW z \in Slots, NEW g \in Gens, Cutting(z, g) PROVE Goal
  <2>1. slots[z].conn = "stream" /\ UNCHANGED <<stage, at, parked>> /\ Telling(z)
    BY <1>26 DEF Cutting
  <2>2. \A y \in Slots \ {z} : slots'[y] = slots[y]
    BY <1>11, <1>26 DEF Cutting
  <2> QED
    BY <1>5, <1>10, <2>1, <2>2
<1>27. ASSUME NEW z \in Slots, NEW n \in Nat, NEW g \in Gens, Acked(z, n, g) PROVE Goal
  BY <1>4, <1>5, <1>6, <1>27 DEF Acked
<1> QED
  BY <1>12, <1>13, <1>14, <1>15, <1>16, <1>17, <1>18, <1>19, <1>20, <1>21, <1>22, <1>23, <1>24,
     <1>25, <1>26, <1>27 DEF Step

LEMMA TurnsStep ==
  ASSUME Inductive, Step
  PROVE  Turns'
<1>1. TypeOK /\ Turns /\ Fresh /\ Numbered /\ Completing
  BY DEF Inductive
<1>2. /\ \A k \in Tasks, s \in Slots :
           Outstanding(k, s) => slots[s] = [conn |-> "out", gen |-> 0]
      /\ \A k, l \in Tasks, s \in Slots : Outstanding(k, s) /\ Outstanding(l, s) => k = l
      /\ \A s \in Slots : parked[s][2] \in {0, parked[s][1]}
      /\ \A s \in Slots : parked[s][1] # 0 /\ parked[s][2] = 0 =>
           end[parked[s][1]] = "whole" /\ made[parked[s][1]] = 0
  BY <1>1 DEF Turns
<1>3. /\ slots \in [Slots -> [conn : {"free", "out", "stream"}, gen : Gens]]
      /\ stage \in [Tasks -> Stages] /\ at \in [Tasks -> Slots]
      /\ parked \in [Slots -> Gens \X Gens] /\ end \in [Tasks -> {"open", "whole", "cut"}]
      /\ \A k \in Tasks : k # 0
  BY <1>1, Typed, TaskIsGen
\* A new request is its slot's only one.
<1>4. ASSUME NEW s \in Slots, Asking(s), NEW k \in Tasks, Outstanding(k, s)'
      PROVE  k = asked + 1
  <2>1. ~Outstanding(k, s)
    <3>1. slots[s].conn # "out"
      BY <1>4 DEF Asking
    <3> QED
      BY <3>1, Out
  <2>2. UNCHANGED <<stage, at, parked>> /\ submit' = Append(submit, Job(s, asked + 1))
    BY <1>4 DEF Asking
  <2>3. /\ \A i \in DOMAIN submit : submit'[i] = submit[i]
        /\ \A i \in DOMAIN submit' : i \in DOMAIN submit \/ submit'[i] = Job(s, asked + 1)
    BY <1>1, <2>2, SubmitMore
  <2>4. PICK i \in DOMAIN submit' :
          submit'[i].tag = "job" /\ submit'[i].slot = s /\ submit'[i].req = k
    BY <1>4, <2>1, <2>2 DEF Outstanding, IsJob
  <2>5. i \notin DOMAIN submit
    BY <2>1, <2>3, <2>4 DEF Outstanding, IsJob
  <2> QED
    BY <2>3, <2>4, <2>5 DEF Job
<1>5. ASSUME NEW k \in Tasks, NEW s \in Slots, Outstanding(k, s)'
      PROVE  slots'[s] = [conn |-> "out", gen |-> 0]
  <2>1. CASE Asking(s)
    BY <1>3, <2>1 DEF Asking
  <2>2. CASE ~Asking(s)
    BY <1>2, <1>5, <2>2, OutStep
  <2> QED
    BY <2>1, <2>2
<1>6. ASSUME NEW k \in Tasks, NEW l \in Tasks, NEW s \in Slots,
             Outstanding(k, s)', Outstanding(l, s)'
      PROVE  k = l
  <2>1. CASE Asking(s)
    BY <1>4, <1>6, <2>1
  <2>2. CASE ~Asking(s)
    BY <1>2, <1>6, <2>2, OutStep
  <2> QED
    BY <2>1, <2>2
\* What is parked.
<1> DEFINE Parked == \A s \in Slots :
                       /\ parked'[s][2] \in {0, parked'[s][1]}
                       /\ parked'[s][1] # 0 /\ parked'[s][2] = 0 =>
                            end'[parked'[s][1]] = "whole" /\ made'[parked'[s][1]] = 0
<1> SUFFICES Parked
  BY <1>5, <1>6 DEF Turns
<1>7. \A s \in Slots : parked[s][1] # 0 /\ parked[s][2] = 0 =>
        end'[parked[s][1]] = "whole" /\ made'[parked[s][1]] = 0
  <2> SUFFICES ASSUME NEW s \in Slots, parked[s][1] # 0, parked[s][2] = 0
               PROVE  end'[parked[s][1]] = "whole" /\ made'[parked[s][1]] = 0
    OBVIOUS
  <2>1. parked[s][1] \in Tasks
    BY <1>1, Shapes
  <2>2. end[parked[s][1]] = "whole" /\ made[parked[s][1]] = 0
    BY <1>2
  <2> QED
    BY <2>1, <2>2, EndStands
<1>8. ASSUME parked' = parked PROVE Parked
  BY <1>2, <1>7, <1>8
<1>9. ASSUME NEW s \in Slots, Completed(s) PROVE Parked
  <2>1. parked'[s] = <<0, 0>> /\ \A z \in Slots \ {s} : parked'[z] = parked[z]
    BY <1>3, <1>9 DEF Completed
  <2>2. \A z \in Slots : z = s \/ z \in Slots \ {s}
    OBVIOUS
  <2> QED
    BY <1>2, <1>7, <2>1, <2>2
<1>10. ASSUME NEW k \in Tasks, NEW g \in {0, k}, parked' = [parked EXCEPT ![at[k]] = <<k, g>>],
              g = 0 => end'[k] = "whole" /\ made'[k] = 0
       PROVE  Parked
  <2>1. parked'[at[k]] = <<k, g>> /\ \A z \in Slots \ {at[k]} : parked'[z] = parked[z]
    BY <1>3, <1>10
  <2>2. \A z \in Slots : z = at[k] \/ z \in Slots \ {at[k]}
    OBVIOUS
  <2>3. parked'[at[k]][1] = k /\ parked'[at[k]][2] = g
    BY <2>1
  <2> QED
    BY <1>2, <1>3, <1>7, <1>10, <2>1, <2>2, <2>3
<1> HIDE DEF Parked
<1>11. ASSUME NEW k \in Tasks, stage[k] \in {"run", "failed"} PROVE made[k] = 0
  BY <1>11, Blank DEF NoTrace
<1>12. CASE Flushing \/ Delivering \/ Reading \/ Missing
  BY <1>8, <1>12 DEF Flushing, Delivering, Reading, Missing
<1>13. ASSUME NEW k \in Tasks, Answering(k) PROVE Parked
  <2>1. made'[k] = 0 /\ end'[k] = "whole" /\ parked' = [parked EXCEPT ![at[k]] = <<k, 0>>]
    BY <1>3, <1>11, <1>13 DEF Answering
  <2> QED
    BY <1>10, <2>1
<1>14. ASSUME NEW k \in Tasks, Starting(k) PROVE Parked
  <2>1. k # 0 /\ parked' = [parked EXCEPT ![at[k]] = <<k, k>>]
    BY <1>3, <1>14 DEF Starting
  <2> QED
    BY <1>10, <2>1
<1>15. ASSUME NEW k \in Tasks, Reporting(k) PROVE Parked
  <2>1. CASE parked' = parked
    BY <1>8, <2>1
  <2>2. CASE /\ stage[k] = "failed" /\ parked' = [parked EXCEPT ![at[k]] = <<k, 0>>]
             /\ end' = [end EXCEPT ![k] = "whole"]
    <3>1. made'[k] = 0 /\ end'[k] = "whole"
      BY <1>3, <1>11, <1>15, <2>2 DEF Reporting
    <3> QED
      BY <1>10, <2>2, <3>1
  <2> QED
    BY <1>15, <2>1, <2>2 DEF Reporting
<1>16. ASSUME NEW k \in Tasks, Sending(k) \/ Failing(k) PROVE Parked
  BY <1>8, <1>16 DEF Sending, Failing
<1>17. ASSUME NEW k \in Tasks, NEW p \in Stages, NEW w, Moving(k, p, w) PROVE Parked
  BY <1>8, <1>17 DEF Moving
<1>18. ASSUME NEW k \in Tasks, NEW p \in Stages, Ending(k, p) PROVE Parked
  BY <1>8, <1>18 DEF Ending
<1>19. ASSUME NEW s \in Slots, Departed(s) \/ Asking(s) \/ Draining(s) \/ Leaving(s)
       PROVE  Parked
  BY <1>8, <1>19 DEF Departed, Asking, Draining, Leaving
<1>20. ASSUME NEW s \in Slots, Replying(s) \/ Opening(s) \/ Refusing(s) PROVE Parked
  BY <1>9, <1>20 DEF Replying, Opening, Refusing
<1>21. ASSUME NEW s \in Slots, NEW k \in Tasks, Spawning(s, k) PROVE Parked
  BY <1>8, <1>21 DEF Spawning
<1>22. ASSUME NEW s \in Slots, NEW g \in Gens, Cutting(s, g) PROVE Parked
  BY <1>8, <1>22 DEF Cutting
<1>23. ASSUME NEW s \in Slots, NEW n \in Nat, NEW g \in Gens, Acked(s, n, g) PROVE Parked
  BY <1>8, <1>23 DEF Acked
<1> QED
  BY <1>12, <1>13, <1>14, <1>15, <1>16, <1>17, <1>18, <1>19, <1>20, <1>21, <1>22, <1>23 DEF Step

-----------------------------------------------------------------------------
(* Completing and Aborting stay. *)

LEMMA CompletingStep ==
  ASSUME Inductive, Step
  PROVE  Completing'
<1>1. TypeOK /\ Completing
  BY DEF Inductive
<1>2. /\ at \in [Tasks -> Slots] /\ comps \in Seq(Entries) /\ batch \in Seq(Entries)
      /\ parked \in [Slots -> Gens \X Gens] /\ pendingDone \in Seq(Slots)
      /\ \A k \in Tasks : k # 0
  BY <1>1, Typed, TaskIsGen
<1>3. /\ \A i \in DOMAIN pendingDone : pendingDone[i] \in Slots /\ parked[pendingDone[i]][1] # 0
      /\ \A i \in DOMAIN comps : comps[i].kind = "done" =>
           comps[i].slot \in Slots /\ parked[comps[i].slot][1] # 0
      /\ \A i \in DOMAIN batch :
           batch[i].kind = "done" /\ batch[i].slot \in Slots /\ parked[batch[i].slot][1] # 0
      /\ \A i, j \in DOMAIN pendingDone : pendingDone[i] = pendingDone[j] => i = j
      /\ \A i, j \in DOMAIN comps :
           comps[i].kind = "done" /\ comps[j].kind = "done" /\ comps[i].slot = comps[j].slot
             => i = j
      /\ \A i, j \in DOMAIN batch : batch[i].slot = batch[j].slot => i = j
      /\ \A i \in DOMAIN pendingDone, j \in DOMAIN comps :
           comps[j].kind = "done" => comps[j].slot # pendingDone[i]
      /\ \A i \in DOMAIN pendingDone, j \in DOMAIN batch : batch[j].slot # pendingDone[i]
      /\ \A i \in DOMAIN comps, j \in DOMAIN batch :
           comps[i].kind = "done" => comps[i].slot # batch[j].slot
  <2>1. \A d \in Entries : d.slot \in Slots
    BY DEF Entries
  <2>2. /\ \A i \in DOMAIN pendingDone : pendingDone[i] \in Slots
        /\ \A i \in DOMAIN comps : comps[i].slot \in Slots
        /\ \A i \in DOMAIN batch : batch[i].slot \in Slots
    BY <1>2, <2>1
  <2> QED
    BY <1>1, <2>2 DEF Completing
<1> DEFINE Goal == Completing'
<1> SUFFICES Goal
  OBVIOUS
\* A flush.
<1>4. ASSUME comps' = Flushed, pendingDone' = <<>>, UNCHANGED <<batch, parked>> PROVE Goal
  <2>1. /\ \A i \in DOMAIN Flushed :
             \/ i \in DOMAIN comps /\ Flushed[i] = comps[i]
             \/ \E j \in DOMAIN pendingDone :
                  i = Len(comps) + j /\ Flushed[i] = Done(pendingDone[j])
    BY <1>1, FlushedParts
  <2>2. \A s : Done(s).kind = "done" /\ Done(s).slot = s
    BY DEF Done
  <2>3. \A i \in DOMAIN Flushed :
           \/ i \in DOMAIN comps /\ Flushed[i] = comps[i]
           \/ \E j \in DOMAIN pendingDone : i = Len(comps) + j /\ Flushed[i].slot = pendingDone[j]
    BY <2>1, <2>2
  <2>4. ASSUME NEW i \in DOMAIN Flushed, Flushed[i].kind = "done"
        PROVE  /\ parked[Flushed[i].slot][1] # 0
               /\ \A j \in DOMAIN batch : Flushed[i].slot # batch[j].slot
    <3>1. CASE i \in DOMAIN comps /\ Flushed[i] = comps[i]
      BY <1>3, <2>4, <3>1
    <3>2. ASSUME NEW j \in DOMAIN pendingDone, Flushed[i].slot = pendingDone[j]
          PROVE  /\ parked[Flushed[i].slot][1] # 0
                 /\ \A x \in DOMAIN batch : Flushed[i].slot # batch[x].slot
      BY <1>3, <3>2
    <3> QED
      BY <2>3, <3>1, <3>2
  <2>5. ASSUME NEW i \in DOMAIN Flushed, NEW x \in DOMAIN Flushed, Flushed[i].kind = "done",
               Flushed[x].kind = "done", Flushed[i].slot = Flushed[x].slot
        PROVE  i = x
    <3>1. CASE i \in DOMAIN comps /\ Flushed[i] = comps[i]
      <4>1. CASE x \in DOMAIN comps /\ Flushed[x] = comps[x]
        BY <1>3, <2>5, <3>1, <4>1
      <4>2. ASSUME NEW j \in DOMAIN pendingDone, Flushed[x].slot = pendingDone[j] PROVE FALSE
        BY <1>3, <2>5, <3>1, <4>2
      <4> QED
        BY <2>3, <4>1, <4>2
    <3>2. ASSUME NEW j \in DOMAIN pendingDone, i = Len(comps) + j, Flushed[i].slot = pendingDone[j]
          PROVE  i = x
      <4>1. CASE x \in DOMAIN comps /\ Flushed[x] = comps[x]
        BY <1>3, <2>5, <3>2, <4>1
      <4>2. ASSUME NEW z \in DOMAIN pendingDone, x = Len(comps) + z,
                   Flushed[x].slot = pendingDone[z]
            PROVE  i = x
        <5>1. j = z
          BY <1>3, <2>5, <3>2, <4>2
        <5> QED
          BY <3>2, <4>2, <5>1
      <4> QED
        BY <2>3, <4>1, <4>2
    <3> QED
      BY <2>3, <3>1, <3>2
  <2>6. DOMAIN pendingDone' = {}
    BY <1>4
  <2> QED
    BY <1>3, <1>4, <2>4, <2>5, <2>6 DEF Completing
\* A response is parked.
<1>5. ASSUME NEW k \in Tasks, stage[k] \in {"run", "failed"}, NEW g,
             parked' = [parked EXCEPT ![at[k]] = <<k, g>>],
             pendingDone' = Append(pendingDone, at[k]), UNCHANGED <<comps, batch>>
      PROVE  Goal
  <2> DEFINE s == at[k]
             n == Len(pendingDone)
  <2>1. /\ s \in Slots
        /\ \A i \in DOMAIN pendingDone : pendingDone[i] # s
        /\ \A i \in DOMAIN comps : comps[i].kind = "done" => comps[i].slot # s
        /\ \A i \in DOMAIN batch : batch[i].slot # s
    BY <1>5, Blank
  <2>2. parked'[s][1] # 0 /\ \A z \in Slots : z # s => parked'[z] = parked[z]
    BY <1>2, <1>5
  <2>3. /\ \A i \in DOMAIN pendingDone : pendingDone'[i] = pendingDone[i]
        /\ \A i \in DOMAIN pendingDone' :
             i \in DOMAIN pendingDone \/ (i = n + 1 /\ pendingDone'[i] = s)
    BY <1>2, <1>5, Appended
  <2> HIDE DEF s, n
  <2>4. \A i \in DOMAIN pendingDone' : parked'[pendingDone'[i]][1] # 0
    BY <1>3, <2>1, <2>2, <2>3
  <2>5. \A i \in DOMAIN comps : comps[i].kind = "done" => parked'[comps[i].slot][1] # 0
    BY <1>3, <2>1, <2>2
  <2>6. \A i \in DOMAIN batch : batch[i].kind = "done" /\ parked'[batch[i].slot][1] # 0
    BY <1>3, <2>1, <2>2
  <2>7. \A i, j \in DOMAIN pendingDone' : pendingDone'[i] = pendingDone'[j] => i = j
    BY <1>3, <2>1, <2>3
  <2>8. /\ \A i \in DOMAIN pendingDone', j \in DOMAIN comps :
             comps[j].kind = "done" => comps[j].slot # pendingDone'[i]
        /\ \A i \in DOMAIN pendingDone', j \in DOMAIN batch : batch[j].slot # pendingDone'[i]
    BY <1>3, <2>1, <2>3
  <2> QED
    BY <1>3, <1>5, <2>4, <2>5, <2>6, <2>7, <2>8 DEF Completing
\* A response is answered.
<1>6. ASSUME NEW s \in Slots, Completed(s), UNCHANGED <<comps, pendingDone>> PROVE Goal
  <2>1. /\ 1 \in DOMAIN batch /\ batch[1].slot = s
        /\ \A i \in DOMAIN batch' : i + 1 \in DOMAIN batch /\ batch'[i] = batch[i + 1] /\ i + 1 # 1
                                    /\ i \in Nat
    BY <1>2, <1>6, Beheaded DEF Completed
  <2>2. \A z \in Slots : z # s => parked'[z] = parked[z]
    BY <1>2, <1>6 DEF Completed
  <2>3. /\ \A i \in DOMAIN pendingDone : pendingDone[i] # s
        /\ \A i \in DOMAIN comps : comps[i].kind = "done" => comps[i].slot # s
        /\ \A i \in DOMAIN batch : batch[i].slot = s => i = 1
    BY <1>3, <2>1
  <2>4. \A i \in DOMAIN pendingDone : parked'[pendingDone[i]][1] # 0
    BY <1>3, <2>2, <2>3
  <2>5. \A i \in DOMAIN comps : comps[i].kind = "done" => parked'[comps[i].slot][1] # 0
    BY <1>3, <2>2, <2>3
  <2>6. \A i \in DOMAIN batch' : batch'[i].kind = "done" /\ parked'[batch'[i].slot][1] # 0
    BY <1>3, <2>1, <2>2, <2>3
  <2>7. \A i, j \in DOMAIN batch' : batch'[i].slot = batch'[j].slot => i = j
    <3> SUFFICES ASSUME NEW i \in DOMAIN batch', NEW j \in DOMAIN batch',
                        batch'[i].slot = batch'[j].slot
                 PROVE  i = j
      OBVIOUS
    <3>1. i + 1 = j + 1
      BY <1>3, <2>1
    <3> QED
      BY <2>1, <3>1
  <2>8. /\ \A i \in DOMAIN pendingDone, j \in DOMAIN batch' : batch'[j].slot # pendingDone[i]
        /\ \A i \in DOMAIN comps, j \in DOMAIN batch' :
             comps[i].kind = "done" => comps[i].slot # batch'[j].slot
    BY <1>3, <2>1
  <2> QED
    BY <1>3, <1>6, <2>4, <2>5, <2>6, <2>7, <2>8 DEF Completing
<1>7. ASSUME UNCHANGED <<pendingDone, comps, batch, parked>> PROVE Goal
  BY <1>3, <1>7 DEF Completing
<1>8. CASE Reading
  <2>1. /\ \A i \in DOMAIN Read("done") :
             \E j \in DOMAIN comps : comps[j].kind = "done" /\ Read("done")[i] = comps[j]
        /\ \A i, j \in DOMAIN Read("done") : Read("done")[i].slot = Read("done")[j].slot => i = j
    BY <1>1, <1>3, ReadFacts
  <2>2. batch' = Read("done") /\ comps' = <<>> /\ UNCHANGED <<pendingDone, parked>>
    BY <1>8 DEF Reading
  <2>3. DOMAIN comps' = {}
    BY <2>2
  <2>4. \A i \in DOMAIN batch' :
          /\ batch'[i].kind = "done" /\ parked'[batch'[i].slot][1] # 0
          /\ \A j \in DOMAIN pendingDone : batch'[i].slot # pendingDone[j]
    BY <1>3, <2>1, <2>2
  <2> QED
    BY <1>3, <2>1, <2>2, <2>3, <2>4 DEF Completing
<1>9. ASSUME NEW k \in Tasks, Failing(k) PROVE Goal
  <2> DEFINE d == AbortOf(at[k], gens[at[k]])
  <2>1. d.kind = "abort"
    BY DEF AbortOf
  <2>2. comps' = Append(comps, d) /\ UNCHANGED <<pendingDone, batch, parked>>
    BY <1>9 DEF Failing
  <2> HIDE DEF d
  <2>3. /\ \A i \in DOMAIN comps : comps'[i] = comps[i]
        /\ \A i \in DOMAIN comps' : i \in DOMAIN comps \/ comps'[i] = d
    BY <1>2, <2>2, Appended
  <2>4. \A i \in DOMAIN comps' : comps'[i].kind = "done" => i \in DOMAIN comps
          /\ comps'[i] = comps[i]
    BY <2>1, <2>3
  <2> QED
    BY <1>3, <2>2, <2>4 DEF Completing
<1> HIDE DEF Goal
<1>10. CASE Flushing
  BY <1>4, <1>10 DEF Flushing
<1>11. CASE Delivering \/ Missing
  BY <1>7, <1>11 DEF Delivering, Missing
<1>12. ASSUME NEW k \in Tasks, Answering(k) PROVE Goal
  <2>1. stage[k] \in {"run", "failed"}
    BY <1>12 DEF Answering
  <2> QED
    BY <1>5, <1>12, <2>1 DEF Answering
<1>13. ASSUME NEW k \in Tasks, Starting(k) PROVE Goal
  <2>1. stage[k] \in {"run", "failed"}
    BY <1>13 DEF Starting
  <2> QED
    BY <1>5, <1>13, <2>1 DEF Starting
<1>14. ASSUME NEW k \in Tasks, Reporting(k) PROVE Goal
  <2>1. CASE /\ stage[k] = "failed" /\ parked' = [parked EXCEPT ![at[k]] = <<k, 0>>]
             /\ pendingDone' = Append(pendingDone, at[k])
    <3>1. stage[k] \in {"run", "failed"} /\ UNCHANGED <<comps, batch>>
      BY <1>14, <2>1 DEF Reporting
    <3> QED
      BY <1>5, <2>1, <3>1
  <2>2. CASE UNCHANGED <<parked, pendingDone>>
    BY <1>7, <1>14, <2>2 DEF Reporting
  <2> QED
    BY <1>14, <2>1, <2>2 DEF Reporting
<1>15. ASSUME NEW k \in Tasks, Sending(k) PROVE Goal
  BY <1>4, <1>15 DEF Sending
<1>16. ASSUME NEW k \in Tasks, NEW p \in Stages, Ending(k, p) PROVE Goal
  BY <1>4, <1>16 DEF Ending
<1>17. ASSUME NEW k \in Tasks, NEW p \in Stages, NEW w, Moving(k, p, w) PROVE Goal
  BY <1>7, <1>17 DEF Moving
<1>18. ASSUME NEW s \in Slots, Departed(s) \/ Asking(s) \/ Draining(s) \/ Leaving(s)
       PROVE  Goal
  BY <1>7, <1>18 DEF Departed, Asking, Draining, Leaving
<1>19. ASSUME NEW s \in Slots, Replying(s) \/ Opening(s) \/ Refusing(s) PROVE Goal
  BY <1>6, <1>19 DEF Replying, Opening, Refusing
<1>20. ASSUME NEW s \in Slots, NEW k \in Tasks, Spawning(s, k) PROVE Goal
  BY <1>7, <1>20 DEF Spawning
<1>21. ASSUME NEW s \in Slots, NEW g \in Gens, Cutting(s, g) PROVE Goal
  BY <1>7, <1>21 DEF Cutting
<1>22. ASSUME NEW s \in Slots, NEW n \in Nat, NEW g \in Gens, Acked(s, n, g) PROVE Goal
  BY <1>7, <1>22 DEF Acked
<1> QED
  BY <1>8, <1>9, <1>10, <1>11, <1>12, <1>13, <1>14, <1>15, <1>16, <1>17, <1>18, <1>19, <1>20,
     <1>21, <1>22 DEF Step

LEMMA AbortingStep ==
  ASSUME Inductive, Step
  PROVE  Aborting'
<1>1. TypeOK /\ Aborting
  BY DEF Inductive
<1>2. /\ comps \in Seq(Entries) /\ aborts \in Seq(Entries) /\ \A k \in Tasks : k # 0
      /\ end \in [Tasks -> {"open", "whole", "cut"}]
  BY <1>1, Typed, TaskIsGen
<1>3. /\ \A i \in DOMAIN comps : comps[i].kind = "abort" =>
           comps[i].gen # 0 /\ end'[comps[i].gen] = "cut"
      /\ \A i \in DOMAIN aborts : aborts[i].gen # 0 /\ end'[aborts[i].gen] = "cut"
  <2>1. \A g \in Gens : g # 0 /\ end[g] = "cut" => end'[g] = "cut"
    BY <1>1, Shapes, EndStands
  <2>2. \A d \in Entries : d.gen \in Gens
    BY DEF Entries
  <2>3. /\ \A i \in DOMAIN comps : comps[i] \in Entries
        /\ \A i \in DOMAIN aborts : aborts[i] \in Entries
    BY <1>2
  <2> QED
    BY <1>1, <2>1, <2>2, <2>3 DEF Aborting
<1> DEFINE Comps == \A i \in DOMAIN comps' : comps'[i].kind = "abort" =>
                      comps'[i].gen # 0 /\ end'[comps'[i].gen] = "cut"
           Aborts == \A i \in DOMAIN aborts' : aborts'[i].gen # 0 /\ end'[aborts'[i].gen] = "cut"
<1> SUFFICES Comps /\ Aborts
  BY DEF Aborting
<1>4. /\ comps' = comps => Comps
      /\ comps' = Flushed => Comps
      /\ aborts' = aborts => Aborts
      /\ aborts # <<>> /\ aborts' = Tail(aborts) => Aborts
  <2>1. \A s : Done(s).kind = "done"
    BY DEF Done
  <2>2. comps' = Flushed => Comps
    BY <1>1, <1>3, <2>1, FlushedParts
  <2>3. aborts # <<>> /\ aborts' = Tail(aborts) => Aborts
    BY <1>2, <1>3, Beheaded
  <2> QED
    BY <1>3, <2>2, <2>3
<1>5. CASE Reading
  <2>1. Comps
    BY <1>5 DEF Reading
  <2>2. Aborts
    BY <1>1, <1>3, <1>5, ReadFacts DEF Reading
  <2> QED
    BY <2>1, <2>2
<1>6. ASSUME NEW k \in Tasks, Failing(k) PROVE Comps
  <2> DEFINE d == AbortOf(at[k], gens[at[k]])
  <2>1. d.gen # 0 /\ end'[d.gen] = "cut"
    <3>1. gens[at[k]] = k
      BY <1>6, Alive DEF Failing
    <3> QED
      BY <1>2, <1>6, <3>1 DEF Failing, AbortOf
  <2>2. comps' = Append(comps, d)
    BY <1>6 DEF Failing
  <2> HIDE DEF d
  <2>3. /\ \A i \in DOMAIN comps : comps'[i] = comps[i]
        /\ \A i \in DOMAIN comps' : i \in DOMAIN comps \/ comps'[i] = d
    BY <1>2, <2>2, Appended
  <2> QED
    BY <1>3, <2>1, <2>3
<1> HIDE DEF Comps, Aborts
<1>7. CASE Flushing \/ Delivering \/ Missing
  BY <1>4, <1>7 DEF Flushing, Delivering, Missing
<1>8. ASSUME NEW k \in Tasks,
             Answering(k) \/ Starting(k) \/ Sending(k) \/ Reporting(k) \/ Failing(k)
      PROVE  Comps /\ Aborts
  BY <1>4, <1>6, <1>8 DEF Answering, Starting, Sending, Reporting, Failing
<1>9. ASSUME NEW k \in Tasks, NEW p \in Stages, NEW w, Moving(k, p, w) PROVE Comps /\ Aborts
  BY <1>4, <1>9 DEF Moving
<1>10. ASSUME NEW k \in Tasks, NEW p \in Stages, Ending(k, p) PROVE Comps /\ Aborts
  BY <1>4, <1>10 DEF Ending
<1>11. ASSUME NEW s \in Slots,
              \/ Departed(s) \/ Asking(s) \/ Replying(s) \/ Opening(s) \/ Refusing(s)
              \/ Draining(s) \/ Leaving(s)
       PROVE  Comps /\ Aborts
  BY <1>4, <1>11 DEF Departed, Asking, Replying, Opening, Refusing, Draining, Leaving
<1>12. ASSUME NEW s \in Slots, NEW k \in Tasks, Spawning(s, k) PROVE Comps /\ Aborts
  BY <1>4, <1>12 DEF Spawning
<1>13. ASSUME NEW s \in Slots, NEW g \in Gens, Cutting(s, g) PROVE Comps /\ Aborts
  BY <1>4, <1>13 DEF Cutting
<1>14. ASSUME NEW s \in Slots, NEW n \in Nat, NEW g \in Gens, Acked(s, n, g)
       PROVE  Comps /\ Aborts
  BY <1>4, <1>14 DEF Acked
<1> QED
  BY <1>5, <1>7, <1>8, <1>9, <1>10, <1>11, <1>12, <1>13, <1>14 DEF Step

-----------------------------------------------------------------------------
(* Who is served, and who owns. *)

\* A tag stands until it is read.
LEMMA DepartingStays ==
  ASSUME TypeOK, NEW s \in Slots
  PROVE  /\ \A d : submit' = Append(submit, d) /\ Departing(s) => Departing(s)'
         /\ submit # <<>> /\ submit' = Tail(submit) /\ Departing(s) =>
              /\ ~(IsJob(1) /\ submit[1].slot = s)
              /\ submit[1] # Tag(s) => Departing(s)'
         /\ submit' = Append(submit, Tag(s))
              /\ (\A i \in DOMAIN submit : IsJob(i) => submit[i].slot # s)
              => Departing(s)'
<1>1. submit \in Seq(Datagrams) /\ DOMAIN submit = 1 .. Len(submit) /\ Len(submit) \in Nat
  BY SubmitFacts
<1>2. ASSUME NEW d, submit' = Append(submit, d), Departing(s) PROVE Departing(s)'
  <2>1. PICK j \in DOMAIN submit :
          submit[j] = Tag(s) /\ \A i \in 1 .. j : IsJob(i) => submit[i].slot # s
    BY <1>2 DEF Departing
  <2>2. \A i \in DOMAIN submit : i \in DOMAIN submit' /\ submit'[i] = submit[i]
    BY <1>2, SubmitMore
  <2>3. \A i \in 1 .. j : i \in DOMAIN submit
    BY <1>1
  <2>4. j \in DOMAIN submit' /\ submit'[j] = Tag(s)
    BY <2>1, <2>2
  <2>5. \A i \in 1 .. j : IsJob(i)' => submit'[i].slot # s
    BY <2>1, <2>2, <2>3 DEF IsJob
  <2> QED
    BY <2>4, <2>5 DEF Departing
<1>3. ASSUME submit # <<>>, submit' = Tail(submit), Departing(s)
      PROVE  /\ ~(IsJob(1) /\ submit[1].slot = s)
             /\ submit[1] # Tag(s) => Departing(s)'
  <2>1. PICK j \in DOMAIN submit :
          submit[j] = Tag(s) /\ \A i \in 1 .. j : IsJob(i) => submit[i].slot # s
    BY <1>3 DEF Departing
  <2>2. 1 \in 1 .. j /\ j \in Nat /\ j >= 1
    BY <1>1
  <2>3. ~(IsJob(1) /\ submit[1].slot = s)
    BY <2>1, <2>2
  <2>4. /\ \A i \in DOMAIN submit' : submit'[i] = submit[i + 1]
        /\ \A x \in DOMAIN submit : x # 1 => x - 1 \in DOMAIN submit' /\ submit'[x - 1] = submit[x]
    BY <1>1, <1>3, Beheaded
  <2>5. ASSUME submit[1] # Tag(s) PROVE Departing(s)'
    <3> DEFINE m == j - 1
    <3>1. j # 1
      BY <2>1, <2>5
    <3>2. m \in DOMAIN submit' /\ submit'[m] = Tag(s)
      BY <2>1, <2>4, <3>1
    <3>3. ASSUME NEW i \in 1 .. m, IsJob(i)' PROVE submit'[i].slot # s
      <4>1. i + 1 \in 1 .. j
        BY <2>2
      <4>2. i \in DOMAIN submit'
        <5>1. submit' \in Seq(Datagrams)
          BY <1>1, <1>3, Beheaded
        <5> QED
          BY <2>2, <3>2, <5>1
      <4>3. IsJob(i + 1)
        BY <2>4, <3>3, <4>2 DEF IsJob
      <4> QED
        BY <2>1, <2>4, <4>1, <4>2, <4>3
    <3> HIDE DEF m
    <3> QED
      BY <3>2, <3>3 DEF Departing
  <2> QED
    BY <2>3, <2>5
<1>4. ASSUME submit' = Append(submit, Tag(s)),
             \A i \in DOMAIN submit : IsJob(i) => submit[i].slot # s
      PROVE  Departing(s)'
  <2> DEFINE n == Len(submit) + 1
  <2>1. /\ n \in DOMAIN submit' /\ submit'[n] = Tag(s) /\ DOMAIN submit' = 1 .. n
        /\ \A x \in DOMAIN submit : submit'[x] = submit[x]
        /\ \A x \in DOMAIN submit' : x \in DOMAIN submit \/ x = n
    BY <1>4, SubmitMore
  <2> HIDE DEF n
  <2>2. \A i \in 1 .. n : IsJob(i)' => submit'[i].slot # s
    BY <1>4, <2>1 DEF IsJob, Tag
  <2> QED
    BY <2>1, <2>2 DEF Departing
<1> QED
  BY <1>2, <1>3, <1>4

\* A stream served after a step was served before it, or begins by it.
LEMMA ServingBack ==
  ASSUME Inductive, Step, NEW s \in Slots, NEW k \in Tasks, Serving(s, k)'
  PROVE  \/ Starting(k) /\ at[k] = s
         \/ Opening(s) /\ Serving(s, k)
         \/ /\ Serving(s, k) /\ parked'[s] = parked[s] /\ slots'[s] = slots[s]
            /\ \A l \in Tasks : Starting(l) => at[l] # s
<1>1. TypeOK /\ Completing /\ Turns
  BY DEF Inductive
<1>2. /\ at \in [Tasks -> Slots] /\ parked \in [Slots -> Gens \X Gens] /\ k # 0
      /\ slots \in [Slots -> [conn : {"free", "out", "stream"}, gen : Gens]]
      /\ stage \in [Tasks -> Stages] /\ batch \in Seq(Entries) /\ \A l \in Tasks : l # 0
  BY <1>1, Typed, TaskIsGen
<1>3. parked'[s] = <<k, k>> \/ slots'[s] = [conn |-> "stream", gen |-> k]
  BY DEF Serving
<1> DEFINE Goal == \/ Starting(k) /\ at[k] = s
                   \/ Opening(s) /\ Serving(s, k)
                   \/ /\ Serving(s, k) /\ parked'[s] = parked[s] /\ slots'[s] = slots[s]
                      /\ \A l \in Tasks : Starting(l) => at[l] # s
<1> SUFFICES Goal
  OBVIOUS
<1>4. ASSUME parked'[s] = parked[s], slots'[s] = slots[s] PROVE Goal
  <2>1. Serving(s, k)
    BY <1>3, <1>4 DEF Serving
  <2>2. ASSUME NEW l \in Tasks, Starting(l), at[l] = s PROVE FALSE
    <3>1. stage[l] \in {"run", "failed"} /\ parked'[s] = <<l, l>>
      BY <1>2, <2>2 DEF Starting
    <3> QED
      BY <1>2, <1>4, <2>1, <2>2, <3>1, Blank
  <2> QED
    BY <1>4, <2>1, <2>2
<1>5. ASSUME parked'[s] # <<k, k>>, slots'[s].conn # "stream" PROVE FALSE
  BY <1>3, <1>5
\* A response is parked.
<1>6. ASSUME NEW l \in Tasks, stage[l] \in {"run", "failed"}, NEW g,
             parked' = [parked EXCEPT ![at[l]] = <<l, g>>], slots' = slots, g = l => Starting(l)
      PROVE  Goal
  <2>1. CASE at[l] # s
    BY <1>2, <1>4, <1>6, <2>1
  <2>2. CASE at[l] = s
    <3>1. parked'[s] = <<l, g>> /\ slots'[s].conn # "stream"
      BY <1>2, <1>6, <2>2, Blank
    <3>2. l = k /\ g = l
      BY <1>5, <3>1
    <3> QED
      BY <1>6, <2>2, <3>2
  <2> QED
    BY <2>1, <2>2
\* One slot's connection changes.
<1>7. ASSUME NEW z \in Slots, NEW g, parked' = parked,
             slots' = [slots EXCEPT ![z].conn = "free"]
               \/ slots' = [slots EXCEPT ![z] = [conn |-> "free", gen |-> 0]]
               \/ slots' = [slots EXCEPT ![z] = [conn |-> "out", gen |-> 0]],
             parked[z][1] = 0
      PROVE  Goal
  <2>1. \A y \in Slots : y # z => slots'[y] = slots[y]
    BY <1>2, <1>7
  <2>2. slots'[z].conn # "stream"
    BY <1>2, <1>7
  <2>3. parked[z] # <<k, k>>
    BY <1>2, <1>7
  <2> QED
    BY <1>4, <1>5, <1>7, <2>1, <2>2, <2>3
<1>8. ASSUME NEW z \in Slots, slots[z].conn \in {"free", "stream"} PROVE parked[z][1] = 0
  <2> SUFFICES ASSUME parked[z][1] # 0 PROVE FALSE
    OBVIOUS
  <2> QED
    BY <1>8, Waiting
\* One is answered.
<1>9. ASSUME NEW z \in Slots, Completed(z),
             slots' = [slots EXCEPT ![z].conn = "free"]
      PROVE  Goal
  <2>1. parked'[z] = <<0, 0>> /\ slots'[z].conn # "stream"
        /\ \A y \in Slots : y # z => parked'[y] = parked[y] /\ slots'[y] = slots[y]
    BY <1>2, <1>9 DEF Completed
  <2>2. z # s
    BY <1>2, <1>5, <2>1
  <2> QED
    BY <1>4, <2>1, <2>2
<1> HIDE DEF Goal
<1>10. CASE Flushing \/ Delivering \/ Reading \/ Missing
  BY <1>4, <1>10 DEF Flushing, Delivering, Reading, Missing
<1>11. ASSUME NEW l \in Tasks, Answering(l) PROVE Goal
  <2>1. /\ stage[l] \in {"run", "failed"} /\ parked' = [parked EXCEPT ![at[l]] = <<l, 0>>]
        /\ slots' = slots /\ 0 # l
    BY <1>2, <1>11 DEF Answering
  <2> QED
    BY <1>6, <2>1
<1>12. ASSUME NEW l \in Tasks, Starting(l) PROVE Goal
  <2>1. /\ stage[l] \in {"run", "failed"} /\ parked' = [parked EXCEPT ![at[l]] = <<l, l>>]
        /\ slots' = slots
    BY <1>12 DEF Starting
  <2> QED
    BY <1>6, <1>12, <2>1
<1>13. ASSUME NEW l \in Tasks, Reporting(l) PROVE Goal
  <2>1. CASE stage[l] = "failed" /\ parked' = [parked EXCEPT ![at[l]] = <<l, 0>>]
    <3>1. stage[l] \in {"run", "failed"} /\ slots' = slots /\ 0 # l
      BY <1>2, <1>13, <2>1 DEF Reporting
    <3> QED
      BY <1>6, <2>1, <3>1
  <2>2. CASE parked' = parked
    BY <1>4, <1>13, <2>2 DEF Reporting
  <2> QED
    BY <1>13, <2>1, <2>2 DEF Reporting
<1>14. ASSUME NEW l \in Tasks, Sending(l) \/ Failing(l) PROVE Goal
  BY <1>4, <1>14 DEF Sending, Failing
<1>15. ASSUME NEW l \in Tasks, NEW p \in Stages, Ending(l, p) PROVE Goal
  BY <1>4, <1>15 DEF Ending
<1>16. ASSUME NEW l \in Tasks, NEW p \in Stages, NEW w, Moving(l, p, w) PROVE Goal
  BY <1>4, <1>16 DEF Moving
<1>17. ASSUME NEW z \in Slots, Departed(z) PROVE Goal
  BY <1>4, <1>17 DEF Departed
<1>18. ASSUME NEW z \in Slots, NEW l \in Tasks, Spawning(z, l) PROVE Goal
  BY <1>4, <1>18 DEF Spawning
<1>19. ASSUME NEW z \in Slots, NEW n \in Nat, NEW g \in Gens, Acked(z, n, g) PROVE Goal
  BY <1>4, <1>19 DEF Acked
<1>20. ASSUME NEW z \in Slots, Asking(z) PROVE Goal
  BY <1>7, <1>8, <1>20 DEF Asking
<1>21. ASSUME NEW z \in Slots, Replying(z) PROVE Goal
  BY <1>9, <1>21 DEF Replying
<1>22. ASSUME NEW z \in Slots, Refusing(z) PROVE Goal
  BY <1>9, <1>22 DEF Refusing
<1>23. ASSUME NEW z \in Slots, Opening(z) PROVE Goal
  <2>1. /\ Completed(z) /\ slots' = [slots EXCEPT ![z] = [conn |-> "stream", gen |-> parked[z][2]]]
        /\ parked[z][2] # 0
    BY <1>23 DEF Opening
  <2>2. parked'[z] = <<0, 0>> /\ slots'[z] = [conn |-> "stream", gen |-> parked[z][2]]
        /\ \A y \in Slots : y # z => parked'[y] = parked[y] /\ slots'[y] = slots[y]
    BY <1>2, <2>1 DEF Completed
  <2>3. CASE z = s
    <3>1. parked[s][2] = k
      BY <1>2, <1>3, <2>2, <2>3
    <3>2. parked[s][1] # 0
      BY <1>1, <1>2, <3>1 DEF Turns
    <3>3. Serving(s, k)
      BY <1>2, <3>1, <3>2, Waiting
    <3> QED
      BY <1>23, <2>3, <3>3 DEF Goal
  <2> QED
    BY <1>4, <2>2, <2>3
<1>24. ASSUME NEW z \in Slots, Draining(z) PROVE Goal
  <2>1. CASE slots' = slots
    BY <1>4, <1>24, <2>1 DEF Draining
  <2>2. CASE slots' = [slots EXCEPT ![z] = [conn |-> "free", gen |-> 0]]
    BY <1>7, <1>8, <1>24, <2>2 DEF Draining
  <2> QED
    BY <1>24, <2>1, <2>2 DEF Draining
<1>25. ASSUME NEW z \in Slots, Leaving(z) PROVE Goal
  BY <1>7, <1>8, <1>25 DEF Leaving
<1>26. ASSUME NEW z \in Slots, NEW g \in Gens, Cutting(z, g) PROVE Goal
  <2>1. slots[z].conn = "stream" /\ slots' = [slots EXCEPT ![z].conn = "free"] /\ parked' = parked
    BY <1>26 DEF Cutting
  <2> QED
    BY <1>7, <1>8, <2>1
<1> QED
  BY <1>10, <1>11, <1>12, <1>13, <1>14, <1>15, <1>16, <1>17, <1>18, <1>19, <1>20, <1>21, <1>22,
     <1>23, <1>24, <1>25, <1>26 DEF Step

-----------------------------------------------------------------------------
(* Owning stays. *)

\* Who owns its slot and goes on owns it after a step.
LEMMA OwnerKept ==
  ASSUME Inductive, Step, NEW k \in Tasks,
         stage[k] = "run" \/ (stage[k] \in Live /\ k \notin gone)
  PROVE  owner'[at[k]] = k /\ at'[k] = at[k]
<1>1. TypeOK /\ Owning /\ Fresh
  BY DEF Inductive
<1>2. /\ at \in [Tasks -> Slots] /\ owner \in [Slots -> Tasks \cup {None}]
      /\ stage \in [Tasks -> Stages]
  BY <1>1, Typed
<1>3. at[k] \in Slots /\ owner[at[k]] = k /\ stage[k] \notin {"none", "failed", "over", "reported"}
  BY <1>1, <1>2 DEF Owning, Live
<1> DEFINE Goal == owner'[at[k]] = k /\ at'[k] = at[k]
<1> SUFFICES Goal
  OBVIOUS
<1>4. ASSUME UNCHANGED <<owner, at>> PROVE Goal
  BY <1>3, <1>4
<1>5. ASSUME NEW l \in Tasks, Reporting(l) PROVE Goal
  <2>1. CASE owner' = owner
    BY <1>4, <1>5, <2>1 DEF Reporting
  <2>2. CASE owner[at[l]] = l /\ owner' = [owner EXCEPT ![at[l]] = None]
    <3>1. l # k
      BY <1>3, <1>5 DEF Reporting
    <3>2. at[l] # at[k]
      BY <1>3, <2>2, <3>1
    <3> QED
      BY <1>2, <1>3, <1>5, <2>2, <3>2 DEF Reporting
  <2> QED
    BY <1>5, <2>1, <2>2 DEF Reporting
<1>6. ASSUME NEW z \in Slots, NEW l \in Tasks, Spawning(z, l) PROVE Goal
  <2>1. 1 \in DOMAIN submit /\ IsJob(1) /\ submit[1].slot = z /\ submit[1].req = l
        /\ submit # <<>> /\ submit' = Tail(submit)
    BY <1>1, <1>6, SubmitFacts DEF Spawning, IsJob
  <2>2. stage[l] = "none" /\ Outstanding(l, z)
    BY <1>1, <2>1 DEF Fresh, Outstanding
  <2>3. l # k
    BY <1>3, <2>2
  <2>4. z # at[k]
    <3> SUFFICES ASSUME z = at[k] PROVE FALSE
      OBVIOUS
    <3>1. CASE stage[k] = "run"
      <4>1. Outstanding(k, z)
        BY <3>1 DEF Outstanding
      <4> QED
        BY <2>2, <2>3, <4>1, Out
    <3>2. CASE Serving(z, k)
      BY <2>2, <2>3, <3>2, Out
    <3>3. CASE Departing(z)
      BY <1>1, <2>1, <3>3, DepartingStays
    <3> QED
      BY <3>1, <3>2, <3>3, Alive
  <2> QED
    BY <1>2, <1>3, <1>6, <2>3, <2>4 DEF Spawning
<1> HIDE DEF Goal
<1>10. CASE Flushing \/ Delivering \/ Reading \/ Missing
  BY <1>4, <1>10 DEF Flushing, Delivering, Reading, Missing
<1>11. ASSUME NEW l \in Tasks, Answering(l) \/ Starting(l) \/ Sending(l) \/ Failing(l) PROVE Goal
  BY <1>4, <1>11 DEF Answering, Starting, Sending, Failing
<1>12. ASSUME NEW l \in Tasks, NEW p \in Stages, Ending(l, p) PROVE Goal
  BY <1>4, <1>12 DEF Ending
<1>13. ASSUME NEW l \in Tasks, NEW p \in Stages, NEW w, Moving(l, p, w) PROVE Goal
  BY <1>4, <1>13 DEF Moving
<1>14. ASSUME NEW z \in Slots,
              \/ Departed(z) \/ Asking(z) \/ Replying(z) \/ Opening(z) \/ Refusing(z)
              \/ Draining(z) \/ Leaving(z)
       PROVE  Goal
  BY <1>4, <1>14 DEF Departed, Asking, Replying, Opening, Refusing, Draining, Leaving
<1>15. ASSUME NEW z \in Slots, NEW g \in Gens, Cutting(z, g) PROVE Goal
  BY <1>4, <1>15 DEF Cutting
<1>16. ASSUME NEW z \in Slots, NEW n \in Nat, NEW g \in Gens, Acked(z, n, g) PROVE Goal
  BY <1>4, <1>16 DEF Acked
<1> QED
  BY <1>5, <1>6, <1>10, <1>11, <1>12, <1>13, <1>14, <1>15, <1>16 DEF Step

\* Who is alive after a step was, or begins by it.
LEMMA AliveBack ==
  ASSUME Inductive, Step, NEW k \in Tasks, stage'[k] \in Live, k \notin gone'
  PROVE  Starting(k) \/ (stage[k] \in Live /\ k \notin gone)
<1>1. TypeOK
  BY DEF Inductive
<1>2. stage \in [Tasks -> Stages]
  BY <1>1, Typed
<1> DEFINE Goal == Starting(k) \/ (stage[k] \in Live /\ k \notin gone)
<1> SUFFICES Goal
  OBVIOUS
<1>3. ASSUME UNCHANGED <<stage, gone>> PROVE Goal
  BY <1>3
<1>4. ASSUME NEW l \in Tasks, NEW p, gone' = gone, stage' = [stage EXCEPT ![l] = p],
             p \in Live => stage[l] \in Live
      PROVE  Goal
  BY <1>2, <1>4
<1>5. ASSUME NEW l \in Tasks, Answering(l) \/ Sending(l) \/ Failing(l) \/ Reporting(l) PROVE Goal
  BY <1>2, <1>5 DEF Answering, Sending, Failing, Reporting, Live
<1>6. ASSUME NEW l \in Tasks, Starting(l) PROVE Goal
  BY <1>2, <1>6 DEF Starting
<1>7. ASSUME NEW l \in Tasks, NEW p \in Stages, Ending(l, p) PROVE Goal
  BY <1>2, <1>7 DEF Ending, Live
<1>8. ASSUME NEW l \in Tasks, NEW p \in Stages, NEW w, Moving(l, p, w) PROVE Goal
  BY <1>2, <1>8 DEF Moving, Quiet, Live
<1>9. ASSUME NEW z \in Slots, NEW l \in Tasks, Spawning(z, l) PROVE Goal
  BY <1>2, <1>9 DEF Spawning, Live
<1>9a. ASSUME NEW z \in Slots, Departed(z) PROVE Goal
  BY <1>9a DEF Departed
<1> HIDE DEF Goal
<1>10. CASE Flushing \/ Delivering \/ Reading \/ Missing
  BY <1>3, <1>10 DEF Flushing, Delivering, Reading, Missing
<1>14. ASSUME NEW z \in Slots,
              \/ Asking(z) \/ Replying(z) \/ Opening(z) \/ Refusing(z) \/ Draining(z) \/ Leaving(z)
       PROVE  Goal
  BY <1>3, <1>14 DEF Asking, Replying, Opening, Refusing, Draining, Leaving
<1>15. ASSUME NEW z \in Slots, NEW g \in Gens, Cutting(z, g) PROVE Goal
  BY <1>3, <1>15 DEF Cutting
<1>16. ASSUME NEW z \in Slots, NEW n \in Nat, NEW g \in Gens, Acked(z, n, g) PROVE Goal
  BY <1>3, <1>16 DEF Acked
<1> QED
  BY <1>5, <1>6, <1>7, <1>8, <1>9, <1>9a, <1>10, <1>14, <1>15, <1>16 DEF Step

\* A slot's stream is served on, or its client leaves and the executor will hear.
LEMMA ServedOn ==
  ASSUME Inductive, HasRoom, Step, NEW k \in Tasks, stage[k] \in Live, k \notin gone,
         k \notin gone',
         NEW s \in Slots, s = at[k]
  PROVE  Serving(s, k)' \/ Departing(s)'
<1> DEFINE Goal == Serving(s, k)' \/ Departing(s)'
<1>1. TypeOK /\ Turns /\ Completing /\ Numbered /\ Owning
  BY DEF Inductive
<1>2. /\ at \in [Tasks -> Slots] /\ parked \in [Slots -> Gens \X Gens] /\ k # 0 /\ s \in Slots
      /\ slots \in [Slots -> [conn : {"free", "out", "stream"}, gen : Gens]]
      /\ batch \in Seq(Entries) /\ \A l \in Tasks : l # 0
  BY <1>1, Typed, TaskIsGen
<1>3. Serving(s, k) \/ Departing(s)
  BY Alive
<1>3a. end[k] = "open" /\ owner[s] = k
  BY Alive
<1> SUFFICES Goal
  OBVIOUS
<1>4. /\ submit' = submit /\ Departing(s) => Departing(s)'
      /\ \A d : submit' = Append(submit, d) /\ Departing(s) => Departing(s)'
      /\ \A z \in Slots : Telling(z) /\ Departing(s) => Departing(s)'
      /\ submit # <<>> /\ submit' = Tail(submit) /\ submit[1] # Tag(s) /\ Departing(s)
           => Departing(s)'
  <2>1. submit' = submit /\ Departing(s) => Departing(s)'
    BY DEF Departing, IsJob
  <2>2. ASSUME NEW d, submit' = Append(submit, d), Departing(s) PROVE Departing(s)'
    BY <1>1, <1>2, <2>2, DepartingStays
  <2>3. ASSUME NEW z \in Slots, Telling(z), Departing(s) PROVE Departing(s)'
    BY <2>1, <2>2, <2>3 DEF Telling
  <2>4. submit # <<>> /\ submit' = Tail(submit) /\ submit[1] # Tag(s) /\ Departing(s)
          => Departing(s)'
    BY <1>1, <1>2, DepartingStays
  <2> QED
    BY <2>1, <2>2, <2>3, <2>4
<1>5. ASSUME UNCHANGED <<parked, slots, submit>> PROVE Goal
  BY <1>3, <1>4, <1>5 DEF Serving
<1>6. ASSUME Departing(s) => Departing(s)', parked'[s] = parked[s], slots'[s] = slots[s] PROVE Goal
  BY <1>3, <1>6 DEF Serving
<1>7. ASSUME Departing(s) => Departing(s)', ~Serving(s, k) PROVE Goal
  BY <1>3, <1>7
\* A response is parked, for another slot.
<1>8. ASSUME NEW l \in Tasks, stage[l] \in {"run", "failed"}, NEW g,
             parked' = [parked EXCEPT ![at[l]] = <<l, g>>], UNCHANGED <<slots, submit>>
      PROVE  Goal
  <2>1. CASE at[l] = s
    <3>1. ~Serving(s, k)
      BY <1>8, <2>1, Blank
    <3> QED
      BY <1>4, <1>7, <1>8, <3>1
  <2>2. CASE at[l] # s
    <3>1. parked'[s] = parked[s]
      BY <1>2, <1>8, <2>2
    <3> QED
      BY <1>4, <1>6, <1>8, <3>1
  <2> QED
    BY <2>1, <2>2
\* A client leaves.
<1>9. ASSUME NEW z \in Slots, Telling(z), \A i \in DOMAIN submit : IsJob(i) => submit[i].slot # z,
             z # s => parked'[s] = parked[s] /\ slots'[s] = slots[s]
      PROVE  Goal
  <2>1. CASE z = s
    <3>1. submit' = Append(submit, Tag(s))
      BY <1>9, <2>1 DEF Telling
    <3>2. Departing(s)'
      BY <1>1, <1>2, <1>9, <2>1, <3>1, DepartingStays
    <3> QED
      BY <3>2
  <2>2. CASE z # s
    <3>1. Departing(s) => Departing(s)'
      BY <1>4, <1>9
    <3> QED
      BY <1>6, <1>9, <2>2, <3>1
  <2> QED
    BY <2>1, <2>2
<1>9a. ASSUME NEW z \in Slots, Completed(z)
       PROVE  parked[z][1] # 0 /\ \A y \in Slots : y # z => parked'[y] = parked[y]
  <2>1. 1 \in DOMAIN batch
    BY <1>2, <1>9a DEF Completed
  <2> QED
    BY <1>1, <1>2, <1>9a, <2>1 DEF Completed, Completing
<1> HIDE DEF Goal
<1>10. CASE Flushing \/ Delivering \/ Reading \/ Missing
  BY <1>5, <1>10 DEF Flushing, Delivering, Reading, Missing
<1>11. ASSUME NEW l \in Tasks, Answering(l) PROVE Goal
  <2>1. stage[l] \in {"run", "failed"} /\ parked' = [parked EXCEPT ![at[l]] = <<l, 0>>]
        /\ UNCHANGED <<slots, submit>>
    BY <1>11 DEF Answering
  <2> QED
    BY <1>8, <2>1
<1>12. ASSUME NEW l \in Tasks, Starting(l) PROVE Goal
  <2>1. stage[l] \in {"run", "failed"} /\ parked' = [parked EXCEPT ![at[l]] = <<l, l>>]
        /\ UNCHANGED <<slots, submit>>
    BY <1>12 DEF Starting
  <2> QED
    BY <1>8, <2>1
<1>13. ASSUME NEW l \in Tasks, Reporting(l) PROVE Goal
  <2>1. CASE stage[l] = "failed" /\ parked' = [parked EXCEPT ![at[l]] = <<l, 0>>]
    <3>1. stage[l] \in {"run", "failed"} /\ UNCHANGED <<slots, submit>>
      BY <1>13, <2>1 DEF Reporting
    <3> QED
      BY <1>8, <2>1, <3>1
  <2>2. CASE parked' = parked
    BY <1>5, <1>13, <2>2 DEF Reporting
  <2> QED
    BY <1>13, <2>1, <2>2 DEF Reporting
<1>14. ASSUME NEW l \in Tasks, Sending(l) \/ Failing(l) PROVE Goal
  BY <1>5, <1>14 DEF Sending, Failing
<1>15. ASSUME NEW l \in Tasks, NEW p \in Stages, Ending(l, p) PROVE Goal
  BY <1>5, <1>15 DEF Ending
<1>16. ASSUME NEW l \in Tasks, NEW p \in Stages, NEW w, Moving(l, p, w) PROVE Goal
  BY <1>5, <1>16 DEF Moving
<1>17. ASSUME NEW z \in Slots, Departed(z) PROVE Goal
  <2>1. submit # <<>> /\ submit' = Tail(submit) /\ submit[1].slot = z /\ UNCHANGED <<parked, slots>>
        /\ gone' = gone \cup ({owner[z]} \ {None})
    BY <1>1, <1>17, SubmitFacts DEF Departed
  <2>2. z # s
    BY <1>3a, <2>1, ExecutorAssumption
  <2>3. submit[1] # Tag(s)
    BY <2>1, <2>2 DEF Tag
  <2> QED
    BY <1>4, <1>6, <2>1, <2>3
<1>18. ASSUME NEW z \in Slots, NEW l \in Tasks, Spawning(z, l) PROVE Goal
  <2>1. submit # <<>> /\ submit' = Tail(submit) /\ submit[1].tag = "job"
        /\ UNCHANGED <<parked, slots>>
    BY <1>1, <1>18, SubmitFacts DEF Spawning
  <2>2. submit[1] # Tag(s)
    BY <2>1 DEF Tag
  <2> QED
    BY <1>4, <1>6, <2>1, <2>2
<1>19. ASSUME NEW z \in Slots, NEW n \in Nat, NEW g \in Gens, Acked(z, n, g) PROVE Goal
  BY <1>5, <1>19 DEF Acked
<1>20. ASSUME NEW z \in Slots, Asking(z) PROVE Goal
  <2>1. /\ submit' = Append(submit, Job(z, asked + 1)) /\ parked' = parked
        /\ slots[z].conn = "free" /\ slots' = [slots EXCEPT ![z] = [conn |-> "out", gen |-> 0]]
    BY <1>20 DEF Asking
  <2>2. CASE z = s
    <3>1. ~Serving(s, k)
      <4>1. parked[s] # <<k, k>>
        <5> SUFFICES ASSUME parked[s] = <<k, k>> PROVE FALSE
          OBVIOUS
        <5>1. Outstanding(k, s)
          BY DEF Outstanding
        <5> QED
          BY <1>2, <2>1, <2>2, <5>1, Out
      <4> QED
        BY <2>1, <2>2, <4>1 DEF Serving
    <3> QED
      BY <1>4, <1>7, <2>1, <3>1
  <2>3. CASE z # s
    <3>1. slots'[s] = slots[s]
      BY <1>2, <2>1, <2>3
    <3> QED
      BY <1>4, <1>6, <2>1, <3>1
  <2> QED
    BY <2>2, <2>3
<1>21. ASSUME NEW z \in Slots, Replying(z) PROVE Goal
  <2>1. /\ Completed(z) /\ parked[z][2] = 0 /\ submit' = submit
        /\ slots' = [slots EXCEPT ![z].conn = "free"]
    BY <1>21 DEF Replying
  <2>2. CASE z = s
    <3>1. ~Serving(s, k)
      BY <1>2, <1>9a, <2>1, <2>2, Waiting
    <3> QED
      BY <1>4, <1>7, <2>1, <3>1
  <2>3. CASE z # s
    <3>1. slots'[s] = slots[s] /\ parked'[s] = parked[s]
      BY <1>2, <1>9a, <2>1, <2>3
    <3> QED
      BY <1>4, <1>6, <2>1, <3>1
  <2> QED
    BY <2>2, <2>3
<1>22. ASSUME NEW z \in Slots, Refusing(z) PROVE Goal
  <2>1. Completed(z) /\ Telling(z) /\ slots' = [slots EXCEPT ![z].conn = "free"]
    BY <1>22 DEF Refusing
  <2>2. \A i \in DOMAIN submit : IsJob(i) => submit[i].slot # z
    BY <1>9a, <2>1, Waiting
  <2>3. z # s => slots'[s] = slots[s] /\ parked'[s] = parked[s]
    BY <1>2, <1>9a, <2>1
  <2> QED
    BY <1>9, <2>1, <2>2, <2>3
<1>23. ASSUME NEW z \in Slots, Opening(z) PROVE Goal
  <2>1. /\ Completed(z) /\ slots' = [slots EXCEPT ![z] = [conn |-> "stream", gen |-> parked[z][2]]]
        /\ parked[z][2] # 0 /\ submit' = submit
    BY <1>23 DEF Opening
  <2>2. CASE z = s
    <3>1. Serving(s, k) => slots'[s] = [conn |-> "stream", gen |-> k]
      <4>1. Serving(s, k) => parked[s] = <<k, k>>
        BY <1>2, <1>9a, <2>1, <2>2, Waiting
      <4> QED
        BY <1>2, <2>1, <2>2, <4>1
    <3> QED
      BY <1>3, <1>4, <2>1, <3>1 DEF Serving, Goal
  <2>3. CASE z # s
    <3>1. slots'[s] = slots[s] /\ parked'[s] = parked[s]
      BY <1>2, <1>9a, <2>1, <2>3
    <3> QED
      BY <1>4, <1>6, <2>1, <3>1
  <2> QED
    BY <2>2, <2>3
<1>24. ASSUME NEW z \in Slots, Draining(z) PROVE Goal
  <2>1. CASE slots' = slots
    BY <1>5, <1>24, <2>1 DEF Draining
  <2>2. CASE z \notin handler'.sub /\ slots' = [slots EXCEPT ![z] = [conn |-> "free", gen |-> 0]]
    <3>1. slots[z].conn = "stream" /\ handler' = Drained(handler, z) /\ UNCHANGED <<submit, parked>>
      BY <1>24 DEF Draining
    <3>2. CASE z = s
      <4>1. s \notin handler.sub \/ s \in handler.done
        <5>1. handler \in Registries
          BY <1>1, Typed
        <5> QED
          BY <1>2, <2>2, <3>1, <3>2, <5>1, RegistryFacts
      <4>2. ~Serving(s, k)
        BY <1>3a, <3>1, <3>2, <4>1, Streams
      <4> QED
        BY <1>4, <1>7, <3>1, <4>2
    <3>3. CASE z # s
      <4>1. slots'[s] = slots[s]
        BY <1>2, <2>2, <3>3
      <4> QED
        BY <1>4, <1>6, <3>1, <4>1
    <3> QED
      BY <3>2, <3>3
  <2> QED
    BY <1>24, <2>1, <2>2 DEF Draining
<1>25. ASSUME NEW z \in Slots, slots[z].conn = "stream", Telling(z),
              slots' = [slots EXCEPT ![z].conn = "free"], parked' = parked
       PROVE  Goal
  <2>1. \A i \in DOMAIN submit : IsJob(i) => submit[i].slot # z
    BY <1>25, Streams
  <2>2. z # s => slots'[s] = slots[s] /\ parked'[s] = parked[s]
    BY <1>2, <1>25
  <2> QED
    BY <1>9, <1>25, <2>1, <2>2
<1>26. ASSUME NEW z \in Slots, Leaving(z) PROVE Goal
  BY <1>25, <1>26 DEF Leaving
<1>27. ASSUME NEW z \in Slots, NEW g \in Gens, Cutting(z, g) PROVE Goal
  <2>1. slots[z].conn = "stream" /\ Telling(z) /\ parked' = parked
        /\ slots' = [slots EXCEPT ![z].conn = "free"]
    BY <1>27 DEF Cutting
  <2> QED
    BY <1>25, <2>1
<1> QED
  BY <1>10, <1>11, <1>12, <1>13, <1>14, <1>15, <1>16, <1>17, <1>18, <1>19, <1>20, <1>21, <1>22,
     <1>23, <1>24, <1>26, <1>27 DEF Step

LEMMA OwningStep ==
  ASSUME Inductive, HasRoom, Step, TypeOK'
  PROVE  Owning'
<1>1. TypeOK /\ Owning /\ Homed /\ TypeOK' /\ Fresh
  BY DEF Inductive
<1>2. /\ at \in [Tasks -> Slots] /\ at' \in [Tasks -> Slots] /\ gens \in [Slots -> Gens]
      /\ stage \in [Tasks -> Stages] /\ owner \in [Slots -> Tasks \cup {None}]
      /\ credit \in [Slots -> Int] /\ server.window \in Nat \ {0}
      /\ submit \in Seq(Datagrams)
  BY <1>1, Typed, ServerFacts DEF TypeOK
\* The slot of a task that has just been spawned is its own.
<1>3. ASSUME NEW k \in Tasks, stage'[k] = "run" PROVE owner'[at'[k]] = k
  <2>1. CASE stage[k] = "run"
    BY <2>1, OwnerKept
  <2>2. CASE stage[k] # "run"
    <3>1. ASSUME NEW z \in Slots, NEW l \in Tasks, Spawning(z, l) PROVE owner'[at'[k]] = k
      BY <1>2, <1>3, <2>2, <3>1 DEF Spawning
    <3>2. ASSUME stage' = stage PROVE FALSE
      BY <1>3, <2>2, <3>2
    <3>3. ASSUME NEW l \in Tasks, NEW p, stage' = [stage EXCEPT ![l] = p], p # "run" PROVE FALSE
      BY <1>2, <1>3, <2>2, <3>3
    <3>4. ASSUME NEW l \in Tasks,
                 Answering(l) \/ Starting(l) \/ Sending(l) \/ Failing(l) \/ Reporting(l)
          PROVE  FALSE
      BY <3>3, <3>4 DEF Answering, Starting, Sending, Failing, Reporting
    <3>5. ASSUME NEW l \in Tasks, NEW p \in Stages, NEW w, Moving(l, p, w) PROVE FALSE
      <4>1. p # "run"
        BY <3>5 DEF Moving, Quiet, Live
      <4> QED
        BY <3>3, <3>5, <4>1 DEF Moving
    <3>6. ASSUME NEW l \in Tasks, NEW p \in Stages, Ending(l, p) PROVE FALSE
      BY <3>3, <3>6 DEF Ending
    <3>7. ASSUME Flushing \/ Delivering \/ Reading \/ Missing PROVE FALSE
      BY <3>2, <3>7 DEF Flushing, Delivering, Reading, Missing
    <3>8. ASSUME NEW z \in Slots,
                 \/ Departed(z) \/ Asking(z) \/ Replying(z) \/ Opening(z) \/ Refusing(z)
                 \/ Draining(z) \/ Leaving(z)
          PROVE  FALSE
      BY <3>2, <3>8 DEF Departed, Asking, Replying, Opening, Refusing, Draining, Leaving
    <3>9. ASSUME NEW z \in Slots, NEW g \in Gens, Cutting(z, g) PROVE FALSE
      BY <3>2, <3>9 DEF Cutting
    <3>10. ASSUME NEW z \in Slots, NEW n \in Nat, NEW g \in Gens, Acked(z, n, g) PROVE FALSE
      BY <3>2, <3>10 DEF Acked
    <3> QED
      BY <3>1, <3>4, <3>5, <3>6, <3>7, <3>8, <3>9, <3>10 DEF Step
  <2> QED
    BY <2>1, <2>2
\* The generation of a slot's last stream changes when it has the next.
<1>4. ASSUME NEW s \in Slots, \A l \in Tasks : Starting(l) => at[l] # s
      PROVE  gens'[s] = gens[s]
  <2> DEFINE Same == gens'[s] = gens[s]
  <2> SUFFICES Same
    OBVIOUS
  <2>1. ASSUME NEW l \in Tasks, Starting(l) PROVE Same
    BY <1>2, <1>4, <2>1 DEF Starting
  <2>2. ASSUME gens' = gens PROVE Same
    BY <2>2
  <2> HIDE DEF Same
  <2>3. ASSUME NEW l \in Tasks, Answering(l) \/ Sending(l) \/ Failing(l) \/ Reporting(l) PROVE Same
    BY <2>2, <2>3 DEF Answering, Sending, Failing, Reporting
  <2>4. ASSUME NEW l \in Tasks, NEW p \in Stages, NEW w, Moving(l, p, w) PROVE Same
    BY <2>2, <2>4 DEF Moving
  <2>5. ASSUME NEW l \in Tasks, NEW p \in Stages, Ending(l, p) PROVE Same
    BY <2>2, <2>5 DEF Ending
  <2>6. CASE Flushing \/ Delivering \/ Reading \/ Missing
    BY <2>2, <2>6 DEF Flushing, Delivering, Reading, Missing
  <2>7. ASSUME NEW z \in Slots,
               \/ Departed(z) \/ Asking(z) \/ Replying(z) \/ Opening(z) \/ Refusing(z)
               \/ Draining(z) \/ Leaving(z)
        PROVE  Same
    BY <2>2, <2>7 DEF Departed, Asking, Replying, Opening, Refusing, Draining, Leaving
  <2>8. ASSUME NEW z \in Slots, NEW g \in Gens, Cutting(z, g) PROVE Same
    BY <2>2, <2>8 DEF Cutting
  <2>9. ASSUME NEW z \in Slots, NEW n \in Nat, NEW g \in Gens, Acked(z, n, g) PROVE Same
    BY <2>2, <2>9 DEF Acked
  <2>10. ASSUME NEW z \in Slots, NEW l \in Tasks, Spawning(z, l) PROVE Same
    BY <2>2, <2>10 DEF Spawning
  <2> QED
    BY <2>1, <2>3, <2>4, <2>5, <2>6, <2>7, <2>8, <2>9, <2>10 DEF Step
<1>5. ASSUME NEW s \in Slots, NEW k \in Tasks, Serving(s, k)' PROVE gens'[s] = k
  <2>1. CASE Starting(k) /\ at[k] = s
    BY <1>2, <2>1 DEF Starting
  <2>2. CASE Opening(s) /\ Serving(s, k)
    BY <1>1, <2>2 DEF Opening, Owning
  <2>3. CASE Serving(s, k) /\ \A l \in Tasks : Starting(l) => at[l] # s
    BY <1>1, <1>4, <2>3 DEF Owning
  <2> QED
    BY <1>5, <2>1, <2>2, <2>3, ServingBack
\* Who waits for the common window has credit.
<1>6. ASSUME NEW k \in Tasks, stage'[k] = "global", stage[k] \in Live, k \notin gone
      PROVE  credit'[at[k]] >= 1
  <2> DEFINE s == at[k]
             Goal == credit'[at[k]] >= 1
  <2> SUFFICES Goal
    OBVIOUS
  <2>1. s \in Slots /\ owner[s] = k /\ (stage[k] = "global" => credit[s] >= 1)
        /\ \A l \in Tasks : stage[l] \in Live /\ l \notin gone /\ at[l] = s => l = k
    BY <1>6, Alive
  <2>2. ASSUME credit'[s] = credit[s], stage'[k] = stage[k] PROVE Goal
    BY <1>6, <2>1, <2>2
  <2>3. ASSUME NEW l \in Tasks, l # k, NEW p, stage' = [stage EXCEPT ![l] = p],
               credit'[s] = credit[s]
        PROVE  Goal
    BY <1>2, <2>2, <2>3
  <2>4. ASSUME NEW l \in Tasks, NEW p, stage' = [stage EXCEPT ![l] = p], p # "global" PROVE l # k
    BY <1>2, <1>6, <2>4
  <2> HIDE DEF Goal
  <2>5. ASSUME NEW l \in Tasks, Answering(l) \/ Failing(l) PROVE Goal
    <3>1. l # k
      BY <2>4, <2>5 DEF Answering, Failing
    <3> QED
      BY <2>3, <2>5, <3>1 DEF Answering, Failing
  <2>6. ASSUME NEW l \in Tasks, Starting(l) PROVE Goal
    <3>1. l # k /\ stage[l] = "run"
      BY <2>4, <2>6 DEF Starting
    <3>2. owner[at[l]] = l
      BY <1>1, <3>1 DEF Owning
    <3>3. at[l] # s
      BY <2>1, <3>1, <3>2
    <3>4. credit'[s] = credit[s]
      BY <1>2, <2>6, <3>3 DEF Starting
    <3> QED
      BY <2>3, <2>6, <3>1, <3>4 DEF Starting
  <2>7. ASSUME NEW l \in Tasks, Sending(l) PROVE Goal
    <3>1. l # k
      BY <2>4, <2>7 DEF Sending
    <3>2. at[l] # s
      BY <2>1, <2>7, <3>1 DEF Sending
    <3>3. credit'[s] = credit[s]
      BY <1>2, <2>7, <3>2 DEF Sending
    <3> QED
      BY <2>3, <2>7, <3>1, <3>3 DEF Sending
  <2>8. ASSUME NEW l \in Tasks, Reporting(l) PROVE Goal
    <3>1. l # k
      BY <2>4, <2>8 DEF Reporting
    <3>2. credit'[s] = credit[s]
      <4>1. CASE owner[at[l]] = l /\ credit' = [credit EXCEPT ![at[l]] = 0]
        <5>1. at[l] # s
          BY <2>1, <3>1, <4>1
        <5> QED
          BY <1>2, <4>1, <5>1
      <4>2. CASE credit' = credit
        BY <4>2
      <4> QED
        BY <2>8, <4>1, <4>2 DEF Reporting
    <3> QED
      BY <2>3, <2>8, <3>1, <3>2 DEF Reporting
  <2>9. ASSUME NEW l \in Tasks, NEW p \in Stages, NEW w, Moving(l, p, w) PROVE Goal
    <3>1. CASE l # k
      BY <2>3, <2>9, <3>1 DEF Moving
    <3>2. CASE l = k
      <4>1. p = "global"
        BY <1>2, <1>6, <2>9, <3>2 DEF Moving
      <4>2. credit[s] >= 1 /\ credit' = credit
        BY <2>1, <2>9, <3>2, <4>1 DEF Moving, Quiet
      <4> QED
        BY <4>2 DEF Goal
    <3> QED
      BY <3>1, <3>2
  <2>10. ASSUME NEW l \in Tasks, NEW p \in Stages, Ending(l, p) PROVE Goal
    <3>1. l # k
      BY <2>4, <2>10 DEF Ending
    <3> QED
      BY <2>3, <2>10, <3>1 DEF Ending
  <2>11. ASSUME NEW z \in Slots, NEW l \in Tasks, Spawning(z, l) PROVE Goal
    <3>1. l # k
      BY <2>4, <2>11 DEF Spawning
    <3> QED
      BY <2>3, <2>11, <3>1 DEF Spawning
  <2>12. CASE Flushing \/ Delivering \/ Reading \/ Missing
    BY <2>2, <2>12 DEF Flushing, Delivering, Reading, Missing
  <2>13. ASSUME NEW z \in Slots,
                \/ Departed(z) \/ Asking(z) \/ Replying(z) \/ Opening(z) \/ Refusing(z)
                \/ Draining(z) \/ Leaving(z)
         PROVE  Goal
    BY <2>2, <2>13 DEF Departed, Asking, Replying, Opening, Refusing, Draining, Leaving
  <2>14. ASSUME NEW z \in Slots, NEW g \in Gens, Cutting(z, g) PROVE Goal
    BY <2>2, <2>14 DEF Cutting
  <2>15. ASSUME NEW z \in Slots, NEW n \in Nat, NEW g \in Gens, Acked(z, n, g) PROVE Goal
    <3>1. stage' = stage
      BY <2>15 DEF Acked
    <3>2. CASE credit' = credit
      BY <2>2, <3>1, <3>2
    <3>3. CASE credit' = [credit EXCEPT ![z] = Least(credit[z] + n, server.window)]
      <4>1. CASE z # s
        <5>1. credit'[s] = credit[s]
          BY <1>2, <3>3, <4>1
        <5> QED
          BY <2>2, <3>1, <5>1
      <4>2. CASE z = s
        <5>1. credit[s] >= 1 /\ credit'[s] = Least(credit[s] + n, server.window)
          BY <1>2, <1>6, <2>1, <3>1, <3>3, <4>2
        <5>2. credit[s] \in Int /\ server.window >= 1 /\ server.window \in Int
          BY <1>2, <2>1
        <5> QED
          BY <5>1, <5>2 DEF Least, Goal
      <4> QED
        BY <4>1, <4>2
    <3> QED
      BY <2>15, <3>2, <3>3 DEF Acked
  <2> QED
    BY <2>5, <2>6, <2>7, <2>8, <2>9, <2>10, <2>11, <2>12, <2>13, <2>14, <2>15 DEF Step
<1>7. ASSUME NEW k \in Tasks, stage'[k] \in Live, k \notin gone'
      PROVE  /\ owner'[at'[k]] = k /\ gens'[at'[k]] = k
             /\ \A s \in Slots : s = at'[k] => Serving(s, k)' \/ Departing(s)'
             /\ stage'[k] = "global" => credit'[at'[k]] >= 1
  <2>1. CASE Starting(k)
    <3>1. stage[k] = "run" /\ at' = at /\ owner' = owner /\ stage'[k] = "stream"
          /\ gens'[at[k]] = k /\ parked'[at[k]] = <<k, k>>
      <4>1. parked \in [Slots -> Gens \X Gens]
        BY <1>1, Typed
      <4> QED
        BY <1>2, <2>1, <4>1 DEF Starting
    <3>2. owner[at[k]] = k
      BY <1>1, <3>1 DEF Owning
    <3>3. \A s \in Slots : s = at'[k] => Serving(s, k)'
      BY <3>1 DEF Serving
    <3> QED
      BY <3>1, <3>2, <3>3
  <2>2. CASE ~Starting(k)
    <3>1. stage[k] \in Live /\ k \notin gone
      BY <1>7, <2>2, AliveBack
    <3>2. owner'[at[k]] = k /\ at'[k] = at[k] /\ at[k] \in Slots /\ owner[at[k]] = k
            /\ gens[at[k]] = k
      BY <3>1, OwnerKept, Alive
    <3>3. gens'[at[k]] = k
      <4>1. ASSUME NEW l \in Tasks, Starting(l), at[l] = at[k] PROVE FALSE
        <5>1. owner[at[l]] = l /\ stage[l] = "run"
          BY <1>1, <4>1 DEF Owning, Starting
        <5> QED
          BY <3>1, <3>2, <4>1, <5>1 DEF Live
      <4> QED
        BY <1>4, <3>2, <4>1
    <3>4. \A s \in Slots : s = at[k] => Serving(s, k)' \/ Departing(s)'
      BY <1>7, <3>1, ServedOn
    <3> QED
      BY <1>6, <3>1, <3>2, <3>3, <3>4
  <2> QED
    BY <2>1, <2>2
<1>8. ASSUME NEW k \in Tasks, stage'[k] \in Live, k \notin gone'
      PROVE  Serving(at[k], k)' \/ Departing(at[k])'
  <2>1. at'[k] \in Slots
    BY <1>2
  <2> QED
    BY <1>7, <1>8, <2>1 DEF Serving, Departing, IsJob
<1> QED
  BY <1>3, <1>5, <1>7, <1>8 DEF Owning

-----------------------------------------------------------------------------
(* Ordered stays. *)

LEMMA OrderedStep ==
  ASSUME Inductive, Step
  PROVE  Ordered'
<1>1. TypeOK /\ Ordered /\ Homed /\ Owning /\ Turns
  BY DEF Inductive
<1>2. /\ chunk \in Seq(Frames) /\ DOMAIN chunk = 1 .. Len(chunk) /\ Len(chunk) \in Nat
      /\ at \in [Tasks -> Slots] /\ parked \in [Slots -> Gens \X Gens] /\ handler \in Registries
      /\ gens \in [Slots -> Gens] /\ \A k \in Tasks : k \in Gens /\ k # 0
      /\ end \in [Tasks -> {"open", "whole", "cut"}] /\ made \in [Tasks -> Nat]
  BY <1>1, Typed, TaskIsGen
<1>3. \A i \in DOMAIN chunk :
        chunk[i].gen \in Tasks /\ chunk[i].slot \in Slots /\ at[chunk[i].gen] = chunk[i].slot
  <2>1. ASSUME NEW i \in DOMAIN chunk
        PROVE  chunk[i].gen \in Gens /\ chunk[i].gen # 0 /\ chunk[i].slot \in Slots
    <3>1. chunk[i] \in Frames
      BY <1>2
    <3> QED
      BY <1>1, <3>1 DEF Frames, Homed
  <2> QED
    BY <1>1, <2>1 DEF Homed, Gens, Tasks
<1> DEFINE Opens(s) == \E i \in DOMAIN chunk : IsBegin(i) /\ chunk[i].slot = s
<1>4. \A i \in DOMAIN chunk : chunk[i].kind = "e" => end'[chunk[i].gen] = "whole"
  BY <1>1, <1>3, EndStands DEF Ordered
<1>5. ASSUME chunk' = chunk,
             \A s \in Slots : Opens(s) => parked'[s] = parked[s] /\ s \notin handler'.sub
      PROVE  Ordered'
  <2>1. \A i \in DOMAIN chunk : IsBegin(i) =>
          parked'[chunk[i].slot] = parked[chunk[i].slot] /\ chunk[i].slot \notin handler'.sub
    BY <1>3, <1>5
  <2> QED
    BY <1>1, <1>4, <1>5, <2>1 DEF Ordered, IsBegin
<1>6. ASSUME chunk' = <<>> PROVE Ordered'
  BY <1>6 DEF Ordered, IsBegin
<1>7. ASSUME NEW f \in Frames, chunk' = Append(chunk, f), handler' = handler,
             \A s \in Slots : Opens(s) => parked'[s] = parked[s],
             f.kind = "b" => /\ parked'[f.slot] = <<f.gen, f.gen>> /\ f.slot \notin handler.sub
                             /\ \A i \in DOMAIN chunk : chunk[i].gen # f.gen,
             \A i \in DOMAIN chunk : IsBegin(i) /\ chunk[i].slot = f.slot =>
               f.gen = chunk[i].gen /\ f.kind # "b",
             f.kind = "e" => end'[f.gen] = "whole",
             \A i \in DOMAIN chunk : chunk[i].kind = "e" => f.gen # chunk[i].gen
      PROVE  Ordered'
  <2> DEFINE n == Len(chunk) + 1
  <2>1. /\ DOMAIN chunk' = 1 .. n /\ n \in Nat /\ chunk'[n] = f
        /\ \A i \in DOMAIN chunk : i \in DOMAIN chunk' /\ chunk'[i] = chunk[i] /\ i < n
        /\ \A i \in DOMAIN chunk' : i \in DOMAIN chunk \/ i = n
        /\ \A i \in DOMAIN chunk' : i # n => i \in DOMAIN chunk
    BY <1>2, <1>7, Appended
  <2> HIDE DEF n
  <2>2. \A i \in DOMAIN chunk' : i <= n /\ i \in Nat
    BY <2>1
  <2>3. ASSUME NEW i \in DOMAIN chunk', IsBegin(i)'
        PROVE  /\ parked'[chunk'[i].slot] = <<chunk'[i].gen, chunk'[i].gen>>
               /\ chunk'[i].slot \notin handler'.sub
               /\ \A j \in DOMAIN chunk' : j > i /\ chunk'[j].slot = chunk'[i].slot =>
                    chunk'[j].gen = chunk'[i].gen /\ chunk'[j].kind # "b"
               /\ \A j \in 1 .. i - 1 : chunk'[j].gen # chunk'[i].gen
    <3>0. \A j \in 1 .. i - 1 : j \in DOMAIN chunk' /\ j # n
      BY <2>1, <2>2
    <3>1. CASE i = n
      <4>1. f.kind = "b" /\ chunk'[i] = f
        BY <2>1, <2>3, <3>1 DEF IsBegin
      <4>2. \A j \in DOMAIN chunk' : ~(j > i)
        BY <2>1, <2>2, <3>1
      <4>3. \A j \in 1 .. i - 1 : chunk'[j] = chunk[j] /\ j \in DOMAIN chunk
        BY <2>1, <3>0
      <4> QED
        BY <1>7, <4>1, <4>2, <4>3
    <3>2. CASE i \in DOMAIN chunk
      <4>1. chunk'[i] = chunk[i] /\ IsBegin(i)
        BY <2>1, <2>3, <3>2 DEF IsBegin
      <4>2. parked'[chunk[i].slot] = parked[chunk[i].slot]
        BY <1>3, <1>7, <3>2, <4>1
      <4>3. ASSUME NEW j \in DOMAIN chunk', j > i, chunk'[j].slot = chunk'[i].slot
            PROVE  chunk'[j].gen = chunk'[i].gen /\ chunk'[j].kind # "b"
        <5>1. CASE j = n
          BY <1>7, <2>1, <3>2, <4>1, <4>3, <5>1
        <5>2. CASE j \in DOMAIN chunk
          BY <1>1, <2>1, <3>2, <4>1, <4>3, <5>2 DEF Ordered
        <5> QED
          BY <2>1, <5>1, <5>2
      <4>4. \A j \in 1 .. i - 1 : chunk'[j].gen # chunk'[i].gen
        BY <1>1, <2>1, <3>0, <3>2, <4>1 DEF Ordered
      <4>5. parked[chunk[i].slot] = <<chunk[i].gen, chunk[i].gen>>
              /\ chunk[i].slot \notin handler.sub
        BY <1>1, <3>2, <4>1 DEF Ordered
      <4> QED
        BY <1>7, <4>1, <4>2, <4>3, <4>4, <4>5
    <3> QED
      BY <2>1, <3>1, <3>2
  <2>4. ASSUME NEW i \in DOMAIN chunk', chunk'[i].kind = "e"
        PROVE  /\ end'[chunk'[i].gen] = "whole"
               /\ \A j \in DOMAIN chunk' : j > i => chunk'[j].gen # chunk'[i].gen
    <3>1. CASE i = n
      BY <1>7, <2>1, <2>2, <2>4, <3>1
    <3>2. CASE i \in DOMAIN chunk
      <4>1. chunk'[i] = chunk[i]
        BY <2>1, <3>2
      <4>2. ASSUME NEW j \in DOMAIN chunk', j > i PROVE chunk'[j].gen # chunk'[i].gen
        <5>1. CASE j = n
          BY <1>7, <2>1, <2>4, <3>2, <4>1, <5>1
        <5>2. CASE j \in DOMAIN chunk
          BY <1>1, <2>1, <2>4, <3>2, <4>1, <4>2, <5>2 DEF Ordered
        <5> QED
          BY <2>1, <5>1, <5>2
      <4> QED
        BY <1>4, <2>4, <3>2, <4>1, <4>2
    <3> QED
      BY <2>1, <3>1, <3>2
  <2> QED
    BY <2>3, <2>4 DEF Ordered
<1>8. \A s \in Slots : Opens(s) =>
        /\ s \notin handler.sub
        /\ \E g \in Tasks : parked[s] = <<g, g>> /\ g # 0 /\ Serving(s, g)
  <2> SUFFICES ASSUME NEW s \in Slots, NEW i \in DOMAIN chunk, IsBegin(i), chunk[i].slot = s
               PROVE  /\ s \notin handler.sub
                      /\ \E g \in Tasks : parked[s] = <<g, g>> /\ g # 0 /\ Serving(s, g)
    OBVIOUS
  <2> DEFINE g == chunk[i].gen
  <2>1. g \in Tasks /\ g # 0 /\ parked[s] = <<g, g>> /\ s \notin handler.sub
    BY <1>1, <1>2, <1>3 DEF Ordered
  <2> HIDE DEF g
  <2>2. Serving(s, g)
    BY <2>1 DEF Serving
  <2> QED
    BY <2>1, <2>2
<1>9. ASSUME NEW k \in Tasks, stage[k] \in {"run", "failed"} PROVE ~Opens(at[k])
  BY <1>9, Blank
\* What a task that may still send adds.
<1>10. ASSUME NEW k \in Tasks, stage[k] \in Live, k \notin gone,
              NEW f \in Frames, chunk' = Append(chunk, f), f.slot = at[k], f.gen = gens[at[k]],
              f.kind # "b", f.kind = "e" => end'[k] = "whole", handler' = handler, parked' = parked
       PROVE  Ordered'
  <2>1. at[k] \in Slots /\ end[k] = "open" /\ gens[at[k]] = k
    BY <1>10, Alive
  <2>2. ASSUME NEW i \in DOMAIN chunk, IsBegin(i), chunk[i].slot = f.slot PROVE f.gen = chunk[i].gen
    <3>1. Serving(f.slot, chunk[i].gen)
      BY <1>1, <2>2 DEF Ordered, Serving
    <3> QED
      BY <1>1, <1>3, <1>10, <2>1, <2>2, <3>1 DEF Owning
  <2>3. ASSUME NEW i \in DOMAIN chunk, chunk[i].kind = "e" PROVE f.gen # chunk[i].gen
    BY <1>1, <1>10, <2>1, <2>3 DEF Ordered
  <2> QED
    BY <1>7, <1>10, <2>1, <2>2, <2>3
<1> DEFINE Goal == Ordered'
<1> SUFFICES Goal
  OBVIOUS
<1>11. ASSUME chunk' = chunk, parked' = parked,
              \A s \in Slots : s \in handler'.sub => s \in handler.sub
       PROVE  Goal
  BY <1>5, <1>8, <1>11
<1>12. ASSUME chunk' = chunk, parked' = parked, handler' = handler PROVE Goal
  BY <1>11, <1>12
<1>13. ASSUME NEW k \in Tasks, stage[k] \in {"run", "failed"}, NEW p,
              parked' = [parked EXCEPT ![at[k]] = p], handler' = handler, chunk' = chunk
       PROVE  Goal
  <2>1. \A s \in Slots : Opens(s) => parked'[s] = parked[s]
    BY <1>2, <1>9, <1>13
  <2> QED
    BY <1>5, <1>8, <1>13, <2>1
<1>14. ASSUME NEW k \in Tasks, stage[k] = "run", parked' = [parked EXCEPT ![at[k]] = <<k, k>>],
              handler' = handler, chunk' = Append(chunk, Frame("b", at[k], k, <<>>))
       PROVE  Goal
  <2> DEFINE f == Frame("b", at[k], k, <<>>)
  <2>1. f \in Frames /\ f.gen = k /\ f.slot = at[k] /\ f.kind = "b"
    BY <1>2, FrameTypes DEF Frame
  <2>2. chunk' = Append(chunk, f)
    BY <1>14
  <2> HIDE DEF f
  <2>3. \A s \in Slots : Opens(s) => parked'[s] = parked[s]
    BY <1>2, <1>9, <1>14
  <2>4. /\ at[k] \notin handler.sub /\ \A i \in DOMAIN chunk : chunk[i].gen # k
        /\ \A i \in DOMAIN chunk : IsBegin(i) => chunk[i].slot # at[k]
        /\ end[k] = "open"
    BY <1>14, Blank DEF NoTrace
  <2>5. parked'[at[k]] = <<k, k>>
    BY <1>2, <1>14
  <2>6. \A i \in DOMAIN chunk : chunk[i].kind = "e" => f.gen # chunk[i].gen
    BY <1>1, <2>1, <2>4 DEF Ordered
  <2> QED
    BY <1>7, <1>14, <2>1, <2>2, <2>3, <2>4, <2>5, <2>6
<1> HIDE DEF Goal
<1>15. CASE Flushing \/ Reading \/ Missing
  BY <1>12, <1>15 DEF Flushing, Reading, Missing
<1>16. CASE Delivering
  BY <1>6, <1>16 DEF Delivering, Goal
<1>17. ASSUME NEW k \in Tasks, Answering(k) PROVE Goal
  BY <1>13, <1>17 DEF Answering
<1>18. ASSUME NEW k \in Tasks, Starting(k) PROVE Goal
  BY <1>14, <1>18 DEF Starting
<1>19. ASSUME NEW k \in Tasks, Sending(k) PROVE Goal
  <2> DEFINE f == Frame("s", at[k], gens[at[k]], Piece(k, made[k] + 1))
  <2>1. f \in Frames /\ f.gen = gens[at[k]] /\ f.slot = at[k] /\ f.kind = "s"
    <3>1. Piece(k, made[k] + 1) \in Tasks \X Nat
      BY <1>2 DEF Piece
    <3>2. gens[at[k]] \in Gens /\ at[k] \in Slots
      BY <1>2
    <3> QED
      BY <3>1, <3>2, FrameTypes DEF Frame
  <2>2. chunk' = Append(chunk, f)
    BY <1>19 DEF Sending
  <2> HIDE DEF f
  <2> QED
    BY <1>10, <1>19, <2>1, <2>2 DEF Sending, Goal
<1>20. ASSUME NEW k \in Tasks, NEW p \in Stages, Ending(k, p) PROVE Goal
  <2> DEFINE f == Frame("e", at[k], gens[at[k]], <<>>)
  <2>1. f \in Frames /\ f.gen = gens[at[k]] /\ f.slot = at[k] /\ f.kind = "e"
    <3>1. gens[at[k]] \in Gens /\ at[k] \in Slots
      BY <1>2
    <3> QED
      BY <3>1, FrameTypes DEF Frame
  <2>2. chunk' = Append(chunk, f)
    BY <1>20 DEF Ending
  <2>3. end'[k] = "whole"
    BY <1>2, <1>20 DEF Ending
  <2> HIDE DEF f
  <2> QED
    BY <1>10, <1>20, <2>1, <2>2, <2>3 DEF Ending, Goal
<1>21. ASSUME NEW k \in Tasks, Failing(k) PROVE Goal
  BY <1>12, <1>21 DEF Failing
<1>22. ASSUME NEW k \in Tasks, Reporting(k) PROVE Goal
  BY <1>12, <1>13, <1>22 DEF Reporting
<1>23. ASSUME NEW k \in Tasks, NEW p \in Stages, NEW w, Moving(k, p, w) PROVE Goal
  BY <1>12, <1>23 DEF Moving
<1>24. ASSUME NEW s \in Slots, Departed(s) PROVE Goal
  BY <1>12, <1>24 DEF Departed
<1>25. ASSUME NEW s \in Slots, NEW k \in Tasks, Spawning(s, k) PROVE Goal
  BY <1>12, <1>25 DEF Spawning
<1>26. ASSUME NEW s \in Slots, Asking(s) PROVE Goal
  BY <1>12, <1>26 DEF Asking
<1>27. ASSUME NEW s \in Slots, NEW n \in Nat, NEW g \in Gens, Acked(s, n, g) PROVE Goal
  BY <1>12, <1>27 DEF Acked
<1>28. ASSUME NEW s \in Slots, Replying(s) PROVE Goal
  <2>1. /\ parked' = [parked EXCEPT ![s] = <<0, 0>>] /\ parked[s][2] = 0
        /\ handler' = handler /\ chunk' = chunk
    BY <1>28 DEF Replying, Completed
  <2>2. ~Opens(s)
    BY <1>8, <2>1
  <2>3. \A z \in Slots : Opens(z) => parked'[z] = parked[z]
    BY <1>2, <2>1, <2>2
  <2> QED
    BY <1>5, <1>8, <2>1, <2>3 DEF Goal
<1>29. ASSUME NEW s \in Slots, Opening(s) \/ Refusing(s) PROVE Goal
  BY <1>6, <1>29 DEF Opening, Refusing, Goal
<1>30. ASSUME NEW s \in Slots, Draining(s) PROVE Goal
  <2>1. \A z \in Slots : z \in Drained(handler, s).sub => z \in handler.sub
    BY <1>2, RegistryFacts
  <2> QED
    BY <1>11, <1>30, <2>1 DEF Draining
<1>31. ASSUME NEW s \in Slots, Without(handler, s), chunk' = chunk, parked' = parked PROVE Goal
  BY <1>11, <1>31 DEF Without
<1>32. ASSUME NEW s \in Slots, Leaving(s) PROVE Goal
  BY <1>1, <1>31, <1>32, Forgotten DEF Leaving
<1>33. ASSUME NEW s \in Slots, NEW g \in Gens, Cutting(s, g) PROVE Goal
  BY <1>1, <1>31, <1>33, Forgotten DEF Cutting
<1> QED
  BY <1>15, <1>16, <1>17, <1>18, <1>19, <1>20, <1>21, <1>22, <1>23, <1>24, <1>25, <1>26,
     <1>27, <1>28, <1>29, <1>30, <1>32, <1>33 DEF Step

-----------------------------------------------------------------------------
(* Registered stays. *)

\* What Registered says of slot `s`, of a registry.
Regular(h, s) ==
  /\ s \in h.sub => h.gen[s] # 0 /\ Serving(s, h.gen[s])
  /\ s \notin h.sub => s \notin h.done /\ h.pending[s] = <<>>
  /\ s \in h.done => h.pending[s] # <<>>

\* A delivery leaves it so.
LEMMA RegularDelivered ==
  ASSUME Inductive, NEW s \in Slots
  PROVE  Regular(Delivered, s)
<1>1. TypeOK /\ Homed /\ Turns /\ Ordered /\ Registered /\ Served
  BY DEF Inductive
<1>2. CASE \E k \in Tasks : Serving(s, k)
  <2>1. PICK k \in Tasks : Serving(s, k)
    BY <1>2
  <2>2. /\ Delivered.gen[s] = k /\ k # 0
        /\ s \notin Delivered.sub => s \notin Delivered.done /\ Delivered.pending[s] = <<>>
        /\ s \in Delivered.done => Delivered.pending[s] # <<>>
    BY <1>1, <2>1, Arrives, TaskIsGen
  <2> QED
    BY <2>1, <2>2 DEF Regular
<1>3. CASE ~\E k \in Tasks : Serving(s, k)
  <2>1. s \notin Delivered.sub /\ s \notin Delivered.done /\ Delivered.pending[s] = <<>>
    BY <1>1, <1>3, Rests
  <2> QED
    BY <2>1 DEF Regular
<1> QED
  BY <1>2, <1>3

\* Slot `z` is as it was, and its registry is what `h` has.
Kept(h, z) ==
  /\ parked'[z] = parked[z] /\ slots'[z] = slots[z]
  /\ z \in handler'.sub <=> z \in h.sub
  /\ z \in handler'.done <=> z \in h.done
  /\ handler'.pending[z] = h.pending[z] /\ handler'.gen[z] = h.gen[z]

\* Serving, after a step.
NowServing(s, k) == parked'[s] = <<k, k>> \/ slots'[s] = [conn |-> "stream", gen |-> k]

LEMMA RegisteredStep ==
  ASSUME Inductive, Step
  PROVE  Registered'
<1>1. TypeOK /\ Registered /\ Turns /\ Completing
  BY DEF Inductive
<1>2. /\ at \in [Tasks -> Slots] /\ parked \in [Slots -> Gens \X Gens] /\ handler \in Registries
      /\ slots \in [Slots -> [conn : {"free", "out", "stream"}, gen : Gens]]
      /\ \A k \in Tasks : k \in Gens /\ k # 0
  BY <1>1, Typed, TaskIsGen
<1> DEFINE Goal == \A s \in Slots :
                     /\ s \in handler'.sub => handler'.gen[s] # 0 /\ NowServing(s, handler'.gen[s])
                     /\ s \notin handler'.sub => s \notin handler'.done
                          /\ handler'.pending[s] = <<>>
                     /\ s \in handler'.done => handler'.pending[s] # <<>>
<1> SUFFICES Goal
  BY DEF Registered, Serving, NowServing
<1>3. \A s \in Slots : Regular(handler, s)
  BY <1>1 DEF Registered, Regular
\* A slot that nothing happens to, or that is forgotten.
<1>4. ASSUME NEW h, \A s \in Slots : Regular(h, s),
             \A s \in Slots :
               \/ Kept(h, s)
               \/ s \notin handler'.sub /\ s \notin handler'.done /\ handler'.pending[s] = <<>>
      PROVE  Goal
  <2> SUFFICES ASSUME NEW s \in Slots
               PROVE  /\ s \in handler'.sub => handler'.gen[s] # 0 /\ NowServing(s, handler'.gen[s])
                      /\ s \notin handler'.sub => s \notin handler'.done
                           /\ handler'.pending[s] = <<>>
                      /\ s \in handler'.done => handler'.pending[s] # <<>>
    OBVIOUS
  <2>1. CASE Kept(h, s)
    BY <1>4, <2>1 DEF Kept, Regular, Serving, NowServing
  <2> QED
    BY <1>4, <2>1
<1> HIDE DEF Goal
<1>5. ASSUME handler' = handler, parked' = parked, slots' = slots PROVE Goal
  BY <1>3, <1>4, <1>5 DEF Kept
<1>6. ASSUME NEW s \in Slots, handler' = handler, s \notin handler.sub,
             \A z \in Slots : z # s => parked'[z] = parked[z] /\ slots'[z] = slots[z]
      PROVE  Goal
  <2>1. s \notin handler'.sub /\ s \notin handler'.done /\ handler'.pending[s] = <<>>
    BY <1>3, <1>6 DEF Regular
  <2> QED
    BY <1>3, <1>4, <1>6, <2>1 DEF Kept
<1>7. ASSUME NEW k \in Tasks, stage[k] \in {"run", "failed"}, handler' = handler, slots' = slots,
             NEW p, parked' = [parked EXCEPT ![at[k]] = p]
      PROVE  Goal
  <2>1. at[k] \in Slots /\ at[k] \notin handler.sub
    BY <1>7, Blank
  <2> QED
    BY <1>2, <1>6, <1>7, <2>1
<1>8. ASSUME NEW h, \A z \in Slots : Regular(h, z), NEW s \in Slots, Without(h, s),
             \A z \in Slots : z # s => parked'[z] = parked[z] /\ slots'[z] = slots[z]
      PROVE  Goal
  BY <1>4, <1>8 DEF Kept, Without
<1>9. CASE Flushing \/ Reading \/ Missing
  BY <1>5, <1>9 DEF Flushing, Reading, Missing
<1>10. CASE Delivering
  <2>1. \A s \in Slots : Kept(Delivered, s)
    BY <1>10 DEF Delivering, Kept
  <2> QED
    BY <1>4, <2>1, RegularDelivered
<1>11. ASSUME NEW k \in Tasks, Answering(k) PROVE Goal
  BY <1>7, <1>11 DEF Answering
<1>12. ASSUME NEW k \in Tasks, Starting(k) PROVE Goal
  BY <1>7, <1>12 DEF Starting
<1>13. ASSUME NEW k \in Tasks, Sending(k) \/ Failing(k) PROVE Goal
  BY <1>5, <1>13 DEF Sending, Failing
<1>14. ASSUME NEW k \in Tasks, NEW p \in Stages, Ending(k, p) PROVE Goal
  BY <1>5, <1>14 DEF Ending
<1>15. ASSUME NEW k \in Tasks, Reporting(k) PROVE Goal
  BY <1>5, <1>7, <1>15 DEF Reporting
<1>16. ASSUME NEW k \in Tasks, NEW p \in Stages, NEW w, Moving(k, p, w) PROVE Goal
  BY <1>5, <1>16 DEF Moving
<1>17. ASSUME NEW s \in Slots, Departed(s) PROVE Goal
  BY <1>5, <1>17 DEF Departed
<1>18. ASSUME NEW s \in Slots, NEW k \in Tasks, Spawning(s, k) PROVE Goal
  BY <1>5, <1>18 DEF Spawning
<1>19. ASSUME NEW s \in Slots, NEW n \in Nat, NEW g \in Gens, Acked(s, n, g) PROVE Goal
  BY <1>5, <1>19 DEF Acked
<1>20. ASSUME NEW s \in Slots, s \in handler.sub PROVE parked[s][2] # 0 \/ slots[s].conn = "stream"
  BY <1>2, <1>3, <1>20 DEF Regular, Serving, NowServing
<1>21. ASSUME NEW s \in Slots, Asking(s) PROVE Goal
  <2>1. slots[s].conn = "free" /\ handler' = handler /\ parked' = parked
        /\ \A z \in Slots : z # s => slots'[z] = slots[z]
    BY <1>2, <1>21 DEF Asking
  <2>2. s \notin handler.sub
    <3>1. parked[s][1] # 0 => slots[s].conn = "out"
      BY Waiting
    <3>2. parked[s][2] \in {0, parked[s][1]}
      BY <1>1 DEF Turns
    <3> QED
      BY <1>20, <2>1, <3>1, <3>2
  <2> QED
    BY <1>6, <2>1, <2>2
<1>22. ASSUME NEW s \in Slots, Replying(s) PROVE Goal
  <2>1. /\ handler' = handler /\ parked[s][2] = 0
        /\ \A z \in Slots : z # s => parked'[z] = parked[z] /\ slots'[z] = slots[z]
    BY <1>2, <1>22 DEF Replying, Completed
  <2>2. parked[s][1] # 0
    <3>1. batch \in Seq(Entries)
      BY <1>1, Typed
    <3> QED
      BY <1>1, <1>22, <3>1 DEF Replying, Completed, Completing
  <2>3. slots[s].conn = "out"
    BY <2>2, Waiting
  <2> QED
    BY <1>6, <1>20, <2>1, <2>3
<1>23. ASSUME NEW s \in Slots, Opening(s) PROVE Goal
  <2> DEFINE k == parked[s][2]
  <2>1. /\ handler' = Delivered /\ k # 0 /\ slots'[s] = [conn |-> "stream", gen |-> k]
        /\ \A z \in Slots : z # s => parked'[z] = parked[z] /\ slots'[z] = slots[z]
    BY <1>2, <1>23 DEF Opening, Completed
  <2>2. parked[s][1] # 0
    BY <1>1, <2>1 DEF Turns
  <2>3. k = parked[s][1] /\ k \in Tasks /\ Serving(s, k)
    BY <2>1, <2>2, Waiting
  <2>4. Delivered.gen[s] = k
    BY <1>1, <2>3, Arrives DEF Inductive
  <2>5. \A z \in Slots : z # s => Kept(Delivered, z)
    BY <2>1 DEF Kept
  <2> QED
    BY <2>1, <2>3, <2>4, <2>5, RegularDelivered DEF Goal, Kept, Regular, Serving, NowServing
<1>24. ASSUME NEW s \in Slots, Refusing(s) PROVE Goal
  <2>1. Without(Delivered, s)
    BY <1>1, <1>24, Forgotten
  <2>2. \A z \in Slots : z # s => parked'[z] = parked[z] /\ slots'[z] = slots[z]
    BY <1>2, <1>24 DEF Refusing, Completed
  <2> QED
    BY <1>8, <2>1, <2>2, RegularDelivered
<1>25. ASSUME NEW s \in Slots, Draining(s) PROVE Goal
  <2>1. /\ handler' = Drained(handler, s) /\ parked' = parked
        /\ \A z \in Slots : z # s => slots'[z] = slots[z]
        /\ s \in handler'.sub => slots' = slots
    BY <1>2, <1>25 DEF Draining
  <2>2. /\ \A z \in Slots \ {s} :
             /\ z \in handler'.sub <=> z \in handler.sub
             /\ z \in handler'.done <=> z \in handler.done
             /\ handler'.pending[z] = handler.pending[z]
        /\ handler'.gen = handler.gen /\ handler'.pending[s] = <<>> /\ s \notin handler'.done
        /\ s \in handler'.sub <=> s \in handler.sub /\ s \notin handler.done
    BY <1>2, <2>1, RegistryFacts
  <2>3. \A z \in Slots : z # s => Kept(handler, z)
    BY <2>1, <2>2 DEF Kept
  <2>4. s \in handler'.sub => handler'.gen[s] # 0 /\ NowServing(s, handler'.gen[s])
    BY <1>3, <2>1, <2>2 DEF Regular, Serving, NowServing
  <2> QED
    BY <1>3, <2>2, <2>3, <2>4 DEF Goal, Kept, Regular, Serving, NowServing
<1>26. ASSUME NEW s \in Slots, Leaving(s) PROVE Goal
  <2>1. Without(handler, s) /\ parked' = parked /\ \A z \in Slots : z # s => slots'[z] = slots[z]
    BY <1>1, <1>2, <1>26, Forgotten DEF Leaving
  <2> QED
    BY <1>3, <1>8, <2>1
<1>27. ASSUME NEW s \in Slots, NEW g \in Gens, Cutting(s, g) PROVE Goal
  <2>1. Without(handler, s) /\ parked' = parked /\ \A z \in Slots : z # s => slots'[z] = slots[z]
    BY <1>1, <1>2, <1>27, Forgotten DEF Cutting
  <2> QED
    BY <1>3, <1>8, <2>1
<1> QED
  BY <1>9, <1>10, <1>11, <1>12, <1>13, <1>14, <1>15, <1>16, <1>17, <1>18, <1>19, <1>21, <1>22,
     <1>23, <1>24, <1>25, <1>26, <1>27 DEF Step

-----------------------------------------------------------------------------
(* Served stays: what is done to a stream. *)

\* To slot `s` and its registry nothing; what is said of stream `k` stands.
Unmoved(s, k) ==
  /\ Kept(handler, s) /\ wire'[s] = wire[s]
  /\ end[k] = "whole" => end'[k] = "whole"

LEMMA UnmovedParts ==
  ASSUME NEW s, NEW k, Unmoved(s, k)
  PROVE  Landed(s)' = Landed(s) /\ Arrived(s)' = Arrived(s)
BY DEF Unmoved, Kept, Landed, Arrived

\* Nothing at all.
LEMMA StreamingKept ==
  ASSUME NEW s, NEW k, Streaming(s, k), Unmoved(s, k), chunk' = chunk, made'[k] = made[k]
  PROVE  Streaming(s, k)'
<1>1. Landed(s)' = Landed(s) /\ Arrived(s)' = Arrived(s)
  BY UnmovedParts
<1>2. (Begun(s, k)' <=> Begun(s, k)) /\ PiecesOf(k)' = PiecesOf(k)
  BY DEF Begun, PiecesOf, IsBegin
<1> QED
  BY <1>1, <1>2 DEF Streaming, Unmoved, Kept

\* The frames of a channel with one more.
LEMMA OneMore ==
  ASSUME TypeOK, NEW f, chunk' = Append(chunk, f)
  PROVE  LET n == Len(chunk) + 1
         IN /\ n \in Nat /\ DOMAIN chunk = 1 .. Len(chunk) /\ n \notin DOMAIN chunk
            /\ n \in DOMAIN chunk' /\ chunk'[n] = f
            /\ \A i \in DOMAIN chunk : i \in DOMAIN chunk' /\ chunk'[i] = chunk[i] /\ i < n
                                       /\ i \in Nat
            /\ \A i \in DOMAIN chunk' : i \in DOMAIN chunk \/ i = n
            /\ \A k : PiecesOf(k)' = PiecesOf(k) \cup {i \in {n} : f.kind = "s" /\ f.gen = k}
            /\ \A s, k : Begun(s, k)' <=> Begun(s, k) /\ ~(f.kind = "b" /\ f.slot = s)
<1> DEFINE n == Len(chunk) + 1
<1>1. chunk \in Seq(Frames)
  BY Typed
<1>2. /\ DOMAIN chunk = 1 .. Len(chunk) /\ Len(chunk) \in Nat /\ n \notin DOMAIN chunk
      /\ n \in DOMAIN chunk' /\ chunk'[n] = f
      /\ \A i \in DOMAIN chunk : i \in DOMAIN chunk' /\ chunk'[i] = chunk[i] /\ i < n
      /\ \A i \in DOMAIN chunk' : i \in DOMAIN chunk \/ i = n
  BY <1>1, Appended
<1>3. n \in Nat /\ \A i \in DOMAIN chunk : i \in Nat
  BY <1>2
<1> HIDE DEF n
<1>4. \A k : PiecesOf(k)' = PiecesOf(k) \cup {i \in {n} : f.kind = "s" /\ f.gen = k}
  BY <1>2 DEF PiecesOf
<1>5. ASSUME NEW s, NEW k
      PROVE  Begun(s, k)' <=> Begun(s, k) /\ ~(f.kind = "b" /\ f.slot = s)
  BY <1>2 DEF Begun, IsBegin
<1> QED
  BY <1>2, <1>3, <1>4, <1>5 DEF n

\* Another stream's frame.
LEMMA StreamingBeside ==
  ASSUME TypeOK, NEW s \in Slots, NEW k \in Tasks, Streaming(s, k), Unmoved(s, k),
         made'[k] = made[k],
         NEW f, chunk' = Append(chunk, f), f.slot # s, f.gen # k
  PROVE  Streaming(s, k)'
<1> DEFINE n == Len(chunk) + 1
<1>1. Landed(s)' = Landed(s) /\ Arrived(s)' = Arrived(s)
  BY UnmovedParts
<1>2. /\ chunk'[n] = f
      /\ \A i \in DOMAIN chunk : i \in DOMAIN chunk' /\ chunk'[i] = chunk[i]
      /\ \A i \in DOMAIN chunk' : i \in DOMAIN chunk \/ i = n
      /\ PiecesOf(k)' = PiecesOf(k)
      /\ Begun(s, k)' <=> Begun(s, k)
  <2>1. PiecesOf(k)' = PiecesOf(k) \cup {i \in {n} : f.kind = "s" /\ f.gen = k}
    BY OneMore
  <2>2. {i \in {n} : f.kind = "s" /\ f.gen = k} = {}
    OBVIOUS
  <2>3. Begun(s, k)' <=> Begun(s, k)
    BY OneMore
  <2> QED
    BY <2>1, <2>2, <2>3, OneMore
<1> HIDE DEF n
<1>3. \A i \in PiecesOf(k) : chunk'[i] = chunk[i]
  BY <1>2 DEF PiecesOf
<1>4. {chunk'[i].piece[2] : i \in PiecesOf(k)} = {chunk[i].piece[2] : i \in PiecesOf(k)}
  BY <1>3
<1>5. (\A i \in DOMAIN chunk : chunk[i].gen # k) => \A i \in DOMAIN chunk' : chunk'[i].gen # k
  BY <1>2
<1>6. PiecesOf(k)' = PiecesOf(k) /\ (Begun(s, k)' <=> Begun(s, k))
  BY <1>2
<1> QED
  BY <1>1, <1>3, <1>4, <1>5, <1>6 DEF Streaming, Unmoved, Kept

\* Its own: the next piece, or its end.
LEMMA StreamingSent ==
  ASSUME TypeOK, NEW s \in Slots, NEW k \in Tasks, Streaming(s, k), Unmoved(s, k),
         end[k] = "open", Arrived(s) \in Nat, made'[k] = made[k] + 1,
         NEW f, chunk' = Append(chunk, f), f.kind = "s", f.gen = k, f.piece = Piece(k, made[k] + 1)
  PROVE  Streaming(s, k)'
<1> DEFINE n == Len(chunk) + 1
           m == made[k] + 1
<1>0. made[k] \in Nat /\ m \in Nat /\ made[k] < m
  <2>1. made[k] \in Nat
    BY Typed
  <2> QED
    BY <2>1
<1>1. Landed(s)' = Landed(s) /\ Arrived(s)' = Arrived(s)
  BY UnmovedParts
<1>2. /\ chunk'[n] = f /\ n \in Nat
      /\ \A i \in DOMAIN chunk : chunk'[i] = chunk[i] /\ i < n /\ i \in Nat
      /\ PiecesOf(k)' = PiecesOf(k) \cup {n}
      /\ Begun(s, k)' <=> Begun(s, k)
  BY OneMore
<1> HIDE DEF n
<1>3. \A i \in PiecesOf(k) : i \in DOMAIN chunk /\ chunk'[i] = chunk[i] /\ i < n /\ i \in Nat
  BY <1>2 DEF PiecesOf
<1>4. ~(Begun(s, k) /\ (s \notin handler.sub \/ s \in handler.done))
  BY DEF Streaming
<1>5. f.piece[2] = m /\ f.piece = Piece(k, m)
  BY DEF Piece
<1>6. {chunk[i].piece[2] : i \in PiecesOf(k)} = Arrived(s) + 1 .. made[k] /\ Arrived(s) <= made[k]
  BY DEF Streaming
<1>7. \A i \in PiecesOf(k) : chunk[i].piece[2] \in Nat /\ chunk[i].piece[2] < m
  <2>1. \A i \in PiecesOf(k) : chunk[i].piece[2] \in Arrived(s) + 1 .. made[k]
    BY <1>6
  <2> QED
    BY <1>0, <2>1
<1>8. {chunk'[i].piece[2] : i \in PiecesOf(k) \cup {n}} = Arrived(s) + 1 .. m
  <2>1. {chunk'[i].piece[2] : i \in PiecesOf(k) \cup {n}}
          = {chunk[i].piece[2] : i \in PiecesOf(k)} \cup {m}
    <3> DEFINE old(i) == chunk[i].piece[2]
               new(i) == chunk'[i].piece[2]
    <3>1. new(n) = m /\ \A i \in PiecesOf(k) : new(i) = old(i)
      BY <1>2, <1>3, <1>5
    <3> HIDE DEF old, new
    <3>2. {new(i) : i \in PiecesOf(k) \cup {n}} = {old(i) : i \in PiecesOf(k)} \cup {m}
      BY <3>1
    <3> QED
      BY <3>2 DEF old, new
  <2>2. (Arrived(s) + 1 .. made[k]) \cup {m} = Arrived(s) + 1 .. m
    BY <1>0, <1>6
  <2> QED
    BY <1>6, <2>1, <2>2
<1> HIDE DEF m
<1>9. \A i, j \in PiecesOf(k) \cup {n} : i < j => chunk'[i].piece[2] < chunk'[j].piece[2]
  <2> SUFFICES ASSUME NEW i \in PiecesOf(k) \cup {n}, NEW j \in PiecesOf(k) \cup {n}, i < j
               PROVE  chunk'[i].piece[2] < chunk'[j].piece[2]
    OBVIOUS
  <2>1. i # n
    BY <1>2, <1>3
  <2>2. CASE j = n
    BY <1>2, <1>3, <1>5, <1>7, <2>1, <2>2
  <2>3. CASE j # n
    BY <1>3, <2>1, <2>3 DEF Streaming
  <2> QED
    BY <2>2, <2>3
<1>10. \A i \in PiecesOf(k) \cup {n} : chunk'[i].piece = Piece(k, chunk'[i].piece[2])
  <2>1. \A i \in PiecesOf(k) : chunk'[i].piece = Piece(k, chunk'[i].piece[2])
    BY <1>3 DEF Streaming
  <2>2. chunk'[n].piece = Piece(k, chunk'[n].piece[2])
    BY <1>2, <1>5
  <2> QED
    BY <2>1, <2>2
<1>11. made'[k] = m /\ Arrived(s) <= m
  BY <1>0, <1>6 DEF m
<1>12. PiecesOf(k)' = PiecesOf(k) \cup {n} /\ (Begun(s, k)' <=> Begun(s, k))
  BY <1>2
<1> QED
  BY <1>1, <1>4, <1>8, <1>9, <1>10, <1>11, <1>12, ZenonT(30) DEF Streaming, Unmoved, Kept

LEMMA StreamingEnds ==
  ASSUME TypeOK, NEW s \in Slots, NEW k \in Tasks, Streaming(s, k), Unmoved(s, k),
         end[k] = "open", made'[k] = made[k],
         NEW f, chunk' = Append(chunk, f), f.kind = "e"
  PROVE  Streaming(s, k)'
<1>1. Landed(s)' = Landed(s) /\ Arrived(s)' = Arrived(s)
  BY UnmovedParts
<1>2. /\ \A i \in DOMAIN chunk : chunk'[i] = chunk[i]
      /\ PiecesOf(k)' = PiecesOf(k)
      /\ Begun(s, k)' <=> Begun(s, k)
  BY OneMore, ZenonT(30)
<1>3. \A i \in PiecesOf(k) : chunk'[i] = chunk[i]
  BY <1>2 DEF PiecesOf
<1>4. {chunk'[i].piece[2] : i \in PiecesOf(k)} = {chunk[i].piece[2] : i \in PiecesOf(k)}
  BY <1>3
<1>5. ~(Begun(s, k) /\ (s \notin handler.sub \/ s \in handler.done))
  BY DEF Streaming
<1>6. PiecesOf(k)' = PiecesOf(k) /\ (Begun(s, k)' <=> Begun(s, k))
  BY <1>2
<1> QED
  BY <1>1, <1>3, <1>4, <1>5, <1>6 DEF Streaming, Unmoved, Kept

\* All of it is delivered.
LEMMA StreamingCome ==
  ASSUME Inductive, NEW s \in Slots, NEW k \in Tasks, Serving(s, k), chunk' = <<>>,
         /\ s \in handler'.sub <=> s \in Delivered.sub
         /\ s \in handler'.done <=> s \in Delivered.done
         /\ handler'.pending[s] = Delivered.pending[s] /\ handler'.gen[s] = Delivered.gen[s],
         made'[k] = made[k], end'[k] = end[k],
         \/ slots'[s] = slots[s] /\ wire'[s] = wire[s]
         \/ /\ slots[s].conn = "out" /\ slots'[s].conn = "stream" /\ wire'[s] = <<HeadOf(k)>>
  PROVE  Streaming(s, k)'
<1>1. TypeOK /\ Homed /\ Turns /\ Ordered /\ Registered /\ Served
  BY DEF Inductive
<1>2. /\ Delivered.gen[s] = k /\ Len(Delivered.pending[s]) = made[k] - Landed(s)
      /\ \A x \in DOMAIN Delivered.pending[s] :
           Delivered.pending[s][x] = Piece(k, Landed(s) + x)
      /\ s \notin Delivered.sub \/ s \in Delivered.done => end[k] = "whole"
  BY <1>1, Arrives
<1>3. Landed(s) \in Nat /\ Streaming(s, k) /\ made[k] \in Nat
  BY <1>1, FramedBy, Typed
<1>4. Landed(s)' = Landed(s)
  <2>1. Len(<<HeadOf(k)>>) - 1 = 0
    OBVIOUS
  <2> QED
    BY <2>1 DEF Landed
<1>5. Arrived(s)' = made[k]
  BY <1>2, <1>3, <1>4 DEF Arrived
<1>6. Begun(s, k)' /\ PiecesOf(k)' = {} /\ DOMAIN chunk' = {}
  BY DEF Begun, PiecesOf
<1>7. slots'[s].conn = "stream" =>
        /\ wire'[s] # <<>> /\ wire'[s][1] = HeadOf(k)
        /\ \A i \in 2 .. Len(wire'[s]) : wire'[s][i] = Piece(k, i - 1)
  <2>1. CASE slots'[s] = slots[s] /\ wire'[s] = wire[s]
    BY <1>3, <2>1 DEF Streaming
  <2>2. CASE wire'[s] = <<HeadOf(k)>>
    <3>1. Len(wire'[s]) = 1
      BY <2>2
    <3>2. 2 .. Len(wire'[s]) = {}
      BY <3>1
    <3> QED
      BY <2>2, <3>2
  <2> QED
    BY <2>1, <2>2
<1>8. {chunk'[i].piece[2] : i \in {}} = made[k] + 1 .. made[k]
  BY <1>3
<1>9. made[k] <= made[k]
  BY <1>3
<1> QED
  BY <1>2, <1>4, <1>5, <1>6, <1>7, <1>8, <1>9 DEF Streaming

\* What has come of it is drained.
LEMMA StreamingDrained ==
  ASSUME Inductive, NEW s \in Slots, NEW k \in Tasks, Serving(s, k),
         Draining(s), slots' = slots
  PROVE  Streaming(s, k)'
<1>1. TypeOK /\ Homed /\ Turns /\ Ordered /\ Registered /\ Served
  BY DEF Inductive
<1> DEFINE q == handler.pending[s]
           w == wire[s]
<1>2. /\ wire \in [Slots -> Seq(Gens \X Int)] /\ handler \in Registries
      /\ slots \in [Slots -> [conn : {"free", "out", "stream"}, gen : Gens]]
  BY <1>1, Typed
<1>3. q \in Seq(Tasks \X Nat) /\ w \in Seq(Gens \X Int) /\ Len(q) \in Nat /\ Len(w) \in Nat
  BY <1>2 DEF Registries
<1>4. /\ slots[s].conn = "stream" /\ handler' = Drained(handler, s) /\ s \in handler'.sub
      /\ wire'[s] = w \o q
      /\ UNCHANGED <<chunk, made, end>>
  <2>1. slots[s].conn = "stream" /\ slots'[s].conn # "free"
    BY DEF Draining
  <2>2. s \in handler'.sub /\ wire' = [wire EXCEPT ![s] = @ \o handler.pending[s]]
    BY <1>2, <2>1 DEF Draining
  <2> QED
    BY <1>2, <2>1, <2>2 DEF Draining
<1>5. /\ s \in handler.sub /\ s \notin handler.done /\ s \notin handler'.done
      /\ handler'.pending[s] = <<>> /\ handler'.gen[s] = handler.gen[s]
  BY <1>2, <1>4, RegistryFacts
<1>6. Landed(s) \in Nat /\ Streaming(s, k)
  BY <1>1, FramedBy
<1>7. Landed(s) = Len(w) - 1 /\ Landed(s)' = Len(w \o q) - 1 /\ w # <<>>
  BY <1>4, <1>6 DEF Landed, Streaming
<1> HIDE DEF q, w
<1>8. Len(w \o q) = Len(w) + Len(q) /\ Len(w) >= 1
  BY <1>3, <1>7
<1>9. Landed(s)' = Landed(s) + Len(q) /\ Arrived(s)' = Arrived(s)
  <2>1. Len(handler'.pending[s]) = 0 /\ Arrived(s) = Landed(s) + Len(q)
    BY <1>5 DEF Arrived, q
  <2>2. Arrived(s)' = Landed(s)' + 0
    BY <2>1 DEF Arrived
  <2> QED
    BY <1>3, <1>7, <1>8, <2>1, <2>2
<1>10. /\ wire'[s] # <<>> /\ wire'[s][1] = HeadOf(k)
       /\ \A i \in 2 .. Len(wire'[s]) : wire'[s][i] = Piece(k, i - 1)
  <2>1. (w \o q)[1] = w[1] /\ w[1] = HeadOf(k) /\ w \o q # <<>>
    <3>1. w[1] = HeadOf(k)
      BY <1>4, <1>6 DEF Streaming, w
    <3>2. (w \o q)[1] = w[1] /\ w \o q # <<>>
      BY <1>3, <1>8
    <3> QED
      BY <3>1, <3>2
  <2>2. \A i \in 2 .. Len(w) : w[i] = Piece(k, i - 1)
    BY <1>4, <1>6 DEF Streaming, w
  <2>3. \A x \in DOMAIN q : q[x] = Piece(k, Landed(s) + x)
    BY <1>6 DEF Streaming, q
  <2>4. ASSUME NEW i \in 2 .. Len(w \o q) PROVE (w \o q)[i] = Piece(k, i - 1)
    <3>1. CASE i <= Len(w)
      <4>1. (w \o q)[i] = w[i] /\ i \in 2 .. Len(w)
        BY <1>3, <1>8, <3>1
      <4> QED
        BY <2>2, <4>1
    <3>2. CASE i > Len(w)
      <4> DEFINE x == i - Len(w)
      <4>1. x \in 1 .. Len(q) /\ (w \o q)[i] = q[x] /\ Landed(s) + x = i - 1
        BY <1>3, <1>7, <1>8, <3>2
      <4>2. x \in DOMAIN q
        BY <1>3, <4>1
      <4> HIDE DEF x
      <4> QED
        BY <2>3, <4>1, <4>2
    <3> QED
      BY <1>3, <1>8, <3>1, <3>2
  <2> QED
    BY <1>4, <2>1, <2>4
<1>11. Begun(s, k)' = Begun(s, k) /\ PiecesOf(k)' = PiecesOf(k)
  BY <1>4 DEF Begun, PiecesOf, IsBegin
<1>12. \A i \in DOMAIN handler'.pending[s] : handler'.pending[s][i] = Piece(k, Landed(s)' + i)
  <2>1. DOMAIN handler'.pending[s] = {}
    BY <1>5
  <2> QED
    BY <2>1
<1>13. Begun(s, k) => handler'.gen[s] = k
  BY <1>5, <1>6 DEF Streaming
<1>14. /\ \A i, j \in PiecesOf(k) : i < j => chunk[i].piece[2] < chunk[j].piece[2]
       /\ \A i \in PiecesOf(k) : chunk[i].piece = Piece(k, chunk[i].piece[2])
       /\ {chunk[i].piece[2] : i \in PiecesOf(k)} = Arrived(s) + 1 .. made[k]
       /\ Arrived(s) <= made[k]
  BY <1>6 DEF Streaming
<1>15. ~(s \notin handler'.sub \/ s \in handler'.done)
  BY <1>4, <1>5
<1> QED
  BY <1>4, <1>9, <1>10, <1>11, <1>12, <1>13, <1>14, <1>15, ZenonT(30) DEF Streaming

\* Whoever is at a slot that serves a stream and may send is its task.
LEMMA SenderServed ==
  ASSUME Inductive, NEW s \in Slots, NEW k \in Tasks, Serving(s, k),
         NEW l \in Tasks, stage[l] \in Live, l \notin gone, at[l] = s
  PROVE  l = k
BY Alive DEF Inductive, Owning

LEMMA ServedStep ==
  ASSUME Inductive, Step
  PROVE  Served'
<1>1. TypeOK /\ Homed /\ Turns /\ Ordered /\ Registered /\ Served /\ Answered
  BY DEF Inductive
<1>2. /\ at \in [Tasks -> Slots] /\ parked \in [Slots -> Gens \X Gens] /\ handler \in Registries
      /\ slots \in [Slots -> [conn : {"free", "out", "stream"}, gen : Gens]]
      /\ wire \in [Slots -> Seq(Gens \X Int)] /\ chunk \in Seq(Frames)
      /\ made \in [Tasks -> Nat] /\ end \in [Tasks -> {"open", "whole", "cut"}]
      /\ stage \in [Tasks -> Stages] /\ gens \in [Slots -> Gens]
      /\ \A k \in Tasks : k \in Gens /\ k # 0
  BY <1>1, Typed, TaskIsGen
<1> SUFFICES ASSUME NEW s \in Slots, NEW k \in Tasks, Serving(s, k)' PROVE Streaming(s, k)'
  BY DEF Served
\* It begins.
<1>3. CASE Starting(k) /\ at[k] = s
  <2> DEFINE f == Frame("b", s, k, <<>>)
  <2>1. /\ stage[k] \in {"run", "failed"} /\ chunk' = Append(chunk, f)
        /\ f.kind = "b" /\ f.slot = s /\ f.gen = k
        /\ UNCHANGED <<made, handler, slots, wire>>
    BY <1>3 DEF Starting, Frame
  <2> HIDE DEF f
  <2>2. /\ slots[s].conn = "out" /\ NoTrace(k) /\ handler.pending[s] = <<>>
    BY <1>3, <2>1, Blank
  <2>3. PiecesOf(k) = {} /\ made[k] = 0
    BY <2>2 DEF NoTrace, PiecesOf
  <2>4. ~Begun(s, k)' /\ PiecesOf(k)' = {}
    <3>1. PiecesOf(k)' = PiecesOf(k) \cup {i \in {Len(chunk) + 1} : f.kind = "s" /\ f.gen = k}
      BY <1>1, <2>1, OneMore
    <3>2. ~Begun(s, k)'
      BY <1>1, <2>1, OneMore
    <3> QED
      BY <2>1, <2>3, <3>1, <3>2
  <2>5. Landed(s)' = 0 /\ Arrived(s)' = 0
    <3>1. Len(handler'.pending[s]) = 0
      BY <2>1, <2>2
    <3>2. Landed(s)' = 0
      BY <2>1, <2>2 DEF Landed
    <3> QED
      BY <3>1, <3>2 DEF Arrived
  <2>6. {chunk'[i].piece[2] : i \in {}} = 0 + 1 .. 0
    OBVIOUS
  <2>7. DOMAIN handler'.pending[s] = {} /\ slots'[s].conn # "stream" /\ made'[k] = 0
    BY <2>1, <2>2, <2>3
  <2> QED
    BY <2>4, <2>5, <2>6, <2>7 DEF Streaming
\* Its head goes out.
<1>4. CASE Opening(s) /\ Serving(s, k)
  <2>1. /\ parked[s][2] # 0 /\ chunk' = <<>> /\ handler' = Delivered
        /\ made'[k] = made[k] /\ end'[k] = end[k]
        /\ slots'[s].conn = "stream" /\ wire'[s] = wire[s] \o <<HeadOf(parked[s][1])>>
    BY <1>2, <1>4 DEF Opening, Completed
  <2>2. parked[s][1] # 0
    BY <1>1, <2>1 DEF Turns
  <2>3. slots[s].conn = "out" /\ parked[s][1] = k
    BY <1>4, <2>2, Waiting
  <2>4. wire[s] = <<>>
    BY <1>1, <2>3 DEF Answered
  <2>5. wire'[s] = <<HeadOf(k)>>
    BY <2>1, <2>3, <2>4
  <2> QED
    BY <1>4, <2>1, <2>3, <2>5, StreamingCome
\* It goes on.
<1>5. ASSUME Serving(s, k), parked'[s] = parked[s], slots'[s] = slots[s],
             \A l \in Tasks : Starting(l) => at[l] # s
      PROVE  Streaming(s, k)'
  <2> DEFINE Goal == Streaming(s, k)'
  <2> SUFFICES Goal
    OBVIOUS
  <2>1. Streaming(s, k) /\ Arrived(s) \in Nat /\ at[k] = s
    BY <1>1, <1>5, FramedBy
  <2>2. end[k] = "whole" => end'[k] = "whole"
    BY EndStands
  <2>3. \A l \in Tasks : stage[l] \in Live /\ l \notin gone /\ at[l] = s => l = k
    BY <1>5, SenderServed
  <2>4. ASSUME handler' = handler, wire'[s] = wire[s] PROVE Unmoved(s, k)
    BY <1>5, <2>2, <2>4 DEF Unmoved, Kept
  <2>5. ASSUME handler' = handler, wire' = wire, chunk' = chunk, made' = made PROVE Goal
    BY <1>1, <2>1, <2>4, <2>5, StreamingKept
  <2>6. ASSUME NEW h \in Registries, NEW z \in Slots, z # s, Without(h, z)
        PROVE  /\ s \in handler'.sub <=> s \in h.sub
               /\ s \in handler'.done <=> s \in h.done
               /\ handler'.pending[s] = h.pending[s] /\ handler'.gen[s] = h.gen[s]
    BY <2>6 DEF Without
  <2> HIDE DEF Goal
  <2>7. CASE Flushing \/ Reading \/ Missing
    BY <2>5, <2>7 DEF Flushing, Reading, Missing
  <2>8. CASE Delivering
    <3>1. chunk' = <<>> /\ handler' = Delivered /\ UNCHANGED <<slots, wire, made, end>>
      BY <2>8 DEF Delivering
    <3> QED
      BY <1>5, <3>1, StreamingCome DEF Goal
  <2>9. ASSUME NEW l \in Tasks, Answering(l) \/ Failing(l) \/ Reporting(l) PROVE Goal
    BY <2>5, <2>9 DEF Answering, Failing, Reporting
  <2>10. ASSUME NEW l \in Tasks, Starting(l) PROVE Goal
    <3> DEFINE f == Frame("b", at[l], l, <<>>)
    <3>1. /\ chunk' = Append(chunk, f) /\ f.slot = at[l] /\ f.gen = l /\ at[l] # s
          /\ UNCHANGED <<handler, wire, made>>
      BY <1>5, <2>10 DEF Starting, Frame
    <3> HIDE DEF f
    <3>2. f.gen # k
      BY <2>1, <3>1
    <3> QED
      BY <1>1, <2>1, <2>4, <3>1, <3>2, StreamingBeside DEF Goal
  <2>11. ASSUME NEW l \in Tasks, Sending(l) PROVE Goal
    <3> DEFINE f == Frame("s", at[l], gens[at[l]], Piece(l, made[l] + 1))
    <3>1. /\ chunk' = Append(chunk, f) /\ f.slot = at[l] /\ f.gen = gens[at[l]] /\ f.kind = "s"
          /\ f.piece = Piece(l, made[l] + 1)
          /\ UNCHANGED <<handler, wire>> /\ stage[l] \in Live /\ l \notin gone
          /\ made' = [made EXCEPT ![l] = made[l] + 1]
      BY <2>11 DEF Sending, Frame
    <3> HIDE DEF f
    <3>2. end[l] = "open" /\ gens[at[l]] = l
      BY <3>1, Alive
    <3>3. CASE l = k
      <4>1. made'[k] = made[k] + 1 /\ f.gen = k /\ f.piece = Piece(k, made[k] + 1)
              /\ end[k] = "open"
        BY <1>2, <3>1, <3>2, <3>3
      <4> QED
        BY <1>1, <2>1, <2>4, <3>1, <4>1, StreamingSent DEF Goal
    <3>4. CASE l # k
      <4>1. made'[k] = made[k] /\ f.gen # k /\ f.slot # s
        BY <1>2, <2>3, <3>1, <3>2, <3>4
      <4> QED
        BY <1>1, <2>1, <2>4, <3>1, <4>1, StreamingBeside DEF Goal
    <3> QED
      BY <3>3, <3>4
  <2>12. ASSUME NEW l \in Tasks, NEW p \in Stages, Ending(l, p) PROVE Goal
    <3> DEFINE f == Frame("e", at[l], gens[at[l]], <<>>)
    <3>1. /\ chunk' = Append(chunk, f) /\ f.slot = at[l] /\ f.gen = gens[at[l]] /\ f.kind = "e"
          /\ UNCHANGED <<handler, wire, made>> /\ stage[l] \in Live /\ l \notin gone
      BY <2>12 DEF Ending, Frame
    <3> HIDE DEF f
    <3>2. end[l] = "open" /\ gens[at[l]] = l
      BY <3>1, Alive
    <3>3. CASE l = k
      BY <1>1, <2>1, <2>4, <3>1, <3>2, <3>3, StreamingEnds DEF Goal
    <3>4. CASE l # k
      <4>1. f.gen # k /\ f.slot # s
        BY <2>3, <3>1, <3>2, <3>4
      <4> QED
        BY <1>1, <2>1, <2>4, <3>1, <4>1, StreamingBeside DEF Goal
    <3> QED
      BY <3>3, <3>4
  <2>13. ASSUME NEW l \in Tasks, NEW p \in Stages, NEW w, Moving(l, p, w) PROVE Goal
    BY <2>5, <2>13 DEF Moving
  <2>14. ASSUME NEW z \in Slots, Departed(z) PROVE Goal
    BY <2>5, <2>14 DEF Departed
  <2>15. ASSUME NEW z \in Slots, NEW l \in Tasks, Spawning(z, l) PROVE Goal
    BY <2>5, <2>15 DEF Spawning
  <2>16. ASSUME NEW z \in Slots, NEW n \in Nat, NEW g \in Gens, Acked(z, n, g) PROVE Goal
    BY <2>5, <2>16 DEF Acked
  <2>17. ASSUME NEW z \in Slots, wire'[s] = wire[s], handler' = handler, chunk' = chunk,
                made' = made
         PROVE  Goal
    BY <1>1, <2>1, <2>4, <2>17, StreamingKept DEF Goal
  <2>18. ASSUME NEW z \in Slots, Asking(z) PROVE Goal
    <3>1. z # s
      BY <1>2, <1>5, <2>18 DEF Asking
    <3> QED
      BY <1>2, <2>17, <2>18, <3>1 DEF Asking
  \* The response that is answered is another's.
  <2>19. ASSUME NEW z \in Slots, Completed(z), z = s
         PROVE  parked[s][2] = 0 /\ slots[s].conn = "stream"
    BY <1>2, <1>5, <2>19 DEF Completed, Serving
  <2>20. ASSUME NEW z \in Slots, Replying(z) PROVE Goal
    <3>1. z # s
      BY <1>2, <1>5, <2>19, <2>20 DEF Replying
    <3> QED
      BY <1>2, <2>17, <2>20, <3>1 DEF Replying
  <2>21. ASSUME NEW z \in Slots, Opening(z) PROVE Goal
    <3>1. z # s
      BY <2>19, <2>21 DEF Opening
    <3>2. /\ chunk' = <<>> /\ handler' = Delivered /\ made' = made /\ end' = end
               /\ wire'[s] = wire[s]
      BY <1>2, <2>21, <3>1 DEF Opening
    <3> QED
      BY <1>5, <3>2, StreamingCome DEF Goal
  <2>22. ASSUME NEW z \in Slots, Refusing(z) PROVE Goal
    <3>1. z # s
      BY <2>19, <2>22 DEF Refusing
    <3>2. chunk' = <<>> /\ made' = made /\ end' = end /\ wire' = wire
      BY <2>22 DEF Refusing
    <3>3. Without(Delivered, z) /\ Delivered \in Registries
      BY <1>1, <2>22, Forgotten, DeliveredGen
    <3> QED
      BY <1>5, <2>6, <3>1, <3>2, <3>3, StreamingCome DEF Goal
  <2>23. ASSUME NEW z \in Slots, Draining(z) PROVE Goal
    <3>1. CASE z = s
      <4>1. slots' = slots
        <5>1. slots' = slots \/ slots' = [slots EXCEPT ![s] = [conn |-> "free", gen |-> 0]]
          BY <2>23, <3>1 DEF Draining
        <5> QED
          BY <1>2, <1>5, <2>23, <3>1, <5>1 DEF Draining
      <4> QED
        BY <1>5, <2>23, <3>1, <4>1, StreamingDrained DEF Goal
    <3>2. CASE z # s
      <4>1. /\ handler' = Drained(handler, z) /\ wire'[s] = wire[s] /\ chunk' = chunk
                 /\ made' = made
        BY <1>2, <2>23, <3>2 DEF Draining
      <4>2. Unmoved(s, k)
        <5>1. /\ s \in handler'.sub <=> s \in handler.sub
              /\ s \in handler'.done <=> s \in handler.done
              /\ handler'.pending[s] = handler.pending[s] /\ handler'.gen = handler.gen
          <6>1. s \in Slots \ {z}
            BY <3>2
          <6>2. /\ \A y \in Slots \ {z} :
                     /\ y \in Drained(handler, z).sub <=> y \in handler.sub
                     /\ y \in Drained(handler, z).done <=> y \in handler.done
                     /\ Drained(handler, z).pending[y] = handler.pending[y]
                /\ Drained(handler, z).gen = handler.gen
            BY <1>2, RegistryFacts
          <6> QED
            BY <4>1, <6>1, <6>2
        <5> QED
          BY <1>5, <2>2, <4>1, <5>1 DEF Unmoved, Kept
      <4> QED
        BY <2>1, <4>1, <4>2, StreamingKept DEF Goal
    <3> QED
      BY <3>1, <3>2
  <2>24. ASSUME NEW z \in Slots, z # s, Without(handler, z), wire'[s] = wire[s], chunk' = chunk,
                made' = made
         PROVE  Goal
    <3>1. Unmoved(s, k)
      BY <1>2, <1>5, <2>2, <2>6, <2>24 DEF Unmoved, Kept
    <3> QED
      BY <2>1, <2>24, <3>1, StreamingKept DEF Goal
  <2>25. ASSUME NEW z \in Slots, Leaving(z) PROVE Goal
    <3>1. z # s
      BY <1>2, <1>5, <2>25 DEF Leaving
    <3>2. Without(handler, z)
      BY <1>1, <2>25, Forgotten
    <3> QED
      BY <1>2, <2>24, <2>25, <3>1, <3>2 DEF Leaving
  <2>26. ASSUME NEW z \in Slots, NEW g \in Gens, Cutting(z, g) PROVE Goal
    <3>1. z # s
      BY <1>2, <1>5, <2>26 DEF Cutting
    <3>2. Without(handler, z)
      BY <1>1, <2>26, Forgotten
    <3> QED
      BY <1>2, <2>24, <2>26, <3>1, <3>2 DEF Cutting
  <2> QED
    BY <2>7, <2>8, <2>9, <2>10, <2>11, <2>12, <2>13, <2>14, <2>15, <2>16, <2>18, <2>20, <2>21,
       <2>22, <2>23, <2>25, <2>26 DEF Step
<1> QED
  BY <1>3, <1>4, <1>5, ServingBack

-----------------------------------------------------------------------------
(* Answered stays. *)

\* One sequence behind another.
LEMMA Joined ==
  ASSUME NEW T, NEW w \in Seq(T), NEW a \in Seq(T)
  PROVE  /\ Len(w \o a) = Len(w) + Len(a)
         /\ \A i \in 1 .. Len(w) : (w \o a)[i] = w[i]
         /\ \A i \in 1 .. Len(a) : (w \o a)[Len(w) + i] = a[i]
<1>1. Len(w \o a) = Len(w) + Len(a) /\ Len(w) \in Nat /\ Len(a) \in Nat
  OBVIOUS
<1>2. ASSUME NEW i \in 1 .. Len(w) PROVE (w \o a)[i] = w[i]
  OBVIOUS
<1>3. ASSUME NEW i \in 1 .. Len(a) PROVE (w \o a)[Len(w) + i] = a[i]
  <2> DEFINE j == Len(w) + i
  <2>1. j \in 1 .. Len(w) + Len(a) /\ ~(j <= Len(w)) /\ j - Len(w) = i
    BY <1>1
  <2> HIDE DEF j
  <2>2. (w \o a)[j] = a[j - Len(w)]
    BY <2>1
  <2> QED
    BY <2>1, <2>2 DEF j
<1> QED
  BY <1>1, <1>2, <1>3

\* What a stream's client has when all that has come goes out, and `x` behind it.
LEMMA GoneOut ==
  ASSUME Inductive, NEW s \in Slots, slots[s].conn = "stream", NEW x \in Gens \X Int
  PROVE  LET q == wire[s] \o Append(handler.pending[s], x)
         IN /\ Len(q) = Arrived(s) + 2 /\ Arrived(s) \in Nat /\ q[1] = HeadOf(slots[s].gen)
            /\ \A i \in 2 .. Len(q) - 1 : q[i] = Piece(slots[s].gen, i - 1)
            /\ q[Len(q)] = x
<1> DEFINE k == slots[s].gen
           w == wire[s]
           p == handler.pending[s]
           a == Append(p, x)
<1>1. TypeOK /\ Homed /\ Turns /\ Ordered /\ Registered /\ Served
  BY DEF Inductive
<1>2. w \in Seq(Gens \X Int) /\ p \in Seq(Tasks \X Nat)
  <2>1. wire \in [Slots -> Seq(Gens \X Int)] /\ handler \in Registries
    BY <1>1, Typed
  <2> QED
    BY <2>1 DEF Registries
<1>3. k \in Tasks /\ Serving(s, k) /\ Streaming(s, k)
  BY Streams
<1>4. Landed(s) \in Nat /\ Arrived(s) \in Nat
  BY <1>1, <1>3, FramedBy
<1>5. /\ w # <<>> /\ w[1] = HeadOf(k) /\ \A i \in 2 .. Len(w) : w[i] = Piece(k, i - 1)
      /\ \A i \in DOMAIN p : p[i] = Piece(k, Landed(s) + i)
  BY <1>3 DEF Streaming
<1>6. Landed(s) = Len(w) - 1 /\ Arrived(s) = (Len(w) - 1) + Len(p)
  BY DEF Landed, Arrived
<1> HIDE DEF k, w, p
<1>7. /\ a \in Seq(Int \X Int) /\ Len(a) = Len(p) + 1 /\ a[Len(p) + 1] = x
      /\ \A i \in 1 .. Len(p) : a[i] = p[i]
  <2>1. p \in Seq(Int \X Int) /\ x \in Int \X Int
    <3>1. Tasks \X Nat \subseteq Int \X Int
      BY DEF Tasks
    <3>2. Gens \X Int \subseteq Int \X Int
      BY DEF Gens
    <3>3. p \in Seq(Int \X Int)
      BY <1>2, <3>1
    <3> QED
      BY <3>2, <3>3
  <2> QED
    BY <2>1
<1>8. w \in Seq(Int \X Int) /\ Len(w) \in Nat /\ Len(w) >= 1 /\ Len(p) \in Nat
  <2>1. Gens \X Int \subseteq Int \X Int
    BY DEF Gens
  <2>2. w \in Seq(Int \X Int)
    BY <1>2, <2>1
  <2> QED
    BY <1>2, <1>5, <2>2
<1> HIDE DEF a
<1>9. /\ Len(w \o a) = Len(w) + Len(a)
      /\ \A i \in 1 .. Len(w) : (w \o a)[i] = w[i]
      /\ \A i \in 1 .. Len(a) : (w \o a)[Len(w) + i] = a[i]
  <2> DEFINE T == Int \X Int
  <2>1. w \in Seq(T) /\ a \in Seq(T)
    BY <1>7, <1>8
  <2> HIDE DEF T
  <2> QED
    BY <2>1, Joined
<1> DEFINE q == w \o a
<1>10. q = w \o a
  OBVIOUS
<1> HIDE DEF q
<1>11. Len(q) = Len(w) + Len(p) + 1 /\ Len(q) = Arrived(s) + 2
  BY <1>6, <1>7, <1>8, <1>9, <1>10
<1> DEFINE n == Len(q)
<1>15. n \in Nat /\ n = Len(w) + Len(p) + 1
  BY <1>8, <1>11
<1> HIDE DEF n
<1>12. q[1] = HeadOf(k)
  BY <1>5, <1>8, <1>9, <1>10
<1>13. q[Len(q)] = x
  <2>1. Len(p) + 1 \in 1 .. Len(a) /\ Len(w) + (Len(p) + 1) = Len(q)
    BY <1>7, <1>8, <1>11
  <2> QED
    BY <1>7, <1>9, <1>10, <2>1
<1>14. ASSUME NEW i \in 2 .. n - 1 PROVE q[i] = Piece(k, i - 1)
  <2>1. CASE i <= Len(w)
    <3>1. i \in 1 .. Len(w) /\ i \in 2 .. Len(w)
      BY <1>8, <1>15, <2>1
    <3> QED
      BY <1>5, <1>9, <1>10, <3>1
  <2>2. CASE i > Len(w)
    <3> DEFINE j == i - Len(w)
    <3>1. j \in 1 .. Len(p) /\ j \in 1 .. Len(a) /\ Len(w) + j = i /\ Landed(s) + j = i - 1
      <4>1. Len(a) = Len(p) + 1 /\ Len(w) \in Nat /\ Len(p) \in Nat /\ Landed(s) = Len(w) - 1
        BY <1>6, <1>7, <1>8
      <4> QED
        BY <1>15, <2>2, <4>1
    <3> HIDE DEF j
    <3>2. j \in DOMAIN p
      BY <1>2, <3>1
    <3>3. q[i] = a[j] /\ a[j] = p[j] /\ p[j] = Piece(k, Landed(s) + j)
      BY <1>5, <1>7, <1>9, <1>10, <3>1, <3>2
    <3> QED
      BY <3>1, <3>3
  <2> QED
    BY <1>8, <1>15, <2>1, <2>2
<1> QED
  BY <1>4, <1>11, <1>12, <1>13, <1>14 DEF k, n, q, w, a, p

\* Complete, after a step.
NowComplete(k, q) ==
  /\ Len(q) >= 2 /\ q[1] = HeadOf(k)
  /\ \A i \in 2 .. Len(q) - 1 : q[i] = Piece(k, i - 1)
  /\ \/ q[Len(q)] = Terminator /\ end'[k] = "whole" /\ Len(q) - 2 = made'[k]
     \/ q[Len(q)] = CutOff /\ end'[k] = "cut"

LEMMA AnsweredStep ==
  ASSUME Inductive, Step
  PROVE  Answered'
<1>1. TypeOK /\ Answered /\ Completing /\ Turns /\ Aborting
  BY DEF Inductive
<1>2. /\ parked \in [Slots -> Gens \X Gens] /\ handler \in Registries
      /\ slots \in [Slots -> [conn : {"free", "out", "stream"}, gen : Gens]]
      /\ wire \in [Slots -> Seq(Gens \X Int)] /\ batch \in Seq(Entries) /\ aborts \in Seq(Entries)
      /\ made \in [Tasks -> Nat]
  BY <1>1, Typed
\* A response stays what it is, and its task's body too.
<1>3. ASSUME NEW k \in Tasks, NEW q, Complete(k, q) PROVE NowComplete(k, q)
  <2>1. end[k] # "open"
    BY <1>3 DEF Complete
  <2>2. end'[k] = end[k] /\ made'[k] = made[k]
    BY <2>1, EndStands
  <2> QED
    BY <1>3, <2>2 DEF Complete, NowComplete
<1> DEFINE Fine(s) == /\ slots'[s].conn = "out" => wire'[s] = <<>>
                      /\ slots'[s].conn = "free" /\ wire'[s] # <<>> =>
                           \E k \in Tasks : NowComplete(k, wire'[s])
           Goal == \A s \in Slots : Fine(s)
<1> SUFFICES Goal
  BY DEF Answered, Complete, NowComplete
<1>4. ASSUME NEW s \in Slots, slots'[s].conn = slots[s].conn, wire'[s] = wire[s] PROVE Fine(s)
  <2>1. slots[s].conn = "free" /\ wire[s] # <<>> => \E k \in Tasks : Complete(k, wire[s])
    BY <1>1 DEF Answered
  <2> QED
    BY <1>1, <1>3, <1>4, <2>1 DEF Answered
<1>5. ASSUME NEW s \in Slots, slots'[s].conn = "stream" \/ wire'[s] = <<>> PROVE Fine(s)
  BY <1>5
<1>6. ASSUME NEW s \in Slots, NEW k \in Tasks, slots'[s].conn = "free", Complete(k, wire'[s])
      PROVE  Fine(s)
  BY <1>3, <1>6
<1> HIDE DEF Fine
<1>7. ASSUME slots' = slots, wire' = wire PROVE Goal
  BY <1>4, <1>7
<1>8. ASSUME NEW z \in Slots, Fine(z),
             \A s \in Slots : s # z => slots'[s] = slots[s] /\ wire'[s] = wire[s]
      PROVE  Goal
  BY <1>4, <1>8
<1>9. ASSUME NEW s \in Slots, Completed(s)
      PROVE  /\ parked[s][1] \in Tasks /\ wire[s] = <<>>
             /\ parked[s][2] = 0 => end[parked[s][1]] = "whole" /\ made[parked[s][1]] = 0
  <2>1. parked[s][1] # 0
    BY <1>1, <1>2, <1>9 DEF Completed, Completing
  <2>2. parked[s][1] \in Tasks /\ slots[s].conn = "out"
    BY <2>1, Waiting
  <2> QED
    BY <1>1, <2>1, <2>2 DEF Answered, Turns
<1>10. Terminator \in Gens \X Int /\ CutOff \in Gens \X Int
  <2>1. 0 \in Gens
    BY <1>1, ServerFacts DEF Gens
  <2> QED
    BY <2>1 DEF Terminator, CutOff
<1> HIDE DEF Goal
<1>11. CASE Flushing \/ Delivering \/ Reading \/ Missing
  BY <1>7, <1>11 DEF Flushing, Delivering, Reading, Missing
<1>12. ASSUME NEW l \in Tasks,
              Answering(l) \/ Starting(l) \/ Sending(l) \/ Failing(l) \/ Reporting(l)
       PROVE  Goal
  BY <1>7, <1>12 DEF Answering, Starting, Sending, Failing, Reporting
<1>13. ASSUME NEW l \in Tasks, NEW p \in Stages, NEW w, Moving(l, p, w) PROVE Goal
  BY <1>7, <1>13 DEF Moving
<1>14. ASSUME NEW l \in Tasks, NEW p \in Stages, Ending(l, p) PROVE Goal
  BY <1>7, <1>14 DEF Ending
<1>15. ASSUME NEW z \in Slots, Departed(z) PROVE Goal
  BY <1>7, <1>15 DEF Departed
<1>16. ASSUME NEW z \in Slots, NEW l \in Tasks, Spawning(z, l) PROVE Goal
  BY <1>7, <1>16 DEF Spawning
<1>17. ASSUME NEW z \in Slots, NEW n \in Nat, NEW g \in Gens, Acked(z, n, g) PROVE Goal
  BY <1>7, <1>17 DEF Acked
<1>18. ASSUME NEW z \in Slots, Asking(z) \/ Leaving(z) PROVE Goal
  <2>1. wire'[z] = <<>> /\ \A s \in Slots : s # z => slots'[s] = slots[s] /\ wire'[s] = wire[s]
    BY <1>2, <1>18 DEF Asking, Leaving
  <2> QED
    BY <1>5, <1>8, <2>1
<1>19. ASSUME NEW z \in Slots, Replying(z) PROVE Goal
  <2> DEFINE k == parked[z][1]
             q == <<HeadOf(k), Terminator>>
  <2>1. k \in Tasks /\ wire[z] = <<>> /\ end[k] = "whole" /\ made[k] = 0
    BY <1>9, <1>19 DEF Replying
  <2>2. /\ wire'[z] = wire[z] \o q \/ wire'[z] = wire[z]
        /\ \A s \in Slots : s # z => slots'[s] = slots[s] /\ wire'[s] = wire[s]
    BY <1>2, <1>19 DEF Replying
  <2>3. Len(q) = 2 /\ q[1] = HeadOf(k) /\ q[2] = Terminator /\ <<>> \o q = q
    OBVIOUS
  <2> HIDE DEF q, k
  <2>4. Complete(k, q)
    <3>1. Len(q) >= 2 /\ \A i \in 2 .. Len(q) - 1 : FALSE
      BY <2>3
    <3>2. Len(q) - 2 = made[k]
      BY <2>1, <2>3
    <3> QED
      BY <2>1, <2>3, <3>1, <3>2 DEF Complete
  <2>5. Fine(z)
    <3>1. CASE wire'[z] = wire[z]
      BY <1>5, <2>1, <3>1
    <3>2. CASE wire'[z] = wire[z] \o q
      <4>1. wire'[z] = q
        BY <2>1, <2>3, <3>2
      <4>2. slots'[z].conn = "free"
        BY <1>2, <1>19 DEF Replying
      <4> QED
        BY <1>6, <2>1, <2>4, <4>1, <4>2
    <3> QED
      BY <2>2, <3>1, <3>2
  <2> QED
    BY <1>8, <2>2, <2>5
<1>20. ASSUME NEW z \in Slots, Opening(z) PROVE Goal
  <2>1. slots'[z].conn = "stream"
        /\ \A s \in Slots : s # z => slots'[s] = slots[s] /\ wire'[s] = wire[s]
    BY <1>2, <1>20 DEF Opening
  <2> QED
    BY <1>5, <1>8, <2>1
<1>21. ASSUME NEW z \in Slots, Refusing(z) PROVE Goal
  <2>1. wire'[z] = <<>> /\ \A s \in Slots : s # z => slots'[s] = slots[s] /\ wire'[s] = wire[s]
    BY <1>2, <1>9, <1>21 DEF Refusing
  <2> QED
    BY <1>5, <1>8, <2>1
<1>22. ASSUME NEW z \in Slots, Draining(z) PROVE Goal
  <2>1. \A s \in Slots : s # z => slots'[s] = slots[s] /\ wire'[s] = wire[s]
    BY <1>2, <1>22 DEF Draining
  <2>2. slots[z].conn = "stream" /\ handler' = Drained(handler, z)
    BY <1>22 DEF Draining
  <2>3. CASE slots' = slots
    BY <1>5, <1>8, <2>1, <2>2, <2>3
  <2>4. CASE z \notin handler'.sub /\ slots' = [slots EXCEPT ![z] = [conn |-> "free", gen |-> 0]]
             /\ wire' = [wire EXCEPT ![z] = @ \o Append(handler.pending[z], Terminator)]
    <3> DEFINE k == slots[z].gen
               q == wire[z] \o Append(handler.pending[z], Terminator)
    <3>1. z \notin handler.sub \/ z \in handler.done
      BY <1>2, <2>2, <2>4, RegistryFacts
    <3>2. k \in Tasks /\ Streaming(z, k) /\ end[k] = "whole"
            /\ \A i \in DOMAIN chunk : chunk[i].gen # k
      BY <2>2, <3>1, Streams
    <3>3. PiecesOf(k) = {}
      BY <3>2 DEF PiecesOf
    <3>4. /\ Len(q) = Arrived(z) + 2 /\ Arrived(z) \in Nat /\ q[1] = HeadOf(k)
          /\ \A i \in 2 .. Len(q) - 1 : q[i] = Piece(k, i - 1)
          /\ q[Len(q)] = Terminator
      BY <1>10, <2>2, GoneOut
    <3>5. Arrived(z) = made[k]
      <4>1. Arrived(z) + 1 .. made[k] = {} /\ Arrived(z) <= made[k] /\ made[k] \in Nat
        BY <1>2, <3>2, <3>3 DEF Streaming
      <4> QED
        BY <3>4, <4>1
    <3>6. wire'[z] = q /\ slots'[z].conn = "free"
      BY <1>2, <2>4
    <3> HIDE DEF k, q
    <3>7. Len(q) >= 2 /\ Len(q) - 2 = made[k]
      BY <3>4, <3>5
    <3>8. Complete(k, q)
      BY <3>2, <3>4, <3>7 DEF Complete
    <3>9. Fine(z)
      BY <1>6, <3>2, <3>6, <3>8
    <3> QED
      BY <1>8, <2>1, <3>9
  <2> QED
    BY <1>22, <2>3, <2>4 DEF Draining
<1>23. ASSUME NEW z \in Slots, NEW g \in Gens, Cutting(z, g) PROVE Goal
  <2>1. /\ slots[z] = [conn |-> "stream", gen |-> g] /\ aborts # <<>> /\ g = aborts[1].gen
        /\ wire'[z] = wire[z] \o Append(handler.pending[z], CutOff) /\ slots'[z].conn = "free"
        /\ \A s \in Slots : s # z => slots'[s] = slots[s] /\ wire'[s] = wire[s]
    BY <1>2, <1>23 DEF Cutting
  <2>2. end[g] = "cut"
    BY <1>1, <1>2, <2>1 DEF Aborting
  <2>3. g \in Tasks /\ slots[z].conn = "stream" /\ slots[z].gen = g
    BY <2>1, Streams
  <2> DEFINE q == wire[z] \o Append(handler.pending[z], CutOff)
  <2>4. /\ Len(q) = Arrived(z) + 2 /\ Arrived(z) \in Nat /\ q[1] = HeadOf(g)
        /\ \A i \in 2 .. Len(q) - 1 : q[i] = Piece(g, i - 1)
        /\ q[Len(q)] = CutOff
    BY <1>10, <2>3, GoneOut
  <2>5. wire'[z] = q
    BY <2>1
  <2> HIDE DEF q
  <2>6. Len(q) >= 2
    BY <2>4
  <2>7. Complete(g, q)
    BY <2>2, <2>4, <2>6 DEF Complete
  <2>8. Fine(z)
    BY <1>6, <2>1, <2>3, <2>5, <2>7
  <2> QED
    BY <1>8, <2>1, <2>8
<1> QED
  BY <1>11, <1>12, <1>13, <1>14, <1>15, <1>16, <1>17, <1>18, <1>19, <1>20, <1>21, <1>22, <1>23
     DEF Step

-----------------------------------------------------------------------------
(* What is counted. *)

LEMMA PlacedNat ==
  ASSUME TypeOK, NEW s, NEW G
  PROVE  Placed(s, G) \in Nat
<1> DEFINE S == {i \in DOMAIN chunk :
                   chunk[i].slot = s /\ chunk[i].kind = "s" /\ chunk[i].gen \in G}
<1>1. chunk \in Seq(Frames)
  BY Typed
<1>2. DOMAIN chunk = 1 .. Len(chunk) /\ Len(chunk) \in Nat
  BY <1>1
<1>3. IsFiniteSet(S)
  <2>1. IsFiniteSet(1 .. Len(chunk))
    BY <1>2, FS_Interval
  <2>2. S \in SUBSET (1 .. Len(chunk))
    BY <1>2
  <2> QED
    BY <2>1, <2>2, FS_Subset
<1> QED
  BY <1>3, FS_CardinalityType DEF Placed

\* Whether a frame is a piece that is counted.
Counts(f, s, G) == f.slot = s /\ f.kind = "s" /\ f.gen \in G

\* One more frame.
LEMMA PlacedMore ==
  ASSUME TypeOK, NEW s, NEW G, NEW f, chunk' = Append(chunk, f)
  PROVE  Placed(s, G)' = Placed(s, G) + (IF Counts(f, s, G) THEN 1 ELSE 0)
<1> DEFINE S == {i \in DOMAIN chunk :
                   chunk[i].slot = s /\ chunk[i].kind = "s" /\ chunk[i].gen \in G}
           T == {i \in DOMAIN chunk' :
                   chunk'[i].slot = s /\ chunk'[i].kind = "s" /\ chunk'[i].gen \in G}
           n == Len(chunk) + 1
<1>1. /\ n \notin DOMAIN chunk /\ n \in DOMAIN chunk' /\ chunk'[n] = f
      /\ \A i \in DOMAIN chunk : i \in DOMAIN chunk' /\ chunk'[i] = chunk[i]
      /\ \A i \in DOMAIN chunk' : i \in DOMAIN chunk \/ i = n
  BY OneMore
<1>2. IsFiniteSet(S) /\ Cardinality(S) \in Nat
  <2>1. DOMAIN chunk = 1 .. Len(chunk) /\ Len(chunk) \in Nat
    <3>1. chunk \in Seq(Frames)
      BY Typed
    <3> QED
      BY <3>1
  <2>2. IsFiniteSet(1 .. Len(chunk)) /\ S \in SUBSET (1 .. Len(chunk))
    BY <2>1, FS_Interval
  <2>3. IsFiniteSet(S)
    BY <2>2, FS_Subset
  <2> QED
    BY <2>3, FS_CardinalityType
<1> HIDE DEF n
<1>3. CASE Counts(f, s, G)
  <2>1. T = S \cup {n} /\ n \notin S
    BY <1>1, <1>3 DEF Counts
  <2>2. Cardinality(S \cup {n}) = Cardinality(S) + 1
    <3> HIDE DEF S, T
    <3> QED
      BY <1>2, <2>1, FS_AddElement
  <2> QED
    BY <1>3, <2>1, <2>2 DEF Placed
<1>4. CASE ~Counts(f, s, G)
  <2>1. T = S
    BY <1>1, <1>4 DEF Counts
  <2>2. Cardinality(S) + 0 = Cardinality(S)
    BY <1>2
  <2> QED
    BY <1>4, <2>1, <2>2 DEF Placed
<1> QED
  BY <1>3, <1>4

\* None.
LEMMA PlacedNone ==
  ASSUME NEW s, NEW G, chunk' = <<>>
  PROVE  Placed(s, G)' = 0
<1>1. {i \in DOMAIN chunk' : chunk'[i].slot = s /\ chunk'[i].kind = "s" /\ chunk'[i].gen \in G} = {}
  OBVIOUS
<1> QED
  BY <1>1, FS_EmptySet DEF Placed

LEMMA PlacedNot ==
  ASSUME NEW s, NEW G, \A i \in DOMAIN chunk : chunk[i].gen \notin G
  PROVE  Placed(s, G) = 0
<1>1. {i \in DOMAIN chunk : chunk[i].slot = s /\ chunk[i].kind = "s" /\ chunk[i].gen \in G} = {}
  OBVIOUS
<1> QED
  BY <1>1, FS_EmptySet DEF Placed

\* No ack is of a stream that is counted.
Unpaid(q, A) == \A i \in DOMAIN q : q[i].gen \notin A

LEMMA PayingNot ==
  ASSUME NEW s, NEW A, NEW q \in Seq(Acks), Unpaid(q, A)
  PROVE  Paying(q, s, A) = 0
<1>1a. PICK h \in [0 .. Len(q) -> Nat] : PayAlong(h, q, s, A)
  BY PayingWalk
<1>1. /\ h[0] = 0 /\ h[Len(q)] = Paying(q, s, A)
      /\ \A i \in 1 .. Len(q) : h[i] = h[i - 1] + Brings(q[i], s, A)
  BY <1>1a DEF PayAlong
<1> DEFINE T == {i \in 0 .. Len(q) : h[i] = 0}
<1>2. Len(q) \in Nat /\ DOMAIN q = 1 .. Len(q)
  OBVIOUS
<1>3. 0 \in T
  BY <1>1, <1>2
<1>4. ASSUME NEW i \in 1 .. Len(q), i - 1 \in T PROVE i \in T
  <2>1. Brings(q[i], s, A) = 0 /\ h[i - 1] = 0
    BY <1>2, <1>4 DEF Brings, Unpaid
  <2>2. h[i] = h[i - 1] + Brings(q[i], s, A)
    BY <1>1
  <2> QED
    BY <2>1, <2>2
<1> HIDE DEF T
<1>5. \A i \in 0 .. Len(q) : i \in T
  BY <1>2, <1>3, <1>4, Along
<1>6. Len(q) \in T
  BY <1>2, <1>5
<1> QED
  BY <1>1, <1>6 DEF T

-----------------------------------------------------------------------------
(* What is to come of a slot. *)

LEMMA ComingIs ==
  ASSUME NEW s, NEW g, gens[s] = g
  PROVE  Coming(s) = IF g # 0 /\ Serving(s, g) THEN Placed(s, {g}) ELSE 0
BY DEF Coming

LEMMA ComingNext ==
  ASSUME NEW s, NEW g, gens'[s] = g
  PROVE  Coming(s)' = IF g # 0 /\ Serving(s, g)' THEN Placed(s, {g})' ELSE 0
BY DEF Coming, Serving, Placed

LEMMA ComingNat ==
  ASSUME TypeOK, NEW s \in Slots
  PROVE  Coming(s) \in Nat
<1>1. Placed(s, {gens[s]}) \in Nat
  BY PlacedNat
<1> QED
  BY <1>1 DEF Coming

TagSent(s) == \E i \in DOMAIN submit : submit[i] = Tag(s)
Due(s) == Coming(s) + Len(handler.pending[s]) + Returning(s, Gens)

LEMMA DueNat ==
  ASSUME TypeOK, NEW s \in Slots
  PROVE  /\ Coming(s) \in Nat /\ Len(handler.pending[s]) \in Nat /\ Returning(s, Gens) \in Nat
         /\ Due(s) \in Nat
<1>1. handler.pending[s] \in Seq(Tasks \X Nat) /\ acks \in Seq(Acks)
  BY Shapes, Typed
<1>2. Coming(s) \in Nat
  BY ComingNat
<1>3. Returning(s, Gens) \in Nat
  BY <1>1, PayingNat, ReturningPaying
<1> DEFINE c == Coming(s)
           p == Len(handler.pending[s])
           r == Returning(s, Gens)
<1>4. Due(s) = (c + p) + r
  BY DEF Due
<1>5. c \in Nat /\ p \in Nat /\ r \in Nat
  BY <1>1, <1>2, <1>3
<1>6. Due(s) \in Nat
  <2> HIDE DEF c, p, r
  <2> QED
    BY <1>4, <1>5
<1> QED
  BY <1>5, <1>6

\* A tag stands until the executor hears it.
LEMMA TagStep ==
  ASSUME TypeOK, Step, NEW s \in Slots, TagSent(s), ~Departed(s)
  PROVE  TagSent(s)'
<1> DEFINE Goal == TagSent(s)'
<1> SUFFICES Goal
  OBVIOUS
<1>1. submit \in Seq(Datagrams)
  BY Typed
<1>2. ASSUME submit' = submit PROVE Goal
  BY <1>2 DEF TagSent
<1>3. ASSUME NEW d, submit' = Append(submit, d) PROVE Goal
  <2>1. \A i \in DOMAIN submit : i \in DOMAIN submit' /\ submit'[i] = submit[i]
    BY <1>3, SubmitMore
  <2> QED
    BY <2>1 DEF TagSent
<1>4. ASSUME submit # <<>>, submit' = Tail(submit), submit[1] # Tag(s) PROVE Goal
  <2>1. \A i \in DOMAIN submit : i # 1 => i - 1 \in DOMAIN submit' /\ submit'[i - 1] = submit[i]
    BY <1>1, <1>4, Beheaded
  <2> QED
    BY <1>4, <2>1 DEF TagSent
<1>5. ASSUME NEW z \in Slots, Telling(z) PROVE Goal
  BY <1>2, <1>3, <1>5 DEF Telling
<1> HIDE DEF Goal
<1>6. CASE Flushing \/ Delivering \/ Reading \/ Missing
  BY <1>2, <1>6 DEF Flushing, Delivering, Reading, Missing
<1>7. ASSUME NEW l \in Tasks,
             Answering(l) \/ Starting(l) \/ Sending(l) \/ Failing(l) \/ Reporting(l)
      PROVE  Goal
  BY <1>2, <1>7 DEF Answering, Starting, Sending, Failing, Reporting
<1>8. ASSUME NEW l \in Tasks, NEW p \in Stages, NEW w, Moving(l, p, w) PROVE Goal
  BY <1>2, <1>8 DEF Moving
<1>9. ASSUME NEW l \in Tasks, NEW p \in Stages, Ending(l, p) PROVE Goal
  BY <1>2, <1>9 DEF Ending
<1>10. ASSUME NEW z \in Slots, Departed(z) PROVE Goal
  <2>1. submit # <<>> /\ submit' = Tail(submit) /\ submit[1].slot = z /\ z # s
    BY <1>10, SubmitFacts DEF Departed
  <2> QED
    BY <1>4, <2>1 DEF Tag
<1>11. ASSUME NEW z \in Slots, NEW l \in Tasks, Spawning(z, l) PROVE Goal
  <2>1. submit # <<>> /\ submit' = Tail(submit) /\ submit[1].tag = "job"
    BY <1>11, SubmitFacts DEF Spawning
  <2> QED
    BY <1>4, <2>1 DEF Tag
<1>12. ASSUME NEW z \in Slots, NEW n \in Nat, NEW g \in Gens, Acked(z, n, g) PROVE Goal
  BY <1>2, <1>12 DEF Acked
<1>13. ASSUME NEW z \in Slots, Asking(z) PROVE Goal
  BY <1>3, <1>13 DEF Asking
<1>14. ASSUME NEW z \in Slots, Replying(z) \/ Opening(z) \/ Draining(z) PROVE Goal
  BY <1>2, <1>14 DEF Replying, Opening, Draining
<1>15. ASSUME NEW z \in Slots, Refusing(z) \/ Leaving(z) PROVE Goal
  BY <1>5, <1>15 DEF Refusing, Leaving
<1>16. ASSUME NEW z \in Slots, NEW g \in Gens, Cutting(z, g) PROVE Goal
  BY <1>5, <1>16 DEF Cutting
<1> QED
  BY <1>6, <1>7, <1>8, <1>9, <1>10, <1>11, <1>12, <1>13, <1>14, <1>15, <1>16 DEF Step

\* The common window: what leaves it is in flight.
LEMMA SumStep ==
  ASSUME Inductive, Step
  PROVE  global' + FoldFunction(+, 0, inflight') = server'.total
<1>1. /\ inflight \in [Slots -> Int] /\ inflight \in [Slots -> Nat] /\ at \in [Tasks -> Slots]
      /\ global \in Int /\ TypeOK
  <2>1. TypeOK
    BY DEF Inductive
  <2>2. inflight \in [Slots -> Nat]
    BY <2>1, Typed
  <2>3. inflight \in [Slots -> Int]
    BY <2>2
  <2> QED
    BY <2>1, <2>2, <2>3, Typed
<1>2. IsFiniteSet(Slots)
  BY <1>1, ServerFacts, FS_Interval DEF Slots
<1>3. global + FoldFunction(+, 0, inflight) = server.total
  BY DEF Inductive, Refunded
<1> DEFINE Goal == global' + FoldFunction(+, 0, inflight') = server'.total
<1> SUFFICES Goal
  OBVIOUS
<1>4. ASSUME global' = global, inflight' = inflight, server' = server PROVE Goal
  BY <1>3, <1>4
<1>5. ASSUME NEW z \in Slots, NEW v \in Int, inflight' = [inflight EXCEPT ![z] = v],
             global' = (global + inflight[z]) - v, server' = server
      PROVE  Goal
  <2> DEFINE m == FoldFunction(+, 0, inflight)
             n == FoldFunction(+, 0, [inflight EXCEPT ![z] = v])
  <2>1. m \in Int /\ n = (m + v) - inflight[z]
    BY <1>1, <1>2, SumUpdate
  <2>2. inflight[z] \in Int
    BY <1>1
  <2>3. global + m = server.total
    BY <1>3
  <2>4. FoldFunction(+, 0, inflight') = n
    BY <1>5
  <2> HIDE DEF m, n
  <2>5. global' + n = server.total
    BY <1>1, <1>5, <2>1, <2>2, <2>3
  <2> QED
    BY <1>5, <2>4, <2>5
<1> HIDE DEF Goal
<1>6. CASE Flushing \/ Delivering \/ Reading \/ Missing
  BY <1>4, <1>6 DEF Flushing, Delivering, Reading, Missing
<1>7. ASSUME NEW l \in Tasks, Answering(l) \/ Starting(l) \/ Failing(l) PROVE Goal
  BY <1>4, <1>7 DEF Answering, Starting, Failing
<1>8. ASSUME NEW l \in Tasks, Sending(l) PROVE Goal
  <2> DEFINE v == inflight[at[l]] + 1
  <2>1. v \in Int /\ global - 1 = (global + inflight[at[l]]) - v /\ at[l] \in Slots
    BY <1>1
  <2>2. inflight' = [inflight EXCEPT ![at[l]] = v] /\ global' = global - 1 /\ server' = server
    BY <1>8 DEF Sending
  <2> HIDE DEF v
  <2> QED
    BY <1>5, <2>1, <2>2
<1>9. ASSUME NEW z \in Slots, inflight' = [inflight EXCEPT ![z] = 0],
             global' = global + inflight[z],
             server' = server
      PROVE  Goal
  <2> DEFINE v == 0
  <2>1. global' = (global + inflight[z]) - v /\ v \in Int /\ inflight' = [inflight EXCEPT ![z] = v]
    BY <1>1, <1>9
  <2> HIDE DEF v
  <2> QED
    BY <1>5, <1>9, <2>1
<1>10. ASSUME NEW l \in Tasks, Reporting(l) PROVE Goal
  <2>1. at[l] \in Slots /\ server' = server
    BY <1>1, <1>10 DEF Reporting
  <2> QED
    BY <1>4, <1>9, <1>10, <2>1 DEF Reporting
<1>11. ASSUME NEW l \in Tasks, NEW p \in Stages, NEW w, Moving(l, p, w) PROVE Goal
  BY <1>4, <1>11 DEF Moving
<1>12. ASSUME NEW l \in Tasks, NEW p \in Stages, Ending(l, p) PROVE Goal
  BY <1>4, <1>12 DEF Ending
<1>13. ASSUME NEW z \in Slots, Departed(z) PROVE Goal
  BY <1>9, <1>13 DEF Departed
<1>14. ASSUME NEW z \in Slots, NEW l \in Tasks, Spawning(z, l) PROVE Goal
  BY <1>4, <1>14 DEF Spawning
<1>15. ASSUME NEW z \in Slots, NEW n \in Nat, NEW g \in Gens, Acked(z, n, g) PROVE Goal
  <2> DEFINE d == Least(n, inflight[z])
             v == inflight[z] - d
  <2>1. inflight[z] \in Int
    BY <1>1
  <2>2. d \in Int
    BY <2>1 DEF Least
  <2>3. global' = global + d /\ inflight' = [inflight EXCEPT ![z] = v] /\ server' = server
    BY <1>15 DEF Acked
  <2> HIDE DEF d
  <2>4. v \in Int /\ global + d = (global + inflight[z]) - v
    BY <1>1, <2>1, <2>2
  <2> HIDE DEF v
  <2> QED
    BY <1>5, <2>3, <2>4
<1>16. ASSUME NEW z \in Slots,
              \/ Asking(z) \/ Replying(z) \/ Opening(z) \/ Refusing(z)
              \/ Draining(z) \/ Leaving(z)
       PROVE  Goal
  BY <1>4, <1>16 DEF Asking, Replying, Opening, Refusing, Draining, Leaving
<1>17. ASSUME NEW z \in Slots, NEW g \in Gens, Cutting(z, g) PROVE Goal
  BY <1>4, <1>17 DEF Cutting
<1> QED
  BY <1>6, <1>7, <1>8, <1>10, <1>11, <1>12, <1>13, <1>14, <1>15, <1>16, <1>17 DEF Step

-----------------------------------------------------------------------------
(* Refunded stays. *)

\* What a delivery does to a slot's dues: nothing.
LEMMA DueDelivered ==
  ASSUME Inductive, NEW s \in Slots
  PROVE  Len(Delivered.pending[s]) = Coming(s) + Len(handler.pending[s])
<1>1. TypeOK /\ Homed /\ Turns /\ Ordered /\ Registered /\ Served /\ Owning
  BY DEF Inductive
<1> DEFINE g == gens[s]
<1>2. g \in Gens /\ \A k \in Tasks : Serving(s, k) => g = k
  BY <1>1, Shapes DEF Owning
<1>3. Coming(s) = IF g # 0 /\ Serving(s, g) THEN Placed(s, {g}) ELSE 0
  BY ComingIs
<1>4. CASE g # 0 /\ Serving(s, g)
  <2>1. g \in Tasks
    BY <1>1, <1>2, <1>4, Shapes
  <2>2. Len(Delivered.pending[s]) = Len(handler.pending[s]) + Placed(s, {g})
    BY <1>1, <1>4, <2>1, Arrives
  <2>3. Placed(s, {g}) \in Nat /\ Len(handler.pending[s]) \in Nat
    BY <1>1, PlacedNat, Shapes
  <2> QED
    BY <1>3, <1>4, <2>2, <2>3
<1>5. CASE ~(g # 0 /\ Serving(s, g))
  <2>1. \A k \in Tasks : ~Serving(s, k)
    BY <1>1, <1>2, <1>5, Shapes
  <2>2. Delivered.pending[s] = <<>> /\ handler.pending[s] = <<>>
    BY <1>1, <2>1, Rests
  <2>3. Len(<<>>) = 0
    OBVIOUS
  <2> QED
    BY <1>3, <1>5, <2>2, <2>3
<1> QED
  BY <1>4, <1>5

Dues ==
  \A s \in Slots :
    Coming(s) \in Nat /\ Len(handler.pending[s]) \in Nat /\ Returning(s, Gens) \in Nat

Backs == \A s, A : Returning(s, A) = Paying(acks, s, A)

LEMMA BacksAre == Backs
  BY ReturningPaying DEF Backs

LEMMA ReturningNext == \A s, A : Returning(s, A)' = Paying(acks', s, A)
<1>1. Backs'
  BY BacksAre, PTL
<1> QED
  BY <1>1 DEF Backs

LEMMA DuesNat == TypeOK => Dues
  BY DueNat DEF Dues

LEMMA OwedStep ==
  ASSUME Inductive, HasRoom, Step, TypeOK', NEW s \in Slots
  PROVE  TagSent(s)' \/ inflight'[s] <= Due(s)'
<1>1. TypeOK /\ Owning /\ TypeOK' /\ Turns /\ Completing
  BY DEF Inductive
<1>2. /\ inflight \in [Slots -> Nat] /\ inflight' \in [Slots -> Nat] /\ at \in [Tasks -> Slots]
      /\ inflight[s] \in Nat /\ inflight'[s] \in Nat
      /\ gens \in [Slots -> Gens] /\ parked \in [Slots -> Gens \X Gens] /\ acks \in Seq(Acks)
      /\ slots \in [Slots -> [conn : {"free", "out", "stream"}, gen : Gens]]
      /\ handler \in Registries
      /\ gens[s] \in Gens /\ submit \in Seq(Datagrams)
  <2>1. inflight \in [Slots -> Nat] /\ inflight' \in [Slots -> Nat]
    BY <1>1 DEF TypeOK
  <2> QED
    BY <1>1, <2>1, Typed
<1>3. TagSent(s) \/ inflight[s] <= Due(s)
  BY DEF Inductive, Refunded, TagSent, Due
\* Its parts, before and after.
<1> DEFINE c == Coming(s)
           p == Len(handler.pending[s])
           r == Returning(s, Gens)
           cc == Coming(s)'
           pp == Len(handler'.pending[s])
           rr == Returning(s, Gens)'
           i == inflight[s]
           ii == inflight'[s]
           Goal == TagSent(s)' \/ inflight'[s] <= Due(s)'
<1>4. /\ c \in Nat /\ p \in Nat /\ r \in Nat /\ Due(s) = c + p + r
      /\ cc \in Nat /\ pp \in Nat /\ rr \in Nat /\ Due(s)' = cc + pp + rr
      /\ i \in Nat /\ ii \in Nat
  <2>1. c \in Nat /\ p \in Nat /\ r \in Nat /\ Due(s) = c + p + r
    BY <1>1, DueNat DEF Due
  <2>2. cc \in Nat /\ pp \in Nat /\ rr \in Nat
    <3>1. TypeOK' => Dues'
      BY DuesNat, PTL
    <3> QED
      BY <1>1, <3>1 DEF Dues
  <2>3. Due(s)' = cc + pp + rr
    BY DEF Due
  <2> QED
    BY <1>2, <2>1, <2>2, <2>3
<1> SUFFICES Goal
  OBVIOUS
<1>5. ASSUME ii <= i, cc + pp + rr >= c + p + r PROVE Goal
  <2>1. CASE Departed(s)
    <3>1. ii = 0
      BY <1>2, <2>1 DEF Departed
    <3>2. ii <= cc + pp + rr
      BY <1>4, <3>1
    <3> QED
      BY <1>4, <3>2
  <2>2. CASE TagSent(s) /\ ~Departed(s)
    BY <1>1, <2>2, TagStep
  <2>3. CASE inflight[s] <= Due(s)
    <3>1. i <= c + p + r
      BY <1>4, <2>3
    <3> HIDE DEF c, p, r, i, cc, pp, rr
    <3>2. ii <= cc + pp + rr
      <4> HIDE DEF ii
      <4> QED
        BY <1>4, <1>5, <3>1
    <3> QED
      BY <1>4, <3>2
  <2> QED
    BY <1>3, <2>1, <2>2, <2>3
<1>6. ASSUME ii <= cc + pp + rr PROVE Goal
  BY <1>4, <1>6
<1>7. ASSUME NEW d, submit' = Append(submit, Tag(s)) PROVE Goal
  BY <1>1, <1>7, SubmitMore DEF TagSent
<1>8. ASSUME Telling(s) PROVE Goal
  BY <1>7, <1>8 DEF Telling
\* What is to come.
<1>9. ASSUME \A k \in Tasks : ~Serving(s, k) PROVE c = 0
  <2>1. gens[s] # 0 => gens[s] \in Tasks
    BY <1>1, Shapes
  <2> QED
    BY <1>9, <2>1 DEF Coming
<1>10. ASSUME gens'[s] = gens[s], parked'[s] = parked[s], slots'[s] = slots[s], chunk' = chunk
       PROVE  cc = c
  BY <1>10 DEF Coming, Serving, Placed
<1>11. ASSUME gens'[s] = gens[s], parked'[s] = parked[s], slots'[s] = slots[s],
              NEW f, chunk' = Append(chunk, f)
       PROVE  /\ cc >= c
              /\ Serving(s, gens[s]) /\ gens[s] # 0 /\ Counts(f, s, {gens[s]}) => cc = c + 1
  <2> DEFINE g == gens[s]
  <2>1. c = IF g # 0 /\ Serving(s, g) THEN Placed(s, {g}) ELSE 0
    BY ComingIs
  <2>2. ASSUME NEW h, h = g
        PROVE  /\ cc = IF h # 0 /\ Serving(s, h)' THEN Placed(s, {h})' ELSE 0
               /\ Serving(s, h)' <=> Serving(s, h)
               /\ Placed(s, {h})' = Placed(s, {h}) + (IF Counts(f, s, {h}) THEN 1 ELSE 0)
    <3>1. gens'[s] = h
      BY <1>11, <2>2
    <3>2. Placed(s, {h})' = Placed(s, {h}) + (IF Counts(f, s, {h}) THEN 1 ELSE 0)
      BY <1>1, <1>11, PlacedMore
    <3>3. Serving(s, h)' <=> Serving(s, h)
      BY <1>11 DEF Serving
    <3> QED
      BY <3>1, <3>2, <3>3, ComingNext
  <2>3. PICK h : h = g
    OBVIOUS
  <2>4. Placed(s, {h}) \in Nat
    BY <1>1, PlacedNat
  <2>5. c = IF h # 0 /\ Serving(s, h) THEN Placed(s, {h}) ELSE 0
    BY <2>1, <2>3
  <2> HIDE DEF c, cc
  <2>6. cc = IF h # 0 /\ Serving(s, h)' THEN Placed(s, {h})' ELSE 0
    BY <2>2, <2>3
  <2>7. Serving(s, h)' <=> Serving(s, h)
    BY <2>2, <2>3
  <2>8. Placed(s, {h})' = Placed(s, {h}) + (IF Counts(f, s, {h}) THEN 1 ELSE 0)
    BY <2>2, <2>3
  <2>9. /\ cc >= c
        /\ Serving(s, h) /\ h # 0 /\ Counts(f, s, {h}) => cc = c + 1
    BY <2>4, <2>5, <2>6, <2>7, <2>8
  <2> QED
    BY <2>3, <2>9
<1>20. rr = Paying(acks', s, Gens)
  BY ReturningNext
<1> HIDE DEF Goal
<1>12. ASSUME ii = i, gens'[s] = gens[s], parked'[s] = parked[s], slots'[s] = slots[s],
              chunk' = chunk,
              handler' = handler, acks' = acks
       PROVE  Goal
  <2>1. cc = c
    BY <1>10, <1>12
  <2>2. pp = p /\ rr = r
    BY <1>12, <1>20, ReturningPaying
  <2> HIDE DEF c, p, r, i, cc, pp, rr, ii
  <2> QED
    BY <1>4, <1>5, <1>12, <2>1, <2>2
\* The steps.
<1>13. ASSUME cc = c \/ c = 0 \/ cc >= c, ii = i, handler' = handler, acks' = acks PROVE Goal
  <2>1. pp = p /\ rr = r
    BY <1>13, <1>20, ReturningPaying
  <2> HIDE DEF c, p, r, i, cc, pp, rr, ii
  <2> QED
    BY <1>4, <1>5, <1>13, <2>1
<1>14. CASE Flushing \/ Reading \/ Missing
  BY <1>12, <1>14 DEF Flushing, Reading, Missing
<1>15. ASSUME NEW l \in Tasks, stage[l] \in {"run", "failed"}, at[l] = s PROVE c = 0
  BY <1>9, <1>15, Blank
<1>16. ASSUME NEW l \in Tasks, Answering(l) PROVE Goal
  <2>1. CASE at[l] = s
    <3>1. c = 0
      BY <1>15, <1>16, <2>1 DEF Answering
    <3> QED
      BY <1>13, <1>16, <3>1 DEF Answering
  <2>2. CASE at[l] # s
    BY <1>2, <1>12, <1>16, <2>2 DEF Answering
  <2> QED
    BY <2>1, <2>2
<1>17. ASSUME NEW l \in Tasks, Starting(l) PROVE Goal
  <2>1. CASE at[l] = s
    <3>1. c = 0
      BY <1>15, <1>17, <2>1 DEF Starting
    <3> QED
      BY <1>13, <1>17, <3>1 DEF Starting
  <2>2. CASE at[l] # s
    <3>1. gens'[s] = gens[s] /\ parked'[s] = parked[s] /\ slots'[s] = slots[s]
      BY <1>2, <1>17, <2>2 DEF Starting
    <3>2. cc >= c
      BY <1>11, <1>17, <3>1 DEF Starting
    <3> QED
      BY <1>13, <1>17, <3>2 DEF Starting
  <2> QED
    BY <2>1, <2>2
<1>18. ASSUME NEW l \in Tasks, Sending(l) PROVE Goal
  <2> DEFINE f == Frame("s", at[l], gens[at[l]], Piece(l, made[l] + 1))
  <2>1. /\ chunk' = Append(chunk, f) /\ gens' = gens /\ parked' = parked /\ slots' = slots
        /\ handler' = handler /\ acks' = acks /\ submit' = submit
        /\ stage[l] \in Live /\ l \notin gone
        /\ inflight' = [inflight EXCEPT ![at[l]] = inflight[at[l]] + 1]
        /\ f.slot = at[l] /\ f.kind = "s" /\ f.gen = gens[at[l]]
    BY <1>18 DEF Sending, Frame
  <2> HIDE DEF f
  <2>2. cc >= c
    BY <1>11, <2>1
  <2>3. CASE at[l] # s
    <3>1. ii = i
      BY <1>2, <2>1, <2>3
    <3> QED
      BY <1>13, <2>1, <2>2, <3>1
  <2>4. CASE at[l] = s
    <3>1. gens[s] = l /\ (Serving(s, l) \/ Departing(s))
      BY <2>1, <2>4, Alive
    <3>2. CASE Departing(s)
      <4>1. TagSent(s)
        BY <3>2 DEF Departing, TagSent
      <4> QED
        BY <2>1, <4>1 DEF TagSent, Goal
    <3>3. CASE Serving(s, l)
      <4>1. l # 0
        BY TaskIsGen
      <4>2. Counts(f, s, {gens[s]})
        BY <2>1, <2>4, <3>1 DEF Counts
      <4>3. cc = c + 1
        BY <1>11, <2>1, <3>1, <3>3, <4>1, <4>2
      <4>4. ii = i + 1
        BY <1>2, <2>1, <2>4
      <4>5. pp = p /\ rr = r
        BY <2>1, <1>20, ReturningPaying
      <4>6. CASE TagSent(s)
        BY <2>1, <4>6 DEF TagSent, Goal
      <4>7. CASE inflight[s] <= Due(s)
        <5>1. i <= c + p + r
          BY <1>4, <4>7
        <5> HIDE DEF c, p, r, i, cc, pp, rr, ii
        <5>2. ii <= cc + pp + rr
          BY <1>4, <4>3, <4>4, <4>5, <5>1
        <5> QED
          BY <1>6, <5>2
      <4> QED
        BY <1>3, <4>6, <4>7
    <3> QED
      BY <3>1, <3>2, <3>3
  <2> QED
    BY <2>3, <2>4
<1>19. ASSUME NEW l \in Tasks, NEW q \in Stages, Ending(l, q) PROVE Goal
  <2>1. cc >= c
    BY <1>11, <1>19 DEF Ending
  <2> QED
    BY <1>13, <1>19, <2>1 DEF Ending
<1>21. ASSUME NEW l \in Tasks, Failing(l) PROVE Goal
  BY <1>12, <1>21 DEF Failing
<1>22. ASSUME NEW l \in Tasks, NEW q \in Stages, NEW w, Moving(l, q, w) PROVE Goal
  BY <1>12, <1>22 DEF Moving
<1>23. ASSUME NEW z \in Slots, NEW l \in Tasks, Spawning(z, l) PROVE Goal
  BY <1>12, <1>23 DEF Spawning
<1>24. ASSUME ii <= i, cc >= c \/ c = 0, handler' = handler, acks' = acks PROVE Goal
  <2>1. pp = p /\ rr = r
    BY <1>24, <1>20, ReturningPaying
  <2> HIDE DEF c, p, r, i, cc, pp, rr, ii
  <2> QED
    BY <1>4, <1>5, <1>24, <2>1
<1>25. ASSUME NEW l \in Tasks, Reporting(l) PROVE Goal
  <2>1. ii <= i
    <3>1. CASE inflight' = inflight
      BY <1>4, <3>1
    <3>2. CASE inflight' = [inflight EXCEPT ![at[l]] = 0]
      <4>1. ii = i \/ ii = 0
        BY <1>2, <3>2
      <4> QED
        BY <1>4, <4>1
    <3> QED
      BY <1>25, <3>1, <3>2 DEF Reporting
  <2>2. cc >= c \/ c = 0
    <3>1. CASE at[l] = s /\ stage[l] = "failed"
      BY <1>15, <3>1
    <3>2. CASE ~(at[l] = s /\ stage[l] = "failed")
      <4>1. parked'[s] = parked[s]
        BY <1>2, <1>25, <3>2 DEF Reporting
      <4>2. cc = c
        BY <1>10, <1>25, <4>1 DEF Reporting
      <4> HIDE DEF c, cc
      <4> QED
        BY <1>4, <4>2
    <3> QED
      BY <3>1, <3>2
  <2> QED
    BY <1>24, <1>25, <2>1, <2>2 DEF Reporting
<1>26. ASSUME NEW z \in Slots, Departed(z) PROVE Goal
  <2>1. ii <= i
    <3>1. ii = i \/ ii = 0
      BY <1>2, <1>26 DEF Departed
    <3> QED
      BY <1>4, <3>1
  <2>2. cc = c
    BY <1>10, <1>26 DEF Departed
  <2>3. cc >= c
    <3> HIDE DEF c, cc
    <3> QED
      BY <1>4, <2>2
  <2> QED
    BY <1>24, <1>26, <2>1, <2>3 DEF Departed
\* Credit comes back.
<1>27. ASSUME NEW z \in Slots, NEW n \in Nat, NEW g \in Gens, Acked(z, n, g) PROVE Goal
  <2>1. /\ acks # <<>> /\ Head(acks) = [slot |-> z, n |-> n, gen |-> g] /\ acks' = Tail(acks)
        /\ inflight' = [inflight EXCEPT ![z] = inflight[z] - Least(n, inflight[z])]
        /\ handler' = handler /\ submit' = submit
    BY <1>27 DEF Acked
  <2>2. cc = c
    BY <1>10, <1>27 DEF Acked
  <2> DEFINE b == Brings(Head(acks), s, Gens)
  <2>3. r = rr + b
    BY <1>2, <1>20, <2>1, PayingLess, ReturningPaying
  <2>4. pp = p
    BY <2>1
  <2>5. CASE z # s
    <3>1. b = 0
      BY <2>1, <2>5 DEF Brings
    <3>2. ii = i
      BY <1>2, <2>1, <2>5
    <3> HIDE DEF c, p, r, i, cc, pp, rr, ii, b
    <3> QED
      BY <1>4, <1>5, <2>2, <2>3, <2>4, <3>1, <3>2
  <2>6. CASE z = s
    <3>1. b = n
      BY <2>1, <2>6 DEF Brings
    <3>2. ii = i - Least(n, i)
      BY <1>2, <2>1, <2>6
    <3>3. CASE TagSent(s)
      BY <2>1, <3>3 DEF TagSent, Goal
    <3>4. CASE inflight[s] <= Due(s)
      <4>1. i <= c + p + r
        BY <1>4, <3>4
      <4> HIDE DEF c, p, r, i, cc, pp, rr, ii, b
      <4>2. ii <= cc + pp + rr
        BY <1>4, <2>2, <2>3, <2>4, <3>1, <3>2, <4>1 DEF Least
      <4> QED
        BY <1>6, <4>2
    <3> QED
      BY <1>3, <3>3, <3>4
  <2> QED
    BY <2>5, <2>6
<1>28. ASSUME NEW z \in Slots, Asking(z) PROVE Goal
  <2>1. CASE z # s
    BY <1>2, <1>12, <1>28, <2>1 DEF Asking
  <2>2. CASE z = s
    <3>1. slots[s].conn = "free"
      BY <1>28, <2>2 DEF Asking
    <3>2. \A k \in Tasks : ~Serving(s, k)
      <4>1. parked[s][1] # 0 => slots[s].conn = "out"
        BY Waiting
      <4>2. ASSUME NEW k \in Tasks, Serving(s, k) PROVE FALSE
        <5>1. k # 0 /\ parked[s] = <<k, k>>
          BY <3>1, <4>2, TaskIsGen DEF Serving
        <5> QED
          BY <3>1, <4>1, <5>1
      <4> QED
        BY <4>2
    <3>3. c = 0
      BY <1>9, <3>2
    <3> QED
      BY <1>13, <1>28, <3>3 DEF Asking
  <2> QED
    BY <2>1, <2>2
<1>29. ASSUME NEW z \in Slots, Replying(z) PROVE Goal
  <2>1. CASE z # s
    BY <1>2, <1>12, <1>29, <2>1 DEF Replying, Completed
  <2>2. CASE z = s
    <3>1. parked[s][1] # 0
      <4>1. batch \in Seq(Entries)
        BY <1>1, Typed
      <4>2. QED
        <5>1. batch # <<>> /\ s = batch[1].slot
          BY <1>29, <2>2 DEF Replying, Completed
        <5>2. 1 \in DOMAIN batch
          BY <4>1, <5>1
        <5> QED
          BY <1>1, <5>1, <5>2 DEF Completing
    <3>2. \A k \in Tasks : ~Serving(s, k)
      BY <1>29, <2>2, <3>1, Waiting DEF Replying
    <3>3. c = 0
      BY <1>9, <3>2
    <3> QED
      BY <1>13, <1>29, <3>3 DEF Replying
  <2> QED
    BY <2>1, <2>2
\* Deliveries.
<1>30. ASSUME handler'.pending[s] = Delivered.pending[s], acks' = acks,
              inflight' = inflight
       PROVE  Goal
  <2>1. pp = c + p
    BY <1>30, DueDelivered
  <2>2. rr = r
    BY <1>20, <1>30, ReturningPaying
  <2>3. ii = i
    BY <1>30
  <2> HIDE DEF c, p, r, i, cc, pp, rr, ii
  <2> QED
    BY <1>4, <1>5, <2>1, <2>2, <2>3
<1>31. CASE Delivering
  BY <1>30, <1>31 DEF Delivering
<1>32. ASSUME NEW z \in Slots, Opening(z) PROVE Goal
  BY <1>30, <1>32 DEF Opening
<1>33. ASSUME NEW z \in Slots, Refusing(z) PROVE Goal
  <2>1. CASE z = s
    BY <1>8, <1>33, <2>1 DEF Refusing
  <2>2. CASE z # s
    <3>1. Without(Delivered, z)
      BY <1>1, <1>33, Forgotten
    <3>2. handler'.pending[s] = Delivered.pending[s]
      BY <2>2, <3>1 DEF Without
    <3> QED
      BY <1>30, <1>33, <3>2 DEF Refusing
  <2> QED
    BY <2>1, <2>2
\* What goes out comes back.
<1>34. ASSUME handler'.pending[s] = handler.pending[s], gens'[s] = gens[s], parked'[s] = parked[s],
              slots'[s] = slots[s], chunk' = chunk, rr = r, ii = i
       PROVE  Goal
  <2>1. cc = c
    BY <1>10, <1>34
  <2>2. pp = p
    BY <1>34
  <2> HIDE DEF c, p, r, i, cc, pp, rr, ii
  <2> QED
    BY <1>4, <1>5, <1>34, <2>1, <2>2
<1>35. ASSUME NEW z \in Slots, Draining(z) PROVE Goal
  <2> DEFINE a == [slot |-> z, n |-> Len(handler.pending[z]), gen |-> slots[z].gen]
  <2>1. /\ handler' = Drained(handler, z) /\ slots[z].conn = "stream"
        /\ \/ handler.pending[z] = <<>> /\ acks' = acks
           \/ handler.pending[z] # <<>> /\ acks' = Append(acks, a)
        /\ \/ slots' = slots
           \/ slots' = [slots EXCEPT ![z] = [conn |-> "free", gen |-> 0]]
        /\ (slots' # slots => z \notin handler'.sub)
        /\ gens' = gens /\ parked' = parked /\ chunk' = chunk /\ inflight' = inflight
    <3>1. /\ handler' = Drained(handler, z) /\ slots[z].conn = "stream"
          /\ gens' = gens /\ parked' = parked /\ chunk' = chunk /\ inflight' = inflight
      BY <1>35 DEF Draining
    <3>2. \/ handler.pending[z] = <<>> /\ acks' = acks
          \/ handler.pending[z] # <<>> /\ acks' = Append(acks, a)
      BY <1>35 DEF Draining
    <3>3. \/ slots' = slots
          \/ slots' = [slots EXCEPT ![z] = [conn |-> "free", gen |-> 0]] /\ z \notin handler'.sub
      BY <1>35 DEF Draining
    <3> HIDE DEF a
    <3> QED
      BY <3>1, <3>2, <3>3
  <2>2. a \in Acks
    <3>1. Len(handler.pending[z]) \in Nat /\ slots[z].gen \in Gens
      BY <1>1, Shapes
    <3> QED
      BY <3>1 DEF Acks
  <2>3. a.slot = z /\ a.n = Len(handler.pending[z]) /\ a.gen \in Gens
    BY <2>2 DEF Acks
  <2> HIDE DEF a
  <2> DEFINE b == Brings(a, s, Gens)
  <2>4. ASSUME acks' = Append(acks, a) PROVE rr = r + b
    BY <1>2, <1>20, <2>2, <2>4, PayingMore, ReturningPaying
  <2>5. ASSUME acks' = acks PROVE rr = r
    BY <1>20, <2>5, ReturningPaying
  <2>6. CASE z # s
    <3>1. b = 0
      BY <2>3, <2>6 DEF Brings
    <3>2. rr = r
      <4> HIDE DEF r, rr, b
      <4> QED
        BY <1>4, <2>1, <2>4, <2>5, <3>1
    <3>3. handler'.pending[s] = handler.pending[s] /\ slots'[s] = slots[s]
      <4>1. s \in Slots \ {z}
        BY <2>6
      <4>2. \A y \in Slots \ {z} : Drained(handler, z).pending[y] = handler.pending[y]
        BY <1>2, RegistryFacts
      <4> QED
        BY <1>2, <2>1, <4>1, <4>2
    <3>4. ii = i
      BY <2>1
    <3> QED
      BY <1>34, <2>1, <3>2, <3>3, <3>4
  <2>7. CASE z = s
    <3>1. b = p
      BY <2>3, <2>7 DEF Brings
    <3>2. rr = r + p
      <4>1. handler.pending[s] = <<>> => p = 0
        OBVIOUS
      <4> HIDE DEF r, rr, b, p
      <4> QED
        BY <1>4, <2>1, <2>4, <2>5, <2>7, <3>1, <4>1
    <3>3. ii = i
      BY <2>1
    <3>4. cc >= c
      <4>1. CASE slots' = slots
        <5>1. cc = c
          BY <1>10, <2>1, <4>1
        <5> HIDE DEF c, cc
        <5> QED
          BY <1>4, <5>1
      <4>2. CASE slots' # slots
        <5>1. s \notin handler.sub \/ s \in handler.done
          BY <1>2, <2>1, <2>7, <4>2, RegistryFacts
        <5>2. gens[s] = slots[s].gen /\ \A x \in DOMAIN chunk : chunk[x].gen # slots[s].gen
          BY <2>1, <2>7, <5>1, Streams
        <5>3. Placed(s, {gens[s]}) = 0
          <6>1. \A x \in DOMAIN chunk : chunk[x].gen \notin {gens[s]}
            BY <5>2
          <6> QED
            BY <6>1, PlacedNot
        <5>4. c = 0
          BY <5>3 DEF Coming
        <5> HIDE DEF c, cc
        <5> QED
          BY <1>4, <5>4
      <4> QED
        BY <4>1, <4>2
    <3> HIDE DEF c, p, r, i, cc, pp, rr, ii
    <3> QED
      BY <1>4, <1>5, <3>2, <3>3, <3>4
  <2> QED
    BY <2>6, <2>7
<1>36. ASSUME NEW z \in Slots, Without(handler, z), Telling(z),
              slots' = [slots EXCEPT ![z].conn = "free"],
              UNCHANGED <<gens, parked, chunk, inflight, acks>>
       PROVE  Goal
  <2>1. CASE z = s
    BY <1>8, <1>36, <2>1
  <2>2. CASE z # s
    <3>1. handler'.pending[s] = handler.pending[s] /\ slots'[s] = slots[s]
      BY <1>2, <1>36, <2>2 DEF Without
    <3>2. rr = r
      BY <1>20, <1>36, ReturningPaying
    <3>3. ii = i
      BY <1>36
    <3> QED
      BY <1>34, <1>36, <3>1, <3>2, <3>3
  <2> QED
    BY <2>1, <2>2
<1>37. ASSUME NEW z \in Slots, Leaving(z) PROVE Goal
  <2>1. Without(handler, z)
    BY <1>1, <1>37, Forgotten
  <2> QED
    BY <1>36, <1>37, <2>1 DEF Leaving
<1>38. ASSUME NEW z \in Slots, NEW g \in Gens, Cutting(z, g) PROVE Goal
  <2>1. Without(handler, z)
    BY <1>1, <1>38, Forgotten
  <2> QED
    BY <1>36, <1>38, <2>1 DEF Cutting
<1> QED
  BY <1>14, <1>16, <1>17, <1>18, <1>19, <1>21, <1>22, <1>23, <1>25, <1>26, <1>27, <1>28, <1>29,
     <1>31, <1>32, <1>33, <1>35, <1>37, <1>38 DEF Step

Total(f) == FoldFunction(+, 0, f)

LEMMA RefundedIs ==
  /\ global + Total(inflight) = server.total
  /\ \A s \in Slots : TagSent(s) \/ inflight[s] <= Due(s)
  => Refunded
BY DEF Refunded, Total, TagSent, Due

LEMMA RefundedStep ==
  ASSUME Inductive, HasRoom, Step, TypeOK'
  PROVE  Refunded'
<1>1. global' + Total(inflight') = server'.total
  BY SumStep DEF Total
<1>2. \A s \in Slots : TagSent(s)' \/ inflight'[s] <= Due(s)'
  BY OwedStep
<1>3. (\A s \in Slots : TagSent(s) \/ inflight[s] <= Due(s))'
  BY <1>2
<1>4. (global + Total(inflight) = server.total)'
  BY <1>1
<1> QED
  BY <1>3, <1>4, RefundedIs, PTL

-----------------------------------------------------------------------------
(* Charged stays. *)

LEMMA MarksStep ==
  ASSUME Inductive, Step, NEW k \in Tasks
  PROVE  server' = server /\ ("paid" \in marks[k] => "paid" \in marks'[k])
<1>1. marks \in [Tasks -> SUBSET Marks] /\ TypeOK
  <2>1. TypeOK
    BY DEF Inductive
  <2> QED
    BY <2>1, Typed
<1> DEFINE Goal == server' = server /\ ("paid" \in marks[k] => "paid" \in marks'[k])
<1> SUFFICES Goal
  OBVIOUS
<1>2. ASSUME server' = server, marks' = marks PROVE Goal
  BY <1>2
<1>3. ASSUME server' = server, NEW g, NEW m, marks' = [marks EXCEPT ![g] = @ \cup {m}] PROVE Goal
  BY <1>1, <1>3
<1> HIDE DEF Goal
<1>4. CASE Flushing \/ Delivering \/ Reading
  BY <1>2, <1>4 DEF Flushing, Delivering, Reading
<1>5. CASE Missing
  <2>1. CASE marks' = marks
    BY <1>2, <1>5, <2>1 DEF Missing
  <2>2. ASSUME NEW g, marks' = [marks EXCEPT ![g] = @ \cup {"unheard"}] PROVE Goal
    BY <1>3, <1>5, <2>2 DEF Missing
  <2> QED
    BY <1>5, <2>1, <2>2 DEF Missing
<1>6. ASSUME NEW l \in Tasks,
             Answering(l) \/ Starting(l) \/ Sending(l) \/ Failing(l) \/ Reporting(l)
      PROVE  Goal
  BY <1>2, <1>6 DEF Answering, Starting, Sending, Failing, Reporting
<1>7. ASSUME NEW l \in Tasks, NEW p \in Stages, NEW w, Moving(l, p, w) PROVE Goal
  BY <1>2, <1>7 DEF Moving
<1>8. ASSUME NEW l \in Tasks, NEW p \in Stages, Ending(l, p) PROVE Goal
  BY <1>2, <1>8 DEF Ending
<1>9. ASSUME NEW z \in Slots,
             \/ Departed(z) \/ Asking(z) \/ Replying(z) \/ Opening(z) \/ Refusing(z)
             \/ Draining(z) \/ Leaving(z)
      PROVE  Goal
  BY <1>2, <1>9 DEF Departed, Asking, Replying, Opening, Refusing, Draining, Leaving
<1>10. ASSUME NEW z \in Slots, NEW l \in Tasks, Spawning(z, l) PROVE Goal
  BY <1>2, <1>10 DEF Spawning
<1>11. ASSUME NEW z \in Slots, NEW g \in Gens, Cutting(z, g) PROVE Goal
  BY <1>2, <1>11 DEF Cutting
<1>12. ASSUME NEW z \in Slots, NEW n \in Nat, NEW g \in Gens, Acked(z, n, g) PROVE Goal
  <2>1. server' = server
    BY <1>12 DEF Acked
  <2>2. CASE marks' = marks
    BY <1>2, <2>1, <2>2
  <2>3. CASE marks' = [marks EXCEPT ![gens[z]] = @ \cup {"paid"}]
    BY <1>3, <2>1, <2>3
  <2> QED
    BY <1>12, <2>2, <2>3 DEF Acked
<1> QED
  BY <1>4, <1>5, <1>6, <1>7, <1>8, <1>9, <1>10, <1>11, <1>12 DEF Step

Placeds == \A s, G : Placed(s, G) \in Nat

LEMMA PlacedsNat == TypeOK => Placeds
  BY PlacedNat DEF Placeds

\* What a delivery does to the pieces of a stream that are under way: nothing.
LEMMA QueuedDelivered ==
  ASSUME Inductive, NEW s \in Slots, NEW k \in Tasks, gens[s] = k,
         NEW n, n = IF Delivered.gen[s] = k THEN Len(Delivered.pending[s]) ELSE 0
  PROVE  n \in Nat /\ n <= Placed(s, {k}) + Queued(s, {k})
<1>1. TypeOK /\ Homed /\ Turns /\ Ordered /\ Registered /\ Served /\ Owning
  BY DEF Inductive
<1>2. Placed(s, {k}) \in Nat /\ Len(handler.pending[s]) \in Nat
  BY <1>1, PlacedNat, Shapes
<1>3. Queued(s, {k}) = IF handler.gen[s] = k THEN Len(handler.pending[s]) ELSE 0
  BY DEF Queued
<1>4. Queued(s, {k}) \in Nat
  BY <1>2, <1>3
<1>5. CASE Serving(s, k)
  <2>1. Len(Delivered.pending[s]) = Len(handler.pending[s]) + Placed(s, {k})
    BY <1>1, <1>5, Arrives
  <2>2. Queued(s, {k}) = Len(handler.pending[s])
    <3>1. CASE handler.gen[s] = k
      BY <1>3, <3>1
    <3>2. CASE handler.gen[s] # k
      <4>1. ~Begun(s, k)
        BY <1>1, <1>5, <3>2 DEF Served, Streaming
      <4>2. s \notin handler.sub
        BY <1>1, <4>1 DEF Begun, Ordered
      <4>3. handler.pending[s] = <<>>
        BY <1>1, <4>2 DEF Registered
      <4>4. Len(<<>>) = 0
        OBVIOUS
      <4> QED
        BY <1>3, <3>2, <4>3, <4>4
    <3> QED
      BY <3>1, <3>2
  <2> QED
    BY <1>2, <1>4, <2>1, <2>2
<1>6. CASE ~Serving(s, k)
  <2>1. \A l \in Tasks : ~Serving(s, l)
    BY <1>1, <1>6 DEF Owning
  <2>2. Delivered.pending[s] = <<>>
    BY <1>1, <2>1, Rests
  <2>3. Len(<<>>) = 0
    OBVIOUS
  <2>4. n = 0
    BY <2>2, <2>3
  <2> QED
    BY <1>2, <1>4, <2>4
<1> QED
  BY <1>5, <1>6

\* A stream begins with its whole window.
LEMMA BalanceStarts ==
  ASSUME Inductive, Step, NEW k \in Tasks, Starting(k), NEW s \in Slots, s = at[k]
  PROVE  credit'[s] + (Placed(s, {k})' + Queued(s, {k})' + Returning(s, {k})') = server'.window
<1>1. TypeOK /\ NoTrace(k)
  <2>1. stage[k] \in {"run", "failed"}
    BY DEF Starting
  <2> QED
    BY <2>1, Blank DEF Inductive
<1>2. credit \in [Slots -> Int] /\ acks \in Seq(Acks) /\ server.window \in Nat
  BY <1>1, Typed, ServerFacts
<1>3. credit'[s] = server.window /\ server' = server
  BY <1>2 DEF Starting
<1> DEFINE f == Frame("b", at[k], k, <<>>)
<1>4. chunk' = Append(chunk, f) /\ f.kind = "b"
  BY DEF Starting, Frame
<1> HIDE DEF f
<1>5. Placed(s, {k})' = 0
  <2>1. Placed(s, {k}) = 0
    <3>1. \A i \in DOMAIN chunk : chunk[i].gen \notin {k}
      BY <1>1 DEF NoTrace
    <3> QED
      BY <3>1, PlacedNot
  <2>2. ~Counts(f, s, {k})
    BY <1>4 DEF Counts
  <2>3. Placed(s, {k})' = Placed(s, {k}) + (IF Counts(f, s, {k}) THEN 1 ELSE 0)
    BY <1>1, <1>4, PlacedMore
  <2> QED
    BY <2>1, <2>2, <2>3
<1>6. Queued(s, {k})' = 0
  <2>1. handler' = handler /\ handler.gen[s] # k
    BY <1>1 DEF NoTrace, Starting
  <2> QED
    BY <2>1 DEF Queued
<1>7. Returning(s, {k})' = 0
  <2>1. acks' = acks
    BY DEF Starting
  <2>2. Unpaid(acks, {k})
    BY <1>1 DEF NoTrace, Unpaid
  <2>3. Paying(acks, s, {k}) = 0
    BY <1>2, <2>2, PayingNot
  <2> QED
    BY <2>1, <2>3, ReturningNext
<1> QED
  BY <1>2, <1>3, <1>5, <1>6, <1>7

\* What a step leaves of a stream's balance.
LEMMA BalanceStep ==
  ASSUME Inductive, Step, TypeOK',
         NEW k \in Tasks, stage[k] \in Live, k \notin gone, stage'[k] \in Live,
         "paid" \notin marks[k], "paid" \notin marks'[k], NEW s \in Slots, s = at[k]
  PROVE  credit'[s] + (Placed(s, {k})' + Queued(s, {k})' + Returning(s, {k})') <= server'.window
<1>1. TypeOK /\ TypeOK' /\ Owning /\ Fresh
  BY DEF Inductive
<1>2. /\ gens[s] = k /\ owner[s] = k
      /\ \A l \in Tasks : stage[l] \in Live /\ l \notin gone /\ at[l] = s => l = k
  BY Alive
<1>3. /\ credit \in [Slots -> Int] /\ credit' \in [Slots -> Int] /\ acks \in Seq(Acks)
      /\ acks' \in Seq(Acks)
      /\ handler \in Registries /\ server.window \in Nat /\ at \in [Tasks -> Slots]
      /\ credit[s] \in Int /\ credit'[s] \in Int /\ marks \in [Tasks -> SUBSET Marks]
  <2>1. credit' \in [Slots -> Int] /\ acks' \in Seq(Acks)
    BY <1>1 DEF TypeOK, Acks
  <2> QED
    BY <1>1, <2>1, Typed, ServerFacts
<1>4. server' = server
  BY MarksStep
<1> DEFINE c == credit[s]
           a == Placed(s, {k})
           q == Queued(s, {k})
           r == Returning(s, {k})
           cc == credit'[s]
           aa == Placed(s, {k})'
           qq == Queued(s, {k})'
           rr == Returning(s, {k})'
           w == server.window
           Goal == cc + (aa + qq + rr) <= server'.window
<1> SUFFICES Goal
  OBVIOUS
<1>5. c + (a + q + r) <= w
  <2>1. Charged
    BY DEF Inductive
  <2>2. credit[at[k]] + UnderWay(at[k], {k}) <= server.window
    BY <2>1 DEF Charged
  <2> QED
    BY <2>2 DEF UnderWay
<1>6. /\ a \in Nat /\ q \in Nat /\ r \in Nat /\ aa \in Nat
  <2>1. a \in Nat
    BY <1>1, PlacedNat
  <2>2. q \in Nat
    BY <1>1, Shapes DEF Queued
  <2>3. r \in Nat
    BY <1>3, PayingNat, ReturningPaying
  <2>4. aa \in Nat
    <3>1. TypeOK' => Placeds'
      BY PlacedsNat, PTL
    <3> QED
      BY <1>1, <3>1 DEF Placeds
  <2> QED
    BY <2>1, <2>2, <2>3, <2>4
<1>7. qq = IF handler'.gen[s] = k THEN Len(handler'.pending[s]) ELSE 0
  BY DEF Queued
<1>8. rr = Paying(acks', s, {k}) /\ r = Paying(acks, s, {k})
  BY ReturningNext, ReturningPaying
<1>9. rr \in Nat
  BY <1>3, <1>8, PayingNat
<1>10. q = IF handler.gen[s] = k THEN Len(handler.pending[s]) ELSE 0
  BY DEF Queued
<1>11. ASSUME qq \in Int, cc + (aa + qq + rr) <= c + (a + q + r) PROVE Goal
  <2> HIDE DEF c, a, q, r, cc, aa, qq, rr
  <2>1. c \in Int /\ cc \in Int /\ w \in Int
    BY <1>3 DEF c, cc
  <2> HIDE DEF w
  <2>2. cc + (aa + qq + rr) <= w
    BY <1>5, <1>6, <1>9, <1>11, <2>1
  <2> QED
    BY <1>4, <2>2 DEF w
<1> HIDE DEF Goal
\* What stays as it is.
<1>12. ASSUME chunk' = chunk PROVE aa = a
  BY <1>12 DEF Placed
<1>13. ASSUME NEW f, chunk' = Append(chunk, f), ~Counts(f, s, {k}) PROVE aa = a
  <2>1. aa = a + (IF Counts(f, s, {k}) THEN 1 ELSE 0)
    BY <1>1, <1>13, PlacedMore
  <2> HIDE DEF a, aa
  <2> QED
    BY <1>6, <1>13, <2>1
<1>14. ASSUME acks' = acks PROVE rr = r
  BY <1>8, <1>14
<1>15. ASSUME handler'.gen[s] = handler.gen[s], handler'.pending[s] = handler.pending[s]
       PROVE  qq = q
  BY <1>7, <1>10, <1>15
<1>16. ASSUME cc = c, aa = a, handler' = handler, acks' = acks PROVE Goal
  <2>1. qq = q /\ rr = r
    BY <1>14, <1>15, <1>16
  <2> HIDE DEF c, a, q, r, cc, aa, qq, rr
  <2>2. c \in Int
    BY <1>3 DEF c
  <2> QED
    BY <1>6, <1>11, <1>16, <2>1, <2>2
<1>17. ASSUME cc = c, aa = a, qq = 0, rr = r PROVE Goal
  <2> HIDE DEF c, a, q, r, cc, aa, qq, rr
  <2>1. c \in Int
    BY <1>3 DEF c
  <2> QED
    BY <1>6, <1>11, <1>17, <2>1
\* The executor.
<1>18. CASE Flushing \/ Reading \/ Missing
  BY <1>12, <1>16, <1>18 DEF Flushing, Reading, Missing
<1>19. ASSUME NEW l \in Tasks, Answering(l) \/ Failing(l) PROVE Goal
  BY <1>12, <1>16, <1>19 DEF Answering, Failing
<1>20. ASSUME NEW l \in Tasks, NEW p \in Stages, NEW v, Moving(l, p, v) PROVE Goal
  BY <1>12, <1>16, <1>20 DEF Moving
<1>21. ASSUME NEW z \in Slots, NEW l \in Tasks, Spawning(z, l) PROVE Goal
  BY <1>12, <1>16, <1>21 DEF Spawning
<1>22. ASSUME NEW z \in Slots, Departed(z) \/ Asking(z) \/ Replying(z) PROVE Goal
  BY <1>12, <1>16, <1>22 DEF Departed, Asking, Replying
<1>23. ASSUME NEW l \in Tasks, Starting(l) PROVE Goal
  <2>1. l # k
    BY <1>23 DEF Starting, Live
  <2>2. at[l] # s
    BY <1>1, <1>2, <1>23, <2>1 DEF Starting, Owning
  <2>3. cc = c
    BY <1>3, <1>23, <2>2 DEF Starting
  <2> DEFINE f == Frame("b", at[l], l, <<>>)
  <2>4. chunk' = Append(chunk, f) /\ ~Counts(f, s, {k})
    BY <1>23 DEF Starting, Frame, Counts
  <2> HIDE DEF f
  <2>5. aa = a
    BY <1>13, <2>4
  <2> QED
    BY <1>16, <1>23, <2>3, <2>5 DEF Starting
<1>24. ASSUME NEW l \in Tasks, NEW p \in Stages, Ending(l, p) PROVE Goal
  <2> DEFINE f == Frame("e", at[l], gens[at[l]], <<>>)
  <2>1. chunk' = Append(chunk, f) /\ ~Counts(f, s, {k})
    BY <1>24 DEF Ending, Frame, Counts
  <2> HIDE DEF f
  <2>2. aa = a
    BY <1>13, <2>1
  <2> QED
    BY <1>16, <1>24, <2>2 DEF Ending
<1>25. ASSUME NEW l \in Tasks, Sending(l) PROVE Goal
  <2> DEFINE f == Frame("s", at[l], gens[at[l]], Piece(l, made[l] + 1))
  <2>1. /\ chunk' = Append(chunk, f) /\ f.slot = at[l] /\ f.kind = "s" /\ f.gen = gens[at[l]]
        /\ handler' = handler /\ acks' = acks /\ stage[l] \in Live /\ l \notin gone
        /\ credit' = [credit EXCEPT ![at[l]] = credit[at[l]] - 1]
    BY <1>25 DEF Sending, Frame
  <2> HIDE DEF f
  <2>2. CASE l # k
    <3>1. at[l] # s
      BY <1>2, <2>1, <2>2
    <3>2. cc = c
      BY <1>3, <2>1, <3>1
    <3>3. aa = a
      BY <1>13, <2>1, <3>1 DEF Counts
    <3> QED
      BY <1>16, <2>1, <3>2, <3>3
  <2>3. CASE l = k
    <3>1. cc = c - 1
      BY <1>3, <2>1, <2>3
    <3>2. Counts(f, s, {k})
      BY <1>2, <2>1, <2>3 DEF Counts
    <3>3. aa = a + (IF Counts(f, s, {k}) THEN 1 ELSE 0)
      BY <1>1, <2>1, PlacedMore
    <3>4. qq = q /\ rr = r
      BY <1>14, <1>15, <2>1
    <3> HIDE DEF c, a, q, r, cc, aa, qq, rr
    <3>5. c \in Int
      BY <1>3 DEF c
    <3>6. aa = a + 1
      BY <3>2, <3>3
    <3> QED
      BY <1>6, <1>11, <3>1, <3>4, <3>5, <3>6
  <2> QED
    BY <2>2, <2>3
<1>26. ASSUME NEW l \in Tasks, Reporting(l) PROVE Goal
  <2>1. l # k
    BY <1>26 DEF Reporting, Live
  <2>2. cc = c
    <3>1. CASE owner[at[l]] = l /\ credit' = [credit EXCEPT ![at[l]] = 0]
      <4>1. at[l] # s
        BY <1>2, <2>1, <3>1
      <4> QED
        BY <1>3, <3>1, <4>1
    <3>2. CASE credit' = credit
      BY <3>2
    <3> QED
      BY <1>26, <3>1, <3>2 DEF Reporting
  <2> QED
    BY <1>12, <1>16, <1>26, <2>2 DEF Reporting
\* An ack.
<1>27. ASSUME NEW z \in Slots, NEW n \in Nat, NEW g \in Gens, Acked(z, n, g) PROVE Goal
  <2>1. /\ acks # <<>> /\ Head(acks) = [slot |-> z, n |-> n, gen |-> g] /\ acks' = Tail(acks)
        /\ chunk' = chunk /\ handler' = handler
    BY <1>27 DEF Acked
  <2> DEFINE b == Brings(Head(acks), s, {k})
  <2>2. r = rr + b
    BY <1>3, <1>8, <2>1, PayingLess
  <2>3. b = IF z = s /\ g = k THEN n ELSE 0
    BY <2>1 DEF Brings
  <2>4. aa = a /\ qq = q
    BY <1>12, <1>15, <2>1
  <2>5. cc <= c + b
    <3>1. CASE credit' = credit \/ z # s
      <4>1. cc = c
        BY <1>3, <1>27, <3>1 DEF Acked
      <4>2. b \in Nat /\ c \in Int
        BY <1>3, <2>3
      <4> HIDE DEF b, c, cc
      <4> QED
        BY <4>1, <4>2
    <3>2. CASE credit' # credit /\ z = s
      <4>1. credit' = [credit EXCEPT ![z] = Least(credit[z] + n, server.window)]
        BY <1>27, <3>2 DEF Acked
      <4>2. cc = Least(c + n, w)
        BY <1>3, <3>2, <4>1
      <4>3. CASE g = k
        BY <1>3, <2>3, <3>2, <4>2, <4>3 DEF Least
      <4>4. CASE g # k
        <5>1. credit[s] >= w
          <6>1. CASE marks' = [marks EXCEPT ![gens[z]] = @ \cup {"paid"}]
            <7>1. "paid" \in marks'[k]
              BY <1>2, <1>3, <3>2, <6>1
            <7> QED
              BY <7>1
          <6>2. CASE g = gens[z] \/ credit[z] >= server.window
            BY <1>2, <3>2, <4>4, <6>2
          <6> QED
            BY <1>27, <3>2, <6>1, <6>2 DEF Acked
        <5>2. cc <= c /\ b = 0
          BY <1>3, <2>3, <4>2, <4>4, <5>1 DEF Least
        <5> QED
          BY <1>3, <5>2
      <4> QED
        BY <4>3, <4>4
    <3> QED
      BY <3>1, <3>2
  <2>6. b \in Nat /\ c \in Int /\ cc \in Int
    BY <1>3, <2>3
  <2> HIDE DEF c, a, q, r, cc, aa, qq, rr, b
  <2> QED
    BY <1>6, <1>9, <1>11, <2>2, <2>4, <2>5, <2>6
\* The loop: deliveries.
<1>28. ASSUME handler'.gen[s] = Delivered.gen[s], handler'.pending[s] = Delivered.pending[s],
              chunk' = <<>>, acks' = acks, credit' = credit
       PROVE  Goal
  <2>1. aa = 0
    BY <1>28, PlacedNone
  <2>2. cc = c /\ rr = r
    BY <1>14, <1>28
  <2>3. qq = IF Delivered.gen[s] = k THEN Len(Delivered.pending[s]) ELSE 0
    BY <1>7, <1>28
  <2>4. qq \in Nat /\ qq <= a + q
    BY <1>2, <2>3, QueuedDelivered
  <2> HIDE DEF c, a, q, r, cc, aa, qq, rr
  <2>5. c \in Int
    BY <1>3 DEF c
  <2> QED
    BY <1>6, <1>11, <2>1, <2>2, <2>4, <2>5
<1>29. CASE Delivering
  BY <1>28, <1>29 DEF Delivering
<1>30. ASSUME NEW z \in Slots, Opening(z) PROVE Goal
  BY <1>28, <1>30 DEF Opening
<1>31. ASSUME NEW z \in Slots, Refusing(z) PROVE Goal
  <2>1. Without(Delivered, z)
    BY <1>1, <1>31, Forgotten
  <2>2. CASE z = s
    <3>1. aa = 0
      BY <1>31, PlacedNone DEF Refusing
    <3>2. qq = 0
      <4>1. Len(<<>>) = 0
        OBVIOUS
      <4> QED
        BY <1>7, <2>1, <2>2, <4>1 DEF Without
    <3>3. cc = c /\ rr = r
      BY <1>14, <1>31 DEF Refusing
    <3> HIDE DEF c, a, q, r, cc, aa, qq, rr
    <3>4. c \in Int
      BY <1>3 DEF c
    <3> QED
      BY <1>6, <1>11, <3>1, <3>2, <3>3, <3>4
  <2>3. CASE z # s
    <3>1. handler'.gen[s] = Delivered.gen[s] /\ handler'.pending[s] = Delivered.pending[s]
      BY <2>1, <2>3 DEF Without
    <3> QED
      BY <1>28, <1>31, <3>1 DEF Refusing
  <2> QED
    BY <2>2, <2>3
\* What goes out comes back.
<1>32. ASSUME NEW z \in Slots, Draining(z) PROVE Goal
  <2> DEFINE e == [slot |-> z, n |-> Len(handler.pending[z]), gen |-> slots[z].gen]
  <2>1. /\ handler' = Drained(handler, z) /\ slots[z].conn = "stream"
        /\ chunk' = chunk /\ credit' = credit
    BY <1>32 DEF Draining
  <2>2. \/ handler.pending[z] = <<>> /\ acks' = acks
        \/ handler.pending[z] # <<>> /\ acks' = Append(acks, e)
    BY <1>32 DEF Draining
  <2>3. e \in Acks
    <3>1. Len(handler.pending[z]) \in Nat /\ slots[z].gen \in Gens
      BY <1>1, Shapes
    <3> QED
      BY <3>1 DEF Acks
  <2>4. e.slot = z /\ e.n = Len(handler.pending[z]) /\ e.gen = slots[z].gen
    OBVIOUS
  <2> HIDE DEF e
  <2> DEFINE b == Brings(e, s, {k})
  <2>5. ASSUME acks' = Append(acks, e) PROVE rr = r + b
    BY <1>3, <1>8, <2>3, <2>5, PayingMore
  <2>6. cc = c /\ aa = a
    BY <1>12, <2>1
  <2>7. CASE z # s
    <3>1. b = 0
      BY <2>4, <2>7 DEF Brings
    <3>2. rr = r
      <4>1. CASE acks' = acks
        BY <1>14, <4>1
      <4>2. CASE acks' = Append(acks, e)
        <5>1. rr = r + b
          BY <2>5, <4>2
        <5> HIDE DEF r, rr, b
        <5> QED
          BY <1>6, <3>1, <5>1
      <4> QED
        BY <2>2, <4>1, <4>2
    <3>3. handler'.pending[s] = handler.pending[s] /\ handler'.gen[s] = handler.gen[s]
      <4>1. s \in Slots \ {z}
        BY <2>7
      <4>2. \A y \in Slots \ {z} : Drained(handler, z).pending[y] = handler.pending[y]
        BY <1>3, RegistryFacts
      <4>3. Drained(handler, z).gen = handler.gen
        BY <1>3, RegistryFacts
      <4> QED
        BY <2>1, <4>1, <4>2, <4>3
    <3>4. qq = q
      BY <1>15, <3>3
    <3> HIDE DEF c, a, q, r, cc, aa, qq, rr
    <3>5. c \in Int
      BY <1>3 DEF c
    <3> QED
      BY <1>6, <1>11, <2>6, <3>2, <3>4, <3>5
  <2>8. CASE z = s
    <3>1. slots[s].gen = k /\ handler.gen[s] = k
      <4>1. slots[s].conn = "stream"
        BY <2>1, <2>8
      <4>2. gens[s] = slots[s].gen /\ handler.gen[s] = slots[s].gen
        BY <4>1, Streams
      <4> QED
        BY <1>2, <4>2
    <3>2. b = Len(handler.pending[s]) /\ q = Len(handler.pending[s])
      BY <1>10, <2>4, <2>8, <3>1 DEF Brings
    <3>3. qq = 0
      <4>1. Drained(handler, z).pending[z] = <<>>
        BY <1>3, RegistryFacts
      <4>2. Len(<<>>) = 0
        OBVIOUS
      <4> QED
        BY <1>7, <2>1, <2>8, <4>1, <4>2
    <3>4. rr = r + q
      <4>1. CASE handler.pending[z] = <<>> /\ acks' = acks
        <5>1. rr = r
          BY <1>14, <4>1
        <5>2. q = 0
          <6>1. Len(<<>>) = 0
            OBVIOUS
          <6> QED
            BY <2>8, <3>2, <4>1, <6>1
        <5> HIDE DEF q, r, rr
        <5> QED
          BY <1>6, <5>1, <5>2
      <4>2. CASE acks' = Append(acks, e)
        BY <2>5, <3>2, <4>2
      <4> QED
        BY <2>2, <4>1, <4>2
    <3> HIDE DEF c, a, q, r, cc, aa, qq, rr
    <3>5. c \in Int
      BY <1>3 DEF c
    <3> QED
      BY <1>6, <1>11, <2>6, <3>3, <3>4, <3>5
  <2> QED
    BY <2>7, <2>8
<1>33. ASSUME NEW z \in Slots, Without(handler, z), UNCHANGED <<chunk, credit, acks>> PROVE Goal
  <2>1. cc = c /\ aa = a /\ rr = r
    BY <1>12, <1>14, <1>33
  <2>2. CASE z = s
    <3>1. qq = 0
      <4>1. Len(<<>>) = 0
        OBVIOUS
      <4> QED
        BY <1>7, <1>33, <2>2, <4>1 DEF Without
    <3> QED
      BY <1>17, <2>1, <3>1
  <2>3. CASE z # s
    <3>1. qq = q
      BY <1>15, <1>33, <2>3 DEF Without
    <3> HIDE DEF c, a, q, r, cc, aa, qq, rr
    <3>2. c \in Int
      BY <1>3 DEF c
    <3> QED
      BY <1>6, <1>11, <2>1, <3>1, <3>2
  <2> QED
    BY <2>2, <2>3
<1>34. ASSUME NEW z \in Slots, Leaving(z) PROVE Goal
  <2>1. Without(handler, z)
    BY <1>1, <1>34, Forgotten
  <2> QED
    BY <1>33, <1>34, <2>1 DEF Leaving
<1>35. ASSUME NEW z \in Slots, NEW g \in Gens, Cutting(z, g) PROVE Goal
  <2>1. Without(handler, z)
    BY <1>1, <1>35, Forgotten
  <2> QED
    BY <1>33, <1>35, <2>1 DEF Cutting
<1> QED
  BY <1>18, <1>19, <1>20, <1>21, <1>22, <1>23, <1>24, <1>25, <1>26, <1>27, <1>29, <1>30, <1>31,
     <1>32, <1>34, <1>35 DEF Step

LEMMA ChargedStep ==
  ASSUME Inductive, Step, TypeOK'
  PROVE  Charged'
<1> SUFFICES ASSUME NEW k \in Tasks, stage'[k] \in Live, k \notin gone', "paid" \notin marks'[k]
             PROVE  (credit[at[k]] + UnderWay(at[k], {k}) <= server.window)'
  BY DEF Charged
<1>1. at \in [Tasks -> Slots] /\ server.window \in Nat
  BY Typed, ServerFacts DEF Inductive
<1>2. PICK s \in Slots : s = at[k]
  BY <1>1
<1>3. "paid" \notin marks[k] /\ server' = server
  BY MarksStep
<1>4. Starting(k) \/ (stage[k] \in Live /\ k \notin gone)
  BY AliveBack
<1>5. at'[k] = s
  <2>1. CASE Starting(k)
    BY <1>2, <2>1 DEF Starting
  <2>2. CASE stage[k] \in Live /\ k \notin gone
    BY <1>2, <2>2, OwnerKept
  <2> QED
    BY <1>4, <2>1, <2>2
<1>6. credit'[s] + (Placed(s, {k})' + Queued(s, {k})' + Returning(s, {k})') <= server'.window
  <2>1. CASE Starting(k)
    <3>1. credit'[s] + (Placed(s, {k})' + Queued(s, {k})' + Returning(s, {k})') = server'.window
      BY <1>2, <2>1, BalanceStarts
    <3>2. server'.window \in Nat
      BY <1>1, <1>3
    <3> QED
      BY <3>1, <3>2
  <2>2. CASE stage[k] \in Live /\ k \notin gone
    BY <1>2, <1>3, <2>2, BalanceStep
  <2> QED
    BY <1>4, <2>1, <2>2
<1>7. \A t \in Slots : t = at'[k] =>
        (credit'[t] + UnderWay(t, {k})' <= server'.window
           <=> (credit[at[k]] + UnderWay(at[k], {k}) <= server.window)')
  OBVIOUS
<1>8. UnderWay(s, {k})' = Placed(s, {k})' + Queued(s, {k})' + Returning(s, {k})'
  BY DEF UnderWay
<1> QED
  BY <1>5, <1>6, <1>7, <1>8

-----------------------------------------------------------------------------
(* The inductive invariant. *)

LEMMA TotalOfNone == IsFiniteSet(Slots) => Total([s \in Slots |-> 0]) = 0
BY SumOfNone DEF Total

LEMMA TypeInit ==
  ASSUME Init
  PROVE  TypeOK /\ Fresh
<1>1. /\ server \in Deployed /\ server.total \in Nat
  BY ExecutorAssumption DEF Init, Deployed
<1>2. TypeOK
  <2>1. /\ server \in Deployments /\ asked \in Gens
        /\ stage \in [Tasks -> Stages]
        /\ gone \subseteq Tasks /\ woken \subseteq Tasks
        /\ made \in [Tasks -> Nat] /\ end \in [Tasks -> {"open", "whole", "cut"}]
        /\ owner \in [Slots -> Tasks \cup {None}] /\ gens \in [Slots -> Gens]
        /\ open \subseteq Slots /\ credit \in [Slots -> Int] /\ inflight \in [Slots -> Nat]
        /\ global \in Nat /\ event \in [Tasks -> Gens]
    BY <1>1, ExecutorAssumption DEF Init, Gens, Stages
  <2>2. at \in [Tasks -> Slots]
    <3>1. server.slots \in Slots
      BY <1>1 DEF Deployed
    <3>2. 1 \in Slots
      BY <3>1, ExecutorAssumption DEF Slots
    <3> QED
      BY <3>2 DEF Init
  <2>3. pendingDone = <<>> /\ submit = <<>> /\ acks = <<>> /\ chunk = <<>> /\ comps = <<>>
        /\ batch = <<>> /\ aborts = <<>>
    BY DEF Init
  <2>4. \A T : <<>> \in Seq(T)
    OBVIOUS
  <2>5. /\ parked \in [Slots -> Gens \X Gens]
        /\ slots \in [Slots -> [conn : {"free", "out", "stream"}, gen : Gens]]
    BY ExecutorAssumption DEF Init, Gens
  <2>6. handler \in Registries
    <3> DEFINE T == Tasks \X Nat
    <3>1. <<>> \in Seq(T)
      BY <2>4
    <3> HIDE DEF T
    <3>2. 0 \in Gens
      BY ExecutorAssumption DEF Gens
    <3>3. handler \in [sub : SUBSET Slots, done : SUBSET Slots, pending : [Slots -> Seq(T)],
                       gen : [Slots -> Gens]]
      BY <3>1, <3>2 DEF Init
    <3> QED
      BY <3>3 DEF T, Registries
  <2>7. wire \in [Slots -> Seq(Gens \X Int)] /\ marks \in [Tasks -> SUBSET Marks]
    <3> DEFINE T == Gens \X Int
    <3>1. <<>> \in Seq(T)
      BY <2>4
    <3> HIDE DEF T
    <3>2. wire \in [Slots -> Seq(T)] /\ marks \in [Tasks -> SUBSET Marks]
      BY <3>1 DEF Init
    <3> QED
      BY <3>2 DEF T
  <2> QED
    BY <2>1, <2>2, <2>3, <2>4, <2>5, <2>6, <2>7 DEF TypeOK, Registries
<1>3. Fresh
  <2>1. submit = <<>> /\ woken = {} /\ \A k \in Tasks : stage[k] = "none"
    BY DEF Init
  <2> QED
    BY <2>1 DEF Fresh, Woken
<1> QED
  BY <1>2, <1>3

LEMMA InductiveInit ==
  ASSUME Init
  PROVE  Inductive
<1>1. TypeOK /\ Fresh
  BY TypeInit
<1>2. /\ chunk = <<>> /\ acks = <<>> /\ comps = <<>> /\ batch = <<>> /\ aborts = <<>>
      /\ submit = <<>> /\ pendingDone = <<>> /\ gone = {} /\ global = server.total
      /\ inflight = [s \in Slots |-> 0]
      /\ \A k \in Tasks : stage[k] = "none" /\ made[k] = 0 /\ end[k] = "open"
      /\ \A s \in Slots :
           /\ owner[s] = None /\ gens[s] = 0 /\ parked[s] = <<0, 0>> /\ wire[s] = <<>>
           /\ slots[s] = [conn |-> "free", gen |-> 0]
           /\ handler.gen[s] = 0 /\ handler.pending[s] = <<>>
      /\ handler.sub = {} /\ handler.done = {}
  BY DEF Init
<1>3. \A k \in Tasks, s \in Slots : ~Serving(s, k)
  BY <1>2, TaskIsGen DEF Serving
<1>4. Numbered
  <2>1. \A k \in Tasks : k # None
    BY ExecutorAssumption, TaskIsGen DEF Tasks
  <2>2. \A k \in Tasks : NoTrace(k)
    BY <1>2, TaskIsGen DEF NoTrace
  <2> QED
    BY <1>2, <2>1, <2>2 DEF Numbered
<1>5. Homed
  BY <1>2 DEF Homed
<1>6. Turns
  <2>1. \A k \in Tasks, s \in Slots : ~Outstanding(k, s)
    BY <1>2, TaskIsGen DEF Outstanding
  <2> QED
    BY <1>2, <2>1 DEF Turns
<1>7. Completing /\ Aborting
  BY <1>2 DEF Completing, Aborting
<1>8. Owning
  BY <1>2, <1>3 DEF Owning, Live
<1>9. Ordered
  BY <1>2 DEF Ordered
<1>10. Registered
  BY <1>2 DEF Registered
<1>11. Served
  BY <1>3 DEF Served
<1>12. Answered
  BY <1>2 DEF Answered
<1>13. Refunded
  <2>1. IsFiniteSet(Slots)
    BY <1>1, ServerFacts, FS_Interval DEF Slots
  <2>2. Total(inflight) = 0
    BY <1>2, <2>1, TotalOfNone
  <2>3. server.total \in Nat
    BY <1>1, ServerFacts
  <2>4. global + Total(inflight) = server.total
    BY <1>2, <2>2, <2>3
  <2>5. \A s \in Slots : inflight[s] <= Due(s)
    <3> TAKE s \in Slots
    <3>1. Due(s) \in Nat /\ inflight[s] = 0
      BY <1>1, <1>2, DueNat
    <3> QED
      BY <3>1
  <2> QED
    BY <2>4, <2>5, RefundedIs
<1>14. Charged
  BY <1>2 DEF Charged, Live
<1> QED
  BY <1>1, <1>4, <1>5, <1>6, <1>7, <1>8, <1>9, <1>10, <1>11, <1>12, <1>13, <1>14 DEF Inductive

\* What a step that changes nothing leaves.
LEMMA TypeStutter ==
  ASSUME TypeOK, Fresh, UNCHANGED vars
  PROVE  TypeOK' /\ Fresh'
BY DEF TypeOK, Fresh, Woken, IsJob, vars, taskVars, tables, windows, loopVars

LEMMA InductiveStutter ==
  ASSUME Inductive, UNCHANGED vars
  PROVE  Inductive'
<1>1. /\ UNCHANGED <<stage, at, gone, made, end, owner, gens, credit, inflight, global>>
      /\ UNCHANGED <<pendingDone, submit, acks, chunk, comps, parked, slots, handler, batch>>
      /\ UNCHANGED <<aborts, wire, marks, asked, server, woken, open>>
  BY DEF vars, taskVars, tables, windows, loopVars
<1>2. TypeOK' /\ Fresh'
  BY TypeStutter DEF Inductive
<1>3. Numbered' /\ Homed' /\ Completing' /\ Aborting'
  BY <1>1 DEF Inductive, Numbered, NoTrace, Homed, Completing, Aborting
<1>4. Turns' /\ Owning'
  BY <1>1 DEF Inductive, Turns, Outstanding, IsJob, Owning, Serving, Departing
<1>5a. Ordered'
  BY <1>1 DEF Inductive, Ordered, IsBegin
<1>5b. Registered'
  BY <1>1 DEF Inductive, Registered, Serving
<1>5c. Answered'
  BY <1>1 DEF Inductive, Answered, Complete
<1>5. Ordered' /\ Registered' /\ Answered'
  BY <1>5a, <1>5b, <1>5c
<1>6. Served'
  <2> SUFFICES ASSUME NEW s \in Slots, NEW k \in Tasks, Serving(s, k)'
               PROVE  Streaming(s, k)'
    BY DEF Served
  <2>1. Streaming(s, k)
    BY <1>1 DEF Inductive, Served, Serving
  <2>2. /\ Landed(s)' = Landed(s) /\ Arrived(s)' = Arrived(s) /\ PiecesOf(k)' = PiecesOf(k)
        /\ Begun(s, k)' <=> Begun(s, k)
    BY <1>1 DEF Landed, Arrived, PiecesOf, Begun, IsBegin
  <2> QED
    BY <1>1, <2>1, <2>2 DEF Streaming
<1>7. \A s, G : Placed(s, G)' = Placed(s, G) /\ Queued(s, G)' = Queued(s, G)
  BY <1>1 DEF Placed, Queued
<1>8. \A s, G : Returning(s, G)' = Returning(s, G)
  BY <1>1, ReturningNext, ReturningPaying
<1>9. Charged'
  BY <1>1, <1>7, <1>8 DEF Inductive, Charged, UnderWay
<1>10. \A s : Coming(s)' = Coming(s)
  BY <1>1, <1>7 DEF Coming, Serving
<1>11. Refunded'
  <2>1. global + Total(inflight) = server.total
    BY DEF Inductive, Refunded, Total
  <2>2. \A s \in Slots : TagSent(s) \/ inflight[s] <= Due(s)
    BY DEF Inductive, Refunded, TagSent, Due
  <2>3. (global + Total(inflight) = server.total)'
    BY <1>1, <2>1
  <2>4. \A s \in Slots : Due(s)' = Due(s) /\ (TagSent(s)' <=> TagSent(s))
    BY <1>1, <1>8, <1>10 DEF Due, TagSent
  <2>5. (\A s \in Slots : TagSent(s) \/ inflight[s] <= Due(s))'
    BY <1>1, <2>2, <2>4
  <2> QED
    BY <2>3, <2>5, RefundedIs, PTL
<1> QED
  BY <1>2, <1>3, <1>4, <1>5, <1>6, <1>9, <1>11 DEF Inductive

LEMMA InductiveStep ==
  ASSUME Inductive, HasRoom, [Next]_vars
  PROVE  Inductive'
<1>1. CASE Next
  <2>1. TypeOK /\ Fresh
    BY DEF Inductive
  <2>2. Step
    BY <1>1, <2>1, Steps
  <2>3. TypeOK' /\ Fresh'
    BY <1>1, <2>1, <2>2, EventStep, TypeStep, FreshStep
  <2> QED
    BY <2>2, <2>3, NumberedStep, HomedStep, TurnsStep, CompletingStep, AbortingStep, OwningStep,
       OrderedStep, RegisteredStep, ServedStep, AnsweredStep, RefundedStep, ChargedStep
       DEF Inductive
<1>2. CASE UNCHANGED vars
  BY <1>2, InductiveStutter
<1> QED
  BY <1>1, <1>2

\* Every variable has its type, whether the submit channel is full or not: the
\* tables of m0_shim.py and of the loop's handler, and the channels between them.
THEOREM Types == Spec => []TypeOK
<1>1. TypeOK /\ Fresh /\ [Next]_vars => (TypeOK /\ Fresh)'
  <2> SUFFICES ASSUME TypeOK, Fresh, [Next]_vars PROVE TypeOK' /\ Fresh'
    OBVIOUS
  <2>1. CASE Next
    BY <2>1, Steps, EventStep, TypeStep, FreshStep
  <2>2. CASE UNCHANGED vars
    BY <2>2, TypeStutter
  <2> QED
    BY <2>1, <2>2
<1>2. Init => TypeOK /\ Fresh
  BY TypeInit
<1> QED
  BY <1>1, <1>2, PTL DEF Spec

\* The invariant the rest follow from holds as long as the tag of a client that
\* leaves is not dropped (handler.mojo sse_slot_disconnected).
THEOREM Invariance == Spec /\ []HasRoom => []Inductive
<1>1. Init => Inductive
  BY InductiveInit
<1>2. Inductive /\ HasRoom /\ [Next]_vars => Inductive'
  BY InductiveStep
<1> QED
  BY <1>1, <1>2, PTL DEF Spec

-----------------------------------------------------------------------------
(* What it promises. *)

\* A stream whose credits are its own has no more than its window in credit and
\* under way (m0_shim.py _emit and _on_ack).
THEOREM WithinWindow == Spec /\ []HasRoom => []InWindow
<1>1. Inductive => InWindow
  BY DEF Inductive, Charged, InWindow, TaskGone, Live
<1> QED
  BY <1>1, Invariance, PTL

LEMMA PlacedPart ==
  ASSUME TypeOK, NEW s, NEW G, NEW H, G \subseteq H
  PROVE  Placed(s, G) <= Placed(s, H)
<1> DEFINE S(Z) == {i \in DOMAIN chunk :
                      chunk[i].slot = s /\ chunk[i].kind = "s" /\ chunk[i].gen \in Z}
<1>1. DOMAIN chunk = 1 .. Len(chunk) /\ Len(chunk) \in Nat
  <2>1. chunk \in Seq(Frames)
    BY Typed
  <2> QED
    BY <2>1
<1>2. IsFiniteSet(S(H)) /\ S(G) \in SUBSET S(H)
  <2>1. IsFiniteSet(1 .. Len(chunk)) /\ S(H) \in SUBSET (1 .. Len(chunk))
    BY <1>1, FS_Interval
  <2>2. IsFiniteSet(S(H))
    BY <2>1, FS_Subset
  <2> QED
    BY <2>2
<1>3. Cardinality(S(G)) <= Cardinality(S(H))
  <2> HIDE DEF S
  <2> QED
    BY <1>2, FS_Subset
<1> QED
  BY <1>3 DEF Placed

\* What is in flight of the common window comes back: it is under way, or the
\* slot's tag is (m0_shim.py _on_ack, _exec_on_disconnect and _on_task_done).
THEOREM GivenBack == Spec /\ []HasRoom => []WindowReturns
<1>1. Inductive => WindowReturns
  <2> SUFFICES ASSUME Inductive, NEW s \in Slots
               PROVE  inflight[s] <= UnderWay(s, Gens) \/ \E i \in DOMAIN submit : submit[i] = Tag(s)
    BY DEF WindowReturns, Inductive, Refunded
  <2>1. TypeOK /\ (TagSent(s) \/ inflight[s] <= Due(s))
    BY DEF Inductive, Refunded, TagSent, Due
  <2>2. Coming(s) <= Placed(s, Gens)
    <3>1. Placed(s, Gens) \in Nat
      BY <2>1, PlacedNat
    <3>2. {gens[s]} \subseteq Gens
      BY <2>1, Shapes
    <3>3. Placed(s, {gens[s]}) <= Placed(s, Gens)
      BY <2>1, <3>2, PlacedPart
    <3> QED
      BY <3>1, <3>3 DEF Coming
  <2>3. Queued(s, Gens) = Len(handler.pending[s])
    BY <2>1, Shapes DEF Queued
  <2>4. /\ Coming(s) \in Nat /\ Len(handler.pending[s]) \in Nat /\ Returning(s, Gens) \in Nat
        /\ Placed(s, Gens) \in Nat /\ inflight[s] \in Nat
    BY <2>1, DueNat, PlacedNat, Typed
  <2>5. Due(s) <= UnderWay(s, Gens)
    <3> DEFINE c == Coming(s)
               p == Len(handler.pending[s])
               r == Returning(s, Gens)
               a == Placed(s, Gens)
    <3>1. Due(s) = c + p + r /\ UnderWay(s, Gens) = a + p + r
      BY <2>3 DEF Due, UnderWay
    <3>2. c \in Nat /\ p \in Nat /\ r \in Nat /\ a \in Nat /\ c <= a
      BY <2>2, <2>4
    <3> HIDE DEF c, p, r, a
    <3> QED
      BY <3>1, <3>2
  <2>6. Due(s) \in Nat /\ UnderWay(s, Gens) \in Nat
    BY <2>1, <2>3, <2>4, DueNat DEF UnderWay
  <2>7. CASE TagSent(s)
    BY <2>7 DEF TagSent
  <2>8. CASE inflight[s] <= Due(s)
    <3> HIDE DEF Due, UnderWay
    <3> QED
      BY <2>4, <2>5, <2>6, <2>8
  <2> QED
    BY <2>1, <2>7, <2>8
<1> QED
  BY <1>1, Invariance, PTL

LEMMA BodyOfIs ==
  ASSUME NEW s, NEW T, wire[s] \in Seq(T), wire[s] # <<>>
  PROVE  /\ Last(wire[s]) = wire[s][Len(wire[s])]
         /\ Last(wire[s]) \notin {Terminator, CutOff} =>
              /\ Len(BodyOf(s)) = Len(wire[s]) - 1 /\ BodyOf(s) \in Seq(T)
              /\ \A i \in DOMAIN BodyOf(s) : i + 1 \in 2 .. Len(wire[s])
                   /\ BodyOf(s)[i] = wire[s][i + 1]
         /\ Last(wire[s]) \in {Terminator, CutOff} /\ Len(wire[s]) >= 2 =>
              /\ Len(BodyOf(s)) = Len(wire[s]) - 2
              /\ \A i \in DOMAIN BodyOf(s) :
                   i + 1 \in 2 .. Len(wire[s]) - 1 /\ BodyOf(s)[i] = wire[s][i + 1]
<1> DEFINE q == wire[s]
           r == Tail(q)
<1>1. q \in Seq(T) /\ q # <<>>
  OBVIOUS
<1>2. Last(wire[s]) = wire[s][Len(wire[s])]
  BY DEF Last
<1>3. CASE Last(q) \notin {Terminator, CutOff}
  <2>1. BodyOf(s) = r
    BY <1>3 DEF BodyOf
  <2> HIDE DEF q
  <2>2. r \in Seq(T) /\ Len(r) = Len(q) - 1 /\ Len(q) \in Nat
    BY <1>1
  <2>3. \A i \in DOMAIN r : i + 1 \in 2 .. Len(q) /\ r[i] = q[i + 1]
    BY <1>1
  <2> QED
    BY <1>2, <1>3, <2>1, <2>2, <2>3 DEF q
<1>4. CASE Last(q) \in {Terminator, CutOff}
  <2>1. BodyOf(s) = SubSeq(r, 1, Len(r) - 1)
    BY <1>4 DEF BodyOf, Front
  <2> HIDE DEF q
  <2> DEFINE b == SubSeq(r, 1, Len(r) - 1)
  <2>2. ASSUME Len(q) >= 2
        PROVE  /\ Len(b) = Len(q) - 2
               /\ \A i \in DOMAIN b : i + 1 \in 2 .. Len(q) - 1 /\ b[i] = q[i + 1]
    <3>1. r \in Seq(T) /\ Len(r) = Len(q) - 1 /\ Len(q) \in Nat
      BY <1>1
    <3>2. \A i \in 1 .. Len(q) - 1 : r[i] = q[i + 1]
      BY <1>1
    <3> HIDE DEF r
    <3>3. Len(b) = Len(r) - 1 /\ DOMAIN b = 1 .. Len(r) - 1
            /\ \A i \in 1 .. Len(r) - 1 : b[i] = r[i]
      <4>1. 1 \in 1 .. Len(r) + 1 /\ Len(r) - 1 \in 0 .. Len(r)
        BY <2>2, <3>1
      <4> QED
        BY <2>2, <3>1, <4>1, SubSeqProperties
    <3> HIDE DEF b
    <3> QED
      BY <2>2, <3>1, <3>2, <3>3
  <2> QED
    BY <1>2, <1>4, <2>1, <2>2 DEF q
<1> QED
  BY <1>3, <1>4

\* A client has of a body what its own task sent, in order; it is told that the body
\* is complete when it has all of it, and cut off when the application failed
\* (m0_shim.py _emit, handler.mojo sse_peer_frame, streams.mojo _drain_slot).
THEOREM TrueBodies == Spec /\ []HasRoom => []BodyTrue
<1>1. Inductive => BodyTrue
  <2> SUFFICES ASSUME Inductive, NEW s \in Slots, wire[s] # <<>>
               PROVE  LET k == TaskOf(s)
                      IN /\ wire[s][1] = HeadOf(k)
                         /\ \A i \in DOMAIN BodyOf(s) : BodyOf(s)[i] = Piece(k, i)
                         /\ Last(wire[s]) = Terminator => end[k] = "whole"
                              /\ Len(BodyOf(s)) = made[k]
                         /\ Last(wire[s]) = CutOff => end[k] = "cut"
    BY DEF BodyTrue
  <2>1. TypeOK /\ Answered
    BY DEF Inductive
  <2> DEFINE T == Gens \X Int
             q == wire[s]
  <2>2. q \in Seq(T)
    BY <2>1, Typed
  <2> HIDE DEF T
  <2>3. Len(q) \in Nat /\ Len(q) # 0
    BY <2>2
  <2>4. slots[s].conn \in {"free", "out", "stream"} /\ slots[s].conn # "out"
    BY <2>1, Shapes DEF Answered
  <2>5. CASE slots[s].conn = "stream"
    <3> DEFINE g == slots[s].gen
    <3>1. g \in Tasks /\ Streaming(s, g)
      BY <2>5, Streams
    <3>2. q[1] = HeadOf(g) /\ \A i \in 2 .. Len(q) : q[i] = Piece(g, i - 1)
      BY <2>5, <3>1 DEF Streaming
    <3>3. TaskOf(s) = g
      BY <3>2 DEF TaskOf, HeadOf
    <3>4. Last(q) \notin {Terminator, CutOff}
      <4>1. g # 0
        BY <3>1, TaskIsGen
      <4>2. Last(q) = q[Len(q)]
        BY <2>2, BodyOfIs
      <4>3. \A n \in Nat : n # 0 => n = 1 \/ n \in 2 .. n
        OBVIOUS
      <4>4. q[Len(q)][1] = g
        BY <2>3, <3>2, <4>3 DEF HeadOf, Piece
      <4> QED
        BY <4>1, <4>2, <4>4 DEF Terminator, CutOff
    <3>5. /\ Len(BodyOf(s)) = Len(q) - 1 /\ BodyOf(s) \in Seq(T)
          /\ \A i \in DOMAIN BodyOf(s) : i + 1 \in 2 .. Len(q) /\ BodyOf(s)[i] = q[i + 1]
      BY <2>2, <3>4, BodyOfIs
    <3>6. ASSUME NEW i \in DOMAIN BodyOf(s) PROVE BodyOf(s)[i] = Piece(g, i)
      <4>1. i + 1 \in 2 .. Len(q) /\ BodyOf(s)[i] = q[i + 1]
        BY <3>5
      <4>2. q[i + 1] = Piece(g, (i + 1) - 1)
        BY <3>2, <4>1
      <4>3. i \in Nat
        BY <3>5
      <4>4. (i + 1) - 1 = i
        BY <4>3
      <4> QED
        BY <4>1, <4>2, <4>4
    <3> HIDE DEF g
    <3> QED
      BY <3>2, <3>3, <3>4, <3>6
  <2>6. CASE slots[s].conn = "free"
    <3>1. PICK k \in Tasks : Complete(k, q)
      BY <2>1, <2>6 DEF Answered
    <3>2. /\ Len(q) >= 2 /\ q[1] = HeadOf(k)
          /\ \A i \in 2 .. Len(q) - 1 : q[i] = Piece(k, i - 1)
          /\ \/ q[Len(q)] = Terminator /\ end[k] = "whole" /\ Len(q) - 2 = made[k]
             \/ q[Len(q)] = CutOff /\ end[k] = "cut"
      BY <3>1 DEF Complete
    <3>3. TaskOf(s) = k
      BY <3>2 DEF TaskOf, HeadOf
    <3>4. Last(q) = q[Len(q)]
      BY <2>2, BodyOfIs
    <3>5. Last(q) \in {Terminator, CutOff}
      BY <3>2, <3>4
    <3>6. /\ Len(BodyOf(s)) = Len(q) - 2
          /\ \A i \in DOMAIN BodyOf(s) : i + 1 \in 2 .. Len(q) - 1 /\ BodyOf(s)[i] = q[i + 1]
      BY <2>2, <3>2, <3>5, BodyOfIs
    <3>7. ASSUME NEW i \in DOMAIN BodyOf(s) PROVE BodyOf(s)[i] = Piece(k, i)
      <4>1. i + 1 \in 2 .. Len(q) - 1 /\ BodyOf(s)[i] = q[i + 1]
        BY <3>6
      <4>2. q[i + 1] = Piece(k, (i + 1) - 1)
        BY <3>2, <4>1
      <4>3. (i + 1) - 1 = i
        <5>1. BodyOf(s) = Front(Tail(q))
          BY <3>5 DEF BodyOf
        <5>2. Tail(q) \in Seq(T) /\ Len(Tail(q)) \in Nat
          BY <2>2, <2>3
        <5>3. DOMAIN BodyOf(s) \subseteq Int
          BY <5>1, <5>2 DEF Front
        <5> QED
          BY <5>3
      <4> QED
        BY <4>1, <4>2, <4>3
    <3>8. Terminator # CutOff
      BY DEF Terminator, CutOff
    <3> QED
      BY <3>2, <3>3, <3>4, <3>6, <3>7, <3>8
  <2> QED
    BY <2>4, <2>5, <2>6
<1> QED
  BY <1>1, Invariance, PTL

-----------------------------------------------------------------------------
(* When no tag is dropped. *)

\* A submit channel that holds two datagrams of every request: its job, and the
\* tag of a client that leaves.
Ample == \A d \in Deployments : d.room > 2 * MaxRequests

Engaged == {s \in Slots : slots[s].conn # "free"}

\* A request puts its job on the channel when its slot is engaged, and a tag when it
\* is freed.
Sparse == Len(submit) + Cardinality(Engaged) <= 2 * asked

LEMMA SparseRoom ==
  ASSUME Ample, TypeOK, Sparse
  PROVE  HasRoom
<1>1. server \in Deployments /\ asked \in Gens /\ MaxRequests \in Nat /\ Len(submit) \in Nat
  <2>1. submit \in Seq(Datagrams)
    BY Typed
  <2> QED
    BY <2>1, Typed, ServerFacts
<1>2. server.room \in Nat /\ server.room > 2 * MaxRequests
  BY <1>1, ServerFacts DEF Ample
<1>3. asked \in Nat /\ asked <= MaxRequests
  BY <1>1 DEF Gens
<1>4. IsFiniteSet(Engaged)
  <2>1. IsFiniteSet(Slots) /\ Engaged \in SUBSET Slots
    BY ServerFacts, FS_Interval DEF Slots, Engaged
  <2> QED
    BY <2>1, FS_Subset
<1>5. Cardinality(Engaged) \in Nat
  BY <1>4, FS_CardinalityType
<1> DEFINE n == Len(submit)
           e == Cardinality(Engaged)
<1>6. n + e <= 2 * asked
  BY DEF Sparse
<1> HIDE DEF n, e
<1>7. n < server.room
  BY <1>1, <1>2, <1>3, <1>5, <1>6 DEF n, e
<1> QED
  BY <1>7 DEF n, HasRoom

LEMMA SparseStep ==
  ASSUME Inductive, Step, Sparse
  PROVE  Sparse'
<1>1. TypeOK /\ submit \in Seq(Datagrams) /\ Len(submit) \in Nat /\ asked \in Nat
  <2>1. TypeOK
    BY DEF Inductive
  <2> QED
    BY <2>1, Typed DEF Gens
<1> DEFINE E == {s \in Slots : slots[s].conn # "free"}
           F == {s \in Slots : slots'[s].conn # "free"}
           n == Len(submit)
           nn == Len(submit')
           Goal == nn + Cardinality(F) <= 2 * asked'
<1> SUFFICES Goal
  BY DEF Sparse, Engaged
<1>2. n + Cardinality(E) <= 2 * asked
  BY DEF Sparse, Engaged
<1>3. IsFiniteSet(E) /\ Cardinality(E) \in Nat
  <2>1. IsFiniteSet(Slots) /\ E \in SUBSET Slots
    BY <1>1, ServerFacts, FS_Interval DEF Slots
  <2>2. IsFiniteSet(E)
    BY <2>1, FS_Subset
  <2> QED
    BY <2>2, FS_CardinalityType
<1>4. slots \in [Slots -> [conn : {"free", "out", "stream"}, gen : Gens]]
  BY <1>1, Typed
<1>5. ASSUME nn \in Nat, nn <= n, F \subseteq E, asked' = asked PROVE Goal
  <2>1. F \in SUBSET E
    BY <1>5
  <2> HIDE DEF E, F, n, nn
  <2>2. Cardinality(F) \in Nat /\ Cardinality(F) <= Cardinality(E)
    BY <1>3, <2>1, FS_Subset, FS_CardinalityType
  <2> QED
    BY <1>1, <1>2, <1>3, <1>5, <2>2 DEF n
<1>6. ASSUME nn = n, slots' = slots, asked' = asked PROVE Goal
  BY <1>1, <1>5, <1>6
<1>7. ASSUME submit # <<>>, submit' = Tail(submit), slots' = slots, asked' = asked PROVE Goal
  <2>1. nn \in Nat /\ nn <= n
    BY <1>1, <1>7
  <2> QED
    BY <1>5, <1>7, <2>1
\* A slot is freed.
<1>8. ASSUME NEW z \in Slots, slots[z].conn # "free", Telling(z), asked' = asked,
             slots' = [slots EXCEPT ![z].conn = "free"]
      PROVE  Goal
  <2>1. nn = n \/ nn = n + 1
    BY <1>1, <1>8 DEF Telling
  <2>2. F = E \ {z} /\ z \in E
    BY <1>4, <1>8
  <2> HIDE DEF E, F, n, nn
  <2>3. Cardinality(F) = Cardinality(E) - 1
    BY <1>3, <2>2, FS_RemoveElement
  <2> QED
    BY <1>1, <1>2, <1>3, <1>8, <2>1, <2>3 DEF n
<1>9. ASSUME NEW z \in Slots, Asking(z) PROVE Goal
  <2>1. nn = n + 1 /\ asked' = asked + 1
    BY <1>1, <1>9 DEF Asking
  <2>2. F = E \cup {z} /\ z \notin E
    BY <1>4, <1>9 DEF Asking
  <2> HIDE DEF E, F, n, nn
  <2>3. Cardinality(F) = Cardinality(E) + 1
    BY <1>3, <2>2, FS_AddElement
  <2> QED
    BY <1>1, <1>2, <1>3, <2>1, <2>3 DEF n
<1>10. ASSUME NEW z \in Slots, NEW v, v = "free" \/ slots[z].conn # "free",
              submit' = submit, asked' = asked, slots' = [slots EXCEPT ![z].conn = v]
       PROVE  Goal
  <2>1. F \subseteq E
    BY <1>4, <1>10
  <2>2. nn = n
    BY <1>10
  <2> QED
    BY <1>1, <1>5, <1>10, <2>1, <2>2
<1>11. ASSUME NEW z \in Slots, NEW v, v.conn = "free" \/ slots[z].conn # "free",
              submit' = submit, asked' = asked, slots' = [slots EXCEPT ![z] = v]
       PROVE  Goal
  <2>1. F \subseteq E
    BY <1>4, <1>11
  <2>2. nn = n
    BY <1>11
  <2> QED
    BY <1>1, <1>5, <1>11, <2>1, <2>2
<1> HIDE DEF Goal
<1>12. CASE Flushing \/ Delivering \/ Reading \/ Missing
  BY <1>6, <1>12 DEF Flushing, Delivering, Reading, Missing
<1>13. ASSUME NEW l \in Tasks,
              Answering(l) \/ Starting(l) \/ Sending(l) \/ Failing(l) \/ Reporting(l)
       PROVE  Goal
  BY <1>6, <1>13 DEF Answering, Starting, Sending, Failing, Reporting
<1>14. ASSUME NEW l \in Tasks, NEW p \in Stages, NEW w, Moving(l, p, w) PROVE Goal
  BY <1>6, <1>14 DEF Moving
<1>15. ASSUME NEW l \in Tasks, NEW p \in Stages, Ending(l, p) PROVE Goal
  BY <1>6, <1>15 DEF Ending
<1>16. ASSUME NEW z \in Slots, Departed(z) PROVE Goal
  BY <1>7, <1>16 DEF Departed
<1>17. ASSUME NEW z \in Slots, NEW l \in Tasks, Spawning(z, l) PROVE Goal
  BY <1>7, <1>17 DEF Spawning
<1>18. ASSUME NEW z \in Slots, NEW i \in Nat, NEW g \in Gens, Acked(z, i, g) PROVE Goal
  BY <1>6, <1>18 DEF Acked
<1>19. ASSUME NEW z \in Slots, Completed(z) PROVE slots[z].conn = "out"
  <2>1. batch \in Seq(Entries)
    BY <1>1, Typed
  <2>2. parked[z][1] # 0
    <3>1. 1 \in DOMAIN batch /\ z = batch[1].slot
      BY <1>19, <2>1 DEF Completed
    <3> QED
      BY <3>1 DEF Inductive, Completing
  <2> QED
    BY <2>2, Waiting
<1>20. ASSUME NEW z \in Slots, Replying(z) PROVE Goal
  <2> DEFINE v == "free"
  <2>1. slots' = [slots EXCEPT ![z].conn = v] /\ v = "free"
    BY <1>20 DEF Replying
  <2> HIDE DEF v
  <2> QED
    BY <1>10, <1>20, <2>1 DEF Replying
<1>21. ASSUME NEW z \in Slots, Opening(z) PROVE Goal
  <2> DEFINE v == [conn |-> "stream", gen |-> parked[z][2]]
  <2>1. slots' = [slots EXCEPT ![z] = v] /\ slots[z].conn = "out"
    BY <1>19, <1>21 DEF Opening
  <2> HIDE DEF v
  <2> QED
    BY <1>11, <1>21, <2>1 DEF Opening
<1>22. ASSUME NEW z \in Slots, Refusing(z) PROVE Goal
  BY <1>8, <1>19, <1>22 DEF Refusing
<1>23. ASSUME NEW z \in Slots, Draining(z) PROVE Goal
  <2>1. submit' = submit /\ asked' = asked
    BY <1>23 DEF Draining
  <2>2. CASE slots' = slots
    BY <1>6, <2>1, <2>2
  <2>3. CASE slots' = [slots EXCEPT ![z] = [conn |-> "free", gen |-> 0]]
    <3> DEFINE v == [conn |-> "free", gen |-> 0]
    <3>1. v.conn = "free" /\ slots' = [slots EXCEPT ![z] = v]
      BY <2>3
    <3> HIDE DEF v
    <3> QED
      BY <1>11, <2>1, <3>1
  <2> QED
    BY <1>23, <2>2, <2>3 DEF Draining
<1>24. ASSUME NEW z \in Slots, Leaving(z) PROVE Goal
  BY <1>8, <1>24 DEF Leaving
<1>25. ASSUME NEW z \in Slots, NEW g \in Gens, Cutting(z, g) PROVE Goal
  <2>1. slots[z].conn = "stream" /\ slots' = [slots EXCEPT ![z].conn = "free"]
    BY <1>25 DEF Cutting
  <2> QED
    BY <1>8, <1>25, <2>1 DEF Cutting
<1> QED
  BY <1>12, <1>13, <1>14, <1>15, <1>16, <1>17, <1>18, <1>9, <1>20, <1>21, <1>22, <1>23, <1>24,
     <1>25 DEF Step

\* A submit channel with room for a job and a tag of every request drops no tag, so
\* that all of the above holds (offload.mojo submit, handler.mojo sse_slot_disconnected).
THEOREM NoTagDropped == Ample /\ Spec => []HasRoom
<1> DEFINE I == Inductive /\ Sparse
<1>1. Init => I
  <2> SUFFICES ASSUME Init PROVE Sparse
    BY InductiveInit
  <2>1. Engaged = {} /\ Len(submit) = 0 /\ asked = 0
    BY DEF Init, Engaged
  <2>2. Cardinality({}) = 0
    BY FS_EmptySet
  <2> QED
    BY <2>1, <2>2 DEF Sparse
<1>2. Ample /\ I => HasRoom
  BY SparseRoom DEF Inductive
<1>3. Ample /\ I /\ [Next]_vars => I'
  <2> SUFFICES ASSUME Ample, I, [Next]_vars PROVE I'
    OBVIOUS
  <2>1. Inductive'
    BY <1>2, InductiveStep
  <2>2. CASE Next
    <3>1. Step
      BY <2>2, Steps DEF Inductive
    <3> QED
      BY <2>1, <3>1, SparseStep
  <2>3. CASE UNCHANGED vars
    <3>1. Sparse'
      BY <2>3 DEF Sparse, Engaged, vars, loopVars
    <3> QED
      BY <2>1, <3>1
  <2> QED
    BY <2>2, <2>3
<1>4. Ample => Ample'
  BY DEF Ample
<1> QED
  BY <1>1, <1>2, <1>3, <1>4, PTL DEF Spec

\* So with such a channel no stream of the executor is mixed up, overrun or starved
\* (m0_shim.py _emit, _on_ack and _exec_on_disconnect).
THEOREM AmpleServes == Ample /\ Spec => [](BodyTrue /\ InWindow /\ WindowReturns)
BY NoTagDropped, TrueBodies, WithinWindow, GivenBack, PTL

=============================================================================
