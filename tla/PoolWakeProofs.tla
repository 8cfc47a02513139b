--------------------------- MODULE PoolWakeProofs ---------------------------
(***************************************************************************)
(* Proofs about one lane of the pool, for any number of threads and slots  *)
(* and any of the lane's deployments: no slot has two owners, the loop     *)
(* hears of every completion, the words the wake rules read are exact, and *)
(* nothing queued is behind threads that are all asleep.                   *)
(***************************************************************************)
EXTENDS PoolWake, FiniteSetTheorems, SequenceTheorems, WellFoundedInduction, TLAPS

-----------------------------------------------------------------------------
(* The inductive invariant.                                                *)

\* The loop is sending pills, or has.
Stopping == lpc \in {"pill", "lanePill", "over"}

EmptyHanded == {"call", "look", "own", "sock", "pop", "announce", "unannounce", "giveUp",
                "park", "count", "recheckRing", "recheckSock", "block", "laneRecheck",
                "laneBlock", "again", "readFlag", "pokeLoop", "left"}

\* What a thread holds at each point of next_job and of the view.
HandOf(t) ==
  /\ pc[t] \in EmptyHanded => job[t] = None
  /\ pc[t] \in {"woke", "uncount"} => job[t] \in {None, "stop"}
  /\ pc[t] \in {"dropSpin", "unpark", "uncountJob", "ownPoke"} => job[t] # None
  /\ pc[t] = "view" => job[t] \in Slots \cup {"msg"}
  /\ pc[t] = "publish" => job[t] \in Slots
  /\ pc[t] = "leave" => job[t] = "stop"
Hands == \A t \in Threads : HandOf(t)

\* A slot is queued once, held once and finished once, and only one of the three;
\* a cell of the completion ring is unpublished while its producer is about to
\* publish it.
QueuedOnce   == \A i, j \in DOMAIN ring : i # j => ring[i] # ring[j]
FinishedOnce == \A i, j \in DOMAIN doneRing : i # j => doneRing[i][1] # doneRing[j][1]
QueuedAlone  == \A i \in DOMAIN ring : /\ \A t \in Threads : ring[i] # job[t]
                                       /\ \A j \in DOMAIN doneRing : ring[i] # doneRing[j][1]
HeldOnce     == \A t, u \in Threads : t # u /\ job[t] = job[u] => job[t] \notin Slots
Claims       == \A t \in Threads : pc[t] = "publish" =>
                  \E i \in DOMAIN doneRing : doneRing[i][1] = job[t] /\ ~doneRing[i][2]
Cells        == \A i \in DOMAIN doneRing :
                  IF doneRing[i][2] THEN \A t \in Threads : job[t] # doneRing[i][1]
                  ELSE \E t \in Threads : pc[t] = "publish" /\ job[t] = doneRing[i][1]
Owners == QueuedOnce /\ FinishedOnce /\ QueuedAlone /\ HeldOnce /\ Claims /\ Cells

\* The loop's flag is up from before its last look at the completions until it
\* is awake.
Flag == lpc \in {"recheck", "blocked", "unpark"} => loopParked

\* What a thread's own channel may hold.
Nothing      == <<>>
OnePoke      == <<"poke">>
OnePill      == <<"pill">>
PokeThenPill == <<"poke", "pill">>

\* Where a thread's record is not at rest.
Marked == {"count", "recheckRing", "recheckSock", "block", "woke", "unpark"}

\* A woken thread has a poke to read, from the loop's sending to its own reading.
Owed(t) == state[t] = "woken" /\ pc[t] # "woke" /\ ~(lpc = "poke" /\ best = t)

\* A registered thread the loop has sent its pill.
Pilled(t) == /\ t \in lane.registered
             /\ lpc \in {"lanePill", "over"} \/ (lpc = "pill" /\ t < at)

\* A record's state at each point of a park on an own channel, and what that
\* channel holds.
RecordOf(t) ==
  /\ pc[t] \in {"own", "count"} \cup Announced => t \in lane.registered
  /\ pc[t] \in OnLane => t \notin lane.registered
  /\ IF pc[t] \in Marked THEN state[t] # "running"
     ELSE state[t] = IF pc[t] = "ownPoke" THEN "woken" ELSE "running"
  /\ pc[t] = "woke" /\ state[t] = "parked" => Stopping
  /\ ~pill[t]
  /\ own[t] \in IF Owed(t) THEN {OnePoke, PokeThenPill} ELSE {Nothing, OnePill}
  /\ own[t] \in {OnePill, PokeThenPill} => Pilled(t)

\* The search names a registered thread, and pokes one it has woken.
Named ==
  /\ best # None => best \in lane.registered
  /\ lpc \in {"cas", "poke"} => best # None
  /\ lpc = "poke" => state[best] = "woken" /\ pc[best] # "woke"

Records == (\A t \in Threads : RecordOf(t)) /\ Named

\* Who spins is counted, and gives its spin up once.
SpinOf(t) ==
  /\ spinning[t] => pc[t] \in {"look", "own", "sock", "pop", "giveUp", "dropSpin"}
  /\ pc[t] \in {"look", "own", "sock", "pop"} => (spinning[t] <=> mode[t] = "spin")
  /\ pc[t] \in {"giveUp", "dropSpin"} => spinning[t]
Spins == \A t \in Threads : SpinOf(t)

\* Nobody is told to stop before the loop is over.
Going(t)  == pc[t] \notin {"leave", "left"} /\ job[t] # "stop"
NoPills   == \A i \in DOMAIN sock : sock[i] # "pill"
Stops     == ~Stopping => (\A t \in Threads : Going(t)) /\ NoPills

-----------------------------------------------------------------------------
(* Nothing queued is behind sleepers, strengthened to the search.          *)

\* t has yet to look at the ring before it blocks, or something wakes it.
Stirs(t) ==
  IF t \in lane.registered
  THEN ~(pc[t] \in {"recheckSock", "block"} /\ state[t] = "parked" /\ own[t] = <<>>)
  ELSE pc[t] # "laneBlock"

Up == \/ \E t \in Threads : Stirs(t)
      \/ (lane.registered = {} /\ sock # <<>>)

\* The registered threads the scan has passed.
Passed == {t \in lane.registered : t < at}

\* The search has not passed by the threads that sleep.
Seeking ==
  \/ lpc \in {"spinners", "parked", "cas"}
  \/ lpc = "idle" /\ seen >= InPcs({"laneBlock"})
  \/ lpc = "scan" /\ (best # None \/ Passed = {})
  \/ lpc \in {"readParked", "pokeLane"} /\ lane.registered = {}
  \/ lpc = "credit" /\ lane.registered = {} /\ seen = N

\* A job on the ring is behind a thread that stirs, or ahead of a search that
\* cannot end without finding one.
JobUp ==
  ring # <<>> /\ ~Stopping /\ (lane.registered = {} => lost < N) =>
    Up \/ (caller # "message" /\ Seeking)

\* t has yet to look at the lane's socket before it blocks, or something wakes it.
Listens(t) == ~(pc[t] = "block" /\ state[t] = "parked" /\ own[t] = <<>>)

\* The same of a message on the socket of a lane whose threads are all registered.
MessageUp ==
  sock # <<>> /\ ~Stopping /\ lane.registered = Threads =>
    \/ \E t \in Threads : Listens(t)
    \/ /\ caller = "message"
       /\ lpc = "cas" \/ (lpc = "scan" /\ (best # None \/ at = 1))

\* A search begins at the first record, and a lane whose threads are all
\* registered is sent no poke of its own.
Search0 ==
  /\ lpc \in {"spinners", "parked", "idle"} => at = 1
  /\ lane.registered = Threads =>
       /\ \A i \in DOMAIN sock : sock[i] # "poke"
       /\ lpc # "pokeLane" /\ (lpc = "credit" => seen = 0)

Inductive ==
  /\ TypeOK /\ Hands /\ Owners /\ Flag /\ LoopHears /\ Records /\ Spins /\ Stops
  /\ CountsExact /\ Search0 /\ JobUp /\ MessageUp

-----------------------------------------------------------------------------
(* Types.                                                                  *)

\* What the assumption says of the markers that are not slots.
LEMMA Markers ==
  /\ None \notin Slots /\ None \notin Threads /\ None # "msg" /\ None # "stop"
  /\ "msg" \notin Slots /\ "stop" \notin Slots
  /\ N \in Nat /\ N >= 1 /\ SockCap \in Nat /\ SockCap >= 1 /\ MaxMessages \in Nat
  /\ IsFiniteSet(Slots) /\ IsFiniteSet(Threads) /\ Cardinality(Threads) = N
<1>1. IsFiniteSet(Threads) /\ Cardinality(Threads) = N
  BY PoolAssumption, FS_Interval DEF Threads
<1> QED
  BY <1>1, PoolAssumption

\* A deployment is a record of Lanes.
LEMMA LaneType ==
  ASSUME TypeOK
  PROVE  /\ lane.registered \subseteq Threads /\ DOMAIN lane.stuck \subseteq Threads
         /\ lane.stuck \in [DOMAIN lane.stuck -> Slots]
         /\ \A t, u \in DOMAIN lane.stuck : t # u => lane.stuck[t] # lane.stuck[u]
  BY PoolAssumption DEF TypeOK, Lanes

\* The ring loses its oldest job, and only that.
LEMMA PopFacts ==
  ASSUME TypeOK, PopRing
  PROVE  /\ ring # <<>> /\ Head(ring) \in Slots /\ Head(ring) = ring[1]
         /\ ring' \in Seq(Slots) /\ Len(ring') = Len(ring) - 1 /\ Len(ring) >= 1
         /\ \A i \in DOMAIN ring' : i + 1 \in DOMAIN ring /\ ring'[i] = ring[i + 1]
         /\ moved' \in BOOLEAN /\ headTaken' \in BOOLEAN
  BY HeadTailProperties DEF TypeOK, PopRing

\* A datagram off the socket, if there is one.
LEMMA RecvFacts ==
  ASSUME TypeOK, RecvSock
  PROVE  /\ sock' \in Seq({"msg", "poke", "pill"}) /\ Len(sock') <= SockCap
         /\ wakes' \in Int
         /\ Received \in {None, "stop", "msg"}
  BY HeadTailProperties, Markers DEF TypeOK, RecvSock, Received

\* What a drain leaves is what was finished last.
LEMMA UndrainedFacts ==
  ASSUME TypeOK
  PROVE  \E k \in 0 .. Len(doneRing) :
           /\ Undrained \in Seq(Slots \X BOOLEAN) /\ Len(Undrained) = Len(doneRing) - k
           /\ DOMAIN Undrained = 1 .. Len(doneRing) - k
           /\ \A i \in 1 .. Len(doneRing) - k : Undrained[i] = doneRing[i + k]
           /\ \A i \in 1 .. k : doneRing[i][2]
<1>1. doneRing \in Seq(Slots \X BOOLEAN) /\ Len(doneRing) \in Nat
  BY LenProperties DEF TypeOK
<1>2. CASE Unpublished = {}
  <2>1. Undrained = <<>> /\ \A i \in 1 .. Len(doneRing) : doneRing[i][2]
    BY <1>1, <1>2 DEF Unpublished, Undrained
  <2>2. Undrained \in Seq(Slots \X BOOLEAN) /\ Len(Undrained) = 0 /\ DOMAIN Undrained = 1 .. 0
    BY <2>1, EmptySeq
  <2> QED
    BY <1>1, <2>1, <2>2
<1>3. CASE Unpublished # {}
  <2> DEFINE m == CHOOSE i \in Unpublished : \A k \in Unpublished : i <= k
  <2>1. \E i \in Unpublished : \A k \in Unpublished : i <= k
    <3>1. Unpublished \subseteq Nat
      BY <1>1 DEF Unpublished
    <3>2. PICK i \in Unpublished : \A k \in Unpublished : ~(<<k, i>> \in OpToRel(<, Nat))
      BY <1>3, <3>1, NatLessThanWellFounded, WFMin
    <3>3. \A k \in Unpublished : ~(k < i)
      BY <3>1, <3>2 DEF OpToRel
    <3> QED
      BY <3>1, <3>3
  <2>2. m \in Unpublished /\ \A k \in Unpublished : m <= k
    BY <2>1
  <2>3. m \in 1 .. Len(doneRing)
    BY <1>1, <2>2 DEF Unpublished
  <2>4. Undrained = SubSeq(doneRing, m, Len(doneRing))
    BY <1>3 DEF Undrained
  <2> HIDE DEF m
  <2>5. /\ Undrained \in Seq(Slots \X BOOLEAN) /\ Len(Undrained) = Len(doneRing) - (m - 1)
        /\ \A i \in 1 .. Len(doneRing) - (m - 1) : Undrained[i] = doneRing[i + (m - 1)]
    BY <1>1, <2>3, <2>4, SubSeqProperties
  <2>8. DOMAIN Undrained = 1 .. Len(Undrained)
    BY <2>5, LenProperties
  <2>6. \A i \in 1 .. m - 1 : doneRing[i][2]
    BY <1>1, <2>2, <2>3 DEF Unpublished
  <2>7. m - 1 \in 0 .. Len(doneRing)
    BY <1>1, <2>3
  <2> QED
    BY <2>5, <2>6, <2>7, <2>8
<1> QED
  BY <1>2, <1>3

\* Where a served job takes a thread, and what a look that found one leaves.
LEMMA TakeFacts ==
  ASSUME NEW t \in Threads, NEW j \in Slots \cup {"msg", "stop"}, TypeOK, Take(t, j)
  PROVE  /\ pc' \in [Threads -> ThreadPcs] /\ job' \in [Threads -> Slots \cup {None, "msg", "stop"}]
         /\ mode' \in [Threads -> {"new", "try", "tried", "next", "spin"}]
  BY DEF TypeOK, Take, Serve, ThreadPcs

\* Served, or told to stop.
LEMMA ServePcs ==
  ASSUME NEW j
  PROVE  /\ Serve(j) \in {"leave", "view"} /\ (Serve(j) = "leave" <=> j = "stop")
         /\ AfterPark(j) \in {"leave", "again"} /\ (AfterPark(j) = "leave" <=> j = "stop")
  BY DEF Serve, AfterPark

\* Where a spin given up, a count retired and a park left take a thread.
LEMMA LeavePcs ==
  ASSUME TypeOK, NEW t \in Threads
  PROVE  /\ LeaveSpin(t) => /\ pc[t] \in {"unannounce", "giveUp", "dropSpin"}
                            /\ pc'[t] \in {"park", "view", "leave"}
                            /\ pc' = [pc EXCEPT ![t] = pc'[t]]
         /\ Uncount(t) => /\ pc[t] \in {"uncount", "uncountJob"}
                          /\ pc'[t] \in {"again", "view", "leave"}
                          /\ pc' = [pc EXCEPT ![t] = pc'[t]]
         /\ Woke(t) => /\ pc[t] = "woke" /\ pc'[t] \in {"uncount", "again", "leave"}
                       /\ pc' = [pc EXCEPT ![t] = pc'[t]]
<1>1. ASSUME LeaveSpin(t)
      PROVE  /\ pc[t] \in {"unannounce", "giveUp", "dropSpin"}
             /\ pc'[t] \in {"park", "view", "leave"} /\ pc' = [pc EXCEPT ![t] = pc'[t]]
  <2>1. \/ Go(t, "unannounce", "park") \/ Go(t, "giveUp", "park")
        \/ Go(t, "dropSpin", Serve(job[t]))
    BY <1>1 DEF LeaveSpin
  <2> QED
    BY <2>1, ServePcs DEF TypeOK, Go
<1>2. ASSUME Uncount(t)
      PROVE  /\ pc[t] \in {"uncount", "uncountJob"} /\ pc'[t] \in {"again", "view", "leave"}
             /\ pc' = [pc EXCEPT ![t] = pc'[t]]
  <2>1. Go(t, "uncount", AfterPark(job[t])) \/ Go(t, "uncountJob", Serve(job[t]))
    BY <1>2 DEF Uncount
  <2> QED
    BY <2>1, ServePcs DEF TypeOK, Go
<1>3. ASSUME Woke(t)
      PROVE  /\ pc[t] = "woke" /\ pc'[t] \in {"uncount", "again", "leave"}
             /\ pc' = [pc EXCEPT ![t] = pc'[t]]
  <2>1. Go(t, "woke", IF state[t] = "parked" THEN "uncount" ELSE AfterPark(job[t]))
    BY <1>3 DEF Woke
  <2> QED
    BY <2>1, ServePcs DEF TypeOK, Go
<1> QED
  BY <1>1, <1>2, <1>3

\* One thread's counter moved within its range leaves them all in range.
LEMMA PcMoves ==
  ASSUME TypeOK, NEW t \in Threads, NEW P \in SUBSET ThreadPcs,
         pc' = [pc EXCEPT ![t] = pc'[t]], pc'[t] \in P
  PROVE  pc' \in [Threads -> ThreadPcs]
<1>1. pc \in [Threads -> ThreadPcs] /\ pc'[t] \in ThreadPcs
  BY DEF TypeOK
<1> QED
  BY <1>1

\* The cell a thread claimed is published, and no other.
LEMMA PublishFacts ==
  ASSUME TypeOK, Hands, NEW t \in Threads, Publish(t)
  PROVE  /\ job[t] \in Slots /\ doneRing' \in Seq(Slots \X BOOLEAN)
         /\ Len(doneRing') = Len(doneRing) /\ DOMAIN doneRing' = DOMAIN doneRing
         /\ \A i \in DOMAIN doneRing :
              /\ doneRing'[i][1] = doneRing[i][1]
              /\ doneRing[i][1] = job[t] => doneRing'[i][2]
              /\ doneRing[i][1] # job[t] => doneRing'[i] = doneRing[i]
<1>1. doneRing \in Seq(Slots \X BOOLEAN) /\ job[t] \in Slots
  BY DEF TypeOK, Hands, HandOf, Publish, Go
<1>2. /\ Len(doneRing) \in Nat /\ DOMAIN doneRing = 1 .. Len(doneRing)
      /\ \A i \in DOMAIN doneRing : doneRing[i] \in Slots \X BOOLEAN
  BY <1>1, LenProperties, ElementOfSeq
<1>3. doneRing' = [i \in 1 .. Len(doneRing) |->
                     IF doneRing[i][1] = job[t] THEN <<job[t], TRUE>> ELSE doneRing[i]]
  BY <1>2 DEF Publish
<1>4. doneRing' \in [1 .. Len(doneRing) -> Slots \X BOOLEAN]
  BY <1>1, <1>2, <1>3
<1>5. doneRing' \in Seq(Slots \X BOOLEAN) /\ Len(doneRing') = Len(doneRing)
  BY <1>2, <1>4
<1>6. DOMAIN doneRing' = DOMAIN doneRing
  BY <1>2, <1>3
<1>7. ASSUME NEW i \in DOMAIN doneRing
      PROVE  /\ doneRing'[i][1] = doneRing[i][1]
             /\ doneRing[i][1] = job[t] => doneRing'[i][2]
             /\ doneRing[i][1] # job[t] => doneRing'[i] = doneRing[i]
  <2>1. doneRing'[i] = IF doneRing[i][1] = job[t] THEN <<job[t], TRUE>> ELSE doneRing[i]
    BY <1>2, <1>3
  <2>2. <<job[t], TRUE>>[1] = job[t] /\ <<job[t], TRUE>>[2]
    OBVIOUS
  <2>3. CASE doneRing[i][1] = job[t]
    BY <2>1, <2>2, <2>3
  <2>4. CASE doneRing[i][1] # job[t]
    BY <2>1, <2>4
  <2> QED
    BY <2>3, <2>4
<1> QED
  BY <1>1, <1>5, <1>6, <1>7

\* A view that answered claims the next cell of the completion ring.
LEMMA ViewFacts ==
  ASSUME TypeOK, Hands, NEW t \in Threads, ViewEnds(t), job[t] # "msg"
  PROVE  /\ job[t] \in Slots /\ doneRing' \in Seq(Slots \X BOOLEAN)
         /\ doneRing' = Append(doneRing, <<job[t], FALSE>>)
         /\ Len(doneRing') = Len(doneRing) + 1 /\ Len(doneRing) \in Nat
         /\ DOMAIN doneRing = 1 .. Len(doneRing) /\ DOMAIN doneRing' = 1 .. Len(doneRing) + 1
         /\ doneRing'[Len(doneRing) + 1][1] = job[t] /\ ~doneRing'[Len(doneRing) + 1][2]
         /\ \A i \in DOMAIN doneRing : doneRing'[i] = doneRing[i]
<1>1. doneRing \in Seq(Slots \X BOOLEAN) /\ job[t] \in Slots
  BY DEF TypeOK, Hands, HandOf, ViewEnds, Go
<1>2. doneRing' = Append(doneRing, <<job[t], FALSE>>)
  BY DEF ViewEnds
<1>3. Len(doneRing) \in Nat /\ DOMAIN doneRing = 1 .. Len(doneRing)
  BY <1>1, LenProperties
<1> DEFINE Pairs == Slots \X BOOLEAN
           cell  == <<job[t], FALSE>>
<1>4. doneRing \in Seq(Pairs) /\ cell \in Pairs
  BY <1>1
<1>5. /\ Append(doneRing, cell) \in Seq(Pairs)
      /\ Len(Append(doneRing, cell)) = Len(doneRing) + 1
      /\ \A i \in 1 .. Len(doneRing) : Append(doneRing, cell)[i] = doneRing[i]
      /\ Append(doneRing, cell)[Len(doneRing) + 1] = cell
  <2> HIDE DEF Pairs, cell
  <2> QED
    BY <1>4, AppendProperties
<1>6. DOMAIN doneRing' = 1 .. Len(doneRing) + 1
  <2>1. doneRing' \in Seq(Pairs) /\ Len(doneRing') = Len(doneRing) + 1
    BY <1>2, <1>5
  <2> QED
    BY ONLY <2>1, LenProperties
<1>7. cell[1] = job[t] /\ ~cell[2]
  OBVIOUS
<1> QED
  BY <1>1, <1>2, <1>3, <1>5, <1>6, <1>7

\* A thread's step keeps the types.
LEMMA ThreadTypes ==
  ASSUME TypeOK, Hands, NEW t \in Threads, ThreadStep(t) \/ ViewEnds(t)
  PROVE  TypeOK'
<1>1. CASE Call(t)
  <2>1. /\ pc' \in [Threads -> ThreadPcs]
        /\ job' \in [Threads -> Slots \cup {None, "msg", "stop"}]
        /\ mode' \in [Threads -> {"new", "try", "tried", "next", "spin"}]
    <3>1. pc' \in [Threads -> ThreadPcs] /\ job' \in [Threads -> Slots \cup {None, "msg", "stop"}]
      BY <1>1 DEF TypeOK, ThreadPcs, Call
    <3>2. mode' \in [Threads -> {"new", "try", "tried", "next", "spin"}]
      <4>1. mode' = mode \/ \E m \in {"try", "next"} : mode' = [mode EXCEPT ![t] = m]
        BY <1>1 DEF Call
      <4> QED
        BY <4>1 DEF TypeOK
    <3> QED
      BY <3>1, <3>2
  <2>2. UNCHANGED <<ring, moved, headTaken, doneRing, doneChan, sock, own, loopParked, parked,
                  wakes, spinners, threads, parkedReg, pollDue, state, pill, lane, spinning,
                  lpc, caller, at, best, seen, capped, sent, lost>>
    BY <1>1 DEF rings, chans, words, recs, locals, loop, history, Call
  <2> QED
    BY <2>1, <2>2 DEF TypeOK
<1>2. CASE LookPolls(t)
  <2>1. pc' \in [Threads -> ThreadPcs] /\ pollDue' \in BOOLEAN
    BY <1>2 DEF TypeOK, Go, ThreadPcs, Announced, OnLane, LookPolls
  <2>2. UNCHANGED <<ring, moved, headTaken, doneRing, doneChan, sock, own, loopParked, parked,
                  wakes, spinners, threads, parkedReg, state, pill, lane, mode, job, spinning,
                  lpc, caller, at, best, seen, capped, sent, lost>>
    BY <1>2 DEF rings, chans, words, recs, locals, loop, history, LookPolls
  <2> QED
    BY <2>1, <2>2 DEF TypeOK
<1>3. CASE LookSkips(t)
  <2>1. pc' \in [Threads -> ThreadPcs]
    BY <1>3 DEF TypeOK, Go, ThreadPcs, Announced, OnLane, LookSkips
  <2>2. UNCHANGED <<ring, moved, headTaken, doneRing, doneChan, sock, own, loopParked, parked,
                  wakes, spinners, threads, parkedReg, pollDue, state, pill, lane, mode, job,
                  spinning, lpc, caller, at, best, seen, capped, sent, lost>>
    BY <1>3 DEF rings, chans, words, recs, locals, loop, history, LookSkips
  <2> QED
    BY <2>1, <2>2 DEF TypeOK
<1>4. CASE PollOwn(t)
  <2>1. /\ own' \in [Threads -> Seq({"poke", "pill"})] /\ pc' \in [Threads -> ThreadPcs]
        /\ job' \in [Threads -> Slots \cup {None, "msg", "stop"}]
        /\ mode' \in [Threads -> {"new", "try", "tried", "next", "spin"}]
    <3>1. own' \in [Threads -> Seq({"poke", "pill"})]
      <4>1. own[t] \in Seq({"poke", "pill"})
        BY DEF TypeOK
      <4>2. (IF own[t] = <<>> THEN own[t] ELSE Tail(own[t])) \in Seq({"poke", "pill"})
        BY <4>1, HeadTailProperties
      <4>3. own' = [own EXCEPT ![t] = IF own[t] = <<>> THEN own[t] ELSE Tail(own[t])]
        BY <1>4 DEF PollOwn
      <4> QED
        BY <4>2, <4>3 DEF TypeOK
    <3>2. /\ pc' \in [Threads -> ThreadPcs] /\ job' \in [Threads -> Slots \cup {None, "msg", "stop"}]
          /\ mode' \in [Threads -> {"new", "try", "tried", "next", "spin"}]
      <4>1. Take(t, "stop") \/ (pc' = [pc EXCEPT ![t] = "sock"] /\ UNCHANGED <<job, mode>>)
        BY <1>4 DEF PollOwn
      <4> QED
        BY <4>1, TakeFacts DEF TypeOK, ThreadPcs
    <3> QED
      BY <3>1, <3>2
  <2>2. UNCHANGED <<ring, moved, headTaken, doneRing, doneChan, sock, loopParked, parked,
                  wakes, spinners, threads, parkedReg, pollDue, state, pill, lane, spinning,
                  lpc, caller, at, best, seen, capped, sent, lost>>
    BY <1>4 DEF rings, chans, words, recs, locals, loop, history, PollOwn
  <2> QED
    BY <2>1, <2>2 DEF TypeOK
<1>5. CASE PollSock(t)
  <2>1. /\ sock' \in Seq({"msg", "poke", "pill"}) /\ Len(sock') <= SockCap /\ wakes' \in Int
        /\ pc' \in [Threads -> ThreadPcs]
        /\ job' \in [Threads -> Slots \cup {None, "msg", "stop"}]
        /\ mode' \in [Threads -> {"new", "try", "tried", "next", "spin"}]
    <3>1. RecvSock
      BY <1>5 DEF PollSock
    <3>2. /\ sock' \in Seq({"msg", "poke", "pill"}) /\ Len(sock') <= SockCap /\ wakes' \in Int
          /\ Received \in {None, "stop", "msg"}
      BY <3>1, RecvFacts
    <3>3. /\ pc' \in [Threads -> ThreadPcs] /\ job' \in [Threads -> Slots \cup {None, "msg", "stop"}]
          /\ mode' \in [Threads -> {"new", "try", "tried", "next", "spin"}]
      <4>1. (Received # None /\ Take(t, Received)) \/ (pc' = [pc EXCEPT ![t] = "pop"] /\ UNCHANGED <<job, mode>>)
        BY <1>5 DEF PollSock
      <4> QED
        BY <3>2, <4>1, TakeFacts DEF TypeOK, ThreadPcs
    <3> QED
      BY <3>2, <3>3
  <2>2. UNCHANGED <<ring, moved, headTaken, doneRing, doneChan, own, loopParked, parked,
                  spinners, threads, parkedReg, pollDue, state, pill, lane, spinning, lpc,
                  caller, at, best, seen, capped, sent, lost>>
    BY <1>5 DEF rings, chans, words, recs, locals, loop, history, PollSock, RecvSock
  <2> QED
    BY <2>1, <2>2 DEF TypeOK
<1>6. CASE Pop(t)
  <2>1. /\ ring' \in Seq(Slots) /\ moved' \in BOOLEAN /\ headTaken' \in BOOLEAN
        /\ job' \in [Threads -> Slots \cup {None, "msg", "stop"}]
        /\ mode' \in [Threads -> {"new", "try", "tried", "next", "spin"}]
        /\ pc' \in [Threads -> ThreadPcs]
    <3>1. PopRing /\ Take(t, Head(ring))
      BY <1>6 DEF Pop
    <3>2. ring' \in Seq(Slots) /\ moved' \in BOOLEAN /\ headTaken' \in BOOLEAN /\ Head(ring) \in Slots
      BY <3>1, PopFacts
    <3> QED
      BY <3>1, <3>2, TakeFacts
  <2>2. UNCHANGED <<doneRing, doneChan, sock, own, loopParked, parked, wakes, spinners,
                  threads, parkedReg, pollDue, state, pill, lane, spinning, lpc, caller, at,
                  best, seen, capped, sent, lost>>
    BY <1>6 DEF rings, chans, words, recs, locals, loop, history, Pop
  <2> QED
    BY <2>1, <2>2 DEF TypeOK
<1>7. CASE PopNothing(t)
  <2>1. /\ pc' \in [Threads -> ThreadPcs]
        /\ mode' \in [Threads -> {"new", "try", "tried", "next", "spin"}]
    BY <1>7 DEF TypeOK, Go, ThreadPcs, Announced, OnLane, PopNothing
  <2>2. UNCHANGED <<ring, moved, headTaken, doneRing, doneChan, sock, own, loopParked, parked,
                  wakes, spinners, threads, parkedReg, pollDue, state, pill, lane, job,
                  spinning, lpc, caller, at, best, seen, capped, sent, lost>>
    BY <1>7 DEF rings, chans, words, recs, locals, loop, history, PopNothing
  <2> QED
    BY <2>1, <2>2 DEF TypeOK
<1>8. CASE SpinOver(t)
  <2>1. pc' \in [Threads -> ThreadPcs]
    BY <1>8 DEF TypeOK, Go, ThreadPcs, Announced, OnLane, SpinOver
  <2>2. UNCHANGED <<ring, moved, headTaken, doneRing, doneChan, sock, own, loopParked, parked,
                  wakes, spinners, threads, parkedReg, pollDue, state, pill, lane, mode, job,
                  spinning, lpc, caller, at, best, seen, capped, sent, lost>>
    BY <1>8 DEF rings, chans, words, recs, locals, loop, history, SpinOver
  <2> QED
    BY <2>1, <2>2 DEF TypeOK
<1>9. CASE Announce(t)
  <2>1. /\ pc' \in [Threads -> ThreadPcs] /\ spinners' \in Int
        /\ spinning' \in [Threads -> BOOLEAN]
        /\ mode' \in [Threads -> {"new", "try", "tried", "next", "spin"}]
    BY <1>9 DEF TypeOK, Go, ThreadPcs, Announced, OnLane, Announce
  <2>2. UNCHANGED <<ring, moved, headTaken, doneRing, doneChan, sock, own, loopParked, parked,
                  wakes, threads, parkedReg, pollDue, state, pill, lane, job, lpc, caller, at,
                  best, seen, capped, sent, lost>>
    BY <1>9 DEF rings, chans, words, recs, locals, loop, history, Announce
  <2> QED
    BY <2>1, <2>2 DEF TypeOK
<1>10. CASE LeaveSpin(t)
  <2>1. /\ pc' \in [Threads -> ThreadPcs] /\ spinners' \in Int
        /\ spinning' \in [Threads -> BOOLEAN]
    <3>1. {"park", "view", "leave"} \subseteq ThreadPcs
      BY DEF ThreadPcs
    <3>2. pc' \in [Threads -> ThreadPcs]
      BY <1>10, <3>1, LeavePcs, PcMoves
    <3>3. spinners' \in Int /\ spinning' \in [Threads -> BOOLEAN]
      BY <1>10 DEF TypeOK, LeaveSpin
    <3> QED
      BY <3>2, <3>3
  <2>2. UNCHANGED <<ring, moved, headTaken, doneRing, doneChan, sock, own, loopParked, parked,
                  wakes, threads, parkedReg, pollDue, state, pill, lane, mode, job, lpc,
                  caller, at, best, seen, capped, sent, lost>>
    BY <1>10 DEF rings, chans, words, recs, locals, loop, history, LeaveSpin
  <2> QED
    BY <2>1, <2>2 DEF TypeOK
<1>11. CASE ParkOwn(t)
  <2>1. /\ pc' \in [Threads -> ThreadPcs]
        /\ state' \in [Threads -> {"running", "parked", "woken"}]
        /\ mode' \in [Threads -> {"new", "try", "tried", "next", "spin"}]
    BY <1>11 DEF TypeOK, Go, ThreadPcs, Announced, OnLane, ParkOwn
  <2>2. UNCHANGED <<ring, moved, headTaken, doneRing, doneChan, sock, own, loopParked, parked,
                  wakes, spinners, threads, parkedReg, pollDue, pill, lane, job, spinning, lpc,
                  caller, at, best, seen, capped, sent, lost>>
    BY <1>11 DEF rings, chans, words, recs, locals, loop, history, ParkOwn
  <2> QED
    BY <2>1, <2>2 DEF TypeOK
<1>12. CASE CountOwn(t)
  <2>1. pc' \in [Threads -> ThreadPcs] /\ parkedReg' \in Int
    BY <1>12 DEF TypeOK, Go, ThreadPcs, Announced, OnLane, CountOwn
  <2>2. UNCHANGED <<ring, moved, headTaken, doneRing, doneChan, sock, own, loopParked, parked,
                  wakes, spinners, threads, pollDue, state, pill, lane, mode, job, spinning,
                  lpc, caller, at, best, seen, capped, sent, lost>>
    BY <1>12 DEF rings, chans, words, recs, locals, loop, history, CountOwn
  <2> QED
    BY <2>1, <2>2 DEF TypeOK
<1>13. CASE RecheckRing(t)
  <2>1. /\ ring' \in Seq(Slots) /\ moved' \in BOOLEAN /\ headTaken' \in BOOLEAN
        /\ pc' \in [Threads -> ThreadPcs]
        /\ job' \in [Threads -> Slots \cup {None, "msg", "stop"}]
    <3>1. CASE ring # <<>>
      <4>1. PopRing
        BY <1>13, <3>1 DEF RecheckRing
      <4>2. ring' \in Seq(Slots) /\ moved' \in BOOLEAN /\ headTaken' \in BOOLEAN /\ Head(ring) \in Slots
        BY <4>1, PopFacts
      <4> QED
        BY <1>13, <3>1, <4>2 DEF TypeOK, Go, ThreadPcs, Announced, RecheckRing
    <3>2. CASE ring = <<>>
      BY <1>13, <3>2 DEF TypeOK, Go, ThreadPcs, Announced, RecheckRing
    <3> QED
      BY <3>1, <3>2
  <2>2. UNCHANGED <<doneRing, doneChan, sock, own, loopParked, parked, wakes, spinners,
                  threads, parkedReg, pollDue, state, pill, lane, mode, spinning, lpc, caller,
                  at, best, seen, capped, sent, lost>>
    BY <1>13 DEF rings, chans, words, recs, locals, loop, history, RecheckRing
  <2> QED
    BY <2>1, <2>2 DEF TypeOK
<1>14. CASE RecheckSock(t)
  <2>1. /\ sock' \in Seq({"msg", "poke", "pill"}) /\ Len(sock') <= SockCap /\ wakes' \in Int
        /\ pc' \in [Threads -> ThreadPcs]
        /\ job' \in [Threads -> Slots \cup {None, "msg", "stop"}]
    <3>1. RecvSock
      BY <1>14 DEF RecheckSock
    <3>2. /\ sock' \in Seq({"msg", "poke", "pill"}) /\ Len(sock') <= SockCap /\ wakes' \in Int
          /\ Received \in {None, "stop", "msg"}
      BY <3>1, RecvFacts
    <3> QED
      BY <1>14, <3>2 DEF TypeOK, Go, ThreadPcs, Announced, RecheckSock
  <2>2. UNCHANGED <<ring, moved, headTaken, doneRing, doneChan, own, loopParked, parked,
                  spinners, threads, parkedReg, pollDue, state, pill, lane, mode, spinning,
                  lpc, caller, at, best, seen, capped, sent, lost>>
    BY <1>14 DEF rings, chans, words, recs, locals, loop, history, RecheckSock, RecvSock
  <2> QED
    BY <2>1, <2>2 DEF TypeOK
<1>15. CASE Block(t)
  <2>1. /\ own' \in [Threads -> Seq({"poke", "pill"})] /\ pc' \in [Threads -> ThreadPcs]
        /\ job' \in [Threads -> Slots \cup {None, "msg", "stop"}]
    BY <1>15, HeadTailProperties DEF TypeOK, Go, ThreadPcs, Announced, OnLane, Block
  <2>2. UNCHANGED <<ring, moved, headTaken, doneRing, doneChan, sock, loopParked, parked,
                  wakes, spinners, threads, parkedReg, pollDue, state, pill, lane, mode,
                  spinning, lpc, caller, at, best, seen, capped, sent, lost>>
    BY <1>15 DEF rings, chans, words, recs, locals, loop, history, Block
  <2> QED
    BY <2>1, <2>2 DEF TypeOK
<1>16. CASE Woke(t)
  <2>1. /\ pc' \in [Threads -> ThreadPcs]
        /\ state' \in [Threads -> {"running", "parked", "woken"}]
    <3>1. {"uncount", "again", "leave"} \subseteq ThreadPcs
      BY DEF ThreadPcs, Announced, OnLane
    <3>2. pc' \in [Threads -> ThreadPcs]
      BY <1>16, <3>1, LeavePcs, PcMoves
    <3>3. state' \in [Threads -> {"running", "parked", "woken"}]
      BY <1>16 DEF TypeOK, Woke
    <3> QED
      BY <3>2, <3>3
  <2>2. UNCHANGED <<ring, moved, headTaken, doneRing, doneChan, sock, own, loopParked, parked,
                  wakes, spinners, threads, parkedReg, pollDue, pill, lane, mode, job,
                  spinning, lpc, caller, at, best, seen, capped, sent, lost>>
    BY <1>16 DEF rings, chans, words, recs, locals, loop, history, Woke
  <2> QED
    BY <2>1, <2>2 DEF TypeOK
<1>17. CASE Again(t)
  <2>1. /\ pc' \in [Threads -> ThreadPcs] /\ pollDue' \in BOOLEAN
        /\ mode' \in [Threads -> {"new", "try", "tried", "next", "spin"}]
    BY <1>17 DEF TypeOK, Go, ThreadPcs, Announced, OnLane, Again
  <2>2. UNCHANGED <<ring, moved, headTaken, doneRing, doneChan, sock, own, loopParked, parked,
                  wakes, spinners, threads, parkedReg, state, pill, lane, job, spinning, lpc,
                  caller, at, best, seen, capped, sent, lost>>
    BY <1>17 DEF rings, chans, words, recs, locals, loop, history, Again
  <2> QED
    BY <2>1, <2>2 DEF TypeOK
<1>18. CASE Unpark(t)
  <2>1. /\ pc' \in [Threads -> ThreadPcs]
        /\ state' \in [Threads -> {"running", "parked", "woken"}]
    BY <1>18 DEF TypeOK, Go, ThreadPcs, Announced, OnLane, Unpark
  <2>2. UNCHANGED <<ring, moved, headTaken, doneRing, doneChan, sock, own, loopParked, parked,
                  wakes, spinners, threads, parkedReg, pollDue, pill, lane, mode, job,
                  spinning, lpc, caller, at, best, seen, capped, sent, lost>>
    BY <1>18 DEF rings, chans, words, recs, locals, loop, history, Unpark
  <2> QED
    BY <2>1, <2>2 DEF TypeOK
<1>19. CASE Uncount(t)
  <2>1. pc' \in [Threads -> ThreadPcs] /\ parkedReg' \in Int
    <3>1. {"again", "view", "leave"} \subseteq ThreadPcs
      BY DEF ThreadPcs
    <3>2. pc' \in [Threads -> ThreadPcs]
      BY <1>19, <3>1, LeavePcs, PcMoves
    <3>3. parkedReg' \in Int
      BY <1>19 DEF TypeOK, Uncount
    <3> QED
      BY <3>2, <3>3
  <2>2. UNCHANGED <<ring, moved, headTaken, doneRing, doneChan, sock, own, loopParked, parked,
                  wakes, spinners, threads, pollDue, state, pill, lane, mode, job, spinning,
                  lpc, caller, at, best, seen, capped, sent, lost>>
    BY <1>19 DEF rings, chans, words, recs, locals, loop, history, Uncount
  <2> QED
    BY <2>1, <2>2 DEF TypeOK
<1>20. CASE OwnPoke(t)
  <2>1. /\ own' \in [Threads -> Seq({"poke", "pill"})] /\ pc' \in [Threads -> ThreadPcs]
        /\ pill' \in [Threads -> BOOLEAN]
        /\ state' \in [Threads -> {"running", "parked", "woken"}]
    BY <1>20, HeadTailProperties, ServePcs DEF TypeOK, Go, ThreadPcs, Announced, OnLane, OwnPoke
  <2>2. UNCHANGED <<ring, moved, headTaken, doneRing, doneChan, sock, loopParked, parked,
                  wakes, spinners, threads, parkedReg, pollDue, lane, mode, job, spinning, lpc,
                  caller, at, best, seen, capped, sent, lost>>
    BY <1>20 DEF rings, chans, words, recs, locals, loop, history, OwnPoke
  <2> QED
    BY <2>1, <2>2 DEF TypeOK
<1>21. CASE ParkLane(t)
  <2>1. /\ pc' \in [Threads -> ThreadPcs] /\ parked' \in Int
        /\ mode' \in [Threads -> {"new", "try", "tried", "next", "spin"}]
    BY <1>21 DEF TypeOK, Go, ThreadPcs, Announced, OnLane, ParkLane
  <2>2. UNCHANGED <<ring, moved, headTaken, doneRing, doneChan, sock, own, loopParked, wakes,
                  spinners, threads, parkedReg, pollDue, state, pill, lane, job, spinning, lpc,
                  caller, at, best, seen, capped, sent, lost>>
    BY <1>21 DEF rings, chans, words, recs, locals, loop, history, ParkLane
  <2> QED
    BY <2>1, <2>2 DEF TypeOK
<1>22. CASE LaneRecheck(t)
  <2>1. /\ ring' \in Seq(Slots) /\ moved' \in BOOLEAN /\ headTaken' \in BOOLEAN
        /\ pc' \in [Threads -> ThreadPcs]
        /\ job' \in [Threads -> Slots \cup {None, "msg", "stop"}]
    <3>1. CASE ring # <<>>
      <4>1. PopRing
        BY <1>22, <3>1 DEF LaneRecheck
      <4>2. ring' \in Seq(Slots) /\ moved' \in BOOLEAN /\ headTaken' \in BOOLEAN /\ Head(ring) \in Slots
        BY <4>1, PopFacts
      <4> QED
        BY <1>22, <3>1, <4>2 DEF TypeOK, Go, ThreadPcs, OnLane, LaneRecheck
    <3>2. CASE ring = <<>>
      BY <1>22, <3>2 DEF TypeOK, Go, ThreadPcs, OnLane, LaneRecheck
    <3> QED
      BY <3>1, <3>2
  <2>2. UNCHANGED <<doneRing, doneChan, sock, own, loopParked, parked, wakes, spinners,
                  threads, parkedReg, pollDue, state, pill, lane, mode, spinning, lpc, caller,
                  at, best, seen, capped, sent, lost>>
    BY <1>22 DEF rings, chans, words, recs, locals, loop, history, LaneRecheck
  <2> QED
    BY <2>1, <2>2 DEF TypeOK
<1>23. CASE LaneBlock(t)
  <2>1. /\ sock' \in Seq({"msg", "poke", "pill"}) /\ Len(sock') <= SockCap /\ wakes' \in Int
        /\ pc' \in [Threads -> ThreadPcs]
        /\ job' \in [Threads -> Slots \cup {None, "msg", "stop"}]
    <3>1. RecvSock
      BY <1>23 DEF LaneBlock
    <3>2. /\ sock' \in Seq({"msg", "poke", "pill"}) /\ Len(sock') <= SockCap /\ wakes' \in Int
          /\ Received \in {None, "stop", "msg"}
      BY <3>1, RecvFacts
    <3> QED
      BY <1>23, <3>2 DEF TypeOK, Go, ThreadPcs, OnLane, LaneBlock
  <2>2. UNCHANGED <<ring, moved, headTaken, doneRing, doneChan, own, loopParked, parked,
                  spinners, threads, parkedReg, pollDue, state, pill, lane, mode, spinning,
                  lpc, caller, at, best, seen, capped, sent, lost>>
    BY <1>23 DEF rings, chans, words, recs, locals, loop, history, LaneBlock, RecvSock
  <2> QED
    BY <2>1, <2>2 DEF TypeOK
<1>24. CASE LaneUnpark(t)
  <2>1. /\ pc' \in [Threads -> ThreadPcs] /\ parked' \in Int
        /\ mode' \in [Threads -> {"new", "try", "tried", "next", "spin"}]
    BY <1>24, ServePcs DEF TypeOK, Go, ThreadPcs, Announced, OnLane, LaneUnpark
  <2>2. UNCHANGED <<ring, moved, headTaken, doneRing, doneChan, sock, own, loopParked, wakes,
                  spinners, threads, parkedReg, pollDue, state, pill, lane, job, spinning, lpc,
                  caller, at, best, seen, capped, sent, lost>>
    BY <1>24 DEF rings, chans, words, recs, locals, loop, history, LaneUnpark
  <2> QED
    BY <2>1, <2>2 DEF TypeOK
<1>25. CASE Publish(t)
  <2>1. /\ pc' \in [Threads -> ThreadPcs] /\ doneRing' \in Seq(Slots \X BOOLEAN)
        /\ job' \in [Threads -> Slots \cup {None, "msg", "stop"}]
    BY <1>25, PublishFacts DEF TypeOK, Go, ThreadPcs, Announced, OnLane, Publish
  <2>2. UNCHANGED <<ring, moved, headTaken, doneChan, sock, own, loopParked, parked, wakes,
                  spinners, threads, parkedReg, pollDue, state, pill, lane, mode, spinning,
                  lpc, caller, at, best, seen, capped, sent, lost>>
    BY <1>25 DEF rings, chans, words, recs, locals, loop, history, Publish
  <2> QED
    BY <2>1, <2>2 DEF TypeOK
<1>26. CASE ReadFlag(t)
  <2>1. pc' \in [Threads -> ThreadPcs]
    BY <1>26 DEF TypeOK, Go, ThreadPcs, Announced, OnLane, ReadFlag
  <2>2. UNCHANGED <<ring, moved, headTaken, doneRing, doneChan, sock, own, loopParked, parked,
                  wakes, spinners, threads, parkedReg, pollDue, state, pill, lane, mode, job,
                  spinning, lpc, caller, at, best, seen, capped, sent, lost>>
    BY <1>26 DEF rings, chans, words, recs, locals, loop, history, ReadFlag
  <2> QED
    BY <2>1, <2>2 DEF TypeOK
<1>27. CASE PokeLoop(t)
  <2>1. pc' \in [Threads -> ThreadPcs] /\ doneChan' \in BOOLEAN
    BY <1>27 DEF TypeOK, Go, ThreadPcs, Announced, OnLane, PokeLoop
  <2>2. UNCHANGED <<ring, moved, headTaken, doneRing, sock, own, loopParked, parked, wakes,
                  spinners, threads, parkedReg, pollDue, state, pill, lane, mode, job,
                  spinning, lpc, caller, at, best, seen, capped, sent, lost>>
    BY <1>27 DEF rings, chans, words, recs, locals, loop, history, PokeLoop
  <2> QED
    BY <2>1, <2>2 DEF TypeOK
<1>28. CASE Leave(t)
  <2>1. /\ pc' \in [Threads -> ThreadPcs] /\ threads' \in Int
        /\ job' \in [Threads -> Slots \cup {None, "msg", "stop"}]
    BY <1>28 DEF TypeOK, Go, ThreadPcs, Announced, OnLane, Leave
  <2>2. UNCHANGED <<ring, moved, headTaken, doneRing, doneChan, sock, own, loopParked, parked,
                  wakes, spinners, parkedReg, pollDue, state, pill, lane, mode, spinning, lpc,
                  caller, at, best, seen, capped, sent, lost>>
    BY <1>28 DEF rings, chans, words, recs, locals, loop, history, Leave
  <2> QED
    BY <2>1, <2>2 DEF TypeOK
<1>29. CASE ViewEnds(t)
  <2>1. /\ pc' \in [Threads -> ThreadPcs]
        /\ job' \in [Threads -> Slots \cup {None, "msg", "stop"}]
        /\ doneRing' \in Seq(Slots \X BOOLEAN)
    <3>1. pc' \in [Threads -> ThreadPcs]
      BY <1>29 DEF TypeOK, Go, ThreadPcs, ViewEnds
    <3>2. job' \in [Threads -> Slots \cup {None, "msg", "stop"}]
      BY <1>29 DEF TypeOK, ViewEnds
    <3>3. doneRing' \in Seq(Slots \X BOOLEAN)
      <4>1. job[t] = "msg" => doneRing' = doneRing
        BY <1>29 DEF ViewEnds
      <4> QED
        BY <1>29, <4>1, ViewFacts DEF TypeOK
    <3> QED
      BY <3>1, <3>2, <3>3
  <2>2. UNCHANGED <<ring, moved, headTaken, doneChan, sock, own, loopParked, parked, wakes,
                  spinners, threads, parkedReg, pollDue, state, pill, lane, mode, spinning,
                  lpc, caller, at, best, seen, capped, sent, lost>>
    BY <1>29 DEF rings, chans, words, recs, locals, loop, history, ViewEnds
  <2> QED
    BY <2>1, <2>2 DEF TypeOK
<1> QED
  BY <1>1, <1>2, <1>3, <1>4, <1>5, <1>6, <1>7, <1>8, <1>9, <1>10, <1>11, <1>12, <1>13, <1>14,
     <1>15, <1>16, <1>17, <1>18, <1>19, <1>20, <1>21, <1>22, <1>23, <1>24, <1>25, <1>26, <1>27,
     <1>28, <1>29 DEF ThreadStep

\* A datagram sent is behind the others.
LEMMA Appended ==
  ASSUME NEW S, NEW q \in Seq(S), NEW x \in S
  PROVE  /\ Append(q, x) \in Seq(S) /\ Len(Append(q, x)) = Len(q) + 1 /\ Len(q) \in Nat
         /\ DOMAIN Append(q, x) = 1 .. Len(q) + 1 /\ DOMAIN q = 1 .. Len(q)
         /\ \A i \in 1 .. Len(q) : Append(q, x)[i] = q[i]
         /\ Append(q, x)[Len(q) + 1] = x /\ Append(q, x) # <<>>
  BY AppendProperties, LenProperties

\* The same of the two kinds of channel.
LEMMA SendTypes ==
  ASSUME TypeOK
  PROVE  /\ \A t \in Threads, x \in {"poke", "pill"} : Append(own[t], x) \in Seq({"poke", "pill"})
         /\ \A x \in {"msg", "poke", "pill"} :
              Len(sock) < SockCap => /\ Append(sock, x) \in Seq({"msg", "poke", "pill"})
                                     /\ Len(Append(sock, x)) <= SockCap
<1>1. sock \in Seq({"msg", "poke", "pill"}) /\ SockCap \in Nat
  BY Markers DEF TypeOK
<1>2. ASSUME NEW x \in {"msg", "poke", "pill"}, Len(sock) < SockCap
      PROVE  /\ Append(sock, x) \in Seq({"msg", "poke", "pill"})
             /\ Len(Append(sock, x)) <= SockCap
  BY <1>1, <1>2, Appended
<1>3. ASSUME NEW t \in Threads, NEW x \in {"poke", "pill"}
      PROVE  Append(own[t], x) \in Seq({"poke", "pill"})
  BY Appended DEF TypeOK
<1> QED
  BY <1>2, <1>3

\* One record of the scan, whatever it finds.
LEMMA ScanFacts ==
  ASSUME TypeOK, Scan
  PROVE  /\ lpc = "scan" /\ lpc' \in {"scan", "events", "wait", "readParked", "cas"}
         /\ at' \in 1 .. N /\ best' \in Threads \cup {None} /\ seen' \in Int
         /\ caller' \in {"submit", "message", "look"}
         /\ UNCHANGED <<rings, chans, words, recs, locals, capped, history>>
<1>1. PICK b \in IF at \in lane.registered /\ pc[at] # "left" /\ state[at] = "parked"
                 THEN IF best = None THEN {at} ELSE {best, at}
                 ELSE {best} :
        IF at < N
        THEN at' = at + 1 /\ best' = b /\ UNCHANGED <<lpc, caller, seen>>
        ELSE IF b = None /\ caller = "message" THEN Over("scan")
        ELSE /\ lpc' = IF b = None THEN "readParked" ELSE "cas"
             /\ best' = b /\ UNCHANGED <<caller, at, seen>>
  BY DEF Scan
<1>2. b \in Threads \cup {None} /\ at \in 1 .. N /\ N \in Nat /\ N >= 1
  BY <1>1, Markers DEF TypeOK, Threads
<1>3. lpc = "scan" /\ UNCHANGED <<rings, chans, words, recs, locals, capped, history>>
  BY DEF Scan
<1>4. CASE at < N
  BY <1>1, <1>2, <1>3, <1>4 DEF TypeOK
<1>5. CASE ~(at < N) /\ b = None /\ caller = "message"
  BY <1>1, <1>2, <1>3, <1>5 DEF TypeOK, Over, LGo, NewSearch
<1>6. CASE ~(at < N) /\ ~(b = None /\ caller = "message")
  BY <1>1, <1>2, <1>3, <1>6 DEF TypeOK
<1> QED
  BY <1>4, <1>5, <1>6

\* A step of the loop, of a client or of an operator keeps the types.
LEMMA LoopTypes ==
  ASSUME TypeOK, Records, LoopStep \/ Environment
  PROVE  TypeOK'
<1>0. 1 \in 1 .. N /\ N \in Nat /\ SockCap \in Nat /\ MaxMessages \in Nat
  BY Markers
<1> USE <1>0 DEF TypeOK, LoopPcs, Searching, LGo, Search, NewSearch, Step, Over, rings, chans, words, recs, locals, loop, history
<1>1. CASE Drain("top", "events")
  BY <1>1, UndrainedFacts DEF Drain
<1>2. CASE Drain("chan", "events")
  BY <1>2, UndrainedFacts DEF Drain
<1>3. CASE Drain("events", "look")
  BY <1>3, UndrainedFacts DEF Drain
<1>4. ASSUME NEW s \in Slots, Submit(s) PROVE TypeOK'
  BY <1>4, Appended DEF Submit
<1>5. CASE ReadChannel
  BY <1>5 DEF ReadChannel
<1>6. CASE LookPasses
  BY <1>6 DEF LookPasses
<1>7. CASE LookAged
  <2>1. /\ lpc' = "scan" /\ moved' \in BOOLEAN /\ caller' = "look" /\ at' = 1 /\ best' = None
        /\ seen' = 0
        /\ UNCHANGED <<ring, headTaken, doneRing, doneChan, chans, words, recs, locals,
                       capped, history>>
    BY <1>7 DEF LookAged
  <2> QED
    BY <2>1
<1>8. CASE ReadSpinners
  BY <1>8 DEF ReadSpinners
<1>9. CASE ReadParked
  BY <1>9 DEF ReadParked
<1>10. CASE ReadIdle
  BY <1>10 DEF ReadIdle
<1>11. CASE Scan
  <2>1. lpc' \in LoopPcs
    BY <1>11, ScanFacts
  <2>2. /\ at' \in 1 .. N /\ best' \in Threads \cup {None} /\ seen' \in Int
        /\ caller' \in {"submit", "message", "look"}
    BY <1>11, ScanFacts
  <2>3. UNCHANGED <<rings, chans, words, recs, locals, capped, history>>
    BY <1>11, ScanFacts
  <2> HIDE DEF LoopPcs
  <2> QED
    BY <2>1, <2>2, <2>3
<1>12. CASE Name
  <2>1. state' \in [Threads -> {"running", "parked", "woken"}]
    BY <1>12 DEF Name
  <2>2. /\ lpc' \in LoopPcs /\ at' \in 1 .. N /\ best' \in Threads \cup {None} /\ seen' \in Int
        /\ caller' \in {"submit", "message", "look"}
    BY <1>12 DEF Name
  <2> HIDE DEF LoopPcs
  <2> QED
    BY <1>12, <2>1, <2>2 DEF Name
<1>13. CASE Poke
  BY <1>13, SendTypes DEF Poke, Records, Named
<1>14. CASE ReadLaneParked
  BY <1>14 DEF ReadLaneParked
<1>15. CASE Credit
  BY <1>15 DEF Credit
<1>16. CASE PokeLane
  <2>1. CASE Len(sock) < SockCap
    <3>1. sock' = Append(sock, "poke") /\ lost' \in Nat
      BY <1>16, <2>1 DEF PokeLane
    <3>2. sock' \in Seq({"msg", "poke", "pill"}) /\ Len(sock') <= SockCap
      BY <2>1, <3>1, SendTypes
    <3> QED
      BY <1>16, <3>1, <3>2 DEF PokeLane
  <2>2. CASE ~(Len(sock) < SockCap)
    <3>1. UNCHANGED sock /\ lost' \in Nat
      BY <1>16, <2>2 DEF PokeLane
    <3> QED
      BY <1>16, <3>1 DEF PokeLane
  <2> QED
    BY <2>1, <2>2
<1>17. CASE ReadHead
  BY <1>17 DEF ReadHead
<1>18. CASE RaiseFlag
  BY <1>18 DEF RaiseFlag
<1>19. CASE RecheckDone
  BY <1>19 DEF RecheckDone
<1>20. CASE WokenByPool
  BY <1>20 DEF WokenByPool
<1>21. CASE WokenByTime
  BY <1>21 DEF WokenByTime
<1>22. CASE LowerFlag
  BY <1>22 DEF LowerFlag
<1>23. CASE PillOwn
  <2>1. own' \in [Threads -> Seq({"poke", "pill"})]
    BY <1>23, SendTypes DEF PillOwn
  <2>2. lpc' \in LoopPcs /\ at' \in 1 .. N
    BY <1>23 DEF PillOwn
  <2>3. seen' \in Int
    BY <1>23, LaneType, Markers, FS_Subset, FS_CardinalityType DEF PillOwn
  <2> HIDE DEF LoopPcs
  <2> QED
    BY <1>23, <2>1, <2>2, <2>3 DEF PillOwn
<1>24. CASE PillLane
  <2>1. sock' \in Seq({"msg", "poke", "pill"}) /\ Len(sock') <= SockCap
    <3>1. UNCHANGED sock \/ (Len(sock) < SockCap /\ sock' = Append(sock, "pill"))
      BY <1>24 DEF PillLane
    <3> QED
      BY <3>1, SendTypes
  <2>2. lpc' \in LoopPcs /\ seen' \in Int
    BY <1>24 DEF PillLane
  <2> HIDE DEF LoopPcs
  <2> QED
    BY <1>24, <2>1, <2>2 DEF PillLane
<1>25. CASE SendMessage
  <2>1. sock' \in Seq({"msg", "poke", "pill"}) /\ Len(sock') <= SockCap
    <3>1. UNCHANGED sock \/ (Len(sock) < SockCap /\ sock' = Append(sock, "msg"))
      BY <1>25 DEF SendMessage
    <3> QED
      BY <3>1, SendTypes
  <2>2. lpc' \in LoopPcs /\ sent' \in 0 .. MaxMessages
    BY <1>25 DEF SendMessage
  <2>3. caller' \in {"submit", "message", "look"} /\ at' \in 1 .. N /\ seen' \in Int
        /\ best' \in Threads \cup {None}
    BY <1>25 DEF SendMessage
  <2> HIDE DEF LoopPcs
  <2> QED
    BY <1>25, <2>1, <2>2, <2>3 DEF SendMessage
<1>26. CASE WokenByClient
  BY <1>26 DEF WokenByClient
<1>27. CASE StopLoop
  BY <1>27 DEF StopLoop
<1> QED
  BY <1>1, <1>2, <1>3, <1>4, <1>5, <1>6, <1>7, <1>8, <1>9, <1>10, <1>11, <1>12, <1>13, <1>14,
     <1>15, <1>16, <1>17, <1>18, <1>19, <1>20, <1>21, <1>22, <1>23, <1>24, <1>25, <1>26, <1>27
     DEF LoopStep, Environment

-----------------------------------------------------------------------------
(* Who writes what.                                                        *)

\* The loop leaves the threads where they are.
LEMMA LoopKeeps ==
  ASSUME LoopStep \/ Environment
  PROVE  UNCHANGED <<pc, mode, job, spinning, pill, lane, parked, spinners, threads>>
<1> USE DEF rings, chans, words, recs, locals, loop, history
<1>1. CASE Drain("top", "events") \/ Drain("chan", "events") \/ Drain("events", "look")
  BY <1>1 DEF Drain
<1>2. CASE \E s \in Slots : Submit(s)
  BY <1>2 DEF Submit
<1>3. CASE ReadChannel
  BY <1>3 DEF ReadChannel
<1>4. CASE LookPasses
  BY <1>4 DEF LookPasses
<1>5. CASE LookAged
  BY <1>5 DEF LookAged
<1>6. CASE ReadSpinners
  BY <1>6 DEF ReadSpinners
<1>7. CASE ReadParked
  BY <1>7 DEF ReadParked
<1>8. CASE ReadIdle
  BY <1>8 DEF ReadIdle
<1>9. CASE Scan
  BY <1>9 DEF Scan
<1>10. CASE Name
  BY <1>10 DEF Name
<1>11. CASE Poke
  BY <1>11 DEF Poke
<1>12. CASE ReadLaneParked
  BY <1>12 DEF ReadLaneParked
<1>13. CASE Credit
  BY <1>13 DEF Credit
<1>14. CASE PokeLane
  BY <1>14 DEF PokeLane
<1>15. CASE ReadHead
  BY <1>15 DEF ReadHead
<1>16. CASE RaiseFlag
  BY <1>16 DEF RaiseFlag
<1>17. CASE RecheckDone
  BY <1>17 DEF RecheckDone
<1>18. CASE WokenByPool
  BY <1>18 DEF WokenByPool
<1>19. CASE WokenByTime
  BY <1>19 DEF WokenByTime
<1>20. CASE LowerFlag
  BY <1>20 DEF LowerFlag
<1>21. CASE PillOwn
  BY <1>21 DEF PillOwn
<1>22. CASE PillLane
  BY <1>22 DEF PillLane
<1>23. CASE SendMessage
  BY <1>23 DEF SendMessage
<1>24. CASE WokenByClient
  BY <1>24 DEF WokenByClient
<1>25. CASE StopLoop
  BY <1>25 DEF StopLoop
<1> QED
  BY <1>1, <1>2, <1>3, <1>4, <1>5, <1>6, <1>7, <1>8, <1>9, <1>10, <1>11, <1>12, <1>13, <1>14,
     <1>15, <1>16, <1>17, <1>18, <1>19, <1>20, <1>21, <1>22, <1>23, <1>24, <1>25 DEF LoopStep,
     Environment

\* A thread writes its own entries, and leaves the loop where it is.
LEMMA ThreadKeeps ==
  ASSUME TypeOK, NEW t \in Threads, ThreadStep(t) \/ ViewEnds(t)
  PROVE  /\ UNCHANGED <<lpc, caller, at, best, seen, lost, loopParked, lane>>
         /\ pc' = [pc EXCEPT ![t] = pc'[t]]
         /\ \A u \in Threads \ {t} :
              /\ pc'[u] = pc[u] /\ job'[u] = job[u] /\ mode'[u] = mode[u]
              /\ spinning'[u] = spinning[u] /\ state'[u] = state[u]
              /\ pill'[u] = pill[u] /\ own'[u] = own[u]
<1> USE DEF TypeOK, Go, Take, RecvSock, PopRing, rings, chans, words, recs, locals, loop, history
<1>1. CASE Call(t)
  BY <1>1 DEF Call
<1>2. CASE LookPolls(t)
  BY <1>2 DEF LookPolls
<1>3. CASE LookSkips(t)
  BY <1>3 DEF LookSkips
<1>4. CASE PollOwn(t)
  BY <1>4 DEF PollOwn
<1>5. CASE PollSock(t)
  BY <1>5 DEF PollSock
<1>6. CASE Pop(t)
  BY <1>6 DEF Pop
<1>7. CASE PopNothing(t)
  BY <1>7 DEF PopNothing
<1>8. CASE SpinOver(t)
  BY <1>8 DEF SpinOver
<1>9. CASE Announce(t)
  BY <1>9 DEF Announce
<1>10. CASE LeaveSpin(t)
  BY <1>10 DEF LeaveSpin
<1>11. CASE ParkOwn(t)
  BY <1>11 DEF ParkOwn
<1>12. CASE CountOwn(t)
  BY <1>12 DEF CountOwn
<1>13. CASE RecheckRing(t)
  BY <1>13 DEF RecheckRing
<1>14. CASE RecheckSock(t)
  BY <1>14 DEF RecheckSock
<1>15. CASE Block(t)
  BY <1>15 DEF Block
<1>16. CASE Woke(t)
  BY <1>16 DEF Woke
<1>17. CASE Again(t)
  BY <1>17 DEF Again
<1>18. CASE Unpark(t)
  BY <1>18 DEF Unpark
<1>19. CASE Uncount(t)
  BY <1>19 DEF Uncount
<1>20. CASE OwnPoke(t)
  BY <1>20 DEF OwnPoke
<1>21. CASE ParkLane(t)
  BY <1>21 DEF ParkLane
<1>22. CASE LaneRecheck(t)
  BY <1>22 DEF LaneRecheck
<1>23. CASE LaneBlock(t)
  BY <1>23 DEF LaneBlock
<1>24. CASE LaneUnpark(t)
  BY <1>24 DEF LaneUnpark
<1>25. CASE Publish(t)
  BY <1>25 DEF Publish
<1>26. CASE ReadFlag(t)
  BY <1>26 DEF ReadFlag
<1>27. CASE PokeLoop(t)
  BY <1>27 DEF PokeLoop
<1>28. CASE Leave(t)
  BY <1>28 DEF Leave
<1>29. CASE ViewEnds(t)
  BY <1>29 DEF ViewEnds
<1> QED
  BY <1>1, <1>2, <1>3, <1>4, <1>5, <1>6, <1>7, <1>8, <1>9, <1>10, <1>11, <1>12, <1>13, <1>14,
     <1>15, <1>16, <1>17, <1>18, <1>19, <1>20, <1>21, <1>22, <1>23, <1>24, <1>25, <1>26, <1>27,
     <1>28, <1>29 DEF ThreadStep

-----------------------------------------------------------------------------
(* What the threads hold.                                                  *)

\* A thread's step leaves it holding what its next one expects.
LEMMA HandsStep ==
  ASSUME TypeOK, Hands, NEW t \in Threads, ThreadStep(t) \/ ViewEnds(t)
  PROVE  Hands'
<1>1. SUFFICES HandOf(t)'
  BY ThreadKeeps DEF Hands, HandOf
<1>2. HandOf(t) /\ job[t] \in Slots \cup {None, "msg", "stop"} /\ pc[t] \in ThreadPcs
  BY DEF Hands, TypeOK
<1>3. None \notin Slots /\ None # "msg" /\ None # "stop" /\ "msg" \notin Slots /\ "stop" \notin Slots
  BY Markers
<1> USE <1>2, <1>3 DEF HandOf, EmptyHanded, rings, chans, words, recs, locals, loop
<1>4. CASE Call(t)
  BY <1>4 DEF TypeOK, Call
<1>5. CASE LookPolls(t) \/ LookSkips(t) \/ Announce(t)
  BY <1>5 DEF TypeOK, Go, LookPolls, LookSkips, Announce
<1>6. CASE PopNothing(t) \/ SpinOver(t)
  BY <1>6 DEF TypeOK, Go, PopNothing, SpinOver
<1>7. CASE PollOwn(t)
  BY <1>7, ServePcs DEF TypeOK, Take, PollOwn
<1>8. CASE Pop(t)
  BY <1>8, ServePcs, PopFacts DEF TypeOK, Take, Pop
<1>9. CASE PollSock(t)
  BY <1>9, ServePcs, RecvFacts DEF TypeOK, Take, PollSock
<1>10. CASE LeaveSpin(t)
  BY <1>10, ServePcs DEF TypeOK, Go, LeaveSpin
<1>11. CASE ParkOwn(t) \/ CountOwn(t) \/ Again(t)
  BY <1>11 DEF TypeOK, Go, ParkOwn, CountOwn, Again
<1>12. CASE RecheckRing(t) \/ LaneRecheck(t)
  <2>1. CASE ring = <<>>
    BY <1>12, <2>1 DEF TypeOK, Go, RecheckRing, LaneRecheck
  <2>2. CASE ring # <<>>
    <3>1. /\ Go(t, "recheckRing", "unpark") \/ Go(t, "laneRecheck", "laneUnpark")
          /\ job' = [job EXCEPT ![t] = Head(ring)] /\ PopRing /\ UNCHANGED spinning
      BY <1>12, <2>2 DEF RecheckRing, LaneRecheck
    <3>2. Head(ring) \in Slots
      BY <3>1, PopFacts
    <3> QED
      BY <3>1, <3>2 DEF TypeOK, Go
  <2> QED
    BY <2>1, <2>2
<1>13. CASE RecheckSock(t)
  BY <1>13, RecvFacts DEF TypeOK, Go, RecheckSock
<1>14. CASE LaneBlock(t)
  BY <1>14, RecvFacts DEF TypeOK, Go, LaneBlock
<1>15. CASE Block(t) \/ Unpark(t) \/ ParkLane(t)
  BY <1>15 DEF TypeOK, Go, Block, Unpark, ParkLane
<1>16. CASE Woke(t) \/ Uncount(t)
  <2>1. CASE Woke(t)
    BY <2>1, ServePcs DEF TypeOK, Go, Woke
  <2>2. CASE Uncount(t)
    BY <2>2, ServePcs DEF TypeOK, Go, Uncount
  <2> QED
    BY <1>16, <2>1, <2>2
<1>17. CASE OwnPoke(t) \/ LaneUnpark(t)
  <2>1. CASE OwnPoke(t)
    BY <2>1, ServePcs DEF TypeOK, Go, OwnPoke
  <2>2. CASE LaneUnpark(t)
    BY <2>2, ServePcs DEF TypeOK, Go, LaneUnpark
  <2> QED
    BY <1>17, <2>1, <2>2
<1>18. CASE ViewEnds(t) \/ Publish(t)
  <2>1. CASE ViewEnds(t)
    BY <2>1 DEF TypeOK, Go, ViewEnds
  <2>2. CASE Publish(t)
    BY <2>2 DEF TypeOK, Go, Publish
  <2> QED
    BY <1>18, <2>1, <2>2
<1>19. CASE ReadFlag(t) \/ PokeLoop(t) \/ Leave(t)
  BY <1>19 DEF TypeOK, Go, ReadFlag, PokeLoop, Leave
<1> QED
  BY <1>4, <1>5, <1>6, <1>7, <1>8, <1>9, <1>10, <1>11, <1>12, <1>13, <1>14, <1>15, <1>16, <1>17,
     <1>18, <1>19 DEF ThreadStep

-----------------------------------------------------------------------------
(* No slot has two owners.                                                 *)

\* A slot changes hands in four ways: it is popped, its view ends, its completion
\* is published, or its holder lets go of what is not a slot.
LEMMA JobMoves ==
  ASSUME TypeOK, Hands, NEW t \in Threads, ThreadStep(t) \/ ViewEnds(t)
  PROVE  \/ /\ UNCHANGED <<ring, doneRing>>
            /\ pc[t] # "publish" /\ pc'[t] # "publish"
            /\ job'[t] = job[t] \/ job'[t] \notin Slots
         \/ /\ PopRing /\ job'[t] = Head(ring) /\ UNCHANGED doneRing
            /\ pc[t] # "publish" /\ pc'[t] # "publish"
         \/ ViewEnds(t) /\ job[t] # "msg"
         \/ Publish(t)
<1> DEFINE Quiet == /\ UNCHANGED <<ring, doneRing>>
                    /\ pc[t] # "publish" /\ pc'[t] # "publish"
                    /\ job'[t] = job[t] \/ job'[t] \notin Slots
           Pops  == /\ PopRing /\ job'[t] = Head(ring) /\ UNCHANGED doneRing
                    /\ pc[t] # "publish" /\ pc'[t] # "publish"
<1>1. None \notin Slots /\ "stop" \notin Slots /\ "msg" \notin Slots
  BY Markers
<1> USE <1>1 DEF TypeOK, Go, rings, chans, words, recs, locals, loop
<1>2. CASE Call(t)
  <2>1. Quiet
    BY <1>2 DEF Call
  <2> QED
    BY <2>1
<1>3. CASE LookPolls(t) \/ LookSkips(t) \/ PopNothing(t) \/ SpinOver(t) \/ Announce(t)
  <2>1. Quiet
    BY <1>3 DEF LookPolls, LookSkips, PopNothing, SpinOver, Announce
  <2> QED
    BY <2>1
<1>4. CASE PollOwn(t)
  <2>1. Quiet
    BY <1>4, ServePcs DEF Take, PollOwn
  <2> QED
    BY <2>1
<1>5. CASE PollSock(t)
  <2>1. Quiet
    BY <1>5, ServePcs, RecvFacts DEF Take, PollSock
  <2> QED
    BY <2>1
<1>6. CASE LeaveSpin(t)
  <2>1. Quiet
    BY <1>6, ServePcs DEF LeaveSpin
  <2> QED
    BY <2>1
<1>7. CASE ParkOwn(t) \/ CountOwn(t) \/ Again(t) \/ ParkLane(t)
  <2>1. Quiet
    BY <1>7 DEF ParkOwn, CountOwn, Again, ParkLane
  <2> QED
    BY <2>1
<1>8. CASE RecheckSock(t)
  <2>1. Quiet
    BY <1>8, RecvFacts DEF RecheckSock
  <2> QED
    BY <2>1
<1>9. CASE LaneBlock(t)
  <2>1. Quiet
    BY <1>9, RecvFacts DEF LaneBlock
  <2> QED
    BY <2>1
<1>10. CASE Block(t)
  <2>1. Quiet
    BY <1>10 DEF Block
  <2> QED
    BY <2>1
<1>11. CASE Unpark(t)
  <2>1. Quiet
    BY <1>11 DEF Unpark
  <2> QED
    BY <2>1
<1>19. CASE Woke(t)
  <2>1. Quiet
    BY <1>19, LeavePcs DEF Woke
  <2> QED
    BY <2>1
<1>12. CASE Uncount(t)
  <2>1. Quiet
    BY <1>12, LeavePcs DEF Uncount
  <2> QED
    BY <2>1
<1>13. CASE OwnPoke(t)
  <2>1. Quiet
    BY <1>13, ServePcs DEF OwnPoke
  <2> QED
    BY <2>1
<1>14. CASE LaneUnpark(t)
  <2>1. Quiet
    BY <1>14, ServePcs DEF LaneUnpark
  <2> QED
    BY <2>1
<1>15. CASE ReadFlag(t) \/ PokeLoop(t) \/ Leave(t)
  <2>1. Quiet
    BY <1>15 DEF ReadFlag, PokeLoop, Leave
  <2> QED
    BY <2>1
<1>16. CASE Pop(t)
  <2>1. Pops
    BY <1>16, ServePcs DEF Pop, Take
  <2> QED
    BY <2>1
<1>17. CASE RecheckRing(t) \/ LaneRecheck(t)
  <2>1. CASE ring # <<>>
    <3>1. Pops
      BY <1>17, <2>1 DEF RecheckRing, LaneRecheck
    <3> QED
      BY <3>1
  <2>2. CASE ring = <<>>
    <3>1. Quiet
      BY <1>17, <2>2 DEF RecheckRing, LaneRecheck
    <3> QED
      BY <3>1
  <2> QED
    BY <2>1, <2>2
<1>18. CASE ViewEnds(t)
  <2>1. CASE job[t] = "msg"
    <3>1. Quiet
      BY <1>18, <2>1 DEF ViewEnds
    <3> QED
      BY <3>1
  <2>2. CASE job[t] # "msg"
    BY <1>18, <2>2
  <2> QED
    BY <2>1, <2>2
<1> QED
  BY <1>2, <1>3, <1>4, <1>5, <1>6, <1>7, <1>8, <1>9, <1>10, <1>11, <1>12, <1>13, <1>14, <1>15,
     <1>16, <1>17, <1>18, <1>19 DEF ThreadStep

\* The loop changes the rings in two ways: a job is pushed, or completions are
\* drained.
LEMMA LoopMoves ==
  ASSUME LoopStep \/ Environment
  PROVE  \/ UNCHANGED <<ring, doneRing>>
         \/ doneRing' = Undrained /\ UNCHANGED ring
         \/ \E s \in Slots : Submit(s)
<1> USE DEF rings, chans, words, recs, locals, loop
<1>1. CASE ReadChannel \/ LookPasses \/ LookAged \/ ReadSpinners \/ ReadParked
  BY <1>1 DEF ReadChannel, LookPasses, LookAged, ReadSpinners, ReadParked
<1>2. CASE ReadIdle \/ Scan \/ Name \/ Poke \/ ReadLaneParked
  BY <1>2 DEF ReadIdle, Scan, Name, Poke, ReadLaneParked
<1>3. CASE Credit \/ PokeLane \/ ReadHead \/ RaiseFlag \/ RecheckDone
  BY <1>3 DEF Credit, PokeLane, ReadHead, RaiseFlag, RecheckDone
<1>4. CASE WokenByPool \/ WokenByTime \/ LowerFlag \/ PillOwn \/ PillLane
  BY <1>4 DEF WokenByPool, WokenByTime, LowerFlag, PillOwn, PillLane
<1>5. CASE SendMessage \/ WokenByClient \/ StopLoop
  BY <1>5 DEF SendMessage, WokenByClient, StopLoop
<1>6. CASE Drain("top", "events") \/ Drain("chan", "events") \/ Drain("events", "look")
  BY <1>6 DEF Drain
<1> QED
  BY <1>1, <1>2, <1>3, <1>4, <1>5, <1>6 DEF LoopStep, Environment

\* What the rings hold.
LEMMA RingTypes ==
  ASSUME TypeOK
  PROVE  /\ Len(ring) \in Nat /\ DOMAIN ring = 1 .. Len(ring)
         /\ \A i \in DOMAIN ring : ring[i] \in Slots
         /\ Len(doneRing) \in Nat /\ DOMAIN doneRing = 1 .. Len(doneRing)
         /\ \A i \in DOMAIN doneRing : /\ doneRing[i] \in Slots \X BOOLEAN
                                       /\ doneRing[i][1] \in Slots /\ doneRing[i][2] \in BOOLEAN
<1>1. ring \in Seq(Slots) /\ doneRing \in Seq(Slots \X BOOLEAN)
  BY DEF TypeOK
<1>2. \A i \in DOMAIN doneRing : doneRing[i] \in Slots \X BOOLEAN
  BY <1>1
<1> QED
  BY <1>1, <1>2, LenProperties

\* Owners and a step that moves no slot.
LEMMA OwnersQuiet ==
  ASSUME TypeOK, TypeOK', Owners, NEW t \in Threads, ThreadStep(t) \/ ViewEnds(t),
         UNCHANGED <<ring, doneRing>>, pc[t] # "publish", pc'[t] # "publish",
         job'[t] = job[t] \/ job'[t] \notin Slots
  PROVE  Owners'
<1>1. /\ \A u \in Threads : job'[u] = job[u] \/ job'[u] \notin Slots
      /\ \A u \in Threads : pc'[u] = "publish" <=> pc[u] = "publish"
      /\ \A u \in Threads : pc[u] = "publish" => job'[u] = job[u]
  BY ThreadKeeps
<1>2. QueuedOnce' /\ FinishedOnce'
  BY DEF Owners, QueuedOnce, FinishedOnce
<1>3. QueuedAlone'
  BY <1>1, RingTypes DEF Owners, QueuedAlone
<1>4. HeldOnce'
  BY <1>1 DEF Owners, HeldOnce
<1>5. Claims'
  BY <1>1 DEF Owners, Claims
<1>6. Cells'
  BY <1>1, RingTypes DEF Owners, Cells
<1> QED
  BY <1>2, <1>3, <1>4, <1>5, <1>6 DEF Owners

\* Owners and a job popped.
LEMMA OwnersPop ==
  ASSUME TypeOK, TypeOK', Owners, NEW t \in Threads, ThreadStep(t) \/ ViewEnds(t),
         PopRing, job'[t] = Head(ring), UNCHANGED doneRing,
         pc[t] # "publish", pc'[t] # "publish"
  PROVE  Owners'
<1>1. /\ \A u \in Threads \ {t} : job'[u] = job[u] /\ pc'[u] = pc[u]
      /\ \A u \in Threads : pc'[u] = "publish" <=> pc[u] = "publish"
  BY ThreadKeeps
<1>2. /\ job'[t] = ring[1] /\ 1 \in DOMAIN ring /\ ring[1] \in Slots
      /\ \A i \in DOMAIN ring' : i \in Nat /\ i + 1 \in DOMAIN ring /\ i + 1 # 1
                                 /\ ring'[i] = ring[i + 1]
  BY PopFacts, RingTypes
<1>3. QueuedOnce'
  BY <1>2 DEF Owners, QueuedOnce
<1>4. FinishedOnce'
  BY DEF Owners, FinishedOnce
<1>5. QueuedAlone'
  <2>1. ASSUME NEW i \in DOMAIN ring', NEW u \in Threads PROVE ring'[i] # job'[u]
    BY <1>1, <1>2, <2>1 DEF Owners, QueuedAlone, QueuedOnce
  <2>2. ASSUME NEW i \in DOMAIN ring', NEW j \in DOMAIN doneRing PROVE ring'[i] # doneRing[j][1]
    BY <1>2, <2>2 DEF Owners, QueuedAlone
  <2> QED
    BY <2>1, <2>2 DEF QueuedAlone
<1>6. HeldOnce'
  BY <1>1, <1>2 DEF Owners, HeldOnce, QueuedAlone
<1>7. Claims'
  BY <1>1 DEF Owners, Claims
<1>8. Cells'
  BY <1>1, <1>2 DEF Owners, Cells, QueuedAlone
<1> QED
  BY <1>3, <1>4, <1>5, <1>6, <1>7, <1>8 DEF Owners

\* Owners and a view's end.
LEMMA OwnersView ==
  ASSUME TypeOK, TypeOK', Hands, Owners, NEW t \in Threads, ViewEnds(t), job[t] # "msg"
  PROVE  Owners'
<1>1. /\ \A u \in Threads \ {t} : job'[u] = job[u] /\ pc'[u] = pc[u]
      /\ job'[t] = job[t] /\ job[t] \in Slots /\ UNCHANGED ring
      /\ pc[t] = "view" /\ pc'[t] = "publish"
  <2>1. \A u \in Threads \ {t} : job'[u] = job[u] /\ pc'[u] = pc[u]
    BY ThreadKeeps
  <2>2. job[t] \in Slots
    BY ViewFacts
  <2>3. UNCHANGED <<ring, job>> /\ pc[t] = "view" /\ pc'[t] = "publish"
    BY DEF ViewEnds, Go, TypeOK
  <2> QED
    BY <2>1, <2>2, <2>3
<1>2. \A u \in Threads : job'[u] = job[u]
  BY <1>1
<1> DEFINE n == Len(doneRing) + 1
<1>3. /\ n \in Nat /\ DOMAIN doneRing = 1 .. Len(doneRing) /\ DOMAIN doneRing' = 1 .. n
      /\ n \in DOMAIN doneRing' /\ doneRing'[n][1] = job[t] /\ ~doneRing'[n][2]
      /\ \A i \in DOMAIN doneRing : i \in DOMAIN doneRing' /\ i # n /\ doneRing'[i] = doneRing[i]
      /\ \A i \in DOMAIN doneRing' : i \in DOMAIN doneRing \/ i = n
  <2>1. /\ Len(doneRing) \in Nat /\ n = Len(doneRing) + 1
        /\ DOMAIN doneRing = 1 .. Len(doneRing) /\ DOMAIN doneRing' = 1 .. n
    BY ViewFacts
  <2>2. /\ doneRing'[n][1] = job[t] /\ ~doneRing'[n][2]
        /\ \A i \in DOMAIN doneRing : doneRing'[i] = doneRing[i]
    BY ViewFacts
  <2>3. /\ n \in Nat /\ n \in 1 .. n
        /\ \A i \in 1 .. Len(doneRing) : i \in 1 .. n /\ i # n
        /\ \A i \in 1 .. n : i \in 1 .. Len(doneRing) \/ i = n
    BY <2>1
  <2> QED
    BY <2>1, <2>2, <2>3
<1> HIDE DEF n
<1>4. \A i \in DOMAIN doneRing : doneRing[i][1] # job[t]
  <2> SUFFICES ASSUME NEW i \in DOMAIN doneRing, doneRing[i][1] = job[t] PROVE FALSE
    OBVIOUS
  <2>1. ~doneRing[i][2]
    BY DEF Owners, Cells
  <2>2. PICK u \in Threads : pc[u] = "publish" /\ job[u] = doneRing[i][1]
    BY <2>1 DEF Owners, Cells
  <2> QED
    BY <1>1, <2>2 DEF Owners, HeldOnce
<1>5. QueuedOnce' /\ HeldOnce'
  BY <1>1, <1>2 DEF Owners, QueuedOnce, HeldOnce
<1>6. FinishedOnce'
  BY <1>3, <1>4 DEF Owners, FinishedOnce
<1>7. QueuedAlone'
  BY <1>1, <1>2, <1>3 DEF Owners, QueuedAlone
<1>8. Claims'
  <2> SUFFICES ASSUME NEW u \in Threads, pc'[u] = "publish"
               PROVE  \E i \in DOMAIN doneRing' : doneRing'[i][1] = job'[u] /\ ~doneRing'[i][2]
    BY DEF Claims
  <2>1. CASE u = t
    BY <1>1, <1>3, <2>1
  <2>2. CASE u # t
    <3>1. PICK i \in DOMAIN doneRing : doneRing[i][1] = job[u] /\ ~doneRing[i][2]
      BY <1>1, <2>2 DEF Owners, Claims
    <3> QED
      BY <1>2, <1>3, <3>1
  <2> QED
    BY <2>1, <2>2
<1>9. Cells'
  <2> SUFFICES ASSUME NEW i \in DOMAIN doneRing'
               PROVE  IF doneRing'[i][2] THEN \A u \in Threads : job'[u] # doneRing'[i][1]
                      ELSE \E u \in Threads : pc'[u] = "publish" /\ job'[u] = doneRing'[i][1]
    BY DEF Cells
  <2>1. CASE i = n
    BY <1>1, <1>3, <2>1
  <2>2. CASE i # n
    BY <1>1, <1>2, <1>3, <2>2 DEF Owners, Cells
  <2> QED
    BY <2>1, <2>2
<1> QED
  BY <1>5, <1>6, <1>7, <1>8, <1>9 DEF Owners

\* Owners and a publication.
LEMMA OwnersPublish ==
  ASSUME TypeOK, TypeOK', Hands, Owners, NEW t \in Threads, Publish(t)
  PROVE  Owners'
<1>1. /\ \A u \in Threads \ {t} : job'[u] = job[u] /\ pc'[u] = pc[u]
      /\ job'[t] \notin Slots /\ job[t] \in Slots /\ UNCHANGED ring
      /\ pc[t] = "publish" /\ pc'[t] = "readFlag"
  <2>1. ThreadStep(t)
    BY DEF ThreadStep
  <2> QED
    <3>1. \A u \in Threads \ {t} : job'[u] = job[u] /\ pc'[u] = pc[u]
      BY <2>1, ThreadKeeps
    <3>2. job[t] \in Slots
      BY PublishFacts
    <3> QED
      BY <3>1, <3>2, Markers DEF Publish, Go, TypeOK
<1>2. /\ DOMAIN doneRing' = DOMAIN doneRing
      /\ \A i \in DOMAIN doneRing :
           /\ doneRing'[i][1] = doneRing[i][1]
           /\ doneRing[i][1] = job[t] => doneRing'[i][2]
           /\ doneRing[i][1] # job[t] => doneRing'[i] = doneRing[i]
  BY PublishFacts
<1>3. QueuedOnce' /\ HeldOnce'
  BY <1>1 DEF Owners, QueuedOnce, HeldOnce
<1>4. FinishedOnce'
  BY <1>2 DEF Owners, FinishedOnce
<1>5. QueuedAlone'
  BY <1>1, <1>2, RingTypes DEF Owners, QueuedAlone
<1>6. Claims'
  <2> SUFFICES ASSUME NEW u \in Threads, pc'[u] = "publish"
               PROVE  \E i \in DOMAIN doneRing' : doneRing'[i][1] = job'[u] /\ ~doneRing'[i][2]
    BY DEF Claims
  <2>1. u # t /\ pc[u] = "publish" /\ job'[u] = job[u]
    BY <1>1
  <2>2. PICK i \in DOMAIN doneRing : doneRing[i][1] = job[u] /\ ~doneRing[i][2]
    BY <2>1 DEF Owners, Claims
  <2>3. job[u] # job[t]
    BY <1>1, <2>1 DEF Owners, HeldOnce
  <2> QED
    BY <1>2, <2>1, <2>2, <2>3
<1>7. Cells'
  <2> SUFFICES ASSUME NEW i \in DOMAIN doneRing
               PROVE  IF doneRing'[i][2] THEN \A u \in Threads : job'[u] # doneRing'[i][1]
                      ELSE \E u \in Threads : pc'[u] = "publish" /\ job'[u] = doneRing'[i][1]
    BY <1>2 DEF Cells
  <2>1. CASE doneRing[i][1] = job[t]
    <3>1. doneRing'[i][2] /\ doneRing'[i][1] = job[t]
      BY <1>2, <2>1
    <3> QED
      BY <1>1, <3>1 DEF Owners, HeldOnce
  <2>2. CASE doneRing[i][1] # job[t]
    <3>1. doneRing'[i] = doneRing[i]
      BY <1>2, <2>2
    <3>2. \A u \in Threads \ {t} : pc'[u] = pc[u] /\ job'[u] = job[u]
      BY <1>1
    <3> QED
      BY <1>1, <2>2, <3>1, <3>2, RingTypes DEF Owners, Cells
  <2> QED
    BY <2>1, <2>2
<1> QED
  BY <1>3, <1>4, <1>5, <1>6, <1>7 DEF Owners

\* Owners and a drain.
LEMMA OwnersDrain ==
  ASSUME TypeOK, TypeOK', Owners, LoopStep \/ Environment, doneRing' = Undrained, UNCHANGED ring
  PROVE  Owners'
<1>1. UNCHANGED <<job, pc>>
  BY LoopKeeps
<1>2. PICK k \in 0 .. Len(doneRing) :
        /\ DOMAIN doneRing' = 1 .. Len(doneRing) - k
        /\ \A i \in 1 .. Len(doneRing) - k : doneRing'[i] = doneRing[i + k]
        /\ \A i \in 1 .. k : doneRing[i][2]
  BY UndrainedFacts
<1>3. /\ Len(doneRing) \in Nat /\ DOMAIN doneRing = 1 .. Len(doneRing)
      /\ DOMAIN doneRing' = 1 .. Len(doneRing) - k
      /\ \A i \in DOMAIN doneRing' : i + k \in DOMAIN doneRing /\ doneRing'[i] = doneRing[i + k]
  BY <1>2, RingTypes
<1>4. \A i \in DOMAIN doneRing : i \notin 1 .. k => i - k \in DOMAIN doneRing' /\ (i - k) + k = i
  BY <1>2, <1>3
<1>5. QueuedOnce' /\ HeldOnce'
  BY <1>1 DEF Owners, QueuedOnce, HeldOnce
<1>6. FinishedOnce'
  <2> SUFFICES ASSUME NEW i \in DOMAIN doneRing', NEW j \in DOMAIN doneRing', i # j
               PROVE  doneRing'[i][1] # doneRing'[j][1]
    BY DEF FinishedOnce
  <2>1. i + k # j + k
    BY <1>3
  <2> QED
    BY <1>3, <2>1 DEF Owners, FinishedOnce
<1>7. QueuedAlone'
  BY <1>1, <1>3 DEF Owners, QueuedAlone
<1>8. Claims'
  <2> SUFFICES ASSUME NEW u \in Threads, pc[u] = "publish"
               PROVE  \E i \in DOMAIN doneRing' : doneRing'[i][1] = job[u] /\ ~doneRing'[i][2]
    BY <1>1 DEF Claims
  <2>1. PICK i \in DOMAIN doneRing : doneRing[i][1] = job[u] /\ ~doneRing[i][2]
    BY DEF Owners, Claims
  <2>2. i \notin 1 .. k
    BY <1>2, <2>1
  <2>3. i - k \in DOMAIN doneRing' /\ doneRing'[i - k] = doneRing[(i - k) + k]
    BY <1>3, <1>4, <2>2
  <2> QED
    BY <1>4, <2>1, <2>2, <2>3
<1>9. Cells'
  BY <1>1, <1>3 DEF Owners, Cells
<1> QED
  BY <1>5, <1>6, <1>7, <1>8, <1>9 DEF Owners

\* Owners and a job pushed: submit is given slots that are the loop's.
LEMMA OwnersSubmit ==
  ASSUME TypeOK, TypeOK', Owners, NEW s \in Slots, Submit(s)
  PROVE  Owners'
<1>1. /\ ring' = Append(ring, s) /\ UNCHANGED <<job, pc, doneRing>>
  BY DEF Submit, locals
<1>2. /\ \A i \in DOMAIN ring : ring[i] # s
      /\ \A t \in Threads : job[t] # s
      /\ \A i \in DOMAIN doneRing : doneRing[i][1] # s
  BY DEF Submit, AtLoop, Queued, InHand, Finished
<1> DEFINE n == Len(ring) + 1
<1>3. /\ ring'[n] = s
      /\ \A i \in DOMAIN ring : i # n /\ ring'[i] = ring[i]
      /\ \A i \in DOMAIN ring' : i \in DOMAIN ring \/ i = n
  <2>1. ring \in Seq(Slots)
    BY DEF TypeOK
  <2> QED
    BY <1>1, <2>1, Appended
<1> HIDE DEF n
<1>4. QueuedOnce'
  BY <1>2, <1>3 DEF Owners, QueuedOnce
<1>5. QueuedAlone'
  BY <1>1, <1>2, <1>3 DEF Owners, QueuedAlone
<1>6. FinishedOnce' /\ HeldOnce' /\ Claims' /\ Cells'
  BY <1>1 DEF Owners, FinishedOnce, HeldOnce, Claims, Cells
<1> QED
  BY <1>4, <1>5, <1>6 DEF Owners

\* Owners at every step.
LEMMA OwnersStep ==
  ASSUME TypeOK, TypeOK', Hands, Owners, [Next]_vars
  PROVE  Owners'
<1>1. ASSUME NEW t \in Threads, ThreadStep(t) \/ ViewEnds(t) PROVE Owners'
  BY <1>1, JobMoves, OwnersQuiet, OwnersPop, OwnersView, OwnersPublish
<1>2. CASE LoopStep \/ Environment
  <2>1. CASE UNCHANGED <<ring, doneRing>>
    <3>1. UNCHANGED <<job, pc>>
      BY <1>2, LoopKeeps
    <3>2. QueuedOnce' /\ FinishedOnce' /\ QueuedAlone' /\ HeldOnce'
      BY <2>1, <3>1 DEF Owners, QueuedOnce, FinishedOnce, QueuedAlone, HeldOnce
    <3>3. Claims' /\ Cells'
      BY <2>1, <3>1 DEF Owners, Claims, Cells
    <3> QED
      BY <3>2, <3>3 DEF Owners
  <2> QED
    BY <1>2, <2>1, LoopMoves, OwnersDrain, OwnersSubmit
<1>3. CASE UNCHANGED vars
  BY <1>3 DEF vars, rings, locals, Owners, QueuedOnce, FinishedOnce, QueuedAlone, HeldOnce,
              Claims, Cells
<1> QED
  BY <1>1, <1>2, <1>3 DEF Next

\* As many values as places, when no two places hold the same.
LEMMA Distinct ==
  ASSUME NEW n \in Nat, NEW f, \A i, j \in 1 .. n : i # j => f[i] # f[j]
  PROVE  Cardinality({f[i] : i \in 1 .. n}) = n
<1> DEFINE S == {f[i] : i \in 1 .. n}
           g == [i \in 1 .. n |-> f[i]]
<1>1. g \in Bijection(1 .. n, S)
  BY DEF Bijection, Injection, Surjection, IsInjective
<1>2. IsFiniteSet(1 .. n) /\ Cardinality(1 .. n) = n
  BY FS_Interval
<1> HIDE DEF S, g
<1>3. Cardinality(S) = n
  BY <1>1, <1>2, FS_Bijection DEF ExistsBijection
<1> QED
  BY <1>3 DEF S

\* What Owners says of the sets of slots.
LEMMA OwnersOne ==
  ASSUME TypeOK, Hands, Owners
  PROVE  OneOwner
<1>1. Cardinality(Queued) = Len(ring)
  <2>1. \A i, j \in 1 .. Len(ring) : i # j => ring[i] # ring[j]
    BY RingTypes DEF Owners, QueuedOnce
  <2>2. Queued = {ring[i] : i \in 1 .. Len(ring)} /\ Len(ring) \in Nat
    BY RingTypes DEF Queued
  <2> QED
    BY <2>1, <2>2, Distinct
<1>2. Cardinality(Finished) = Len(doneRing)
  <2>1. \A i, j \in 1 .. Len(doneRing) : i # j => doneRing[i][1] # doneRing[j][1]
    BY RingTypes DEF Owners, FinishedOnce
  <2> DEFINE f == [i \in 1 .. Len(doneRing) |-> doneRing[i][1]]
  <2>2. Finished = {f[i] : i \in 1 .. Len(doneRing)} /\ Len(doneRing) \in Nat
    BY RingTypes DEF Finished
  <2>3. \A i, j \in 1 .. Len(doneRing) : i # j => f[i] # f[j]
    BY <2>1
  <2> HIDE DEF f
  <2> DEFINE n == Len(doneRing)
  <2>4. n \in Nat /\ (\A i, j \in 1 .. n : i # j => f[i] # f[j]) /\ Finished = {f[i] : i \in 1 .. n}
    BY <2>2, <2>3
  <2> HIDE DEF n
  <2>5. Cardinality({f[i] : i \in 1 .. n}) = n
    BY <2>4, Distinct
  <2> QED
    BY <2>4, <2>5 DEF n
<1>3. Queued \cap (InHand \cup Finished) = {}
  BY DEF Queued, InHand, Finished, Owners, QueuedAlone
<1>4. \A t, u \in Threads : t # u /\ job[t] = job[u] => job[t] \notin Slots
  BY DEF Owners, HeldOnce
<1>5. ASSUME NEW t \in Threads PROVE job[t] \in Finished <=> pc[t] = "publish"
  <2>1. CASE pc[t] = "publish"
    BY <2>1 DEF Owners, Claims, Finished
  <2>2. ASSUME job[t] \in Finished PROVE pc[t] = "publish"
    <3>1. PICK i \in DOMAIN doneRing : job[t] = doneRing[i][1]
      BY <2>2 DEF Finished
    <3>2. PICK u \in Threads : pc[u] = "publish" /\ job[u] = job[t]
      BY <3>1, RingTypes DEF Owners, Cells
    <3> QED
      BY <3>1, <3>2, RingTypes DEF Owners, HeldOnce
  <2> QED
    BY <2>1, <2>2
<1> QED
  BY <1>1, <1>2, <1>3, <1>4, <1>5 DEF OneOwner

-----------------------------------------------------------------------------
(* A completion is not behind a loop that waits.                           *)

\* The flag is raised before the last look, and lowered when the loop is awake.
LEMMA FlagStep ==
  ASSUME TypeOK, Flag, [Next]_vars
  PROVE  Flag'
<1>1. ASSUME NEW t \in Threads, ThreadStep(t) \/ ViewEnds(t) PROVE Flag'
  BY <1>1, ThreadKeeps DEF Flag
<1> USE DEF Flag, LGo, Step, Over, vars, words, loop
<1>2. CASE ReadChannel \/ LookPasses \/ LookAged \/ ReadSpinners \/ ReadParked
  BY <1>2 DEF ReadChannel, LookPasses, LookAged, ReadSpinners, ReadParked
<1>3. CASE ReadIdle \/ Scan
  BY <1>3 DEF ReadIdle, Scan
<1>4. CASE Name \/ Poke \/ ReadLaneParked
  BY <1>4 DEF Name, Poke, ReadLaneParked
<1>5. CASE Credit \/ PokeLane \/ ReadHead \/ RaiseFlag \/ RecheckDone
  BY <1>5 DEF Credit, PokeLane, ReadHead, RaiseFlag, RecheckDone
<1>6. CASE WokenByPool \/ WokenByTime \/ LowerFlag
  BY <1>6 DEF WokenByPool, WokenByTime, LowerFlag
<1>7. CASE PillOwn \/ PillLane
  BY <1>7 DEF PillOwn, PillLane
<1>8. CASE SendMessage \/ WokenByClient \/ StopLoop
  BY <1>8 DEF SendMessage, WokenByClient, StopLoop
<1>9. CASE Drain("top", "events") \/ Drain("chan", "events") \/ Drain("events", "look")
  BY <1>9 DEF Drain
<1>10. CASE \E s \in Slots : Submit(s)
  BY <1>10 DEF Submit
<1>11. CASE UNCHANGED vars
  BY <1>11
<1> HIDE DEF Flag, LGo, Step, Over, vars, words, loop
<1> QED
  BY <1>1, <1>2, <1>3, <1>4, <1>5, <1>6, <1>7, <1>8, <1>9, <1>10, <1>11 DEF Next, LoopStep,
     Environment

\* What is claimed while the loop waits is announced by its producer.
LEMMA HearsStep ==
  ASSUME TypeOK, TypeOK', Owners, Flag, LoopHears, [Next]_vars
  PROVE  LoopHears'
<1> DEFINE Announcing(t) == pc[t] \in {"publish", "readFlag", "pokeLoop"}
<1>1. ASSUME NEW t \in Threads, ThreadStep(t) \/ ViewEnds(t) PROVE LoopHears'
  <2> SUFFICES ASSUME doneRing' # <<>>, lpc' = "blocked"
               PROVE  doneChan' \/ \E u \in Threads : Announcing(u)'
    BY DEF LoopHears
  <2>1. lpc = "blocked" /\ loopParked
    BY <1>1, ThreadKeeps DEF Flag
  <2>2. \A u \in Threads \ {t} : pc'[u] = pc[u]
    BY <1>1, ThreadKeeps
  <2>3. CASE ViewEnds(t) /\ job[t] # "msg"
    <3>1. pc'[t] = "publish"
      BY <2>3 DEF ViewEnds, Go, TypeOK
    <3> QED
      BY <3>1
  <2>4. CASE Publish(t)
    <3>1. pc'[t] = "readFlag"
      BY <2>4 DEF Publish, Go, TypeOK
    <3> QED
      BY <3>1
  <2>5. CASE ReadFlag(t)
    <3>1. pc'[t] = "pokeLoop"
      BY <2>1, <2>5 DEF ReadFlag, Go, TypeOK
    <3> QED
      BY <3>1
  <2>6. CASE PokeLoop(t)
    BY <2>6 DEF PokeLoop
  <2>7. CASE ~Announcing(t) /\ UNCHANGED <<doneRing, doneChan>>
    BY <2>1, <2>2, <2>7 DEF LoopHears
  <2> USE DEF Go, rings
  <2>8. CASE Call(t) \/ LookPolls(t) \/ LookSkips(t) \/ PopNothing(t) \/ SpinOver(t) \/ Announce(t) \/ LeaveSpin(t)
    <3>1. ~Announcing(t) /\ UNCHANGED <<doneRing, doneChan>>
      BY <2>8 DEF PopRing, Call, LookPolls, LookSkips, PopNothing, SpinOver, Announce, LeaveSpin
    <3> QED
      BY <2>7, <3>1
  <2>9. CASE PollOwn(t) \/ PollSock(t) \/ Pop(t)
    <3>1. ~Announcing(t) /\ UNCHANGED <<doneRing, doneChan>>
      BY <2>9 DEF PopRing, PollOwn, PollSock, Pop
    <3> QED
      BY <2>7, <3>1
  <2>10. CASE ParkOwn(t) \/ CountOwn(t) \/ Again(t) \/ ParkLane(t) \/ RecheckSock(t) \/ Block(t) \/ Unpark(t)
    <3>1. ~Announcing(t) /\ UNCHANGED <<doneRing, doneChan>>
      BY <2>10 DEF PopRing, ParkOwn, CountOwn, Again, ParkLane, RecheckSock, Block, Unpark
    <3> QED
      BY <2>7, <3>1
  <2>11. CASE RecheckRing(t) \/ LaneRecheck(t)
    <3>1. ~Announcing(t) /\ UNCHANGED <<doneRing, doneChan>>
      BY <2>11 DEF PopRing, RecheckRing, LaneRecheck
    <3> QED
      BY <2>7, <3>1
  <2>12. CASE LaneBlock(t) \/ Woke(t) \/ Uncount(t) \/ OwnPoke(t) \/ LaneUnpark(t) \/ Leave(t)
    <3>1. ~Announcing(t) /\ UNCHANGED <<doneRing, doneChan>>
      BY <2>12 DEF PopRing, LaneBlock, Woke, Uncount, OwnPoke, LaneUnpark, Leave
    <3> QED
      BY <2>7, <3>1
  <2>13. CASE ViewEnds(t) /\ job[t] = "msg"
    <3>1. ~Announcing(t) /\ UNCHANGED <<doneRing, doneChan>>
      BY <2>13 DEF ViewEnds
    <3> QED
      BY <2>7, <3>1
  <2> QED
    BY <1>1, <2>3, <2>4, <2>5, <2>6, <2>8, <2>9, <2>10, <2>11, <2>12, <2>13 DEF ThreadStep
<1>2. CASE LoopStep \/ Environment
  <2> SUFFICES ASSUME doneRing' # <<>>, lpc' = "blocked"
               PROVE  doneChan' \/ \E u \in Threads : Announcing(u)'
    BY DEF LoopHears
  <2>1. UNCHANGED pc
    BY <1>2, LoopKeeps
  <2>2. CASE RecheckDone
    <3>1. UNCHANGED doneRing /\ ~DonePending
      BY <2>2 DEF RecheckDone, LGo, rings
    <3>2. 1 \in DOMAIN doneRing /\ ~doneRing[1][2]
      <4>1. doneRing \in Seq(Slots \X BOOLEAN) /\ doneRing # <<>>
        BY <3>1 DEF TypeOK
      <4>2. Len(doneRing) \in Nat \ {0} /\ Head(doneRing) = doneRing[1]
        BY <4>1, EmptySeq
      <4>3. 1 \in DOMAIN doneRing
        BY <4>2, RingTypes
      <4> QED
        BY <3>1, <4>1, <4>2, <4>3 DEF DonePending
    <3>3. \E u \in Threads : pc[u] = "publish"
      BY <3>2 DEF Owners, Cells
    <3> QED
      BY <2>1, <3>3
  <2>3. ~RecheckDone => FALSE
    <3> USE DEF LGo, Step, Over
    <3>1. ASSUME ReadChannel \/ LookPasses \/ LookAged \/ ReadSpinners \/ ReadParked PROVE FALSE
      BY <3>1 DEF ReadChannel, LookPasses, LookAged, ReadSpinners, ReadParked
    <3>2. ASSUME ReadIdle PROVE FALSE
      BY <3>2 DEF ReadIdle
    <3>3. ASSUME Scan PROVE FALSE
      BY <3>3 DEF Scan
    <3>4. ASSUME Name \/ Poke \/ ReadLaneParked PROVE FALSE
      BY <3>4 DEF Name, Poke, ReadLaneParked
    <3>5. ASSUME Credit \/ PokeLane \/ ReadHead \/ RaiseFlag PROVE FALSE
      BY <3>5 DEF Credit, PokeLane, ReadHead, RaiseFlag
    <3>6. ASSUME WokenByPool \/ WokenByTime \/ LowerFlag PROVE FALSE
      BY <3>6 DEF WokenByPool, WokenByTime, LowerFlag
    <3>7. ASSUME PillOwn \/ PillLane PROVE FALSE
      BY <3>7 DEF PillOwn, PillLane
    <3>8. ASSUME SendMessage \/ WokenByClient \/ StopLoop PROVE FALSE
      BY <3>8 DEF SendMessage, WokenByClient, StopLoop
    <3>9. ASSUME Drain("top", "events") \/ Drain("chan", "events") \/ Drain("events", "look") PROVE FALSE
      BY <3>9 DEF Drain
    <3>10. ASSUME \E s \in Slots : Submit(s) PROVE FALSE
      BY <3>10 DEF Submit
    <3> QED
      BY <1>2, <3>1, <3>2, <3>3, <3>4, <3>5, <3>6, <3>7, <3>8, <3>9, <3>10 DEF LoopStep, Environment
  <2> QED
    BY <2>2, <2>3
<1>3. CASE UNCHANGED vars
  BY <1>3 DEF vars, rings, locals, loop, LoopHears
<1> QED
  BY <1>1, <1>2, <1>3 DEF Next

-----------------------------------------------------------------------------
(* The records and the channels.                                           *)

\* The four contents of a channel.
LEMMA Channel ==
  /\ Nothing = <<>> /\ OnePoke # Nothing /\ OnePill # Nothing /\ PokeThenPill # Nothing
  /\ OnePoke # OnePill /\ OnePoke # PokeThenPill /\ OnePill # PokeThenPill
  /\ Head(OnePoke) = "poke" /\ Tail(OnePoke) = Nothing
  /\ Head(OnePill) = "pill" /\ Tail(OnePill) = Nothing
  /\ Head(PokeThenPill) = "poke" /\ Tail(PokeThenPill) = OnePill
  /\ Append(Nothing, "poke") = OnePoke /\ Append(Nothing, "pill") = OnePill
  /\ Append(OnePoke, "pill") = PokeThenPill
<1>1. Nothing = <<>> /\ OnePoke # Nothing /\ OnePill # Nothing /\ PokeThenPill # Nothing
  BY DEF Nothing, OnePoke, OnePill, PokeThenPill
<1>2. OnePoke # OnePill /\ OnePoke # PokeThenPill /\ OnePill # PokeThenPill
  <2>1. OnePoke[1] = "poke" /\ OnePill[1] = "pill" /\ PokeThenPill[1] = "poke"
    BY DEF OnePoke, OnePill, PokeThenPill
  <2>2. Len(OnePoke) = 1 /\ Len(PokeThenPill) = 2
    BY DEF OnePoke, PokeThenPill
  <2> QED
    BY <2>1, <2>2
<1>3. Head(OnePoke) = "poke" /\ Head(OnePill) = "pill" /\ Head(PokeThenPill) = "poke"
  BY DEF OnePoke, OnePill, PokeThenPill
<1>4. Tail(OnePoke) = Nothing
  BY DEF OnePoke, Nothing
<1>5. Tail(OnePill) = Nothing
  BY DEF OnePill, Nothing
<1>6. Tail(PokeThenPill) = OnePill
  BY DEF PokeThenPill, OnePill
<1>7. Append(Nothing, "poke") = OnePoke /\ Append(Nothing, "pill") = OnePill
  BY DEF Nothing, OnePoke, OnePill
<1>8. Append(OnePoke, "pill") = PokeThenPill
  <2>1. /\ OnePoke \in Seq({"poke", "pill"}) /\ Len(OnePoke) = 1 /\ OnePoke[1] = "poke"
        /\ PokeThenPill \in Seq({"poke", "pill"}) /\ Len(PokeThenPill) = 2
        /\ PokeThenPill[1] = "poke" /\ PokeThenPill[2] = "pill"
    BY DEF OnePoke, PokeThenPill
  <2> DEFINE q == Append(OnePoke, "pill")
  <2>2. /\ q \in Seq({"poke", "pill"}) /\ Len(q) = 2
        /\ q[1] = "poke" /\ q[2] = "pill"
    <3>1. /\ q \in Seq({"poke", "pill"}) /\ Len(q) = Len(OnePoke) + 1
          /\ \A i \in 1 .. Len(OnePoke) : q[i] = OnePoke[i]
          /\ q[Len(OnePoke) + 1] = "pill"
      <4> DEFINE S == {"poke", "pill"}
      <4>1. OnePoke \in Seq(S) /\ "pill" \in S
        BY <2>1
      <4>2. /\ q \in Seq(S) /\ Len(q) = Len(OnePoke) + 1
            /\ \A i \in 1 .. Len(OnePoke) : q[i] = OnePoke[i]
            /\ q[Len(OnePoke) + 1] = "pill"
        <5> HIDE DEF S
        <5> QED
          BY <4>1, Appended
      <4> QED
        BY <4>2
    <3> HIDE DEF q
    <3> QED
      BY <2>1, <3>1
  <2> HIDE DEF q
  <2>3. \A i \in 1 .. Len(q) : q[i] = PokeThenPill[i]
    BY <2>1, <2>2
  <2>4. q = PokeThenPill
    BY <2>1, <2>2, <2>3, SeqEqual
  <2> QED
    BY <2>4 DEF q
<1> QED
  BY <1>1, <1>2, <1>3, <1>4, <1>5, <1>6, <1>7, <1>8

\* A record that is not written stays right while its thread moves within a part.
LEMMA RecordStays ==
  ASSUME NEW t \in Threads, RecordOf(t),
         UNCHANGED <<lpc, best, at, lane>>,
         state'[t] = state[t], own'[t] = own[t], pill'[t] = pill[t],
         \A S \in {Marked, {"ownPoke"}, {"woke"}} : pc'[t] \in S <=> pc[t] \in S,
         pc'[t] \in {"own", "count"} \cup Announced => t \in lane.registered,
         pc'[t] \in OnLane => t \notin lane.registered
  PROVE  RecordOf(t)'
<1>1. /\ pc'[t] \in Marked <=> pc[t] \in Marked
      /\ pc'[t] = "ownPoke" <=> pc[t] = "ownPoke"
      /\ pc'[t] = "woke" <=> pc[t] = "woke"
  OBVIOUS
<1>2. Owed(t)' = Owed(t) /\ Pilled(t)' = Pilled(t)
  BY <1>1 DEF Owed, Pilled
<1> QED
  BY <1>1, <1>2 DEF RecordOf, Stopping

\* A thread's step keeps its record and its channel in step with it.
LEMMA RecordsThread ==
  ASSUME TypeOK, Hands, Records, NEW t \in Threads, ThreadStep(t) \/ ViewEnds(t)
  PROVE  Records'
<1>1. /\ UNCHANGED <<lpc, best, at, lane>>
      /\ \A u \in Threads \ {t} : pc'[u] = pc[u] /\ state'[u] = state[u] /\ pill'[u] = pill[u]
                                  /\ own'[u] = own[u]
  BY ThreadKeeps
<1>2. \A u \in Threads \ {t} : RecordOf(u)'
  BY <1>1 DEF Records, RecordOf, Owed, Pilled, Stopping
<1>3. RecordOf(t) /\ Named
  BY DEF Records
<1>4. SUFFICES RecordOf(t)' /\ (lpc = "poke" /\ best = t => state'[t] = "woken" /\ pc'[t] # "woke")
  <2>1. best # None => best \in Threads
    BY DEF TypeOK
  <2>2. (\A u \in Threads : RecordOf(u)') /\ Named'
    BY <1>1, <1>2, <1>3, <1>4, <2>1 DEF Named
  <2> QED
    BY <2>2 DEF Records
<1>5. lpc = "poke" /\ best = t => state[t] = "woken" /\ ~Owed(t) /\ ~Pilled(t)
                                  /\ own[t] = Nothing /\ pc[t] # "woke"
  BY <1>3 DEF RecordOf, Named, Owed, Pilled
<1>6. state[t] \in {"running", "parked", "woken"} /\ pc[t] \in ThreadPcs
  BY DEF TypeOK
<1> DEFINE Stays == /\ state'[t] = state[t] /\ own'[t] = own[t] /\ pill'[t] = pill[t]
                    /\ pc'[t] \in Marked <=> pc[t] \in Marked
                    /\ pc'[t] = "ownPoke" <=> pc[t] = "ownPoke"
                    /\ pc'[t] = "woke" <=> pc[t] = "woke"
                    /\ pc'[t] \in {"own", "count"} \cup Announced => t \in lane.registered
                    /\ pc'[t] \in OnLane => t \notin lane.registered
<1>7. ASSUME Stays 
      PROVE  RecordOf(t)' /\ (lpc = "poke" /\ best = t => state'[t] = "woken" /\ pc'[t] # "woke")
  BY <1>1, <1>3, <1>5, <1>7, RecordStays
<1>8. CASE Call(t)
  <2>1. Stays
    BY <1>8, <1>3 DEF TypeOK, RecordOf, Marked, Announced, OnLane, Go, rings, chans, words, recs,
       locals, loop,
       Call
  <2> QED
    BY <1>7, <2>1
<1>9. CASE LookPolls(t) \/ LookSkips(t) \/ PopNothing(t) \/ SpinOver(t) \/ Announce(t)
  <2>1. Stays
    BY <1>9, <1>3 DEF TypeOK, RecordOf, Marked, Announced, OnLane, Go, rings, chans, words, recs,
       locals, loop,
       LookPolls, LookSkips, PopNothing, SpinOver, Announce
  <2> QED
    BY <1>7, <2>1
<1>10. CASE Pop(t)
  <2>1. Stays
    BY <1>10, <1>3, ServePcs DEF TypeOK, RecordOf, Marked, Announced, OnLane, Take, Go, rings,
       chans, words, recs, locals, loop,
       Pop
  <2> QED
    BY <1>7, <2>1
<1>11. CASE LeaveSpin(t)
  <2>1. Stays
    <3>1. state' = state /\ own' = own /\ pill' = pill
      BY <1>11 DEF chans, recs, LeaveSpin
    <3> QED
      BY <1>11, <3>1, LeavePcs DEF Marked, Announced, OnLane
  <2> QED
    BY <1>7, <2>1
<1>12. CASE CountOwn(t) \/ Again(t) \/ ParkLane(t)
  <2>1. Stays
    BY <1>12, <1>3 DEF TypeOK, RecordOf, Marked, Announced, OnLane, Go, rings, chans, words, recs,
       locals, loop,
       CountOwn, Again, ParkLane
  <2> QED
    BY <1>7, <2>1
<1>13. CASE RecheckRing(t)
  <2>1. Stays
    BY <1>13, <1>3 DEF TypeOK, RecordOf, Marked, Announced, OnLane, Go, rings, chans, words, recs,
       locals, loop,
       RecheckRing
  <2> QED
    BY <1>7, <2>1
<1>14. CASE LaneRecheck(t) \/ RecheckSock(t) \/ LaneBlock(t)
  <2>1. Stays
    BY <1>14, <1>3 DEF TypeOK, RecordOf, Marked, Announced, OnLane, Go, rings, chans, words, recs,
       locals, loop,
       LaneRecheck, RecheckSock, LaneBlock
  <2> QED
    BY <1>7, <2>1
<1>15. CASE Uncount(t)
  <2>1. Stays
    BY <1>15, <1>3, ServePcs DEF TypeOK, RecordOf, Marked, Announced, OnLane, Go, rings, chans,
       words, recs, locals, loop,
       Uncount
  <2> QED
    BY <1>7, <2>1
<1>16. CASE LaneUnpark(t)
  <2>1. Stays
    BY <1>16, <1>3, ServePcs DEF TypeOK, RecordOf, Marked, Announced, OnLane, Go, rings, chans,
       words, recs, locals, loop,
       LaneUnpark
  <2> QED
    BY <1>7, <2>1
<1>17. CASE ViewEnds(t) \/ Publish(t)
  <2>1. Stays
    BY <1>17, <1>3 DEF TypeOK, RecordOf, Marked, Announced, OnLane, Go, rings, chans, words, recs,
       locals, loop,
       ViewEnds, Publish
  <2> QED
    BY <1>7, <2>1
<1>18. CASE ReadFlag(t) \/ PokeLoop(t) \/ Leave(t)
  <2>1. Stays
    BY <1>18, <1>3 DEF TypeOK, RecordOf, Marked, Announced, OnLane, Go, rings, chans, words, recs,
       locals, loop,
       ReadFlag, PokeLoop, Leave
  <2> QED
    BY <1>7, <2>1
<1>19. CASE PollSock(t)
  <2>1. CASE Received = None
    <3>1. Stays
      BY <1>19, <2>1, <1>3 DEF TypeOK, RecordOf, Marked, Announced, OnLane, Go, recs, PollSock
    <3> QED
      BY <1>7, <3>1
  <2>2. CASE Received # None
    <3>1. Stays
      BY <1>19, <2>2, <1>3, ServePcs
         DEF TypeOK, RecordOf, Marked, Announced, OnLane, Take, recs, PollSock
    <3> QED
      BY <1>7, <3>1
  <2> QED
    BY <2>1, <2>2
<1>20. CASE PollOwn(t)
  <2>1. state[t] = "running" /\ ~Owed(t) /\ own[t] \in {Nothing, OnePill}
    BY <1>3, <1>20 DEF RecordOf, Owed, PollOwn, Marked
  <2>2. CASE own[t] = Nothing
    <3>1. Stays
      BY <1>20, <1>3, <2>2, Channel DEF TypeOK, RecordOf, Marked, Announced, OnLane, Go, recs,
         PollOwn
    <3> QED
      BY <1>7, <3>1
  <2>3. CASE own[t] = OnePill
    <3>1. own'[t] = Nothing /\ state'[t] = "running" /\ pill'[t] = pill[t]
      BY <1>20, <2>1, <2>3, Channel DEF TypeOK, recs, PollOwn
    <3>2. pc'[t] \in {"dropSpin", "leave", "view"}
      BY <1>20, <2>3, Channel, ServePcs DEF TypeOK, PollOwn, Take
    <3> QED
      BY <1>1, <1>3, <1>5, <2>1, <3>1, <3>2, Channel DEF RecordOf, Owed, Marked, Announced, OnLane
  <2> QED
    BY <2>1, <2>2, <2>3
<1>21. CASE ParkOwn(t)
  <2>1. state[t] = "running" /\ ~Owed(t) /\ t \in lane.registered
    BY <1>3, <1>21 DEF RecordOf, Owed, ParkOwn, Marked, Go
  <2>2. pc'[t] = "count" /\ state'[t] = "parked" /\ own'[t] = own[t] /\ pill'[t] = pill[t]
    BY <1>21 DEF TypeOK, ParkOwn, Go, chans
  <2> QED
    BY <1>1, <1>3, <1>5, <2>1, <2>2 DEF RecordOf, Owed, Pilled, Marked, Announced, OnLane
<1>22. CASE Block(t)
  <2>1. t \in lane.registered /\ state[t] # "running" /\ own[t] # <<>> /\ pc[t] = "block"
    BY <1>3, <1>22 DEF RecordOf, Block, Marked, Announced, Go
  <2>2. pc'[t] = "woke" /\ state'[t] = state[t] /\ own'[t] = Tail(own[t]) /\ pill'[t] = pill[t]
    BY <1>22 DEF TypeOK, Block, Go, recs
  <2>3. own'[t] \in {Nothing, OnePill} /\ (own'[t] = OnePill => own[t] = PokeThenPill)
    BY <1>3, <2>1, <2>2, Channel DEF RecordOf
  <2>4. ~Owed(t)' /\ Pilled(t)' = Pilled(t)
    BY <1>1, <2>2 DEF Owed, Pilled
  <2>5. ~(lpc = "poke" /\ best = t)
    BY <1>5, <2>1, Channel
  <2>6. state[t] = "parked" => Stopping
    BY <1>3, <2>1, Channel DEF RecordOf, Owed, Pilled, Stopping
  <2> QED
    BY <1>1, <1>3, <2>1, <2>2, <2>3, <2>4, <2>5, <2>6, Channel
       DEF RecordOf, Marked, Announced, OnLane, Stopping
<1>23. CASE Woke(t)
  <2>1. t \in lane.registered /\ pc[t] = "woke" /\ own[t] \in {Nothing, OnePill}
    BY <1>3, <1>23 DEF RecordOf, Woke, Owed, Announced, Go
  <2>2. /\ pc'[t] \in {"uncount", "leave", "again"} /\ state'[t] = "running"
        /\ own'[t] = own[t] /\ pill'[t] = pill[t]
    BY <1>23, ServePcs DEF TypeOK, Woke, Go, chans
  <2>3. ~Owed(t)' /\ Pilled(t)' = Pilled(t)
    BY <1>1, <2>2 DEF Owed, Pilled
  <2>4. ~(lpc = "poke" /\ best = t)
    BY <1>5, <2>1
  <2> QED
    BY <1>1, <1>3, <2>1, <2>2, <2>3, <2>4 DEF RecordOf, Marked, Announced, OnLane
<1>24. CASE Unpark(t)
  <2>1. t \in lane.registered /\ pc[t] = "unpark" /\ state[t] \in {"parked", "woken"}
    BY <1>3, <1>6, <1>24 DEF RecordOf, Unpark, Marked, Announced, Go
  <2>2. own'[t] = own[t] /\ pill'[t] = pill[t]
    BY <1>24 DEF Unpark, chans
  <2>3. Pilled(t)' = Pilled(t)
    BY <1>1 DEF Pilled
  <2>4. CASE state[t] = "parked"
    <3>1. pc'[t] = "uncountJob" /\ state'[t] = "running"
      BY <1>24, <2>4 DEF TypeOK, Unpark, Go
    <3>2. ~Owed(t) /\ ~Owed(t)' /\ ~(lpc = "poke" /\ best = t)
      BY <1>5, <2>4, <3>1 DEF Owed
    <3> QED
      BY <1>1, <1>3, <2>1, <2>2, <2>3, <3>1, <3>2 DEF RecordOf, Marked, Announced, OnLane
  <2>5. CASE state[t] = "woken"
    <3>1. pc'[t] = "ownPoke" /\ state'[t] = "woken"
      BY <1>24, <2>5 DEF TypeOK, Unpark, Go
    <3>2. Owed(t)' = Owed(t)
      BY <1>1, <2>1, <2>5, <3>1 DEF Owed
    <3> QED
      BY <1>1, <1>3, <2>1, <2>2, <2>3, <3>1, <3>2 DEF RecordOf, Marked, Announced, OnLane
  <2> QED
    BY <2>1, <2>4, <2>5
<1>25. CASE OwnPoke(t)
  <2>1. t \in lane.registered /\ pc[t] = "ownPoke" /\ state[t] = "woken" /\ own[t] # <<>>
    BY <1>3, <1>25 DEF RecordOf, OwnPoke, Marked, Announced, Go
  <2>2. ~(lpc = "poke" /\ best = t) /\ Owed(t)
    BY <1>5, <2>1, Channel DEF Owed, RecordOf, Pilled
  <2>3. Head(own[t]) = "poke" /\ Tail(own[t]) \in {Nothing, OnePill}
        /\ (Tail(own[t]) = OnePill => own[t] = PokeThenPill)
    BY <1>3, <2>2, Channel DEF RecordOf
  <2>4. /\ pc'[t] \in {"leave", "view"} /\ state'[t] = "running"
        /\ own'[t] = Tail(own[t]) /\ ~pill'[t]
    BY <1>3, <1>25, <2>3, ServePcs DEF TypeOK, OwnPoke, Go, RecordOf
  <2>5. ~Owed(t)' /\ Pilled(t)' = Pilled(t)
    BY <1>1, <2>4 DEF Owed, Pilled
  <2> QED
    BY <1>1, <1>3, <2>2, <2>3, <2>4, <2>5, Channel DEF RecordOf, Marked, Announced, OnLane
<1> QED
  BY <1>8, <1>9, <1>10, <1>11, <1>12, <1>13, <1>14, <1>15, <1>16, <1>17, <1>18, <1>19, <1>20,
     <1>21, <1>22, <1>23, <1>24, <1>25 DEF ThreadStep

\* Every record stays right when no record and no channel is written, and no poke
\* begins or ends.
LEMMA RecordsStay ==
  ASSUME Records, UNCHANGED <<state, own, pc, pill, lane>>, lpc # "poke", lpc' # "poke",
         \A t \in Threads : Pilled(t) => Pilled(t)',
         Stopping => Stopping',
         best' # None => best' \in lane.registered,
         lpc' = "cas" => best' # None
  PROVE  Records'
<1>1. \A t \in Threads : Owed(t)' = Owed(t)
  BY DEF Owed
<1>2. ASSUME NEW t \in Threads PROVE RecordOf(t)'
  <2>1. RecordOf(t)
    BY DEF Records
  <2> QED
    BY <1>1, <2>1 DEF RecordOf
<1>3. Named'
  BY DEF Records, Named
<1> QED
  BY <1>2, <1>3 DEF Records

\* The loop writes a record to name it and a channel to wake or to pill its thread.
LEMMA RecordsLoop ==
  ASSUME TypeOK, TypeOK', Records, LoopStep \/ Environment
  PROVE  Records'
<1>1. UNCHANGED <<pc, pill, lane>>
  BY LoopKeeps
<1>2. /\ best # None => best \in lane.registered
      /\ lpc \in {"cas", "poke"} => best # None
      /\ lane.registered \subseteq Threads /\ at \in 1 .. N /\ N \in Nat /\ Threads = 1 .. N
      /\ None \notin Threads
  BY LaneType, Markers DEF Records, Named, TypeOK, Threads
<1> DEFINE Quiet == /\ UNCHANGED <<state, own>> /\ lpc # "poke" /\ lpc' # "poke"
                    /\ \A t \in Threads : Pilled(t) => Pilled(t)'
                    /\ Stopping => Stopping'
                    /\ best' \in {best, None}
                    /\ lpc' = "cas" => lpc = "cas" /\ best' = best
<1>3. ASSUME Quiet PROVE Records'
  BY <1>1, <1>2, <1>3, RecordsStay
<1> USE DEF rings, chans, words, recs, locals, loop
<1>4. CASE ReadChannel \/ LookPasses \/ LookAged
  <2>1. Quiet
    BY <1>1, <1>4 DEF Pilled, Stopping, LGo, Search, NewSearch, Step, Over, ReadChannel,
       LookPasses, LookAged
  <2> QED
    BY <1>3, <2>1
<1>5. CASE ReadSpinners \/ ReadParked
  <2>1. Quiet
    BY <1>1, <1>5 DEF Pilled, Stopping, LGo, Search, NewSearch, Step, Over, ReadSpinners, ReadParked
  <2> QED
    BY <1>3, <2>1
<1>6. CASE ReadIdle \/ ReadLaneParked
  <2>1. Quiet
    BY <1>1, <1>6 DEF Pilled, Stopping, LGo, Search, NewSearch, Step, Over, ReadIdle, ReadLaneParked
  <2> QED
    BY <1>3, <2>1
<1>7. CASE Credit \/ PokeLane
  <2>1. Quiet
    BY <1>1, <1>7 DEF Pilled, Stopping, LGo, Search, NewSearch, Step, Over, Credit, PokeLane
  <2> QED
    BY <1>3, <2>1
<1>8. CASE ReadHead \/ RaiseFlag \/ RecheckDone
  <2>1. Quiet
    BY <1>1, <1>8 DEF Pilled, Stopping, LGo, Search, NewSearch, Step, Over, ReadHead, RaiseFlag,
       RecheckDone
  <2> QED
    BY <1>3, <2>1
<1>9. CASE WokenByPool \/ WokenByTime \/ LowerFlag
  <2>1. Quiet
    BY <1>1, <1>9 DEF Pilled, Stopping, LGo, Search, NewSearch, Step, Over, WokenByPool,
       WokenByTime, LowerFlag
  <2> QED
    BY <1>3, <2>1
<1>10. CASE PillLane
  <2>1. Quiet
    BY <1>1, <1>10 DEF Pilled, Stopping, LGo, Search, NewSearch, Step, Over, PillLane
  <2> QED
    BY <1>3, <2>1
<1>11. CASE SendMessage \/ WokenByClient \/ StopLoop
  <2>1. Quiet
    BY <1>1, <1>11 DEF Pilled, Stopping, LGo, Search, NewSearch, Step, Over, SendMessage,
       WokenByClient, StopLoop
  <2> QED
    BY <1>3, <2>1
<1>12. CASE Drain("top", "events") \/ Drain("chan", "events") \/ Drain("events", "look")
  <2>1. Quiet
    BY <1>1, <1>12 DEF Pilled, Stopping, LGo, Search, NewSearch, Step, Over, Drain
  <2> QED
    BY <1>3, <2>1
<1>13. CASE \E s \in Slots : Submit(s)
  <2>1. Quiet
    BY <1>1, <1>13 DEF Pilled, Stopping, LGo, Search, NewSearch, Step, Over, Submit
  <2> QED
    BY <1>3, <2>1
<1>14. CASE Scan
  <2>1. UNCHANGED <<state, own>> /\ lpc = "scan" /\ lpc' \in {"scan", "events", "wait", "readParked", "cas"}
    BY <1>14, ScanFacts
  <2>2. \A t \in Threads : ~Pilled(t)
    BY <2>1 DEF Pilled
  <2>3. (best' # None => best' \in lane.registered) /\ (lpc' = "cas" => best' # None)
    <3>1. PICK b \in IF at \in lane.registered /\ pc[at] # "left" /\ state[at] = "parked"
                     THEN IF best = None THEN {at} ELSE {best, at}
                     ELSE {best} :
            IF at < N
            THEN at' = at + 1 /\ best' = b /\ UNCHANGED <<lpc, caller, seen>>
            ELSE IF b = None /\ caller = "message" THEN Over("scan")
            ELSE /\ lpc' = IF b = None THEN "readParked" ELSE "cas"
                 /\ best' = b /\ UNCHANGED <<caller, at, seen>>
      BY <1>14 DEF Scan
    <3>2. b # None => b \in lane.registered
      BY <1>2, <3>1
    <3>3. best' \in {b, None} /\ (lpc' = "cas" => best' = b /\ b # None)
      BY <2>1, <3>1 DEF Over, LGo, NewSearch
    <3> QED
      BY <3>2, <3>3
  <2> QED
    BY <1>1, <2>1, <2>2, <2>3, RecordsStay DEF Stopping
<1>15. CASE Name
  <2>1. /\ best \in Threads /\ best \in lane.registered /\ lpc = "cas" /\ UNCHANGED own
        /\ \A t \in Threads \ {best} : state'[t] = state[t]
        /\ \A t \in Threads : ~Pilled(t)
    BY <1>2, <1>15 DEF Name, Pilled, TypeOK
  <2>2. CASE state[best] = "parked"
    <3>1. lpc' = "poke" /\ best' = best /\ state'[best] = "woken" /\ UNCHANGED <<caller, at>>
      BY <1>15, <2>1, <2>2 DEF Name, Step, LGo, TypeOK
    <3>2. RecordOf(best) /\ pc[best] # "woke"
      BY <2>1, <2>2 DEF Records, RecordOf, Stopping
    <3>3. ASSUME NEW t \in Threads PROVE RecordOf(t)'
      <4>1. CASE t = best
        <5>1. ~Owed(t) /\ ~Owed(t)'
          BY <2>1, <2>2, <3>1, <4>1 DEF Owed
        <5>2. pc[t] \in Marked
          BY <2>2, <3>2, <4>1 DEF RecordOf
        <5> QED
          BY <1>1, <2>1, <3>1, <3>2, <4>1, <5>1, <5>2 DEF RecordOf, Marked
      <4>2. CASE t # best
        <5>1. Owed(t)' = Owed(t) /\ RecordOf(t)
          BY <1>1, <2>1, <3>1, <4>2 DEF Owed, Records
        <5> QED
          BY <1>1, <2>1, <3>1, <4>2, <5>1 DEF RecordOf, Stopping
      <4> QED
        BY <4>1, <4>2
    <3>4. Named'
      BY <1>1, <1>2, <2>1, <3>1, <3>2 DEF Named
    <3> QED
      BY <3>3, <3>4 DEF Records
  <2>3. CASE state[best] # "parked"
    <3>1. Quiet
      BY <1>1, <1>15, <2>1, <2>3 DEF Name, Step, Over, LGo, NewSearch, TypeOK, Stopping
    <3> QED
      BY <1>3, <3>1
  <2> QED
    BY <2>2, <2>3
<1>16. CASE Poke
  <2>1. /\ best \in Threads /\ best \in lane.registered /\ lpc = "poke" /\ UNCHANGED state
        /\ own' = [own EXCEPT ![best] = Append(own[best], "poke")]
        /\ \A t \in Threads : ~Pilled(t)
        /\ lpc' \in {"wait", "events"} /\ best' = None
    BY <1>2, <1>16 DEF Poke, Over, LGo, NewSearch, Pilled, TypeOK
  <2>2. state[best] = "woken" /\ pc[best] # "woke" /\ RecordOf(best)
    BY <2>1 DEF Records, Named
  <2>3. own[best] = Nothing
    BY <2>1, <2>2 DEF RecordOf, Owed
  <2>4. own'[best] = OnePoke
    BY <2>1, <2>3, Channel DEF TypeOK
  <2>5. ASSUME NEW t \in Threads PROVE RecordOf(t)'
    <3>1. CASE t = best
      <4>1. Owed(t)'
        BY <1>1, <2>1, <2>2, <3>1 DEF Owed
      <4> QED
        BY <1>1, <2>1, <2>2, <2>4, <3>1, <4>1, Channel DEF RecordOf, Stopping
    <3>2. CASE t # best
      <4>1. RecordOf(t) /\ own'[t] = own[t] /\ Owed(t)' = Owed(t)
        BY <1>1, <2>1, <3>2 DEF Records, Owed, TypeOK
      <4> QED
        BY <1>1, <2>1, <4>1 DEF RecordOf, Stopping
    <3> QED
      BY <3>1, <3>2
  <2>6. Named'
    BY <2>1 DEF Named
  <2> QED
    BY <2>5, <2>6 DEF Records
<1>17. CASE PillOwn
  <2>1. /\ lpc = "pill" /\ lpc' \in {"pill", "lanePill"} /\ best' = best /\ UNCHANGED state
        /\ at \in Threads /\ (lpc' = "pill" => at' = at + 1)
        /\ own' = [own EXCEPT ![at] = IF at \in lane.registered THEN Append(own[at], "pill") ELSE own[at]]
    BY <1>2, <1>17 DEF PillOwn
  <2>2. \A t \in Threads : Owed(t)' = Owed(t)
    BY <1>1, <2>1 DEF Owed
  <2>3. ASSUME NEW t \in Threads, Pilled(t) \/ (t = at /\ t \in lane.registered) PROVE Pilled(t)'
    BY <1>1, <1>2, <2>1, <2>3 DEF Pilled
  <2>4. ASSUME NEW t \in Threads PROVE RecordOf(t)'
    <3>1. RecordOf(t)
      BY DEF Records
    <3>2. CASE t = at /\ t \in lane.registered
      <4>1. ~Pilled(t)
        BY <1>2, <2>1, <3>2 DEF Pilled
      <4>2. own[t] = IF Owed(t) THEN OnePoke ELSE Nothing
        BY <3>1, <4>1 DEF RecordOf
      <4>3. own'[t] = IF Owed(t) THEN PokeThenPill ELSE OnePill
        BY <2>1, <3>2, <4>2, Channel DEF TypeOK
      <4> QED
        BY <1>1, <2>1, <2>2, <2>3, <3>1, <3>2, <4>3, Channel DEF RecordOf, Stopping
    <3>3. CASE ~(t = at /\ t \in lane.registered)
      <4>1. own'[t] = own[t]
        BY <2>1, <3>3 DEF TypeOK
      <4> QED
        BY <1>1, <2>1, <2>2, <2>3, <3>1, <4>1 DEF RecordOf, Stopping
    <3> QED
      BY <3>2, <3>3
  <2>5. Named'
    BY <1>1, <1>2, <2>1 DEF Named
  <2> QED
    BY <2>4, <2>5 DEF Records
<1> QED
  BY <1>4, <1>5, <1>6, <1>7, <1>8, <1>9, <1>10, <1>11, <1>12, <1>13, <1>14, <1>15, <1>16, <1>17
     DEF LoopStep, Environment

-----------------------------------------------------------------------------
(* Spins, and stops.                                                       *)

\* A spin is announced once and given up once.
LEMMA SpinsStep ==
  ASSUME TypeOK, Spins, [Next]_vars
  PROVE  Spins'
<1>1. ASSUME NEW t \in Threads, ThreadStep(t) \/ ViewEnds(t) PROVE Spins'
  <2>1. SUFFICES SpinOf(t)'
    BY <1>1, ThreadKeeps DEF Spins, SpinOf
  <2>2. SpinOf(t) /\ spinning[t] \in BOOLEAN
    BY DEF Spins, TypeOK
  <2> USE <2>2 DEF SpinOf, Go, words, locals
  <2>3. CASE Call(t) \/ LookPolls(t) \/ LookSkips(t)
    BY <2>3 DEF TypeOK, Call, LookPolls, LookSkips
  <2>4. CASE PopNothing(t) \/ SpinOver(t)
    <3>1. CASE PopNothing(t)
      BY <3>1 DEF TypeOK, PopNothing
    <3>2. CASE SpinOver(t)
      BY <3>2 DEF TypeOK, SpinOver
    <3> QED
      BY <2>4, <3>1, <3>2
  <2>5. CASE PollOwn(t)
    BY <2>5, ServePcs DEF TypeOK, Take, PollOwn
  <2>6. CASE PollSock(t)
    <3>1. CASE Received = None
      BY <2>6, <3>1 DEF TypeOK, PollSock
    <3>2. CASE Received # None
      <4>1. Take(t, Received) /\ UNCHANGED spinning
        BY <2>6, <3>2 DEF PollSock
      <4>2. Serve(Received) \in {"leave", "view"}
        BY ServePcs
      <4> QED
        BY <4>1, <4>2 DEF TypeOK, Take
    <3> QED
      BY <3>1, <3>2
  <2>7. CASE Pop(t)
    BY <2>7, ServePcs DEF TypeOK, Take, Pop
  <2>8. CASE Announce(t)
    BY <2>8 DEF TypeOK, Announce
  <2>9. CASE LeaveSpin(t)
    BY <2>9, ServePcs DEF TypeOK, LeaveSpin
  <2>10. CASE ParkOwn(t) \/ CountOwn(t) \/ Again(t) \/ ParkLane(t)
    BY <2>10 DEF TypeOK, ParkOwn, CountOwn, Again, ParkLane
  <2>11. CASE RecheckRing(t) \/ LaneRecheck(t) \/ RecheckSock(t) \/ LaneBlock(t)
    <3>1. CASE RecheckRing(t) \/ LaneRecheck(t)
      BY <3>1 DEF TypeOK, RecheckRing, LaneRecheck
    <3>2. CASE RecheckSock(t) \/ LaneBlock(t)
      BY <3>2 DEF TypeOK, RecheckSock, LaneBlock
    <3> QED
      BY <2>11, <3>1, <3>2
  <2>12. CASE Block(t) \/ Unpark(t) \/ Woke(t)
    <3>1. CASE Block(t) \/ Unpark(t)
      BY <3>1 DEF TypeOK, Block, Unpark
    <3>2. CASE Woke(t)
      BY <3>2, LeavePcs DEF TypeOK, Woke
    <3> QED
      BY <2>12, <3>1, <3>2
  <2>13. CASE Uncount(t) \/ OwnPoke(t)
    <3>1. CASE Uncount(t)
      <4>1. spinning' = spinning /\ mode' = mode
        BY <3>1 DEF Uncount
      <4> QED
        BY <3>1, <4>1, LeavePcs
    <3>2. CASE OwnPoke(t)
      BY <3>2, ServePcs DEF TypeOK, OwnPoke
    <3> QED
      BY <2>13, <3>1, <3>2
  <2>14. CASE LaneUnpark(t)
    BY <2>14, ServePcs DEF TypeOK, LaneUnpark
  <2>15. CASE ViewEnds(t) \/ Publish(t)
    BY <2>15 DEF TypeOK, ViewEnds, Publish
  <2>16. CASE ReadFlag(t) \/ PokeLoop(t) \/ Leave(t)
    BY <2>16 DEF TypeOK, ReadFlag, PokeLoop, Leave
  <2> QED
    BY <1>1, <2>3, <2>4, <2>5, <2>6, <2>7, <2>8, <2>9, <2>10, <2>11, <2>12, <2>13, <2>14, <2>15,
       <2>16 DEF ThreadStep
<1>2. CASE LoopStep \/ Environment
  BY <1>2, LoopKeeps DEF Spins, SpinOf
<1>3. CASE UNCHANGED vars
  BY <1>3 DEF vars, locals, Spins, SpinOf
<1> QED
  BY <1>1, <1>2, <1>3 DEF Next

\* What a read of the socket takes, and what it leaves.
LEMMA RecvCases ==
  ASSUME TypeOK, RecvSock
  PROVE  \/ sock = <<>> /\ Received = None /\ UNCHANGED <<sock, wakes>>
         \/ /\ sock # <<>> /\ 1 \in DOMAIN sock /\ sock[1] \in {"msg", "poke", "pill"}
            /\ sock' = Tail(sock)
            /\ \A i \in DOMAIN sock' : i + 1 \in DOMAIN sock /\ sock'[i] = sock[i + 1]
            /\ sock[1] = "poke" => Received = None /\ wakes' = wakes - 1
            /\ sock[1] # "poke" => UNCHANGED wakes
            /\ sock[1] = "pill" => Received = "stop"
            /\ sock[1] = "msg" => Received = "msg"
<1>1. CASE sock = <<>>
  <2>1. Received = None
    BY <1>1 DEF Received
  <2>2. sock' = sock /\ wakes' = wakes
    BY <1>1 DEF RecvSock
  <2> QED
    BY <1>1, <2>1, <2>2
<1>2. CASE sock # <<>>
  <2> DEFINE S == {"msg", "poke", "pill"}
  <2>1. sock \in Seq(S)
    BY DEF TypeOK
  <2>2. Len(sock) \in Nat \ {0} /\ DOMAIN sock = 1 .. Len(sock) /\ Head(sock) = sock[1]
    BY <1>2, <2>1, EmptySeq, LenProperties
  <2>3. /\ sock' = Tail(sock) /\ sock' \in Seq(S) /\ Len(sock') = Len(sock) - 1
        /\ \A i \in 1 .. Len(sock') : sock'[i] = sock[i + 1]
        /\ Head(sock) \in S
    <3>1. sock' = Tail(sock)
      BY <1>2 DEF RecvSock
    <3> HIDE DEF S
    <3> QED
      BY <1>2, <2>1, <3>1, HeadTailProperties
  <2>4. DOMAIN sock' = 1 .. Len(sock) - 1
    BY <2>2, <2>3, LenProperties
  <2>5. \A i \in 1 .. Len(sock) - 1 : i + 1 \in 1 .. Len(sock)
    BY <2>2
  <2>6. 1 \in DOMAIN sock
    BY <2>2
  <2>7. /\ sock[1] = "poke" => Received = None /\ wakes' = wakes - 1
        /\ sock[1] # "poke" => UNCHANGED wakes
        /\ sock[1] = "pill" => Received = "stop"
        /\ sock[1] = "msg" => Received = "msg"
    BY <1>2, <2>2 DEF RecvSock, Received
  <2> QED
    BY <1>2, <2>2, <2>3, <2>4, <2>5, <2>6, <2>7
<1> QED
  BY <1>1, <1>2

\* A thread leaves the lane's socket as it is, or reads one datagram off it.
LEMMA SockMoves ==
  ASSUME NEW t \in Threads, ThreadStep(t) \/ ViewEnds(t)
  PROVE  UNCHANGED <<sock, wakes>> \/ RecvSock
<1> USE DEF chans, words
<1>1. CASE Call(t) \/ LookPolls(t) \/ LookSkips(t) \/ PollOwn(t) \/ Pop(t) \/ PopNothing(t) \/ SpinOver(t) \/ Announce(t)
  BY <1>1 DEF Call, LookPolls, LookSkips, PollOwn, Pop, PopNothing, SpinOver, Announce
<1>2. CASE LeaveSpin(t) \/ ParkOwn(t) \/ CountOwn(t) \/ RecheckRing(t) \/ Block(t) \/ Woke(t) \/ Again(t)
  BY <1>2 DEF LeaveSpin, ParkOwn, CountOwn, RecheckRing, Block, Woke, Again
<1>3. CASE Unpark(t) \/ Uncount(t) \/ OwnPoke(t) \/ ParkLane(t) \/ LaneRecheck(t) \/ LaneUnpark(t)
  BY <1>3 DEF Unpark, Uncount, OwnPoke, ParkLane, LaneRecheck, LaneUnpark
<1>4. CASE Publish(t) \/ ReadFlag(t) \/ PokeLoop(t) \/ Leave(t) \/ ViewEnds(t)
  BY <1>4 DEF Publish, ReadFlag, PokeLoop, Leave, ViewEnds
<1>5. CASE PollSock(t) \/ RecheckSock(t) \/ LaneBlock(t)
  BY <1>5 DEF PollSock, RecheckSock, LaneBlock
<1> QED
  BY <1>1, <1>2, <1>3, <1>4, <1>5 DEF ThreadStep

\* What a thread takes off the socket is no pill, when there is none.
LEMMA NoPillsRead ==
  ASSUME TypeOK, NoPills, RecvSock
  PROVE  Received \in {None, "msg"} /\ NoPills'
<1>1. Received \in {None, "msg"}
  BY RecvCases DEF NoPills
<1>2. NoPills'
  BY RecvCases DEF NoPills
<1> QED
  BY <1>1, <1>2

\* No thread leaves before the loop is over.
LEMMA StopsThread ==
  ASSUME TypeOK, Hands, Records, Stops, NEW t \in Threads, ThreadStep(t) \/ ViewEnds(t)
  PROVE  Stops'
<1>1. SUFFICES ASSUME ~Stopping PROVE Going(t)' /\ NoPills'
  BY ThreadKeeps DEF Stops, Stopping, Going
<1>2. NoPills' /\ (RecvSock => Received \in {None, "msg"})
  BY <1>1, NoPillsRead, SockMoves DEF Stops, NoPills
<1>3. Going(t) /\ HandOf(t) /\ RecordOf(t) /\ None # "stop" /\ "stop" \notin Slots
  BY <1>1, Markers DEF Stops, Hands, Records
<1>4. own[t] \in {Nothing, OnePoke} /\ ~pill[t]
  BY <1>1, <1>3 DEF RecordOf, Pilled, Stopping
<1>5. own[t] # <<>> => Head(own[t]) = "poke"
  BY <1>4, Channel
<1> USE <1>3 DEF Going, Go, locals
<1>6. CASE Call(t)
  <2>1. Going(t)'
    BY <1>6, <1>4 DEF TypeOK, Call
  <2> QED
    BY <1>2, <2>1
<1>7. CASE LookPolls(t) \/ LookSkips(t) \/ PopNothing(t) \/ SpinOver(t) \/ Announce(t)
  <2>1. Going(t)'
    BY <1>7 DEF TypeOK, LookPolls, LookSkips, PopNothing, SpinOver, Announce
  <2> QED
    BY <1>2, <2>1
<1>8. CASE PollOwn(t)
  <2>1. Going(t)'
    BY <1>8, <1>5 DEF TypeOK, PollOwn
  <2> QED
    BY <1>2, <2>1
<1>9. CASE PollSock(t)
  <2>1. Going(t)'
    BY <1>9, <1>2, ServePcs DEF TypeOK, Take, PollSock
  <2> QED
    BY <1>2, <2>1
<1>10. CASE Pop(t)
  <2>1. Going(t)'
    BY <1>10, ServePcs, PopFacts DEF TypeOK, Take, Pop
  <2> QED
    BY <1>2, <2>1
<1>11. CASE LeaveSpin(t)
  <2>1. Going(t)'
    BY <1>11, ServePcs DEF TypeOK, LeaveSpin
  <2> QED
    BY <1>2, <2>1
<1>12. CASE ParkOwn(t) \/ CountOwn(t) \/ Again(t) \/ ParkLane(t)
  <2>1. Going(t)'
    BY <1>12 DEF TypeOK, ParkOwn, CountOwn, Again, ParkLane
  <2> QED
    BY <1>2, <2>1
<1>13. CASE RecheckRing(t) \/ LaneRecheck(t)
  <2>1. Going(t)'
    BY <1>13, PopFacts DEF TypeOK, RecheckRing, LaneRecheck
  <2> QED
    BY <1>2, <2>1
<1>14. CASE RecheckSock(t) \/ LaneBlock(t)
  <2>1. Going(t)'
    BY <1>14, <1>2 DEF TypeOK, RecheckSock, LaneBlock
  <2> QED
    BY <1>2, <2>1
<1>15. CASE Block(t)
  <2>1. Going(t)'
    BY <1>15, <1>5 DEF TypeOK, Block
  <2> QED
    BY <1>2, <2>1
<1>16. CASE Unpark(t) \/ Woke(t)
  <2>1. Going(t)'
    BY <1>16, ServePcs DEF TypeOK, Unpark, Woke
  <2> QED
    BY <1>2, <2>1
<1>17. CASE Uncount(t) \/ OwnPoke(t)
  <2>1. Going(t)'
    BY <1>17, ServePcs DEF TypeOK, Uncount, OwnPoke
  <2> QED
    BY <1>2, <2>1
<1>18. CASE LaneUnpark(t)
  <2>1. Going(t)'
    BY <1>18, ServePcs DEF TypeOK, LaneUnpark
  <2> QED
    BY <1>2, <2>1
<1>19. CASE ViewEnds(t) \/ Publish(t)
  <2>1. Going(t)'
    BY <1>19 DEF TypeOK, ViewEnds, Publish
  <2> QED
    BY <1>2, <2>1
<1>20. CASE ReadFlag(t) \/ PokeLoop(t) \/ Leave(t)
  <2>1. Going(t)'
    BY <1>20 DEF TypeOK, HandOf, ReadFlag, PokeLoop, Leave
  <2> QED
    BY <1>2, <2>1
<1> QED
  BY <1>6, <1>7, <1>8, <1>9, <1>10, <1>11, <1>12, <1>13, <1>14, <1>15, <1>16, <1>17, <1>18, <1>19,
     <1>20 DEF ThreadStep

\* The loop sends no pill before it is over.
LEMMA StopsLoop ==
  ASSUME TypeOK, TypeOK', Stops, LoopStep \/ Environment
  PROVE  Stops'
<1>1. UNCHANGED <<pc, job>>
  BY LoopKeeps
<1>2. ASSUME UNCHANGED sock, Stopping => Stopping' PROVE Stops'
  BY <1>1, <1>2 DEF Stops, Going, NoPills
<1>3. ASSUME NEW x \in {"msg", "poke"}, sock' = Append(sock, x), ~Stopping PROVE Stops'
  <2>1. sock \in Seq({"msg", "poke", "pill"}) /\ x \in {"msg", "poke", "pill"} /\ x # "pill"
    BY DEF TypeOK
  <2>2. /\ DOMAIN sock' = 1 .. Len(sock) + 1 /\ DOMAIN sock = 1 .. Len(sock) /\ Len(sock) \in Nat
        /\ \A i \in 1 .. Len(sock) : sock'[i] = sock[i] 
        /\ sock'[Len(sock) + 1] = x
    <3> DEFINE S == {"msg", "poke", "pill"}
    <3>1. sock \in Seq(S) /\ x \in S
      BY <2>1
    <3> HIDE DEF S
    <3> QED
      BY <1>3, <3>1, Appended
  <2>3. \A i \in 1 .. Len(sock) + 1 : i \in 1 .. Len(sock) \/ i = Len(sock) + 1
    BY <2>2
  <2>4. NoPills'
    BY <1>3, <2>1, <2>2, <2>3 DEF Stops, NoPills
  <2> QED
    BY <1>1, <1>3, <2>4 DEF Stops, Going
<1> USE DEF chans, loop
<1>4. CASE ReadChannel \/ LookPasses \/ LookAged \/ ReadSpinners \/ ReadParked
  BY <1>2, <1>4 DEF Stopping, LGo, Step, Over, ReadChannel, LookPasses, LookAged, ReadSpinners,
     ReadParked
<1>5. CASE ReadIdle \/ ReadLaneParked \/ Name \/ Poke \/ Credit
  BY <1>2, <1>5 DEF Stopping, LGo, Step, Over, ReadIdle, ReadLaneParked, Name, Poke, Credit
<1>6. CASE ReadHead \/ RaiseFlag \/ RecheckDone
  BY <1>2, <1>6 DEF Stopping, LGo, Step, Over, ReadHead, RaiseFlag, RecheckDone
<1>7. CASE WokenByPool \/ WokenByTime \/ LowerFlag \/ PillOwn
  BY <1>2, <1>7 DEF Stopping, LGo, Step, Over, WokenByPool, WokenByTime, LowerFlag, PillOwn
<1>8. CASE WokenByClient \/ StopLoop
  BY <1>2, <1>8 DEF Stopping, LGo, Step, Over, WokenByClient, StopLoop
<1>9. CASE Drain("top", "events") \/ Drain("chan", "events") \/ Drain("events", "look")
  BY <1>2, <1>9 DEF Stopping, LGo, Step, Over, Drain
<1>10. CASE \E s \in Slots : Submit(s)
  BY <1>2, <1>10 DEF Stopping, LGo, Step, Over, Submit
<1>11. CASE Scan
  BY <1>2, <1>11, ScanFacts DEF Stopping
<1>12. CASE SendMessage \/ PokeLane
  BY <1>2, <1>3, <1>12 DEF Stopping, LGo, Step, Over, SendMessage, PokeLane
<1>13. CASE PillLane
  BY <1>13 DEF PillLane, Stops, Stopping
<1> QED
  BY <1>4, <1>5, <1>6, <1>7, <1>8, <1>9, <1>10, <1>11, <1>12, <1>13 DEF LoopStep, Environment

-----------------------------------------------------------------------------
(* The words are exact.                                                    *)

\* Two subsets that agree but for one element differ by it.
LEMMA CountMoves ==
  ASSUME NEW T, IsFiniteSet(T), NEW t \in T, NEW A \in SUBSET T, NEW B \in SUBSET T,
         \A u \in T \ {t} : u \in A <=> u \in B
  PROVE  /\ Cardinality(B) = Cardinality(A) + Counted(t \in B) - Counted(t \in A)
         /\ Cardinality(A) \in Nat /\ Cardinality(B) \in Nat
<1>1. IsFiniteSet(A) /\ IsFiniteSet(B)
  BY FS_Subset
<1>2. Cardinality(A) \in Nat /\ Cardinality(B) \in Nat
  BY <1>1, FS_CardinalityType
<1>3. A \ {t} = B \ {t}
  OBVIOUS
<1>4. /\ Cardinality(A \ {t}) = IF t \in A THEN Cardinality(A) - 1 ELSE Cardinality(A)
      /\ Cardinality(B \ {t}) = IF t \in B THEN Cardinality(B) - 1 ELSE Cardinality(B)
  BY <1>1, FS_RemoveElement
<1>5. IF t \in A THEN Cardinality(A) - 1 = Cardinality(B \ {t}) ELSE Cardinality(A) = Cardinality(B \ {t})
  BY <1>3, <1>4
<1> QED
  BY <1>2, <1>4, <1>5 DEF Counted

\* The threads at a set of points, after one thread has moved.
LEMMA PcCount ==
  ASSUME TypeOK, NEW t \in Threads, ThreadStep(t) \/ ViewEnds(t), NEW S
  PROVE  InPcs(S)' = InPcs(S) + Counted(pc'[t] \in S) - Counted(pc[t] \in S) /\ InPcs(S) \in Nat
<1> DEFINE A == {u \in Threads : pc[u] \in S}
           B == {u \in Threads : pc'[u] \in S}
<1>1. IsFiniteSet(Threads)
  BY Markers
<1>2. \A u \in Threads \ {t} : pc'[u] = pc[u]
  BY ThreadKeeps
<1>3. A \in SUBSET Threads /\ B \in SUBSET Threads /\ \A u \in Threads \ {t} : u \in A <=> u \in B
  BY <1>2
<1>4. (t \in A <=> pc[t] \in S) /\ (t \in B <=> pc'[t] \in S)
  OBVIOUS
<1>5. InPcs(S) = Cardinality(A) /\ InPcs(S)' = Cardinality(B)
  BY DEF InPcs
<1> HIDE DEF A, B
<1>6. /\ Cardinality(B) = Cardinality(A) + Counted(t \in B) - Counted(t \in A)
      /\ Cardinality(A) \in Nat /\ Cardinality(B) \in Nat
  BY <1>1, <1>3, CountMoves
<1> QED
  BY <1>4, <1>5, <1>6 DEF Counted

Woken    == {t \in Threads : state[t] = "woken"}
Spinning == {t \in Threads : spinning[t]}

\* The records woken and the threads spinning, likewise.
LEMMA RecordCount ==
  ASSUME TypeOK, NEW t \in Threads, ThreadStep(t) \/ ViewEnds(t)
  PROVE  /\ Cardinality(Woken') = Cardinality(Woken) + Counted(state'[t] = "woken")
                                    - Counted(state[t] = "woken")
         /\ Cardinality(Woken) \in Nat
         /\ Cardinality(Spinning') = Cardinality(Spinning) + Counted(spinning'[t])
                                       - Counted(spinning[t])
         /\ Cardinality(Spinning) \in Nat
<1>1. IsFiniteSet(Threads)
  BY Markers
<1>2. \A u \in Threads \ {t} : state'[u] = state[u] /\ spinning'[u] = spinning[u]
  BY ThreadKeeps
<1>3. /\ Woken \in SUBSET Threads /\ Woken' \in SUBSET Threads
      /\ Spinning \in SUBSET Threads /\ Spinning' \in SUBSET Threads
      /\ \A u \in Threads \ {t} : (u \in Woken <=> u \in Woken') /\ (u \in Spinning <=> u \in Spinning')
  BY <1>2 DEF Woken, Spinning
<1>4. /\ Cardinality(Woken') = Cardinality(Woken) + Counted(t \in Woken') - Counted(t \in Woken)
      /\ Cardinality(Woken) \in Nat
  BY <1>1, <1>3, CountMoves
<1>5. /\ Cardinality(Spinning') = Cardinality(Spinning) + Counted(t \in Spinning')
                                    - Counted(t \in Spinning)
      /\ Cardinality(Spinning) \in Nat
  BY <1>1, <1>3, CountMoves
<1>6. /\ t \in Woken <=> state[t] = "woken"
      /\ t \in Woken' <=> state'[t] = "woken"
      /\ t \in Spinning <=> spinning[t]
      /\ t \in Spinning' <=> spinning'[t]
  BY DEF Woken, Spinning
<1> QED
  BY <1>4, <1>5, <1>6 DEF Counted

\* One more datagram on a channel, counted if it is of the kind counted.
LEMMA HeldAppend ==
  ASSUME NEW S, NEW q \in Seq(S), NEW x \in S, NEW what
  PROVE  Held(Append(q, x), what) = Held(q, what) + Counted(x = what) /\ Held(q, what) \in Nat
<1> DEFINE n == Len(q)
           A == {i \in DOMAIN q : q[i] = what}
           r == Append(q, x)
           B == {i \in DOMAIN r : r[i] = what}
<1>1. /\ n \in Nat /\ DOMAIN q = 1 .. n /\ DOMAIN r = 1 .. n + 1
      /\ \A i \in 1 .. n : r[i] = q[i]
      /\ r[n + 1] = x
  BY Appended
<1>2. /\ Held(Append(q, x), what) = Cardinality(B) /\ Held(q, what) = Cardinality(A)
      /\ r = Append(q, x)
  BY DEF Held
<1> HIDE DEF r
<1>3. A \subseteq 1 .. n /\ n + 1 \notin A
  BY <1>1
<1>4. IsFiniteSet(A) /\ Cardinality(A) \in Nat
  <2>1. IsFiniteSet(1 .. n)
    BY <1>1, FS_Interval
  <2> QED
    BY <1>3, <2>1, FS_Subset, FS_CardinalityType
<1>5. CASE x = what
  <2>1. B = A \cup {n + 1}
    BY <1>1, <1>5
  <2>2. Cardinality(B) = Cardinality(A) + 1
    BY <1>3, <1>4, <2>1, FS_AddElement
  <2> QED
    BY <1>2, <1>4, <1>5, <2>2 DEF Counted
<1>6. CASE x # what
  <2>1. B = A
    BY <1>1, <1>6
  <2> HIDE DEF A, B
  <2>2. Cardinality(B) = Cardinality(A) + 0
    BY <1>4, <2>1
  <2> QED
    BY <1>2, <1>4, <1>6, <2>2 DEF Counted
<1> QED
  BY <1>5, <1>6

\* One less, likewise.
LEMMA HeldTail ==
  ASSUME NEW S, NEW q \in Seq(S), q # <<>>, NEW what
  PROVE  Held(Tail(q), what) = Held(q, what) - Counted(q[1] = what) /\ Held(q, what) \in Nat
<1> DEFINE n == Len(q)
           A == {i \in DOMAIN q : q[i] = what}
           r == Tail(q)
           B == {i \in DOMAIN r : r[i] = what}
           D == A \ {1}
<1>1. n \in Nat \ {0} /\ DOMAIN q = 1 .. n
  BY EmptySeq, LenProperties
<1>2. r \in Seq(S) /\ Len(r) = n - 1 /\ \A i \in 1 .. n - 1 : r[i] = q[i + 1]
  BY HeadTailProperties
<1>3. DOMAIN r = 1 .. n - 1
  BY <1>2, LenProperties
<1>4. Held(Tail(q), what) = Cardinality(B) /\ Held(q, what) = Cardinality(A)
  BY DEF Held
<1> HIDE DEF r, n
<1>5. A \subseteq 1 .. n /\ B \subseteq 1 .. n - 1
  BY <1>1, <1>3
<1>6. IsFiniteSet(A) /\ Cardinality(A) \in Nat /\ IsFiniteSet(B) /\ IsFiniteSet(D)
  <2>1. IsFiniteSet(1 .. n) /\ IsFiniteSet(1 .. n - 1)
    BY <1>1, FS_Interval
  <2>2. IsFiniteSet(A) /\ IsFiniteSet(B)
    BY <1>5, <2>1, FS_Subset
  <2> QED
    BY <2>2, FS_CardinalityType, FS_RemoveElement
<1>7. Cardinality(D) = IF 1 \in A THEN Cardinality(A) - 1 ELSE Cardinality(A)
  BY <1>6, FS_RemoveElement
<1>8. 1 \in A <=> q[1] = what
  BY <1>1
<1> DEFINE g == [i \in B |-> i + 1]
<1>9. g \in Bijection(B, D)
  <2>1. \A i \in B : i \in Nat /\ i + 1 \in D
    BY <1>1, <1>2, <1>3
  <2>2. \A j \in D : j - 1 \in B /\ j - 1 + 1 = j
    BY <1>1, <1>2, <1>3
  <2> HIDE DEF B, D
  <2>3. g \in [B -> D]
    BY <2>1
  <2>4. \A i, j \in B : g[i] = g[j] => i = j
    BY <2>1
  <2>5. \A j \in D : \E i \in B : g[i] = j
    BY <2>2
  <2> QED
    BY <2>3, <2>4, <2>5 DEF Bijection, Injection, Surjection, IsInjective
<1>10. Cardinality(D) = Cardinality(B)
  BY <1>6, <1>9, FS_Bijection DEF ExistsBijection
<1>11. Cardinality(B) = Cardinality(A) - Counted(q[1] = what)
  <2> HIDE DEF A, B, D, g
  <2> QED
    BY <1>6, <1>7, <1>8, <1>10 DEF Counted
<1> QED
  BY <1>4, <1>6, <1>11

\* What a thread's step does to the words is what it does to its own place.
LEMMA WordMoves ==
  ASSUME TypeOK, Hands, Records, Spins, NEW t \in Threads, ThreadStep(t) \/ ViewEnds(t)
  PROVE  /\ parkedReg' = parkedReg + Counted(pc'[t] \in Announced) - Counted(pc[t] \in Announced)
                           - Counted(state'[t] = "woken") + Counted(state[t] = "woken")
         /\ parked' = parked + Counted(pc'[t] \in OnLane) - Counted(pc[t] \in OnLane)
         /\ spinners' = spinners + Counted(spinning'[t]) - Counted(spinning[t])
                          + Counted(pc'[t] = "unannounce") - Counted(pc[t] = "unannounce")
         /\ threads' = threads - Counted(pc'[t] = "left") + Counted(pc[t] = "left")
<1>1. SpinOf(t) /\ RecordOf(t)
  BY DEF Spins, Records
<1>2. /\ parkedReg \in Int /\ parked \in Int /\ spinners \in Int /\ threads \in Int
      /\ spinning[t] \in BOOLEAN /\ state[t] \in {"running", "parked", "woken"}
  BY DEF TypeOK
<1> DEFINE Same == UNCHANGED <<parkedReg, parked, spinners, threads>>
           Park == pc'[t] \in Announced <=> pc[t] \in Announced
           Lane == pc'[t] \in OnLane <=> pc[t] \in OnLane
           Mark == state'[t] = "woken" <=> state[t] = "woken"
           Spin == spinning'[t] = spinning[t]
           Late == pc[t] # "unannounce" /\ pc'[t] # "unannounce"
           Left == pc[t] # "left" /\ pc'[t] # "left"
<1>3. ASSUME Same, Park, Lane, Mark, Spin, Late, Left
      PROVE  /\ parkedReg' = parkedReg + Counted(pc'[t] \in Announced) - Counted(pc[t] \in Announced)
                           - Counted(state'[t] = "woken") + Counted(state[t] = "woken")
             /\ parked' = parked + Counted(pc'[t] \in OnLane) - Counted(pc[t] \in OnLane)
             /\ spinners' = spinners + Counted(spinning'[t]) - Counted(spinning[t])
                          + Counted(pc'[t] = "unannounce") - Counted(pc[t] = "unannounce")
             /\ threads' = threads - Counted(pc'[t] = "left") + Counted(pc[t] = "left")
  BY <1>2, <1>3 DEF Counted
<1> HIDE DEF Same, Park, Lane, Mark, Spin, Late, Left
<1>4. CASE Call(t) \/ LookPolls(t) \/ LookSkips(t)
  <2>1. Same /\ Spin
    BY <1>4, <1>2 DEF Same, Spin, TypeOK, words, locals, Go, Call, LookPolls, LookSkips
  <2>2. Park /\ Lane /\ Late /\ Left
    <3>1. pc[t] \in {"call", "look"} /\ pc'[t] \in {"leave", "look", "own", "sock", "pop"}
      BY <1>4 DEF TypeOK, Go, Call, LookPolls, LookSkips
    <3> QED
      BY <3>1 DEF Park, Lane, Late, Left, Announced, OnLane
  <2>3. Mark
    BY <1>4 DEF Mark, TypeOK, recs, Call, LookPolls, LookSkips
  <2> QED
    BY <1>3, <2>1, <2>2, <2>3
<1>5. CASE PopNothing(t) \/ SpinOver(t)
  <2>1. Same /\ Spin
    BY <1>5, <1>2 DEF Same, Spin, TypeOK, words, locals, Go, PopNothing, SpinOver
  <2>2. Park /\ Lane /\ Late /\ Left
    BY <1>5 DEF Park, Lane, Late, Left, Announced, OnLane, TypeOK, Go, PopNothing, SpinOver
  <2>3. Mark
    BY <1>5 DEF Mark, TypeOK, recs, PopNothing, SpinOver
  <2> QED
    BY <1>3, <2>1, <2>2, <2>3
<1>6. CASE PollOwn(t)
  <2>1. Same /\ Spin
    BY <1>6, <1>2 DEF Same, Spin, TypeOK, words, locals, Go, Take, PollOwn
  <2>2. Park /\ Lane /\ Late /\ Left
    BY <1>6, ServePcs DEF Park, Lane, Late, Left, Announced, OnLane, TypeOK, Go, Take, PollOwn
  <2>3. Mark
    BY <1>6 DEF Mark, TypeOK, recs, PollOwn
  <2> QED
    BY <1>3, <2>1, <2>2, <2>3
<1>7. CASE PollSock(t)
  <2>1. Same /\ Spin
    BY <1>7, <1>2 DEF Same, Spin, TypeOK, words, locals, Go, Take, PollSock
  <2>2. Park /\ Lane /\ Late /\ Left
    <3>1. pc[t] = "sock" /\ pc'[t] \in {"dropSpin", "view", "leave", "pop"}
      <4>1. CASE Received = None
        BY <1>7, <4>1 DEF TypeOK, PollSock
      <4>2. CASE Received # None
        <5>1. pc[t] = "sock" /\ Take(t, Received) /\ Serve(Received) \in {"view", "leave"}
          BY <1>7, <4>2, ServePcs DEF PollSock
        <5> QED
          BY <5>1 DEF TypeOK, Take
      <4> QED
        BY <4>1, <4>2
    <3> QED
      BY <3>1 DEF Park, Lane, Late, Left, Announced, OnLane
  <2>3. Mark
    BY <1>7 DEF Mark, TypeOK, recs, PollSock
  <2> QED
    BY <1>3, <2>1, <2>2, <2>3
<1>8. CASE Pop(t)
  <2>1. Same /\ Spin
    BY <1>8, <1>2 DEF Same, Spin, TypeOK, words, locals, Go, Take, Pop
  <2>2. Park /\ Lane /\ Late /\ Left
    BY <1>8, ServePcs DEF Park, Lane, Late, Left, Announced, OnLane, TypeOK, Go, Take, Pop
  <2>3. Mark
    BY <1>8 DEF Mark, TypeOK, recs, Pop
  <2> QED
    BY <1>3, <2>1, <2>2, <2>3
<1>9. CASE ParkOwn(t) \/ RecheckRing(t)
  <2>1. Same /\ Spin
    BY <1>9, <1>2 DEF Same, Spin, TypeOK, words, locals, Go, ParkOwn, RecheckRing
  <2>2. Park /\ Lane /\ Late /\ Left
    BY <1>9 DEF Park, Lane, Late, Left, Announced, OnLane, TypeOK, Go, ParkOwn, RecheckRing
  <2>3. Mark
    BY <1>9, <1>1 DEF Mark, RecordOf, Marked, TypeOK, recs, Go, ParkOwn, RecheckRing
  <2> QED
    BY <1>3, <2>1, <2>2, <2>3
<1>10. CASE RecheckSock(t) \/ Block(t) \/ Again(t)
  <2>1. Same /\ Spin
    BY <1>10, <1>2 DEF Same, Spin, TypeOK, words, locals, Go, RecheckSock, Block, Again
  <2>2. Park /\ Lane /\ Late /\ Left
    BY <1>10 DEF Park, Lane, Late, Left, Announced, OnLane, TypeOK, Go, RecheckSock, Block, Again
  <2>3. Mark
    BY <1>10 DEF Mark, TypeOK, recs, RecheckSock, Block, Again
  <2> QED
    BY <1>3, <2>1, <2>2, <2>3
<1>11. CASE LaneRecheck(t) \/ LaneBlock(t)
  <2>1. Same /\ Spin
    BY <1>11, <1>2 DEF Same, Spin, TypeOK, words, locals, Go, LaneRecheck, LaneBlock
  <2>2. Park /\ Lane /\ Late /\ Left
    BY <1>11 DEF Park, Lane, Late, Left, Announced, OnLane, TypeOK, Go, LaneRecheck, LaneBlock
  <2>3. Mark
    BY <1>11 DEF Mark, TypeOK, recs, LaneRecheck, LaneBlock
  <2> QED
    BY <1>3, <2>1, <2>2, <2>3
<1>12. CASE ViewEnds(t) \/ Publish(t)
  <2>1. Same /\ Spin
    BY <1>12, <1>2 DEF Same, Spin, TypeOK, words, locals, Go, ViewEnds, Publish
  <2>2. Park /\ Lane /\ Late /\ Left
    BY <1>12 DEF Park, Lane, Late, Left, Announced, OnLane, TypeOK, Go, ViewEnds, Publish
  <2>3. Mark
    BY <1>12 DEF Mark, TypeOK, recs, ViewEnds, Publish
  <2> QED
    BY <1>3, <2>1, <2>2, <2>3
<1>13. CASE ReadFlag(t) \/ PokeLoop(t)
  <2>1. Same /\ Spin
    BY <1>13, <1>2 DEF Same, Spin, TypeOK, words, locals, Go, ReadFlag, PokeLoop
  <2>2. Park /\ Lane /\ Late /\ Left
    BY <1>13 DEF Park, Lane, Late, Left, Announced, OnLane, TypeOK, Go, ReadFlag, PokeLoop
  <2>3. Mark
    BY <1>13 DEF Mark, TypeOK, recs, ReadFlag, PokeLoop
  <2> QED
    BY <1>3, <2>1, <2>2, <2>3
<1>14. CASE Announce(t)
  <2>1. /\ pc[t] = "announce" /\ ~spinning[t] /\ spinners' = spinners + 1
        /\ state'[t] = state[t] /\ UNCHANGED <<parkedReg, parked, threads>>
    BY <1>14, <1>1 DEF SpinOf, words, recs, Go, Announce
  <2>2. \/ pc'[t] = "look" /\ spinning'[t]
        \/ pc'[t] = "unannounce" /\ ~spinning'[t]
    <3>1. pc'[t] = IF spinners = 0 THEN "look" ELSE "unannounce"
      BY <1>14 DEF TypeOK, Go, Announce
    <3>2. spinning'[t] <=> spinners = 0
      BY <1>14 DEF TypeOK, Announce
    <3> QED
      BY <3>1, <3>2
  <2> QED
    BY <1>2, <2>1, <2>2 DEF Counted, Announced, OnLane
<1>15. CASE LeaveSpin(t)
  <2>1. /\ ~spinning'[t] /\ spinners' = spinners - 1
        /\ state'[t] = state[t] /\ UNCHANGED <<parkedReg, parked, threads>>
    BY <1>15 DEF TypeOK, words, recs, LeaveSpin
  <2>2. \/ pc[t] = "unannounce" /\ ~spinning[t]
        \/ pc[t] \in {"giveUp", "dropSpin"} /\ spinning[t]
    BY <1>15, <1>1 DEF SpinOf, Go, LeaveSpin
  <2>3. pc'[t] \in {"park", "view", "leave"}
    BY <1>15, ServePcs DEF TypeOK, Go, LeaveSpin
  <2> QED
    BY <1>2, <2>1, <2>2, <2>3 DEF Counted, Announced, OnLane
<1>16. CASE CountOwn(t)
  BY <1>16, <1>1, <1>2, ServePcs DEF Counted, SpinOf, RecordOf, Marked, Announced, OnLane, TypeOK,
     words, recs, locals, Go, CountOwn
<1>17. CASE Woke(t)
  <2>1. /\ pc[t] = "woke" /\ state[t] # "running" /\ state'[t] = "running"
        /\ UNCHANGED <<parkedReg, parked, spinners, threads>> /\ spinning'[t] = spinning[t]
    BY <1>17, <1>1 DEF RecordOf, Marked, TypeOK, words, locals, Go, Woke
  <2>2. \/ state[t] = "parked" /\ pc'[t] = "uncount"
        \/ state[t] = "woken" /\ pc'[t] \in {"again", "leave"}
    BY <1>17, <1>2, <2>1, ServePcs DEF TypeOK, Go, Woke
  <2> QED
    BY <1>2, <2>1, <2>2 DEF Counted, Announced, OnLane
<1>18. CASE Unpark(t)
  BY <1>18, <1>1, <1>2, ServePcs DEF Counted, SpinOf, RecordOf, Marked, Announced, OnLane, TypeOK,
     words, recs, locals, Go, Unpark
<1>19. CASE Uncount(t)
  <2>1. /\ pc[t] \in {"uncount", "uncountJob"} /\ state'[t] = state[t] /\ parkedReg' = parkedReg - 1
        /\ UNCHANGED <<parked, spinners, threads>> /\ spinning'[t] = spinning[t]
    BY <1>19 DEF words, recs, locals, Go, Uncount
  <2>2. pc'[t] \in {"again", "leave", "view"}
    BY <1>19, ServePcs DEF TypeOK, Go, Uncount
  <2> QED
    BY <1>2, <2>1, <2>2 DEF Counted, Announced, OnLane
<1>20. CASE OwnPoke(t)
  <2>1. /\ pc[t] = "ownPoke" /\ state[t] = "woken" /\ state'[t] = "running"
        /\ UNCHANGED <<parkedReg, parked, spinners, threads>> /\ spinning'[t] = spinning[t]
    BY <1>20, <1>1 DEF RecordOf, Marked, TypeOK, words, locals, Go, OwnPoke
  <2>2. pc'[t] \in {"view", "leave"}
    BY <1>20, ServePcs DEF TypeOK, Go, OwnPoke
  <2> QED
    BY <1>2, <2>1, <2>2 DEF Counted, Announced, OnLane
<1>21. CASE ParkLane(t)
  BY <1>21, <1>1, <1>2, ServePcs DEF Counted, SpinOf, RecordOf, Marked, Announced, OnLane, TypeOK,
     words, recs, locals, Go, ParkLane
<1>22. CASE LaneUnpark(t)
  <2>1. /\ pc[t] = "laneUnpark" /\ state'[t] = state[t] /\ parked' = parked - 1
        /\ UNCHANGED <<parkedReg, spinners, threads>> /\ spinning'[t] = spinning[t]
    BY <1>22 DEF words, recs, locals, Go, LaneUnpark
  <2>2. pc'[t] \in {"look", "view", "leave"}
    BY <1>22, ServePcs DEF TypeOK, Go, LaneUnpark
  <2> QED
    BY <1>2, <2>1, <2>2 DEF Counted, Announced, OnLane
<1>23. CASE Leave(t)
  BY <1>23, <1>1, <1>2, ServePcs DEF Counted, SpinOf, RecordOf, Marked, Announced, OnLane, TypeOK,
     words, recs, locals, Go, Leave
<1> QED
  BY <1>4, <1>5, <1>6, <1>7, <1>8, <1>9, <1>10, <1>11, <1>12, <1>13, <1>14, <1>15, <1>16, <1>17,
     <1>18, <1>19, <1>20, <1>21, <1>22, <1>23 DEF ThreadStep

\* A number of datagrams is a number.
LEMMA HeldNat ==
  ASSUME TypeOK, NEW what
  PROVE  Held(sock, what) \in Nat
<1>1. DOMAIN sock = 1 .. Len(sock) /\ Len(sock) \in Nat
  BY LenProperties DEF TypeOK
<1>2. IsFiniteSet(1 .. Len(sock)) /\ {i \in DOMAIN sock : sock[i] = what} \subseteq 1 .. Len(sock)
  BY <1>1, FS_Interval
<1> QED
  BY <1>2, FS_Subset, FS_CardinalityType DEF Held

\* A read of the socket returns a wake's credit when it takes the wake.
LEMMA CreditReturns ==
  ASSUME TypeOK, RecvSock
  PROVE  wakes' - Held(sock', "poke") = wakes - Held(sock, "poke") /\ Held(sock', "poke") \in Int
         /\ Held(sock, "poke") \in Nat
<1> DEFINE S == {"msg", "poke", "pill"}
<1>1. sock \in Seq(S) /\ wakes \in Int /\ "poke" \in S
  BY DEF TypeOK
<1>2. Held(sock, "poke") \in Nat
  <2> HIDE DEF S
  <2> QED
    BY <1>1, HeldAppend
<1>3. CASE sock = <<>>
  <2>1. sock' = sock /\ wakes' = wakes
    BY <1>3, RecvCases
  <2>2. Held(sock', "poke") = Held(sock, "poke")
    BY <2>1
  <2> QED
    BY <1>1, <1>2, <2>1, <2>2
<1>4. CASE sock # <<>>
  <2>1. sock' = Tail(sock) /\ wakes' = wakes - Counted(sock[1] = "poke")
    <3>1. sock' = Tail(sock)
      BY <1>4, RecvCases
    <3>2. CASE sock[1] = "poke"
      BY <1>4, <3>1, <3>2, RecvCases DEF Counted
    <3>3. CASE sock[1] # "poke"
      BY <1>1, <1>4, <3>1, <3>3, RecvCases DEF Counted
    <3> QED
      BY <3>1, <3>2, <3>3
  <2>2. Held(Tail(sock), "poke") = Held(sock, "poke") - Counted(sock[1] = "poke")
    <3> HIDE DEF S
    <3> QED
      BY <1>1, <1>4, HeldTail
  <2>3. Held(sock', "poke") = Held(sock, "poke") - Counted(sock[1] = "poke")
    BY <2>1, <2>2
  <2> QED
    BY <1>1, <1>2, <2>1, <2>3 DEF Counted
<1> QED
  BY <1>3, <1>4

\* A thread's step keeps the words exact.
LEMMA CountsThread ==
  ASSUME TypeOK, Hands, Records, Spins, CountsExact,
         NEW t \in Threads, ThreadStep(t) \/ ViewEnds(t)
  PROVE  CountsExact'
<1>1. UNCHANGED <<lpc, lost>>
  BY ThreadKeeps
<1>2. Counted(lpc = "poke") \in 0 .. 1 /\ Counted(lpc = "pokeLane") \in 0 .. 1 /\ lost \in Nat /\ N \in Nat
  BY Markers DEF Counted, TypeOK
<1>3. /\ InPcs(Announced)' = InPcs(Announced) + Counted(pc'[t] \in Announced) - Counted(pc[t] \in Announced)
      /\ InPcs(Announced) \in Nat
      /\ InPcs(OnLane)' = InPcs(OnLane) + Counted(pc'[t] \in OnLane) - Counted(pc[t] \in OnLane)
      /\ InPcs(OnLane) \in Nat
  BY PcCount
<1>4. /\ InPcs({"unannounce"})' = InPcs({"unannounce"}) + Counted(pc'[t] = "unannounce")
                                  - Counted(pc[t] = "unannounce")
      /\ InPcs({"unannounce"}) \in Nat
  <2>1. \A x : x \in {"unannounce"} <=> x = "unannounce"
    OBVIOUS
  <2> HIDE DEF InPcs
  <2> QED
    BY <2>1, PcCount DEF Counted
<1>5. /\ InPcs({"left"})' = InPcs({"left"}) + Counted(pc'[t] = "left") - Counted(pc[t] = "left")
      /\ InPcs({"left"}) \in Nat
  <2>1. \A x : x \in {"left"} <=> x = "left"
    OBVIOUS
  <2> QED
    BY <2>1, PcCount DEF Counted
<1>6. \A b \in BOOLEAN : Counted(b) \in 0 .. 1
  BY DEF Counted
<1>7. /\ parkedReg' = parkedReg + Counted(pc'[t] \in Announced) - Counted(pc[t] \in Announced)
                        - Counted(state'[t] = "woken") + Counted(state[t] = "woken")
      /\ parked' = parked + Counted(pc'[t] \in OnLane) - Counted(pc[t] \in OnLane)
      /\ spinners' = spinners + Counted(spinning'[t]) - Counted(spinning[t])
                       + Counted(pc'[t] = "unannounce") - Counted(pc[t] = "unannounce")
      /\ threads' = threads - Counted(pc'[t] = "left") + Counted(pc[t] = "left")
  BY WordMoves
<1>8. /\ Cardinality(Woken') = Cardinality(Woken) + Counted(state'[t] = "woken")
                                 - Counted(state[t] = "woken")
      /\ Cardinality(Woken) \in Nat
      /\ Cardinality(Spinning') = Cardinality(Spinning) + Counted(spinning'[t])
                                    - Counted(spinning[t])
      /\ Cardinality(Spinning) \in Nat
  BY RecordCount
<1>9. /\ parkedReg = InPcs(Announced) + Counted(lpc = "poke") - Cardinality(Woken)
      /\ parked = InPcs(OnLane)
      /\ spinners = Cardinality(Spinning) + InPcs({"unannounce"})
      /\ wakes = Held(sock, "poke") + Counted(lpc = "pokeLane") + lost
      /\ threads = N - InPcs({"left"})
  BY DEF CountsExact, Woken, Spinning
<1>10. /\ Counted(pc[t] \in Announced) \in 0 .. 1 /\ Counted(pc'[t] \in Announced) \in 0 .. 1
       /\ Counted(pc[t] \in OnLane) \in 0 .. 1 /\ Counted(pc'[t] \in OnLane) \in 0 .. 1
       /\ Counted(state[t] = "woken") \in 0 .. 1 /\ Counted(state'[t] = "woken") \in 0 .. 1
       /\ Counted(pc[t] = "unannounce") \in 0 .. 1 /\ Counted(pc'[t] = "unannounce") \in 0 .. 1
       /\ Counted(pc[t] = "left") \in 0 .. 1 /\ Counted(pc'[t] = "left") \in 0 .. 1
       /\ Counted(spinning[t]) \in 0 .. 1 /\ Counted(spinning'[t]) \in 0 .. 1
  BY DEF Counted
<1>11. parkedReg' = InPcs(Announced)' + Counted(lpc' = "poke") - Cardinality(Woken')
  <2>1. Counted(lpc' = "poke") = Counted(lpc = "poke")
    BY <1>1
  <2> QED
    BY <2>1, <1>2, <1>3, <1>7, <1>8, <1>9, <1>10
<1>12. parked' = InPcs(OnLane)'
  BY <1>3, <1>7, <1>9, <1>10
<1>13. spinners' = Cardinality(Spinning') + InPcs({"unannounce"})'
  BY <1>4, <1>7, <1>8, <1>9, <1>10
<1>14. threads' = N - InPcs({"left"})'
  BY <1>2, <1>5, <1>7, <1>9, <1>10
<1>15. wakes' = Held(sock', "poke") + Counted(lpc' = "pokeLane") + lost'
  <2>1. Counted(lpc' = "pokeLane") = Counted(lpc = "pokeLane") /\ lost' = lost
    BY <1>1
  <2>2. CASE UNCHANGED <<sock, wakes>>
    BY <1>9, <2>1, <2>2
  <2>3. CASE RecvSock
    <3>1. /\ wakes' - Held(sock', "poke") = wakes - Held(sock, "poke")
          /\ Held(sock', "poke") \in Int /\ Held(sock, "poke") \in Nat
      BY <2>3, CreditReturns
    <3>2. wakes \in Int /\ wakes' \in Int
      BY <2>3, RecvFacts DEF TypeOK
    <3> QED
      BY <1>2, <1>9, <2>1, <3>1, <3>2
  <2> QED
    BY <2>2, <2>3, SockMoves
<1> QED
  BY <1>11, <1>12, <1>13, <1>14, <1>15 DEF CountsExact, Woken, Spinning

\* So does the loop's: a naming counts for the thread named until its wake is sent.
LEMMA CountsLoop ==
  ASSUME TypeOK, Records, CountsExact, LoopStep \/ Environment
  PROVE  CountsExact'
<1>1. UNCHANGED <<pc, spinning, parked, spinners, threads>>
  BY LoopKeeps
<1>2. /\ InPcs(Announced)' = InPcs(Announced) /\ InPcs(OnLane)' = InPcs(OnLane)
      /\ InPcs({"unannounce"})' = InPcs({"unannounce"}) /\ InPcs({"left"})' = InPcs({"left"})
      /\ Cardinality(Spinning') = Cardinality(Spinning)
  BY <1>1 DEF InPcs, Spinning
<1>3. /\ parkedReg = InPcs(Announced) + Counted(lpc = "poke") - Cardinality(Woken)
      /\ parked = InPcs(OnLane)
      /\ spinners = Cardinality(Spinning) + InPcs({"unannounce"})
      /\ wakes = Held(sock, "poke") + Counted(lpc = "pokeLane") + lost
      /\ threads = N - InPcs({"left"})
  BY DEF CountsExact, Woken, Spinning
<1>4. SUFFICES /\ parkedReg' = InPcs(Announced) + Counted(lpc' = "poke") - Cardinality(Woken')
               /\ wakes' = Held(sock', "poke") + Counted(lpc' = "pokeLane") + lost'
  BY <1>1, <1>2, <1>3, <1>4 DEF CountsExact, Woken, Spinning
<1>5. InPcs(Announced) \in Nat /\ Cardinality(Woken) \in Nat /\ lost \in Nat /\ wakes \in Int
  <2>1. IsFiniteSet(Threads) /\ Woken \subseteq Threads /\ {t \in Threads : pc[t] \in Announced} \subseteq Threads
    BY Markers DEF Woken
  <2> QED
    BY <2>1, FS_Subset, FS_CardinalityType DEF InPcs, TypeOK
<1> DEFINE Quiet == /\ UNCHANGED <<state, sock, wakes, lost, parkedReg>>
                    /\ lpc' = "poke" <=> lpc = "poke"
                    /\ lpc' = "pokeLane" <=> lpc = "pokeLane"
<1>6. ASSUME Quiet
      PROVE  /\ parkedReg' = InPcs(Announced) + Counted(lpc' = "poke") - Cardinality(Woken')
             /\ wakes' = Held(sock', "poke") + Counted(lpc' = "pokeLane") + lost'
  <2>1. Counted(lpc' = "poke") = Counted(lpc = "poke") /\ Counted(lpc' = "pokeLane") = Counted(lpc = "pokeLane")
    BY <1>6 DEF Counted
  <2>2. Cardinality(Woken') = Cardinality(Woken) /\ Held(sock', "poke") = Held(sock, "poke")
    BY <1>6 DEF Woken
  <2> QED
    BY <1>3, <1>6, <2>1, <2>2
<1>7. ASSUME NEW x \in {"msg", "poke", "pill"}, sock' = Append(sock, x)
      PROVE  /\ Held(sock', "poke") = Held(sock, "poke") + Counted(x = "poke")
             /\ Held(sock, "poke") \in Nat
  <2> DEFINE S == {"msg", "poke", "pill"}
  <2>1. sock \in Seq(S) /\ x \in S
    BY DEF TypeOK
  <2>2. Held(Append(sock, x), "poke") = Held(sock, "poke") + Counted(x = "poke") /\ Held(sock, "poke") \in Nat
    <3> HIDE DEF S
    <3> QED
      BY <2>1, HeldAppend
  <2> QED
    BY <1>7, <2>2
<1> USE DEF rings, chans, words, recs, loop
<1>8. CASE ReadChannel \/ LookPasses \/ LookAged \/ ReadSpinners \/ ReadParked
  <2>1. Quiet
    BY <1>8 DEF history, LGo, Step, Over, ReadChannel, LookPasses, LookAged, ReadSpinners,
       ReadParked
  <2> QED
    BY <1>6, <2>1
<1>9. CASE ReadIdle \/ ReadLaneParked \/ ReadHead \/ RaiseFlag \/ RecheckDone
  <2>1. Quiet
    BY <1>9 DEF history, LGo, Step, Over, ReadIdle, ReadLaneParked, ReadHead, RaiseFlag, RecheckDone
  <2> QED
    BY <1>6, <2>1
<1>10. CASE WokenByPool \/ WokenByTime \/ LowerFlag \/ WokenByClient \/ StopLoop
  <2>1. Quiet
    BY <1>10 DEF history, LGo, WokenByPool, WokenByTime, LowerFlag, WokenByClient, StopLoop
  <2> QED
    BY <1>6, <2>1
<1>11. CASE Drain("top", "events") \/ Drain("chan", "events") \/ Drain("events", "look")
  <2>1. Quiet
    BY <1>11 DEF history, LGo, Drain
  <2> QED
    BY <1>6, <2>1
<1>12. CASE (\E s \in Slots : Submit(s)) \/ PillOwn
  <2>1. Quiet
    BY <1>12 DEF history, LGo, Submit, PillOwn
  <2> QED
    BY <1>6, <2>1
<1>13. CASE Scan
  <2>1. Quiet
    BY <1>13, ScanFacts DEF history, Scan
  <2> QED
    BY <1>6, <2>1
<1>14. CASE SendMessage \/ PillLane
  <2>1. /\ UNCHANGED <<state, wakes, lost, parkedReg>> /\ lpc # "poke" /\ lpc' # "poke"
        /\ lpc # "pokeLane" /\ lpc' # "pokeLane"
    BY <1>14 DEF history, LGo, SendMessage, PillLane
  <2>2. CASE UNCHANGED sock
    <3>1. Quiet
      BY <2>1, <2>2
    <3> QED
      BY <1>6, <3>1
  <2>3. CASE \E x \in {"msg", "pill"} : sock' = Append(sock, x)
    <3>1. PICK x \in {"msg", "pill"} : sock' = Append(sock, x)
      BY <2>3
    <3>2. Held(sock', "poke") = Held(sock, "poke") /\ Held(sock, "poke") \in Nat
      BY <3>1, <1>7 DEF Counted
    <3>3. Cardinality(Woken') = Cardinality(Woken)
      BY <2>1 DEF Woken
    <3> QED
      BY <1>3, <2>1, <3>2, <3>3 DEF Counted
  <2> QED
    BY <1>14, <2>2, <2>3 DEF SendMessage, PillLane
<1>15. CASE Name
  <2>1. UNCHANGED <<sock, wakes, lost, parkedReg>> /\ lpc = "cas" /\ lpc' # "pokeLane"
    BY <1>15 DEF history, LGo, Step, Over, Name
  <2>2. wakes' = Held(sock', "poke") + Counted(lpc' = "pokeLane") + lost'
    BY <1>3, <2>1 DEF Counted
  <2>3. best \in Threads
    BY <2>1, LaneType DEF Records, Named
  <2>4. CASE state[best] = "parked"
    <3>1. lpc' = "poke" /\ state' = [state EXCEPT ![best] = "woken"]
      BY <1>15, <2>4 DEF LGo, Step, Name
    <3>2. Woken' = Woken \cup {best} /\ best \notin Woken
      BY <2>3, <2>4, <3>1 DEF Woken, TypeOK
    <3>3. IsFiniteSet(Woken)
      BY Markers, FS_Subset DEF Woken
    <3>4. Cardinality(Woken') = Cardinality(Woken) + 1
      BY <3>2, <3>3, FS_AddElement
    <3>5. Counted(lpc' = "poke") = 1 /\ Counted(lpc = "poke") = 0
      BY <2>1, <3>1 DEF Counted
    <3> QED
      BY <1>3, <1>5, <2>1, <2>2, <3>4, <3>5
  <2>5. CASE state[best] # "parked"
    <3>1. lpc' # "poke" /\ state' = state
      BY <1>15, <2>3, <2>5 DEF LGo, Step, Over, Name, TypeOK
    <3>2. Woken' = Woken
      BY <3>1 DEF Woken
    <3>3. Counted(lpc' = "poke") = Counted(lpc = "poke")
      BY <2>1, <3>1 DEF Counted
    <3> QED
      BY <1>3, <2>1, <2>2, <3>2, <3>3
  <2> QED
    BY <2>4, <2>5
<1>16. CASE Poke
  <2>1. /\ UNCHANGED <<state, sock, wakes, lost>> /\ parkedReg' = parkedReg - 1
        /\ lpc = "poke" /\ lpc' # "poke" /\ lpc' # "pokeLane"
    BY <1>16 DEF history, LGo, Over, Poke
  <2>2. Woken' = Woken
    BY <2>1 DEF Woken
  <2>3. Counted(lpc = "poke") = 1 /\ Counted(lpc' = "poke") = 0
        /\ Counted(lpc = "pokeLane") = 0 /\ Counted(lpc' = "pokeLane") = 0
    BY <2>1 DEF Counted
  <2> QED
    BY <1>3, <1>5, <2>1, <2>2, <2>3
<1>17. CASE Credit
  <2>1. /\ UNCHANGED <<state, sock, lost, parkedReg>> /\ lpc = "credit" /\ lpc' # "poke"
        /\ \/ lpc' = "pokeLane" /\ wakes' = wakes + 1
           \/ lpc' # "pokeLane" /\ wakes' = wakes
    BY <1>17 DEF history, LGo, Step, Over, Credit
  <2>2. Woken' = Woken
    BY <2>1 DEF Woken
  <2>3. Counted(lpc = "poke") = 0 /\ Counted(lpc' = "poke") = 0 /\ Counted(lpc = "pokeLane") = 0
    BY <2>1 DEF Counted
  <2>4. /\ lpc' = "pokeLane" => Counted(lpc' = "pokeLane") = 1
        /\ lpc' # "pokeLane" => Counted(lpc' = "pokeLane") = 0
    BY DEF Counted
  <2>5. wakes = Held(sock, "poke") + lost
    <3>1. wakes = Held(sock, "poke") + 0 + lost
      BY <1>3, <2>3
    <3>2. Held(sock, "poke") \in Nat
      BY HeldNat
    <3> QED
      BY <1>5, <3>1, <3>2
  <2>6. Held(sock, "poke") \in Nat
    BY HeldNat
  <2> QED
    BY <1>3, <1>5, <2>1, <2>2, <2>3, <2>4, <2>5, <2>6
<1>18. CASE PokeLane
  <2>1. /\ UNCHANGED <<state, wakes, parkedReg>> /\ lpc = "pokeLane" /\ lpc' # "poke" /\ lpc' # "pokeLane"
    BY <1>18 DEF LGo, Over, PokeLane
  <2>2. Woken' = Woken
    BY <2>1 DEF Woken
  <2>3. Counted(lpc = "poke") = 0 /\ Counted(lpc' = "poke") = 0
        /\ Counted(lpc = "pokeLane") = 1 /\ Counted(lpc' = "pokeLane") = 0
    BY <2>1 DEF Counted
  <2>4. CASE sock' = Append(sock, "poke") /\ lost' = lost
    <3>1. Held(sock', "poke") = Held(sock, "poke") + 1 /\ Held(sock, "poke") \in Nat
      BY <2>4, <1>7 DEF Counted
    <3> QED
      BY <1>3, <1>5, <2>1, <2>2, <2>3, <2>4, <3>1
  <2>5. CASE sock' = sock /\ lost' = lost + 1
    <3>1. Held(sock', "poke") = Held(sock, "poke") /\ Held(sock, "poke") \in Nat
      BY <2>5, HeldNat
    <3> QED
      BY <1>3, <1>5, <2>1, <2>2, <2>3, <2>5, <3>1
  <2> QED
    BY <1>18, <2>4, <2>5 DEF PokeLane
<1> QED
  BY <1>8, <1>9, <1>10, <1>11, <1>12, <1>13, <1>14, <1>15, <1>16, <1>17, <1>18 DEF LoopStep,
     Environment

\* What the four contents of a channel hold.
LEMMA ChannelCounts ==
  /\ Held(Nothing, "poke") = 0 /\ Held(Nothing, "pill") = 0
  /\ Held(OnePoke, "poke") = 1 /\ Held(OnePoke, "pill") = 0
  /\ Held(OnePill, "poke") = 0 /\ Held(OnePill, "pill") = 1
  /\ Held(PokeThenPill, "poke") = 1 /\ Held(PokeThenPill, "pill") = 1
<1> DEFINE S == {"poke", "pill"}
<1>1. Held(Nothing, "poke") = 0 /\ Held(Nothing, "pill") = 0
  <2>1. \A w : {i \in DOMAIN Nothing : Nothing[i] = w} = {}
    BY DEF Nothing
  <2> QED
    BY <2>1, FS_EmptySet DEF Held
<1>2. "poke" \in S /\ "pill" \in S
  OBVIOUS
<1>3. Nothing \in Seq(S) /\ OnePoke \in Seq(S)
  BY DEF Nothing, OnePoke
<1>4. /\ Append(Nothing, "poke") = OnePoke /\ Append(Nothing, "pill") = OnePill
      /\ Append(OnePoke, "pill") = PokeThenPill
  BY Channel
<1> HIDE DEF S
<1>5. /\ Counted("poke" = "poke") = 1 /\ Counted("pill" = "pill") = 1
      /\ Counted("poke" = "pill") = 0 /\ Counted("pill" = "poke") = 0
  BY DEF Counted
<1>6. ASSUME NEW q \in Seq(S), NEW x \in S, NEW r, Append(q, x) = r, NEW w \in S
      PROVE  Held(r, w) = Held(q, w) + Counted(x = w)
  <2>1. Held(Append(q, x), w) = Held(q, w) + Counted(x = w)
    BY HeldAppend
  <2> QED
    BY <1>6, <2>1
<1>7. Held(OnePoke, "poke") = 1 /\ Held(OnePoke, "pill") = 0
  <2>1. /\ Held(OnePoke, "poke") = Held(Nothing, "poke") + Counted("poke" = "poke")
        /\ Held(OnePoke, "pill") = Held(Nothing, "pill") + Counted("poke" = "pill")
    BY <1>2, <1>3, <1>4, <1>6
  <2> QED
    BY <1>1, <1>5, <2>1
<1>8. Held(OnePill, "poke") = 0 /\ Held(OnePill, "pill") = 1
  <2>1. /\ Held(OnePill, "poke") = Held(Nothing, "poke") + Counted("pill" = "poke")
        /\ Held(OnePill, "pill") = Held(Nothing, "pill") + Counted("pill" = "pill")
    BY <1>2, <1>3, <1>4, <1>6
  <2> QED
    BY <1>1, <1>5, <2>1
<1>9. Held(PokeThenPill, "poke") = 1 /\ Held(PokeThenPill, "pill") = 1
  <2>1. /\ Held(PokeThenPill, "poke") = Held(OnePoke, "poke") + Counted("pill" = "poke")
        /\ Held(PokeThenPill, "pill") = Held(OnePoke, "pill") + Counted("pill" = "pill")
    BY <1>2, <1>3, <1>4, <1>6
  <2> QED
    BY <1>5, <1>7, <2>1
<1> QED
  BY <1>1, <1>7, <1>8, <1>9

\* What the records say of a channel, counted.
LEMMA RecordsNotStale ==
  ASSUME Records, TypeOK
  PROVE  NothingStale
<1>1. SUFFICES ASSUME NEW t \in lane.registered
               PROVE  /\ Held(own[t], "poke") <= Counted(state[t] = "woken")
                      /\ Held(own[t], "pill") <= 1
  BY DEF NothingStale
<1>2. RecordOf(t)
  BY LaneType DEF Records
<1>3. CASE Owed(t)
  <2>1. own[t] \in {OnePoke, PokeThenPill} /\ Counted(state[t] = "woken") = 1
    BY <1>2, <1>3 DEF RecordOf, Owed, Counted
  <2> QED
    BY <2>1, ChannelCounts
<1>4. CASE ~Owed(t)
  <2>1. own[t] \in {Nothing, OnePill} /\ Counted(state[t] = "woken") \in {0, 1}
    BY <1>2, <1>4 DEF RecordOf, Counted
  <2> QED
    BY <2>1, ChannelCounts
<1> QED
  BY <1>3, <1>4

-----------------------------------------------------------------------------
(* The search, and who it is for.                                          *)

\* What is sent is behind what was there.
LEMMA SentBehind ==
  ASSUME TypeOK, NEW x \in {"msg", "poke", "pill"}, sock' = Append(sock, x)
  PROVE  /\ sock' # <<>>
         /\ \A i \in DOMAIN sock' : sock'[i] = x \/ (i \in DOMAIN sock /\ sock'[i] = sock[i])
<1> DEFINE S == {"msg", "poke", "pill"}
<1>1. sock \in Seq(S) /\ x \in S
  BY DEF TypeOK
<1>2. /\ DOMAIN sock' = 1 .. Len(sock) + 1 /\ DOMAIN sock = 1 .. Len(sock) /\ Len(sock) \in Nat
      /\ \A i \in 1 .. Len(sock) : sock'[i] = sock[i]
      /\ sock'[Len(sock) + 1] = x /\ sock' # <<>>
  <2> HIDE DEF S
  <2> QED
    BY <1>1, Appended
<1> HIDE DEF S
<1>3. \A i \in 1 .. Len(sock) + 1 : i \in 1 .. Len(sock) \/ i = Len(sock) + 1
  BY <1>2
<1> QED
  BY <1>2, <1>3

\* With a channel to every thread nobody parks on the socket, and no wake is sent there.
LEMMA Search0Step ==
  ASSUME TypeOK, TypeOK', Records, CountsExact, Search0, [Next]_vars
  PROVE  Search0'
<1>1. ASSUME NEW t \in Threads, ThreadStep(t) \/ ViewEnds(t) PROVE Search0'
  <2>1. UNCHANGED <<lpc, at, seen, lane>>
    BY <1>1, ThreadKeeps
  <2>2. \A i \in DOMAIN sock' : \E j \in DOMAIN sock : sock'[i] = sock[j]
    BY <1>1, SockMoves, RecvCases
  <2> QED
    BY <2>1, <2>2 DEF Search0
<1>2. ASSUME LoopStep \/ Environment PROVE Search0'
  <2>1. UNCHANGED lane
    BY <1>2, LoopKeeps
  <2> DEFINE AtOne == lpc' \in {"spinners", "parked", "idle"} => at' = 1
             Other == lpc' # "pokeLane" /\ lpc' # "credit"
  <2>2. ASSUME AtOne, UNCHANGED sock, Other PROVE Search0'
    BY <2>1, <2>2 DEF Search0
  <2>3. ASSUME AtOne, Other, NEW x \in {"msg", "pill"}, sock' = Append(sock, x) PROVE Search0'
    BY <2>1, <2>3, SentBehind DEF Search0
  <2> USE DEF chans, loop, Search
  <2>4. CASE ReadChannel \/ LookPasses \/ LookAged
    BY <2>2, <2>4 DEF LGo, NewSearch, ReadChannel, LookPasses, LookAged
  <2>5. CASE ReadSpinners \/ ReadParked \/ ReadIdle
    BY <2>2, <2>5 DEF Search0, LGo, NewSearch, Step, Over, ReadSpinners, ReadParked, ReadIdle
  <2>6. CASE Name \/ Poke \/ ReadHead \/ RaiseFlag \/ RecheckDone
    BY <2>2, <2>6 DEF LGo, NewSearch, Step, Over, Name, Poke, ReadHead, RaiseFlag, RecheckDone
  <2>7. CASE WokenByPool \/ WokenByTime \/ LowerFlag \/ WokenByClient \/ StopLoop
    BY <2>2, <2>7 DEF LGo, WokenByPool, WokenByTime, LowerFlag, WokenByClient, StopLoop
  <2>8. CASE Drain("top", "events") \/ Drain("chan", "events") \/ Drain("events", "look")
    BY <2>2, <2>8 DEF LGo, Drain
  <2>9. CASE \E s \in Slots : Submit(s)
    BY <2>2, <2>9 DEF LGo, NewSearch, Submit
  <2>10. CASE Scan
    BY <2>2, <2>10, ScanFacts
  <2>11. CASE PillOwn
    BY <2>2, <2>11 DEF PillOwn
  <2>12. CASE PillLane
    BY <2>2, <2>3, <2>12 DEF PillLane
  <2>13. CASE SendMessage
    <3>1. AtOne /\ Other
      BY <2>13 DEF LGo, SendMessage
    <3> QED
      BY <2>2, <2>3, <2>13, <3>1 DEF SendMessage
  <2>14. CASE ReadLaneParked
    <3>1. lpc' = "credit" /\ seen' = parked /\ UNCHANGED sock
      BY <2>14 DEF LGo, Step, ReadLaneParked
    <3>2. lane.registered = Threads => parked = 0
      <4>1. lane.registered = Threads => {t \in Threads : pc[t] \in OnLane} = {}
        BY DEF Records, RecordOf
      <4> QED
        BY <4>1, FS_EmptySet DEF CountsExact, InPcs
    <3> QED
      BY <2>1, <3>1, <3>2 DEF Search0
  <2>15. CASE Credit
    <3>1. UNCHANGED sock /\ lpc = "credit" /\ lpc' # "credit" /\ AtOne
      BY <2>15 DEF LGo, Step, Over, Credit
    <3>2. lane.registered = Threads => ~(seen > wakes)
      <4>1. Held(sock, "poke") \in Nat /\ Counted(lpc = "pokeLane") \in Nat /\ lost \in Nat
        BY HeldNat DEF Counted, TypeOK
      <4>2. wakes >= 0
        BY <4>1 DEF CountsExact
      <4> QED
        BY <3>1, <4>2 DEF Search0, TypeOK
    <3>3. lane.registered = Threads => lpc' # "pokeLane"
      BY <2>15, <3>2 DEF LGo, Over, Credit
    <3> QED
      BY <2>1, <3>1, <3>3 DEF Search0
  <2>16. CASE PokeLane
    <3>1. lpc = "pokeLane" /\ lpc' \in {"wait", "events"}
      BY <2>16 DEF LGo, Over, PokeLane
    <3> QED
      BY <2>1, <3>1 DEF Search0
  <2> QED
    BY <1>2, <2>4, <2>5, <2>6, <2>7, <2>8, <2>9, <2>10, <2>11, <2>12, <2>13, <2>14, <2>15, <2>16
       DEF LoopStep, Environment
<1>3. CASE UNCHANGED vars
  BY <1>3 DEF vars, chans, recs, loop, Search0
<1> QED
  BY <1>1, <1>2, <1>3 DEF Next

-----------------------------------------------------------------------------
(* Nothing queued is behind sleepers: the threads' steps.                  *)

\* A thread comes to the last look before its park, or to the park, only past
\* an empty ring, and to the park with nothing to take on the socket.
LEMMA Sleepers ==
  ASSUME TypeOK, Hands, Records, NEW t \in Threads, ThreadStep(t) \/ ViewEnds(t)
  PROVE  /\ pc'[t] \in {"recheckSock", "laneBlock"} => ring = <<>>
         /\ pc'[t] = "block" => /\ RecvSock /\ Received = None /\ pc[t] = "recheckSock"
                                /\ UNCHANGED <<own, state>>
         /\ UNCHANGED sock \/ (RecvSock /\ pc'[t] # "laneBlock")
<1> DEFINE Quiet == pc'[t] \notin {"recheckSock", "laneBlock", "block"}
           Reads == RecvSock \/ UNCHANGED sock
<1>1. Reads
  BY SockMoves
<1>2. ASSUME Quiet
      PROVE  /\ pc'[t] \in {"recheckSock", "laneBlock"} => ring = <<>>
             /\ pc'[t] = "block" => /\ RecvSock /\ Received = None /\ pc[t] = "recheckSock"
                                    /\ UNCHANGED <<own, state>>
             /\ UNCHANGED sock \/ (RecvSock /\ pc'[t] # "laneBlock")
  BY <1>1, <1>2
<1>3. CASE Call(t) \/ LookPolls(t) \/ LookSkips(t)
  <2>1. Quiet
    BY <1>3 DEF TypeOK, Go, Call, LookPolls, LookSkips
  <2> QED
    BY <1>2, <2>1
<1>4. CASE PollOwn(t) \/ Pop(t)
  <2>1. Quiet
    BY <1>4, ServePcs DEF TypeOK, Go, Take, PollOwn, Pop
  <2> QED
    BY <1>2, <2>1
<1>5. CASE PollSock(t)
  <2>1. CASE Received = None
    <3>1. Quiet
      BY <1>5, <2>1 DEF TypeOK, PollSock
    <3> QED
      BY <1>2, <3>1
  <2>2. CASE Received # None
    <3>1. Take(t, Received) /\ Serve(Received) \in {"view", "leave"}
      BY <1>5, <2>2, ServePcs DEF PollSock
    <3>2. Quiet
      BY <3>1 DEF TypeOK, Take
    <3> QED
      BY <1>2, <3>2
  <2> QED
    BY <2>1, <2>2
<1>6. CASE PopNothing(t) \/ SpinOver(t) \/ Announce(t)
  <2>1. Quiet
    BY <1>6 DEF TypeOK, Go, PopNothing, SpinOver, Announce
  <2> QED
    BY <1>2, <2>1
<1>7. CASE LeaveSpin(t) \/ Uncount(t)
  <2>1. Quiet
    BY <1>7, ServePcs DEF TypeOK, Go, LeaveSpin, Uncount
  <2> QED
    BY <1>2, <2>1
<1>8. CASE ParkOwn(t) \/ CountOwn(t) \/ Again(t) \/ ParkLane(t)
  <2>1. Quiet
    BY <1>8 DEF TypeOK, Go, ParkOwn, CountOwn, Again, ParkLane
  <2> QED
    BY <1>2, <2>1
<1>9. CASE RecheckRing(t) \/ LaneRecheck(t)
  <2>1. UNCHANGED sock /\ pc'[t] # "block"
    BY <1>9 DEF TypeOK, chans, Go, RecheckRing, LaneRecheck
  <2>2. ring # <<>> => pc'[t] \notin {"recheckSock", "laneBlock"}
    BY <1>9 DEF TypeOK, Go, RecheckRing, LaneRecheck
  <2> QED
    BY <2>1, <2>2
<1>10. CASE RecheckSock(t)
  <2>1. /\ RecvSock /\ pc[t] = "recheckSock" /\ UNCHANGED <<own, state>>
        /\ pc'[t] = IF Received = None THEN "block" ELSE "unpark"
    BY <1>10 DEF TypeOK, recs, Go, RecheckSock
  <2> QED
    BY <2>1
<1>11. CASE LaneBlock(t) \/ Block(t)
  <2>1. Quiet
    BY <1>11 DEF TypeOK, Go, LaneBlock, Block
  <2> QED
    BY <1>2, <2>1
<1>12. CASE Woke(t) \/ Unpark(t) \/ OwnPoke(t)
  <2>1. ASSUME Woke(t) \/ Unpark(t) PROVE Quiet
    BY <2>1, ServePcs DEF TypeOK, Go, Woke, Unpark
  <2>2. ASSUME OwnPoke(t) PROVE Quiet
    BY <2>2, ServePcs DEF TypeOK, Go, OwnPoke
  <2>3. Quiet
    BY <1>12, <2>1, <2>2
  <2> QED
    BY <1>2, <2>3
<1>13. CASE LaneUnpark(t)
  <2>1. Quiet
    BY <1>13, ServePcs DEF TypeOK, Go, LaneUnpark
  <2> QED
    BY <1>2, <2>1
<1>15. CASE ViewEnds(t)
  <2>1. Quiet
    BY <1>15 DEF TypeOK, Go, ViewEnds
  <2> QED
    BY <1>2, <2>1
<1>14. CASE Publish(t) \/ ReadFlag(t) \/ PokeLoop(t) \/ Leave(t)
  <2>1. Quiet
    BY <1>14 DEF TypeOK, Go, Publish, ReadFlag, PokeLoop, Leave
  <2> QED
    BY <1>2, <2>1
<1> QED
  BY <1>3, <1>4, <1>5, <1>6, <1>7, <1>8, <1>9, <1>10, <1>11, <1>12, <1>13, <1>14, <1>15
     DEF ThreadStep

\* Threads only take from the ring.
LEMMA OnlyTaken ==
  ASSUME TypeOK, Hands, NEW t \in Threads, ThreadStep(t) \/ ViewEnds(t), ring' # <<>>
  PROVE  ring # <<>>
<1>1. UNCHANGED ring \/ PopRing
  <2>1. ViewEnds(t) => UNCHANGED ring
    BY DEF ViewEnds
  <2>2. Publish(t) => UNCHANGED ring
    BY DEF Publish
  <2> QED
    BY <2>1, <2>2, JobMoves
<1> QED
  BY <1>1 DEF PopRing

\* A thread's step leaves a job behind one that stirs.
LEMMA JobUpThread ==
  ASSUME TypeOK, Hands, Records, JobUp, NEW t \in Threads, ThreadStep(t) \/ ViewEnds(t)
  PROVE  JobUp'
<1>1. /\ UNCHANGED <<lpc, caller, at, best, seen, lost, lane>>
      /\ \A u \in Threads \ {t} : pc'[u] = pc[u] /\ state'[u] = state[u] /\ own'[u] = own[u]
  BY ThreadKeeps
<1>2. SUFFICES ASSUME ring' # <<>>, ring # <<>>, Up \/ (caller # "message" /\ Seeking)
               PROVE  Up' \/ (caller' # "message" /\ Seeking')
  BY <1>1, OnlyTaken DEF JobUp, Stopping
<1>3. pc'[t] \notin {"recheckSock", "laneBlock"}
  BY <1>2, Sleepers
<1>4. CASE \E u \in Threads : Stirs(u)
  <2>1. PICK u \in Threads : Stirs(u)
    BY <1>4
  <2>2. CASE u # t
    <3>1. Stirs(u)'
      BY <1>1, <2>1, <2>2 DEF Stirs
    <3> QED
      BY <3>1 DEF Up
  <2>3. CASE u = t
    <3>1. Stirs(t)'
      <4>1. CASE pc'[t] = "block"
        <5>1. pc[t] = "recheckSock" /\ UNCHANGED <<own, state, lane>>
          BY <1>1, <4>1, Sleepers
        <5> QED
          BY <2>1, <2>3, <4>1, <5>1 DEF Stirs
      <4>2. CASE pc'[t] # "block"
        BY <1>1, <1>3, <4>2 DEF Stirs
      <4> QED
        BY <4>1, <4>2
    <3> QED
      BY <3>1 DEF Up
  <2> QED
    BY <2>2, <2>3
<1>5. CASE lane.registered = {} /\ sock # <<>>
  <2>1. CASE UNCHANGED sock
    BY <1>1, <1>5, <2>1 DEF Up
  <2>2. CASE pc'[t] # "laneBlock"
    <3>1. Stirs(t)'
      BY <1>1, <1>5, <2>2 DEF Stirs
    <3> QED
      BY <3>1 DEF Up
  <2> QED
    BY <1>3, <2>2
<1>6. CASE caller # "message" /\ Seeking
  <2>1. lpc = "idle" => InPcs({"laneBlock"})' <= InPcs({"laneBlock"})
    <3>1. Counted(pc'[t] \in {"laneBlock"}) = 0 /\ Counted(pc[t] \in {"laneBlock"}) \in {0, 1}
      BY <1>3 DEF Counted
    <3>2. /\ InPcs({"laneBlock"})' = InPcs({"laneBlock"}) + Counted(pc'[t] \in {"laneBlock"})
                                       - Counted(pc[t] \in {"laneBlock"})
          /\ InPcs({"laneBlock"}) \in Nat
      BY PcCount
    <3> QED
      BY <3>1, <3>2
  <2>2. lpc = "idle" /\ seen >= InPcs({"laneBlock"}) => seen' >= InPcs({"laneBlock"})'
    <3>1. InPcs({"laneBlock"}) \in Nat /\ InPcs({"laneBlock"})' \in Int /\ seen \in Int
      <4>1. /\ InPcs({"laneBlock"})' = InPcs({"laneBlock"}) + Counted(pc'[t] \in {"laneBlock"})
                                         - Counted(pc[t] \in {"laneBlock"})
            /\ InPcs({"laneBlock"}) \in Nat
        BY PcCount
      <4> QED
        BY <4>1 DEF Counted, TypeOK
    <3> QED
      BY <1>1, <2>1, <3>1
  <2>3. Seeking'
    BY <1>1, <1>6, <2>2 DEF Seeking, Passed
  <2> QED
    BY <1>1, <1>6, <2>3
<1> QED
  BY <1>2, <1>4, <1>5, <1>6 DEF Up

\* Nor does it leave a message behind threads that are all parked.
LEMMA MessageUpThread ==
  ASSUME TypeOK, Hands, Records, Search0, MessageUp, NEW t \in Threads, ThreadStep(t) \/ ViewEnds(t)
  PROVE  MessageUp'
<1>1. UNCHANGED <<lpc, caller, at, best, lane>>
  BY ThreadKeeps
<1>2. SUFFICES ASSUME sock' # <<>>, lane.registered = Threads
               PROVE  Listens(t)'
  BY <1>1 DEF MessageUp
<1>3. CASE pc'[t] = "block"
  <2>1. RecvSock /\ Received = None
    BY <1>3, Sleepers
  <2>2. \A i \in DOMAIN sock : sock[i] # "poke"
    BY <1>2 DEF Search0
  <2>3. "stop" # None /\ "msg" # None
    BY Markers
  <2>4. sock = <<>> /\ UNCHANGED sock
    BY <2>1, <2>2, <2>3, RecvCases
  <2> QED
    BY <1>2, <2>4
<1>4. CASE pc'[t] # "block"
  BY <1>4 DEF Listens
<1> QED
  BY <1>3, <1>4

-----------------------------------------------------------------------------
(* Nothing queued is behind sleepers: the loop's search.                   *)

\* Who stirs goes on stirring while channels only grow.
LEMMA UpStays ==
  ASSUME UNCHANGED <<pc, state, lane>>, sock # <<>> => sock' # <<>>,
         \A u \in Threads : own[u] # <<>> => own'[u] # <<>>
  PROVE  /\ Up => Up'
         /\ \A u \in Threads : Listens(u) => Listens(u)'
<1>1. \A u \in Threads : Stirs(u) => Stirs(u)'
  BY DEF Stirs
<1>2. \A u \in Threads : Listens(u) => Listens(u)'
  BY DEF Listens
<1> QED
  BY <1>1, <1>2 DEF Up

\* Where nobody stirs, every thread with a channel is announced and parked, and
\* every other waits at the socket.
LEMMA AllSleep ==
  ASSUME TypeOK, Records, ~Up
  PROVE  /\ \A t \in lane.registered : /\ t \in Threads /\ pc[t] \in {"recheckSock", "block"}
                                       /\ state[t] = "parked" /\ own[t] = <<>>
         /\ \A t \in Threads \ lane.registered : pc[t] = "laneBlock" /\ state[t] = "running"
         /\ lane.registered = {} => sock = <<>>
<1>1. \A t \in Threads : ~Stirs(t)
  BY DEF Up
<1>2. lane.registered \subseteq Threads
  BY LaneType
<1>3. lane.registered = {} => sock = <<>>
  BY DEF Up
<1>4. ASSUME NEW t \in Threads \ lane.registered PROVE pc[t] = "laneBlock" /\ state[t] = "running"
  BY <1>1, <1>4 DEF Stirs, Records, RecordOf, Marked
<1>5. ASSUME NEW t \in lane.registered
      PROVE  pc[t] \in {"recheckSock", "block"} /\ state[t] = "parked" /\ own[t] = <<>>
  BY <1>1, <1>2, <1>5 DEF Stirs
<1> QED
  BY <1>2, <1>3, <1>4, <1>5

\* A lane that sleeps is counted whole by the two words the search reads.
LEMMA SleepCounted ==
  ASSUME TypeOK, Records, CountsExact, ~Up, lpc = "idle", seen >= InPcs({"laneBlock"})
  PROVE  threads <= seen + parkedReg
<1> DEFINE A == {t \in Threads : pc[t] \in Announced}
           L == {t \in Threads : pc[t] \in {"laneBlock"}}
           G == {t \in Threads : pc[t] \in {"left"}}
<1>1. \A t \in Threads : pc[t] \in {"recheckSock", "block", "laneBlock"} /\ state[t] # "woken"
  BY AllSleep
<1>2. A \cup L = Threads /\ G = {} /\ Woken = {}
  BY <1>1 DEF Announced, Woken
<1>3. IsFiniteSet(Threads) /\ Cardinality(Threads) = N /\ N \in Nat
  BY Markers
<1>4. InPcs(Announced) = Cardinality(A) /\ InPcs({"laneBlock"}) = Cardinality(L) /\ InPcs({"left"}) = Cardinality(G)
  BY DEF InPcs
<1>5. A \subseteq Threads /\ L \subseteq Threads
  OBVIOUS
<1> HIDE DEF A, L, G
<1>6. IsFiniteSet(A) /\ IsFiniteSet(L)
  BY <1>3, <1>5, FS_Subset
<1>7. Cardinality(A) \in Nat /\ Cardinality(L) \in Nat /\ Cardinality(A \cap L) \in Nat
  BY <1>6, FS_CardinalityType, FS_Intersection
<1>8. N = Cardinality(A) + Cardinality(L) - Cardinality(A \cap L)
  BY <1>2, <1>3, <1>6, FS_Union
<1>9. Cardinality(G) = 0 /\ Cardinality(Woken) = 0
  BY <1>2, FS_EmptySet
<1>10. threads = N - Cardinality(G) /\ parkedReg = Cardinality(A) + Counted(lpc = "poke") - Cardinality(Woken)
  BY <1>4 DEF CountsExact, Woken
<1>11. Counted(lpc = "poke") = 0
  BY DEF Counted
<1>12. threads = N /\ parkedReg = Cardinality(A) /\ seen \in Int /\ seen >= Cardinality(L)
  BY <1>3, <1>4, <1>7, <1>9, <1>10, <1>11 DEF TypeOK
<1> QED
  BY <1>7, <1>8, <1>12

\* A spinner stirs.
LEMMA SpinnerUp ==
  ASSUME TypeOK, Records, Spins, CountsExact, spinners > 0
  PROVE  Up
<1>1. SUFFICES ASSUME ~Up PROVE FALSE
  OBVIOUS
<1>2. \A t \in Threads : pc[t] \in {"recheckSock", "block", "laneBlock"}
  BY <1>1, AllSleep
<1>3. Spinning = {} /\ {t \in Threads : pc[t] \in {"unannounce"}} = {}
  BY <1>2 DEF Spinning, Spins, SpinOf
<1>4. spinners = Cardinality(Spinning) + InPcs({"unannounce"})
  BY DEF CountsExact, Spinning
<1>5. Cardinality(Spinning) = 0 /\ InPcs({"unannounce"}) = 0
  BY <1>3, FS_EmptySet DEF InPcs
<1> QED
  BY <1>4, <1>5

\* Where no thread has a channel and none stirs, all are parked on the socket.
LEMMA LaneSleeps ==
  ASSUME TypeOK, Records, CountsExact, ~Up, lane.registered = {}
  PROVE  parked = N /\ (lpc # "pokeLane" => wakes = lost)
<1>1. \A t \in Threads : pc[t] = "laneBlock"
  BY AllSleep
<1>2. {t \in Threads : pc[t] \in OnLane} = Threads
  BY <1>1 DEF OnLane
<1>3. parked = N
  BY <1>2, Markers DEF CountsExact, InPcs
<1>4. sock = <<>>
  BY AllSleep
<1>5. Held(sock, "poke") = 0
  <2>1. {i \in DOMAIN sock : sock[i] = "poke"} = {}
    BY <1>4
  <2> QED
    BY <2>1, FS_EmptySet DEF Held
<1>6. lpc # "pokeLane" => Counted(lpc = "pokeLane") = 0
  BY DEF Counted
<1>7. lpc # "pokeLane" => wakes = lost
  BY <1>5, <1>6 DEF CountsExact, TypeOK
<1> QED
  BY <1>3, <1>7

\* One record of the scan: a thread with a channel that sleeps is found.
LEMMA ScanFinds ==
  ASSUME TypeOK, Scan
  PROVE  \E b \in {best, at} :
           /\ best # None => b # None
           /\ (at \in lane.registered /\ pc[at] # "left" /\ state[at] = "parked") => b # None
           /\ at < N => lpc' = "scan" /\ at' = at + 1 /\ best' = b /\ caller' = caller
           /\ ~(at < N) /\ b = None /\ caller = "message" => Over("scan")
           /\ ~(at < N) /\ b = None /\ caller # "message" => lpc' = "readParked" /\ caller' = caller
           /\ ~(at < N) /\ b # None => lpc' = "cas" /\ best' = b /\ caller' = caller
<1>1. PICK b \in IF at \in lane.registered /\ pc[at] # "left" /\ state[at] = "parked"
                 THEN IF best = None THEN {at} ELSE {best, at}
                 ELSE {best} :
        IF at < N
        THEN at' = at + 1 /\ best' = b /\ UNCHANGED <<lpc, caller, seen>>
        ELSE IF b = None /\ caller = "message" THEN Over("scan")
        ELSE /\ lpc' = IF b = None THEN "readParked" ELSE "cas"
             /\ best' = b /\ UNCHANGED <<caller, at, seen>>
  BY DEF Scan
<1>2. at # None
  BY Markers DEF TypeOK, Threads
<1>3. /\ b \in {best, at} /\ (best # None => b # None)
      /\ (at \in lane.registered /\ pc[at] # "left" /\ state[at] = "parked") => b # None
  BY <1>1, <1>2
<1>4. lpc = "scan"
  BY DEF Scan
<1> QED
  BY <1>1, <1>3, <1>4

\* The loop's step leaves a job behind one that stirs, or its search where it
\* will find one.
LEMMA JobUpLoop ==
  ASSUME TypeOK, TypeOK', Records, Spins, CountsExact, Search0, JobUp, LoopStep \/ Environment
  PROVE  JobUp'
<1>1. UNCHANGED <<pc, lane, parked, spinners, threads>>
  BY LoopKeeps
<1>2. SUFFICES ASSUME ring' # <<>>, ~Stopping', lane.registered = {} => lost' < N
               PROVE  Up' \/ (caller' # "message" /\ Seeking')
  BY <1>1 DEF JobUp
<1>3. best # None => best \in lane.registered
  BY DEF Records, Named
<1>4. /\ lane.registered \subseteq Threads /\ at \in 1 .. N /\ N \in Nat /\ N >= 1 /\ Threads = 1 .. N
      /\ None \notin Threads /\ lost \in Nat
  BY LaneType, Markers DEF TypeOK, Threads
<1> USE DEF rings, chans, words, recs, locals, loop, Search
<1> DEFINE Still == UNCHANGED <<state, own, sock, ring, lost>> /\ ~Stopping
           Held0 == Up \/ (caller # "message" /\ Seeking)
<1>5. ASSUME Still PROVE Held0 /\ (Up => Up')
  <2>1. Held0
    BY <1>2, <1>5 DEF JobUp
  <2>2. Up => Up'
    BY <1>1, <1>5, UpStays
  <2> QED
    BY <2>1, <2>2
<1>6. ASSUME Still, lpc \notin {"spinners", "parked", "cas", "idle", "scan", "readParked", "pokeLane", "credit"}
      PROVE  Up'
  BY <1>5, <1>6 DEF Seeking
<1>7. CASE ReadChannel \/ LookPasses \/ ReadHead \/ RaiseFlag \/ RecheckDone
  <2>1. Still /\ lpc \notin {"spinners", "parked", "cas", "idle", "scan", "readParked", "pokeLane", "credit"}
    BY <1>7 DEF history, Stopping, LGo, ReadChannel, LookPasses, ReadHead, RaiseFlag, RecheckDone
  <2> QED
    BY <1>6, <2>1
<1>8. CASE WokenByPool \/ WokenByTime \/ LowerFlag \/ WokenByClient
  <2>1. Still /\ lpc \notin {"spinners", "parked", "cas", "idle", "scan", "readParked", "pokeLane", "credit"}
    BY <1>8 DEF history, Stopping, LGo, WokenByPool, WokenByTime, LowerFlag, WokenByClient
  <2> QED
    BY <1>6, <2>1
<1>9. CASE Drain("top", "events") \/ Drain("chan", "events") \/ Drain("events", "look")
  <2>1. Still /\ lpc \notin {"spinners", "parked", "cas", "idle", "scan", "readParked", "pokeLane", "credit"}
    BY <1>9 DEF history, Stopping, LGo, Drain
  <2> QED
    BY <1>6, <2>1
<1>10. CASE StopLoop \/ PillOwn \/ PillLane
  BY <1>2, <1>10 DEF Stopping, LGo, StopLoop, PillOwn, PillLane
<1>11. CASE \E s \in Slots : Submit(s)
  <2>1. lpc' \in {"scan", "spinners"} /\ caller' = "submit" /\ at' = 1
    BY <1>11 DEF LGo, NewSearch, Submit
  <2>2. Passed' = {}
    BY <1>1, <1>4, <2>1 DEF Passed
  <2> QED
    BY <2>1, <2>2 DEF Seeking
<1>12. CASE LookAged
  <2>1. lpc' = "scan" /\ caller' = "look" /\ at' = 1
    BY <1>12 DEF LGo, NewSearch, LookAged
  <2>2. Passed' = {}
    BY <1>1, <1>4, <2>1 DEF Passed
  <2> QED
    BY <2>1, <2>2 DEF Seeking
<1>13. CASE SendMessage
  <2>1. UNCHANGED <<state, own, ring, lost>> /\ lpc = "events"
    BY <1>13 DEF LGo, SendMessage
  <2>2. sock # <<>> => sock' # <<>>
    BY <1>13, SentBehind DEF SendMessage
  <2>3. Up
    BY <1>2, <2>1 DEF JobUp, Seeking, Stopping
  <2> QED
    BY <1>1, <2>1, <2>2, <2>3, UpStays
<1>14. CASE Poke
  <2>1. /\ UNCHANGED <<state, sock, ring, lost>> /\ lpc = "poke"
        /\ own' = [own EXCEPT ![best] = Append(@, "poke")]
    BY <1>14 DEF history, LGo, Over, Poke
  <2>2. Up
    BY <1>2, <2>1 DEF JobUp, Seeking, Stopping
  <2>3. best \in Threads /\ own[best] \in Seq({"poke", "pill"})
    BY <1>3, <1>4, <2>1 DEF Records, Named, TypeOK
  <2>4. Append(own[best], "poke") # <<>>
    BY <2>3, Appended
  <2>5. \A u \in Threads : own[u] # <<>> => own'[u] # <<>>
    BY <2>1, <2>3, <2>4 DEF TypeOK
  <2> QED
    BY <1>1, <2>1, <2>2, <2>5, UpStays
<1>15. CASE ReadSpinners
  <2>1. Still /\ lpc = "spinners"
    BY <1>15 DEF history, Stopping, LGo, Step, Over, ReadSpinners
  <2>2. CASE spinners > 0
    BY <1>5, <2>1, <2>2, SpinnerUp
  <2>3. CASE ~(spinners > 0)
    <3>1. lpc' = "parked" /\ caller' = caller
      BY <1>15, <2>3 DEF LGo, Step, ReadSpinners
    <3> QED
      BY <1>5, <2>1, <3>1 DEF Seeking
  <2> QED
    BY <2>2, <2>3
<1>16. CASE ReadParked
  <2>1. Still /\ lpc' = "idle" /\ caller' = caller /\ seen' = parked
    BY <1>16 DEF history, Stopping, LGo, Step, ReadParked
  <2>2. parked = InPcs(OnLane) /\ InPcs({"laneBlock"})' = InPcs({"laneBlock"})
    BY <1>1 DEF CountsExact, InPcs
  <2>3. InPcs({"laneBlock"}) <= InPcs(OnLane) /\ InPcs({"laneBlock"}) \in Nat /\ InPcs(OnLane) \in Nat
    <3> DEFINE A == {t \in Threads : pc[t] \in {"laneBlock"}}
               B == {t \in Threads : pc[t] \in OnLane}
    <3>1. A \subseteq B /\ B \subseteq Threads
      BY DEF OnLane
    <3>2. InPcs({"laneBlock"}) = Cardinality(A) /\ InPcs(OnLane) = Cardinality(B)
      BY DEF InPcs
    <3> HIDE DEF A, B
    <3>3. IsFiniteSet(B) /\ IsFiniteSet(A)
      BY <3>1, Markers, FS_Subset
    <3> QED
      BY <3>1, <3>2, <3>3, FS_Subset, FS_CardinalityType
  <2>4. seen' >= InPcs({"laneBlock"})'
    BY <2>1, <2>2, <2>3
  <2> QED
    BY <1>5, <2>1, <2>4 DEF Seeking
<1>17. CASE ReadIdle
  <2>1. Still /\ lpc = "idle"
    BY <1>17 DEF history, Stopping, LGo, Step, Over, ReadIdle
  <2>2. CASE threads <= seen + parkedReg
    <3>1. lpc' = "scan" /\ caller' = caller /\ at' = at
      BY <1>17, <2>2 DEF LGo, Step, ReadIdle
    <3>2. at' = 1
      BY <2>1, <3>1 DEF Search0
    <3>3. Passed' = {}
      BY <1>1, <1>4, <3>2 DEF Passed
    <3> QED
      BY <1>5, <2>1, <3>1, <3>3 DEF Seeking
  <2>3. CASE ~(threads <= seen + parkedReg)
    BY <1>5, <2>1, <2>3, SleepCounted DEF Seeking
  <2> QED
    BY <2>2, <2>3
<1>18. CASE Scan
  <2>1. Still /\ lpc = "scan"
    BY <1>18, ScanFacts DEF history, Stopping
  <2>2. CASE Up
    BY <1>5, <2>1, <2>2
  <2>3. CASE ~Up
    <3>1. caller # "message" /\ (best # None \/ Passed = {})
      BY <1>5, <2>1, <2>3 DEF Seeking
    <3>2. at \in lane.registered => pc[at] # "left" /\ state[at] = "parked"
      BY <2>3, AllSleep
    <3>3. PICK b \in {best, at} :
           /\ best # None => b # None
           /\ (at \in lane.registered /\ pc[at] # "left" /\ state[at] = "parked") => b # None
           /\ at < N => lpc' = "scan" /\ at' = at + 1 /\ best' = b /\ caller' = caller
           /\ ~(at < N) /\ b = None /\ caller = "message" => Over("scan")
           /\ ~(at < N) /\ b = None /\ caller # "message" => lpc' = "readParked" /\ caller' = caller
           /\ ~(at < N) /\ b # None => lpc' = "cas" /\ best' = b /\ caller' = caller
      BY <1>18, ScanFinds
    <3>4. b = None => Passed = {} /\ at \notin lane.registered
      BY <3>1, <3>2, <3>3
    <3>5. CASE at < N
      <4>1. Passed = {} /\ at \notin lane.registered => Passed' = {}
        BY <1>1, <1>4, <3>3, <3>5 DEF Passed
      <4> QED
        BY <3>1, <3>3, <3>4, <3>5, <4>1 DEF Seeking
    <3>6. CASE ~(at < N) /\ b # None
      BY <3>1, <3>3, <3>6 DEF Seeking
    <3>7. CASE ~(at < N) /\ b = None
      <4>1. \A u \in lane.registered : u \in 1 .. N /\ (u < at \/ u = at)
        BY <1>4, <3>7
      <4>2. lane.registered = {}
        BY <3>4, <3>7, <4>1 DEF Passed
      <4> QED
        BY <1>1, <3>1, <3>3, <3>7, <4>2 DEF Seeking
    <3> QED
      BY <3>5, <3>6, <3>7
  <2> QED
    BY <2>2, <2>3
<1>19. CASE Name
  <2>1. lpc = "cas" /\ UNCHANGED <<own, sock, ring, lost>> /\ best \in lane.registered /\ best \in Threads
    BY <1>3, <1>4, <1>19 DEF history, LGo, Step, Over, Name, Records, Named
  <2>2. state'[best] # "parked"
    BY <1>19, <2>1 DEF TypeOK, Name
  <2>3. ASSUME NEW u \in Threads, u = best PROVE Stirs(u)'
    BY <1>1, <2>1, <2>2, <2>3 DEF Stirs
  <2>4. \E u \in Threads : Stirs(u)'
    BY <2>1, <2>3
  <2> QED
    BY <2>4 DEF Up
<1>20. CASE ReadLaneParked
  <2>1. Still /\ lpc = "readParked" /\ lpc' = "credit" /\ caller' = caller /\ seen' = parked
    BY <1>20 DEF history, Stopping, LGo, Step, ReadLaneParked
  <2>2. CASE Up
    BY <1>5, <2>1, <2>2
  <2>3. CASE ~Up
    <3>1. lane.registered = {} /\ caller # "message"
      BY <1>5, <2>1, <2>3 DEF Seeking
    <3>2. parked = N
      BY <2>3, <3>1, LaneSleeps
    <3> QED
      BY <1>1, <2>1, <3>1, <3>2 DEF Seeking
  <2> QED
    BY <2>2, <2>3
<1>21. CASE Credit
  <2>1. Still /\ lpc = "credit"
    BY <1>21 DEF history, Stopping, LGo, Step, Over, Credit
  <2>2. CASE Up
    BY <1>5, <2>1, <2>2
  <2>3. CASE ~Up
    <3>1. lane.registered = {} /\ caller # "message" /\ seen = N
      BY <1>5, <2>1, <2>3 DEF Seeking
    <3>2. wakes = lost /\ lost < N
      BY <1>2, <2>1, <2>3, <3>1, LaneSleeps
    <3>3. lpc' = "pokeLane" /\ caller' = caller
      BY <1>4, <1>21, <3>1, <3>2 DEF LGo, Step, Credit
    <3> QED
      BY <1>1, <3>1, <3>3 DEF Seeking
  <2> QED
    BY <2>2, <2>3
<1>22. CASE PokeLane
  <2>1. /\ UNCHANGED <<state, own, ring>> /\ lpc = "pokeLane" /\ lost' \in {lost, lost + 1}
        /\ IF Len(sock) < SockCap THEN sock' = Append(sock, "poke") ELSE sock' = sock
    BY <1>22 DEF LGo, Over, PokeLane
  <2>2. sock # <<>> => sock' # <<>>
    BY <2>1, SentBehind
  <2>3. lane.registered = {} => lost < N
    BY <1>2, <1>4, <2>1
  <2>4. Up \/ (caller # "message" /\ lane.registered = {})
    BY <1>2, <2>1, <2>3 DEF JobUp, Seeking, Stopping
  <2>5. CASE Up
    BY <1>1, <2>1, <2>2, <2>5, UpStays
  <2>6. CASE ~Up
    <3>1. lane.registered = {} /\ sock = <<>>
      BY <2>4, <2>6, AllSleep
    <3>2. Len(sock) < SockCap
      BY <3>1, Markers
    <3>3. sock' # <<>>
      BY <2>1, <3>2, SentBehind
    <3> QED
      BY <1>1, <3>1, <3>3 DEF Up
  <2> QED
    BY <2>5, <2>6
<1> QED
  BY <1>7, <1>8, <1>9, <1>10, <1>11, <1>12, <1>13, <1>14, <1>15, <1>16, <1>17, <1>18, <1>19,
     <1>20, <1>21, <1>22 DEF LoopStep, Environment

\* The same of a message, and of its sender's search.
LEMMA MessageUpLoop ==
  ASSUME TypeOK, TypeOK', Records, Search0, MessageUp, LoopStep \/ Environment
  PROVE  MessageUp'
<1>1. UNCHANGED <<pc, lane>>
  BY LoopKeeps
<1> DEFINE Heard    == \E u \in Threads : Listens(u)
           Offering == /\ caller = "message"
                       /\ lpc = "cas" \/ (lpc = "scan" /\ (best # None \/ at = 1))
<1>2. SUFFICES ASSUME sock' # <<>>, ~Stopping', lane.registered = Threads
               PROVE  Heard' \/ Offering'
  BY <1>1 DEF MessageUp
<1>3. best # None => best \in Threads
  BY DEF TypeOK
<1>4. at \in 1 .. N /\ N \in Nat /\ N >= 1 /\ Threads = 1 .. N /\ None \notin Threads
  BY Markers DEF TypeOK, Threads
<1> USE DEF chans, recs, loop, Search
<1> DEFINE Still == UNCHANGED <<state, own, sock>> /\ ~Stopping
<1>5. ASSUME Still PROVE (Heard \/ Offering) /\ (Heard => Heard')
  <2>1. Heard \/ Offering
    BY <1>2, <1>5 DEF MessageUp
  <2>2. Heard => Heard'
    BY <1>1, <1>5, UpStays
  <2> QED
    BY <2>1, <2>2
<1>6. ASSUME Still, lpc \notin {"cas", "scan"} PROVE Heard'
  BY <1>5, <1>6
<1>7. CASE ReadChannel \/ LookPasses \/ ReadHead \/ RaiseFlag \/ RecheckDone \/ LookAged
  <2>1. Still /\ lpc \notin {"cas", "scan"}
    BY <1>7 DEF Stopping, LGo, ReadChannel, LookPasses, ReadHead, RaiseFlag, RecheckDone, LookAged
  <2> QED
    BY <1>6, <2>1
<1>8. CASE WokenByPool \/ WokenByTime \/ LowerFlag \/ WokenByClient
  <2>1. Still /\ lpc \notin {"cas", "scan"}
    BY <1>8 DEF Stopping, LGo, WokenByPool, WokenByTime, LowerFlag, WokenByClient
  <2> QED
    BY <1>6, <2>1
<1>9. CASE Drain("top", "events") \/ Drain("chan", "events") \/ Drain("events", "look")
  <2>1. Still /\ lpc \notin {"cas", "scan"}
    BY <1>9 DEF Stopping, LGo, Drain
  <2> QED
    BY <1>6, <2>1
<1>10. CASE StopLoop \/ PillOwn \/ PillLane
  BY <1>2, <1>10 DEF Stopping, LGo, StopLoop, PillOwn, PillLane
<1>11. CASE \E s \in Slots : Submit(s)
  <2>1. Still /\ lpc \notin {"cas", "scan"}
    BY <1>11 DEF Stopping, LGo, Submit
  <2> QED
    BY <1>6, <2>1
<1>12. CASE ReadSpinners \/ ReadParked \/ ReadIdle \/ ReadLaneParked \/ Credit
  <2>1. Still /\ lpc \notin {"cas", "scan"}
    BY <1>12 DEF Stopping, LGo, Step, Over, ReadSpinners, ReadParked, ReadIdle, ReadLaneParked,
       Credit
  <2> QED
    BY <1>6, <2>1
<1>13. CASE PokeLane
  BY <1>2, <1>13 DEF Search0, LGo, Over, PokeLane
<1>14. CASE SendMessage
  <2>1. CASE Len(sock) < SockCap
    BY <1>14, <2>1 DEF LGo, NewSearch, SendMessage
  <2>2. CASE ~(Len(sock) < SockCap)
    <3>1. Still /\ lpc \notin {"cas", "scan"}
      BY <1>14, <2>2 DEF Stopping, LGo, SendMessage
    <3> QED
      BY <1>6, <3>1
  <2> QED
    BY <2>1, <2>2
<1>15. CASE Poke
  <2>1. /\ UNCHANGED <<state, sock>> /\ lpc = "poke"
        /\ own' = [own EXCEPT ![best] = Append(@, "poke")]
    BY <1>15 DEF LGo, Over, Poke
  <2>2. Heard
    BY <1>2, <2>1 DEF MessageUp, Stopping
  <2>3. best \in Threads /\ own[best] \in Seq({"poke", "pill"})
    BY <1>3, <2>1 DEF Records, Named, TypeOK
  <2>4. Append(own[best], "poke") # <<>>
    BY <2>3, Appended
  <2>5. \A u \in Threads : own[u] # <<>> => own'[u] # <<>>
    BY <2>1, <2>3, <2>4 DEF TypeOK
  <2> QED
    BY <1>1, <2>1, <2>2, <2>5, UpStays
<1>16. CASE Name
  <2>1. lpc = "cas" /\ best \in Threads
    BY <1>3, <1>16 DEF LGo, Step, Over, Name, Records, Named
  <2>2. state'[best] # "parked"
    BY <1>16, <2>1 DEF TypeOK, Name
  <2>3. ASSUME NEW u \in Threads, u = best PROVE Listens(u)'
    BY <2>2, <2>3 DEF Listens
  <2> QED
    BY <2>1, <2>3
<1>17. CASE Scan
  <2>1. Still /\ lpc = "scan"
    BY <1>17, ScanFacts DEF Stopping
  <2>2. CASE Heard
    BY <1>5, <2>1, <2>2
  <2>3. CASE ~Heard
    <3>1. caller = "message" /\ (best # None \/ at = 1)
      BY <1>5, <2>1, <2>3
    <3>2. pc[at] # "left" /\ state[at] = "parked" /\ at \in lane.registered
      BY <1>2, <1>4, <2>3 DEF Listens
    <3>3. PICK b \in {best, at} :
           /\ best # None => b # None
           /\ (at \in lane.registered /\ pc[at] # "left" /\ state[at] = "parked") => b # None
           /\ at < N => lpc' = "scan" /\ at' = at + 1 /\ best' = b /\ caller' = caller
           /\ ~(at < N) /\ b = None /\ caller = "message" => Over("scan")
           /\ ~(at < N) /\ b = None /\ caller # "message" => lpc' = "readParked" /\ caller' = caller
           /\ ~(at < N) /\ b # None => lpc' = "cas" /\ best' = b /\ caller' = caller
      BY <1>17, ScanFinds
    <3> QED
      BY <3>1, <3>2, <3>3
  <2> QED
    BY <2>2, <2>3
<1> QED
  BY <1>7, <1>8, <1>9, <1>10, <1>11, <1>12, <1>13, <1>14, <1>15, <1>16, <1>17 DEF LoopStep,
     Environment

\* Under the invariant, what is queued has a thread awake.
LEMMA UpAwake ==
  ASSUME TypeOK, Records, Stops, JobUp, MessageUp
  PROVE  SomeoneAwake
<1>1. SUFFICES ASSUME ring # <<>> \/ sock # <<>>, lane.registered = {} => lost < N,
                      lpc \notin Searching, ~Stopping
               PROVE  \E t \in Threads : ~Asleep(t)
  BY DEF SomeoneAwake, Stopping
<1>2. ASSUME NEW t \in Threads, own[t] = <<>>
      PROVE  ~(pc[t] = "ownPoke") /\ (pc[t] = "block" => state[t] = "parked")
  <2>1. ~Owed(t)
    BY <1>2, Channel DEF Records, RecordOf
  <2>2. state[t] # "woken" \/ pc[t] = "woke"
    BY <1>1, <2>1 DEF Owed, Searching
  <2>3. RecordOf(t) /\ state[t] \in {"running", "parked", "woken"}
    BY DEF Records, TypeOK
  <2> QED
    BY <2>2, <2>3 DEF RecordOf, Marked
<1>3. \A t \in Threads : /\ pc[t] # "left"
                         /\ pc[t] \in {"block", "ownPoke"} => t \in lane.registered
                         /\ pc[t] = "laneBlock" => t \notin lane.registered
  BY <1>1 DEF Stops, Going, Records, RecordOf, Announced, OnLane
<1>4. CASE \E t \in Threads \ lane.registered : sock # <<>>
  BY <1>3, <1>4 DEF Asleep
<1>5. CASE ring # <<>> /\ ~(lane.registered = {} /\ sock # <<>>)
  <2>1. Up
    BY <1>1, <1>5 DEF JobUp, Seeking, Searching
  <2>2. PICK t \in Threads : Stirs(t)
    BY <1>5, <2>1 DEF Up
  <2>3. ~Asleep(t)
    BY <1>2, <1>3, <2>2 DEF Stirs, Asleep
  <2> QED
    BY <2>3
<1>6. CASE sock # <<>> /\ lane.registered = Threads
  <2>1. \E t \in Threads : Listens(t)
    BY <1>1, <1>6 DEF MessageUp, Searching
  <2>2. PICK t \in Threads : Listens(t)
    BY <2>1
  <2>3. ~Asleep(t)
    BY <1>2, <1>3, <1>6, <2>2 DEF Listens, Asleep
  <2> QED
    BY <2>3
<1>7. lane.registered \subseteq Threads /\ Threads # {}
  BY LaneType, Markers DEF Threads
<1> QED
  BY <1>1, <1>4, <1>5, <1>6, <1>7

-----------------------------------------------------------------------------
(* The invariant, and what follows.                                        *)

\* The types hold at the start.
LEMMA InitTypes == Init => TypeOK
<1> SUFFICES ASSUME Init PROVE TypeOK
  OBVIOUS
<1>1. lane \in Deployments /\ DOMAIN lane.stuck \subseteq Threads /\ lane.stuck \in [DOMAIN lane.stuck -> Slots]
  BY PoolAssumption DEF Init, Lanes
<1>2. /\ ring \in Seq(Slots) /\ moved \in BOOLEAN /\ headTaken \in BOOLEAN
      /\ doneRing \in Seq(Slots \X BOOLEAN) /\ doneChan \in BOOLEAN
      /\ sock \in Seq({"msg", "poke", "pill"}) /\ Len(sock) <= SockCap
  <2>1. SockCap \in Nat
    BY Markers
  <2>2. ring = <<>> /\ doneRing = <<>> /\ sock = <<>>
    BY DEF Init
  <2>3. moved \in BOOLEAN /\ headTaken \in BOOLEAN /\ doneChan \in BOOLEAN
    BY DEF Init
  <2>4. ring \in Seq(Slots) /\ doneRing \in Seq(Slots \X BOOLEAN)
    BY <2>2, EmptySeq
  <2>5. sock \in Seq({"msg", "poke", "pill"}) /\ Len(sock) = 0
    BY <2>2, EmptySeq
  <2> QED
    BY <2>1, <2>3, <2>4, <2>5
<1>3. own \in [Threads -> Seq({"poke", "pill"})]
  BY EmptySeq DEF Init
<1>4. /\ loopParked \in BOOLEAN /\ pollDue \in BOOLEAN
      /\ parked \in Int /\ wakes \in Int /\ spinners \in Int /\ threads \in Int /\ parkedReg \in Int
  BY Markers DEF Init
<1>5. /\ state \in [Threads -> {"running", "parked", "woken"}] /\ pill \in [Threads -> BOOLEAN]
      /\ pc \in [Threads -> ThreadPcs] /\ mode \in [Threads -> {"new", "try", "tried", "next", "spin"}]
      /\ spinning \in [Threads -> BOOLEAN]
  BY DEF Init, ThreadPcs
<1>6. job \in [Threads -> Slots \cup {None, "msg", "stop"}]
  BY <1>1 DEF Init
<1>7. /\ lpc \in LoopPcs /\ caller \in {"submit", "message", "look"}
      /\ at \in 1 .. N /\ best \in Threads \cup {None} /\ seen \in Int
      /\ capped \in BOOLEAN /\ sent \in 0 .. MaxMessages /\ lost \in Nat
  <2>1. 1 \in 1 .. N /\ MaxMessages \in Nat
    BY Markers
  <2>2. lpc \in LoopPcs /\ caller \in {"submit", "message", "look"}
    BY DEF Init, LoopPcs
  <2>3. at \in 1 .. N /\ seen \in Int /\ sent \in 0 .. MaxMessages /\ lost \in Nat
    BY <2>1 DEF Init
  <2>4. best \in Threads \cup {None} /\ capped \in BOOLEAN
    BY DEF Init
  <2> QED
    BY <2>2, <2>3, <2>4
<1> QED
  BY <1>1, <1>2, <1>3, <1>4, <1>5, <1>6, <1>7 DEF TypeOK

\* At the start every word is at its first value.
LEMMA InitCounts == Init => CountsExact
<1> SUFFICES ASSUME Init PROVE CountsExact
  OBVIOUS
<1>1. \A t \in Threads : pc[t] \in {"view", "call"} /\ state[t] = "running" /\ ~spinning[t]
  BY DEF Init
<1>2. /\ {t \in Threads : pc[t] \in Announced} = {} /\ {t \in Threads : pc[t] \in OnLane} = {}
      /\ {t \in Threads : pc[t] \in {"unannounce"}} = {} /\ {t \in Threads : pc[t] \in {"left"}} = {}
      /\ {t \in Threads : state[t] = "woken"} = {} /\ {t \in Threads : spinning[t]} = {}
  BY <1>1 DEF Announced, OnLane
<1>3. {i \in DOMAIN sock : sock[i] = "poke"} = {}
  BY DEF Init
<1>4. Cardinality({}) = 0
  BY FS_EmptySet
<1>5. /\ InPcs(Announced) = 0 /\ InPcs(OnLane) = 0 /\ InPcs({"unannounce"}) = 0 /\ InPcs({"left"}) = 0
      /\ Cardinality({t \in Threads : state[t] = "woken"}) = 0
      /\ Cardinality({t \in Threads : spinning[t]}) = 0 /\ Held(sock, "poke") = 0
  BY <1>2, <1>3, <1>4 DEF InPcs, Held
<1>6. Counted(lpc = "poke") = 0 /\ Counted(lpc = "pokeLane") = 0
  BY DEF Init, Counted
<1>7. parked = 0 /\ wakes = 0 /\ spinners = 0 /\ threads = N /\ parkedReg = 0 /\ lost = 0 /\ N \in Nat
  BY Markers DEF Init
<1> QED
  BY <1>5, <1>6, <1>7 DEF CountsExact

\* Every behaviour begins within the invariant.
LEMMA InitInductive == Init => Inductive
<1> SUFFICES ASSUME Init PROVE Inductive
  OBVIOUS
<1>1. TypeOK /\ CountsExact
  BY InitTypes, InitCounts
<1>2. /\ DOMAIN lane.stuck \subseteq Threads /\ lane.stuck \in [DOMAIN lane.stuck -> Slots]
      /\ \A t, u \in DOMAIN lane.stuck : t # u => lane.stuck[t] # lane.stuck[u]
  BY <1>1, LaneType
<1>3. /\ None \notin Slots /\ None # "msg" /\ None # "stop" /\ None \notin Threads
      /\ "msg" \notin Slots /\ "stop" \notin Slots
  BY Markers
<1>4. \A t \in Threads :
        /\ t \in DOMAIN lane.stuck => pc[t] = "view" /\ job[t] = lane.stuck[t] /\ job[t] \in Slots
        /\ t \notin DOMAIN lane.stuck => pc[t] = "call" /\ job[t] = None
        /\ state[t] = "running" /\ ~pill[t] /\ own[t] = <<>> /\ ~spinning[t]
  BY <1>2 DEF Init
<1>5. ring = <<>> /\ doneRing = <<>> /\ sock = <<>> /\ lpc = "wait" /\ best = None
  BY DEF Init
<1>6. Hands
  BY <1>3, <1>4 DEF Hands, HandOf, EmptyHanded
<1>7. Owners
  <2>1. QueuedOnce /\ FinishedOnce /\ QueuedAlone /\ Cells
    BY <1>5 DEF QueuedOnce, FinishedOnce, QueuedAlone, Cells
  <2>2. HeldOnce
    BY <1>2, <1>3, <1>4 DEF HeldOnce
  <2>3. Claims
    BY <1>4 DEF Claims
  <2> QED
    BY <2>1, <2>2, <2>3 DEF Owners
<1>8. Flag /\ LoopHears
  BY <1>5 DEF Flag, LoopHears
<1>9. Records
  BY <1>3, <1>4, <1>5, Channel DEF Records, RecordOf, Named, Marked, Announced, OnLane, Owed
<1>10. Spins /\ Stops
  BY <1>3, <1>4, <1>5 DEF Spins, SpinOf, Stops, Going, NoPills
<1>11. Search0 /\ JobUp /\ MessageUp
  BY <1>5 DEF Search0, JobUp, MessageUp
<1> QED
  BY <1>1, <1>6, <1>7, <1>8, <1>9, <1>10, <1>11 DEF Inductive

\* A step that changes nothing changes none of the parts.
LEMMA StutterInductive ==
  ASSUME Inductive, UNCHANGED vars
  PROVE  TypeOK' /\ Hands' /\ Records' /\ Stops' /\ CountsExact' /\ JobUp' /\ MessageUp'
<1> USE DEF vars, rings, chans, words, recs, locals, loop, history
<1>1. TypeOK'
  BY DEF Inductive, TypeOK
<1>2. Hands' /\ Stops'
  BY DEF Inductive, Hands, HandOf, Stops, Stopping, Going, NoPills
<1>3. Records'
  BY DEF Inductive, Records, RecordOf, Named, Owed, Pilled, Stopping
<1>4. CountsExact'
  BY DEF Inductive, CountsExact, InPcs
<1>5. JobUp'
  BY DEF Inductive, JobUp, Up, Stirs, Seeking, Passed, InPcs, Stopping
<1>6. MessageUp'
  BY DEF Inductive, MessageUp, Listens, Stopping
<1> QED
  BY <1>1, <1>2, <1>3, <1>4, <1>5, <1>6

\* Every step stays within the invariant.
LEMMA NextInductive == Inductive /\ [Next]_vars => Inductive'
<1> SUFFICES ASSUME Inductive, [Next]_vars PROVE Inductive'
  OBVIOUS
<1>1. /\ TypeOK /\ Hands /\ Owners /\ Flag /\ LoopHears /\ Records /\ Spins /\ Stops
      /\ CountsExact /\ Search0 /\ JobUp /\ MessageUp
  BY DEF Inductive
<1>2. TypeOK' /\ Hands' /\ Records' /\ Stops' /\ CountsExact' /\ JobUp' /\ MessageUp'
  <2>1. ASSUME NEW t \in Threads, ThreadStep(t) \/ ViewEnds(t)
        PROVE  TypeOK' /\ Hands' /\ Records' /\ Stops' /\ CountsExact' /\ JobUp' /\ MessageUp'
    BY <1>1, <2>1, ThreadTypes, HandsStep, RecordsThread, StopsThread, CountsThread,
       JobUpThread, MessageUpThread
  <2>2. ASSUME LoopStep \/ Environment
        PROVE  TypeOK' /\ Hands' /\ Records' /\ Stops' /\ CountsExact' /\ JobUp' /\ MessageUp'
    <3>1. TypeOK'
      BY <1>1, <2>2, LoopTypes
    <3>2. Hands'
      BY <1>1, <2>2, LoopKeeps DEF Hands, HandOf
    <3> QED
      BY <1>1, <2>2, <3>1, <3>2, RecordsLoop, StopsLoop, CountsLoop, JobUpLoop, MessageUpLoop
  <2>3. CASE UNCHANGED vars
    BY <2>3, StutterInductive
  <2> QED
    BY <2>1, <2>2, <2>3 DEF Next
<1>3. Owners' /\ Flag' /\ Spins'
  BY <1>1, <1>2, OwnersStep, FlagStep, SpinsStep
<1>4. LoopHears' /\ Search0'
  BY <1>1, <1>2, HearsStep, Search0Step
<1> QED
  BY <1>2, <1>3, <1>4 DEF Inductive

\* The invariant holds in every state of every lane.
THEOREM Invariance == Spec => []Inductive
<1>1. Init => Inductive
  BY InitInductive
<1>2. Inductive /\ [Next]_vars => Inductive'
  BY NextInductive
<1> QED
  BY <1>1, <1>2, PTL DEF Spec

\* Every variable of the lane has its type.
THEOREM Types == Spec => []TypeOK
<1>1. Inductive => TypeOK
  BY DEF Inductive
<1> QED
  BY <1>1, Invariance, PTL

\* A slot is on the ring, in one thread's hands, on the completion ring or back
\* with the loop, for any number of threads and slots.
THEOREM SlotsHaveOneOwner == Spec => []OneOwner
<1>1. Inductive => OneOwner
  BY OwnersOne DEF Inductive
<1> QED
  BY <1>1, Invariance, PTL

\* The loop never waits with a completion that nobody will announce to it: the
\* flag goes up before its last look and comes down after its wait.
THEOREM CompletionsAreHeard == Spec => []LoopHears
<1>1. Inductive => LoopHears
  BY DEF Inductive
<1> QED
  BY <1>1, Invariance, PTL

\* The words the wake rules read are exact in every state, and no channel holds a
\* wake of an earlier park.
THEOREM WordsAreExact == Spec => []WakesExact
<1>1. Inductive => WakesExact
  BY RecordsNotStale DEF Inductive, WakesExact
<1> QED
  BY <1>1, Invariance, PTL

\* Nothing queued is behind threads that are all asleep once its sender's search
\* is over, whatever the lane's size and whichever threads have channels.
THEOREM QueuedIsSeen == Spec => []SomeoneAwake
<1>1. Inductive => SomeoneAwake
  BY UpAwake DEF Inductive
<1> QED
  BY <1>1, Invariance, PTL
=============================================================================
