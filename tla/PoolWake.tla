------------------------------ MODULE PoolWake ------------------------------
(***************************************************************************)
(* One lane of the handler pool (lightbug_http/offload.mojo): the job      *)
(* ring, the completion ring, and the wakes between the event loop and the *)
(* pool threads under the elastic rules.                                   *)
(*                                                                         *)
(* A thread that finds nothing announces itself parked, looks once more    *)
(* and blocks; the loop pushes, reads the announcements and wakes at most  *)
(* one thread.  The other way round, a thread publishes a completion,      *)
(* reads the loop's flag and pokes only a loop that is about to wait.  One *)
(* step is one access to a shared word, a ring or a channel.  A registered *)
(* thread parks on a channel of its own; one whose channel could not be    *)
(* made parks on the lane's socket.  The thread body is _pool_serve's of   *)
(* mojo_pool.mojo and m0_wsgi's blocking_pool.mojo.                        *)
(*                                                                         *)
(* Time is abstract: a threshold that has run out, a poll that is due and  *)
(* a spin that is over are free choices of the step that would read the    *)
(* clock.                                                                  *)
(***************************************************************************)
EXTENDS Integers, Sequences, FiniteSets

CONSTANTS
  N,             \* the lane's threads, 1..N
  Slots,         \* the connection slots whose requests may be jobs
  None,          \* no job, no thread
  SockCap,       \* datagrams the lane's socket holds
  MaxMessages,   \* bound: WebSocket messages the loop offers the lane
  Keeps,         \* a thread tries for a queued job inside its slice (WSGI's)
  Deployments    \* the lanes a behaviour may begin with

Threads == 1..N

(***************************************************************************)
(* A deployment: the threads that got a wake channel of their own, what    *)
(* counts as a stalled head, the threads already in a view that never      *)
(* returns and the slots whose requests those are, the slots that send      *)
(* requests, whether messages are sent, whether the server is stopped, and *)
(* whether the one second an idle loop waits at most is counted on.        *)
(***************************************************************************)
Lanes == [registered : SUBSET Threads, rule : {"progress", "push", "parallel"},
          stuck : UNION {[T -> Slots] : T \in SUBSET Threads},
           clients : SUBSET Slots, messages : BOOLEAN,
          stops : BOOLEAN, tick : BOOLEAN]

ASSUME PoolAssumption ==
  /\ N \in Nat \ {0}
  /\ IsFiniteSet(Slots)
  /\ None \notin Slots /\ None \notin Threads /\ None \notin {"msg", "stop"}
  /\ Slots \cap {"msg", "stop"} = {}
  /\ SockCap \in Nat \ {0} /\ MaxMessages \in Nat
  /\ Keeps \in BOOLEAN
  /\ Deployments \subseteq Lanes
  \* A slot has one request at a time, so one view.
  /\ \A d \in Deployments : \A t, u \in DOMAIN d.stuck : t # u => d.stuck[t] # d.stuck[u]

VARIABLES
  ring,        \* jobs pushed and not taken, oldest first
  moved,       \* a job was taken since the loop's last look
  sock,        \* the lane's socket: "msg", "poke", "pill"
  own,         \* each thread's channel: "poke", "pill"
  doneRing,    \* completions, as <<slot, published>>
  doneChan,    \* a wake waits on the completion channel
  loopParked, parked, wakes, spinners, threads, parkedReg,   \* the wake words
  pollDue,     \* the lane's poll word is zero
  state,       \* each record's state: "running", "parked", "woken"
  pill,        \* a pill read while the thread held a job
  pc, mode, job, spinning,         \* each thread's next_job
  lpc, caller, at, best, seen,     \* the loop, and its search for a thread to wake
  capped,      \* the loop's wait is bounded by a job's threshold
  headTaken,   \* a job was taken since the loop, about to wait, read the ring's head
  lane,        \* the deployment
  sent,        \* history: messages offered so far
  lost         \* history: wakes a full socket dropped

rings  == <<ring, moved, headTaken, doneRing, doneChan>>
chans  == <<sock, own>>
words  == <<loopParked, parked, wakes, spinners, threads, parkedReg, pollDue>>
recs   == <<state, pill, lane>>
locals == <<pc, mode, job, spinning>>
history == <<sent, lost>>
loop   == <<lpc, caller, at, best, seen, capped, history>>
vars   == <<rings, chans, words, recs, locals, loop>>

Searching == {"spinners", "parked", "idle", "scan", "cas", "poke",
              "readParked", "credit", "pokeLane"}
LoopPcs   == {"top", "events", "chan", "look", "wait", "bound", "recheck",
              "blocked", "unpark", "pill", "lanePill", "over"} \cup Searching
\* Between the announcement's count and the end of the park, on an own channel.
Announced == {"recheckRing", "recheckSock", "block", "woke", "uncount",
              "unpark", "uncountJob", "ownPoke"}
OnLane    == {"laneRecheck", "laneBlock", "laneUnpark"}
ThreadPcs == {"call", "look", "own", "sock", "pop", "announce", "unannounce",
              "giveUp", "dropSpin", "park", "count", "again", "view",
              "publish", "readFlag", "pokeLoop", "leave", "left"} \cup Announced \cup OnLane

-----------------------------------------------------------------------------
(* What a job is, and where it goes.                                       *)

Queued    == {ring[i] : i \in DOMAIN ring}
Finished  == {doneRing[i][1] : i \in DOMAIN doneRing}
InHand    == {job[t] : t \in Threads} \cap Slots
AtLoop(s) == s \notin Queued \cup InHand \cup Finished

\* Where a thread goes with what next_job returned.
Serve(j) == CASE j = "stop" -> "leave" [] OTHER -> "view"

\* The head of the completion ring is published: `is_empty` is false.
DonePending == doneRing # <<>> /\ Head(doneRing)[2]
Unpublished == {i \in DOMAIN doneRing : ~doneRing[i][2]}
\* What a drain leaves: the completions from the first unpublished one on.
Undrained ==
  IF Unpublished = {} THEN <<>>
  ELSE SubSeq(doneRing, CHOOSE i \in Unpublished : \A k \in Unpublished : i <= k,
              Len(doneRing))

-----------------------------------------------------------------------------
(* A pool thread in next_job and try_next_job: the looks.                  *)

Go(t, from, to) == pc[t] = from /\ pc' = [pc EXCEPT ![t] = to]

\* Leaves a look with j in hand, giving up the lane's spin first if it has it.
Take(t, j) ==
  /\ job' = [job EXCEPT ![t] = j]
  /\ mode' = [mode EXCEPT ![t] = "new"]
  /\ pc' = [pc EXCEPT ![t] = IF spinning[t] THEN "dropSpin" ELSE Serve(j)]

PopRing ==
  /\ ring # <<>>
  /\ ring' = Tail(ring) /\ moved' = TRUE /\ headTaken' = (lpc = "bound")

\* A pill read while a job was in hand is answered at the next call.
Call(t) ==
  /\ pc[t] = "call"
  /\ IF pill[t]
     THEN /\ pc' = [pc EXCEPT ![t] = "leave"]
          /\ job' = [job EXCEPT ![t] = "stop"]
          /\ UNCHANGED mode
     ELSE /\ pc' = [pc EXCEPT ![t] = "look"]
          /\ \E m \in IF Keeps /\ mode[t] = "new" THEN {"try", "next"} ELSE {"next"} :
               mode' = [mode EXCEPT ![t] = m]
          /\ UNCHANGED job
  /\ UNCHANGED <<rings, chans, words, recs, spinning, loop>>

LookPolls(t) ==
  /\ Go(t, "look", IF t \in lane.registered THEN "own" ELSE "sock")
  /\ pollDue' = FALSE
  /\ UNCHANGED <<rings, chans, loopParked, parked, wakes, spinners, threads, parkedReg,
                 recs, mode, job, spinning, loop>>

LookSkips(t) ==
  /\ Go(t, "look", "pop") /\ ~pollDue
  /\ UNCHANGED <<rings, chans, words, recs, mode, job, spinning, loop>>

PollOwn(t) ==
  /\ pc[t] = "own"
  /\ own' = [own EXCEPT ![t] = IF @ = <<>> THEN @ ELSE Tail(@)]
  /\ IF own[t] # <<>> /\ Head(own[t]) = "pill" THEN Take(t, "stop")
     ELSE pc' = [pc EXCEPT ![t] = "sock"] /\ UNCHANGED <<job, mode>>
  /\ UNCHANGED <<rings, sock, words, recs, spinning, loop>>

\* One datagram off the lane's socket, if there is one: a wake is received as
\* nothing is, and its credit is returned.
Received ==
  IF sock = <<>> \/ Head(sock) = "poke" THEN None
  ELSE IF Head(sock) = "pill" THEN "stop" ELSE "msg"
RecvSock ==
  /\ sock' = IF sock = <<>> THEN sock ELSE Tail(sock)
  /\ wakes' = IF sock # <<>> /\ Head(sock) = "poke" THEN wakes - 1 ELSE wakes

PollSock(t) ==
  /\ pc[t] = "sock" /\ RecvSock
  /\ IF Received # None THEN Take(t, Received)
     ELSE pc' = [pc EXCEPT ![t] = "pop"] /\ UNCHANGED <<job, mode>>
  /\ UNCHANGED <<rings, own, loopParked, parked, spinners, threads, parkedReg, pollDue,
                 recs, spinning, loop>>

Pop(t) ==
  /\ pc[t] = "pop"
  /\ PopRing /\ Take(t, Head(ring))
  /\ UNCHANGED <<doneRing, doneChan, chans, words, recs, spinning, loop>>

\* Nothing: try_next_job returns, a fresh next_job announces its spin, and a
\* spin goes on.
PopNothing(t) ==
  /\ ring = <<>>
  /\ Go(t, "pop", CASE mode[t] = "try"  -> "call"
                    [] mode[t] = "next" -> "announce"
                    [] OTHER            -> "look")
  /\ mode' = [mode EXCEPT ![t] = IF @ = "try" THEN "tried" ELSE @]
  /\ UNCHANGED <<rings, chans, words, recs, job, spinning, loop>>

\* The spin's time is over.
SpinOver(t) ==
  /\ ring = <<>> /\ mode[t] = "spin"
  /\ Go(t, "pop", "giveUp")
  /\ UNCHANGED <<rings, chans, words, recs, mode, job, spinning, loop>>

\* One idle spinner per lane: a second one takes its count back and parks.
Announce(t) ==
  /\ Go(t, "announce", IF spinners = 0 THEN "look" ELSE "unannounce")
  /\ spinners' = spinners + 1
  /\ spinning' = [spinning EXCEPT ![t] = spinners = 0]
  /\ mode' = [mode EXCEPT ![t] = "spin"]
  /\ UNCHANGED <<rings, chans, loopParked, parked, wakes, threads, parkedReg, pollDue,
                 recs, job, loop>>

\* The spin is given up with something in hand, or before the park.
LeaveSpin(t) ==
  /\ \/ Go(t, "unannounce", "park")
     \/ Go(t, "giveUp", "park")
     \/ Go(t, "dropSpin", Serve(job[t]))
  /\ spinners' = spinners - 1
  /\ spinning' = [spinning EXCEPT ![t] = FALSE]
  /\ UNCHANGED <<rings, chans, loopParked, parked, wakes, threads, parkedReg, pollDue,
                 recs, mode, job, loop>>

-----------------------------------------------------------------------------
(* _park_on_own and _leave_park: announce, look once more, block.          *)

ParkOwn(t) ==
  /\ t \in lane.registered /\ Go(t, "park", "count")
  /\ state' = [state EXCEPT ![t] = "parked"]
  /\ mode' = [mode EXCEPT ![t] = "new"]
  /\ UNCHANGED <<rings, chans, words, pill, lane, job, spinning, loop>>

CountOwn(t) ==
  /\ Go(t, "count", "recheckRing")
  /\ parkedReg' = parkedReg + 1
  /\ UNCHANGED <<rings, chans, loopParked, parked, wakes, spinners, threads, pollDue,
                 recs, mode, job, spinning, loop>>

\* Mutant: the job the second look found is left on the ring.
RecheckRing_Peeks(t) ==
  /\ Go(t, "recheckRing", IF ring = <<>> THEN "recheckSock" ELSE "unpark")
  /\ job' = [job EXCEPT ![t] = IF ring = <<>> THEN None ELSE Head(ring)]
  /\ UNCHANGED <<rings, chans, words, recs, mode, spinning, loop>>

RecheckRing(t) ==
  /\ IF ring # <<>>
     THEN /\ PopRing /\ Go(t, "recheckRing", "unpark")
          /\ job' = [job EXCEPT ![t] = Head(ring)]
     ELSE Go(t, "recheckRing", "recheckSock") /\ UNCHANGED <<ring, moved, headTaken, job>>
  /\ UNCHANGED <<doneRing, doneChan, chans, words, recs, mode, spinning, loop>>

\* Mutant: the socket is not looked at after the announcement.
RecheckSock_NotRead(t) ==
  /\ Go(t, "recheckSock", "block")
  /\ UNCHANGED <<rings, chans, words, recs, mode, job, spinning, loop>>

RecheckSock(t) ==
  /\ RecvSock /\ Go(t, "recheckSock", IF Received = None THEN "block" ELSE "unpark")
  /\ job' = [job EXCEPT ![t] = Received]
  /\ UNCHANGED <<rings, own, loopParked, parked, spinners, threads, parkedReg, pollDue,
                 recs, mode, spinning, loop>>

Block(t) ==
  /\ own[t] # <<>> /\ Go(t, "block", "woke")
  /\ own' = [own EXCEPT ![t] = Tail(@)]
  /\ job' = [job EXCEPT ![t] = IF Head(own[t]) = "pill" THEN "stop" ELSE None]
  /\ UNCHANGED <<rings, sock, words, recs, mode, spinning, loop>>

\* Where a thread whose park is over goes: out, or to a look that polls first.
AfterPark(j) == IF j = "stop" THEN "leave" ELSE "again"

\* Whoever moves the record off PARKED retires the count.
Woke(t) ==
  /\ Go(t, "woke", IF state[t] = "parked" THEN "uncount" ELSE AfterPark(job[t]))
  /\ state' = [state EXCEPT ![t] = "running"]
  /\ UNCHANGED <<rings, chans, words, pill, lane, mode, job, spinning, loop>>

Again(t) ==
  /\ Go(t, "again", "look")
  /\ pollDue' = TRUE
  /\ mode' = [mode EXCEPT ![t] = "next"]
  /\ UNCHANGED <<rings, chans, loopParked, parked, wakes, spinners, threads, parkedReg,
                 recs, job, spinning, loop>>

\* Mutant: the count is retired whoever moved the record.
Unpark_Uncounts(t) ==
  /\ Go(t, "unpark", "uncountJob")
  /\ state' = [state EXCEPT ![t] = "running"]
  /\ UNCHANGED <<rings, chans, words, pill, lane, mode, job, spinning, loop>>

\* _leave_park: the loop may have named this thread in the meantime.
Unpark(t) ==
  /\ Go(t, "unpark", IF state[t] = "parked" THEN "uncountJob" ELSE "ownPoke")
  /\ state' = [state EXCEPT ![t] = IF @ = "parked" THEN "running" ELSE @]
  /\ UNCHANGED <<rings, chans, words, pill, lane, mode, job, spinning, loop>>

Uncount(t) ==
  /\ \/ Go(t, "uncount", AfterPark(job[t]))
     \/ Go(t, "uncountJob", Serve(job[t]))
  /\ parkedReg' = parkedReg - 1
  /\ UNCHANGED <<rings, chans, loopParked, parked, wakes, spinners, threads, pollDue,
                 recs, mode, job, spinning, loop>>

\* The poke in flight for it is read here, so the next park finds none.
OwnPoke(t) ==
  /\ own[t] # <<>> /\ Go(t, "ownPoke", Serve(job[t]))
  /\ own' = [own EXCEPT ![t] = Tail(@)]
  /\ pill' = [pill EXCEPT ![t] = @ \/ Head(own[t]) = "pill"]
  /\ state' = [state EXCEPT ![t] = "running"]
  /\ UNCHANGED <<rings, sock, words, lane, mode, job, spinning, loop>>

-----------------------------------------------------------------------------
(* The park on the lane's socket, for a thread without a channel.          *)

ParkLane(t) ==
  /\ t \notin lane.registered /\ Go(t, "park", "laneRecheck")
  /\ parked' = parked + 1
  /\ mode' = [mode EXCEPT ![t] = "new"]
  /\ UNCHANGED <<rings, chans, loopParked, wakes, spinners, threads, parkedReg, pollDue,
                 recs, job, spinning, loop>>

LaneRecheck(t) ==
  /\ IF ring # <<>>
     THEN /\ PopRing /\ Go(t, "laneRecheck", "laneUnpark")
          /\ job' = [job EXCEPT ![t] = Head(ring)]
     ELSE Go(t, "laneRecheck", "laneBlock") /\ UNCHANGED <<ring, moved, headTaken, job>>
  /\ UNCHANGED <<doneRing, doneChan, chans, words, recs, mode, spinning, loop>>

LaneBlock(t) ==
  /\ sock # <<>> /\ Go(t, "laneBlock", "laneUnpark")
  /\ RecvSock /\ job' = [job EXCEPT ![t] = Received]
  /\ UNCHANGED <<rings, own, loopParked, parked, spinners, threads, parkedReg, pollDue,
                 recs, mode, spinning, loop>>

LaneUnpark(t) ==
  /\ Go(t, "laneUnpark", IF job[t] = None THEN "look" ELSE Serve(job[t]))
  /\ parked' = parked - 1
  /\ mode' = [mode EXCEPT ![t] = IF job[t] = None THEN "next" ELSE "new"]
  /\ UNCHANGED <<rings, chans, loopParked, wakes, spinners, threads, parkedReg, pollDue,
                 recs, job, spinning, loop>>

-----------------------------------------------------------------------------
(* The view, and complete.  A cell of the completion ring is claimed, then *)
(* published: until it is, nothing behind it can be popped.                *)

\* What a view answers is completed; a message's view owes the loop nothing.
ViewEnds(t) ==
  /\ t \notin DOMAIN lane.stuck
  /\ Go(t, "view", IF job[t] = "msg" THEN "call" ELSE "publish")
  /\ IF job[t] = "msg"
     THEN job' = [job EXCEPT ![t] = None] /\ UNCHANGED doneRing
     ELSE doneRing' = Append(doneRing, <<job[t], FALSE>>) /\ UNCHANGED job
  /\ UNCHANGED <<ring, moved, headTaken, doneChan, chans, words, recs, mode, spinning,
                 loop>>

Publish(t) ==
  /\ Go(t, "publish", "readFlag")
  /\ doneRing' = [i \in DOMAIN doneRing |->
                    IF doneRing[i][1] = job[t] THEN <<job[t], TRUE>> ELSE doneRing[i]]
  /\ job' = [job EXCEPT ![t] = None]
  /\ UNCHANGED <<ring, moved, headTaken, doneChan, chans, words, recs, mode, spinning,
                 loop>>

ReadFlag(t) ==
  /\ Go(t, "readFlag", IF loopParked THEN "pokeLoop" ELSE "call")
  /\ UNCHANGED <<rings, chans, words, recs, mode, job, spinning, loop>>

\* Mutant: the wake of a parked loop is not sent.
PokeLoop_NotSent(t) ==
  /\ Go(t, "pokeLoop", "call")
  /\ UNCHANGED <<rings, chans, words, recs, mode, job, spinning, loop>>

PokeLoop(t) ==
  /\ Go(t, "pokeLoop", "call")
  /\ doneChan' = TRUE
  /\ UNCHANGED <<ring, moved, headTaken, doneRing, chans, words, recs, mode, job,
                 spinning, loop>>

\* leave_pool: off the lane's count, and the record retired.
Leave(t) ==
  /\ Go(t, "leave", "left")
  /\ threads' = threads - 1
  /\ job' = [job EXCEPT ![t] = None]
  /\ UNCHANGED <<rings, chans, loopParked, parked, wakes, spinners, parkedReg, pollDue,
                 recs, mode, spinning, loop>>

-----------------------------------------------------------------------------
(* The event loop's pass: completions, events, completions, the look.      *)

LGo(from, to) == lpc = from /\ lpc' = to

Search == <<caller, at, best, seen>>
NewSearch(c) == caller' = c /\ at' = 1 /\ best' = None /\ seen' = 0

\* Every published completion is answered, which frees its slot.
Drain(from, to) ==
  /\ LGo(from, to)
  /\ doneRing' = Undrained
  /\ UNCHANGED <<ring, moved, headTaken, doneChan, chans, words, recs, locals, Search,
                 capped, history>>

\* The completion channel's event: its datagrams first, then the ring.
ReadChannel ==
  /\ doneChan /\ LGo("events", "chan")
  /\ doneChan' = FALSE
  /\ UNCHANGED <<ring, moved, headTaken, doneRing, chans, words, recs, locals, Search,
                 capped, history>>

\* submit: push, then look whether anyone will take the job unless woken.
Submit(s) ==
  /\ s \in lane.clients /\ AtLoop(s)
  /\ LGo("events", IF lane.rule = "parallel" THEN "scan" ELSE "spinners")
  /\ ring' = Append(ring, s)
  /\ NewSearch("submit")
  /\ UNCHANGED <<moved, headTaken, doneRing, doneChan, chans, words, recs, locals,
                 capped, history>>

\* send_ws_message: a full socket refuses it, and the caller keeps it.
SendMessage ==
  /\ lane.messages /\ sent < MaxMessages
  /\ sent' = sent + 1
  /\ IF Len(sock) < SockCap
     THEN /\ LGo("events", "scan") /\ sock' = Append(sock, "msg")
          /\ NewSearch("message")
     ELSE LGo("events", "events") /\ UNCHANGED <<sock, Search>>
  /\ UNCHANGED <<rings, own, words, recs, locals, capped, lost>>

\* Mutant: the pop count of this look is not kept for the next.
LookPasses_Forgets ==
  /\ LGo("look", "wait")
  /\ UNCHANGED <<rings, chans, words, recs, locals, Search, capped, history>>

\* wake_aged: an empty ring, or under the progress rule one that moved, is
\* not stalled; any other head may be younger than the threshold.
LookPasses ==
  /\ LGo("look", "wait")
  /\ moved' = FALSE
  /\ UNCHANGED <<ring, headTaken, doneRing, doneChan, chans, words, recs, locals,
                 Search, capped, history>>

LookAged ==
  /\ ring # <<>> /\ ~(moved /\ lane.rule = "progress")
  /\ LGo("look", "scan")
  /\ moved' = FALSE
  /\ NewSearch("look")
  /\ UNCHANGED <<ring, headTaken, doneRing, doneChan, chans, words, recs, locals,
                 capped, history>>

-----------------------------------------------------------------------------
(* _all_idle, _wake_registered and _wake_one.                              *)

\* One step of the search: to another, or back to what the loop was doing.
Step(from, to) == LGo(from, to) /\ UNCHANGED <<caller, at, best>>
Over(from) ==
  /\ LGo(from, IF caller = "look" THEN "wait" ELSE "events")
  /\ NewSearch("look")

ReadSpinners ==
  /\ IF spinners > 0 THEN Over("spinners")
     ELSE Step("spinners", "parked") /\ UNCHANGED seen
  /\ UNCHANGED <<rings, chans, words, recs, locals, capped, history>>

ReadParked ==
  /\ Step("parked", "idle") /\ seen' = parked
  /\ UNCHANGED <<rings, chans, words, recs, locals, capped, history>>

ReadIdle ==
  /\ IF threads <= seen + parkedReg THEN Step("idle", "scan") /\ seen' = 0
     ELSE Over("idle")
  /\ UNCHANGED <<rings, chans, words, recs, locals, capped, history>>

\* One record of the scan.  Of several parked threads the one that parked
\* last is named; which that is, is left open.  A message's sender looks for
\* a registered thread only.
Scan ==
  /\ lpc = "scan"
  /\ \E b \in IF at \in lane.registered /\ pc[at] # "left" /\ state[at] = "parked"
              THEN IF best = None THEN {at} ELSE {best, at}
              ELSE {best} :
       IF at < N
       THEN at' = at + 1 /\ best' = b /\ UNCHANGED <<lpc, caller, seen>>
       ELSE IF b = None /\ caller = "message" THEN Over("scan")
       ELSE /\ lpc' = IF b = None THEN "readParked" ELSE "cas"
            /\ best' = b /\ UNCHANGED <<caller, at, seen>>
  /\ UNCHANGED <<rings, chans, words, recs, locals, capped, history>>

\* PARKED to WOKEN, or the thread has found something by itself.
Name ==
  /\ lpc = "cas"
  /\ IF state[best] = "parked" THEN Step("cas", "poke") /\ UNCHANGED seen
     ELSE IF caller = "message" THEN Over("cas")
     ELSE Step("cas", "readParked") /\ UNCHANGED seen
  /\ state' = [state EXCEPT ![best] = IF @ = "parked" THEN "woken" ELSE @]
  /\ UNCHANGED <<rings, chans, words, pill, lane, locals, capped, history>>

\* The named thread's count is retired on this side, then it is poked: the
\* loop alone reads that count.
Poke ==
  /\ Over("poke")
  /\ parkedReg' = parkedReg - 1
  /\ own' = [own EXCEPT ![best] = Append(@, "poke")]
  /\ UNCHANGED <<rings, sock, loopParked, parked, wakes, spinners, threads, pollDue,
                 recs, locals, capped, history>>

\* Threads parked on the lane's socket: one wake to each that is owed none.
ReadLaneParked ==
  /\ Step("readParked", "credit") /\ seen' = parked
  /\ UNCHANGED <<rings, chans, words, recs, locals, capped, history>>

Credit ==
  /\ IF seen > wakes
     THEN Step("credit", "pokeLane") /\ seen' = 0 /\ wakes' = wakes + 1
     ELSE Over("credit") /\ UNCHANGED wakes
  /\ UNCHANGED <<rings, chans, loopParked, parked, spinners, threads, parkedReg, pollDue,
                 recs, locals, capped, history>>

\* A wake a full socket refused sixty-four times is dropped, and its credit stands.
PokeLane ==
  /\ Over("pokeLane")
  /\ IF Len(sock) < SockCap THEN sock' = Append(sock, "poke") /\ UNCHANGED lost
     ELSE lost' = lost + 1 /\ UNCHANGED sock
  /\ UNCHANGED <<rings, own, words, recs, locals, capped, sent>>

-----------------------------------------------------------------------------
(* _wait_for_events, and the stop.                                         *)

\* jobs_pending: the ring's head is read, then the cell it names.
ReadHead ==
  /\ LGo("wait", "bound")
  /\ UNCHANGED <<rings, chans, words, recs, locals, Search, capped, history>>

\* A job no thread has taken bounds the wait by its threshold.  A cell taken
\* since its position was read is one nothing is published in: the ring then
\* reads as empty, whatever is queued behind.
RaiseFlag ==
  /\ LGo("bound", "recheck")
  /\ capped' = (ring # <<>> /\ ~headTaken)
  /\ headTaken' = FALSE
  /\ loopParked' = TRUE
  /\ UNCHANGED <<ring, moved, doneRing, doneChan, chans, parked, wakes, spinners,
                 threads, parkedReg, pollDue,
                 recs, locals, Search, history>>

\* Mutant: the completion ring is not looked at after the flag is up.
RecheckDone_NotRead ==
  /\ LGo("recheck", "blocked")
  /\ UNCHANGED <<rings, chans, words, recs, locals, Search, capped, history>>

RecheckDone ==
  /\ LGo("recheck", IF DonePending THEN "unpark" ELSE "blocked")
  /\ UNCHANGED <<rings, chans, words, recs, locals, Search, capped, history>>

\* A wake from a thread, the end of the wait, or a client's own event.
WokenByPool == doneChan /\ LGo("blocked", "unpark") /\ UNCHANGED
                 <<rings, chans, words, recs, locals, Search, capped, history>>
WokenByTime == (capped \/ lane.tick) /\ LGo("blocked", "unpark") /\ UNCHANGED
                 <<rings, chans, words, recs, locals, Search, capped, history>>
WokenByClient == LGo("blocked", "unpark") /\ UNCHANGED
                   <<rings, chans, words, recs, locals, Search, capped, history>>

LowerFlag ==
  /\ LGo("unpark", "top")
  /\ loopParked' = FALSE
  /\ capped' = FALSE
  /\ UNCHANGED <<rings, chans, parked, wakes, spinners, threads, parkedReg, pollDue,
                 recs, locals, Search, history>>

\* The loop is over, its drain finished or out of time, and stop() begins.
StopLoop ==
  /\ lane.stops /\ LGo("top", "pill")
  /\ UNCHANGED <<rings, chans, words, recs, locals, Search, capped, history>>

\* Mutant: only a thread that is parked is pilled by name.
PillOwn_ParkedOnly ==
  /\ lpc = "pill"
  /\ own' = [own EXCEPT ![at] = IF at \in lane.registered /\ state[at] = "parked"
                                THEN Append(@, "pill") ELSE @]
  /\ IF at < N THEN at' = at + 1 /\ UNCHANGED <<lpc, seen>>
     ELSE lpc' = "lanePill" /\ seen' = N - Cardinality(lane.registered) /\ UNCHANGED at
  /\ UNCHANGED <<rings, sock, words, recs, locals, caller, best, capped, history>>

\* A pill to every registered thread by name, and one on the lane's socket
\* for each of the others, offered until there is room.
PillOwn ==
  /\ lpc = "pill"
  /\ own' = [own EXCEPT ![at] = IF at \in lane.registered THEN Append(@, "pill") ELSE @]
  /\ IF at < N THEN at' = at + 1 /\ UNCHANGED <<lpc, seen>>
     ELSE lpc' = "lanePill" /\ seen' = N - Cardinality(lane.registered) /\ UNCHANGED at
  /\ UNCHANGED <<rings, sock, words, recs, locals, caller, best, capped, history>>

PillLane ==
  /\ lpc = "lanePill"
  /\ IF seen = 0 THEN lpc' = "over" /\ UNCHANGED <<sock, seen>>
     ELSE /\ Len(sock) < SockCap
          /\ sock' = Append(sock, "pill")
          /\ seen' = seen - 1 /\ UNCHANGED lpc
  /\ UNCHANGED <<rings, own, words, recs, locals, caller, at, best, capped, history>>

-----------------------------------------------------------------------------
Init ==
  /\ lane \in Deployments
  /\ ring = <<>> /\ moved = FALSE /\ headTaken = FALSE
  /\ doneRing = <<>> /\ doneChan = FALSE
  /\ sock = <<>> /\ own = [t \in Threads |-> <<>>]
  /\ loopParked = TRUE /\ parked = 0 /\ wakes = 0 /\ spinners = 0
  /\ threads = N /\ parkedReg = 0 /\ pollDue = TRUE
  /\ state = [t \in Threads |-> "running"] /\ pill = [t \in Threads |-> FALSE]
  /\ pc = [t \in Threads |-> IF t \in DOMAIN lane.stuck THEN "view" ELSE "call"]
  /\ mode = [t \in Threads |-> "new"]
  /\ job = [t \in Threads |-> IF t \in DOMAIN lane.stuck THEN lane.stuck[t] ELSE None]
  /\ spinning = [t \in Threads |-> FALSE]
  /\ lpc = "wait" /\ caller = "look" /\ at = 1 /\ best = None /\ seen = 0
  /\ capped = FALSE /\ sent = 0 /\ lost = 0

\* A thread's steps outside its view.
ThreadStep(t) ==
  \/ Call(t) \/ LookPolls(t) \/ LookSkips(t) \/ PollOwn(t) \/ PollSock(t)
  \/ Pop(t) \/ PopNothing(t) \/ SpinOver(t) \/ Announce(t) \/ LeaveSpin(t)
  \/ ParkOwn(t) \/ CountOwn(t) \/ RecheckRing(t) \/ RecheckSock(t) \/ Block(t)
  \/ Woke(t) \/ Again(t) \/ Unpark(t) \/ Uncount(t) \/ OwnPoke(t)
  \/ ParkLane(t) \/ LaneRecheck(t) \/ LaneBlock(t) \/ LaneUnpark(t)
  \/ Publish(t) \/ ReadFlag(t) \/ PokeLoop(t) \/ Leave(t)

\* The loop's steps, those a client or an operator decides on aside.
LoopStep ==
  \/ Drain("top", "events") \/ ReadChannel \/ Drain("chan", "events")
  \/ Drain("events", "look") \/ LookPasses \/ LookAged
  \/ ReadSpinners \/ ReadParked \/ ReadIdle
  \/ Scan \/ Name \/ Poke
  \/ ReadLaneParked \/ Credit \/ PokeLane
  \/ ReadHead \/ RaiseFlag \/ RecheckDone \/ WokenByPool \/ WokenByTime \/ LowerFlag
  \/ PillOwn \/ PillLane

Environment == (\E s \in Slots : Submit(s)) \/ SendMessage \/ WokenByClient \/ StopLoop

Next == (\E t \in Threads : ThreadStep(t) \/ ViewEnds(t)) \/ LoopStep \/ Environment

\* Threads and the loop are scheduled; a view that is not stuck returns.  A
\* spin ends, a standing head comes to be older than the threshold, and the
\* lane's poll comes due, because the three are measured by the clock.
Fairness ==
  /\ WF_vars(LoopStep) /\ SF_vars(LookAged)
  /\ SF_vars(\E t \in Threads : LookPolls(t))
  /\ \A t \in Threads : WF_vars(ThreadStep(t)) /\ SF_vars(SpinOver(t))
  /\ \A t \in Threads : WF_vars(ViewEnds(t))

Spec == Init /\ [][Next]_vars /\ Fairness

-----------------------------------------------------------------------------
(* What is promised.                                                       *)

\* Every variable has its type.
TypeOK ==
  /\ ring \in Seq(Slots) /\ moved \in BOOLEAN /\ headTaken \in BOOLEAN
  /\ lane \in Deployments
  /\ doneRing \in Seq(Slots \X BOOLEAN) /\ doneChan \in BOOLEAN
  /\ sock \in Seq({"msg", "poke", "pill"}) /\ Len(sock) <= SockCap
  /\ own \in [Threads -> Seq({"poke", "pill"})]
  /\ loopParked \in BOOLEAN /\ pollDue \in BOOLEAN
  /\ parked \in Int /\ wakes \in Int /\ spinners \in Int /\ threads \in Int
  /\ parkedReg \in Int
  /\ state \in [Threads -> {"running", "parked", "woken"}]
  /\ pill \in [Threads -> BOOLEAN]
  /\ pc \in [Threads -> ThreadPcs]
  /\ mode \in [Threads -> {"new", "try", "tried", "next", "spin"}]
  /\ job \in [Threads -> Slots \cup {None, "msg", "stop"}]
  /\ spinning \in [Threads -> BOOLEAN]
  /\ lpc \in LoopPcs /\ caller \in {"submit", "message", "look"}
  /\ at \in 1..N /\ best \in Threads \cup {None} /\ seen \in Int
  /\ capped \in BOOLEAN /\ sent \in 0..MaxMessages /\ lost \in Nat

InPcs(S) == Cardinality({t \in Threads : pc[t] \in S})
Held(q, what) == Cardinality({i \in DOMAIN q : q[i] = what})
Counted(b) == IF b THEN 1 ELSE 0

\* A thread that nothing already sent will wake.
Asleep(t) ==
  \/ pc[t] \in {"block", "ownPoke"} /\ own[t] = <<>>
  \/ pc[t] = "laneBlock" /\ sock = <<>>
  \/ pc[t] = "left"

\* A job on the ring, or a message on the lane's socket, is never behind
\* threads that are all asleep once its sender has looked for one to wake:
\* the announcement before the last look and the push before the reading of
\* the announcements leave no gap between them, on the ring or the socket.  The
\* one exception: where no thread has a channel of its own, dropped wakes whose
\* credits stand for all N threads keep every later wake from being sent.
SomeoneAwake ==
  (ring # <<>> \/ sock # <<>>) /\ (lane.registered = {} => lost < N)
  /\ lpc \notin Searching \cup {"pill", "lanePill", "over"}
    => \E t \in Threads : ~Asleep(t)

\* A completion is never behind a loop that waits and nobody will wake.  A
\* cell claimed before it and not published is its producer's to announce.
LoopHears ==
  doneRing # <<>> /\ lpc = "blocked"
    => doneChan \/ \E t \in Threads : pc[t] \in {"publish", "readFlag", "pokeLoop"}

\* The words the wake rules read are exact: a park's count is retired once,
\* by whoever moved the record off PARKED, and a wake's credit comes back
\* when its datagram is read, by whichever thread reads it; only the credit of
\* a wake that was dropped never does.
CountsExact ==
  /\ parkedReg = InPcs(Announced) + Counted(lpc = "poke")
                   - Cardinality({t \in Threads : state[t] = "woken"})
  /\ parked = InPcs(OnLane)
  /\ spinners = Cardinality({t \in Threads : spinning[t]}) + InPcs({"unannounce"})
  /\ wakes = Held(sock, "poke") + Counted(lpc = "pokeLane") + lost
  /\ threads = N - InPcs({"left"})

\* "Two datagrams at most ever sit in it -- one wake, one pill" (register_thread),
\* and a park begins on a channel with no wake of an earlier park in it.
NothingStale ==
  \A t \in lane.registered :
    /\ Held(own[t], "poke") <= Counted(state[t] = "woken")
    /\ Held(own[t], "pill") <= 1

\* What the wake rules go by is true: the words they read, and that a thread
\* whose channel holds a wake is one that was woken.
WakesExact == CountsExact /\ NothingStale

\* A slot is owned by one party: on the ring, in one thread's hands, on the
\* completion ring, or back with the loop.
OneOwner ==
  /\ Cardinality(Queued) = Len(ring)
  /\ Cardinality(Finished) = Len(doneRing)
  /\ Queued \cap (InHand \cup Finished) = {}
  /\ \A t, u \in Threads : t # u /\ job[t] = job[u] => job[t] \notin Slots
  /\ \A t \in Threads : job[t] \in Finished <=> pc[t] = "publish"

\* No queued job waits for ever, however long the views the other threads
\* are in: the loop's look wakes a parked thread for a ring nobody is
\* draining, and a ring that is never empty is popped again and again.
JobTaken == []<>(ring = <<>>) \/ []<><<Len(ring') < Len(ring)>>_ring

\* Under the parallel rule every job is answered, and the loop knows it,
\* without the help of its one-second wait.
JobAnswered == \A s \in Slots : s \in Queued /\ lane.rule = "parallel" ~> AtLoop(s)

\* Every pool thread gets a pill and leaves, whatever it was doing.
StopRetiresAll == lpc = "pill" ~> \A t \in Threads : pc[t] = "left"

=============================================================================
