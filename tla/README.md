# A TLA+ development of mojo-http

Modules, model-checking configurations and machine-checked proofs about the
concurrent parts of this repository: an HTTP/1.1 server and framework in Mojo
(`packages/m0-http`), its WSGI/ASGI host (`packages/m0-wsgi`) and the processes
around them. Paths below are relative to `src/`; `lightbug_http/` stands for
`packages/m0-http/lightbug_http/`.

## 1. The system

### Components, the state each keeps, and who talks to whom

| Component | Code | State | Talks to |
|---|---|---|---|
| Accept sharing | `lightbug_http/accept_share.mojo`, `loop/accept.mojo` | one line of shared words per worker (`state`, `active`, `pending`, `taken`), one datagram channel per index, `left`/`drained` in each worker | every worker's loop (page and channels), the supervisor (marks an index reaped, drains a dead worker's channel) |
| Supervisor | `packages/m0-http/src/multiworker.mojo`, `prefork.mojo`, `signal.mojo` | PIDs per index, the recorded stop, the respawn budget, the exit verdict | workers by `fork`, signals and exit statuses; accept sharing by the page |
| Event loop | `lightbug_http/event_loop.mojo`, `loop/*.mojo`, `connection.mojo` | `LoopState`: the slot table, free list, idle/head/body queues, deadlines, the wake pipe | backends (epoll, kqueue), the handler, the offload pool, accept sharing |
| Offload pool | `lightbug_http/offload.mojo`, `offload_wire.mojo`, `loop/offload.mojo` | job rings per lane, completion ring per loop, parked/spinning counts and per-thread channels, abort generations, acks owed | the loop (submit, drain) and handler threads (`next_job`, `complete`) |
| Bounded ring | `lightbug_http/ring.mojo` | head, tail, a sequence number per cell | the offload pool |
| Slot queues | `lightbug_http/slot_queue.mojo` | intrusive `prev`/`next`/`queue_of`, heads, tails | the event loop's reclaim and deadlines |
| Streams | `loop/streams.mojo`, `loop/response.mojo`, `http/chunked.mojo`, `framing.mojo` | per-slot chunk queues, credits and acks | handler threads, the loop's writes |
| Shutdown | `loop/shutdown.mojo` | drain start, what is unfinished | accept sharing, the offload pool, held streams |
| Broadcast and holds | `broadcast.mojo`, `hold.mojo`, `src/feed.mojo`, `src/grant.mojo`, `src/sse/*` | subscriber tables, replay rings, a shared event id, channels between workers | workers' loops, SSE streams |
| WebSocket | `websocket.mojo`, `src/ws.mojo` | frame reassembly, the closing handshake | the event loop, ASGI executor |
| HTTP parsing and headers | `http/*`, `header.mojo`, `uri.mojo`, `cookie/*` | parser offsets | the event loop |
| Mojo host, pool, reload | `m0_host/*`, `src/mojo_pool.mojo`, `src/threads.mojo`, `src/reload.mojo` | worker threads, scan baselines | supervisor, offload pool |
| ASGI executor | `packages/m0-wsgi/shim/m0_shim.py`, `src/asgi_executor.mojo` | a task per request, the slot tables, a window per stream and one for all, completions not yet flushed | the loop, over the submit, ack, chunk and completion channels |
| WSGI/ASGI host | the rest of `packages/m0-wsgi` | the handler's registry of streams, pool threads inside views, `LISTEN` connections | offload pool, broadcast |
| Router, views, HTML, login, session, static files | `packages/m0-http/src/*` | none that outlives a request but tokens and caches | the handler |
| Datastar, SQLite, Postgres, core | `packages/m0-datastar`, `m0-sqlite`, `m0-postgres`, `m0-core` | protocol or library handles | applications |

### What is hard in it

* **Processes that die.** The shared page outlives the worker that wrote it. A
  kill between any two stores leaves words that the next process of that index,
  its siblings and the supervisor all act on.
* **A store read before a send.** A hand-off picks a target from the target's
  state word and then sends: the target may leave in between, and a channel
  nobody reads again holds an accepted connection for good.
* **Counts kept from both ends.** `pending` is raised by senders, lowered by
  the receiver, by its replacement and by the supervisor.
* **Signals against forks.** A stop may arrive before a worker has a handler,
  between a fork and its PID's publication, or during a reload.
* **Sleeping threads.** Handler threads park and the loop parks, each woken by
  the other through flags read on both sides of the wait.
* **Connections with a life of their own.** A slot may be recycled while a
  thread, a task, a frame or an ack still speaks for its last request.
* **Channels that refuse.** Every channel between processes and threads is
  bounded, and each sender has its own answer to a full one: wait, keep it owed,
  give up, or drop it.
* **Numbers given out in one order and seen in another.** Event ids come from a
  counter all workers share; frames reach a worker in any order, and a client may
  come back to another worker with the last one it saw.

What makes each component correct, and which of it is checked, is the subject
of section 3; the hazards at their lines are in `PROJECT.json`.

## 2. Plan

In the order in which they are written, the most entangled part first. "Main
properties" are those the module is for; every one a run checks is in section 3.

| # | Module | Models | Main properties | State |
|---|---|---|---|---|
| 1 | `AcceptShare`, `MCAcceptShare`, `AcceptShareProofs` | hand-offs, the leave handshake, drain, deaths, reaping, respawn, give-up, reload | the count covers what is in flight; a sealed channel is empty; nothing is lost; drains end | checked, proved |
| 2 | `PoolWake`, `MCPoolWake`, `PoolWakeProofs` | submit, the elastic park and wake, lane sockets and thread channels, pills, the loop's parked flag | no lost wake-up either way; exact counts; every job answered; the pool stops | checked, proved |
| 3 | `Ring`, `MCRing`, `RingProofs`, refining `ClaimQueue` | push, pop, is_empty, peek, one atomic access a step | a FIFO of claims and publications; no race on a cell's value | checked, proved |
| 4 | `LoopSlots`, `MCLoopSlots`, `LoopSlotsProofs` | a slot's life on Linux: accept, head, body, offload, answer, pipelining, half-close, linger, deadlines, reclaim | an offloaded slot is never recycled; no lost edge, clock or buffered request | checked, proved |
| 5 | `SlotQueues`, refining the sequences `LoopSlots` reads | the intrusive links of `slot_queue.mojo` | each slot in at most one queue, order kept, no link left behind | planned |
| 6 | `Supervisor`, `MCSupervisor`, `SupervisorProofs` | signals against fork and publish, inherited handlers, respawns, give-ups, reload, the exit verdict | no child misses a stop; no worker outlives the supervisor; one process an index; the exit code says what happened | checked, proved |
| 7 | `Streams`, `MCStreams`, `StreamsProofs` | streamed WSGI bodies: begin, frames, head, credit and acks, aborts, clients that leave | a client reads its own body; the window holds; every thread returns; every response ends | checked; types and the window proved |
| 8 | `Holds`, `MCHolds`, `HoldsProofs` | the bus between workers, holds, outboxes, the replay journal, resuming | in order and once; all or a gap; nobody waits for ids not given out | checked, proved |
| 9 | `Executor`, `MCExecutor`, `ExecutorProofs` | the executor's tasks, both credit windows, disconnect tags, aborts, reused slots | a client reads its own task's bytes; no window is overrun or lost; who waits for room is woken | checked, proved |
| 10 | `Shutdown` | what a drain closes, keeps and waits for, farewells, the executor's buffered submits | nothing admitted is forgotten; nothing is answered twice; the drain ends | planned |
| 11 | `Socket` | WebSocket frames, the closing handshake, the inbound window | a close is answered once; a read suspended is resumed | planned |

Theorems still to prove: `BodyTrue` of module 7; the link structure of module 5.

Composition: `PoolWake` takes its completion ring to be `ClaimQueue` (3 shows it);
`LoopSlots` takes a job of the pool to be one step, `JobDone` (2 shows that it
comes), and its queues to be sequences (5 is to show it). `AcceptShare` has of the
supervisor what the page sees, `Supervisor` has the signals, lists and verdicts.
`Streams` and `Executor` take a slot's reading, keep-alive and reclaim from `LoopSlots`
as "a client connects, leaves or asks again", and the handing of a job as one
step. `Holds` hands an outbox over whole where `Streams` has the bytes.

## 3. What is modelled and checked

Each module's map to the code is `map` in `PROJECT.json`: every definition that
stands for code, with its file and lines. Every module states a `TypeOK` for its
reader, which is proved (section 4).

### 3.1 `AcceptShare`: hand-offs between workers

**State.** `state`, `active`, `pending` and `taken` are the four words of each
worker's line in the shared page; `chan` the datagrams on each index's channel;
`backlog` what the kernel holds for accept. Per process: `pc` and `phase` say
where it is in `bind`, `start`, a pass, `leave`, the drain or the exit; `hand` and
`target` are the connection it holds between two steps and where it goes,
`drained` and `took` the locals of the same names, `held` the connections its loop
has admitted. `term` is a SIGTERM not yet acted on; `proc` how the kernel and the
supervisor see the index. `supPc`, `supWorker`, `supReceived`, `supTook` are the
supervisor inside `_account_for_exit`, `_give_up` and `close_reaped_handoffs`.
`moves`, `deaths` and `expired` are history.

**Steps.** One access to another process's word, or to a channel, each: `send_with`
is `SendRaise`, `SendRecheck`, `SendPost` or `SendFails`, `SendTakeBack`; `receive`
is `Receive` and `Publish`; `pass_end` is `EndTake` and `EndRetire`;
`close_reaped_handoffs` is `CloseReaped`, `CloseReapedEnds`, `CloseReapedTake`,
`CloseReapedRetire`. `Killed` may follow any of them and leaves the page as it was.

**Abstracted.** A page scan (`_least_loaded`) is one step; which workers it finds in
a pass too long is free. A batch of accepts is not budgeted; a datagram whose
descriptor cannot be installed is a free choice of `Receive`, a send may fail for
any reason. Writes of a process to its own words, with nothing between them another
process could tell apart, are one step. The respawn window and the rapid-crash rule
are the bound `MaxRespawns`; the fork loop of a reload with its publish is one step;
the SIGKILL of a straggler in a reload is among `Killed`'s deaths. A drain's time
budget runs out "never", on a count that no live sender will settle ("stuck"), or
whenever it likes ("any").

**Runs.**

* `AcceptShareDeaths`: two workers, two connections, channels of two, a death of
  each index, a respawn, a reload, every worker stoppable, budgets at any time;
  symmetric in workers and connections. Two workers are a sender and a receiver and
  change parts; two connections are one in flight and one behind it. `PendingCovers`
  (the count is never below what is in flight), `PendingExact` (and is exact until
  somebody is killed), `NothingStranded` (after the last read of a channel nothing is
  on it and no sender is past the check that would stop it), `LeaverIsMarked`,
  `OneHome` (a connection is in one place), `MovesBounded`.
* `AcceptShareEnds`: the same without reloads or single stops, under fairness:
  `Answered` (what was accepted is admitted or closed), `StopEnds` (a stopped server
  ends), `BudgetUnspent` (a drain ends before its budget unless somebody was killed).

**Fairness.** Weak on each worker and on the supervisor: processes are scheduled, and
`waitpid` returns. Strong on a round that ends some exchange: a client with an
exchange in progress ends it or its deadline does. Strong on `DrainExpires`: it reads
the clock.

### 3.2 `PoolWake`: the pool's sleepers

**State.** `ring`, `sock`, `own`, `doneRing`, `doneChan`: the lane's job ring, its
socket, each registered thread's channel, the completion ring and channel. The words
of the wake page: `loopParked`, `parked`, `wakes`, `spinners`, `threads`, `parkedReg`,
`pollDue`; each thread's record: `state`, `pill`. `pc`, `mode`, `job` and `spinning`
are a thread inside `next_job`; `lpc`, `caller`, `at`, `best`, `seen` the loop in its
pass, its submit, its search for a thread to wake, and its wait. `headTaken` says that
a job was taken since the loop, about to wait, read the ring's head (`jobs_pending`), `moved`
that one was since the loop last looked (`lane_progress`). `lane` is the deployment: which
threads got a channel, which rule holds, what the clients and the operator do. `sent` and
`lost` are histories: messages offered, wakes a full socket dropped. What a thread reads
off the socket is `Received`: a wake's credit is given back by whoever reads the wake.

**Steps.** One access to a ring, a shared word or a channel each. `_park_on_own` is
`ParkOwn`, `CountOwn`, `RecheckRing`, `RecheckSock`, `Block`, `Woke` and `Uncount`;
`_leave_park` is `Unpark`, `Uncount` and `OwnPoke`; `submit` is `Submit`, then `_all_idle`
and `_wake_one` as `ReadSpinners`, `ReadParked`, `ReadIdle`, `Scan`, `Name`, `Poke`,
`ReadLaneParked`, `Credit`, `PokeLane`; `_wait_for_events` is `ReadHead`, `RaiseFlag`,
`RecheckDone`, the three ways of waking, and `LowerFlag`.

**Abstracted.** Time: a threshold passed, a poll due and a spin over are free choices
of the step that would read the clock. The code names the most recently parked thread;
the model leaves open which of the parked ones is named. The completion ring is a
queue of claims and publications, its drain one step (`Ring` justifies the first).
`ReadIdle` reads two words, `Credit` reads and adds. A thread's own channel is
never full; the lane's socket may be, and then `_poke` (`offload.mojo` 1637) drops the wake
and its credit, added at 1439 before the send, stays out. `_offer_until`'s deadline does
not expire. Not modelled: the eager rules
behind `M0_POOL_ELASTIC=0` with `_chain_wake`, the datagram mode without rings, the
executor's batches, stream frames and acks, the interpreter lock's turns, a thread
that dies while it is made. A pill kept for later (`_TR_PILL`) is in the model; the
invariant of section 4 says that none ever is, because a wake that is owed lies in front of
the pill.

**Runs**, both with two threads and two slots:

* `PoolParks`: a WebSocket message and the progress rule over a socket of one datagram;
  each thread has a channel, or one has none, or neither has (then one slot sends).
  `SomeoneAwake` (nothing queued is behind sleepers only), `LoopHears` (no completion is
  behind a waiting loop), `WakesExact` (the words the rules read equal what they count, and
  no channel keeps a wake into the next park), `OneOwner`. `SomeoneAwake` has one exception:
  where no thread has a channel, as many dropped wakes as there are threads leave credits
  for all of them, and `ReadLaneParked` then sends no wake any more; the loop's next look,
  a second later at most, does not help either, since it sends nothing but wakes.
* `PoolLives`, one lane after another: under the free-threaded rule every job is answered
  (`JobAnswered`), and the loop's one-second timeout (`tick`) is not what answers it; with a
  view that may never return, what is queued behind it is taken by the other thread
  (`JobTaken`, here with the timeout); a stop over a socket full of messages retires
  every thread, when all have a channel or none has (`StopRetiresAll`).

Two threads are enough for the protocol's pairs: one that parks against the loop that
wakes, one that takes what the other was woken for, one busy while the other sleeps.
Three would add only who among several sleepers is named, on which no property turns.

**Fairness.** Weak on threads, the loop and views that are not stuck; strong on
`SpinOver`, `LookAged` and some thread's `LookPolls`, because each is a comparison with
the clock, which in the end comes out true.

### 3.3 `Ring` and `ClaimQueue`

`head`, `tail`, `seq` and `val` are the ring's words, `pc`, `pos` and `arg` a process
inside `push`, `pop`, `is_empty` or `peek`, one access a step. `RingUses` checks both
uses the pool makes of it (`Uses`): the loop pushes, asks and peeks while two threads
pop; two threads push while the loop pops and asks. `Implements` is the abstract queue
of `ClaimQueue`, a place being claimed, then published, taken from the front only when
published: what was claimed first is taken first, once, whole. `NoRace`: no plain value
is written while another process reads or writes it. `NeverRefused`: a ring with a cell
for every slot never refuses one ("Neither can actually fill", `complete`).
`EmptyExact`: for its only consumer `is_empty` is exact. Two cells and seven pushes go
three laps round; the sequence words' 64 bits are never reached. Accesses are
sequentially consistent, which is what the code's defaults ask for.

### 3.4 `LoopSlots`: one loop's connections

**State.** `slot` is what the loop knows of each slot (the descriptor, the state's kind,
the buffer as positions in the client's script, the clock `due`, whether its read
interest is armed, whether it is offloaded); `net` each connection's client, socket,
epoll interest and body timer; `queue` the idle and head queues; `free`, `active`,
`inflight` and `job` the provisions, the counts and the pool. `phase`, `batch`, `pc`,
`at`, `joining` are the loop in its pass.

**Steps.** A handler runs as a sequence of steps of one control point, each up to a
system call whose outcome clients decide: `_handle_read_headers` (`ReadFails`,
`ReadWaits`, `ReadHead`), `_frame_buffered` (`Frame...`), `_read_body`,
`_process_request` (`Offload`, `Answer`), `_finish_response` (`Finish...`), `_after_send`
(`SentLast`), `_end_request`, `_drain_pipelined` (`DrainNext`, `DrainOver`); then `_on_read`,
`_on_write`, `_on_timer` by event; `_sweep_deadlines` (`Expires`); `_accept_batch`,
`_borrow_slot` and `_reclaim_slot` (`Accept`, `Borrow`, `Full`, `Reclaim...`);
`_complete_one` (`Completes`), between any two events.

**Abstracted.** Linux's backend only: one registration a descriptor, edge-triggered, a
write one-shot replacing the read. Time is free: a deadline may have passed whenever it
is looked at; every timeout and reclaim is on, the keep-alive cap off. Handlers answer
no stream, WebSocket or file. A refused request of any kind, a buffer over its limit
included, is "x"; a handler that raises is one that closes. A batch of accepts is taken
whole, the linger's read budget is not reached, registrations do not fail, descriptor
numbers are not reused and the server does not stop. What a free slot keeps of its last
connection is blank.

**Run** `LoopSlots`: one slot, two connections, one with any of seven scripts
(pipelined requests, heads and bodies over several reads, a body cut at a read's end, a
refused request, one over the limit, a Connection: close), one simple. One slot makes
every admission a reclaim or a refusal; two bytes a read cut every script somewhere; two
partial sends make an answer wait, and wait again. `AnswersItsOwn` (a pool thread's
answer goes to whoever asked), `CanEnd` (every wait on a client has the right clock, and
what may be taken back can be found), `NothingMissed` (no lost edge, no whole request left
in a buffer), `LastAnswerLast` (a half-closed client is not closed before its last answer).

**Fairness.** Weak on the loop, on a view's return and on a client's reading what it
is sent; no property of the run needs it.

### 3.5 `Supervisor`: forks, signals, verdicts

**State.** Per process: `state` is where it is between its fork and its end ("young":
still under the handler it inherited; "reset": on the default action; "unarmed",
"serving", "draining"), `index` the worker it is, `told` the stop recorded in its copy of
the supervisor's word, `sent` a SIGTERM pending. `childPids` is the supervisor's list and
`length` how many entries it has, fewer than there are workers if a stop ended the first
forks early (a reload forks again only what is of the list); `published` the one its handler reads; `pc`, `at`, `by` its main code; `freed`, `remaining`,
`recent`, `rapid`, `respawnCount` and the three verdicts are its fields of those names.

**Steps.** `OnSignal`, the handler, between any two steps of the main code; `ForkNext`,
`Fork`, `Publish`, `PassOn` for a child of any origin; the reaps by what they decide
(`ReapClean`, `ReapStopped`, `ReapRefused`, `ReapStopping`, `ReapGivesUp`, `ReapRespawns`,
`ReapRest`); `Reload`, `ReapDrained`, `KillLate`, `Refork`; `Over`. A worker's `Reset` and
`Forget` are the two halves of `_forget_supervisor_signals`.

**Abstracted.** SIGTERM and SIGINT are one signal. Whether a crash was a rapid one, and
whether a respawn is still inside the window, are free choices. Left out: a fork that
fails, ECHILD, the branch for a platform without the signal word, a PID the kernel
hands out again while its old holder is still listed.

**Runs.** `Supervises`: two workers, two PIDs, two faults, one respawn in the window, one
reload, one signal to the supervisor, its group or a worker. One signal is enough: a
second changes nothing once the first is recorded, and where the first may fall is
everywhere. `GoodEnd` (no worker outlives the supervisor, which exits with 78, 1 or 0 as it
should), `OneHolder` (who runs holds its index, alone and listed), `EveryoneTold` (once
a stop is recorded and the supervisor waits again, nobody is left untold), `StopEnds`.
`SupervisorAdopts` is a finding: four PIDs, two of them of processes it did not fork.

**Fairness.** Weak on the handler, on the supervisor's main code, on each worker's own
steps and on the delivery of what is pending: processes run, signals arrive, a drain has a
deadline. Nothing has to crash, refuse, be stopped or be edited.

### 3.6 `Streams`: bodies from pool threads

**State.** A thread: `pc`, its slot `at`, its stream's generation `nth`, what it has `made`,
the piece in `hand`, its `credit`. Between threads and loop: `jobs` and `ring` (queues, by
3.2 and 3.3), `parked` responses, `chunk` the chunk channel, `pair` each thread's ack
pair, `slotAckFd` which pair takes a slot's acks, `posted` the aborts. The loop: `slots`
(what it sends, what it `owes` for a buffer half sent, what is still `owed`), `handler`
(the registry: who is subscribed, what is pending, which generation), `aborts` and `due`.
History: `wire` is what the client has, `body` what the application produced, `marks` what
went wrong.

**Steps.** `Take`, `Begin`, `BeginRefused`, `Complete`, `Yield`, `Stop`, `WaitAck`, `Place`,
`PlaceRefused`, `PlaceWaits`, `GiveUp` and `Abort` are `pool_worker_main` and `stream_pump` between two
channel operations. The loop's: `Ask`, `DeliverBusFrames`, `ReadChannel`, the completions
(`CompleteStream`, `CompleteHead`, `CompleteRefused`), `ServeAbort`, `WriteReady`,
`ClientLeaves`, `RetryOwedAcks`, and the visit of named streams (`PassBy`, `DrainBytes`,
`DrainLast`, `ForgetDue`).

**Abstracted.** Bytes are units; a buffer lands whole, waits with a rest, or fails. The
give-up after five seconds without room may come whenever there is none. Not modelled:
compression and its flush timer, file bodies, WebSockets. A slot's buffer that an abort
overtakes is not held to `BodyTrue` (section 5).

**Run** `StreamsFlow`, four servers in one: a connection served by two threads in turn
(old frames, acks and aborts meet the next stream); two connections and one thread
whose pair holds one ack (acks refused, kept owed, credited to the wrong stream);
close-delimited bodies and HEADs; a window of two units and pieces of one or two.
`BodyTrue` (a client has its own stream's bytes in order, called complete only when it has
all of them), `InWindow` (credit and what is under way never exceed the window),
`ThreadsReturn`, `StreamsEnd`. Three kinds of stream are excused by their marks, of which
section 5 tells: "deaf", whose disconnect the pair refused, and "starved", whose thread threw
credit away, from `ThreadsReturn`; "paid", credited with an earlier stream's ack, from `InWindow`.

**Fairness.** Weak on each thread, on the loop's pass and on a waiting write: a client
reads or its end fails. Nobody has to leave or to ask.

### 3.7 `Holds`: the bus and the journals

**State.** `counter` is the shared id; `posting` a worker's application between two
channels; `bus` each worker's channel, which outlives it; `loop` each worker's registry
(`url`, `last`, `pending` by slot) and journal (`floor`, `head`, `journal`); `client` the
id each client saw last and where its request is. `read` and `before` are history.

**Steps.** `Publish` numbers a frame, `Post` writes it to one worker's channel, or finds
that full and drops it; `Hold` is a request answered on the loop, `Ask`, `SendHold`,
`HoldUnavailable` and `Complete` one answered by a pool thread; `DeliverBusFrames` reads the
channel to its end; `DrainOutbox` hands an outbox over; `Leave`, `Respawn`.

**Abstracted.** One channel name is followed, a second has frames of its own. A
worker's death and its replacement's start are one step. Not modelled: frames without a
number, WebSocket holds, publishers in Mojo that skip their own channel, the Datastar
stream's own journal, grants, a client that leaves before its held head is answered.

**Run** `HoldsReplay`: two workers, one client of two visits, three frames, channels of
two, journals of two or none, outboxes of one or two, one worker lost. Two visits are one
that learns an id and one that brings it back, to either worker; three frames are
one seen, one missed and one past the journal. `InOrder`, `AllOrNothing` (who comes back
gets every frame its worker had read or is told of a gap and gets none), `NeverAhead`.
A frame that arrives behind a newer one is suppressed live, as
`docs/notes/a-hold-that-replays.md` says; `InOrder` is about order, not about such a loss.
No liveness is claimed: a full channel drops.

### 3.8 `Executor`: ASGI tasks

**State.** `stage`, `at`, `gone`, `woken`, `made`, `end` are the tasks, and `event` names the
stream whose entry of `_exec_credit_evts` each took for its send (`_emit`'s local `evt`: a
slot has a new event with each stream, so an ack or a tag wakes only those who wait on
the present one). `owner`
(`_exec_slot_task`), `open` and `credit` (`_exec_credits`), `inflight`, `global` and `gens`
the shim's tables; `pendingDone` the completions parked for the next flush; `submit`, `acks`,
`chunk`, `comps` and `parked` lie between executor and loop; `slots`, `handler`, `batch` and
`aborts` are the loop's. `wire` and `marks` are history.

**Steps.** What runs between two awaits: a task's `Answer`, `StreamStart`, `Send`, `Resume`,
`Final`, `Return`, `Cancelled`, its done callback `Report`; the callbacks `Spawn`,
`OnDisconnect`, `OnAck`, `Flush`. A task whose slot's tables a successor has cleared away,
which takes a dropped tag, sends no more: the look-up raises (`Raises`, and `Return`'s cut).
The loop's steps are those of `Streams`, without
partial sends.

**Abstracted.** A task and its request have one number, which is also its stream's
generation. The loop's ack, chunk and completion channels take everything; only the
submit channel may be full. Not modelled: WebSockets, `receive()`, HEAD and bodyless
responses, several senders to one stream, the inverted loop (`M0_INVERTED`), several lanes,
the drain at shutdown. Two kinds of stream are excused by their marks: "paid" and
"unheard" (section 5).

**Runs.** `ExecutorServes`: one slot and two requests under an application that may stream,
answer at once, linger past its body, raise, or cancel a send; and two slots whose
streams share a common window of one piece. `BodyTrue`, `InWindow`, `WindowReturns` (the
common window is short only by what is on its way back), `RoomComes` (who waits for
room gets it or hears that the client left), `StreamsEnd`. One slot is what makes a
task meet its successor; a window of one makes every second piece wait.
`ExecutorStray` is a finding: a submit channel of one datagram.

**Fairness.** Weak on the flush, on the readers of both channels, on each task and on
the loop: asyncio runs what is due, and clients read. Nobody has to leave or be cancelled.

`CHECK_DEADLOCK FALSE` stands only in the runs whose server may really stand still: it has
ended (the runs of `AcceptShare` and `Supervisor`, `PoolLives`), or has nothing to do and no
client that comes again (`HoldsReplay`, `ExecutorServes`, `ExecutorStray`).

## 4. What is proved

`AcceptShareProofs` proves, for every finite set of workers, any set of connections and
all bounds, from `ConstantsAssumption` alone:

| Theorem | Says |
|---|---|
| `TypeCorrect` | `Spec => []TypeOK` |
| `CountNeverBelow` | `Spec => []PendingCovers`: a worker's count is never below what is in flight to it |
| `LeaversMarked` | `Spec => []LeaverIsMarked`: who left, exited or was reaped reads as left |
| `HandshakeSafe` | `Spec => []NothingStranded`: a channel read for the last time stays empty |
| `CountExact` | `Spec => []PendingExact`: while nobody is killed the count is exactly what is in flight |
| `DrainsEnd` | `Budgets # "any" => (Spec => []BudgetUnspent)`: nor is any drain's budget spent |

The first four are projections of one inductive invariant, `Inductive`. `NothingStranded` alone
is not inductive: that a drain may end needs to know that a count of nothing owed means
nothing in flight, which is `PendingCovers`, and that no new sender passes the check,
which is `LeaverIsMarked`. `PendingCovers` in turn needs to know what a death gives back:
`TakenWithin` says that the shared `taken` never exceeds what its process received and is
zero once that is retired, so a replacement or the supervisor never retires a hand-off
twice; `Reaping` that the supervisor drains only an index it has reaped. `Flow` ties a
worker's place in the code to its locals, and `HeldFinite` lets a pass publish how many
connections it holds. Each part is preserved by a lemma of its own (`TypeStep`,
`FlowStep`, `HeldStep`, `TakenStep`, `ReapingStep`, `MarkedStep`, `CoverStep`,
`StrandedStep`), one step per action. Where a step touches several words at once, lemmas
carry the type or the counting: `SignalType` for a signal, `NatSum`, `FallsWithin`, `Covered`
and `Framed` for what a step adds to and takes from a count, `FallsTogether`, `RisesByOne`,
`TradesPlaces` and `Settles` for the four ways in which `CoverStep` meets one.

`PendingExact` is not the other half of `PendingCovers` but a second invariant, `Exact`: with
no one killed the supervisor never gets as far as respawning or giving up (`Calm`), so it
retires nothing, and what remains is an equation per worker (`Counted`) that every step keeps
(`ExactStep`). The one place where it could fail is the floor at zero in `pass_end`, which a
count that is exact never reaches; and an exit, after which the words go on counting by the
shared `taken`, which `TakenWithin` says is zero there. `BudgetUnspent` follows: where a budget
outlasts a live sender's send (`Budgets # "any"`, section 3.1), it is spent only with the
channel empty and no send outstanding, and an exact count then leaves nothing to wait for.

It proves of the connections themselves, again from `ConstantsAssumption` alone:

| Theorem | Says |
|---|---|
| `ServedOnce` | `Spec => []OneHome`: a connection is in exactly one place, whoever dies and wherever |
| `HandedOnFew` | `Spec => []MovesBounded`: while no worker is replaced, at most as many moves as workers |

`OneHome` counts places, which no step's proof can work with. `InPlace` says the same by a
witness: some assignment of a kind of place and an owner to each connection says where it is,
and every step gives that assignment's next value at the connection it moves (`EndsMove`,
`AcceptMove`, `PostMove`, `ReceiveMove`, `EndMove`, ...). Two facts go with it: `Once`, that no
channel holds a connection twice, and `HandFlow`, that a hand is full only where the code goes
on with what is in it, so that nothing is overwritten there.

`MovesBounded` needs to know who has already passed a connection on. `Passed` bounds the moves
of what a worker holds by one more than the number of *other* workers that have left: its
acceptor's hand-off, and one for each leaver. A leaver that routes a connection onwards adds
itself to them, its own word being set by then (`LeaverIsMarked`). A send past its second read
of the target's word cannot count on that worker, which may leave the next moment; it is covered
because the target had not left when the sender read it, so nobody counted it (`RecheckPassed`,
`PostPassed`). That a word which reads left stays so is true only while no index is forked
again (`LeftForGood`), which is the hypothesis of the property.

`SupervisorProofs` proves, for any number of workers, faults, signals and reloads and any
finite set of PIDs, from `SupervisorAssumption` and one hypothesis, `Adopted = {}`: the
supervisor is the parent of nobody but the workers it forked. `SupervisorAdopts` shows that
without it `NoOrphan` is false.

| Theorem | Says |
|---|---|
| `HoldersAlone` | `Adopted = {} /\ Spec => []OneHolder`: who runs holds its index alone, and the list names it |
| `EndsWell` | `Adopted = {} /\ Spec => []GoodEnd`: `fork_all` returns when every worker is gone, with a code that says what happened |
| `StopReaches` | `Adopted = {} /\ Spec => []EveryoneTold`: a stop recorded misses nobody |

Again they are projections of one invariant, `Inductive`, with a second, `Judged`, for the
exit code. `Listed` says that `child_pids` and the processes name each other, both ways:
`OneHolder` is half of it, and alone would not survive a reap, which clears every entry that
holds the PID. A fork keeps it because its index is vacant, which is `Placed`: the first
forks fill the list from the left, and a respawn takes the index its own reap has freed.
`NoOrphan` follows from `Listed` and `Awaited`: `remaining`, kept by decrements and compared
with nothing, is what the list holds, one more while a replacement is forked, so that the
loop ends on an empty list. `EveryoneTold` needs `Reached`: between two forks the handler
reads the supervisor's own list, and once a stop is recorded a signal is on its way to
whoever has not taken one; between a fork and the `PassOn` that ends its publication this is
false, and `PassOn` makes it true again from `Listed`. `OneLess` and `OneMore` count a
list's entries, `Reaping` is a reap's effect.

`ExitTells` compares counts of the whole run with three flags, so `Judged` says what they
have in common at every step: a refusal is in `configRefused` or waits to be reaped; the
crashes are at least the respawns and the failed not yet reaped together, and more than
these exactly if `gaveUp` or `failedStopping` is set. At the end everybody is reaped
(`Inductive`), and the flags are the counts. A reload judges nobody, so all of it is under
`~polling`, as the property is.

`RingProofs` proves, for every capacity of at least two, any number of producers, of
consumers and of pushes and any finite set of slots, from `RingAssumption`: that only a
ring's one producer peeks, and that only finitely many processes pop.

| Theorem | Says |
|---|---|
| `Types` | `Spec => []TypeOK` |
| `WordsAreOwned` | `Spec => []NoRace`: no value is written while another process reads or writes it |
| `RefusesNobody` | `Spec => []NeverRefused`: with one consumer and a cell for every slot no push is refused |
| `AnswersExactly` | `Spec => EmptyExact`: what `is_empty` tells the only consumer is true |
| `Implementation` | `Spec => Implements`: the algorithm of single accesses is the queue of `ClaimQueue` |

The invariant says of each of the last `Capacity` places claimed whose turn it is
(`Turns`): a sequence word `n` is its producer's, `n + 1` published or its consumer's, `n +
Capacity` free for the next lap. A process that holds a place holds it alone (`Owned`). A
compare-and-swap goes by a word read earlier; `Seen` says why this is sound: while the
counter it means to move stands still, so does the word. `NoRace` is a corollary, and the
only arithmetic is that two places of one lap never share a cell (`CellsApart`). The place a
`ClaimQueue` step stands for follows: the refinement has one step per atomic claim,
publication and take, everything else stutters. `NeverRefused` needs a count. A push is
refused where the oldest place is not released, and a single consumer releases in order, so
no place is: each carries a slot, full or about to be filled, the refused push one more, and
all differ (`Carried`, `Apart`), `Capacity + 1` slots out of `Capacity`.

`PoolWakeProofs` proves, for any number of threads, any finite set of slots, any size of the
socket, any number of messages and any set of deployments, from `PoolAssumption` (the
markers are no slots, and two views that never return serve different slots):

| Theorem | Says |
|---|---|
| `Types` | `Spec => []TypeOK` |
| `SlotsHaveOneOwner` | `Spec => []OneOwner`: a job is on the ring, in one hand or finished, once |
| `CompletionsAreHeard` | `Spec => []LoopHears`: no completion is behind a waiting loop |
| `WordsAreExact` | `Spec => []WakesExact`: the wake words count what they stand for |
| `QueuedIsSeen` | `Spec => []SomeoneAwake`: nothing queued is behind sleepers only |

`LoopHears` needs only that the loop's flag is up from before its last look (`Flag`) and
that what is unpublished has its producer (`Cells` of `Owners`). `WakesExact` rests on
`Records`: a registered thread's channel holds its wake exactly while its record says
woken and it is not past reading it, and never more than that and one pill.

`SomeoneAwake` says nothing of a search under way, and is far from inductive. `JobUp`
extends it to every state: while there is a job, some thread `Stirs` (it has yet to look at
the ring before it blocks, or a wake is on its way to it), or the search cannot end without
waking one (`Seeking`). A thread that stirs and takes the last job ends the obligation; one
that stops stirring has found the ring empty, since its announcement comes before its look.
A search ends early in three places, each of which needs an exact word. `ReadSpinners`:
somebody spins, and who spins has yet to look (`Spins`). `ReadIdle`: more threads are alive
than parked, so one is not, provided the counts are those of the sleepers (`CountsExact`;
`AllSleep`, `SleepCounted`). A scan past every record: it has seen nobody parked, and
a thread behind it that parks meanwhile looks at the ring after its announcement
(`ScanFinds`). What is left is the lane without any channel: all its threads sleep on the
socket, `parked` is N, and a credit already out for each of them would be a wake in the
socket, on its way or lost; hence `lost < N` and the exception section 3.2 describes.
`MessageUp` is the same for a message where every thread is registered. `NoPills`
and `Stops` keep pills out of all this until the loop stops.

The proof is a lemma per part and side: a thread's steps (`RecordsThread`, `StopsThread`,
`CountsThread`, `JobUpThread`, ...), the loop's (`RecordsLoop`, `CountsLoop`, `JobUpLoop`,
...), and lemmas on what any step may do to one word (`ThreadKeeps`, `LoopKeeps`, `JobMoves`,
`SockMoves`, `WordMoves`). The invariant was checked by TLC on both runs' deployments first,
which is where the dropped wake was met.

`LoopSlotsProofs` proves, for any set of connections and number of slots, any scripts, size
of a read and number of partial sends, from `LoopAssumption` (markers are no slots or
connections, slots are finite and numbered, a head that announces a body has one):

| Theorem | Says |
|---|---|
| `Types` | `Spec => []TypeOK`, the count of slots held and the borrowed provisions with it |
| `AnswersGoHome` | `Spec => []AnswersItsOwn`: an offloaded slot is never recycled |
| `WaitsEnd` | `Spec => []CanEnd`: every wait has its clock, what may be reclaimed can be found |
| `NothingIsMissed` | `Spec => []NothingMissed`: no lost edge, no whole request left in a buffer |
| `LastAnswersLast` | `Spec => LastAnswerLast`: a half-closed client gets its last answer |

The four properties speak of slots at rest; a handler runs in a dozen steps, and between two
of them all four are false. `Sound` says what is true of a slot at any control point:
`Placed`, which state and owner it has where; `Fits`, how its buffer's positions stand to
what its client has sent; `Ends`, why an answer is to be the last; `Scans`, that what was
scanned holds no end of a head, so that a slot which goes back to waiting leaves no request
behind; `Hears`, that an armed slot has an edge in the kernel or in the batch for whatever
it has not read, and for an end it does not know; `Clocks`; and `Waits`, the queue
it is on. Parked states owe more than running ones: `Hears` is why `_end_request` may drain a
buffer before it re-arms, since arming looks at the socket anew (`ArmReadsFacts`).
`Connected` is why an event finds its slot, and what makes a stale one harmless: no
two slots share a connection, and an end that a batch reports has happened. `Once` says a slot
is on one queue, once; without it the `Unqueued` of a slot that starts a head leaves it
behind on the other one, and a reclaim takes a slot in the middle of a request.

A step touches one slot. `SlotStep` shows once what that leaves of the others, of the counts
and of the queues, given the new record of the slot (`Becomes`); `CloseStep` does the same for
a close, `PointStep` for a step that moves only the control point, `ClientStep` for what a
client does to its socket. Each action's lemma then argues about its own slot, a step per part
of `Sound`. `HeadEndFacts` is the scan, least position first, by the well-foundedness of the
numbers; `UnqueuedFacts` and `PushBackFacts` are the two queue operations. TLC checked
`Inductive` first, with one slot and with two (3,983,173 states of the one configuration): a
run of two slots is beyond what section 3.4's run can afford, and the theorems now cover it.

`HoldsProofs` proves, for any number of workers, slots, clients, channels and frames, any room
on the bus and any servers, from `HoldsAssumption`:

| Theorem | Says |
|---|---|
| `Types` | `Spec => []TypeOK`, the bounds of channels, outboxes and journals with it |
| `NobodyAhead` | `Spec => []NeverAhead`: no stream stands at an id that was not given out |
| `FramesInOrder` | `Spec /\ Kept => []InOrder`: in the order of the ids, once, past what was seen |
| `CaughtUpOrTold` | `Spec /\ Kept => []AllOrNothing`: all that was missed, or a gap and none of it |

`Kept` says of the one server that a behaviour is about that it does not both hold streams on
pool threads and lose a worker: of such a one the two properties are false (section 5, the
hold left on a channel), and `HoldsReplay` checks none. All four come of `Inductive`. `Given`
bounds every id by the counter; `Fresh` says that a frame comes to a worker's channel once and
to whoever reads it once, which needs to know how far its writer has come: a frame is on no
channel at or past `posting.next`. `Journaled` ties a journal to what was read: all of it
above the floor, and nothing else. With these, a stream's `Law` survives each frame: a
frame just read is none of those from before the hold (`Fresh`), so it joins the end of a line
that stays in order (`LawfulMore`); and a replay is owed exactly the journal past the id
(`Journaled`), which `Upward` has it bring in order or not at all. `Placed` says whose a slot is:
one client's, with at most one hold for it on the channel, and until that is read it is idle.

Two operations are folds, and what they compute is an induction over their sequence.
`NatSet` and `Along` are induction on a set of numbers, from their well-foundedness, which
needs no operator for a parameter; `FoldsExist` makes a fold's function by it, so that
`ReplayedWalk` and `DrainedWalk` can say of the journal and of the channel that the fold is a
walk, one state a frame. `ReplayedFacts` and `DrainedFacts` then go along it. `Keeps` is what
any step may do to a slot it is not about, so that each action's lemma (`PlacedHold` to
`PlacedRespawn`) argues about its own. TLC checked `Inductive` first, on `HoldsReplay`.

`ExecutorProofs` proves, for any number of slots and requests, any windows and any
application, from `ExecutorAssumption`:

| Theorem | Says |
|---|---|
| `Types` | `Spec => []TypeOK` |
| `TrueBodies` | `Spec /\ []HasRoom => []BodyTrue`: a client's bytes are its own task's, in order; complete means all |
| `WithinWindow` | `Spec /\ []HasRoom => []InWindow`: no stream has more than its window in credit and under way |
| `GivenBack` | `Spec /\ []HasRoom => []WindowReturns`: what the common window lacks is on its way back |
| `NoTagDropped` | `Ample /\ Spec => []HasRoom` |
| `AmpleServes` | `Ample /\ Spec => [](BodyTrue /\ InWindow /\ WindowReturns)` |

`HasRoom` says that the submit channel is not full, so that the tag of a client that leaves is
not dropped; without it `BodyTrue` is false, and `ExecutorStray` is the behaviour (section 5). `Ample` says the same of the deployment: room for more than a job and a
tag of every request there is. `ExecutorServes` has room for eight, and two requests. It is
more than the code configures in general: the channel is a socket buffer and requests go on
coming, so that `HasRoom` is what a deployment has to see to.

The trouble with this module is that a slot is used again while things that speak of its
last stream are still under way in five channels, each with its own order. `Inductive` says
what they may still hold. `Fresh`, `Numbered`: a request is handed over once, and a task that
has begun no stream has left no trace of one (`NoTrace`), so that a new number is new
everywhere. `Homed`: whatever names a stream on a slot's behalf names one of that slot.
`Turns`: a slot has at most one response outstanding, and is out while it has
(`Outstanding`). `Completing`: a completion is for the response that is parked, and there is one,
in three places it may be in. `Aborting`: an abort is of a body that failed. `Owning` is the
heart: who may still send either serves its slot's client (`Serving`) or will hear that the
client left before anything of the slot's next request (`Departing`); this is what
`[]HasRoom` buys, and what keeps a task off its successor's slot. `Ordered` is the chunk channel, a
begin before the frames of its stream and an end after them; `Registered`, the handler's registry against the
slot; `Served`, that what lies on the wire, with the handler and on the channel is together what the task has sent,
number by number (`Streaming`); `Answered`, what is left of it when the slot is free. From `Served` and
`Answered` comes `BodyTrue`. `Refunded` and `Charged` are the two windows: they are stronger
than `WindowReturns` and `InWindow` in counting only the pieces that the handler will really
take (`Coming`), and only live tasks.

`Steps` puts every action of `Next` into one of some twenty flat effects (`Step`), each with its
guard, its primed variables and nothing else, and each part of `Inductive` has its
lemma (`NumberedStep` to `ChargedStep`), one step per effect. Folds are walked as in
`HoldsProofs`: `PayingWalk` counts the acks, one more brings what it brings (`PayingMore`,
`PayingLess`); the common window's sum changes in one slot at a time (`SumUpdate`); a delivery of
frames is a walk along the channel on which each frame keeps `Come`. `NoTagDropped` adds
`Sparse`: what lies on the submit channel and the slots that have still to send a tag are no more
than two for each request. TLC checked `Inductive` first: 234,323 states of `ExecutorServes`,
4,069,823 with three requests of one slot, and with three of two slots while `HasRoom` holds.

`StreamsProofs` proves, for any number of slots, threads and requests, any room on the chunk
channel, any windows and pieces, from `StreamsAssumption` alone:

| Theorem | Says |
|---|---|
| `Types` | `Spec => []TypeOK`, that credits never go below zero with it |
| `WindowKept` | `Spec => []InWindow`: a stream's credit and what it has under way stay within its window |

`InWindow` adds up five places: the thread's credit, the frames on the chunk channel, the
pieces in the registry, what the slot's buffer owes and is owed, and the acks on the way back. A step moves
units from one to the next, so the sum would be easy if each place held one stream. But
slot, registry and ack pair serve one stream after another, frames and acks of the
last one are still under way when the next begins, and an ack names a slot and no generation.
`Inductive` says why they are not taken for the new stream's. `Counted`: a thread has as many
generations as requests, so no two streams ever share one (`ItsOne`). `Turns`: a slot's response is
outstanding in one place, a job, a thread before its head, or the ring. `Framed`: a frame on
the channel is of a stream already begun (`Known`), and a begin frame of one that its slot still waits
for, so that it opens no registry for a stream that is over. `Settled`: what a slot serves, has parked or has in the
registry is a stream begun for that slot. `Heard`: a thread in its body whose slot acks to it
is the one the slot serves, or the slot's client is gone; this is what keeps a later stream's
acks from an earlier thread, and the other way round. It has one
exception, an ack owed by a slot across two streams (`RetryOwedAcks`, section 5), which marks its
thread "paid". `Charged` extends `InWindow` to a thread that has yet to begin its body, with a quota of
nothing, and to one that only has to end it. `Working` says that a thread places nothing its credit does not cover.

The loop's handlers differ in how they get at a slot and agree in what they leave: `Turn` is that
effect, of one slot, with what was delivered before it (`From`), what was acked and what the
slot and registry keep. Each handler's lemma (`CompleteStreamTurn` to `DrainLastTurn`) shows
that it is one, from the ways to leave a slot (`Outcome`); `Steps` puts every action into one of
ten effects, and each part of `Inductive` has one lemma over these. `ChunkSum` and `CreditSum` turn the
two folds of `UnderWay` into sums along a sequence, of which one element more or fewer changes
its weight. TLC checked `Inductive` first, on the servers of `StreamsFlow` and on larger ones at random.

Only model-checked of the safety properties: `BodyTrue` of `Streams`, which needs, beside
`Inductive`, the order of the frames and what lies on the wire against what was produced, as
`Served` and `Answered` say it for `Executor`. Out of the provers' reach and left
to the model checker for good: liveness under fairness (`Answered`, `StopEnds`, `JobAnswered`,
`JobTaken`, `StopRetiresAll`, `ThreadsReturn`, `StreamsEnd`, `RoomComes`) and ENABLED.

## 5. Where the code and its words disagree

Two runs show one; TLC finds the property violated.

* `SupervisorAdopts`: both supervision loops wait for any child, and count whatever they
  reap (`multiworker.mojo:691`). As PID 1 of a container the supervisor adopts processes
  it never forked; as many clean exits of those as there are workers, and it exits 0 with
  every worker serving.
* `ExecutorStray`: the tag that says a client left is dropped when the submit channel stays
  full (`handler.mojo:2300`). Its task is never marked gone, and what it goes on sending is
  stamped with the generation of the stream that has the slot by then: that
  client reads another response's bytes inside its own. If it was waiting for credit when
  the slot went to that stream, nothing wakes it any more: its event is in no table.

Met on the way and shown by no run of their own. In the hand-offs and the loop:

* `accept_share.mojo` 92-94 says that a connection moves at most `workers - 1` times; the
  acceptor's own hand-off makes it `workers`, the bound `MovesBounded` states.
* A replacement told to stop before it binds exits 0 (`multiworker.mojo:254`); the supervisor
  takes that for a drain done, and what was queued for its killed predecessor waits until
  the server stops, the very wait `accept_share.mojo` 271-280 closes a channel for.
* The comment at `loop/request.mojo` 180 says that no event reaches a slot that is answering; a
  completion taken before the read event of the same batch refutes it, harmlessly
  (`OnReadResponding`).
* A body timer's expiry behind the read that completes its body, in one batch, closes the
  connection for the body of the next pipelined request (`loop/timers.mojo:84`).

In the pool:

* On a lane where only some threads got a channel, a registered thread may read the pill
  meant for one that has none (`offload.mojo:1284`); the other then never leaves.
* `jobs_pending` reads a ring's head and then its cell; a pop in between makes a ring
  with a job on it read as empty (`offload.mojo:1451`), and the loop's wait is not bounded by
  that job's threshold. Nothing is lost: the wait ends by itself.
* The credit of a wake on the lane's socket is counted before the send
  (`offload.mojo:1439`) and not taken back when the send gives up (`offload_wire.mojo:122`:
  "a wake [...] is dropped"). Where no thread has a channel of its own, as many such losses
  as threads end the wakes for good: only what is in the socket itself still moves them.

In the supervisor: a worker that crashes in a reload's drain after a stop was recorded is
judged by nobody, and the exit code is 0 (`multiworker.mojo:892`; `docs/SPEC.md:166` has D10
say otherwise).

In streamed bodies:

* A thread that waits for room on the chunk channel reads acks and throws away their
  credit (`handler.mojo:2161`); it may then wait for ever for an ack that has come ("starved").
* A disconnect that the thread's pair refuses is dropped (`handler.mojo` 2070-2078): the
  thread waits on for a client that has gone ("deaf").
* The bytes of an abort are sent even if the slot still has half a buffer to send, and
  so overtake it (`loop/offload.mojo:169`, against the promise at 148).
* Credit owed from a slot's last stream, retried between the next stream's begin and its
  head, is given to the next one ("paid"; `response.mojo` 427-430 clears it only at the head).

In the bus: a hold's frame names a slot and no generation, on a channel that outlives its
worker; read by the replacement it subscribes a slot that nobody holds
(`handler.mojo:1427`), and subscribing does not clear what has collected there
(`registry.mojo:57`), so the slot's next hold may begin with it.

In the executor:

* An ack for the slot's last stream that arrives when the next one has spent of its window
  widens that one's (`m0_shim.py` 1055-1071 takes the `min()` to prevent it; "paid").
* After a wait for the common window `_emit` does not look at the stream's own credit again.
* An abort is posted without the flush that its stream's own completion waits for, so that
  the loop may read it before the head, drop it, and leave the stream open
  (`asgi_executor.mojo` 982-987; "unheard"; an application that raises right after an empty
  first chunk).
* A task that ends gives back the pieces still on the chunk channel, so that many short
  streams together have more under way than the common window (`m0_shim.py`, near 530).
* A `receive()` parked before the final body is never resolved once the next request of
  its slot has taken its place in the table.

## 6. What is not modelled

Modules 5, 10 and 11 of the plan, first of all: the slot queues' links, the rest of the
shutdown drain (what it closes, farewells of held streams, buffered submits) and WebSockets.
What each modelled part leaves out is under "Abstracted" in its section. After them, by
choice:

* HTTP parsing, headers, cookies, URIs, routing, views, HTML, sessions, static files,
  JSON, hashing: functions of their input with no step between two of which anything can
  happen. `LoopSlots` takes the parser's verdicts as a script.
* SQLite, Postgres and Datastar: handles used by one thread each.
* System call bindings: what they do is in the models as the kernel's choices.
* The interpreter side of the WSGI/ASGI host (attach and detach, the environ, the inverted
  executor loop) and its `LISTEN` connection: ordered by the interpreter lock and by
  libraries that are not here.
* The repository's larger half is programs around the server: benchmarks, documentation
  and release scripts, examples. Nothing in them runs beside anything else; they are why
  the map names only a small share of all implementation lines.
* kqueue, whose read and write filters are independent: the hazards of one registration that
  `LoopSlots` is about are Linux's.

## 7. Running it

In this directory, with the TLA+ tools and TLAPS on the path:

    tlc -workers 2 -config AcceptShareDeaths.cfg MCAcceptShare.tla
    tlapm AcceptShareProofs.tla
    tlapm SupervisorProofs.tla
    tlapm RingProofs.tla
    tlapm PoolWakeProofs.tla
    tlapm LoopSlotsProofs.tla
    tlapm HoldsProofs.tla
    tlapm StreamsProofs.tla
    tlapm ExecutorProofs.tla

`PROJECT.json` lists each run's module and configuration. The longest take about two
minutes on two cores, the proofs of each module a few minutes, those of `ExecutorProofs` about
a quarter of an hour. Beside the definitions named in it, each property has a mutant: an
operator such as `SendRecheck_NoReread` that changes one mapped definition as a plausible
slip would, and under which the same run finds the property violated.
