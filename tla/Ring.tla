-------------------------------- MODULE Ring --------------------------------
(***************************************************************************)
(* lightbug_http/ring.mojo: Vyukov's bounded queue, one step per access to *)
(* a shared word.  Every cell has a sequence word that says whose turn it  *)
(* is: a producer's when it equals the cell's position, a consumer's when  *)
(* it is one past it.                                                      *)
(*                                                                         *)
(* The pool (offload.mojo) uses it in two ways.  A lane's job ring has one *)
(* producer, the event loop, which also asks is_empty and peeks, and every *)
(* pool thread of the lane pops.  The completion ring has every pool       *)
(* thread as a producer, and the loop alone pops and asks.  A value is a   *)
(* connection slot, pushed again only once the pop that took it is over.   *)
(***************************************************************************)
EXTENDS Integers, Sequences, FiniteSets

CONSTANTS
  Uses,       \* the ways the ring is used: who pushes, pops, asks and peeks
  Slots,      \* what is pushed
  None,       \* no slot, no process
  Capacity,   \* cells, a power of two (mask + 1)
  MaxPushes   \* bound: pushes in a behaviour

Procs == UNION {u.push \cup u.pop \cup u.ask \cup u.peek : u \in Uses}

ASSUME RingAssumption ==
  /\ \A u \in Uses : DOMAIN u = {"push", "pop", "ask", "peek"}
  /\ None \notin Slots /\ None \notin Procs
  /\ Capacity \in Nat \ {0, 1} /\ MaxPushes \in Nat
  /\ IsFiniteSet(Slots)
  /\ \A u \in Uses : IsFiniteSet(u.pop)
  \* A value is only ever peeked at by the ring's one producer.
  /\ \A u \in Uses : \A p \in u.peek : u.push = {p}

VARIABLES
  head, tail,    \* the two counters
  seq, val,      \* each cell's sequence word and value
  pc, pos, arg,  \* each process's operation: its step, position and value
  got,           \* the value each process popped last
  empty,         \* what is_empty last answered each process
  use            \* which use this ring is put to

words  == <<head, tail, seq, val>>
locals == <<pc, pos, arg, got, empty>>
vars   == <<words, locals, use>>

Cells   == 0 .. Capacity - 1
Cell(n) == n % Capacity
Mine(p) == Cell(pos[p])
PushPcs == {"pushSeq", "pushTail", "pushCas", "write", "publish"}
PopPcs  == {"popSeq", "popHead", "popCas", "read", "release"}

-----------------------------------------------------------------------------
Go(p, from, to) == pc[p] = from /\ pc' = [pc EXCEPT ![p] = to]
At(p, n)        == pos' = [pos EXCEPT ![p] = n]

\* A slot that may be pushed: on no place of the ring, and in no push or pop.
Free(v) ==
  /\ \A n \in head .. tail - 1 : seq[Cell(n)] = n + 1 => val[Cell(n)] # v
  /\ \A p \in Procs : /\ pc[p] \in PushPcs => arg[p] # v
                      /\ pc[p] = "read" => val[Mine(p)] # v
                      /\ pc[p] = "release" => got[p] # v

Pushing == Cardinality({p \in Procs : pc[p] \in PushPcs \ {"write", "publish"}})

\* push: the tail, then its cell's sequence word, until the cell is free.
PushBegin(p, v) ==
  /\ p \in use.push /\ Free(v) /\ tail + Pushing < MaxPushes
  /\ Go(p, "idle", "pushSeq") /\ At(p, tail)
  /\ arg' = [arg EXCEPT ![p] = v]
  /\ UNCHANGED <<words, got, empty, use>>

\* The cell still has its value of the lap before: full.
Refused(p) == pc[p] = "pushSeq" /\ seq[Mine(p)] < pos[p]

\* Mutant: a cell not yet released since the lap before is taken for free.
PushSeq_IgnoresLap(p) ==
  /\ Go(p, "pushSeq", IF seq[Mine(p)] <= pos[p] THEN "pushCas" ELSE "pushTail")
  /\ UNCHANGED <<words, pos, arg, got, empty, use>>

PushSeq(p) ==
  /\ Go(p, "pushSeq", IF Refused(p) THEN "idle"
                      ELSE IF seq[Mine(p)] = pos[p] THEN "pushCas" ELSE "pushTail")
  /\ UNCHANGED <<words, pos, arg, got, empty, use>>

PushTail(p) ==
  /\ Go(p, "pushTail", "pushSeq") /\ At(p, tail)
  /\ UNCHANGED <<words, arg, got, empty, use>>

\* The claim.  A failed exchange leaves the tail it found in `expected`.
PushCas(p) ==
  /\ Go(p, "pushCas", IF tail = pos[p] THEN "write" ELSE "pushSeq")
  /\ IF tail = pos[p] THEN tail' = tail + 1 /\ UNCHANGED pos
     ELSE At(p, tail) /\ UNCHANGED tail
  /\ UNCHANGED <<head, seq, val, arg, got, empty, use>>

Write(p) ==
  /\ Go(p, "write", "publish")
  /\ val' = [val EXCEPT ![Mine(p)] = arg[p]]
  /\ UNCHANGED <<head, tail, seq, pos, arg, got, empty, use>>

Publish(p) ==
  /\ Go(p, "publish", "idle")
  /\ seq' = [seq EXCEPT ![Mine(p)] = pos[p] + 1]
  /\ UNCHANGED <<head, tail, val, pos, arg, got, empty, use>>

-----------------------------------------------------------------------------
\* pop: the head, then its cell's sequence word, until it is published.
PopBegin(p) ==
  /\ p \in use.pop /\ Go(p, "idle", "popSeq") /\ At(p, head)
  /\ UNCHANGED <<words, arg, got, empty, use>>

PopSeq(p) ==
  LET dif == seq[Mine(p)] - (pos[p] + 1)
  IN  /\ Go(p, "popSeq", IF dif < 0 THEN "idle" ELSE IF dif = 0 THEN "popCas" ELSE "popHead")
      /\ UNCHANGED <<words, pos, arg, got, empty, use>>

PopHead(p) ==
  /\ Go(p, "popHead", "popSeq") /\ At(p, head)
  /\ UNCHANGED <<words, arg, got, empty, use>>

\* Mutant: a store in the exchange's place.
PopCas_Stores(p) ==
  /\ Go(p, "popCas", "read")
  /\ head' = pos[p] + 1
  /\ UNCHANGED <<tail, seq, val, pos, arg, got, empty, use>>

PopCas(p) ==
  /\ Go(p, "popCas", IF head = pos[p] THEN "read" ELSE "popSeq")
  /\ IF head = pos[p] THEN head' = head + 1 /\ UNCHANGED pos
     ELSE At(p, head) /\ UNCHANGED head
  /\ UNCHANGED <<tail, seq, val, arg, got, empty, use>>

Read(p) ==
  /\ Go(p, "read", "release")
  /\ got' = [got EXCEPT ![p] = val[Mine(p)]]
  /\ UNCHANGED <<words, pos, arg, empty, use>>

\* Mutant: the mask is added, not the capacity.
Release_AddsMask(p) ==
  /\ Go(p, "release", "idle")
  /\ seq' = [seq EXCEPT ![Mine(p)] = pos[p] + Capacity - 1]
  /\ UNCHANGED <<head, tail, val, pos, arg, got, empty, use>>

\* The cell is the producer's of the next lap.
Release(p) ==
  /\ Go(p, "release", "idle")
  /\ seq' = [seq EXCEPT ![Mine(p)] = pos[p] + Capacity]
  /\ UNCHANGED <<head, tail, val, pos, arg, got, empty, use>>

-----------------------------------------------------------------------------
\* is_empty and peek: the head, then its cell, with no claim.
AskBegin(p) ==
  /\ p \in use.ask /\ Go(p, "idle", "askSeq") /\ At(p, head)
  /\ UNCHANGED <<words, arg, got, empty, use>>

\* Mutant: a cell that is free is taken for one that is published.
AskSeq_FreeCell(p) ==
  /\ Go(p, "askSeq", "idle")
  /\ empty' = [empty EXCEPT ![p] = seq[Mine(p)] # pos[p]]
  /\ UNCHANGED <<words, pos, arg, got, use>>

AskSeq(p) ==
  /\ Go(p, "askSeq", "idle")
  /\ empty' = [empty EXCEPT ![p] = seq[Mine(p)] # pos[p] + 1]
  /\ UNCHANGED <<words, pos, arg, got, use>>

PeekBegin(p) ==
  /\ p \in use.peek /\ Go(p, "idle", "peekSeq") /\ At(p, head)
  /\ UNCHANGED <<words, arg, got, empty, use>>

PeekSeq(p) ==
  /\ Go(p, "peekSeq", IF seq[Mine(p)] = pos[p] + 1 THEN "peekVal" ELSE "idle")
  /\ UNCHANGED <<words, pos, arg, got, empty, use>>

PeekVal(p) ==
  /\ Go(p, "peekVal", "idle")
  /\ UNCHANGED <<words, pos, arg, got, empty, use>>

-----------------------------------------------------------------------------
Init ==
  /\ head = 0 /\ tail = 0
  /\ seq = [c \in Cells |-> c] /\ val = [c \in Cells |-> None]
  /\ pc = [p \in Procs |-> "idle"] /\ pos = [p \in Procs |-> 0]
  /\ arg = [p \in Procs |-> None] /\ got = [p \in Procs |-> None]
  /\ empty = [p \in Procs |-> FALSE]
  /\ use \in Uses

Push(p) ==
  \/ \E v \in Slots : PushBegin(p, v)
  \/ PushSeq(p) \/ PushTail(p) \/ PushCas(p) \/ Write(p) \/ Publish(p)
Pop(p)  == PopBegin(p) \/ PopSeq(p) \/ PopHead(p) \/ PopCas(p) \/ Read(p) \/ Release(p)
Look(p) == AskBegin(p) \/ AskSeq(p) \/ PeekBegin(p) \/ PeekSeq(p) \/ PeekVal(p)

Next == \E p \in Procs : Push(p) \/ Pop(p) \/ Look(p)
Spec == Init /\ [][Next]_vars

-----------------------------------------------------------------------------
(* What the ring promises.                                                 *)

\* The place n as its users see it: published, or its producer's still.
Producer(n) == CHOOSE p \in Procs : pc[p] \in {"write", "publish"} /\ pos[p] = n
PlaceAt(n) ==
  IF seq[Cell(n)] = n + 1 THEN [val |-> val[Cell(n)], by |-> None]
  ELSE [val |-> arg[Producer(n)], by |-> Producer(n)]
Contents == [i \in 1 .. tail - head |-> PlaceAt(head + i - 1)]
Taken    == [p \in Procs |-> IF pc[p] = "read" THEN val[Mine(p)] ELSE got[p]]

CQ == INSTANCE ClaimQueue WITH Values <- Slots, queue <- Contents, got <- Taken

\* Every variable has its type.
TypeOK ==
  /\ head \in Nat /\ tail \in Nat
  /\ seq \in [Cells -> Nat] /\ val \in [Cells -> Slots \cup {None}]
  /\ pc \in [Procs -> {"idle", "askSeq", "peekSeq", "peekVal"} \cup PushPcs \cup PopPcs]
  /\ pos \in [Procs -> Nat]
  /\ arg \in [Procs -> Slots \cup {None}] /\ got \in [Procs -> Slots \cup {None}]
  /\ empty \in [Procs -> BOOLEAN] /\ use \in Uses

\* A first-in first-out queue of at most Capacity places: each value goes to
\* one consumer, in the order of the claims, whole, and nothing behind a place
\* that is claimed and not published is taken before it.
Implements == CQ!Spec

\* A cell's value is a plain word: no process writes it while another writes
\* or reads it, the peek of a ring's only producer included ("a value a
\* producer is still writing is never seen").
NoRace ==
  \A p, q \in Procs :
    p # q /\ pc[p] = "write" /\ pc[q] \in {"write", "read", "peekVal"} => Mine(p) # Mine(q)

\* "Neither can actually fill" (complete): a ring with one consumer and a cell
\* for every slot never refuses a push, however its producers overtake one
\* another.
NeverRefused ==
  Cardinality(use.pop) = 1 /\ Cardinality(Slots) <= Capacity => \A p \in Procs : ~Refused(p)

\* "Whether a `pop` right now would find nothing" (is_empty), for the ring's
\* only consumer, with the answer's two reads apart.
EmptyExact ==
  [][\A p \in Procs : AskSeq(p) /\ use.pop = {p}
       => (empty'[p] <=> Contents = <<>> \/ Head(Contents).by # None)]_vars
=============================================================================
