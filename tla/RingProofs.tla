----------------------------- MODULE RingProofs -----------------------------
(***************************************************************************)
(* Proofs about Ring, for every capacity of at least two cells, any number *)
(* of producers and consumers and of pushes, and any set of slots.         *)
(***************************************************************************)
EXTENDS Ring, FiniteSetTheorems, SequenceTheorems, TLAPS

\* A producer between its claim and its publication, a consumer between its
\* claim and its release.
Claimed(p) == pc[p] \in {"write", "publish"}
Holds(p)   == pc[p] \in {"read", "release"}

\* The places whose cells nobody has claimed since: one for each cell.
Window == tail - Capacity .. tail - 1

\* Whose turn each of them is.  A place is its producer's, then published, then
\* its consumer's, then free for the producer of the next lap.
Filling(n)   == seq[Cell(n)] = n /\ head <= n /\ \E p \in Procs : Claimed(p) /\ pos[p] = n
Published(n) == seq[Cell(n)] = n + 1 /\ (head <= n \/ \E p \in Procs : Holds(p) /\ pos[p] = n)
Freed(n)     == seq[Cell(n)] = n + Capacity /\ n < head

Turns == /\ head <= tail /\ tail <= head + Capacity
         /\ \A n \in Window : Filling(n) \/ Published(n) \/ Freed(n)

\* What a process works on is its own.
Owned ==
  /\ \A p \in Procs : Claimed(p) => pos[p] \in Window /\ seq[Mine(p)] = pos[p]
  /\ \A p \in Procs : Holds(p) =>
       pos[p] \in Window /\ pos[p] < head /\ seq[Mine(p)] = pos[p] + 1
  /\ \A p, q \in Procs : p # q /\ Claimed(p) /\ Claimed(q) => pos[p] # pos[q]
  /\ \A p, q \in Procs : p # q /\ Holds(p) /\ Holds(q) => pos[p] # pos[q]

\* What a process has read and goes by: nobody's turn passes while the counter
\* it means to move stands still.
Seen ==
  \A p \in Procs :
    /\ pc[p] \in {"pushSeq", "pushTail", "pushCas"} => pos[p] <= tail
    /\ pc[p] = "pushCas" /\ pos[p] = tail => seq[Mine(p)] = pos[p]
    /\ pc[p] \in {"popSeq", "popHead", "popCas"} => pos[p] <= head
    /\ pc[p] = "popCas" /\ pos[p] = head => seq[Mine(p)] = pos[p] + 1

\* The ring's only consumer moves the head alone.
Alone ==
  \A p \in Procs : use.pop = {p} =>
    /\ pc[p] = "askSeq" => pos[p] = head
    /\ Holds(p) => head = pos[p] + 1

\* Who does what.
Roles ==
  \A p \in Procs :
    /\ pc[p] \in PushPcs => p \in use.push
    /\ pc[p] \in PopPcs => p \in use.pop
    /\ pc[p] \in {"peekSeq", "peekVal"} => p \in use.peek

\* What is in a push or in a published cell, until the cell is released.
Full(n) == seq[Cell(n)] = n + 1
Carried ==
  /\ \A p \in Procs :
       /\ pc[p] \in PushPcs => arg[p] \in Slots
       /\ pc[p] = "publish" => val[Mine(p)] = arg[p]
       /\ pc[p] = "release" => val[Mine(p)] = got[p]
  /\ \A n \in Window : Full(n) => val[Cell(n)] \in Slots

\* A slot is carried once.
Apart ==
  /\ \A p, q \in Procs : p # q /\ pc[p] \in PushPcs /\ pc[q] \in PushPcs => arg[p] # arg[q]
  /\ \A p \in Procs, n \in Window : pc[p] \in PushPcs /\ Full(n) => arg[p] # val[Cell(n)]
  /\ \A m, n \in Window : m # n /\ Full(m) /\ Full(n) => val[Cell(m)] # val[Cell(n)]

Inductive ==
  TypeOK /\ Turns /\ Owned /\ Seen /\ Roles /\ Alone /\ Carried /\ Apart

-----------------------------------------------------------------------------
(* Cells.                                                                  *)

\* The capacity is a number.
LEMMA CapacityType == Capacity \in Nat \ {0, 1}
  BY RingAssumption

\* Multiples of the capacity.
LEMMA Times ==
  /\ \A k \in Int : k >= 1 => Capacity * k >= Capacity
  /\ \A k \in Int : k <= -1 => Capacity * k <= -Capacity
  /\ Capacity * 0 = 0
  BY CapacityType

\* Multiplying by the capacity respects a difference.
LEMMA Distributes == \A q, r \in Int : Capacity * (q - r) = Capacity * q - Capacity * r
  BY CapacityType

\* Division with rest.
LEMMA Divides ==
  ASSUME NEW n \in Int
  PROVE  /\ n = Capacity * (n \div Capacity) + (n % Capacity)
         /\ n \div Capacity \in Int /\ n % Capacity \in 0 .. Capacity - 1
  BY CapacityType

\* Every place has a cell.
LEMMA CellType == \A n \in Int : Cell(n) \in Cells
  BY Divides DEF Cell, Cells

\* Two places of one cell are a lap apart at least.
LEMMA CellApart ==
  ASSUME NEW m \in Int, NEW n \in Int, m < n, Cell(m) = Cell(n)
  PROVE  m + Capacity <= n
<1> DEFINE q == m \div Capacity
           r == n \div Capacity
<1>1. q \in Int /\ r \in Int /\ Capacity * r - Capacity * q = n - m
  BY Divides, CapacityType DEF Cell
<1> HIDE DEF q, r
<1>2. Capacity * (r - q) = n - m
  BY <1>1, Distributes
<1>3. r - q >= 1
  <2>1. CASE r - q = 0
    BY <1>2, <2>1, Times
  <2>2. CASE r - q <= -1
    BY <1>1, <1>2, <2>2, Times, CapacityType
  <2> QED
    BY <1>1, <2>1, <2>2
<1>4. r - q \in Int /\ Capacity * (r - q) >= Capacity
  BY <1>1, <1>3, Times
<1> QED
  BY <1>2, <1>4, CapacityType

\* A lap further is the same cell.
LEMMA CellNext == ASSUME NEW n \in Int PROVE Cell(n + Capacity) = Cell(n)
<1> DEFINE m == n + Capacity
           q == n \div Capacity
           r == m \div Capacity
           a == n % Capacity
           b == m % Capacity
<1>1. m \in Int /\ m = n + Capacity
  BY CapacityType
<1>2. /\ q \in Int /\ r \in Int /\ n = Capacity * q + a /\ m = Capacity * r + b
      /\ a \in 0 .. Capacity - 1 /\ b \in 0 .. Capacity - 1
  BY <1>1, Divides
<1> HIDE DEF m, q, r, a, b
<1>3. Capacity * (r - q) = Capacity + a - b
  BY <1>1, <1>2, Distributes, CapacityType
<1>4. Capacity * ((r - q) - 1) = a - b
  BY <1>2, <1>3, Distributes, CapacityType
<1>5. (r - q) - 1 = 0
  BY <1>2, <1>4, Times, CapacityType
<1>6. a = b
  BY <1>2, <1>4, <1>5, Times
<1> QED
  BY <1>6 DEF a, b, m, Cell

\* The places of the window have a cell each.
LEMMA CellsApart ==
  ASSUME tail \in Nat, NEW m \in Window, NEW n \in Window, Cell(m) = Cell(n)
  PROVE  m = n
<1>1. m \in Int /\ n \in Int /\ m < n + Capacity /\ n < m + Capacity
  BY CapacityType DEF Window
<1> QED
  BY <1>1, CellApart, CapacityType

\* A process's place is a number, and its cell a cell.
LEMMA MineType == ASSUME TypeOK, NEW p \in Procs PROVE pos[p] \in Nat /\ Mine(p) \in Cells
  BY CellType DEF TypeOK, Mine

\* The place after the window has the cell of the window's first.
LEMMA TailCell ==
  ASSUME tail \in Nat
  PROVE  tail - Capacity \in Window /\ Cell(tail) = Cell(tail - Capacity)
<1>1. tail - Capacity \in Int /\ (tail - Capacity) + Capacity = tail
  BY CapacityType
<1>2. tail - Capacity \in Window
  BY CapacityType DEF Window
<1> QED
  BY <1>1, <1>2, CellNext

\* A cell free for the next claim was released: nobody works on it.
LEMMA TailFree ==
  ASSUME TypeOK, Turns, Owned, seq[Cell(tail)] = tail
  PROVE  /\ tail < head + Capacity
         /\ \A p \in Procs : Claimed(p) \/ Holds(p) => pos[p] # tail - Capacity
<1>1. /\ tail \in Nat /\ head \in Nat /\ tail - Capacity \in Window
      /\ Cell(tail) = Cell(tail - Capacity)
  BY TailCell DEF TypeOK
<1>2. /\ tail # tail - Capacity /\ tail # (tail - Capacity) + 1
      /\ (tail - Capacity < head => tail < head + Capacity)
  BY <1>1, CapacityType
<1>3. tail - Capacity < head
  BY <1>1, <1>2 DEF Turns, Filling, Published, Freed
<1>4. ASSUME NEW p \in Procs, Claimed(p) \/ Holds(p) PROVE pos[p] # tail - Capacity
  BY <1>1, <1>2, <1>4 DEF Owned, Mine
<1> QED
  BY <1>2, <1>3, <1>4

\* A cell published at the head is in the ring.
LEMMA HeadPublished ==
  ASSUME TypeOK, Turns, seq[Cell(head)] = head + 1
  PROVE  head < tail /\ head \in Window
<1>1. head \in Nat /\ tail \in Nat /\ head <= tail /\ tail <= head + Capacity
  BY DEF TypeOK, Turns
<1>2. head # tail
  <2> SUFFICES ASSUME head = tail PROVE FALSE
    OBVIOUS
  <2>1. /\ tail - Capacity \in Window /\ Cell(tail) = Cell(tail - Capacity)
        /\ seq[Cell(tail - Capacity)] = tail + 1
    BY <1>1, TailCell
  <2>2. /\ tail + 1 # tail - Capacity /\ tail + 1 # (tail - Capacity) + 1
        /\ tail + 1 # (tail - Capacity) + Capacity
    BY <1>1, CapacityType
  <2> QED
    BY <2>1, <2>2 DEF Turns, Filling, Published, Freed
<1> QED
  BY <1>1, <1>2, CapacityType DEF Window

-----------------------------------------------------------------------------
(* Each part of the invariant is kept by every step.                       *)

\* Types.
LEMMA TypeStep == TypeOK /\ [Next]_vars => TypeOK'
<1> SUFFICES ASSUME TypeOK, [Next]_vars PROVE TypeOK'
  OBVIOUS
<1> USE DEF TypeOK, words, locals, Go, At, PushPcs, PopPcs
<1>1. ASSUME NEW p \in Procs, NEW v \in Slots, PushBegin(p, v) PROVE TypeOK'
  BY <1>1 DEF PushBegin
<1>2. ASSUME NEW p \in Procs, PushSeq(p) PROVE TypeOK'
  BY <1>2 DEF PushSeq
<1>3. ASSUME NEW p \in Procs, PushTail(p) PROVE TypeOK'
  BY <1>3 DEF PushTail
<1>4. ASSUME NEW p \in Procs, PushCas(p) PROVE TypeOK'
  BY <1>4 DEF PushCas
<1>5. ASSUME NEW p \in Procs, Write(p) PROVE TypeOK'
  BY <1>5, MineType DEF Write
<1>6. ASSUME NEW p \in Procs, Publish(p) PROVE TypeOK'
  BY <1>6, MineType DEF Publish
<1>7. ASSUME NEW p \in Procs, PopBegin(p) PROVE TypeOK'
  BY <1>7 DEF PopBegin
<1>8. ASSUME NEW p \in Procs, PopSeq(p) PROVE TypeOK'
  BY <1>8 DEF PopSeq
<1>9. ASSUME NEW p \in Procs, PopHead(p) PROVE TypeOK'
  BY <1>9 DEF PopHead
<1>10. ASSUME NEW p \in Procs, PopCas(p) PROVE TypeOK'
  BY <1>10 DEF PopCas
<1>11. ASSUME NEW p \in Procs, Read(p) PROVE TypeOK'
  BY <1>11, MineType DEF Read
<1>12. ASSUME NEW p \in Procs, Release(p) PROVE TypeOK'
  BY <1>12, MineType, CapacityType DEF Release
<1>13. ASSUME NEW p \in Procs, AskBegin(p) PROVE TypeOK'
  BY <1>13 DEF AskBegin
<1>14. ASSUME NEW p \in Procs, AskSeq(p) PROVE TypeOK'
  <2>1. empty' \in [Procs -> BOOLEAN]
    BY <1>14 DEF AskSeq
  <2> QED
    BY <1>14, <2>1 DEF AskSeq
<1>15. ASSUME NEW p \in Procs, PeekBegin(p) PROVE TypeOK'
  BY <1>15 DEF PeekBegin
<1>16. ASSUME NEW p \in Procs, PeekSeq(p) PROVE TypeOK'
  BY <1>16 DEF PeekSeq
<1>17. ASSUME NEW p \in Procs, PeekVal(p) PROVE TypeOK'
  BY <1>17 DEF PeekVal
<1>18. CASE UNCHANGED vars
  BY <1>18 DEF vars
<1> QED
  BY <1>1, <1>2, <1>3, <1>4, <1>5, <1>6, <1>7, <1>8, <1>9, <1>10, <1>11, <1>12, <1>13,
     <1>14, <1>15, <1>16, <1>17, <1>18 DEF Next, Push, Pop, Look

\* Roles.
LEMMA RolesStep == TypeOK /\ Roles /\ [Next]_vars => Roles'
<1> SUFFICES ASSUME TypeOK, Roles, [Next]_vars PROVE Roles'
  OBVIOUS
<1>1. ASSUME NEW p \in Procs, NEW v \in Slots, PushBegin(p, v) PROVE Roles'
  BY <1>1 DEF PushBegin, Go, Roles, TypeOK, PushPcs, PopPcs
<1>2. ASSUME NEW p \in Procs, PushSeq(p) PROVE Roles'
  BY <1>2 DEF PushSeq, Go, Roles, TypeOK, PushPcs, PopPcs
<1>3. ASSUME NEW p \in Procs, PushTail(p) PROVE Roles'
  BY <1>3 DEF PushTail, Go, Roles, TypeOK, PushPcs, PopPcs
<1>4. ASSUME NEW p \in Procs, PushCas(p) PROVE Roles'
  BY <1>4 DEF PushCas, Go, Roles, TypeOK, PushPcs, PopPcs
<1>5. ASSUME NEW p \in Procs, Write(p) PROVE Roles'
  BY <1>5 DEF Write, Go, Roles, TypeOK, PushPcs, PopPcs
<1>6. ASSUME NEW p \in Procs, Publish(p) PROVE Roles'
  BY <1>6 DEF Publish, Go, Roles, TypeOK, PushPcs, PopPcs
<1>7. ASSUME NEW p \in Procs, PopBegin(p) PROVE Roles'
  BY <1>7 DEF PopBegin, Go, Roles, TypeOK, PushPcs, PopPcs
<1>8. ASSUME NEW p \in Procs, PopSeq(p) PROVE Roles'
  BY <1>8 DEF PopSeq, Go, Roles, TypeOK, PushPcs, PopPcs
<1>9. ASSUME NEW p \in Procs, PopHead(p) PROVE Roles'
  BY <1>9 DEF PopHead, Go, Roles, TypeOK, PushPcs, PopPcs
<1>10. ASSUME NEW p \in Procs, PopCas(p) PROVE Roles'
  BY <1>10 DEF PopCas, Go, Roles, TypeOK, PushPcs, PopPcs
<1>11. ASSUME NEW p \in Procs, Read(p) PROVE Roles'
  BY <1>11 DEF Read, Go, Roles, TypeOK, PushPcs, PopPcs
<1>12. ASSUME NEW p \in Procs, Release(p) PROVE Roles'
  BY <1>12 DEF Release, Go, Roles, TypeOK, PushPcs, PopPcs
<1>13. ASSUME NEW p \in Procs, AskBegin(p) PROVE Roles'
  BY <1>13 DEF AskBegin, Go, Roles, TypeOK, PushPcs, PopPcs
<1>14. ASSUME NEW p \in Procs, AskSeq(p) PROVE Roles'
  BY <1>14 DEF AskSeq, Go, Roles, TypeOK, PushPcs, PopPcs
<1>15. ASSUME NEW p \in Procs, PeekBegin(p) PROVE Roles'
  BY <1>15 DEF PeekBegin, Go, Roles, TypeOK, PushPcs, PopPcs
<1>16. ASSUME NEW p \in Procs, PeekSeq(p) PROVE Roles'
  BY <1>16 DEF PeekSeq, Go, Roles, TypeOK, PushPcs, PopPcs
<1>17. ASSUME NEW p \in Procs, PeekVal(p) PROVE Roles'
  BY <1>17 DEF PeekVal, Go, Roles, TypeOK, PushPcs, PopPcs
<1>18. CASE UNCHANGED vars
  BY <1>18 DEF vars, words, locals, Roles
<1> QED
  BY <1>1, <1>2, <1>3, <1>4, <1>5, <1>6, <1>7, <1>8, <1>9, <1>10, <1>11, <1>12, <1>13,
     <1>14, <1>15, <1>16, <1>17, <1>18 DEF Next, Push, Pop, Look

-----------------------------------------------------------------------------
(* Turns pass one at a time.                                               *)

\* The four steps that pass a turn, and what the others leave alone.
Passes ==
  \E p \in Procs : \/ PushCas(p) /\ tail = pos[p]
                   \/ Publish(p)
                   \/ PopCas(p) /\ head = pos[p]
                   \/ Release(p)
Quiet ==
  /\ UNCHANGED <<head, tail, seq>>
  /\ \A q \in Procs : /\ Claimed(q)' <=> Claimed(q)
                      /\ Holds(q)' <=> Holds(q)
                      /\ Claimed(q) \/ Holds(q) => pos'[q] = pos[q]

\* No other step passes a turn.
LEMMA Steps == TypeOK /\ [Next]_vars => Passes \/ Quiet
<1> SUFFICES ASSUME TypeOK, [Next]_vars PROVE Passes \/ Quiet
  OBVIOUS
<1>1. ASSUME NEW p \in Procs, NEW v \in Slots, PushBegin(p, v) PROVE Passes \/ Quiet
  BY <1>1 DEF Quiet, PushBegin, words, Go, At, TypeOK, Claimed, Holds
<1>2. ASSUME NEW p \in Procs, PushSeq(p) PROVE Passes \/ Quiet
  BY <1>2 DEF Quiet, PushSeq, words, Go, At, TypeOK, Claimed, Holds
<1>3. ASSUME NEW p \in Procs, PushTail(p) PROVE Passes \/ Quiet
  BY <1>3 DEF Quiet, PushTail, words, Go, At, TypeOK, Claimed, Holds
<1>4. ASSUME NEW p \in Procs, PushCas(p) PROVE Passes \/ Quiet
  <2>1. CASE tail = pos[p]
    BY <1>4, <2>1 DEF Passes
  <2>2. CASE tail # pos[p]
    BY <1>4, <2>2 DEF Quiet, PushCas, Go, At, TypeOK, Claimed, Holds
  <2> QED
    BY <2>1, <2>2
<1>5. ASSUME NEW p \in Procs, Write(p) PROVE Passes \/ Quiet
  BY <1>5 DEF Quiet, Write, words, Go, At, TypeOK, Claimed, Holds
<1>6. ASSUME NEW p \in Procs, Publish(p) PROVE Passes \/ Quiet
  BY <1>6 DEF Passes
<1>7. ASSUME NEW p \in Procs, PopBegin(p) PROVE Passes \/ Quiet
  BY <1>7 DEF Quiet, PopBegin, words, Go, At, TypeOK, Claimed, Holds
<1>8. ASSUME NEW p \in Procs, PopSeq(p) PROVE Passes \/ Quiet
  BY <1>8 DEF Quiet, PopSeq, words, Go, At, TypeOK, Claimed, Holds
<1>9. ASSUME NEW p \in Procs, PopHead(p) PROVE Passes \/ Quiet
  BY <1>9 DEF Quiet, PopHead, words, Go, At, TypeOK, Claimed, Holds
<1>10. ASSUME NEW p \in Procs, PopCas(p) PROVE Passes \/ Quiet
  <2>1. CASE head = pos[p]
    BY <1>10, <2>1 DEF Passes
  <2>2. CASE head # pos[p]
    BY <1>10, <2>2 DEF Quiet, PopCas, Go, At, TypeOK, Claimed, Holds
  <2> QED
    BY <2>1, <2>2
<1>11. ASSUME NEW p \in Procs, Read(p) PROVE Passes \/ Quiet
  BY <1>11 DEF Quiet, Read, words, Go, At, TypeOK, Claimed, Holds
<1>12. ASSUME NEW p \in Procs, Release(p) PROVE Passes \/ Quiet
  BY <1>12 DEF Passes
<1>13. ASSUME NEW p \in Procs, AskBegin(p) PROVE Passes \/ Quiet
  BY <1>13 DEF Quiet, AskBegin, words, Go, At, TypeOK, Claimed, Holds
<1>14. ASSUME NEW p \in Procs, AskSeq(p) PROVE Passes \/ Quiet
  BY <1>14 DEF Quiet, AskSeq, words, Go, At, TypeOK, Claimed, Holds
<1>15. ASSUME NEW p \in Procs, PeekBegin(p) PROVE Passes \/ Quiet
  BY <1>15 DEF Quiet, PeekBegin, words, Go, At, TypeOK, Claimed, Holds
<1>16. ASSUME NEW p \in Procs, PeekSeq(p) PROVE Passes \/ Quiet
  BY <1>16 DEF Quiet, PeekSeq, words, Go, At, TypeOK, Claimed, Holds
<1>17. ASSUME NEW p \in Procs, PeekVal(p) PROVE Passes \/ Quiet
  BY <1>17 DEF Quiet, PeekVal, words, Go, At, TypeOK, Claimed, Holds
<1>18. CASE UNCHANGED vars
  BY <1>18 DEF vars, words, locals, Quiet, Claimed, Holds
<1> QED
  BY <1>1, <1>2, <1>3, <1>4, <1>5, <1>6, <1>7, <1>8, <1>9, <1>10, <1>11, <1>12, <1>13,
     <1>14, <1>15, <1>16, <1>17, <1>18 DEF Next, Push, Pop, Look

\* A claim moves the window on by the place claimed.
LEMMA Claims ==
  ASSUME TypeOK, Turns, Owned, Seen, NEW p \in Procs, PushCas(p), tail = pos[p]
  PROVE  Turns' /\ Owned'
<1>1. /\ pc[p] = "pushCas" /\ pc' = [pc EXCEPT ![p] = "write"] /\ tail' = tail + 1
      /\ UNCHANGED <<head, seq, pos>>
  BY DEF PushCas, Go
<1>2. seq[Cell(tail)] = tail
  BY <1>1 DEF Seen, Mine
<1>3. /\ head \in Nat /\ tail \in Nat /\ Capacity \in Nat /\ Capacity > 1
      /\ head <= tail /\ tail < head + Capacity
      /\ \A q \in Procs : Claimed(q) \/ Holds(q) => pos[q] # tail - Capacity
  BY <1>2, TailFree, CapacityType DEF TypeOK, Turns
<1>4. Window' = (Window \ {tail - Capacity}) \cup {tail}
  BY <1>1, <1>3 DEF Window
<1>5. /\ \A q \in Procs : Claimed(q)' <=> Claimed(q) \/ q = p
      /\ \A q \in Procs : Holds(q)' <=> Holds(q)
      /\ ~Claimed(p) /\ ~Holds(p)
  BY <1>1 DEF TypeOK, Claimed, Holds
<1>6. \A q \in Procs : Mine(q)' = Mine(q)
  BY <1>1 DEF Mine
<1>7. ASSUME NEW n \in Window' PROVE (Filling(n) \/ Published(n) \/ Freed(n))'
  <2>1. CASE n = tail
    BY <1>1, <1>2, <1>3, <1>5, <2>1 DEF Filling
  <2>2. CASE n # tail
    <3>1. n \in Window
      BY <1>4, <2>2
    <3> QED
      BY <1>1, <1>5, <3>1 DEF Turns, Filling, Published, Freed
  <2> QED
    BY <2>1, <2>2
<1>8. Turns'
  BY <1>1, <1>3, <1>7 DEF Turns
<1>9. ASSUME NEW q \in Procs, Claimed(q)' PROVE pos'[q] \in Window' /\ seq'[Mine(q)'] = pos'[q]
  <2>1. CASE q = p
    BY <1>1, <1>2, <1>4, <1>6, <2>1 DEF Mine
  <2>2. CASE q # p
    BY <1>1, <1>3, <1>4, <1>5, <1>6, <1>9, <2>2 DEF Owned
  <2> QED
    BY <2>1, <2>2
<1>10. ASSUME NEW q \in Procs, Holds(q)'
       PROVE  pos'[q] \in Window' /\ pos'[q] < head' /\ seq'[Mine(q)'] = pos'[q] + 1
  BY <1>1, <1>3, <1>4, <1>5, <1>6, <1>10 DEF Owned
<1>11. ASSUME NEW q \in Procs, NEW r \in Procs, q # r, Claimed(q)', Claimed(r)'
       PROVE  pos'[q] # pos'[r]
  <2>1. \A u \in Procs : Claimed(u) => pos[u] # tail
    BY <1>3 DEF Owned, Window
  <2> QED
    BY <1>1, <1>5, <1>11, <2>1 DEF Owned
<1>12. \A q, r \in Procs : q # r /\ Holds(q)' /\ Holds(r)' => pos'[q] # pos'[r]
  BY <1>1, <1>5 DEF Owned
<1> QED
  BY <1>8, <1>9, <1>10, <1>11, <1>12 DEF Owned

\* A publication hands the cell on, and no other.
LEMMA Publishes ==
  ASSUME TypeOK, Turns, Owned, NEW p \in Procs, Publish(p)
  PROVE  Turns' /\ Owned'
<1>1. /\ pc[p] = "publish" /\ pc' = [pc EXCEPT ![p] = "idle"]
      /\ seq' = [seq EXCEPT ![Mine(p)] = pos[p] + 1] /\ UNCHANGED <<head, tail, pos>>
  BY DEF Publish, Go
<1>2. /\ Claimed(p) /\ ~Holds(p)
      /\ \A q \in Procs : /\ Claimed(q)' <=> Claimed(q) /\ q # p
                          /\ Holds(q)' <=> Holds(q)
  BY <1>1 DEF TypeOK, Claimed, Holds
<1>3. /\ pos[p] \in Window /\ seq[Mine(p)] = pos[p] /\ Mine(p) \in Cells
      /\ tail \in Nat /\ pos[p] \in Nat
  BY <1>2, MineType DEF Owned, TypeOK
<1>4. \A n \in Window : n # pos[p] => Cell(n) # Mine(p)
  BY <1>3, CellsApart DEF Mine
<1>5. seq'[Mine(p)] = pos[p] + 1 /\ \A n \in Window : n # pos[p] => seq'[Cell(n)] = seq[Cell(n)]
  BY <1>1, <1>3, <1>4 DEF TypeOK
<1>6. Window' = Window /\ \A q \in Procs : Mine(q)' = Mine(q)
  BY <1>1 DEF Window, Mine
<1>7. ASSUME NEW n \in Window PROVE (Filling(n) \/ Published(n) \/ Freed(n))'
  <2>1. CASE n = pos[p]
    <3>1. Filling(n)
      BY <1>3, <2>1, CapacityType DEF Turns, Filling, Published, Freed, Mine
    <3> QED
      BY <1>1, <1>5, <2>1, <3>1 DEF Filling, Published, Mine
  <2>2. CASE n # pos[p]
    BY <1>1, <1>2, <1>5, <2>2 DEF Turns, Filling, Published, Freed
  <2> QED
    BY <2>1, <2>2
<1>8. Turns'
  BY <1>1, <1>6, <1>7 DEF Turns
<1>9. ASSUME NEW q \in Procs, Claimed(q)' PROVE pos'[q] \in Window' /\ seq'[Mine(q)'] = pos'[q]
  BY <1>1, <1>2, <1>5, <1>6, <1>9 DEF Owned, Mine
<1>10. ASSUME NEW q \in Procs, Holds(q)'
       PROVE  pos'[q] \in Window' /\ pos'[q] < head' /\ seq'[Mine(q)'] = pos'[q] + 1
  <2>1. Holds(q) /\ pos[q] \in Window /\ seq[Mine(q)] = pos[q] + 1
    BY <1>2, <1>10 DEF Owned
  <2>2. pos[q] # pos[p]
    BY <1>3, <2>1 DEF Mine
  <2> QED
    BY <1>1, <1>5, <1>6, <2>1, <2>2 DEF Owned, Mine
<1> QED
  BY <1>1, <1>2, <1>8, <1>9, <1>10 DEF Owned

\* A take makes the head's place its consumer's.
LEMMA Takes ==
  ASSUME TypeOK, Turns, Owned, Seen, NEW p \in Procs, PopCas(p), head = pos[p]
  PROVE  Turns' /\ Owned'
<1>1. /\ pc[p] = "popCas" /\ pc' = [pc EXCEPT ![p] = "read"] /\ head' = head + 1
      /\ UNCHANGED <<tail, seq, pos>>
  BY DEF PopCas, Go
<1>2. seq[Cell(head)] = head + 1 /\ head < tail /\ head \in Window
  BY <1>1, HeadPublished DEF Seen, Mine
<1>3. /\ \A q \in Procs : Holds(q)' <=> Holds(q) \/ q = p
      /\ \A q \in Procs : Claimed(q)' <=> Claimed(q)
      /\ ~Claimed(p) /\ ~Holds(p)
  BY <1>1 DEF TypeOK, Claimed, Holds
<1>4. Window' = Window /\ \A q \in Procs : Mine(q)' = Mine(q)
  BY <1>1 DEF Window, Mine
<1>5. head \in Nat /\ tail \in Nat /\ Capacity \in Nat /\ Capacity > 1 /\ tail <= head + Capacity
  BY CapacityType DEF TypeOK, Turns
<1>6. ASSUME NEW n \in Window PROVE (Filling(n) \/ Published(n) \/ Freed(n))'
  <2>1. CASE n = head
    BY <1>1, <1>2, <1>3, <2>1 DEF Published
  <2>2. CASE n # head
    BY <1>1, <1>3, <1>5, <2>2 DEF Turns, Filling, Published, Freed, Window
  <2> QED
    BY <2>1, <2>2
<1>7. Turns'
  BY <1>1, <1>2, <1>4, <1>5, <1>6 DEF Turns
<1>8. ASSUME NEW q \in Procs, Holds(q)'
      PROVE  pos'[q] \in Window' /\ pos'[q] < head' /\ seq'[Mine(q)'] = pos'[q] + 1
  <2>1. CASE q = p
    BY <1>1, <1>2, <1>4, <1>5, <2>1 DEF Mine
  <2>2. CASE q # p
    BY <1>1, <1>3, <1>4, <1>5, <1>8, <2>2, MineType DEF Owned
  <2> QED
    BY <2>1, <2>2
<1>9. ASSUME NEW q \in Procs, NEW r \in Procs, q # r, Holds(q)', Holds(r)'
      PROVE  pos'[q] # pos'[r]
  <2>1. \A u \in Procs : Holds(u) => pos[u] # head
    BY <1>5, MineType DEF Owned
  <2> QED
    BY <1>1, <1>3, <1>9, <2>1 DEF Owned
<1>10. /\ \A q \in Procs : Claimed(q)' => pos'[q] \in Window' /\ seq'[Mine(q)'] = pos'[q]
       /\ \A q, r \in Procs : q # r /\ Claimed(q)' /\ Claimed(r)' => pos'[q] # pos'[r]
  BY <1>1, <1>3, <1>4 DEF Owned
<1> QED
  BY <1>7, <1>8, <1>9, <1>10 DEF Owned

\* A release frees the cell for the next lap, and no other.
LEMMA Releases ==
  ASSUME TypeOK, Turns, Owned, NEW p \in Procs, Release(p)
  PROVE  Turns' /\ Owned'
<1>1. /\ pc[p] = "release" /\ pc' = [pc EXCEPT ![p] = "idle"]
      /\ seq' = [seq EXCEPT ![Mine(p)] = pos[p] + Capacity] /\ UNCHANGED <<head, tail, pos>>
  BY DEF Release, Go
<1>2. /\ Holds(p) /\ ~Claimed(p)
      /\ \A q \in Procs : /\ Holds(q)' <=> Holds(q) /\ q # p
                          /\ Claimed(q)' <=> Claimed(q)
  BY <1>1 DEF TypeOK, Claimed, Holds
<1>3. /\ pos[p] \in Window /\ pos[p] < head /\ seq[Mine(p)] = pos[p] + 1 /\ Mine(p) \in Cells
      /\ tail \in Nat /\ pos[p] \in Nat
  BY <1>2, MineType DEF Owned, TypeOK
<1>4. \A n \in Window : n # pos[p] => Cell(n) # Mine(p)
  BY <1>3, CellsApart DEF Mine
<1>5. /\ seq'[Mine(p)] = pos[p] + Capacity
      /\ \A n \in Window : n # pos[p] => seq'[Cell(n)] = seq[Cell(n)]
  BY <1>1, <1>3, <1>4 DEF TypeOK
<1>6. Window' = Window /\ \A q \in Procs : Mine(q)' = Mine(q)
  BY <1>1 DEF Window, Mine
<1>7. ASSUME NEW n \in Window PROVE (Filling(n) \/ Published(n) \/ Freed(n))'
  <2>1. CASE n = pos[p]
    BY <1>1, <1>3, <1>5, <2>1 DEF Freed, Mine
  <2>2. CASE n # pos[p]
    BY <1>1, <1>2, <1>5, <2>2 DEF Turns, Filling, Published, Freed
  <2> QED
    BY <2>1, <2>2
<1>8. Turns'
  BY <1>1, <1>6, <1>7 DEF Turns
<1>9. ASSUME NEW q \in Procs, Holds(q)'
      PROVE  pos'[q] \in Window' /\ pos'[q] < head' /\ seq'[Mine(q)'] = pos'[q] + 1
  BY <1>1, <1>2, <1>5, <1>6, <1>9 DEF Owned, Mine
<1>10. ASSUME NEW q \in Procs, Claimed(q)' PROVE pos'[q] \in Window' /\ seq'[Mine(q)'] = pos'[q]
  <2>1. Claimed(q) /\ pos[q] \in Window /\ seq[Mine(q)] = pos[q]
    BY <1>2, <1>10 DEF Owned
  <2>2. pos[q] # pos[p]
    BY <1>3, <2>1 DEF Mine
  <2> QED
    BY <1>1, <1>5, <1>6, <2>1, <2>2 DEF Owned, Mine
<1> QED
  BY <1>1, <1>2, <1>8, <1>9, <1>10 DEF Owned

\* Where no turn passes, the turns stay.
LEMMA Quietly == ASSUME Turns, Owned, Quiet PROVE Turns' /\ Owned'
<1> USE DEF Quiet
<1>1. Window' = Window
  BY DEF Window
<1>2. \A n \in Window : (Filling(n) => Filling(n)') /\ (Published(n) => Published(n)')
                        /\ (Freed(n) => Freed(n)')
  BY DEF Filling, Published, Freed
<1>3. Turns'
  BY <1>1, <1>2 DEF Turns
<1>4. \A q \in Procs : Claimed(q) \/ Holds(q) => Mine(q)' = Mine(q)
  BY DEF Mine
<1> QED
  BY <1>1, <1>3, <1>4 DEF Owned

\* Every step keeps the turns and whose they are.
LEMMA TurnsStep == TypeOK /\ Turns /\ Owned /\ Seen /\ [Next]_vars => Turns' /\ Owned'
<1> SUFFICES ASSUME TypeOK, Turns, Owned, Seen, [Next]_vars PROVE Turns' /\ Owned'
  OBVIOUS
<1>1. CASE Passes
  BY <1>1, Claims, Publishes, Takes, Releases DEF Passes
<1>2. CASE Quiet
  BY <1>2, Quietly
<1> QED
  BY <1>1, <1>2, Steps

\* The cells of the tail and the head, where they wait for a claim, are nobody's.
LEMMA Elsewhere ==
  ASSUME TypeOK, Turns, Owned, NEW p \in Procs, Claimed(p) \/ Holds(p)
  PROVE  /\ seq[Cell(tail)] = tail => Cell(tail) # Mine(p)
         /\ seq[Cell(head)] = head + 1 => Cell(head) # Mine(p)
<1>1. pos[p] \in Window /\ tail \in Nat /\ head \in Nat /\ pos[p] \in Nat
  BY MineType DEF Owned, TypeOK
<1>2. ASSUME seq[Cell(tail)] = tail, Cell(tail) = Mine(p) PROVE FALSE
  <2>1. tail - Capacity \in Window /\ Cell(tail - Capacity) = Cell(pos[p])
    BY <1>1, <1>2, TailCell DEF Mine
  <2>2. pos[p] = tail - Capacity
    BY <1>1, <2>1, CellsApart
  <2> QED
    BY <1>2, <2>2, TailFree
<1>3. ASSUME seq[Cell(head)] = head + 1, Cell(head) = Mine(p) PROVE FALSE
  <2>1. pos[p] = head
    BY <1>1, <1>3, HeadPublished, CellsApart DEF Mine
  <2> QED
    BY <1>1, <1>3, <2>1 DEF Owned, Mine
<1> QED
  BY <1>2, <1>3

\* What a process has read stays true until a counter moves.
LEMMA SeenStep == TypeOK /\ Turns /\ Owned /\ Seen /\ [Next]_vars => Seen'
<1> SUFFICES ASSUME TypeOK, Turns, Owned, Seen, [Next]_vars PROVE Seen'
  OBVIOUS
<1>1. ASSUME NEW p \in Procs, NEW v \in Slots, PushBegin(p, v) PROVE Seen'
  BY <1>1 DEF PushBegin, words, Go, At, Seen, Mine, TypeOK
<1>2. ASSUME NEW p \in Procs, PushSeq(p) PROVE Seen'
  BY <1>2 DEF PushSeq, words, Go, At, Seen, Mine, TypeOK
<1>3. ASSUME NEW p \in Procs, PushTail(p) PROVE Seen'
  BY <1>3 DEF PushTail, words, Go, At, Seen, Mine, TypeOK
<1>4. ASSUME NEW p \in Procs, PushCas(p) PROVE Seen'
  BY <1>4 DEF PushCas, words, Go, At, Seen, Mine, TypeOK
<1>5. ASSUME NEW p \in Procs, Write(p) PROVE Seen'
  BY <1>5 DEF Write, words, Go, At, Seen, Mine, TypeOK
<1>6. ASSUME NEW p \in Procs, Publish(p) PROVE Seen'
  <2>1. /\ pc' = [pc EXCEPT ![p] = "idle"] /\ UNCHANGED <<head, tail, pos>>
        /\ \A c \in Cells : c # Mine(p) => seq'[c] = seq[c]
    BY <1>6 DEF Publish, Go, TypeOK
  <2>2. (Claimed(p) \/ Holds(p)) /\ head \in Int /\ tail \in Int
    BY <1>6 DEF Publish, Go, Claimed, Holds, TypeOK
  <2>3. /\ seq[Cell(tail)] = tail => seq'[Cell(tail)] = tail
        /\ seq[Cell(head)] = head + 1 => seq'[Cell(head)] = head + 1
    BY <2>1, <2>2, Elsewhere, CellType
  <2> QED
    BY <2>1, <2>3 DEF Seen, Mine, TypeOK
<1>7. ASSUME NEW p \in Procs, PopBegin(p) PROVE Seen'
  BY <1>7 DEF PopBegin, words, Go, At, Seen, Mine, TypeOK
<1>8. ASSUME NEW p \in Procs, PopSeq(p) PROVE Seen'
  <2>1. seq[Mine(p)] \in Int /\ pos[p] \in Int
    BY MineType DEF TypeOK
  <2> QED
    BY <1>8, <2>1 DEF PopSeq, words, Go, At, Seen, Mine, TypeOK
<1>9. ASSUME NEW p \in Procs, PopHead(p) PROVE Seen'
  BY <1>9 DEF PopHead, words, Go, At, Seen, Mine, TypeOK
<1>10. ASSUME NEW p \in Procs, PopCas(p) PROVE Seen'
  BY <1>10 DEF PopCas, words, Go, At, Seen, Mine, TypeOK
<1>11. ASSUME NEW p \in Procs, Read(p) PROVE Seen'
  BY <1>11 DEF Read, words, Go, At, Seen, Mine, TypeOK
<1>12. ASSUME NEW p \in Procs, Release(p) PROVE Seen'
  <2>1. /\ pc' = [pc EXCEPT ![p] = "idle"] /\ UNCHANGED <<head, tail, pos>>
        /\ \A c \in Cells : c # Mine(p) => seq'[c] = seq[c]
    BY <1>12 DEF Release, Go, TypeOK
  <2>2. (Claimed(p) \/ Holds(p)) /\ head \in Int /\ tail \in Int
    BY <1>12 DEF Release, Go, Claimed, Holds, TypeOK
  <2>3. /\ seq[Cell(tail)] = tail => seq'[Cell(tail)] = tail
        /\ seq[Cell(head)] = head + 1 => seq'[Cell(head)] = head + 1
    BY <2>1, <2>2, Elsewhere, CellType
  <2> QED
    BY <2>1, <2>3 DEF Seen, Mine, TypeOK
<1>13. ASSUME NEW p \in Procs, AskBegin(p) PROVE Seen'
  BY <1>13 DEF AskBegin, words, Go, At, Seen, Mine, TypeOK
<1>14. ASSUME NEW p \in Procs, AskSeq(p) PROVE Seen'
  BY <1>14 DEF AskSeq, words, Go, At, Seen, Mine, TypeOK
<1>15. ASSUME NEW p \in Procs, PeekBegin(p) PROVE Seen'
  BY <1>15 DEF PeekBegin, words, Go, At, Seen, Mine, TypeOK
<1>16. ASSUME NEW p \in Procs, PeekSeq(p) PROVE Seen'
  BY <1>16 DEF PeekSeq, words, Go, At, Seen, Mine, TypeOK
<1>17. ASSUME NEW p \in Procs, PeekVal(p) PROVE Seen'
  BY <1>17 DEF PeekVal, words, Go, At, Seen, Mine, TypeOK
<1>18. CASE UNCHANGED vars
  BY <1>18 DEF vars, words, locals, Seen, Mine
<1> QED
  BY <1>1, <1>2, <1>3, <1>4, <1>5, <1>6, <1>7, <1>8, <1>9, <1>10, <1>11, <1>12, <1>13,
     <1>14, <1>15, <1>16, <1>17, <1>18 DEF Next, Push, Pop, Look

\* Nobody but the only consumer moves the head.
LEMMA AloneStep == TypeOK /\ Roles /\ Alone /\ [Next]_vars => Alone'
<1> SUFFICES ASSUME TypeOK, Roles, Alone, [Next]_vars PROVE Alone'
  OBVIOUS
<1>1. ASSUME NEW p \in Procs, NEW v \in Slots, PushBegin(p, v) PROVE Alone'
  BY <1>1 DEF PushBegin, words, Go, At, Alone, Holds, TypeOK
<1>2. ASSUME NEW p \in Procs, PushSeq(p) PROVE Alone'
  BY <1>2 DEF PushSeq, words, Go, At, Alone, Holds, TypeOK
<1>3. ASSUME NEW p \in Procs, PushTail(p) PROVE Alone'
  BY <1>3 DEF PushTail, words, Go, At, Alone, Holds, TypeOK
<1>4. ASSUME NEW p \in Procs, PushCas(p) PROVE Alone'
  BY <1>4 DEF PushCas, words, Go, At, Alone, Holds, TypeOK
<1>5. ASSUME NEW p \in Procs, Write(p) PROVE Alone'
  BY <1>5 DEF Write, words, Go, At, Alone, Holds, TypeOK
<1>6. ASSUME NEW p \in Procs, Publish(p) PROVE Alone'
  BY <1>6 DEF Publish, words, Go, At, Alone, Holds, TypeOK
<1>7. ASSUME NEW p \in Procs, PopBegin(p) PROVE Alone'
  BY <1>7 DEF PopBegin, words, Go, At, Alone, Holds, TypeOK
<1>8. ASSUME NEW p \in Procs, PopSeq(p) PROVE Alone'
  BY <1>8 DEF PopSeq, words, Go, At, Alone, Holds, TypeOK
<1>9. ASSUME NEW p \in Procs, PopHead(p) PROVE Alone'
  BY <1>9 DEF PopHead, words, Go, At, Alone, Holds, TypeOK
<1>10. ASSUME NEW p \in Procs, PopCas(p) PROVE Alone'
  BY <1>10 DEF PopCas, Roles, PopPcs, Go, At, Alone, Holds, TypeOK
<1>11. ASSUME NEW p \in Procs, Read(p) PROVE Alone'
  BY <1>11 DEF Read, words, Go, At, Alone, Holds, TypeOK
<1>12. ASSUME NEW p \in Procs, Release(p) PROVE Alone'
  BY <1>12 DEF Release, words, Go, At, Alone, Holds, TypeOK
<1>13. ASSUME NEW p \in Procs, AskBegin(p) PROVE Alone'
  BY <1>13 DEF AskBegin, words, Go, At, Alone, Holds, TypeOK
<1>14. ASSUME NEW p \in Procs, AskSeq(p) PROVE Alone'
  BY <1>14 DEF AskSeq, words, Go, At, Alone, Holds, TypeOK
<1>15. ASSUME NEW p \in Procs, PeekBegin(p) PROVE Alone'
  BY <1>15 DEF PeekBegin, words, Go, At, Alone, Holds, TypeOK
<1>16. ASSUME NEW p \in Procs, PeekSeq(p) PROVE Alone'
  BY <1>16 DEF PeekSeq, words, Go, At, Alone, Holds, TypeOK
<1>17. ASSUME NEW p \in Procs, PeekVal(p) PROVE Alone'
  BY <1>17 DEF PeekVal, words, Go, At, Alone, Holds, TypeOK
<1>18. CASE UNCHANGED vars
  BY <1>18 DEF vars, words, locals, Alone, Holds
<1> QED
  BY <1>1, <1>2, <1>3, <1>4, <1>5, <1>6, <1>7, <1>8, <1>9, <1>10, <1>11, <1>12, <1>13,
     <1>14, <1>15, <1>16, <1>17, <1>18 DEF Next, Push, Pop, Look

-----------------------------------------------------------------------------
(* What the ring carries.                                                  *)

\* A claim publishes nothing.
LEMMA ClaimedOnly ==
  ASSUME TypeOK, Seen, NEW p \in Procs, PushCas(p), tail = pos[p]
  PROVE  \A m \in Window' : Full(m)' => m \in Window /\ Full(m)
<1>1. pc[p] = "pushCas" /\ tail' = tail + 1 /\ UNCHANGED seq /\ tail \in Nat
  BY DEF PushCas, Go, TypeOK
<1>2. seq[Cell(tail)] = tail
  BY <1>1 DEF Seen, Mine
<1> QED
  BY <1>1, <1>2, CapacityType DEF Window, Full

\* Nobody works on a cell that is being written, and it is not published.
LEMMA WriterAlone ==
  ASSUME TypeOK, Owned, NEW p \in Procs, Claimed(p)
  PROVE  /\ \A q \in Procs : q # p /\ (Claimed(q) \/ Holds(q)) => Mine(q) # Mine(p)
         /\ \A m \in Window : Full(m) => Cell(m) # Mine(p)
<1>1. pos[p] \in Window /\ seq[Mine(p)] = pos[p] /\ tail \in Nat /\ pos[p] \in Nat
  BY MineType DEF Owned, TypeOK
<1>2. ASSUME NEW q \in Procs, q # p, Claimed(q) \/ Holds(q), Mine(q) = Mine(p) PROVE FALSE
  <2>1. pos[q] = pos[p]
    BY <1>1, <1>2, CellsApart DEF Owned, Mine
  <2> QED
    BY <1>1, <1>2, <2>1 DEF Owned
<1>3. ASSUME NEW m \in Window, Full(m), Cell(m) = Mine(p) PROVE FALSE
  <2>1. m = pos[p]
    BY <1>1, <1>3, CellsApart DEF Mine
  <2> QED
    BY <1>1, <1>3, <2>1 DEF Full, Mine
<1> QED
  BY <1>2, <1>3

\* The other places of the window have other cells.
LEMMA OtherCells ==
  ASSUME TypeOK, Owned, NEW p \in Procs, Claimed(p) \/ Holds(p), NEW m \in Window, m # pos[p]
  PROVE  Cell(m) \in Cells /\ Cell(m) # Mine(p)
<1>1. pos[p] \in Window /\ tail \in Nat
  BY DEF Owned, TypeOK
<1> QED
  BY <1>1, CellsApart, CellType, CapacityType DEF Mine, Window

\* A publication and a release change the state of their own place alone.
LEMMA OthersFull ==
  ASSUME TypeOK, Owned, NEW p \in Procs, Publish(p) \/ Release(p),
         NEW m \in Window, m # pos[p]
  PROVE  seq'[Cell(m)] = seq[Cell(m)] /\ (Full(m)' <=> Full(m))
<1>1. Cell(m) \in Cells /\ Cell(m) # Mine(p)
  BY OtherCells DEF Claimed, Holds, Publish, Release, Go
<1> QED
  BY <1>1 DEF Publish, Release, Full, TypeOK

\* A place that is released is not full.
LEMMA ReleasedNotFull ==
  ASSUME TypeOK, NEW p \in Procs, Release(p)
  PROVE  ~Full(pos[p])'
<1>1. seq'[Mine(p)] = pos[p] + Capacity /\ UNCHANGED pos
  BY MineType DEF Release, TypeOK
<1> QED
  BY <1>1, MineType, CapacityType DEF Full, Mine

\* A slot that may be pushed is in no published cell, a cell a consumer still
\* holds included.
LEMMA FreeOfRing ==
  ASSUME TypeOK, Turns, Carried, NEW v \in Slots, Free(v), NEW m \in Window, Full(m)
  PROVE  val[Cell(m)] # v
<1>1. m \in Int /\ head \in Nat /\ tail \in Nat /\ Published(m)
  BY CapacityType DEF Turns, Filling, Published, Freed, Full, Window, TypeOK
<1>2. CASE head <= m
  BY <1>1, <1>2, CapacityType DEF Free, Full, Window
<1>3. CASE m < head
  <2>1. PICK q \in Procs : Holds(q) /\ pos[q] = m
    BY <1>1, <1>3 DEF Published
  <2> QED
    BY <2>1 DEF Free, Carried, Holds, Mine
<1> QED
  BY <1>1, <1>2, <1>3

\* Every step keeps what is carried.
LEMMA CarriedStep == TypeOK /\ Owned /\ Seen /\ Carried /\ [Next]_vars => Carried'
<1> SUFFICES ASSUME TypeOK, Owned, Seen, Carried, [Next]_vars PROVE Carried'
  OBVIOUS
<1>1. ASSUME NEW p \in Procs, NEW v \in Slots, PushBegin(p, v) PROVE Carried'
  BY <1>1 DEF PushBegin, words, Carried, Go, At, Full, Window, Mine, PushPcs, TypeOK
<1>2. ASSUME NEW p \in Procs, PushSeq(p) PROVE Carried'
  BY <1>2 DEF PushSeq, words, Carried, Go, At, Full, Window, Mine, PushPcs, TypeOK
<1>3. ASSUME NEW p \in Procs, PushTail(p) PROVE Carried'
  BY <1>3 DEF PushTail, words, Carried, Go, At, Full, Window, Mine, PushPcs, TypeOK
<1>4. ASSUME NEW p \in Procs, PushCas(p) PROVE Carried'
  <2>1. CASE tail # pos[p]
    BY <1>4, <2>1 DEF PushCas, Carried, Go, At, Full, Window, Mine, PushPcs, TypeOK
  <2>2. CASE tail = pos[p]
    <3>1. \A m \in Window' : Full(m)' => m \in Window /\ Full(m)
      BY <1>4, <2>2, ClaimedOnly
    <3> QED
      BY <1>4, <2>2, <3>1 DEF PushCas, Carried, Go, Mine, PushPcs, TypeOK
  <2> QED
    BY <2>1, <2>2
<1>5. ASSUME NEW p \in Procs, Write(p) PROVE Carried'
  <2>1. /\ \A q \in Procs : q # p /\ (pc[q] = "publish" \/ pc[q] = "release") => Mine(q) # Mine(p)
        /\ \A m \in Window : Full(m) => Cell(m) # Mine(p)
    BY <1>5, WriterAlone DEF Write, Go, Claimed, Holds
  <2>2. /\ pc' = [pc EXCEPT ![p] = "publish"] /\ pc[p] = "write" /\ arg[p] \in Slots
        /\ val' = [val EXCEPT ![Mine(p)] = arg[p]] /\ Mine(p) \in Cells
        /\ UNCHANGED <<tail, seq, pos, arg, got>>
    BY <1>5, MineType DEF Write, Go, Carried, PushPcs
  <2> QED
    BY <2>1, <2>2, CellType, MineType DEF Carried, Go, At, Full, Window, Mine, PushPcs, TypeOK
<1>6. ASSUME NEW p \in Procs, Publish(p) PROVE Carried'
  <2>1. \A m \in Window : m # pos[p] => (Full(m)' <=> Full(m))
    BY <1>6, OthersFull
  <2>2. pc[p] = "publish" /\ pc' = [pc EXCEPT ![p] = "idle"] /\ UNCHANGED <<tail, val, pos, arg, got>>
    BY <1>6 DEF Publish, Go
  <2>3. Full(pos[p])' => val[Cell(pos[p])] \in Slots
    BY <2>2 DEF Carried, Mine, PushPcs
  <2> QED
    BY <2>1, <2>2, <2>3 DEF Carried, Window, Mine, PushPcs, TypeOK
<1>7. ASSUME NEW p \in Procs, PopBegin(p) PROVE Carried'
  BY <1>7 DEF PopBegin, words, Carried, Go, At, Full, Window, Mine, PushPcs, TypeOK
<1>8. ASSUME NEW p \in Procs, PopSeq(p) PROVE Carried'
  BY <1>8 DEF PopSeq, words, Carried, Go, At, Full, Window, Mine, PushPcs, TypeOK
<1>9. ASSUME NEW p \in Procs, PopHead(p) PROVE Carried'
  BY <1>9 DEF PopHead, words, Carried, Go, At, Full, Window, Mine, PushPcs, TypeOK
<1>10. ASSUME NEW p \in Procs, PopCas(p) PROVE Carried'
  BY <1>10 DEF PopCas, words, Carried, Go, At, Full, Window, Mine, PushPcs, TypeOK
<1>11. ASSUME NEW p \in Procs, Read(p) PROVE Carried'
  BY <1>11 DEF Read, words, Carried, Go, At, Full, Window, Mine, PushPcs, TypeOK
<1>12. ASSUME NEW p \in Procs, Release(p) PROVE Carried'
  <2>1. \A m \in Window : m # pos[p] => (Full(m)' <=> Full(m))
    BY <1>12, OthersFull
  <2>2. pc[p] = "release" /\ pc' = [pc EXCEPT ![p] = "idle"] /\ UNCHANGED <<tail, val, pos, arg, got>>
    BY <1>12 DEF Release, Go
  <2>3. Full(pos[p])' => val[Cell(pos[p])] \in Slots
    BY <1>12, ReleasedNotFull
  <2> QED
    BY <2>1, <2>2, <2>3 DEF Carried, Window, Mine, PushPcs, TypeOK
<1>13. ASSUME NEW p \in Procs, AskBegin(p) PROVE Carried'
  BY <1>13 DEF AskBegin, words, Carried, Go, At, Full, Window, Mine, PushPcs, TypeOK
<1>14. ASSUME NEW p \in Procs, AskSeq(p) PROVE Carried'
  BY <1>14 DEF AskSeq, words, Carried, Go, At, Full, Window, Mine, PushPcs, TypeOK
<1>15. ASSUME NEW p \in Procs, PeekBegin(p) PROVE Carried'
  BY <1>15 DEF PeekBegin, words, Carried, Go, At, Full, Window, Mine, PushPcs, TypeOK
<1>16. ASSUME NEW p \in Procs, PeekSeq(p) PROVE Carried'
  BY <1>16 DEF PeekSeq, words, Carried, Go, At, Full, Window, Mine, PushPcs, TypeOK
<1>17. ASSUME NEW p \in Procs, PeekVal(p) PROVE Carried'
  BY <1>17 DEF PeekVal, words, Carried, Go, At, Full, Window, Mine, PushPcs, TypeOK
<1>18. CASE UNCHANGED vars
  BY <1>18 DEF vars, words, locals, Carried, Full, Window, Mine
<1> QED
  BY <1>1, <1>2, <1>3, <1>4, <1>5, <1>6, <1>7, <1>8, <1>9, <1>10, <1>11, <1>12, <1>13,
     <1>14, <1>15, <1>16, <1>17, <1>18 DEF Next, Push, Pop, Look

\* Every step carries a slot once.
LEMMA ApartStep == TypeOK /\ Turns /\ Owned /\ Seen /\ Carried /\ Apart /\ [Next]_vars => Apart'
<1> SUFFICES ASSUME TypeOK, Turns, Owned, Seen, Carried, Apart, [Next]_vars PROVE Apart'
  OBVIOUS
<1>1. ASSUME NEW p \in Procs, NEW v \in Slots, PushBegin(p, v) PROVE Apart'
  <2>1. /\ pc' = [pc EXCEPT ![p] = "pushSeq"] /\ arg' = [arg EXCEPT ![p] = v]
        /\ UNCHANGED words
    BY <1>1 DEF PushBegin, Go
  <2>2. \A q \in Procs : pc[q] \in PushPcs => arg[q] # v
    BY <1>1 DEF PushBegin, Free
  <2>3. \A m \in Window : Full(m) => val[Cell(m)] # v
    BY <1>1, FreeOfRing DEF PushBegin
  <2> QED
    BY <2>1, <2>2, <2>3 DEF words, Apart, Full, Window, PushPcs, TypeOK
<1>2. ASSUME NEW p \in Procs, PushSeq(p) PROVE Apart'
  BY <1>2 DEF PushSeq, words, Apart, Go, At, Full, Window, Mine, PushPcs, TypeOK
<1>3. ASSUME NEW p \in Procs, PushTail(p) PROVE Apart'
  BY <1>3 DEF PushTail, words, Apart, Go, At, Full, Window, Mine, PushPcs, TypeOK
<1>4. ASSUME NEW p \in Procs, PushCas(p) PROVE Apart'
  <2>1. CASE tail # pos[p]
    BY <1>4, <2>1 DEF PushCas, Apart, Go, At, Full, Window, Mine, PushPcs, TypeOK
  <2>2. CASE tail = pos[p]
    <3>1. \A m \in Window' : Full(m)' => m \in Window /\ Full(m)
      BY <1>4, <2>2, ClaimedOnly
    <3> QED
      BY <1>4, <2>2, <3>1 DEF PushCas, Apart, Go, PushPcs, TypeOK
  <2> QED
    BY <2>1, <2>2
<1>5. ASSUME NEW p \in Procs, Write(p) PROVE Apart'
  <2>1. \A m \in Window : Full(m) => Cell(m) # Mine(p)
    BY <1>5, WriterAlone DEF Write, Go, Claimed
  <2>2. /\ pc' = [pc EXCEPT ![p] = "publish"] /\ pc[p] = "write"
        /\ \A c \in Cells : c # Mine(p) => val'[c] = val[c]
        /\ UNCHANGED <<tail, seq, arg>>
    BY <1>5 DEF Write, Go, TypeOK
  <2> QED
    BY <2>1, <2>2, CellType DEF Apart, Go, At, Full, Window, Mine, PushPcs, TypeOK
<1>6. ASSUME NEW p \in Procs, Publish(p) PROVE Apart'
  <2>1. \A m \in Window : m # pos[p] => (Full(m)' <=> Full(m))
    BY <1>6, OthersFull
  <2>2. /\ pc[p] = "publish" /\ pc' = [pc EXCEPT ![p] = "idle"] /\ UNCHANGED <<tail, val, arg>>
        /\ Window' = Window
    BY <1>6 DEF Publish, Go, Window
  <2>3. val[Cell(pos[p])] = arg[p]
    BY <2>2 DEF Carried, Mine
  <2>4. \A q \in Procs : pc'[q] \in PushPcs => q # p /\ pc[q] \in PushPcs
    BY <2>2 DEF PushPcs, TypeOK
  <2>5. \A q \in Procs, m \in Window : pc'[q] \in PushPcs /\ Full(m)' => arg[q] # val[Cell(m)]
    BY <2>1, <2>2, <2>3, <2>4 DEF Apart, PushPcs
  <2>6. \A m, o \in Window : m # o /\ Full(m)' /\ Full(o)' => val[Cell(m)] # val[Cell(o)]
    BY <2>1, <2>2, <2>3 DEF Apart, PushPcs
  <2> QED
    BY <2>2, <2>4, <2>5, <2>6 DEF Apart
<1>7. ASSUME NEW p \in Procs, PopBegin(p) PROVE Apart'
  BY <1>7 DEF PopBegin, words, Apart, Go, At, Full, Window, Mine, PushPcs, TypeOK
<1>8. ASSUME NEW p \in Procs, PopSeq(p) PROVE Apart'
  BY <1>8 DEF PopSeq, words, Apart, Go, At, Full, Window, Mine, PushPcs, TypeOK
<1>9. ASSUME NEW p \in Procs, PopHead(p) PROVE Apart'
  BY <1>9 DEF PopHead, words, Apart, Go, At, Full, Window, Mine, PushPcs, TypeOK
<1>10. ASSUME NEW p \in Procs, PopCas(p) PROVE Apart'
  BY <1>10 DEF PopCas, words, Apart, Go, At, Full, Window, Mine, PushPcs, TypeOK
<1>11. ASSUME NEW p \in Procs, Read(p) PROVE Apart'
  BY <1>11 DEF Read, words, Apart, Go, At, Full, Window, Mine, PushPcs, TypeOK
<1>12. ASSUME NEW p \in Procs, Release(p) PROVE Apart'
  <2>1. \A m \in Window : Full(m)' => Full(m)
    <3>1. ~Full(pos[p])' /\ UNCHANGED pos
      BY <1>12, ReleasedNotFull DEF Release
    <3>2. \A m \in Window : m # pos[p] => (Full(m)' <=> Full(m))
      BY <1>12, OthersFull
    <3> QED
      BY <3>1, <3>2 DEF Full
  <2>2. pc' = [pc EXCEPT ![p] = "idle"] /\ UNCHANGED <<tail, val, arg>>
    BY <1>12 DEF Release, Go
  <2> QED
    BY <2>1, <2>2 DEF Apart, Window, PushPcs, TypeOK
<1>13. ASSUME NEW p \in Procs, AskBegin(p) PROVE Apart'
  BY <1>13 DEF AskBegin, words, Apart, Go, At, Full, Window, Mine, PushPcs, TypeOK
<1>14. ASSUME NEW p \in Procs, AskSeq(p) PROVE Apart'
  BY <1>14 DEF AskSeq, words, Apart, Go, At, Full, Window, Mine, PushPcs, TypeOK
<1>15. ASSUME NEW p \in Procs, PeekBegin(p) PROVE Apart'
  BY <1>15 DEF PeekBegin, words, Apart, Go, At, Full, Window, Mine, PushPcs, TypeOK
<1>16. ASSUME NEW p \in Procs, PeekSeq(p) PROVE Apart'
  BY <1>16 DEF PeekSeq, words, Apart, Go, At, Full, Window, Mine, PushPcs, TypeOK
<1>17. ASSUME NEW p \in Procs, PeekVal(p) PROVE Apart'
  BY <1>17 DEF PeekVal, words, Apart, Go, At, Full, Window, Mine, PushPcs, TypeOK
<1>18. CASE UNCHANGED vars
  BY <1>18 DEF vars, words, locals, Apart, Full, Window
<1> QED
  BY <1>1, <1>2, <1>3, <1>4, <1>5, <1>6, <1>7, <1>8, <1>9, <1>10, <1>11, <1>12, <1>13,
     <1>14, <1>15, <1>16, <1>17, <1>18 DEF Next, Push, Pop, Look

-----------------------------------------------------------------------------
(* The invariant and what it gives.                                        *)

\* A place below the capacity has the cell of its number.
LEMMA CellOf == ASSUME NEW n \in Cells PROVE Cell(n) = n
<1>1. n \in Int /\ 0 <= n /\ n < Capacity
  BY CapacityType DEF Cells
<1>2. Cell(n) \in Int /\ 0 <= Cell(n) /\ Cell(n) < Capacity
  BY <1>1, CellType, CapacityType DEF Cells
<1> DEFINE q == n \div Capacity
<1>3. q \in Int /\ n = Capacity * q + Cell(n)
  BY <1>1, Divides DEF Cell
<1> HIDE DEF q
<1>4. q = 0
  BY <1>1, <1>2, <1>3, Times, CapacityType
<1> QED
  BY <1>2, <1>3, <1>4, Times

\* At the start every cell is free for the first lap.
LEMMA InitInductive == Init => Inductive
<1> SUFFICES ASSUME Init PROVE Inductive
  OBVIOUS
<1>1. TypeOK
  <2>1. empty \in [Procs -> BOOLEAN]
    BY DEF Init
  <2> QED
    BY <2>1, CapacityType DEF Init, TypeOK, Cells
<1>2. \A p \in Procs : pc[p] = "idle"
  BY DEF Init
<1>3. ASSUME NEW n \in Window
      PROVE  n < 0 /\ seq[Cell(n)] = n + Capacity
  <2>1. n \in Int /\ n < 0 /\ n + Capacity \in Cells
    BY CapacityType DEF Init, Window, Cells
  <2>2. Cell(n) = n + Capacity
    BY <2>1, CellNext, CellOf
  <2> QED
    BY <2>1, <2>2 DEF Init
<1>4. Turns
  BY <1>3, CapacityType DEF Init, Turns, Freed
<1>5. Owned /\ Alone
  BY <1>2 DEF Owned, Alone, Claimed, Holds
<1>6. Seen
  BY <1>2 DEF Seen
<1>7. Roles
  BY <1>2 DEF Roles, PushPcs, PopPcs
<1>8. \A n \in Window : ~Full(n)
  BY <1>3, CapacityType DEF Full, Window, TypeOK, Init
<1>9. Carried /\ Apart
  BY <1>2, <1>8 DEF Carried, Apart, PushPcs
<1> QED
  BY <1>1, <1>4, <1>5, <1>6, <1>7, <1>9 DEF Inductive

\* And every step keeps all of it.
LEMMA NextInductive == Inductive /\ [Next]_vars => Inductive'
<1> SUFFICES ASSUME Inductive, [Next]_vars PROVE Inductive'
  OBVIOUS
<1>1. TypeOK' /\ Roles' /\ Alone'
  BY TypeStep, RolesStep, AloneStep DEF Inductive
<1>2. Turns' /\ Owned' /\ Seen'
  BY TurnsStep, SeenStep DEF Inductive
<1>3. Carried' /\ Apart'
  BY CarriedStep, ApartStep DEF Inductive
<1> QED
  BY <1>1, <1>2, <1>3 DEF Inductive

\* The invariant holds in every state of every ring.
THEOREM Invariance == Spec => []Inductive
<1>1. Init => Inductive
  BY InitInductive
<1>2. Inductive /\ [Next]_vars => Inductive'
  BY NextInductive
<1> QED
  BY <1>1, <1>2, PTL DEF Spec

\* Every variable of the ring has its type.
THEOREM Types == Spec => []TypeOK
<1>1. Inductive => TypeOK
  BY DEF Inductive
<1> QED
  BY <1>1, Invariance, PTL

\* No process writes a cell while another writes or reads it, the peek of the
\* only producer included, whatever the numbers of producers and consumers.
THEOREM WordsAreOwned == Spec => []NoRace
<1>1. Inductive => NoRace
  <2> SUFFICES ASSUME Inductive, NEW p \in Procs, NEW q \in Procs, p # q,
                      pc[p] = "write", pc[q] \in {"write", "read", "peekVal"}
               PROVE  Mine(p) # Mine(q)
    BY DEF NoRace
  <2>1. CASE pc[q] = "peekVal"
    <3>1. p \in use.push /\ q \in use.peek /\ use \in Uses
      BY <2>1 DEF Inductive, Roles, PushPcs, TypeOK
    <3>2. use.push = {q}
      BY <3>1, RingAssumption
    <3> QED
      BY <3>1, <3>2
  <2>2. CASE pc[q] # "peekVal"
    BY <2>2, WriterAlone DEF Inductive, Claimed, Holds
  <2> QED
    BY <2>1, <2>2
<1> QED
  BY <1>1, Invariance, PTL

\* A place is its producer's until it is published.
LEMMA PlaceOf ==
  ASSUME TypeOK, Turns, NEW n \in head .. tail - 1
  PROVE  /\ n \in Window
         /\ Full(n) => PlaceAt(n) = [val |-> val[Cell(n)], by |-> None]
         /\ ~Full(n) => /\ Producer(n) \in Procs /\ Claimed(Producer(n)) /\ pos[Producer(n)] = n
                        /\ PlaceAt(n) = [val |-> arg[Producer(n)], by |-> Producer(n)]
<1>1. n \in Window /\ n \in Nat /\ head \in Nat /\ head <= n
  BY CapacityType DEF TypeOK, Turns, Window
<1>2. ~Full(n) => \E p \in Procs : Claimed(p) /\ pos[p] = n
  BY <1>1 DEF Turns, Filling, Published, Freed, Full
<1> QED
  BY <1>1, <1>2 DEF PlaceAt, Producer, Full, Claimed

\* The answer of is_empty to the only consumer is the truth, with its two reads
\* apart and every producer running between them.
THEOREM AnswersExactly == Spec => EmptyExact
<1>1. ASSUME Inductive, NEW p \in Procs, AskSeq(p), use.pop = {p}
      PROVE  empty'[p] <=> Contents = <<>> \/ Head(Contents).by # None
  <2>1. TypeOK /\ Turns /\ pos[p] = head /\ head \in Nat /\ tail \in Nat /\ head <= tail
    BY <1>1 DEF Inductive, Alone, AskSeq, Go, TypeOK, Turns
  <2>2. empty'[p] <=> ~Full(head)
    BY <1>1, <2>1 DEF AskSeq, Mine, Full, TypeOK
  <2>3. CASE head = tail
    <3>1. Contents = <<>>
      BY <2>1, <2>3 DEF Contents
    <3>2. ~Full(head)
      BY <2>1, <2>3, HeadPublished DEF Full
    <3> QED
      BY <2>2, <3>1, <3>2
  <2>4. CASE head # tail
    <3>1. head \in head .. tail - 1 /\ 1 \in 1 .. tail - head /\ head + 1 - 1 = head
      BY <2>1, <2>4
    <3>2. Contents # <<>> /\ Head(Contents) = PlaceAt(head)
      BY <2>1, <3>1 DEF Contents
    <3>3. Head(Contents).by # None <=> ~Full(head)
      BY <2>1, <3>1, <3>2, PlaceOf, RingAssumption
    <3> QED
      BY <2>2, <3>2, <3>3
  <2> QED
    BY <2>3, <2>4
<1>2. Inductive /\ [Next]_vars => [\A p \in Procs : AskSeq(p) /\ use.pop = {p}
       => (empty'[p] <=> Contents = <<>> \/ Head(Contents).by # None)]_vars
  BY <1>1
<1> QED
  BY <1>2, Invariance, PTL DEF Spec, EmptyExact

-----------------------------------------------------------------------------
(* "Neither can actually fill."                                            *)

\* Some laps further is the same cell.
LEMMA CellLaps ==
  ASSUME NEW n \in Int, NEW k \in Int
  PROVE  Capacity * k \in Int /\ Cell(n + Capacity * k) = Cell(n)
<1> DEFINE d == Capacity * k
           m == n + d
           q == n \div Capacity
           r == m \div Capacity
           a == n % Capacity
           b == m % Capacity
<1>1. d \in Int /\ m \in Int /\ m = n + d
  BY CapacityType
<1>2. /\ q \in Int /\ r \in Int /\ n = Capacity * q + a /\ m = Capacity * r + b
      /\ a \in 0 .. Capacity - 1 /\ b \in 0 .. Capacity - 1
  BY <1>1, Divides
<1>3. d = Capacity * k
  OBVIOUS
<1> HIDE DEF d, m, q, r, a, b
<1>4. Capacity * ((r - q) - k) = a - b
  <2>1. Capacity * ((r - q) - k) = Capacity * (r - q) - d
    BY <1>2, <1>3, Distributes
  <2>2. Capacity * (r - q) = Capacity * r - Capacity * q
    BY <1>2, Distributes
  <2>3. Capacity * q \in Int /\ Capacity * r \in Int
    BY <1>2, CapacityType
  <2> QED
    BY <1>1, <1>2, <2>1, <2>2, <2>3
<1>5. (r - q) - k = 0
  BY <1>2, <1>4, Times, CapacityType
<1>6. a = b
  BY <1>2, <1>4, <1>5, Times
<1> QED
  BY <1>1, <1>6 DEF a, b, d, m, Cell

\* Every cell has a place in the window.
LEMMA CellInWindow ==
  ASSUME tail \in Nat, NEW n \in Int
  PROVE  \E w \in Window : Cell(w) = Cell(n)
<1> DEFINE d == n - (tail - Capacity)
           k == d \div Capacity
           e == d % Capacity
<1>1. d \in Int /\ n = d + (tail - Capacity)
  BY CapacityType
<1>2. k \in Int /\ d = Capacity * k + e /\ e \in 0 .. Capacity - 1
  BY <1>1, Divides
<1> HIDE DEF d, k, e
<1>3. Capacity * k \in Int /\ Capacity * (0 - k) = 0 - Capacity * k
  BY <1>2, Distributes, Times, CapacityType
<1>4. (tail - Capacity) + e = n + Capacity * (0 - k) /\ (tail - Capacity) + e \in Window
  BY <1>1, <1>2, <1>3, CapacityType DEF Window
<1>5. 0 - k \in Int
  BY <1>2
<1>6. Cell(n + Capacity * (0 - k)) = Cell(n)
  BY <1>5, CellLaps
<1> QED
  BY <1>4, <1>6

\* A push is refused at the tail alone, and only where the tail's cell was not
\* released since the lap before.
LEMMA RefusedAtTail ==
  ASSUME TypeOK, Turns, Seen, NEW p \in Procs, Refused(p)
  PROVE  ~Freed(tail - Capacity)
<1>1. /\ pos[p] \in Nat /\ tail \in Nat /\ pos[p] <= tail /\ seq[Mine(p)] < pos[p]
  BY MineType DEF Refused, Seen, TypeOK
<1>2. PICK w \in Window : Cell(w) = Mine(p)
  BY <1>1, CellInWindow DEF Mine
<1>3. w \in Int /\ tail - Capacity <= w /\ Capacity \in Nat /\ Capacity > 1
  BY <1>1, CapacityType DEF Window
<1>4. CASE w < pos[p]
  <2>1. w + Capacity <= pos[p]
    BY <1>1, <1>2, <1>3, <1>4, CellApart DEF Mine
  <2>2. w = tail - Capacity /\ pos[p] = tail
    BY <1>1, <1>3, <2>1
  <2> QED
    BY <1>1, <1>2, <1>3, <2>2 DEF Freed
<1>5. CASE ~(w < pos[p])
  <2>1. seq[Cell(w)] \in {w, w + 1, w + Capacity}
    BY <1>2 DEF Turns, Filling, Published, Freed
  <2> QED
    BY <1>1, <1>2, <1>3, <1>5, <2>1
<1> QED
  BY <1>4, <1>5

\* With one consumer the places are released in their order.
LEMMA ReleasedInOrder ==
  ASSUME TypeOK, Turns, Roles, Alone, Cardinality(use.pop) = 1,
         NEW m \in Window, NEW n \in Window, m <= n, ~Freed(m)
  PROVE  ~Freed(n)
<1>1. use \in Uses /\ IsFiniteSet(use.pop)
  BY RingAssumption DEF TypeOK
<1>2. \E c : use.pop = {c}
  BY <1>1, FS_Singleton
<1>3. \A q \in Procs : Holds(q) => head = pos[q] + 1
  BY <1>2 DEF Roles, Alone, Holds, PopPcs
<1>4. m \in Int /\ n \in Int /\ head \in Nat /\ \A q \in Procs : pos[q] \in Nat
  BY CapacityType DEF Window, TypeOK
<1>5. head <= m \/ head = m + 1
  BY <1>3 DEF Turns, Filling, Published
<1>6. CASE m = n
  BY <1>6
<1>7. CASE m # n
  BY <1>4, <1>5, <1>7 DEF Freed
<1> QED
  BY <1>6, <1>7

\* Were a push refused, the window's places and the push would carry more slots
\* than there are cells.
LEMMA RefusedNever ==
  ASSUME Inductive, Cardinality(use.pop) = 1, Cardinality(Slots) <= Capacity,
         NEW p \in Procs, Refused(p)
  PROVE  FALSE
<1> USE DEF Inductive
<1>1. tail \in Nat /\ head \in Nat /\ Capacity \in Nat /\ pc[p] = "pushSeq"
  BY CapacityType DEF Refused, TypeOK
<1>2. \A n \in Window : ~Freed(n)
  <2>1. tail - Capacity \in Window /\ \A n \in Window : tail - Capacity <= n
    BY <1>1, CapacityType DEF Window
  <2> QED
    BY <2>1, RefusedAtTail, ReleasedInOrder
<1>3. \A n \in Window : ~Full(n) => /\ Producer(n) \in Procs /\ Claimed(Producer(n))
                                    /\ pos[Producer(n)] = n
  <2> SUFFICES ASSUME NEW n \in Window, ~Full(n)
               PROVE  /\ Producer(n) \in Procs /\ Claimed(Producer(n))
                      /\ pos[Producer(n)] = n
    OBVIOUS
  <2>1. n \in head .. tail - 1
    BY <1>1, <1>2 DEF Turns, Filling, Published, Full, Window
  <2> QED
    BY <2>1, PlaceOf
<1>4. \A q \in Procs : Claimed(q) => q # p /\ pc[q] \in PushPcs
  BY <1>1 DEF Claimed, PushPcs
<1>5. pc[p] \in PushPcs
  BY <1>1 DEF PushPcs
<1> DEFINE S == tail - Capacity .. tail
           f == [n \in S |-> IF n = tail THEN arg[p]
                             ELSE IF Full(n) THEN val[Cell(n)] ELSE arg[Producer(n)]]
<1>6. \A n \in S : n = tail \/ n \in Window
  BY <1>1 DEF Window
<1>7. f \in [S -> Slots]
  BY <1>3, <1>4, <1>5, <1>6 DEF Carried
<1>8. ASSUME NEW m \in S, NEW n \in S, m # n PROVE f[m] # f[n]
  <2>1. ASSUME NEW k \in Window, k # tail PROVE f[k] # arg[p]
    <3>1. k \in S
      BY <1>1, <2>1 DEF Window
    <3> QED
      BY <1>3, <1>4, <1>5, <2>1, <3>1 DEF Apart
  <2>2. CASE m = tail \/ n = tail
    BY <1>6, <1>8, <2>1, <2>2
  <2>3. CASE m # tail /\ n # tail
    <3>1. m \in Window /\ n \in Window
      BY <1>6, <2>3
    <3>2. CASE Full(m) /\ Full(n)
      BY <1>8, <2>3, <3>1, <3>2 DEF Apart
    <3>3. CASE Full(m) /\ ~Full(n)
      BY <1>3, <1>4, <2>3, <3>1, <3>3 DEF Apart
    <3>4. CASE ~Full(m) /\ Full(n)
      BY <1>3, <1>4, <2>3, <3>1, <3>4 DEF Apart
    <3>5. CASE ~Full(m) /\ ~Full(n)
      BY <1>3, <1>4, <1>8, <2>3, <3>1, <3>5 DEF Apart
    <3> QED
      BY <3>2, <3>3, <3>4, <3>5
  <2> QED
    BY <2>2, <2>3
<1>9. IsFiniteSet(S) /\ Cardinality(S) = Capacity + 1
  <2>1. /\ tail - Capacity \in Int /\ tail \in Int /\ tail - Capacity <= tail
        /\ tail - (tail - Capacity) + 1 = Capacity + 1
    BY <1>1
  <2> HIDE DEF S
  <2>2. /\ IsFiniteSet(tail - Capacity .. tail)
        /\ Cardinality(tail - Capacity .. tail) = tail - (tail - Capacity) + 1
    BY <2>1, FS_Interval
  <2> QED
    BY <2>1, <2>2 DEF S
<1> HIDE DEF S, f
<1>10. IsFiniteSet(Slots) /\ Cardinality(Slots) < Cardinality(S)
  <2>1. IsFiniteSet(Slots)
    BY RingAssumption
  <2>2. Cardinality(Slots) \in Nat
    BY <2>1, FS_CardinalityType
  <2> QED
    BY <1>1, <1>9, <2>1, <2>2
<1> QED
  BY <1>7, <1>8, <1>9, <1>10, FS_PigeonHole

\* A ring with one consumer and a cell for every slot never refuses a push,
\* whatever the number of its producers and wherever each of them stands.
THEOREM RefusesNobody == Spec => []NeverRefused
<1>1. Inductive => NeverRefused
  BY RefusedNever DEF NeverRefused
<1> QED
  BY <1>1, Invariance, PTL

-----------------------------------------------------------------------------
(* The ring is the queue ClaimQueue describes.                             *)

\* A place is waited for from one producer, before a step ...
LEMMA ProducerIs ==
  ASSUME Owned, NEW n, NEW q \in Procs, Claimed(q), pos[q] = n
  PROVE  Producer(n) = q
  BY DEF Owned, Producer, Claimed

\* ... and after it.
LEMMA ProducerStays ==
  ASSUME Owned', NEW n, NEW q \in Procs, Claimed(q)', pos'[q] = n
  PROVE  Producer(n)' = q
  BY DEF Owned, Producer, Claimed

\* A place looks the same while its cell and its producer do.
LEMMA PlaceStays ==
  ASSUME TypeOK, Turns, Owned, Owned', NEW n \in head .. tail - 1,
         seq'[Cell(n)] = seq[Cell(n)], Full(n) => val'[Cell(n)] = val[Cell(n)],
         \A q \in Procs : Claimed(q) => Claimed(q)' /\ pos'[q] = pos[q] /\ arg'[q] = arg[q]
  PROVE  PlaceAt(n)' = PlaceAt(n)
<1>1. CASE Full(n)
  BY <1>1 DEF PlaceAt, Full
<1>2. CASE ~Full(n)
  <2>1. PICK q \in Procs : q = Producer(n) /\ Claimed(q) /\ pos[q] = n
    BY <1>2, PlaceOf
  <2>2. Producer(n)' = q
    BY <2>1, ProducerStays
  <2> QED
    BY <1>2, <2>1, <2>2 DEF PlaceAt, Full
<1> QED
  BY <1>1, <1>2

\* The queue looks the same while all its places do.
LEMMA ContentsStay ==
  ASSUME TypeOK, Turns, Owned, Owned', UNCHANGED <<head, tail>>,
         \A n \in head .. tail - 1 : /\ seq'[Cell(n)] = seq[Cell(n)]
                                     /\ Full(n) => val'[Cell(n)] = val[Cell(n)],
         \A q \in Procs : Claimed(q) => Claimed(q)' /\ pos'[q] = pos[q] /\ arg'[q] = arg[q]
  PROVE  Contents' = Contents
<1>1. \A n \in head .. tail - 1 : PlaceAt(n)' = PlaceAt(n)
  BY PlaceStays
<1>2. \A i \in 1 .. tail - head : head + i - 1 \in head .. tail - 1
  BY DEF TypeOK, Turns
<1> QED
  BY <1>1, <1>2 DEF Contents

\* What the users see is a sequence of places.
LEMMA ContentsType ==
  ASSUME Inductive
  PROVE  /\ Contents \in Seq(CQ!Place) /\ Len(Contents) = tail - head
         /\ \A i \in 1 .. tail - head : Contents[i] = PlaceAt(head + i - 1)
         /\ \A n \in head .. tail - 1 : n - head + 1 \in 1 .. tail - head
                                        /\ Contents[n - head + 1] = PlaceAt(n)
<1> USE DEF Inductive
<1>1. head \in Nat /\ tail \in Nat /\ head <= tail
  BY DEF TypeOK, Turns
<1>2. ASSUME NEW n \in head .. tail - 1 PROVE PlaceAt(n) \in CQ!Place
  BY <1>2, PlaceOf DEF CQ!Place, Carried, Claimed, PushPcs
<1>3. \A i \in 1 .. tail - head : head + i - 1 \in head .. tail - 1
  BY <1>1
<1>4. \A n \in head .. tail - 1 : n - head + 1 \in 1 .. tail - head /\ head + (n - head + 1) - 1 = n
  BY <1>1
<1>5. tail - head \in Nat
  BY <1>1
<1>6. Contents = [i \in 1 .. tail - head |-> PlaceAt(head + i - 1)]
  BY DEF Contents
<1>7. \A i \in 1 .. tail - head : PlaceAt(head + i - 1) \in CQ!Place
  BY <1>2, <1>3
<1>8. Contents \in Seq(CQ!Place) /\ Len(Contents) = tail - head
  BY ONLY <1>5, <1>6, <1>7
<1>9. \A i \in 1 .. tail - head : Contents[i] = PlaceAt(head + i - 1)
  BY <1>6
<1>10. ASSUME NEW n \in head .. tail - 1
       PROVE  n - head + 1 \in 1 .. tail - head /\ Contents[n - head + 1] = PlaceAt(n)
  BY <1>4, <1>9
<1> QED
  BY <1>8, <1>9, <1>10

\* The producer's exchange is the queue's claim.
LEMMA ClaimClaims ==
  ASSUME Inductive, Inductive', NEW p \in Procs, PushCas(p), tail = pos[p]
  PROVE  CQ!Claim(p, arg[p])
<1> USE DEF Inductive
<1>1. /\ pc[p] = "pushCas" /\ pc' = [pc EXCEPT ![p] = "write"] /\ tail' = tail + 1
      /\ UNCHANGED <<head, seq, val, pos, arg, got>>
      /\ head \in Nat /\ tail \in Nat /\ head <= tail /\ Capacity \in Nat
  BY CapacityType DEF PushCas, Go, TypeOK, Turns
<1>2. seq[Cell(tail)] = tail
  BY <1>1 DEF Seen, Mine
<1>3. Len(Contents) < Capacity
  BY <1>1, <1>2, TailFree, ContentsType
<1>4. ASSUME NEW i \in DOMAIN Contents PROVE Contents[i].by # p
  <2>1. i \in 1 .. tail - head /\ Contents[i] = PlaceAt(head + i - 1)
    BY ContentsType
  <2>2. head + i - 1 \in head .. tail - 1 /\ p # None /\ ~Claimed(p)
    BY <1>1, <2>1, RingAssumption DEF Claimed
  <2> QED
    BY <2>1, <2>2, PlaceOf
<1>5. \A n \in head .. tail - 1 : PlaceAt(n)' = PlaceAt(n)
  <2>1. \A q \in Procs : Claimed(q) => Claimed(q)'
    BY <1>1 DEF Claimed, TypeOK
  <2> QED
    BY <1>1, <2>1, PlaceStays
<1>6. ASSUME NEW n, n = tail PROVE PlaceAt(n)' = [val |-> arg[p], by |-> p]
  <2>1. Producer(n)' = p
    BY <1>1, <1>6, ProducerStays DEF Claimed, TypeOK
  <2>2. seq'[Cell(n)] # n + 1
    BY <1>1, <1>2, <1>6
  <2> QED
    BY <1>1, <2>1, <2>2 DEF PlaceAt
<1>7. Contents' = Append(Contents, [val |-> arg[p], by |-> p])
  <2>1. /\ tail' - head' = tail - head + 1 /\ head + (tail - head + 1) - 1 = tail
        /\ \A i \in 1 .. tail - head : head + i - 1 \in head .. tail - 1
        /\ \A i \in 1 .. tail - head + 1 : i = tail - head + 1 \/ i \in 1 .. tail - head
    BY <1>1
  <2>2. Contents' = [i \in 1 .. tail - head + 1 |-> PlaceAt(head + i - 1)']
    BY <1>1, <2>1 DEF Contents
  <2>3. Append(Contents, [val |-> arg[p], by |-> p])
        = [i \in 1 .. tail - head + 1 |-> IF i = tail - head + 1 THEN [val |-> arg[p], by |-> p]
                                          ELSE Contents[i]]
    BY ContentsType
  <2>4. \A i \in 1 .. tail - head : Contents[i] = PlaceAt(head + i - 1)
    BY ContentsType
  <2>5. ASSUME NEW i \in 1 .. tail - head PROVE PlaceAt(head + i - 1)' = Contents[i]
    BY <1>1, <1>5, <2>1, <2>4
  <2>6. ASSUME NEW i, i = tail - head + 1
        PROVE  PlaceAt(head + i - 1)' = [val |-> arg[p], by |-> p]
    BY <1>1, <1>6, <2>1, <2>6
  <2> QED
    BY <2>1, <2>2, <2>3, <2>5, <2>6
<1>8. Taken' = Taken
  BY <1>1 DEF Taken, Mine, TypeOK
<1> QED
  BY <1>3, <1>4, <1>7, <1>8 DEF CQ!Claim

\* Its publication is the queue's, at the place it claimed.
LEMMA PublishPublishes ==
  ASSUME Inductive, Inductive', NEW p \in Procs, Publish(p)
  PROVE  \E i \in DOMAIN Contents : CQ!Publish(p, i)
<1> USE DEF Inductive
<1>1. /\ pc[p] = "publish" /\ pc' = [pc EXCEPT ![p] = "idle"]
      /\ UNCHANGED <<head, tail, val, pos, arg, got>>
      /\ head \in Nat /\ tail \in Nat /\ head <= tail
  BY DEF Publish, Go, TypeOK, Turns
<1>2. Claimed(p) /\ pos[p] \in Window /\ pos[p] \in Nat /\ seq[Mine(p)] = pos[p]
  BY <1>1, MineType DEF Claimed, Owned
<1>3. pos[p] \in head .. tail - 1 /\ ~Full(pos[p])
  BY <1>1, <1>2, CapacityType DEF Turns, Filling, Published, Freed, Full, Mine, Window
<1> DEFINE j == pos[p] - head + 1
<1>4. j \in DOMAIN Contents /\ Contents[j] = [val |-> arg[p], by |-> p]
  BY <1>2, <1>3, ContentsType, PlaceOf, ProducerIs
<1>5. PlaceAt(pos[p])' = [val |-> arg[p], by |-> None]
  <2>1. seq'[Cell(pos[p])] = pos[p] + 1
    BY MineType DEF Publish, Mine, TypeOK
  <2>2. val[Cell(pos[p])] = arg[p]
    BY <1>1 DEF Carried, Mine
  <2> QED
    BY <1>1, <2>1, <2>2 DEF PlaceAt
<1>6. ASSUME NEW n \in head .. tail - 1, n # pos[p] PROVE PlaceAt(n)' = PlaceAt(n)
  <2>1. n \in Window /\ seq'[Cell(n)] = seq[Cell(n)]
    BY <1>6, PlaceOf, OthersFull
  <2>2. CASE Full(n)
    BY <1>1, <2>1, <2>2 DEF PlaceAt, Full
  <2>3. CASE ~Full(n)
    <3>1. PICK q \in Procs : q = Producer(n) /\ Claimed(q) /\ pos[q] = n
      BY <2>3, PlaceOf
    <3>2. Producer(n)' = q
      BY <1>1, <1>6, <3>1, ProducerStays DEF Claimed, TypeOK
    <3> QED
      BY <1>1, <2>1, <2>3, <3>1, <3>2 DEF PlaceAt, Full
  <2> QED
    BY <2>2, <2>3
<1>7. Contents' = [Contents EXCEPT ![j].by = None]
  <2>1. Contents' = [i \in 1 .. tail - head |-> PlaceAt(head + i - 1)']
    BY <1>1 DEF Contents
  <2>2. Contents = [i \in 1 .. tail - head |-> PlaceAt(head + i - 1)]
    BY DEF Contents
  <2>3. ASSUME NEW i \in 1 .. tail - head, i # j PROVE PlaceAt(head + i - 1)' = PlaceAt(head + i - 1)
    BY <1>1, <1>2, <1>6, <2>3
  <2>4. j \in 1 .. tail - head /\ head + j - 1 = pos[p]
    BY <1>1, <1>2, <1>3
  <2> HIDE DEF j
  <2>5. Contents'[j] = [val |-> arg[p], by |-> None]
    BY <1>1, <1>5, <2>1, <2>4
  <2>6. [Contents[j] EXCEPT !.by = None] = [val |-> arg[p], by |-> None]
    BY <1>4
  <2>7. [Contents EXCEPT ![j].by = None]
        = [i \in 1 .. tail - head |-> IF i = j THEN [val |-> arg[p], by |-> None]
                                      ELSE PlaceAt(head + i - 1)]
    BY <2>2, <2>4, <2>6
  <2>8. ASSUME NEW i \in 1 .. tail - head, i = j
        PROVE  PlaceAt(head + i - 1)' = [val |-> arg[p], by |-> None]
    BY <2>1, <2>5, <2>8
  <2> QED
    BY <2>1, <2>3, <2>7, <2>8
<1>8. Taken' = Taken
  BY <1>1 DEF Taken, Mine, TypeOK
<1> HIDE DEF j
<1>9. CQ!Publish(p, j)
  BY <1>4, <1>7, <1>8 DEF CQ!Publish
<1> QED
  BY <1>4, <1>9

\* The consumer's exchange takes the first place, which is published.
LEMMA TakeTakes ==
  ASSUME Inductive, Inductive', NEW p \in Procs, PopCas(p), head = pos[p]
  PROVE  CQ!Take(p)
<1> USE DEF Inductive
<1>1. /\ pc[p] = "popCas" /\ pc' = [pc EXCEPT ![p] = "read"] /\ head' = head + 1
      /\ UNCHANGED <<tail, seq, val, pos, arg, got>>
      /\ head \in Nat /\ tail \in Nat
  BY DEF PopCas, Go, TypeOK
<1>2. Full(head) /\ head < tail
  BY <1>1, HeadPublished DEF Seen, Mine, Full
<1>3. Contents # <<>> /\ Head(Contents) = [val |-> val[Cell(head)], by |-> None]
  <2>1. head \in head .. tail - 1 /\ head + 1 - 1 = head /\ 1 \in 1 .. tail - head
    BY <1>1, <1>2
  <2>2. Contents[1] = PlaceAt(head) /\ Len(Contents) # 0 /\ Contents \in Seq(CQ!Place)
    BY <1>1, <1>2, <2>1, ContentsType
  <2>3. PlaceAt(head) = [val |-> val[Cell(head)], by |-> None]
    BY <1>2 DEF PlaceAt, Full
  <2> QED
    BY <2>2, <2>3
<1>4. \A n \in head .. tail - 1 : PlaceAt(n)' = PlaceAt(n)
  <2>1. \A q \in Procs : Claimed(q) => Claimed(q)'
    BY <1>1 DEF Claimed, TypeOK
  <2> QED
    BY <1>1, <2>1, PlaceStays
<1>5. Contents' = Tail(Contents)
  <2>1. /\ tail' - head' = tail - head - 1
        /\ \A i \in 1 .. tail - head - 1 : /\ head + (i + 1) - 1 \in head .. tail - 1
                                           /\ (head + 1) + i - 1 = head + (i + 1) - 1
                                           /\ i + 1 \in 1 .. tail - head
    BY <1>1, <1>2
  <2>2. Contents' = [i \in 1 .. tail - head - 1 |-> PlaceAt(head + i - 1)']
    BY <1>1, <2>1 DEF Contents
  <2>3. Tail(Contents) = [i \in 1 .. tail - head - 1 |-> Contents[i + 1]]
    <3>1. Contents \in Seq(CQ!Place) /\ Contents # <<>> /\ Len(Contents) = tail - head
      BY <1>3, ContentsType
    <3>2. /\ Tail(Contents) \in Seq(CQ!Place) /\ Len(Tail(Contents)) = tail - head - 1
          /\ \A i \in 1 .. tail - head - 1 : Tail(Contents)[i] = Contents[i + 1]
      BY <3>1, HeadTailProperties
    <3>3. Tail(Contents) \in [1 .. tail - head - 1 -> CQ!Place]
      BY <3>2, LenProperties
    <3> QED
      BY <3>2, <3>3
  <2>4. \A i \in 1 .. tail - head : Contents[i] = PlaceAt(head + i - 1)
    BY ContentsType
  <2>5. ASSUME NEW i \in 1 .. tail - head - 1 PROVE PlaceAt(head + i - 1)' = Contents[i + 1]
    <3>1. PICK n \in head .. tail - 1 : n = head + (i + 1) - 1
      BY <2>1
    <3>2. PlaceAt(head + i - 1)' = PlaceAt(n)'
      BY <1>1, <2>1, <3>1
    <3> QED
      BY <1>4, <2>1, <2>4, <3>1, <3>2
  <2> QED
    BY <2>2, <2>3, <2>5
<1>6. Taken' = [Taken EXCEPT ![p] = val[Cell(head)]]
  BY <1>1 DEF Taken, Mine, TypeOK
<1>7. Head(Contents).by = None /\ Head(Contents).val = val[Cell(head)]
  BY <1>3
<1> QED
  BY <1>3, <1>5, <1>6, <1>7 DEF CQ!Take

\* The steps the users see.
Visible ==
  \E p \in Procs : \/ PushCas(p) /\ tail = pos[p]
                   \/ Publish(p)
                   \/ PopCas(p) /\ head = pos[p]

\* Nothing else is seen by them.
LEMMA Stutters == Inductive /\ Inductive' /\ [Next]_vars => Visible \/ UNCHANGED <<Contents, Taken>>
<1> SUFFICES ASSUME Inductive, Inductive', [Next]_vars PROVE Visible \/ UNCHANGED <<Contents, Taken>>
  OBVIOUS
<1> USE DEF Inductive, Visible
<1>1. ASSUME NEW p \in Procs, NEW v \in Slots, PushBegin(p, v) PROVE Visible \/ UNCHANGED <<Contents, Taken>>
  <2>1. Contents' = Contents
    BY <1>1, ContentsStay DEF PushBegin, words, Go, At, Claimed, TypeOK
  <2>2. Taken' = Taken
    BY <1>1 DEF PushBegin, words, Go, At, Taken, Mine, TypeOK
  <2> QED
    BY <2>1, <2>2
<1>2. ASSUME NEW p \in Procs, PushSeq(p) PROVE Visible \/ UNCHANGED <<Contents, Taken>>
  <2>1. Contents' = Contents
    BY <1>2, ContentsStay DEF PushSeq, words, Go, At, Claimed, TypeOK
  <2>2. Taken' = Taken
    BY <1>2 DEF PushSeq, words, Go, At, Taken, Mine, TypeOK
  <2> QED
    BY <2>1, <2>2
<1>3. ASSUME NEW p \in Procs, PushTail(p) PROVE Visible \/ UNCHANGED <<Contents, Taken>>
  <2>1. Contents' = Contents
    BY <1>3, ContentsStay DEF PushTail, words, Go, At, Claimed, TypeOK
  <2>2. Taken' = Taken
    BY <1>3 DEF PushTail, words, Go, At, Taken, Mine, TypeOK
  <2> QED
    BY <2>1, <2>2
<1>4. ASSUME NEW p \in Procs, PushCas(p) PROVE Visible \/ UNCHANGED <<Contents, Taken>>
  <2>1. CASE tail = pos[p]
    BY <1>4, <2>1
  <2>2. CASE tail # pos[p]
    <3>1. Contents' = Contents
      BY <1>4, <2>2, ContentsStay DEF PushCas, Go, At, Claimed, TypeOK
    <3>2. Taken' = Taken
      BY <1>4, <2>2 DEF PushCas, Go, At, Taken, Mine, TypeOK
    <3> QED
      BY <3>1, <3>2
  <2> QED
    BY <2>1, <2>2
<1>5. ASSUME NEW p \in Procs, Write(p) PROVE Visible \/ UNCHANGED <<Contents, Taken>>
  <2>1. /\ pc' = [pc EXCEPT ![p] = "publish"] /\ pc[p] = "write" /\ Claimed(p)
        /\ \A c \in Cells : c # Mine(p) => val'[c] = val[c]
        /\ UNCHANGED <<head, tail, seq, pos, arg, got>>
    BY <1>5 DEF Write, Go, Claimed, TypeOK
  <2>2. \A m \in head .. tail - 1 : Full(m) => val'[Cell(m)] = val[Cell(m)]
    BY <2>1, WriterAlone, PlaceOf, OtherCells DEF TypeOK, Full, Owned, Mine
  <2>3. Contents' = Contents
    BY <2>1, <2>2, ContentsStay DEF Claimed, TypeOK
  <2>4. \A q \in Procs : pc[q] = "read" => val'[Mine(q)] = val[Mine(q)]
    BY <2>1, WriterAlone, MineType DEF Holds
  <2>5. Taken' = Taken
    BY <2>1, <2>4 DEF Taken, Mine, TypeOK
  <2> QED
    BY <2>3, <2>5
<1>6. ASSUME NEW p \in Procs, Publish(p) PROVE Visible \/ UNCHANGED <<Contents, Taken>>
  BY <1>6
<1>7. ASSUME NEW p \in Procs, PopBegin(p) PROVE Visible \/ UNCHANGED <<Contents, Taken>>
  <2>1. Contents' = Contents
    BY <1>7, ContentsStay DEF PopBegin, words, Go, At, Claimed, TypeOK
  <2>2. Taken' = Taken
    BY <1>7 DEF PopBegin, words, Go, At, Taken, Mine, TypeOK
  <2> QED
    BY <2>1, <2>2
<1>8. ASSUME NEW p \in Procs, PopSeq(p) PROVE Visible \/ UNCHANGED <<Contents, Taken>>
  <2>1. Contents' = Contents
    BY <1>8, ContentsStay DEF PopSeq, words, Go, At, Claimed, TypeOK
  <2>2. Taken' = Taken
    BY <1>8 DEF PopSeq, words, Go, At, Taken, Mine, TypeOK
  <2> QED
    BY <2>1, <2>2
<1>9. ASSUME NEW p \in Procs, PopHead(p) PROVE Visible \/ UNCHANGED <<Contents, Taken>>
  <2>1. Contents' = Contents
    BY <1>9, ContentsStay DEF PopHead, words, Go, At, Claimed, TypeOK
  <2>2. Taken' = Taken
    BY <1>9 DEF PopHead, words, Go, At, Taken, Mine, TypeOK
  <2> QED
    BY <2>1, <2>2
<1>10. ASSUME NEW p \in Procs, PopCas(p) PROVE Visible \/ UNCHANGED <<Contents, Taken>>
  <2>1. CASE head = pos[p]
    BY <1>10, <2>1
  <2>2. CASE head # pos[p]
    <3>1. Contents' = Contents
      BY <1>10, <2>2, ContentsStay DEF PopCas, Go, At, Claimed, TypeOK
    <3>2. Taken' = Taken
      BY <1>10, <2>2 DEF PopCas, Go, At, Taken, Mine, TypeOK
    <3> QED
      BY <3>1, <3>2
  <2> QED
    BY <2>1, <2>2
<1>11. ASSUME NEW p \in Procs, Read(p) PROVE Visible \/ UNCHANGED <<Contents, Taken>>
  <2>1. Contents' = Contents
    BY <1>11, ContentsStay DEF Read, words, Go, At, Claimed, TypeOK
  <2>2. Taken' = Taken
    BY <1>11 DEF Read, words, Go, At, Taken, Mine, TypeOK
  <2> QED
    BY <2>1, <2>2
<1>12. ASSUME NEW p \in Procs, Release(p) PROVE Visible \/ UNCHANGED <<Contents, Taken>>
  <2>1. /\ pc' = [pc EXCEPT ![p] = "idle"] /\ pc[p] = "release" /\ Holds(p)
        /\ UNCHANGED <<head, tail, val, pos, arg, got>>
    BY <1>12 DEF Release, Go, Holds
  <2>2. \A m \in head .. tail - 1 : seq'[Cell(m)] = seq[Cell(m)]
    <3>1. \A m \in head .. tail - 1 : m \in Window /\ m # pos[p]
      BY <2>1, PlaceOf, MineType DEF Owned, TypeOK
    <3> QED
      BY <1>12, <3>1, OthersFull
  <2>3. Contents' = Contents
    BY <2>1, <2>2, ContentsStay DEF Claimed, TypeOK
  <2>4. Taken' = Taken
    BY <2>1 DEF Taken, Mine, TypeOK
  <2> QED
    BY <2>3, <2>4
<1>13. ASSUME NEW p \in Procs, AskBegin(p) PROVE Visible \/ UNCHANGED <<Contents, Taken>>
  <2>1. Contents' = Contents
    BY <1>13, ContentsStay DEF AskBegin, words, Go, At, Claimed, TypeOK
  <2>2. Taken' = Taken
    BY <1>13 DEF AskBegin, words, Go, At, Taken, Mine, TypeOK
  <2> QED
    BY <2>1, <2>2
<1>14. ASSUME NEW p \in Procs, AskSeq(p) PROVE Visible \/ UNCHANGED <<Contents, Taken>>
  <2>1. Contents' = Contents
    BY <1>14, ContentsStay DEF AskSeq, words, Go, At, Claimed, TypeOK
  <2>2. Taken' = Taken
    BY <1>14 DEF AskSeq, words, Go, At, Taken, Mine, TypeOK
  <2> QED
    BY <2>1, <2>2
<1>15. ASSUME NEW p \in Procs, PeekBegin(p) PROVE Visible \/ UNCHANGED <<Contents, Taken>>
  <2>1. Contents' = Contents
    BY <1>15, ContentsStay DEF PeekBegin, words, Go, At, Claimed, TypeOK
  <2>2. Taken' = Taken
    BY <1>15 DEF PeekBegin, words, Go, At, Taken, Mine, TypeOK
  <2> QED
    BY <2>1, <2>2
<1>16. ASSUME NEW p \in Procs, PeekSeq(p) PROVE Visible \/ UNCHANGED <<Contents, Taken>>
  <2>1. Contents' = Contents
    BY <1>16, ContentsStay DEF PeekSeq, words, Go, At, Claimed, TypeOK
  <2>2. Taken' = Taken
    BY <1>16 DEF PeekSeq, words, Go, At, Taken, Mine, TypeOK
  <2> QED
    BY <2>1, <2>2
<1>17. ASSUME NEW p \in Procs, PeekVal(p) PROVE Visible \/ UNCHANGED <<Contents, Taken>>
  <2>1. Contents' = Contents
    BY <1>17, ContentsStay DEF PeekVal, words, Go, At, Claimed, TypeOK
  <2>2. Taken' = Taken
    BY <1>17 DEF PeekVal, words, Go, At, Taken, Mine, TypeOK
  <2> QED
    BY <2>1, <2>2
<1>18. CASE UNCHANGED vars
  BY <1>18 DEF vars, words, locals, Contents, Taken, PlaceAt, Producer, Mine
<1> QED
  BY <1>1, <1>2, <1>3, <1>4, <1>5, <1>6, <1>7, <1>8, <1>9, <1>10, <1>11, <1>12, <1>13,
     <1>14, <1>15, <1>16, <1>17, <1>18 DEF Next, Push, Pop, Look

\* The ring's algorithm, of single accesses to shared words, is a first-in
\* first-out queue of at most Capacity places whose producers claim and publish
\* and whose consumers take each place once, published and in the claims' order.
THEOREM Implementation == Spec => Implements
<1>1. Init => CQ!Init
  <2> SUFFICES ASSUME Init PROVE CQ!Init
    OBVIOUS
  <2>1. Contents = <<>>
    BY DEF Init, Contents
  <2>2. Taken = [p \in Procs |-> None]
    BY DEF Init, Taken
  <2> QED
    BY <2>1, <2>2 DEF CQ!Init
<1>2. Inductive /\ Inductive' /\ [Next]_vars => [CQ!Next]_<<Contents, Taken>>
  <2> SUFFICES ASSUME Inductive, Inductive', [Next]_vars
               PROVE  CQ!Next \/ UNCHANGED <<Contents, Taken>>
    OBVIOUS
  <2>1. ASSUME NEW p \in Procs, PushCas(p), tail = pos[p] PROVE CQ!Next
    <3>1. arg[p] \in Slots
      BY <2>1 DEF Inductive, Carried, PushPcs, PushCas, Go
    <3> QED
      BY <2>1, <3>1, ClaimClaims DEF CQ!Next
  <2>2. ASSUME NEW p \in Procs, Publish(p) PROVE CQ!Next
    BY <2>2, PublishPublishes DEF CQ!Next
  <2>3. ASSUME NEW p \in Procs, PopCas(p), head = pos[p] PROVE CQ!Next
    BY <2>3, TakeTakes DEF CQ!Next
  <2> QED
    BY <2>1, <2>2, <2>3, Stutters DEF Visible
<1> QED
  BY <1>1, <1>2, Invariance, PTL DEF Spec, Implements, CQ!Spec
=============================================================================
