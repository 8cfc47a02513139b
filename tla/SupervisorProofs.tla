-------------------------- MODULE SupervisorProofs --------------------------
(***************************************************************************)
(* Proofs about Supervisor, for any number of workers, processes, faults,  *)
(* signals and reloads, of a supervisor whose only children are those it   *)
(* forked (Adopted = {}; SupervisorAdopts shows that it is needed).        *)
(***************************************************************************)
EXTENDS Supervisor, FiniteSetTheorems, TLAPS

\* The list and the processes name each other: every process not reaped is
\* listed at its index, and every entry is a process not reaped.
Listed ==
  /\ \A p \in Pids : state[p] # "free" =>
       state[p] # "adopted" /\ index[p] \in Indices /\ childPids[index[p]] = p
  /\ \A i \in Indices : childPids[i] # None =>
       state[childPids[i]] # "free" /\ index[childPids[i]] = i

\* What is about to be forked has a place; the first forks fill the list in order.
Placed ==
  /\ pc = "fork" => by = "start" /\ at \in 0 .. NumWorkers
  /\ pc = "forking" => at \in Indices /\ childPids[at] = None
  /\ pc \in {"fork", "forking"} /\ by = "start" =>
       \A i \in Indices : i >= at => childPids[i] = None
  /\ pc \in {"publish", "passOn"} /\ by = "start" =>
       at \in Indices /\ \A i \in Indices : i > at => childPids[i] = None

\* What the supervisor waits for is what it has: one more while it replaces one.
Awaited ==
  /\ pc = "wait" => remaining = Alive(childPids)
  /\ pc = "forking" /\ by = "respawn" => remaining = Alive(childPids) + 1
  /\ pc \in {"publish", "passOn"} /\ by = "respawn" => remaining = Alive(childPids)
  /\ pc = "over" => Alive(childPids) = 0

\* The supervisor is between two forks, and its handler knows every worker.
Steady == pc \in {"fork", "wait", "rest"} \/ (pc = "forking" /\ by # "reload")

\* The handler's list is the supervisor's own when it matters, and while the
\* supervisor is steady a stop has reached everyone or is on its way.
Reached ==
  /\ Steady \/ pc = "passOn" => published = childPids
  /\ Steady /\ stopping =>
       \A p \in Pids : state[p] \in Up => sent[p] \/ told[p] \/ state[p] = "draining"

Inductive == TypeOK /\ Listed /\ Placed /\ Awaited /\ Reached

\* What the exit code says, of a server that does not reload: every refusal is in the
\* verdict or not yet reaped, every crash is made good by a respawn, in the verdict, or
\* not yet reaped, and a supervisor that has left took its code from the verdict.
Failed == {p \in Pids : state[p] = "failed"}
Blamed == gaveUp \/ failedStopping
Unreloaded == ~polling => pc \notin {"drain", "forced", "refork"} /\ by # "reload"
RefusalSeen ==
  ~polling => (refusals > 0 <=> configRefused \/ \E p \in Pids : state[p] = "refused")
CrashSeen ==
  ~polling => /\ crashes >= respawnCount + Cardinality(Failed)
              /\ Blamed <=> crashes > respawnCount + Cardinality(Failed)
Verdict ==
  pc = "over" => exit = IF configRefused THEN 78 ELSE IF Blamed THEN 1 ELSE 0

Judged == Unreloaded /\ RefusalSeen /\ CrashSeen /\ Verdict

-----------------------------------------------------------------------------
(* Helpers. *)

\* The indices are finitely many, and so are those filled.
LEMMA IndicesFinite == IsFiniteSet(Indices) /\ Cardinality(Indices) = NumWorkers
<1>1. NumWorkers \in Nat /\ 0 \in Int /\ NumWorkers - 1 \in Int
  BY SupervisorAssumption
<1>2. IsFiniteSet(0 .. NumWorkers - 1)
  BY <1>1, FS_Interval
<1>3. Cardinality(0 .. NumWorkers - 1) = NumWorkers
  BY <1>1, FS_Interval
<1> QED
  BY <1>2, <1>3 DEF Indices

\* The number of workers alive is a number.
LEMMA AliveType ==
  ASSUME NEW list
  PROVE  /\ IsFiniteSet({i \in Indices : list[i] # None})
         /\ Alive(list) \in Nat
<1>1. {i \in Indices : list[i] # None} \subseteq Indices
  OBVIOUS
<1>2. IsFiniteSet({i \in Indices : list[i] # None})
  BY <1>1, IndicesFinite, FS_Subset
<1> QED
  BY <1>2, FS_CardinalityType DEF Alive

\* With nobody alive the list is empty.
LEMMA NoneAlive ==
  ASSUME NEW list, Alive(list) = 0
  PROVE  \A i \in Indices : list[i] = None
  BY AliveType, FS_EmptySet DEF Alive

\* A place emptied counts for one less.
LEMMA OneLess ==
  ASSUME NEW list, NEW i \in Indices, list[i] # None, NEW list2,
         \A j \in Indices : list2[j] = IF j = i THEN None ELSE list[j]
  PROVE  Alive(list2) = Alive(list) - 1
<1>1. {j \in Indices : list2[j] # None} = {j \in Indices : list[j] # None} \ {i}
  OBVIOUS
<1>2. i \in {j \in Indices : list[j] # None}
  OBVIOUS
<1>3. IsFiniteSet({j \in Indices : list[j] # None})
  BY AliveType
<1> QED
  BY <1>1, <1>2, <1>3, FS_RemoveElement DEF Alive

\* And for one more when it is filled.
LEMMA OneMore ==
  ASSUME NEW list, NEW i \in Indices, list[i] = None, NEW list2, NEW p, p # None,
         \A j \in Indices : list2[j] = IF j = i THEN p ELSE list[j]
  PROVE  Alive(list2) = Alive(list) + 1
<1>1. {j \in Indices : list2[j] # None} = {j \in Indices : list[j] # None} \cup {i}
  OBVIOUS
<1>2. i \notin {j \in Indices : list[j] # None}
  OBVIOUS
<1>3. IsFiniteSet({j \in Indices : list[j] # None})
  BY AliveType
<1> QED
  BY <1>1, <1>2, <1>3, FS_AddElement DEF Alive

\* A kill leaves every signal pending or not.
LEMMA KillType ==
  ASSUME NEW list, Kill(list)
  PROVE  sent' \in [Pids -> BOOLEAN]
  BY Zenon DEF Kill

\* A worker reaped leaves the place it held, and the list stays true.
LEMMA Reaping ==
  ASSUME TypeOK, Listed, NEW p \in Pids, state[p] # "free", Removed(p), Buried(p)
  PROVE  /\ index[p] \in Indices /\ childPids[index[p]] = p
         /\ childPids' = [i \in Indices |-> IF i = index[p] THEN None ELSE childPids[i]]
         /\ published' = childPids' /\ freed' = index[p] /\ length' = length
         /\ Alive(childPids') = Alive(childPids) - 1
         /\ Listed'
<1> DEFINE held == {i \in Indices : childPids[i] = p}
<1>1. p # None
  BY SupervisorAssumption
<1>2. index[p] \in Indices /\ childPids[index[p]] = p
  BY DEF Listed
<1>3. held = {index[p]}
  BY <1>1, <1>2 DEF Listed
<1>4. freed' = CHOOSE i \in held : TRUE
  BY <1>3 DEF Removed
<1>5. freed' = index[p]
  BY <1>3, <1>4
<1>6. childPids' = [i \in Indices |-> IF i \in held THEN None ELSE childPids[i]]
  BY DEF Removed
<1>7. childPids' = [i \in Indices |-> IF i = index[p] THEN None ELSE childPids[i]]
  BY <1>3, <1>6
<1>8. published' = childPids'
  BY <1>3 DEF Removed
<1>9. Alive(childPids') = Alive(childPids) - 1
  BY <1>1, <1>2, <1>7, OneLess
<1>10. /\ state' = [state EXCEPT ![p] = "free"]
       /\ index' = [index EXCEPT ![p] = None]
  BY DEF Buried
<1>11. Listed'
  <2>1. ASSUME NEW q \in Pids, state'[q] # "free"
        PROVE  state'[q] # "adopted" /\ index'[q] \in Indices /\ childPids'[index'[q]] = q
    <3>1. q # p
      BY <1>10, <2>1 DEF TypeOK
    <3>2. state'[q] = state[q] /\ index'[q] = index[q]
      BY <1>10, <3>1 DEF TypeOK
    <3>3. state[q] # "adopted" /\ index[q] \in Indices /\ childPids[index[q]] = q
      BY <2>1, <3>2 DEF Listed
    <3> QED
      BY <1>2, <1>7, <3>1, <3>2, <3>3
  <2>2. ASSUME NEW i \in Indices, childPids'[i] # None
        PROVE  state'[childPids'[i]] # "free" /\ index'[childPids'[i]] = i
    <3>1. i # index[p] /\ childPids'[i] = childPids[i]
      BY <1>7, <2>2
    <3>2. state[childPids[i]] # "free" /\ index[childPids[i]] = i
      BY <2>2, <3>1 DEF Listed
    <3>3. childPids[i] # p /\ childPids[i] \in Pids
      BY <2>2, <3>1, <3>2 DEF TypeOK
    <3> QED
      BY <1>10, <3>1, <3>2, <3>3 DEF TypeOK
  <2> QED
    BY <2>1, <2>2 DEF Listed
<1>12. length' = length
  BY DEF Removed
<1> QED
  BY <1>2, <1>5, <1>7, <1>8, <1>9, <1>11, <1>12
-----------------------------------------------------------------------------
(* Each part of the invariant is kept by every step. *)

\* A process that goes on, or dies, stays where it was listed.
LEMMA ListedFrame ==
  ASSUME TypeOK, Listed, UNCHANGED <<index, childPids>>,
         \A q \in Pids : (state'[q] = "free" <=> state[q] = "free")
                      /\ (state'[q] = "adopted" => state[q] = "adopted")
  PROVE  Listed'
<1>1. \A i \in Indices : childPids[i] # None => childPids[i] \in Pids
  BY DEF TypeOK
<1> QED
  BY <1>1 DEF Listed

\* Types.
LEMMA TypeStep ==
  TypeOK /\ Listed /\ Placed /\ [Next]_vars => TypeOK'
<1> SUFFICES ASSUME TypeOK, Listed, Placed, [Next]_vars PROVE TypeOK'
  OBVIOUS
<1> USE DEF procs, lists, counts, verdicts, world
<1>1. ASSUME Order PROVE TypeOK'
  <2>1. sent' \in [Pids -> BOOLEAN] /\ supSent' \in BOOLEAN
    <3>1. CASE \E whom \in {{}, {p \in Pids : state[p] \in Up \ {"adopted"}}} :
                 sent' = [p \in Pids |-> sent[p] \/ p \in whom] /\ supSent' = TRUE
      BY <3>1, Zenon
    <3>2. CASE \E p \in Pids : sent' = [sent EXCEPT ![p] = TRUE] /\ UNCHANGED supSent
      BY <3>2 DEF TypeOK
    <3> QED
      BY <1>1, <3>1, <3>2, Zenon DEF Order
  <2> QED
    BY <1>1, <2>1 DEF Order, TypeOK
<1>2. ASSUME OnSignal PROVE TypeOK'
  <2>1. sent' \in [Pids -> BOOLEAN]
    BY <1>2, KillType DEF OnSignal
  <2>2. /\ supSent' \in BOOLEAN /\ stopping' \in BOOLEAN
        /\ UNCHANGED <<state, index, told, pc, at, by, childPids, length, published, freed,
                       remaining, recent, rapid, respawnCount, reloads, gaveUp, failedStopping,
                       configRefused, exit, polling, crashes, refusals, orders>>
    BY <1>2 DEF OnSignal
  <2> QED
    BY <2>1, <2>2 DEF TypeOK
<1>3. ASSUME ForkNext PROVE TypeOK'
  <2>1. Alive(childPids) \in Nat
    BY AliveType
  <2>2. remaining' \in Nat /\ pc' \in {"wait", "forking"}
    BY <1>3, <2>1 DEF ForkNext, TypeOK
  <2> QED
    BY <1>3, <2>2 DEF ForkNext, TypeOK
<1>4. ASSUME Fork PROVE TypeOK'
  BY <1>4, SupervisorAssumption DEF Fork, TypeOK, Up, Dead, Free, Placed, Indices
<1>5. ASSUME Publish PROVE TypeOK'
  BY <1>5, SupervisorAssumption DEF Publish, TypeOK, Up, Dead, Free, Placed, Indices
<1>6. ASSUME PassOn PROVE TypeOK'
  <2>1. sent' \in [Pids -> BOOLEAN]
    BY <1>6, KillType DEF PassOn, TypeOK
  <2>2. Alive(childPids) \in Nat
    BY AliveType
  <2>3. remaining' \in Nat /\ pc' \in {"wait", "fork"}
    BY <1>6, <2>2 DEF PassOn, TypeOK
  <2>4. at' \in 0 .. NumWorkers \cup {None}
    BY <1>6, SupervisorAssumption DEF PassOn, TypeOK, Placed, Indices
  <2>5. gaveUp' \in BOOLEAN
    BY <1>6, Zenon DEF PassOn
  <2> QED
    BY <1>6, <2>1, <2>3, <2>4, <2>5 DEF PassOn, TypeOK
<1>7. ASSUME Over PROVE TypeOK'
  BY <1>7, SupervisorAssumption DEF Over, TypeOK, Up, Dead, Free, Placed, Indices
<1>8. ASSUME KillLate PROVE TypeOK'
  <2>1. sent' \in [Pids -> BOOLEAN] /\ state' \in [Pids -> Up \cup Dead \cup {"free"}]
    BY <1>8 DEF KillLate, TypeOK, Dead
  <2> QED
    BY <1>8, <2>1 DEF KillLate, TypeOK
<1>9. ASSUME Refork PROVE TypeOK'
  BY <1>9, SupervisorAssumption DEF Refork, TypeOK, Up, Dead, Free, Placed, Indices
<1>10. ASSUME Reload PROVE TypeOK'
  BY <1>10, SupervisorAssumption DEF Reload, Kill, TypeOK, Up, Dead, Free, Placed, Indices
<1>11. ASSUME NEW p \in Pids, Deliver(p) PROVE TypeOK'
  <2>1. /\ sent' \in [Pids -> BOOLEAN] /\ told' \in [Pids -> BOOLEAN] /\ UNCHANGED index
        /\ state' \in [Pids -> Up \cup Dead \cup {"free"}]
    <3>1. CASE told' = [told EXCEPT ![p] = TRUE] /\ sent' = [sent EXCEPT ![p] = FALSE]
               /\ UNCHANGED <<state, index>>
      BY <3>1 DEF TypeOK
    <3>2. CASE Dies(p, "stopped")
      BY <3>2 DEF Dies, TypeOK, Dead
    <3>3. CASE state' = [state EXCEPT ![p] = "draining"] /\ sent' = [sent EXCEPT ![p] = FALSE]
               /\ UNCHANGED <<index, told>>
      BY <3>3 DEF TypeOK, Up
    <3> QED
      BY <1>11, <3>1, <3>2, <3>3 DEF Deliver
  <2> QED
    BY <1>11, <2>1 DEF Deliver, TypeOK
<1>12. ASSUME NEW p \in Pids, Reset(p) PROVE TypeOK'
  BY <1>12, SupervisorAssumption DEF Reset, Becomes, Alone, TypeOK, Up, Dead, Free, Placed, Indices
<1>13. ASSUME NEW p \in Pids, Forget(p) PROVE TypeOK'
  <2>1. Dies(p, "clean") \/ Becomes(p, "unarmed")
    BY <1>13 DEF Forget
  <2>2. /\ sent' \in [Pids -> BOOLEAN] /\ told' \in [Pids -> BOOLEAN] /\ UNCHANGED index
        /\ state' \in [Pids -> Up \cup Dead \cup {"free"}]
    BY <2>1 DEF Dies, Becomes, TypeOK, Up, Dead
  <2> QED
    BY <1>13, <2>2 DEF Forget, Alone, TypeOK
<1>14. ASSUME NEW p \in Pids, Arm(p) PROVE TypeOK'
  BY <1>14, SupervisorAssumption DEF Arm, Becomes, Alone, TypeOK, Up, Dead, Free, Placed, Indices
<1>15. ASSUME NEW p \in Pids, Leave(p) PROVE TypeOK'
  BY <1>15, SupervisorAssumption DEF Leave, Dies, Alone, TypeOK, Up, Dead, Free, Placed, Indices
<1>16. ASSUME NEW p \in Pids, Crash(p) PROVE TypeOK'
  BY <1>16, SupervisorAssumption DEF Crash, Dies, Alone, TypeOK, Up, Dead, Free, Placed, Indices
<1>17. ASSUME NEW p \in Pids, Refuse(p) PROVE TypeOK'
  BY <1>17, SupervisorAssumption DEF Refuse, Dies, Alone, TypeOK, Up, Dead, Free, Placed, Indices
<1>18. ASSUME NEW p \in Pids, ReapClean(p) PROVE TypeOK'
  <2>1. state[p] # "free" /\ Removed(p) /\ Buried(p)
    BY <1>18 DEF ReapClean, Reaps, Retired, Dead
  <2>2. /\ index[p] \in Indices /\ freed' = index[p] /\ published' = childPids'
        /\ length' = length
        /\ childPids' = [i \in Indices |-> IF i = index[p] THEN None ELSE childPids[i]]
    BY <2>1, Reaping
  <2>3. /\ state' \in [Pids -> Up \cup Dead \cup {"free"}]
        /\ index' \in [Pids -> Indices \cup {None}] /\ told' \in [Pids -> BOOLEAN]
        /\ childPids' \in [Indices -> Pids \cup {None}]
        /\ published' \in [Indices -> Pids \cup {None}] /\ freed' \in Indices
        /\ length' \in 0 .. NumWorkers
    BY <2>1, <2>2 DEF Buried, TypeOK
  <2> QED
    BY <1>18, <2>3, SupervisorAssumption DEF ReapClean, Reaps, Retired, TypeOK, Indices
<1>19. ASSUME NEW p \in Pids, ReapStopped(p) PROVE TypeOK'
  <2>1. state[p] # "free" /\ Removed(p) /\ Buried(p)
    BY <1>19 DEF ReapStopped, Reaps, Dead
  <2>2. /\ index[p] \in Indices /\ freed' = index[p] /\ published' = childPids'
        /\ length' = length
        /\ childPids' = [i \in Indices |-> IF i = index[p] THEN None ELSE childPids[i]]
    BY <2>1, Reaping
  <2>3. /\ state' \in [Pids -> Up \cup Dead \cup {"free"}]
        /\ index' \in [Pids -> Indices \cup {None}] /\ told' \in [Pids -> BOOLEAN]
        /\ childPids' \in [Indices -> Pids \cup {None}]
        /\ published' \in [Indices -> Pids \cup {None}] /\ freed' \in Indices
        /\ length' \in 0 .. NumWorkers
    BY <2>1, <2>2 DEF Buried, TypeOK
  <2> QED
    BY <1>19, <2>3, SupervisorAssumption DEF ReapStopped, Reaps, Kill, TypeOK, Indices
<1>20. ASSUME NEW p \in Pids, ReapRefused(p) PROVE TypeOK'
  <2>1. state[p] # "free" /\ Removed(p) /\ Buried(p)
    BY <1>20 DEF ReapRefused, Reaps, Dead
  <2>2. /\ index[p] \in Indices /\ freed' = index[p] /\ published' = childPids'
        /\ length' = length
        /\ childPids' = [i \in Indices |-> IF i = index[p] THEN None ELSE childPids[i]]
    BY <2>1, Reaping
  <2>3. /\ state' \in [Pids -> Up \cup Dead \cup {"free"}]
        /\ index' \in [Pids -> Indices \cup {None}] /\ told' \in [Pids -> BOOLEAN]
        /\ childPids' \in [Indices -> Pids \cup {None}]
        /\ published' \in [Indices -> Pids \cup {None}] /\ freed' \in Indices
        /\ length' \in 0 .. NumWorkers
    BY <2>1, <2>2 DEF Buried, TypeOK
  <2> QED
    BY <1>20, <2>3, SupervisorAssumption DEF ReapRefused, Reaps, Kill, TypeOK, Indices
<1>21. ASSUME NEW p \in Pids, ReapStopping(p) PROVE TypeOK'
  <2>1. state[p] # "free" /\ Removed(p) /\ Buried(p)
    BY <1>21 DEF ReapStopping, Reaps, Retired, Dead
  <2>2. /\ index[p] \in Indices /\ freed' = index[p] /\ published' = childPids'
        /\ length' = length
        /\ childPids' = [i \in Indices |-> IF i = index[p] THEN None ELSE childPids[i]]
    BY <2>1, Reaping
  <2>3. /\ state' \in [Pids -> Up \cup Dead \cup {"free"}]
        /\ index' \in [Pids -> Indices \cup {None}] /\ told' \in [Pids -> BOOLEAN]
        /\ childPids' \in [Indices -> Pids \cup {None}]
        /\ published' \in [Indices -> Pids \cup {None}] /\ freed' \in Indices
        /\ length' \in 0 .. NumWorkers
    BY <2>1, <2>2 DEF Buried, TypeOK
  <2> QED
    BY <1>21, <2>3, SupervisorAssumption DEF ReapStopping, Reaps, Retired, TypeOK, Indices
<1>22. ASSUME NEW p \in Pids, ReapGivesUp(p) PROVE TypeOK'
  <2>1. state[p] # "free" /\ Removed(p) /\ Buried(p)
    BY <1>22 DEF ReapGivesUp, Reaps, Retired, Dead
  <2>2. /\ index[p] \in Indices /\ freed' = index[p] /\ published' = childPids'
        /\ length' = length
        /\ childPids' = [i \in Indices |-> IF i = index[p] THEN None ELSE childPids[i]]
    BY <2>1, Reaping
  <2>3. /\ state' \in [Pids -> Up \cup Dead \cup {"free"}]
        /\ index' \in [Pids -> Indices \cup {None}] /\ told' \in [Pids -> BOOLEAN]
        /\ childPids' \in [Indices -> Pids \cup {None}]
        /\ published' \in [Indices -> Pids \cup {None}] /\ freed' \in Indices
        /\ length' \in 0 .. NumWorkers
    BY <2>1, <2>2 DEF Buried, TypeOK
  <2> QED
    BY <1>22, <2>3, SupervisorAssumption DEF ReapGivesUp, Reaps, Retired, TypeOK, Indices
<1>23. ASSUME NEW p \in Pids, ReapRespawns(p) PROVE TypeOK'
  <2>1. state[p] # "free" /\ Removed(p) /\ Buried(p)
    BY <1>23 DEF ReapRespawns, Reaps, Dead
  <2>2. /\ index[p] \in Indices /\ freed' = index[p] /\ published' = childPids'
        /\ length' = length
        /\ childPids' = [i \in Indices |-> IF i = index[p] THEN None ELSE childPids[i]]
    BY <2>1, Reaping
  <2>3. /\ state' \in [Pids -> Up \cup Dead \cup {"free"}]
        /\ index' \in [Pids -> Indices \cup {None}] /\ told' \in [Pids -> BOOLEAN]
        /\ childPids' \in [Indices -> Pids \cup {None}]
        /\ published' \in [Indices -> Pids \cup {None}] /\ freed' \in Indices
        /\ length' \in 0 .. NumWorkers
    BY <2>1, <2>2 DEF Buried, TypeOK
  <2> QED
    BY <1>23, <2>3, SupervisorAssumption DEF ReapRespawns, Reaps, TypeOK, Indices
<1>24. ASSUME NEW p \in Pids, ReapRest(p) PROVE TypeOK'
  <2>1. state[p] # "free" /\ Removed(p) /\ Buried(p)
    BY <1>24 DEF ReapRest, Dead
  <2>2. /\ index[p] \in Indices /\ freed' = index[p] /\ published' = childPids'
        /\ length' = length
        /\ childPids' = [i \in Indices |-> IF i = index[p] THEN None ELSE childPids[i]]
    BY <2>1, Reaping
  <2>3. /\ state' \in [Pids -> Up \cup Dead \cup {"free"}]
        /\ index' \in [Pids -> Indices \cup {None}] /\ told' \in [Pids -> BOOLEAN]
        /\ childPids' \in [Indices -> Pids \cup {None}]
        /\ published' \in [Indices -> Pids \cup {None}] /\ freed' \in Indices
        /\ length' \in 0 .. NumWorkers
    BY <2>1, <2>2 DEF Buried, TypeOK
  <2> QED
    BY <1>24, <2>3, SupervisorAssumption DEF ReapRest, TypeOK, Indices
<1>25. ASSUME NEW p \in Pids, ReapDrained(p) PROVE TypeOK'
  <2>1. state[p] # "free" /\ Removed(p) /\ Buried(p)
    BY <1>25 DEF ReapDrained, Dead
  <2>2. /\ index[p] \in Indices /\ freed' = index[p] /\ published' = childPids'
        /\ length' = length
        /\ childPids' = [i \in Indices |-> IF i = index[p] THEN None ELSE childPids[i]]
    BY <2>1, Reaping
  <2>3. /\ state' \in [Pids -> Up \cup Dead \cup {"free"}]
        /\ index' \in [Pids -> Indices \cup {None}] /\ told' \in [Pids -> BOOLEAN]
        /\ childPids' \in [Indices -> Pids \cup {None}]
        /\ published' \in [Indices -> Pids \cup {None}] /\ freed' \in Indices
        /\ length' \in 0 .. NumWorkers
    BY <2>1, <2>2 DEF Buried, TypeOK
  <2> QED
    BY <1>25, <2>3, SupervisorAssumption DEF ReapDrained, TypeOK, Indices
<1>26. CASE UNCHANGED vars
  BY <1>26 DEF vars, TypeOK
<1> QED
    BY <1>1, <1>2, <1>3, <1>4, <1>5, <1>6, <1>7, <1>8, <1>9, <1>10, <1>11, <1>12, <1>13, <1>14,
     <1>15, <1>16, <1>17, <1>18, <1>19, <1>20, <1>21, <1>22, <1>23, <1>24, <1>25, <1>26 DEF
     Next, SupStep, WorkerStep, Reap

\* The list.
LEMMA ListedStep ==
  TypeOK /\ Listed /\ Placed /\ [Next]_vars => Listed'
<1> SUFFICES ASSUME TypeOK, Listed, Placed, [Next]_vars PROVE Listed'
  OBVIOUS
<1> USE DEF procs, lists, counts, verdicts, world
<1>1. ASSUME Order PROVE Listed'
  BY <1>1 DEF Order, Listed
<1>2. ASSUME OnSignal PROVE Listed'
  BY <1>2 DEF OnSignal, Kill, Listed
<1>3. ASSUME ForkNext PROVE Listed'
  BY <1>3 DEF ForkNext, Listed
<1>4. ASSUME Fork PROVE Listed'
  <2>1. at \in Indices /\ childPids[at] = None
    BY <1>4 DEF Fork, Placed
  <2>2. PICK p \in Pids :
          /\ state[p] = "free" /\ state' = [state EXCEPT ![p] = "young"]
          /\ index' = [index EXCEPT ![p] = at]
          /\ childPids' = [i \in Indices |-> IF i = at THEN p ELSE childPids[i]]
    BY <1>4 DEF Fork, Free
  <2>3. ASSUME NEW q \in Pids, state'[q] # "free"
        PROVE  state'[q] # "adopted" /\ index'[q] \in Indices /\ childPids'[index'[q]] = q
    <3>1. CASE q = p
      BY <2>1, <2>2, <3>1 DEF TypeOK
    <3>2. CASE q # p
      <4>1. state'[q] = state[q] /\ index'[q] = index[q]
        BY <2>2, <3>2 DEF TypeOK
      <4>2. state[q] # "adopted" /\ index[q] \in Indices /\ childPids[index[q]] = q
        BY <2>3, <4>1 DEF Listed
      <4> QED
        BY <2>1, <2>2, <4>1, <4>2, SupervisorAssumption
    <3> QED
      BY <3>1, <3>2
  <2>4. ASSUME NEW i \in Indices, childPids'[i] # None
        PROVE  state'[childPids'[i]] # "free" /\ index'[childPids'[i]] = i
    <3>1. CASE i = at
      BY <2>2, <3>1 DEF TypeOK
    <3>2. CASE i # at
      <4>1. childPids'[i] = childPids[i]
        BY <2>2, <3>2
      <4>2. state[childPids[i]] # "free" /\ index[childPids[i]] = i
        BY <2>4, <4>1 DEF Listed
      <4>3. childPids[i] \in Pids /\ childPids[i] # p
        BY <2>2, <2>4, <4>1, <4>2 DEF TypeOK
      <4> QED
        BY <2>2, <4>1, <4>2, <4>3 DEF TypeOK
    <3> QED
      BY <3>1, <3>2
  <2> QED
    BY <2>3, <2>4 DEF Listed
<1>5. ASSUME Publish PROVE Listed'
  BY <1>5 DEF Publish, Listed
<1>6. ASSUME PassOn PROVE Listed'
  BY <1>6 DEF PassOn, Kill, Listed
<1>7. ASSUME Over PROVE Listed'
  BY <1>7 DEF Over, Listed
<1>8. ASSUME KillLate PROVE Listed'
  <2>1. UNCHANGED <<index, childPids>>
    BY <1>8 DEF KillLate
  <2>2. \A q \in Pids : (state'[q] = "free" <=> state[q] = "free")
                       /\ (state'[q] = "adopted" => state[q] = "adopted")
    BY <1>8 DEF KillLate, TypeOK, Up
  <2> QED
    BY <2>1, <2>2, ListedFrame
<1>9. ASSUME Refork PROVE Listed'
  BY <1>9 DEF Refork, Listed
<1>10. ASSUME Reload PROVE Listed'
  BY <1>10 DEF Reload, Kill, Listed
<1>11. ASSUME NEW p \in Pids, Deliver(p) PROVE Listed'
  <2>1. UNCHANGED <<index, childPids>>
    BY <1>11 DEF Deliver, Dies
  <2>2. \A q \in Pids : (state'[q] = "free" <=> state[q] = "free")
                       /\ (state'[q] = "adopted" => state[q] = "adopted")
    BY <1>11 DEF Deliver, Dies, TypeOK, Up
  <2> QED
    BY <2>1, <2>2, ListedFrame
<1>12. ASSUME NEW p \in Pids, Reset(p) PROVE Listed'
  <2>1. UNCHANGED <<index, childPids>>
    BY <1>12 DEF Reset, Becomes, Alone
  <2>2. \A q \in Pids : (state'[q] = "free" <=> state[q] = "free")
                       /\ (state'[q] = "adopted" => state[q] = "adopted")
    BY <1>12 DEF Reset, Becomes, Alone, TypeOK, Up
  <2> QED
    BY <2>1, <2>2, ListedFrame
<1>13. ASSUME NEW p \in Pids, Forget(p) PROVE Listed'
  <2>1. UNCHANGED <<index, childPids>>
    BY <1>13 DEF Forget, Becomes, Alone, Dies
  <2>2. \A q \in Pids : (state'[q] = "free" <=> state[q] = "free")
                       /\ (state'[q] = "adopted" => state[q] = "adopted")
    BY <1>13 DEF Forget, Becomes, Alone, Dies, TypeOK, Up
  <2> QED
    BY <2>1, <2>2, ListedFrame
<1>14. ASSUME NEW p \in Pids, Arm(p) PROVE Listed'
  <2>1. UNCHANGED <<index, childPids>>
    BY <1>14 DEF Arm, Becomes, Alone
  <2>2. \A q \in Pids : (state'[q] = "free" <=> state[q] = "free")
                       /\ (state'[q] = "adopted" => state[q] = "adopted")
    BY <1>14 DEF Arm, Becomes, Alone, TypeOK, Up
  <2> QED
    BY <2>1, <2>2, ListedFrame
<1>15. ASSUME NEW p \in Pids, Leave(p) PROVE Listed'
  <2>1. UNCHANGED <<index, childPids>>
    BY <1>15 DEF Leave, Dies, Alone
  <2>2. \A q \in Pids : (state'[q] = "free" <=> state[q] = "free")
                       /\ (state'[q] = "adopted" => state[q] = "adopted")
    BY <1>15 DEF Leave, Dies, Alone, TypeOK, Up
  <2> QED
    BY <2>1, <2>2, ListedFrame
<1>16. ASSUME NEW p \in Pids, Crash(p) PROVE Listed'
  <2>1. UNCHANGED <<index, childPids>>
    BY <1>16 DEF Crash, Dies, Alone
  <2>2. \A q \in Pids : (state'[q] = "free" <=> state[q] = "free")
                       /\ (state'[q] = "adopted" => state[q] = "adopted")
    BY <1>16 DEF Crash, Dies, Alone, TypeOK, Up
  <2> QED
    BY <2>1, <2>2, ListedFrame
<1>17. ASSUME NEW p \in Pids, Refuse(p) PROVE Listed'
  <2>1. UNCHANGED <<index, childPids>>
    BY <1>17 DEF Refuse, Dies, Alone
  <2>2. \A q \in Pids : (state'[q] = "free" <=> state[q] = "free")
                       /\ (state'[q] = "adopted" => state[q] = "adopted")
    BY <1>17 DEF Refuse, Dies, Alone, TypeOK, Up
  <2> QED
    BY <2>1, <2>2, ListedFrame
<1>18. ASSUME NEW p \in Pids, ReapClean(p) PROVE Listed'
  <2>1. state[p] # "free" /\ Removed(p) /\ Buried(p)
    BY <1>18 DEF ReapClean, Reaps, Retired, Dead
  <2> QED
    BY <2>1, Reaping
<1>19. ASSUME NEW p \in Pids, ReapStopped(p) PROVE Listed'
  <2>1. state[p] # "free" /\ Removed(p) /\ Buried(p)
    BY <1>19 DEF ReapStopped, Reaps, Dead
  <2> QED
    BY <2>1, Reaping
<1>20. ASSUME NEW p \in Pids, ReapRefused(p) PROVE Listed'
  <2>1. state[p] # "free" /\ Removed(p) /\ Buried(p)
    BY <1>20 DEF ReapRefused, Reaps, Dead
  <2> QED
    BY <2>1, Reaping
<1>21. ASSUME NEW p \in Pids, ReapStopping(p) PROVE Listed'
  <2>1. state[p] # "free" /\ Removed(p) /\ Buried(p)
    BY <1>21 DEF ReapStopping, Reaps, Retired, Dead
  <2> QED
    BY <2>1, Reaping
<1>22. ASSUME NEW p \in Pids, ReapGivesUp(p) PROVE Listed'
  <2>1. state[p] # "free" /\ Removed(p) /\ Buried(p)
    BY <1>22 DEF ReapGivesUp, Reaps, Retired, Dead
  <2> QED
    BY <2>1, Reaping
<1>23. ASSUME NEW p \in Pids, ReapRespawns(p) PROVE Listed'
  <2>1. state[p] # "free" /\ Removed(p) /\ Buried(p)
    BY <1>23 DEF ReapRespawns, Reaps, Dead
  <2> QED
    BY <2>1, Reaping
<1>24. ASSUME NEW p \in Pids, ReapRest(p) PROVE Listed'
  <2>1. state[p] # "free" /\ Removed(p) /\ Buried(p)
    BY <1>24 DEF ReapRest, Dead
  <2> QED
    BY <2>1, Reaping
<1>25. ASSUME NEW p \in Pids, ReapDrained(p) PROVE Listed'
  <2>1. state[p] # "free" /\ Removed(p) /\ Buried(p)
    BY <1>25 DEF ReapDrained, Dead
  <2> QED
    BY <2>1, Reaping
<1>26. CASE UNCHANGED vars
  BY <1>26 DEF vars, Listed
<1> QED
    BY <1>1, <1>2, <1>3, <1>4, <1>5, <1>6, <1>7, <1>8, <1>9, <1>10, <1>11, <1>12, <1>13, <1>14,
     <1>15, <1>16, <1>17, <1>18, <1>19, <1>20, <1>21, <1>22, <1>23, <1>24, <1>25, <1>26 DEF
     Next, SupStep, WorkerStep, Reap

\* The place of a fork.
LEMMA PlacedStep ==
  TypeOK /\ Listed /\ Placed /\ [Next]_vars => Placed'
<1> SUFFICES ASSUME TypeOK, Listed, Placed, [Next]_vars PROVE Placed'
  OBVIOUS
<1> USE DEF procs, lists, counts, verdicts, world
<1>1. ASSUME Order PROVE Placed'
  BY <1>1 DEF Order, Placed
<1>2. ASSUME OnSignal PROVE Placed'
  BY <1>2 DEF OnSignal, Kill, Placed
<1>3. ASSUME ForkNext PROVE Placed'
  <2>1. UNCHANGED <<at, by, childPids>> /\ by = "start" /\ at \in 0 .. NumWorkers
    BY <1>3 DEF ForkNext, Placed
  <2>2. \A i \in Indices : i >= at => childPids[i] = None
    BY <1>3, <2>1 DEF ForkNext, Placed
  <2>3. CASE pc' = "wait"
    BY <2>3 DEF Placed
  <2>4. CASE pc' = "forking" /\ at # NumWorkers
    <3>1. at \in Indices /\ at >= at
      BY <2>1, <2>4, SupervisorAssumption DEF Indices
    <3> QED
      BY <2>1, <2>2, <2>4, <3>1 DEF Placed
  <2> QED
    BY <1>3, <2>3, <2>4 DEF ForkNext
<1>4. ASSUME Fork PROVE Placed'
  <2>1. at \in Indices
    BY <1>4 DEF Fork, Placed
  <2>2. at # None /\ UNCHANGED <<at, by>>
    BY <1>4, <2>1, SupervisorAssumption DEF Fork, Indices
  <2>3. pc' \in {"refork", "publish"}
    BY <1>4, <2>2 DEF Fork
  <2>4. \A i \in Indices : i # at => childPids'[i] = childPids[i]
    BY <1>4 DEF Fork
  <2>5. ASSUME by = "start", NEW i \in Indices, i > at PROVE childPids'[i] = None
    <3>1. i >= at /\ i # at
      BY <2>1, <2>5 DEF Indices
    <3> QED
      BY <1>4, <2>4, <2>5, <3>1 DEF Fork, Placed
  <2> QED
    BY <2>1, <2>2, <2>3, <2>5 DEF Placed
<1>5. ASSUME Publish PROVE Placed'
  BY <1>5 DEF Publish, Placed
<1>6. ASSUME PassOn PROVE Placed'
  <2>1. CASE by = "start"
    <3>1. pc' = "fork" /\ at' = at + 1 /\ UNCHANGED <<by, childPids>>
      BY <1>6, <2>1 DEF PassOn
    <3>2. at \in Indices /\ \A i \in Indices : i > at => childPids[i] = None
      BY <1>6, <2>1 DEF PassOn, Placed
    <3>3. at + 1 \in 0 .. NumWorkers /\ \A i \in Indices : i >= at + 1 => i > at
      BY <3>2, SupervisorAssumption DEF Indices
    <3> QED
      BY <2>1, <3>1, <3>2, <3>3 DEF Placed
  <2>2. CASE by # "start"
    <3>1. pc' = "wait"
      BY <1>6, <2>2 DEF PassOn
    <3> QED
      BY <3>1 DEF Placed
  <2> QED
    BY <2>1, <2>2
<1>7. ASSUME Over PROVE Placed'
  BY <1>7 DEF Over, Placed
<1>8. ASSUME KillLate PROVE Placed'
  BY <1>8 DEF KillLate, Placed
<1>9. ASSUME Refork PROVE Placed'
  <2>1. by' = "reload" /\ UNCHANGED childPids
    BY <1>9 DEF Refork
  <2>2. pc' = "publish" \/ (pc' = "forking" /\ at' \in Indices /\ childPids[at'] = None)
    BY <1>9 DEF Refork
  <2> QED
    BY <2>1, <2>2 DEF Placed
<1>10. ASSUME Reload PROVE Placed'
  BY <1>10 DEF Reload, Kill, Placed
<1>11. ASSUME NEW p \in Pids, Deliver(p) PROVE Placed'
  BY <1>11 DEF Deliver, Dies, Placed
<1>12. ASSUME NEW p \in Pids, Reset(p) PROVE Placed'
  BY <1>12 DEF Reset, Becomes, Alone, Placed
<1>13. ASSUME NEW p \in Pids, Forget(p) PROVE Placed'
  BY <1>13 DEF Forget, Becomes, Alone, Dies, Placed
<1>14. ASSUME NEW p \in Pids, Arm(p) PROVE Placed'
  BY <1>14 DEF Arm, Becomes, Alone, Placed
<1>15. ASSUME NEW p \in Pids, Leave(p) PROVE Placed'
  BY <1>15 DEF Leave, Dies, Alone, Placed
<1>16. ASSUME NEW p \in Pids, Crash(p) PROVE Placed'
  BY <1>16 DEF Crash, Dies, Alone, Placed
<1>17. ASSUME NEW p \in Pids, Refuse(p) PROVE Placed'
  BY <1>17 DEF Refuse, Dies, Alone, Placed
<1>18. ASSUME NEW p \in Pids, ReapClean(p) PROVE Placed'
  <2>1. pc' \in {"wait", "rest"}
    BY <1>18 DEF ReapClean, Reaps, Retired
  <2> QED
    BY <2>1 DEF Placed
<1>19. ASSUME NEW p \in Pids, ReapStopped(p) PROVE Placed'
  <2>1. pc' \in {"wait", "rest"}
    BY <1>19 DEF ReapStopped, Reaps
  <2> QED
    BY <2>1 DEF Placed
<1>20. ASSUME NEW p \in Pids, ReapRefused(p) PROVE Placed'
  <2>1. pc' \in {"wait", "rest"}
    BY <1>20 DEF ReapRefused, Reaps
  <2> QED
    BY <2>1 DEF Placed
<1>21. ASSUME NEW p \in Pids, ReapStopping(p) PROVE Placed'
  <2>1. pc' \in {"wait", "rest"}
    BY <1>21 DEF ReapStopping, Reaps, Retired
  <2> QED
    BY <2>1 DEF Placed
<1>22. ASSUME NEW p \in Pids, ReapGivesUp(p) PROVE Placed'
  <2>1. pc' \in {"wait", "rest"}
    BY <1>22 DEF ReapGivesUp, Reaps, Retired
  <2> QED
    BY <2>1 DEF Placed
<1>23. ASSUME NEW p \in Pids, ReapRespawns(p) PROVE Placed'
  <2>1. state[p] # "free" /\ Removed(p) /\ Buried(p)
    BY <1>23 DEF ReapRespawns, Reaps, Dead
  <2>2. freed' \in Indices /\ childPids'[freed'] = None
    BY <2>1, Reaping
  <2>3. pc' = "forking" /\ by' = "respawn" /\ at' = freed'
    BY <1>23 DEF ReapRespawns
  <2> QED
    BY <2>2, <2>3 DEF Placed
<1>24. ASSUME NEW p \in Pids, ReapRest(p) PROVE Placed'
  <2>1. pc' \in {"rest", "drain", "forced"}
    BY <1>24 DEF ReapRest
  <2> QED
    BY <2>1 DEF Placed
<1>25. ASSUME NEW p \in Pids, ReapDrained(p) PROVE Placed'
  <2>1. pc' \in {"rest", "drain", "forced"}
    BY <1>25 DEF ReapDrained
  <2> QED
    BY <2>1 DEF Placed
<1>26. CASE UNCHANGED vars
  BY <1>26 DEF vars, Placed
<1> QED
    BY <1>1, <1>2, <1>3, <1>4, <1>5, <1>6, <1>7, <1>8, <1>9, <1>10, <1>11, <1>12, <1>13, <1>14,
     <1>15, <1>16, <1>17, <1>18, <1>19, <1>20, <1>21, <1>22, <1>23, <1>24, <1>25, <1>26 DEF
     Next, SupStep, WorkerStep, Reap

\* The count of those waited for.
LEMMA AwaitedStep ==
  TypeOK /\ Listed /\ Placed /\ Awaited /\ [Next]_vars => Awaited'
<1> SUFFICES ASSUME TypeOK, Listed, Placed, Awaited, [Next]_vars PROVE Awaited'
  OBVIOUS
<1> USE DEF procs, lists, counts, verdicts, world
<1>1. ASSUME Order PROVE Awaited'
  <2>1. UNCHANGED <<pc, by, childPids, remaining>>
    BY <1>1 DEF Order
  <2> QED
    BY <2>1 DEF Awaited
<1>2. ASSUME OnSignal PROVE Awaited'
  <2>1. UNCHANGED <<pc, by, childPids, remaining>>
    BY <1>2 DEF OnSignal, Kill
  <2> QED
    BY <2>1 DEF Awaited
<1>3. ASSUME ForkNext PROVE Awaited'
  <2>1. UNCHANGED <<by, childPids>> /\ by = "start"
    BY <1>3 DEF ForkNext, Placed
  <2>2. pc' = "forking" \/ (pc' = "wait" /\ remaining' = Alive(childPids))
    BY <1>3 DEF ForkNext
  <2> QED
    BY <2>1, <2>2 DEF Awaited
<1>4. ASSUME Fork PROVE Awaited'
  <2>1. at \in Indices /\ childPids[at] = None
    BY <1>4 DEF Fork, Placed
  <2>2. at # None
    BY <2>1, SupervisorAssumption DEF Indices
  <2>3. pc' \in {"refork", "publish"} /\ UNCHANGED <<by, remaining>>
    BY <1>4, <2>2 DEF Fork
  <2>4. PICK p \in Pids : childPids' = [i \in Indices |-> IF i = at THEN p ELSE childPids[i]]
    BY <1>4 DEF Fork, Free
  <2>5. p # None
    BY SupervisorAssumption
  <2>6. Alive(childPids') = Alive(childPids) + 1
    BY <2>1, <2>4, <2>5, OneMore
  <2>7. by = "respawn" => remaining = Alive(childPids) + 1
    BY <1>4 DEF Fork, Awaited
  <2> QED
    BY <2>3, <2>6, <2>7 DEF Awaited
<1>5. ASSUME Publish PROVE Awaited'
  <2>1. pc = "publish" /\ pc' = "passOn" /\ UNCHANGED <<by, childPids, remaining>>
    BY <1>5 DEF Publish
  <2> QED
    BY <2>1 DEF Awaited
<1>6. ASSUME PassOn PROVE Awaited'
  <2>1. UNCHANGED <<by, childPids>>
    BY <1>6 DEF PassOn
  <2>2. pc' = "fork" \/ (pc' = "wait" /\ by # "start")
    BY <1>6 DEF PassOn
  <2>3. remaining' = IF by = "reload" THEN Alive(childPids) ELSE remaining
    BY <1>6 DEF PassOn
  <2>4. by = "respawn" => remaining = Alive(childPids)
    BY <1>6 DEF PassOn, Awaited
  <2>5. by \in {"start", "respawn", "reload"}
    BY DEF TypeOK
  <2> QED
    BY <2>1, <2>2, <2>3, <2>4, <2>5 DEF Awaited
<1>7. ASSUME Over PROVE Awaited'
  <2>1. pc' = "over" /\ UNCHANGED childPids
    BY <1>7 DEF Over
  <2>2. Alive(childPids) = 0
    BY <1>7 DEF Over, Awaited
  <2> QED
    BY <2>1, <2>2 DEF Awaited
<1>8. ASSUME KillLate PROVE Awaited'
  <2>1. pc' \in {"drain", "forced"}
    BY <1>8 DEF KillLate
  <2> QED
    BY <2>1 DEF Awaited
<1>9. ASSUME Refork PROVE Awaited'
  <2>1. by' = "reload" /\ pc' \in {"forking", "publish"}
    BY <1>9 DEF Refork
  <2> QED
    BY <2>1 DEF Awaited
<1>10. ASSUME Reload PROVE Awaited'
  <2>1. pc' \in {"drain", "forced"}
    BY <1>10 DEF Reload
  <2> QED
    BY <2>1 DEF Awaited
<1>11. ASSUME NEW p \in Pids, Deliver(p) PROVE Awaited'
  <2>1. UNCHANGED <<pc, by, childPids, remaining>>
    BY <1>11 DEF Deliver, Dies
  <2> QED
    BY <2>1 DEF Awaited
<1>12. ASSUME NEW p \in Pids, Reset(p) PROVE Awaited'
  <2>1. UNCHANGED <<pc, by, childPids, remaining>>
    BY <1>12 DEF Reset, Becomes, Alone
  <2> QED
    BY <2>1 DEF Awaited
<1>13. ASSUME NEW p \in Pids, Forget(p) PROVE Awaited'
  <2>1. UNCHANGED <<pc, by, childPids, remaining>>
    BY <1>13 DEF Forget, Becomes, Alone, Dies
  <2> QED
    BY <2>1 DEF Awaited
<1>14. ASSUME NEW p \in Pids, Arm(p) PROVE Awaited'
  <2>1. UNCHANGED <<pc, by, childPids, remaining>>
    BY <1>14 DEF Arm, Becomes, Alone
  <2> QED
    BY <2>1 DEF Awaited
<1>15. ASSUME NEW p \in Pids, Leave(p) PROVE Awaited'
  <2>1. UNCHANGED <<pc, by, childPids, remaining>>
    BY <1>15 DEF Leave, Dies, Alone
  <2> QED
    BY <2>1 DEF Awaited
<1>16. ASSUME NEW p \in Pids, Crash(p) PROVE Awaited'
  <2>1. UNCHANGED <<pc, by, childPids, remaining>>
    BY <1>16 DEF Crash, Dies, Alone
  <2> QED
    BY <2>1 DEF Awaited
<1>17. ASSUME NEW p \in Pids, Refuse(p) PROVE Awaited'
  <2>1. UNCHANGED <<pc, by, childPids, remaining>>
    BY <1>17 DEF Refuse, Dies, Alone
  <2> QED
    BY <2>1 DEF Awaited
<1>18. ASSUME NEW p \in Pids, ReapClean(p) PROVE Awaited'
  <2>1. state[p] # "free" /\ Removed(p) /\ Buried(p)
    BY <1>18 DEF ReapClean, Reaps, Retired, Dead
  <2>2. Alive(childPids') = Alive(childPids) - 1
    BY <2>1, Reaping
  <2>3. remaining = Alive(childPids) /\ Alive(childPids) \in Nat
    BY <1>18, AliveType DEF ReapClean, Reaps, Retired, Awaited
  <2>4. pc' = "wait" /\ remaining' = remaining - 1
    BY <1>18 DEF ReapClean, Reaps, Retired
  <2> QED
    BY <2>2, <2>3, <2>4 DEF Awaited
<1>19. ASSUME NEW p \in Pids, ReapStopped(p) PROVE Awaited'
  <2>1. pc' = "rest"
    BY <1>19 DEF ReapStopped, Reaps
  <2> QED
    BY <2>1 DEF Awaited
<1>20. ASSUME NEW p \in Pids, ReapRefused(p) PROVE Awaited'
  <2>1. pc' = "rest"
    BY <1>20 DEF ReapRefused, Reaps
  <2> QED
    BY <2>1 DEF Awaited
<1>21. ASSUME NEW p \in Pids, ReapStopping(p) PROVE Awaited'
  <2>1. state[p] # "free" /\ Removed(p) /\ Buried(p)
    BY <1>21 DEF ReapStopping, Reaps, Retired, Dead
  <2>2. Alive(childPids') = Alive(childPids) - 1
    BY <2>1, Reaping
  <2>3. remaining = Alive(childPids) /\ Alive(childPids) \in Nat
    BY <1>21, AliveType DEF ReapStopping, Reaps, Retired, Awaited
  <2>4. pc' = "wait" /\ remaining' = remaining - 1
    BY <1>21 DEF ReapStopping, Reaps, Retired
  <2> QED
    BY <2>2, <2>3, <2>4 DEF Awaited
<1>22. ASSUME NEW p \in Pids, ReapGivesUp(p) PROVE Awaited'
  <2>1. state[p] # "free" /\ Removed(p) /\ Buried(p)
    BY <1>22 DEF ReapGivesUp, Reaps, Retired, Dead
  <2>2. Alive(childPids') = Alive(childPids) - 1
    BY <2>1, Reaping
  <2>3. remaining = Alive(childPids) /\ Alive(childPids) \in Nat
    BY <1>22, AliveType DEF ReapGivesUp, Reaps, Retired, Awaited
  <2>4. pc' = "wait" /\ remaining' = remaining - 1
    BY <1>22 DEF ReapGivesUp, Reaps, Retired
  <2> QED
    BY <2>2, <2>3, <2>4 DEF Awaited
<1>23. ASSUME NEW p \in Pids, ReapRespawns(p) PROVE Awaited'
  <2>1. state[p] # "free" /\ Removed(p) /\ Buried(p)
    BY <1>23 DEF ReapRespawns, Reaps, Dead
  <2>2. Alive(childPids') = Alive(childPids) - 1
    BY <2>1, Reaping
  <2>3. remaining = Alive(childPids) /\ Alive(childPids) \in Nat
    BY <1>23, AliveType DEF ReapRespawns, Reaps, Awaited
  <2>4. pc' = "forking" /\ by' = "respawn" /\ remaining' = remaining
    BY <1>23 DEF ReapRespawns, Reaps
  <2> QED
    BY <2>2, <2>3, <2>4 DEF Awaited
<1>24. ASSUME NEW p \in Pids, ReapRest(p) PROVE Awaited'
  <2>1. pc' \in {"rest", "drain", "forced"}
    BY <1>24 DEF ReapRest
  <2> QED
    BY <2>1 DEF Awaited
<1>25. ASSUME NEW p \in Pids, ReapDrained(p) PROVE Awaited'
  <2>1. pc' \in {"rest", "drain", "forced"}
    BY <1>25 DEF ReapDrained
  <2> QED
    BY <2>1 DEF Awaited
<1>26. CASE UNCHANGED vars
  BY <1>26 DEF vars, Awaited, Alive
<1> QED
    BY <1>1, <1>2, <1>3, <1>4, <1>5, <1>6, <1>7, <1>8, <1>9, <1>10, <1>11, <1>12, <1>13, <1>14,
     <1>15, <1>16, <1>17, <1>18, <1>19, <1>20, <1>21, <1>22, <1>23, <1>24, <1>25, <1>26 DEF
     Next, SupStep, WorkerStep, Reap

\* The reach of a stop.
LEMMA ReachedStep ==
  TypeOK /\ Listed /\ Placed /\ Reached /\ [Next]_vars => Reached'
<1> SUFFICES ASSUME TypeOK, Listed, Placed, Reached, [Next]_vars PROVE Reached'
  OBVIOUS
<1> USE DEF procs, lists, counts, verdicts, world
<1>1. ASSUME Order PROVE Reached'
  <2>1. UNCHANGED <<pc, by, childPids, published, stopping, state, told>>
    BY <1>1 DEF Order
  <2>2. \A q \in Pids : sent[q] => sent'[q]
    BY <1>1 DEF Order, TypeOK
  <2> QED
    BY <2>1, <2>2 DEF Reached, Steady
<1>2. ASSUME OnSignal PROVE Reached'
  <2>1. UNCHANGED <<pc, by, childPids, published, state, told>>
    BY <1>2 DEF OnSignal
  <2>2. ASSUME Steady, NEW q \in Pids, state[q] \in Up PROVE sent'[q]
    <3>1. published = childPids
      BY <2>2 DEF Reached
    <3>2. q \in Named(published)
      BY <2>2, <3>1, SupervisorAssumption DEF Listed, Named, Up
    <3> QED
      BY <1>2, <2>2, <3>2 DEF OnSignal, Kill
  <2> QED
    BY <2>1, <2>2 DEF Reached, Steady
<1>3. ASSUME ForkNext PROVE Reached'
  <2>1. Steady /\ UNCHANGED <<childPids, published, stopping, state, told, sent>>
    BY <1>3 DEF ForkNext, Steady
  <2> QED
    BY <2>1 DEF Reached
<1>4. ASSUME Fork PROVE Reached'
  <2>1. at # None
    BY <1>4, SupervisorAssumption DEF Fork, Placed, Indices
  <2>2. pc' \in {"refork", "publish"}
    BY <1>4, <2>1 DEF Fork
  <2> QED
    BY <2>2 DEF Reached, Steady
<1>5. ASSUME Publish PROVE Reached'
  <2>1. pc' = "passOn" /\ published' = childPids'
    BY <1>5 DEF Publish
  <2> QED
    BY <2>1 DEF Reached, Steady
<1>6. ASSUME PassOn PROVE Reached'
  <2>1. UNCHANGED <<by, childPids, published, stopping, state, told>> /\ pc = "passOn"
    BY <1>6 DEF PassOn
  <2>2. published = childPids
    BY <2>1 DEF Reached
  <2>3. ASSUME stopping, NEW q \in Pids, state[q] \in Up PROVE sent'[q]
    <3>1. q \in Named(childPids)
      BY <2>3, SupervisorAssumption DEF Listed, Named, Up
    <3> QED
      BY <1>6, <2>3, <3>1 DEF PassOn, Kill
  <2> QED
    BY <2>1, <2>2, <2>3 DEF Reached
<1>7. ASSUME Over PROVE Reached'
  <2>1. pc' = "over"
    BY <1>7 DEF Over
  <2> QED
    BY <2>1 DEF Reached, Steady
<1>8. ASSUME KillLate PROVE Reached'
  <2>1. pc' = "forced"
    BY <1>8 DEF KillLate
  <2> QED
    BY <2>1 DEF Reached, Steady
<1>9. ASSUME Refork PROVE Reached'
  <2>1. pc' = "publish" \/ (pc' = "forking" /\ by' = "reload")
    BY <1>9 DEF Refork
  <2> QED
    BY <2>1 DEF Reached, Steady
<1>10. ASSUME Reload PROVE Reached'
  <2>1. pc' = "drain"
    BY <1>10 DEF Reload
  <2> QED
    BY <2>1 DEF Reached, Steady
<1>11. ASSUME NEW p \in Pids, Deliver(p) PROVE Reached'
  <2>1. UNCHANGED <<pc, by, childPids, published, stopping>>
    BY <1>11 DEF Deliver, Dies
  <2>2. \A q \in Pids :
          /\ state'[q] \in Up => state[q] \in Up
          /\ state'[q] \in Up /\ (sent[q] \/ told[q] \/ state[q] = "draining")
               => sent'[q] \/ told'[q] \/ state'[q] = "draining"
    BY <1>11 DEF Deliver, Dies, TypeOK, Up
  <2> QED
    BY <2>1, <2>2 DEF Reached, Steady
<1>12. ASSUME NEW p \in Pids, Reset(p) PROVE Reached'
  <2>1. UNCHANGED <<pc, by, childPids, published, stopping>>
    BY <1>12 DEF Reset, Becomes, Alone
  <2>2. \A q \in Pids :
          /\ state'[q] \in Up => state[q] \in Up
          /\ state'[q] \in Up /\ (sent[q] \/ told[q] \/ state[q] = "draining")
               => sent'[q] \/ told'[q] \/ state'[q] = "draining"
    BY <1>12 DEF Reset, Becomes, Alone, TypeOK, Up
  <2> QED
    BY <2>1, <2>2 DEF Reached, Steady
<1>13. ASSUME NEW p \in Pids, Forget(p) PROVE Reached'
  <2>1. UNCHANGED <<pc, by, childPids, published, stopping>>
    BY <1>13 DEF Forget, Becomes, Alone, Dies
  <2>2. \A q \in Pids :
          /\ state'[q] \in Up => state[q] \in Up
          /\ state'[q] \in Up /\ (sent[q] \/ told[q] \/ state[q] = "draining")
               => sent'[q] \/ told'[q] \/ state'[q] = "draining"
    BY <1>13 DEF Forget, Becomes, Alone, Dies, TypeOK, Up
  <2> QED
    BY <2>1, <2>2 DEF Reached, Steady
<1>14. ASSUME NEW p \in Pids, Arm(p) PROVE Reached'
  <2>1. UNCHANGED <<pc, by, childPids, published, stopping>>
    BY <1>14 DEF Arm, Becomes, Alone
  <2>2. \A q \in Pids :
          /\ state'[q] \in Up => state[q] \in Up
          /\ state'[q] \in Up /\ (sent[q] \/ told[q] \/ state[q] = "draining")
               => sent'[q] \/ told'[q] \/ state'[q] = "draining"
    BY <1>14 DEF Arm, Becomes, Alone, TypeOK, Up
  <2> QED
    BY <2>1, <2>2 DEF Reached, Steady
<1>15. ASSUME NEW p \in Pids, Leave(p) PROVE Reached'
  <2>1. UNCHANGED <<pc, by, childPids, published, stopping>>
    BY <1>15 DEF Leave, Dies, Alone
  <2>2. \A q \in Pids :
          /\ state'[q] \in Up => state[q] \in Up
          /\ state'[q] \in Up /\ (sent[q] \/ told[q] \/ state[q] = "draining")
               => sent'[q] \/ told'[q] \/ state'[q] = "draining"
    BY <1>15 DEF Leave, Dies, Alone, TypeOK, Up
  <2> QED
    BY <2>1, <2>2 DEF Reached, Steady
<1>16. ASSUME NEW p \in Pids, Crash(p) PROVE Reached'
  <2>1. UNCHANGED <<pc, by, childPids, published, stopping>>
    BY <1>16 DEF Crash, Dies, Alone
  <2>2. \A q \in Pids :
          /\ state'[q] \in Up => state[q] \in Up
          /\ state'[q] \in Up /\ (sent[q] \/ told[q] \/ state[q] = "draining")
               => sent'[q] \/ told'[q] \/ state'[q] = "draining"
    BY <1>16 DEF Crash, Dies, Alone, TypeOK, Up
  <2> QED
    BY <2>1, <2>2 DEF Reached, Steady
<1>17. ASSUME NEW p \in Pids, Refuse(p) PROVE Reached'
  <2>1. UNCHANGED <<pc, by, childPids, published, stopping>>
    BY <1>17 DEF Refuse, Dies, Alone
  <2>2. \A q \in Pids :
          /\ state'[q] \in Up => state[q] \in Up
          /\ state'[q] \in Up /\ (sent[q] \/ told[q] \/ state[q] = "draining")
               => sent'[q] \/ told'[q] \/ state'[q] = "draining"
    BY <1>17 DEF Refuse, Dies, Alone, TypeOK, Up
  <2> QED
    BY <2>1, <2>2 DEF Reached, Steady
<1>18. ASSUME NEW p \in Pids, ReapClean(p) PROVE Reached'
  <2>1. state[p] # "free" /\ Removed(p) /\ Buried(p) /\ Steady /\ UNCHANGED stopping
    BY <1>18 DEF ReapClean, Reaps, Retired, Dead, Steady
  <2>2. published' = childPids'
    BY <2>1, Reaping
  <2>3. ASSUME NEW q \in Pids, state'[q] \in Up
        PROVE  state'[q] = state[q] /\ told'[q] = told[q]
    BY <2>1, <2>3 DEF Buried, TypeOK, Up
  <2>4. \A q \in Pids : sent[q] => sent'[q]
    BY <1>18 DEF ReapClean, Reaps, Retired
  <2> QED
    BY <2>1, <2>2, <2>3, <2>4 DEF Reached
<1>19. ASSUME NEW p \in Pids, ReapStopped(p) PROVE Reached'
  <2>1. state[p] # "free" /\ Removed(p) /\ Buried(p) /\ Steady /\ UNCHANGED stopping
    BY <1>19 DEF ReapStopped, Reaps, Dead, Steady
  <2>2. published' = childPids'
    BY <2>1, Reaping
  <2>3. ASSUME NEW q \in Pids, state'[q] \in Up
        PROVE  state'[q] = state[q] /\ told'[q] = told[q]
    BY <2>1, <2>3 DEF Buried, TypeOK, Up
  <2>4. \A q \in Pids : sent[q] => sent'[q]
    BY <1>19 DEF ReapStopped, Reaps, Kill
  <2> QED
    BY <2>1, <2>2, <2>3, <2>4 DEF Reached
<1>20. ASSUME NEW p \in Pids, ReapRefused(p) PROVE Reached'
  <2>1. state[p] # "free" /\ Removed(p) /\ Buried(p) /\ Steady /\ UNCHANGED stopping
    BY <1>20 DEF ReapRefused, Reaps, Dead, Steady
  <2>2. published' = childPids'
    BY <2>1, Reaping
  <2>3. ASSUME NEW q \in Pids, state'[q] \in Up
        PROVE  state'[q] = state[q] /\ told'[q] = told[q]
    BY <2>1, <2>3 DEF Buried, TypeOK, Up
  <2>4. \A q \in Pids : sent[q] => sent'[q]
    BY <1>20 DEF ReapRefused, Reaps, Kill
  <2> QED
    BY <2>1, <2>2, <2>3, <2>4 DEF Reached
<1>21. ASSUME NEW p \in Pids, ReapStopping(p) PROVE Reached'
  <2>1. state[p] # "free" /\ Removed(p) /\ Buried(p) /\ Steady /\ UNCHANGED stopping
    BY <1>21 DEF ReapStopping, Reaps, Retired, Dead, Steady
  <2>2. published' = childPids'
    BY <2>1, Reaping
  <2>3. ASSUME NEW q \in Pids, state'[q] \in Up
        PROVE  state'[q] = state[q] /\ told'[q] = told[q]
    BY <2>1, <2>3 DEF Buried, TypeOK, Up
  <2>4. \A q \in Pids : sent[q] => sent'[q]
    BY <1>21 DEF ReapStopping, Reaps, Retired
  <2> QED
    BY <2>1, <2>2, <2>3, <2>4 DEF Reached
<1>22. ASSUME NEW p \in Pids, ReapGivesUp(p) PROVE Reached'
  <2>1. state[p] # "free" /\ Removed(p) /\ Buried(p) /\ Steady /\ UNCHANGED stopping
    BY <1>22 DEF ReapGivesUp, Reaps, Retired, Dead, Steady
  <2>2. published' = childPids'
    BY <2>1, Reaping
  <2>3. ASSUME NEW q \in Pids, state'[q] \in Up
        PROVE  state'[q] = state[q] /\ told'[q] = told[q]
    BY <2>1, <2>3 DEF Buried, TypeOK, Up
  <2>4. \A q \in Pids : sent[q] => sent'[q]
    BY <1>22 DEF ReapGivesUp, Reaps, Retired
  <2> QED
    BY <2>1, <2>2, <2>3, <2>4 DEF Reached
<1>23. ASSUME NEW p \in Pids, ReapRespawns(p) PROVE Reached'
  <2>1. state[p] # "free" /\ Removed(p) /\ Buried(p) /\ Steady /\ UNCHANGED stopping
    BY <1>23 DEF ReapRespawns, Reaps, Dead, Steady
  <2>2. published' = childPids'
    BY <2>1, Reaping
  <2>3. ASSUME NEW q \in Pids, state'[q] \in Up
        PROVE  state'[q] = state[q] /\ told'[q] = told[q]
    BY <2>1, <2>3 DEF Buried, TypeOK, Up
  <2>4. \A q \in Pids : sent[q] => sent'[q]
    BY <1>23 DEF ReapRespawns, Reaps
  <2> QED
    BY <2>1, <2>2, <2>3, <2>4 DEF Reached
<1>24. ASSUME NEW p \in Pids, ReapRest(p) PROVE Reached'
  <2>1. state[p] # "free" /\ Removed(p) /\ Buried(p) /\ Steady /\ UNCHANGED stopping
    BY <1>24 DEF ReapRest, Dead, Steady
  <2>2. published' = childPids'
    BY <2>1, Reaping
  <2>3. ASSUME NEW q \in Pids, state'[q] \in Up
        PROVE  state'[q] = state[q] /\ told'[q] = told[q]
    BY <2>1, <2>3 DEF Buried, TypeOK, Up
  <2>4. \A q \in Pids : sent[q] => sent'[q]
    BY <1>24 DEF ReapRest
  <2> QED
    BY <2>1, <2>2, <2>3, <2>4 DEF Reached
<1>25. ASSUME NEW p \in Pids, ReapDrained(p) PROVE Reached'
  <2>1. pc' \in {"drain", "forced"}
    BY <1>25 DEF ReapDrained
  <2> QED
    BY <2>1 DEF Reached, Steady
<1>26. CASE UNCHANGED vars
  BY <1>26 DEF vars, Reached, Steady
<1> QED
    BY <1>1, <1>2, <1>3, <1>4, <1>5, <1>6, <1>7, <1>8, <1>9, <1>10, <1>11, <1>12, <1>13, <1>14,
     <1>15, <1>16, <1>17, <1>18, <1>19, <1>20, <1>21, <1>22, <1>23, <1>24, <1>25, <1>26 DEF
     Next, SupStep, WorkerStep, Reap

-----------------------------------------------------------------------------
(* The theorems. *)

\* The supervisor starts so: no child, nothing published, nobody told.
LEMMA InitInductive == Adopted = {} /\ Init => Inductive
<1> SUFFICES ASSUME Adopted = {}, Init PROVE Inductive
  OBVIOUS
<1> USE SupervisorAssumption
<1>1. \A p \in Pids : state[p] = "free"
  BY DEF Init
<1>2. \A i \in Indices : childPids[i] = None
  BY DEF Init
<1>3. TypeOK
  <2>1. /\ state \in [Pids -> Up \cup Dead \cup {"free"}] /\ index \in [Pids -> Indices \cup {None}]
        /\ told \in [Pids -> BOOLEAN] /\ sent \in [Pids -> BOOLEAN]
    BY DEF Init, Up
  <2>2. /\ childPids \in [Indices -> Pids \cup {None}]
        /\ published \in [Indices -> Pids \cup {None}]
    BY DEF Init
  <2>3. 0 \in 0 .. NumWorkers
    OBVIOUS
  <2>4. polling \in BOOLEAN
    BY DEF Init
  <2> QED
    BY <2>1, <2>2, <2>3, <2>4 DEF Init, TypeOK
<1>4. Listed /\ Reached
  BY <1>1, <1>2 DEF Init, Listed, Reached, Steady, Up
<1>5. Placed /\ Awaited
  BY <1>2 DEF Init, Placed, Awaited
<1> QED
  BY <1>3, <1>4, <1>5 DEF Inductive

\* And no step of its own, of a worker or of an operator leaves it.
LEMMA NextInductive == Inductive /\ [Next]_vars => Inductive'
  BY TypeStep, ListedStep, PlacedStep, AwaitedStep, ReachedStep DEF Inductive

\* So it holds in every behaviour.
THEOREM Invariance == Adopted = {} /\ Spec => []Inductive
  BY InitInductive, NextInductive, PTL DEF Spec

\* A worker that runs holds its index alone, and the list the supervisor kills from names it,
\* whatever crashes, respawns and reloads there were.
THEOREM HoldersAlone == Adopted = {} /\ Spec => []OneHolder
<1>1. Inductive => OneHolder
  BY DEF Inductive, Listed, OneHolder, Up
<1> QED
  BY <1>1, Invariance, PTL

\* Once a stop is recorded and the supervisor waits again, no worker is left
\* that neither a signal nor the record it was forked with tells.
THEOREM StopReaches == Adopted = {} /\ Spec => []EveryoneTold
<1>1. Inductive => EveryoneTold
  BY DEF Inductive, Reached, Steady, EveryoneTold
<1> QED
  BY <1>1, Invariance, PTL

-----------------------------------------------------------------------------
(* The exit code. *)

\* The processes that failed and are not reaped are finitely many; one more and one
\* less count for one.
LEMMA FailedFinite == IsFiniteSet(Failed) /\ Cardinality(Failed) \in Nat
<1>1. Failed \subseteq Pids
  BY DEF Failed
<1>2. IsFiniteSet(Failed)
  BY <1>1, SupervisorAssumption, FS_Subset
<1> QED
  BY <1>2, FS_CardinalityType

LEMMA FailedMore ==
  ASSUME TypeOK, NEW p \in Pids, state[p] # "failed", state' = [state EXCEPT ![p] = "failed"]
  PROVE  Cardinality(Failed') = Cardinality(Failed) + 1
<1>1. Failed' = Failed \cup {p} /\ p \notin Failed
  BY DEF Failed, TypeOK
<1> QED
  BY <1>1, FailedFinite, FS_AddElement

LEMMA FailedLess ==
  ASSUME TypeOK, NEW p \in Pids, state[p] = "failed", Buried(p)
  PROVE  Cardinality(Failed') = Cardinality(Failed) - 1
<1>1. Failed' = Failed \ {p} /\ p \in Failed
  BY DEF Failed, Buried, TypeOK
<1> QED
  BY <1>1, FailedFinite, FS_RemoveElement

\* A step that neither kills by a fault nor reaps one leaves the reckoning as it is.
LEMMA JudgedFrame ==
  ASSUME Judged, pc' \in {"drain", "forced", "refork"} \/ by' = "reload" => polling,
         pc' = "over" => pc = "over" /\ UNCHANGED exit,
         UNCHANGED <<polling, crashes, refusals, respawnCount, configRefused>>,
         ~polling \/ pc' = "over" => (Blamed' <=> Blamed),
         \A q \in Pids : (state'[q] = "failed" <=> state[q] = "failed")
                      /\ (state'[q] = "refused" <=> state[q] = "refused")
  PROVE  Judged'
<1>1. Failed' = Failed
  BY DEF Failed
<1>2. Unreloaded' /\ RefusalSeen'
  BY DEF Judged, Unreloaded, RefusalSeen
<1>3. CrashSeen'
  BY <1>1 DEF Judged, CrashSeen
<1>4. Verdict'
  BY DEF Judged, Verdict
<1> QED
  BY <1>2, <1>3, <1>4 DEF Judged

\* The reckoning is kept by every step.
LEMMA JudgedStep ==
  TypeOK /\ Listed /\ Awaited /\ Judged /\ [Next]_vars => Judged'
<1> SUFFICES ASSUME TypeOK, Listed, Awaited, Judged, [Next]_vars PROVE Judged'
  OBVIOUS
<1> USE DEF procs, lists, counts, verdicts, world
<1>1. ASSUME Order PROVE Judged'
  <2>1. UNCHANGED <<polling, crashes, refusals, respawnCount, configRefused, exit>>
    BY <1>1 DEF Order
  <2>2. pc' \in {"drain", "forced", "refork"} \/ by' = "reload" => polling
    BY <1>1 DEF Order, Judged, Unreloaded
  <2>3. pc' = "over" => pc = "over"
    BY <1>1 DEF Order
  <2>4. ~polling \/ pc' = "over" => (Blamed' <=> Blamed)
    BY <1>1 DEF Order, Blamed, Judged, Unreloaded
  <2>5. \A q \in Pids : (state'[q] = "failed" <=> state[q] = "failed")
                      /\ (state'[q] = "refused" <=> state[q] = "refused")
    BY <1>1 DEF Order, TypeOK
  <2> QED
    BY <2>1, <2>2, <2>3, <2>4, <2>5, JudgedFrame
<1>2. ASSUME OnSignal PROVE Judged'
  <2>1. UNCHANGED <<polling, crashes, refusals, respawnCount, configRefused, exit>>
    BY <1>2 DEF OnSignal
  <2>2. pc' \in {"drain", "forced", "refork"} \/ by' = "reload" => polling
    BY <1>2 DEF OnSignal, Judged, Unreloaded
  <2>3. pc' = "over" => pc = "over"
    BY <1>2 DEF OnSignal
  <2>4. ~polling \/ pc' = "over" => (Blamed' <=> Blamed)
    BY <1>2 DEF OnSignal, Blamed, Judged, Unreloaded
  <2>5. \A q \in Pids : (state'[q] = "failed" <=> state[q] = "failed")
                      /\ (state'[q] = "refused" <=> state[q] = "refused")
    BY <1>2 DEF OnSignal, TypeOK
  <2> QED
    BY <2>1, <2>2, <2>3, <2>4, <2>5, JudgedFrame
<1>3. ASSUME ForkNext PROVE Judged'
  <2>1. UNCHANGED <<polling, crashes, refusals, respawnCount, configRefused, exit>>
    BY <1>3 DEF ForkNext
  <2>2. pc' \in {"drain", "forced", "refork"} \/ by' = "reload" => polling
    BY <1>3 DEF ForkNext, Judged, Unreloaded
  <2>3. pc' = "over" => pc = "over"
    BY <1>3 DEF ForkNext
  <2>4. ~polling \/ pc' = "over" => (Blamed' <=> Blamed)
    BY <1>3 DEF ForkNext, Blamed, Judged, Unreloaded
  <2>5. \A q \in Pids : (state'[q] = "failed" <=> state[q] = "failed")
                      /\ (state'[q] = "refused" <=> state[q] = "refused")
    BY <1>3 DEF ForkNext, TypeOK
  <2> QED
    BY <2>1, <2>2, <2>3, <2>4, <2>5, JudgedFrame
<1>4. ASSUME Fork PROVE Judged'
  <2>1. UNCHANGED <<polling, crashes, refusals, respawnCount, configRefused, exit>>
    BY <1>4 DEF Fork
  <2>2. pc' \in {"drain", "forced", "refork"} \/ by' = "reload" => polling
    BY <1>4 DEF Fork, Judged, Unreloaded
  <2>3. pc' = "over" => pc = "over"
    BY <1>4 DEF Fork
  <2>4. ~polling \/ pc' = "over" => (Blamed' <=> Blamed)
    BY <1>4 DEF Fork, Blamed, Judged, Unreloaded
  <2>5. \A q \in Pids : (state'[q] = "failed" <=> state[q] = "failed")
                      /\ (state'[q] = "refused" <=> state[q] = "refused")
    BY <1>4 DEF Fork, TypeOK, Free
  <2> QED
    BY <2>1, <2>2, <2>3, <2>4, <2>5, JudgedFrame
<1>5. ASSUME Publish PROVE Judged'
  <2>1. UNCHANGED <<polling, crashes, refusals, respawnCount, configRefused, exit>>
    BY <1>5 DEF Publish
  <2>2. pc' \in {"drain", "forced", "refork"} \/ by' = "reload" => polling
    BY <1>5 DEF Publish, Judged, Unreloaded
  <2>3. pc' = "over" => pc = "over"
    BY <1>5 DEF Publish
  <2>4. ~polling \/ pc' = "over" => (Blamed' <=> Blamed)
    BY <1>5 DEF Publish, Blamed, Judged, Unreloaded
  <2>5. \A q \in Pids : (state'[q] = "failed" <=> state[q] = "failed")
                      /\ (state'[q] = "refused" <=> state[q] = "refused")
    BY <1>5 DEF Publish, TypeOK
  <2> QED
    BY <2>1, <2>2, <2>3, <2>4, <2>5, JudgedFrame
<1>6. ASSUME PassOn PROVE Judged'
  <2>1. UNCHANGED <<polling, crashes, refusals, respawnCount, configRefused, exit>>
    BY <1>6 DEF PassOn
  <2>2. pc' \in {"drain", "forced", "refork"} \/ by' = "reload" => polling
    BY <1>6 DEF PassOn, Judged, Unreloaded
  <2>3. pc' = "over" => pc = "over"
    BY <1>6 DEF PassOn
  <2>4. ~polling \/ pc' = "over" => (Blamed' <=> Blamed)
    BY <1>6 DEF PassOn, Blamed, Judged, Unreloaded
  <2>5. \A q \in Pids : (state'[q] = "failed" <=> state[q] = "failed")
                      /\ (state'[q] = "refused" <=> state[q] = "refused")
    BY <1>6 DEF PassOn, TypeOK
  <2> QED
    BY <2>1, <2>2, <2>3, <2>4, <2>5, JudgedFrame
<1>7. ASSUME Over PROVE Judged'
  <2>1. UNCHANGED <<polling, crashes, refusals, respawnCount, state, by, gaveUp, failedStopping,
                  configRefused>>
    BY <1>7 DEF Over
  <2>2. pc' = "over" /\ exit' = IF configRefused THEN 78 ELSE IF Blamed THEN 1 ELSE 0
    BY <1>7 DEF Over, Blamed
  <2>3. Unreloaded' /\ RefusalSeen'
    BY <2>1, <2>2 DEF Judged, Unreloaded, RefusalSeen
  <2>4. CrashSeen'
    BY <2>1 DEF Judged, CrashSeen, Failed, Blamed
  <2>5. Verdict'
    BY <2>1, <2>2 DEF Verdict, Blamed
  <2> QED
    BY <2>3, <2>4, <2>5 DEF Judged
<1>8. ASSUME KillLate PROVE Judged'
  <2>1. polling /\ UNCHANGED polling /\ pc' = "forced"
    BY <1>8 DEF KillLate, Judged, Unreloaded
  <2> QED
    BY <2>1 DEF Judged, Unreloaded, RefusalSeen, CrashSeen, Verdict
<1>9. ASSUME Refork PROVE Judged'
  <2>1. UNCHANGED <<polling, crashes, refusals, respawnCount, configRefused, exit>>
    BY <1>9 DEF Refork
  <2>2. pc' \in {"drain", "forced", "refork"} \/ by' = "reload" => polling
    BY <1>9 DEF Refork, Judged, Unreloaded
  <2>3. pc' = "over" => pc = "over"
    BY <1>9 DEF Refork
  <2>4. ~polling \/ pc' = "over" => (Blamed' <=> Blamed)
    BY <1>9 DEF Refork, Blamed, Judged, Unreloaded
  <2>5. \A q \in Pids : (state'[q] = "failed" <=> state[q] = "failed")
                      /\ (state'[q] = "refused" <=> state[q] = "refused")
    BY <1>9 DEF Refork, TypeOK
  <2> QED
    BY <2>1, <2>2, <2>3, <2>4, <2>5, JudgedFrame
<1>10. ASSUME Reload PROVE Judged'
  <2>1. UNCHANGED <<polling, crashes, refusals, respawnCount, configRefused, exit>>
    BY <1>10 DEF Reload
  <2>2. pc' \in {"drain", "forced", "refork"} \/ by' = "reload" => polling
    BY <1>10 DEF Reload, Judged, Unreloaded
  <2>3. pc' = "over" => pc = "over"
    BY <1>10 DEF Reload
  <2>4. ~polling \/ pc' = "over" => (Blamed' <=> Blamed)
    BY <1>10 DEF Reload, Blamed, Judged, Unreloaded
  <2>5. \A q \in Pids : (state'[q] = "failed" <=> state[q] = "failed")
                      /\ (state'[q] = "refused" <=> state[q] = "refused")
    BY <1>10 DEF Reload, TypeOK
  <2> QED
    BY <2>1, <2>2, <2>3, <2>4, <2>5, JudgedFrame
<1>11. ASSUME NEW p \in Pids, Deliver(p) PROVE Judged'
  <2>1. UNCHANGED <<polling, crashes, refusals, respawnCount, configRefused, exit>>
    BY <1>11 DEF Deliver, Dies
  <2>2. pc' \in {"drain", "forced", "refork"} \/ by' = "reload" => polling
    BY <1>11 DEF Deliver, Dies, Judged, Unreloaded
  <2>3. pc' = "over" => pc = "over"
    BY <1>11 DEF Deliver, Dies
  <2>4. ~polling \/ pc' = "over" => (Blamed' <=> Blamed)
    BY <1>11 DEF Deliver, Dies, Blamed, Judged, Unreloaded
  <2>5. \A q \in Pids : (state'[q] = "failed" <=> state[q] = "failed")
                      /\ (state'[q] = "refused" <=> state[q] = "refused")
    BY <1>11 DEF Deliver, Dies, TypeOK, Up
  <2> QED
    BY <2>1, <2>2, <2>3, <2>4, <2>5, JudgedFrame
<1>12. ASSUME NEW p \in Pids, Reset(p) PROVE Judged'
  <2>1. UNCHANGED <<polling, crashes, refusals, respawnCount, configRefused, exit>>
    BY <1>12 DEF Reset, Becomes, Alone
  <2>2. pc' \in {"drain", "forced", "refork"} \/ by' = "reload" => polling
    BY <1>12 DEF Reset, Becomes, Alone, Judged, Unreloaded
  <2>3. pc' = "over" => pc = "over"
    BY <1>12 DEF Reset, Becomes, Alone
  <2>4. ~polling \/ pc' = "over" => (Blamed' <=> Blamed)
    BY <1>12 DEF Reset, Becomes, Alone, Blamed, Judged, Unreloaded
  <2>5. \A q \in Pids : (state'[q] = "failed" <=> state[q] = "failed")
                      /\ (state'[q] = "refused" <=> state[q] = "refused")
    BY <1>12 DEF Reset, Becomes, Alone, TypeOK, Up
  <2> QED
    BY <2>1, <2>2, <2>3, <2>4, <2>5, JudgedFrame
<1>13. ASSUME NEW p \in Pids, Forget(p) PROVE Judged'
  <2>1. UNCHANGED <<polling, crashes, refusals, respawnCount, configRefused, exit>>
    BY <1>13 DEF Forget, Becomes, Alone, Dies
  <2>2. pc' \in {"drain", "forced", "refork"} \/ by' = "reload" => polling
    BY <1>13 DEF Forget, Becomes, Alone, Dies, Judged, Unreloaded
  <2>3. pc' = "over" => pc = "over"
    BY <1>13 DEF Forget, Becomes, Alone, Dies
  <2>4. ~polling \/ pc' = "over" => (Blamed' <=> Blamed)
    BY <1>13 DEF Forget, Becomes, Alone, Dies, Blamed, Judged, Unreloaded
  <2>5. \A q \in Pids : (state'[q] = "failed" <=> state[q] = "failed")
                      /\ (state'[q] = "refused" <=> state[q] = "refused")
    BY <1>13 DEF Forget, Becomes, Alone, Dies, TypeOK, Up
  <2> QED
    BY <2>1, <2>2, <2>3, <2>4, <2>5, JudgedFrame
<1>14. ASSUME NEW p \in Pids, Arm(p) PROVE Judged'
  <2>1. UNCHANGED <<polling, crashes, refusals, respawnCount, configRefused, exit>>
    BY <1>14 DEF Arm, Becomes, Alone
  <2>2. pc' \in {"drain", "forced", "refork"} \/ by' = "reload" => polling
    BY <1>14 DEF Arm, Becomes, Alone, Judged, Unreloaded
  <2>3. pc' = "over" => pc = "over"
    BY <1>14 DEF Arm, Becomes, Alone
  <2>4. ~polling \/ pc' = "over" => (Blamed' <=> Blamed)
    BY <1>14 DEF Arm, Becomes, Alone, Blamed, Judged, Unreloaded
  <2>5. \A q \in Pids : (state'[q] = "failed" <=> state[q] = "failed")
                      /\ (state'[q] = "refused" <=> state[q] = "refused")
    BY <1>14 DEF Arm, Becomes, Alone, TypeOK, Up
  <2> QED
    BY <2>1, <2>2, <2>3, <2>4, <2>5, JudgedFrame
<1>15. ASSUME NEW p \in Pids, Leave(p) PROVE Judged'
  <2>1. UNCHANGED <<polling, crashes, refusals, respawnCount, configRefused, exit>>
    BY <1>15 DEF Leave, Dies, Alone
  <2>2. pc' \in {"drain", "forced", "refork"} \/ by' = "reload" => polling
    BY <1>15 DEF Leave, Dies, Alone, Judged, Unreloaded
  <2>3. pc' = "over" => pc = "over"
    BY <1>15 DEF Leave, Dies, Alone
  <2>4. ~polling \/ pc' = "over" => (Blamed' <=> Blamed)
    BY <1>15 DEF Leave, Dies, Alone, Blamed, Judged, Unreloaded
  <2>5. \A q \in Pids : (state'[q] = "failed" <=> state[q] = "failed")
                      /\ (state'[q] = "refused" <=> state[q] = "refused")
    BY <1>15 DEF Leave, Dies, Alone, TypeOK, Up
  <2> QED
    BY <2>1, <2>2, <2>3, <2>4, <2>5, JudgedFrame
<1>16. ASSUME NEW p \in Pids, Crash(p) PROVE Judged'
  <2>1. pc # "over"
    <3>1. SUFFICES ASSUME pc = "over" PROVE FALSE
      OBVIOUS
    <3>2. index[p] \in Indices /\ childPids[index[p]] = p
      BY <1>16 DEF Crash, Listed, Up
    <3> QED
      BY <3>1, <3>2, NoneAlive, SupervisorAssumption DEF Awaited
  <2>2. /\ state[p] \in Up /\ state' = [state EXCEPT ![p] = "failed"] /\ crashes' = crashes + 1
        /\ UNCHANGED <<pc, by, polling, refusals, respawnCount, configRefused, gaveUp,
                       failedStopping>>
    BY <1>16 DEF Crash, Dies, Alone
  <2>3. Cardinality(Failed') = Cardinality(Failed) + 1
    BY <2>2, FailedMore DEF Up
  <2>4. Blamed' <=> Blamed
    BY <2>2 DEF Blamed
  <2>5. CrashSeen'
    BY <2>2, <2>3, <2>4, FailedFinite DEF Judged, CrashSeen, TypeOK
  <2>6. \A q \in Pids : state'[q] = "refused" <=> state[q] = "refused"
    BY <2>2 DEF TypeOK, Up
  <2> QED
    BY <2>1, <2>2, <2>5, <2>6 DEF Judged, Unreloaded, RefusalSeen, Verdict
<1>17. ASSUME NEW p \in Pids, Refuse(p) PROVE Judged'
  <2>1. pc # "over"
    <3>1. SUFFICES ASSUME pc = "over" PROVE FALSE
      OBVIOUS
    <3>2. index[p] \in Indices /\ childPids[index[p]] = p
      BY <1>17 DEF Refuse, Listed
    <3> QED
      BY <3>1, <3>2, NoneAlive, SupervisorAssumption DEF Awaited
  <2>2. /\ state[p] \in Up /\ state' = [state EXCEPT ![p] = "refused"]
        /\ refusals' = refusals + 1
        /\ UNCHANGED <<pc, by, polling, crashes, respawnCount, configRefused, gaveUp,
                       failedStopping>>
    BY <1>17 DEF Refuse, Dies, Alone, Up
  <2>3. Failed' = Failed
    BY <2>2 DEF Failed, TypeOK, Up
  <2>4. CrashSeen'
    BY <2>2, <2>3 DEF Judged, CrashSeen, Blamed
  <2>5. refusals' > 0 /\ state'[p] = "refused"
    BY <2>2 DEF TypeOK
  <2> QED
    BY <2>1, <2>2, <2>4, <2>5 DEF Judged, Unreloaded, RefusalSeen, Verdict
<1>18. ASSUME NEW p \in Pids, ReapClean(p) PROVE Judged'
  <2>1. UNCHANGED <<polling, crashes, refusals, respawnCount, configRefused, exit>>
    BY <1>18 DEF ReapClean, Reaps, Retired, Buried
  <2>2. pc' \in {"drain", "forced", "refork"} \/ by' = "reload" => polling
    BY <1>18 DEF ReapClean, Reaps, Retired, Buried, Judged, Unreloaded
  <2>3. pc' = "over" => pc = "over"
    BY <1>18 DEF ReapClean, Reaps, Retired, Buried
  <2>4. ~polling \/ pc' = "over" => (Blamed' <=> Blamed)
    BY <1>18 DEF ReapClean, Reaps, Retired, Buried, Blamed, Judged, Unreloaded
  <2>5. \A q \in Pids : (state'[q] = "failed" <=> state[q] = "failed")
                      /\ (state'[q] = "refused" <=> state[q] = "refused")
    BY <1>18 DEF ReapClean, Reaps, Retired, Buried, TypeOK
  <2> QED
    BY <2>1, <2>2, <2>3, <2>4, <2>5, JudgedFrame
<1>19. ASSUME NEW p \in Pids, ReapStopped(p) PROVE Judged'
  <2>1. UNCHANGED <<polling, crashes, refusals, respawnCount, configRefused, exit>>
    BY <1>19 DEF ReapStopped, Reaps, Buried
  <2>2. pc' \in {"drain", "forced", "refork"} \/ by' = "reload" => polling
    BY <1>19 DEF ReapStopped, Reaps, Buried, Judged, Unreloaded
  <2>3. pc' = "over" => pc = "over"
    BY <1>19 DEF ReapStopped, Reaps, Buried
  <2>4. ~polling \/ pc' = "over" => (Blamed' <=> Blamed)
    BY <1>19 DEF ReapStopped, Reaps, Buried, Blamed, Judged, Unreloaded
  <2>5. \A q \in Pids : (state'[q] = "failed" <=> state[q] = "failed")
                      /\ (state'[q] = "refused" <=> state[q] = "refused")
    BY <1>19 DEF ReapStopped, Reaps, Buried, TypeOK
  <2> QED
    BY <2>1, <2>2, <2>3, <2>4, <2>5, JudgedFrame
<1>20. ASSUME NEW p \in Pids, ReapRefused(p) PROVE Judged'
  <2>1. /\ state[p] = "refused" /\ Buried(p) /\ pc' = "rest" /\ configRefused'
        /\ UNCHANGED <<by, polling, crashes, refusals, respawnCount, gaveUp, failedStopping>>
    BY <1>20 DEF ReapRefused, Reaps
  <2>2. Failed' = Failed
    BY <2>1 DEF Failed, Buried, TypeOK
  <2>3. CrashSeen'
    BY <2>1, <2>2 DEF Judged, CrashSeen, Blamed
  <2>4. RefusalSeen'
    BY <2>1 DEF Judged, RefusalSeen
  <2> QED
    BY <2>1, <2>3, <2>4 DEF Judged, Unreloaded, Verdict
<1>21. ASSUME NEW p \in Pids, ReapStopping(p) PROVE Judged'
  <2>1. /\ state[p] = "failed" /\ Buried(p) /\ pc' = "wait" /\ failedStopping'
        /\ UNCHANGED <<by, polling, crashes, refusals, respawnCount, configRefused>>
    BY <1>21 DEF ReapStopping, Reaps, Retired
  <2>2. Cardinality(Failed') = Cardinality(Failed) - 1
    BY <2>1, FailedLess
  <2>3. CrashSeen'
    BY <2>1, <2>2, FailedFinite DEF Judged, CrashSeen, Blamed, TypeOK
  <2>4. \A q \in Pids : state'[q] = "refused" <=> state[q] = "refused"
    BY <2>1 DEF Buried, TypeOK
  <2> QED
    BY <2>1, <2>3, <2>4 DEF Judged, Unreloaded, RefusalSeen, Verdict
<1>22. ASSUME NEW p \in Pids, ReapGivesUp(p) PROVE Judged'
  <2>1. /\ state[p] = "failed" /\ Buried(p) /\ pc' = "wait" /\ gaveUp'
        /\ UNCHANGED <<by, polling, crashes, refusals, respawnCount, configRefused>>
    BY <1>22 DEF ReapGivesUp, Reaps, Retired
  <2>2. Cardinality(Failed') = Cardinality(Failed) - 1
    BY <2>1, FailedLess
  <2>3. CrashSeen'
    BY <2>1, <2>2, FailedFinite DEF Judged, CrashSeen, Blamed, TypeOK
  <2>4. \A q \in Pids : state'[q] = "refused" <=> state[q] = "refused"
    BY <2>1 DEF Buried, TypeOK
  <2> QED
    BY <2>1, <2>3, <2>4 DEF Judged, Unreloaded, RefusalSeen, Verdict
<1>23. ASSUME NEW p \in Pids, ReapRespawns(p) PROVE Judged'
  <2>1. /\ state[p] = "failed" /\ Buried(p) /\ pc' = "forking" /\ by' = "respawn"
        /\ respawnCount' = respawnCount + 1
        /\ UNCHANGED <<polling, crashes, refusals, configRefused, gaveUp, failedStopping>>
    BY <1>23 DEF ReapRespawns, Reaps
  <2>2. Cardinality(Failed') = Cardinality(Failed) - 1
    BY <2>1, FailedLess
  <2>3. Blamed' <=> Blamed
    BY <2>1 DEF Blamed
  <2>4. CrashSeen'
    BY <2>1, <2>2, <2>3, FailedFinite DEF Judged, CrashSeen, TypeOK
  <2>5. \A q \in Pids : state'[q] = "refused" <=> state[q] = "refused"
    BY <2>1 DEF Buried, TypeOK
  <2> QED
    BY <2>1, <2>4, <2>5 DEF Judged, Unreloaded, RefusalSeen, Verdict
<1>24. ASSUME NEW p \in Pids, ReapRest(p) PROVE Judged'
  <2>1. /\ pc = "rest" /\ Buried(p)
        /\ UNCHANGED <<pc, by, polling, crashes, refusals, respawnCount, gaveUp>>
    BY <1>24 DEF ReapRest
  <2>2. /\ configRefused' <=> configRefused \/ state[p] = "refused"
        /\ failedStopping' <=> failedStopping \/ state[p] = "failed"
    BY <1>24, Zenon DEF ReapRest
  <2>3. CrashSeen'
    <3>1. CASE state[p] = "failed"
      <4>1. Cardinality(Failed') = Cardinality(Failed) - 1
        BY <2>1, <3>1, FailedLess
      <4>2. Blamed'
        BY <2>2, <3>1 DEF Blamed
      <4> QED
        BY <2>1, <4>1, <4>2, FailedFinite DEF Judged, CrashSeen, TypeOK
    <3>2. CASE state[p] # "failed"
      <4>1. Failed' = Failed
        BY <2>1, <3>2 DEF Failed, Buried, TypeOK
      <4>2. Blamed' <=> Blamed
        BY <2>1, <2>2, <3>2 DEF Blamed
      <4> QED
        BY <2>1, <4>1, <4>2 DEF Judged, CrashSeen
    <3> QED
      BY <3>1, <3>2
  <2>4. RefusalSeen'
    <3>1. \A q \in Pids : state'[q] = "refused" <=> q # p /\ state[q] = "refused"
      BY <2>1 DEF Buried, TypeOK
    <3> QED
      BY <2>1, <2>2, <3>1 DEF Judged, RefusalSeen
  <2> QED
    BY <2>1, <2>3, <2>4 DEF Judged, Unreloaded, Verdict
<1>25. ASSUME NEW p \in Pids, ReapDrained(p) PROVE Judged'
  <2>1. polling /\ UNCHANGED <<polling, pc>> /\ pc # "over"
    BY <1>25 DEF ReapDrained, Judged, Unreloaded
  <2> QED
    BY <2>1 DEF Judged, Unreloaded, RefusalSeen, CrashSeen, Verdict
<1>26. CASE UNCHANGED vars
  <2>1. UNCHANGED <<polling, crashes, refusals, respawnCount, configRefused, exit>>
    BY <1>26 DEF vars
  <2>2. pc' \in {"drain", "forced", "refork"} \/ by' = "reload" => polling
    BY <1>26 DEF vars, Judged, Unreloaded
  <2>3. pc' = "over" => pc = "over"
    BY <1>26 DEF vars
  <2>4. ~polling \/ pc' = "over" => (Blamed' <=> Blamed)
    BY <1>26 DEF vars, Blamed, Judged, Unreloaded
  <2>5. \A q \in Pids : (state'[q] = "failed" <=> state[q] = "failed")
                      /\ (state'[q] = "refused" <=> state[q] = "refused")
    BY <1>26 DEF vars, TypeOK
  <2> QED
    BY <2>1, <2>2, <2>3, <2>4, <2>5, JudgedFrame
<1> QED
    BY <1>1, <1>2, <1>3, <1>4, <1>5, <1>6, <1>7, <1>8, <1>9, <1>10, <1>11, <1>12, <1>13, <1>14,
     <1>15, <1>16, <1>17, <1>18, <1>19, <1>20, <1>21, <1>22, <1>23, <1>24, <1>25, <1>26 DEF
     Next, SupStep, WorkerStep, Reap

\* The supervisor starts with nothing to judge.
LEMMA InitJudged == Adopted = {} /\ Init => Judged
<1> SUFFICES ASSUME Adopted = {}, Init PROVE Judged
  OBVIOUS
<1>1. \A p \in Pids : state[p] = "free"
  BY DEF Init
<1>2. Cardinality(Failed) = 0
  <2>1. Failed = {}
    BY <1>1 DEF Failed
  <2> QED
    BY <2>1, FS_EmptySet
<1>3. CrashSeen
  BY <1>2 DEF Init, CrashSeen, Blamed
<1> QED
  BY <1>1, <1>3 DEF Init, Judged, Unreloaded, RefusalSeen, Verdict

\* fork_all returns only when every worker is gone, and with 78 if some worker refused
\* its configuration, else 1 if some failure was not made good, else 0.
THEOREM EndsWell == Adopted = {} /\ Spec => []GoodEnd
<1>1. Inductive /\ Judged /\ [Next]_vars => Judged'
  BY JudgedStep DEF Inductive
<1>2. Adopted = {} /\ Spec => []Judged
  BY <1>1, InitJudged, Invariance, PTL DEF Spec
<1>3. ASSUME Inductive, Judged PROVE GoodEnd
  <2>1. ASSUME pc = "over", NEW p \in Pids PROVE state[p] = "free"
    <3>1. SUFFICES ASSUME state[p] # "free" PROVE FALSE
      OBVIOUS
    <3>2. index[p] \in Indices /\ childPids[index[p]] = p
      BY <1>3, <3>1 DEF Inductive, Listed
    <3>3. childPids[index[p]] = None
      BY <1>3, <2>1, <3>2, NoneAlive DEF Inductive, Awaited
    <3> QED
      BY <3>2, <3>3, SupervisorAssumption
  <2>2. NoOrphan
    BY <2>1 DEF NoOrphan, Up
  <2>3. ASSUME pc = "over", ~polling
        PROVE  exit = IF refusals > 0 THEN 78 ELSE IF crashes > respawnCount THEN 1 ELSE 0
    <3>1. Failed = {}
      BY <2>1, <2>3 DEF Failed
    <3>2. Cardinality(Failed) = 0
      BY <3>1, FS_EmptySet
    <3>3. Blamed <=> crashes > respawnCount
      BY <1>3, <2>3, <3>2 DEF Inductive, TypeOK, Judged, CrashSeen
    <3>4. configRefused <=> refusals > 0
      BY <1>3, <2>1, <2>3 DEF Judged, RefusalSeen
    <3> QED
      BY <1>3, <2>3, <3>3, <3>4 DEF Judged, Verdict
  <2> QED
    BY <2>2, <2>3 DEF GoodEnd, ExitTells
<1> QED
  BY <1>2, <1>3, Invariance, PTL
=============================================================================
