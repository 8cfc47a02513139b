-------------------------- MODULE AcceptShareProofs --------------------------
(***************************************************************************)
(* What holds of AcceptShare for every number of workers, connections,     *)
(* deaths, respawns and reloads: the count of a worker's hand-offs is      *)
(* never below what is in flight to it, and the leave handshake therefore  *)
(* strands no connection on a channel that will not be read again; while   *)
(* no process is killed the count is exact, and every drain ends; and each *)
(* connection is in one place at a time, and is handed on no oftener than  *)
(* there are workers.                                                      *)
(***************************************************************************)
EXTENDS AcceptShare, FiniteSetTheorems, SequenceTheorems, TLAPS

-----------------------------------------------------------------------------
(* The inductive invariant, in parts.                                      *)

\* Where a worker is in its code, against what its locals and words hold.
Flow ==
  \A w \in Workers :
    /\ pc[w] = "off" <=> proc[w] # "up"
    /\ pc[w] \in {"off"} \cup Starting => phase[w] = "run" /\ drained[w] = 0
    /\ pc[w] \in {"endTake", "endRetire"} => phase[w] # "begin"
    /\ pc[w] = "drain" => Left(w)
    /\ pc[w] \in {"raise"} \cup Raised => hand[w] \in Conns /\ target[w] \in Workers
    /\ pc[w] = "route" => hand[w] \in Conns

\* `taken` never exceeds what its process has received, and is 0 by the time
\* that is retired: a death gives back no more than was counted.
TakenWithin ==
  \A w \in Workers :
    /\ pc[w] \in Running => taken[w] <= drained[w]
    /\ pc[w] \in {"startRetire", "endRetire"} => taken[w] = 0

\* The supervisor drains only an index it has reaped.
Reaping ==
  /\ supPc \in {"decide", "drain", "retireTake", "retire"} =>
       supWorker \in Workers /\ proc[supWorker] = "lost"
  /\ supPc \notin {"drain", "retireTake", "retire"} => supReceived = 0 /\ supTook = 0

\* A loop's connections can be counted (pass_end publishes their number).
HeldFinite == \A w \in Workers : IsFiniteSet(held[w])

\* What Next preserves: the three properties, and what their steps rest on.
Inductive ==
  /\ TypeOK /\ HeldFinite /\ Flow /\ TakenWithin /\ Reaping
  /\ PendingCovers /\ LeaverIsMarked /\ NothingStranded

-----------------------------------------------------------------------------

\* The initial state is well typed.
LEMMA InitType == Init => TypeOK
<1> SUFFICES ASSUME Init PROVE TypeOK
  OBVIOUS
<1> USE DEF Init
<1>1. PageType
  BY DEF PageType, PageStates
<1>2. LocalsType
  BY DEF LocalsType, Starting, Running, Phases
<1>3. KernelType
  <2>1. <<>> \in Seq(Conns)
    OBVIOUS
  <2> QED
    BY <2>1 DEF KernelType
<1>4. SupType /\ ProcsType /\ HistoryType
  BY DEF SupType, ProcsType, HistoryType, SupPcs
<1> QED
  BY <1>1, <1>2, <1>3, <1>4 DEF TypeOK

\* A SIGTERM to some workers sets booleans.
LEMMA SignalType ==
  ASSUME NEW S, Signalled(S)
  PROVE  term' \in [Workers -> BOOLEAN]
BY DEF Signalled

\* Every step keeps the types; Flow says what the raise and the post of
\* send_with hold in hand.
LEMMA TypeStep == TypeOK /\ HeldFinite /\ Flow /\ Reaping /\ [Next]_vars => TypeOK'
<1> SUFFICES ASSUME TypeOK, HeldFinite, Flow, Reaping, [Next]_vars PROVE TypeOK'
  OBVIOUS
<1> USE DEF page, locals, kernel, supLocal, procs, history, TypeOK
<1>1. ASSUME NEW w \in Workers, Bind(w) PROVE TypeOK'
  BY <1>1 DEF Bind, Go, PageType, PageStates, LocalsType, Starting, Raised, Running,
       Phases, KernelType, SupType, SupPcs, ProcsType, Dead, Vacant, HistoryType
<1>2. ASSUME NEW w \in Workers, StartPark(w) PROVE TypeOK'
  BY <1>2 DEF StartPark, Go, PageType, PageStates, LocalsType, Starting, Raised, Running,
       Phases, KernelType, SupType, SupPcs, ProcsType, Dead, Vacant, HistoryType
<1>3. ASSUME NEW w \in Workers, StartTake(w) PROVE TypeOK'
  BY <1>3 DEF StartTake, Go, PageType, PageStates, LocalsType, Starting, Raised, Running,
       Phases, KernelType, SupType, SupPcs, ProcsType, Dead, Vacant, HistoryType
<1>4. ASSUME NEW w \in Workers, StartRetire(w) PROVE TypeOK'
  <2>1. pending[w] - took[w] \in Int
    BY <1>4 DEF PageType, LocalsType, Starting, Raised, Running, Phases, KernelType
  <2>2. PageType'
    BY <1>4, <2>1 DEF StartRetire, Go, PageType, PageStates
  <2>3. LocalsType'
    BY <1>4, <2>1 DEF StartRetire, Go, LocalsType, Starting, Raised, Running, Phases
  <2>4. KernelType' /\ SupType' /\ ProcsType' /\ HistoryType'
    BY <1>4, <2>1 DEF StartRetire, Go, KernelType, SupType, SupPcs, ProcsType, Dead,
         Vacant, HistoryType
  <2> QED
    BY <2>2, <2>3, <2>4
<1>5. ASSUME NEW w \in Workers, NEW S \in SUBSET held[w], PassBegin(w, S) PROVE TypeOK'
  BY <1>5 DEF PassBegin, Go, Ends, PageType, PageStates, LocalsType, Starting, Raised,
       Running, Phases, KernelType, SupType, SupPcs, ProcsType, Dead, Vacant, HistoryType
<1>6. ASSUME NEW w \in Workers, NEW c \in Conns, NEW t \in Workers, Accept(w, c, t)
         PROVE TypeOK'
  <2>1. LocalsType'
    BY <1>6 DEF Accept, Go, LocalsType, Starting, Raised, Running, Phases
  <2>2. KernelType'
    BY <1>6 DEF Accept, Go, KernelType
  <2>3. PageType' /\ SupType' /\ ProcsType' /\ HistoryType'
    BY <1>6 DEF Accept, Go, PageType, PageStates, SupType, SupPcs, ProcsType, Dead,
         Vacant, HistoryType
  <2> QED
    BY <2>1, <2>2, <2>3
<1>7. ASSUME NEW w \in Workers, AcceptDone(w) PROVE TypeOK'
  BY <1>7 DEF AcceptDone, Go, PageType, PageStates, LocalsType, Starting, Raised, Running,
       Phases, KernelType, SupType, SupPcs, ProcsType, Dead, Vacant, HistoryType
<1>8. ASSUME NEW w \in Workers, SendRaise(w) PROVE TypeOK'
  <2>1. hand[w] \in Conns /\ target[w] \in Workers
    BY <1>8 DEF SendRaise, Go, Flow, LocalsType, Starting, Raised, Running, Phases,
         KernelType
  <2>2. PageType'
    BY <1>8, <2>1 DEF SendRaise, Go, PageType, PageStates
  <2>3. LocalsType' /\ KernelType' /\ SupType' /\ ProcsType' /\ HistoryType'
    BY <1>8, <2>1 DEF SendRaise, Go, LocalsType, Starting, Raised, Running, Phases,
         KernelType, SupType, SupPcs, ProcsType, Dead, Vacant, HistoryType
  <2> QED
    BY <2>2, <2>3
<1>9. ASSUME NEW w \in Workers, SendRecheck(w) PROVE TypeOK'
  BY <1>9 DEF SendRecheck, Go, PageType, PageStates, LocalsType, Starting, Raised,
       Running, Phases, KernelType, SupType, SupPcs, ProcsType, Dead, Vacant, HistoryType
<1>10. ASSUME NEW w \in Workers, SendPost(w) PROVE TypeOK'
  <2>1. hand[w] \in Conns /\ target[w] \in Workers
    BY <1>10 DEF SendPost, Go, Flow, LocalsType, Starting, Raised, Running, Phases,
         KernelType
  <2>2. Append(chan[target[w]], hand[w]) \in Seq(Conns)
    BY <1>10, <2>1 DEF Flow, LocalsType, Starting, Raised, Running, Phases, KernelType
  <2>3. KernelType'
    BY <1>10, <2>1, <2>2 DEF SendPost, Go, Resume, KernelType
  <2>4. HistoryType'
    BY <1>10, <2>1, <2>2 DEF SendPost, Go, Resume, HistoryType
  <2>5. LocalsType'
    BY <1>10, <2>1, <2>2 DEF SendPost, Go, Resume, LocalsType, Starting, Raised, Running,
         Phases
  <2>6. PageType'
    BY <1>10, <2>1, <2>2 DEF SendPost, Go, Resume, PageType, PageStates
  <2>7. SupType' /\ ProcsType'
    BY <1>10, <2>1, <2>2 DEF SendPost, Go, Resume, SupType, SupPcs, ProcsType, Dead, Vacant
  <2> QED
    BY <2>3, <2>4, <2>5, <2>6, <2>7
<1>11. ASSUME NEW w \in Workers, SendFails(w) PROVE TypeOK'
  BY <1>11 DEF SendFails, Go, PageType, PageStates, LocalsType, Starting, Raised, Running,
       Phases, KernelType, SupType, SupPcs, ProcsType, Dead, Vacant, HistoryType
<1>12. ASSUME NEW w \in Workers, SendTakeBack(w) PROVE TypeOK'
  <2>1. hand[w] \in Conns /\ target[w] \in Workers
    BY <1>12 DEF SendTakeBack, Go, Flow, LocalsType, Starting, Raised, Running, Phases,
         KernelType
  <2>2. PageType'
    BY <1>12, <2>1 DEF SendTakeBack, Go, Resume, PageType, PageStates
  <2>3. LocalsType'
    BY <1>12, <2>1 DEF SendTakeBack, Go, Resume, LocalsType, Starting, Raised, Running,
         Phases
  <2>4. KernelType' /\ SupType' /\ ProcsType' /\ HistoryType'
    BY <1>12, <2>1 DEF SendTakeBack, Go, Resume, KernelType, SupType, SupPcs, ProcsType,
         Dead, Vacant, HistoryType
  <2> QED
    BY <2>2, <2>3, <2>4
<1>13. ASSUME NEW w \in Workers, Receive(w) PROVE TypeOK'
  <2>1. Len(chan[w]) > 0
    BY <1>13 DEF Receive, LocalsType, Starting, Raised, Running, Phases, KernelType
  <2>2. drained[w] + 1 \in Nat
    BY <1>13, <2>1 DEF LocalsType, LocalsType, Starting, Raised, Running, Phases, KernelType
  <2>3. Head(chan[w]) \in Conns /\ Tail(chan[w]) \in Seq(Conns)
    BY <1>13, <2>1, <2>2 DEF Receive, LocalsType, Starting, Raised, Running, Phases,
         KernelType
  <2>4. LocalsType'
    BY <1>13, <2>1, <2>2, <2>3 DEF Receive, Go, LocalsType, Starting, Raised, Running,
         Phases
  <2>5. KernelType'
    BY <1>13, <2>1, <2>2, <2>3 DEF Receive, Go, KernelType
  <2>6. PageType' /\ SupType' /\ ProcsType' /\ HistoryType'
    BY <1>13, <2>1, <2>2, <2>3 DEF Receive, Go, PageType, PageStates, SupType, SupPcs,
         ProcsType, Dead, Vacant, HistoryType
  <2> QED
    BY <2>4, <2>5, <2>6
<1>14. ASSUME NEW w \in Workers, Publish(w) PROVE TypeOK'
  <2>1. drained[w] \in Nat
    BY <1>14 DEF LocalsType, LocalsType, Starting, Raised, Running, Phases, KernelType
  <2>2. Kept(w) \subseteq Conns
    BY <1>14, <2>1 DEF Kept, LocalsType, Starting, Raised, Running, Phases, KernelType
  <2>3. PageType'
    BY <1>14, <2>1, <2>2 DEF Publish, Go, PageType, PageStates
  <2>4. LocalsType'
    BY <1>14, <2>1, <2>2 DEF Publish, Go, LocalsType, Starting, Raised, Running, Phases
  <2>5. KernelType' /\ SupType' /\ ProcsType' /\ HistoryType'
    BY <1>14, <2>1, <2>2 DEF Publish, Go, KernelType, SupType, SupPcs, ProcsType, Dead,
         Vacant, HistoryType
  <2> QED
    BY <2>3, <2>4, <2>5
<1>15. ASSUME NEW w \in Workers, NEW t \in Workers, Route(w, t) PROVE TypeOK'
  <2>1. hand[w] \in Conns
    BY <1>15 DEF Route, Go, Flow, LocalsType, Starting, Raised, Running, Phases, KernelType
  <2>2. LocalsType'
    BY <1>15, <2>1 DEF Route, Go, LocalsType, Starting, Raised, Running, Phases
  <2>3. PageType' /\ KernelType' /\ SupType' /\ ProcsType' /\ HistoryType'
    BY <1>15, <2>1 DEF Route, Go, PageType, PageStates, KernelType, SupType, SupPcs,
         ProcsType, Dead, Vacant, HistoryType
  <2> QED
    BY <2>2, <2>3
<1>16. ASSUME NEW w \in Workers, NEW S \in SUBSET held[w], HandoffsDone(w, S) PROVE TypeOK'
  BY <1>16 DEF HandoffsDone, Go, Ends, PageType, PageStates, LocalsType, Starting, Raised,
       Running, Phases, KernelType, SupType, SupPcs, ProcsType, Dead, Vacant, HistoryType
<1>17. ASSUME NEW w \in Workers, EndTake(w) PROVE TypeOK'
  <2>1. Cardinality(held[w]) \in Nat
    BY <1>17, FS_CardinalityType DEF HeldFinite
  <2>2. PageType'
    BY <1>17, <2>1 DEF EndTake, Go, PageType, PageStates
  <2>3. LocalsType' /\ KernelType' /\ SupType' /\ ProcsType' /\ HistoryType'
    BY <1>17, <2>1 DEF EndTake, Go, LocalsType, Starting, Raised, Running, Phases,
         KernelType, SupType, SupPcs, ProcsType, Dead, Vacant, HistoryType
  <2> QED
    BY <2>2, <2>3
<1>18. ASSUME NEW w \in Workers, EndRetire(w) PROVE TypeOK'
  <2>1. phase[w] \in {"run", "stop", "drain"}
    BY <1>18 DEF EndRetire, Go, Flow, LocalsType, Starting, Raised, Running, Phases,
         KernelType
  <2>2. Floor(pending[w] - drained[w]) \in Int
    BY <1>18, <2>1 DEF Floor, PageType, LocalsType, Starting, Raised, Running, Phases,
         KernelType
  <2>3. PageType'
    BY <1>18, <2>1, <2>2 DEF EndRetire, Go, PageType, PageStates
  <2>4. LocalsType'
    BY <1>18, <2>1, <2>2 DEF EndRetire, Go, LocalsType, Starting, Raised, Running, Phases
  <2>5. KernelType' /\ SupType' /\ ProcsType' /\ HistoryType'
    BY <1>18, <2>1, <2>2 DEF EndRetire, Go, KernelType, SupType, SupPcs, ProcsType, Dead,
         Vacant, HistoryType
  <2> QED
    BY <2>3, <2>4, <2>5
<1>19. ASSUME NEW w \in Workers, Leave(w) PROVE TypeOK'
  BY <1>19 DEF Leave, Go, PageType, PageStates, LocalsType, Starting, Raised, Running,
       Phases, KernelType, SupType, SupPcs, ProcsType, Dead, Vacant, HistoryType
<1>20. ASSUME NEW w \in Workers, DrainOver(w) PROVE TypeOK'
  BY <1>20 DEF DrainOver, Go, PageType, PageStates, LocalsType, Starting, Raised, Running,
       Phases, KernelType, SupType, SupPcs, ProcsType, Dead, Vacant, HistoryType
<1>21. ASSUME NEW w \in Workers, DrainExpires(w) PROVE TypeOK'
  BY <1>21 DEF DrainExpires, Go, PageType, PageStates, LocalsType, Starting, Raised,
       Running, Phases, KernelType, SupType, SupPcs, ProcsType, Dead, Vacant, HistoryType
<1>22. ASSUME NEW w \in Workers, NEW S \in SUBSET held[w], DrainPass(w, S) PROVE TypeOK'
  BY <1>22 DEF DrainPass, Go, Ends, PageType, PageStates, LocalsType, Starting, Raised,
       Running, Phases, KernelType, SupType, SupPcs, ProcsType, Dead, Vacant, HistoryType
<1>23. ASSUME NEW w \in Workers, Exit(w) PROVE TypeOK'
  <2>1. held[w] \cup Kept(w) \subseteq Conns
    BY <1>23 DEF Kept, LocalsType, Starting, Raised, Running, Phases, KernelType
  <2>2. Floor(pending[w] - drained[w]) \in Int
    BY <1>23, <2>1 DEF Floor, PageType, LocalsType, Starting, Raised, Running, Phases,
         KernelType
  <2>3. PageType'
    BY <1>23, <2>1, <2>2 DEF Exit, ProcessEnds, PageType, PageStates
  <2>4. LocalsType'
    BY <1>23, <2>1, <2>2 DEF Exit, ProcessEnds, LocalsType, Starting, Raised, Running,
         Phases
  <2>5. KernelType'
    BY <1>23, <2>1, <2>2 DEF Exit, ProcessEnds, KernelType
  <2>6. ProcsType'
    BY <1>23, <2>1, <2>2 DEF Exit, ProcessEnds, ProcsType, Dead, Vacant
  <2>7. SupType' /\ HistoryType'
    BY <1>23, <2>1, <2>2 DEF Exit, ProcessEnds, SupType, SupPcs, HistoryType
  <2> QED
    BY <2>3, <2>4, <2>5, <2>6, <2>7
<1>24. ASSUME NEW w \in Workers, Declines(w) PROVE TypeOK'
  BY <1>24 DEF Declines, ProcessEnds, Kept, PageType, PageStates, LocalsType, Starting,
       Raised, Running, Phases, KernelType, SupType, SupPcs, ProcsType, Dead, Vacant,
       HistoryType
<1>25. ASSUME NEW w \in Workers, StoppedUnarmed(w) PROVE TypeOK'
  BY <1>25 DEF StoppedUnarmed, ProcessEnds, Kept, PageType, PageStates, LocalsType,
       Starting, Raised, Running, Phases, KernelType, SupType, SupPcs, ProcsType, Dead,
       Vacant, HistoryType
<1>26. ASSUME NEW w \in Workers, RefusesConfig(w) PROVE TypeOK'
  BY <1>26 DEF RefusesConfig, ProcessEnds, Kept, PageType, PageStates, LocalsType,
       Starting, Raised, Running, Phases, KernelType, SupType, SupPcs, ProcsType, Dead,
       Vacant, HistoryType
<1>27. ASSUME NEW w \in Workers, Killed(w) PROVE TypeOK'
  <2>1. held[w] \cup Kept(w) \subseteq Conns
    BY <1>27 DEF Kept, LocalsType, Starting, Raised, Running, Phases, KernelType
  <2>2. LocalsType'
    BY <1>27, <2>1 DEF Killed, ProcessEnds, LocalsType, Starting, Raised, Running, Phases
  <2>3. KernelType'
    BY <1>27, <2>1 DEF Killed, ProcessEnds, KernelType
  <2>4. ProcsType'
    BY <1>27, <2>1 DEF Killed, ProcessEnds, ProcsType, Dead, Vacant
  <2>5. HistoryType'
    BY <1>27, <2>1 DEF Killed, ProcessEnds, HistoryType
  <2>6. PageType' /\ SupType'
    BY <1>27, <2>1 DEF Killed, ProcessEnds, PageType, PageStates, SupType, SupPcs
  <2> QED
    BY <2>2, <2>3, <2>4, <2>5, <2>6
<1>28. ASSUME StopServer PROVE TypeOK'
  <2>1. PageType' /\ LocalsType' /\ KernelType' /\ HistoryType'
    BY <1>28 DEF StopServer, PageType, LocalsType, KernelType, HistoryType
  <2>2. SupType'
    BY <1>28 DEF StopServer, SupType, SupPcs
  <2>3. term' \in [Workers -> BOOLEAN]
    BY <1>28, SignalType DEF StopServer
  <2>4. ProcsType'
    BY <1>28, <2>3 DEF StopServer, ProcsType
  <2> QED
    BY <2>1, <2>2, <2>4
<1>29. ASSUME NEW w \in Workers, StopOne(w) PROVE TypeOK'
  <2>1. PageType' /\ LocalsType' /\ KernelType' /\ HistoryType'
    BY <1>29 DEF StopOne, PageType, LocalsType, KernelType, HistoryType
  <2>2. SupType'
    BY <1>29 DEF StopOne, SupType, SupPcs
  <2>3. term' \in [Workers -> BOOLEAN]
    BY <1>29, SignalType DEF StopOne
  <2>4. ProcsType'
    BY <1>29, <2>3 DEF StopOne, ProcsType
  <2> QED
    BY <2>1, <2>2, <2>4
<1>30. ASSUME NEW w \in Workers, Reap(w) PROVE TypeOK'
  <2>1. PageType'
    BY <1>30 DEF Reap, PageType, PageStates
  <2>2. LocalsType' /\ KernelType' /\ HistoryType'
    BY <1>30 DEF Reap, LocalsType, KernelType, HistoryType
  <2>3. supPc' \in SupPcs /\ supWorker' \in Workers \cup {None}
    BY <1>30 DEF Reap, SupType, SupPcs
  <2>4. SupType'
    BY <1>30, <2>3 DEF Reap, SupType
  <2>5. term' \in [Workers -> BOOLEAN]
    BY <1>30, SignalType DEF Reap, ProcsType
  <2>6. ProcsType'
    BY <1>30, <2>5 DEF Reap, ProcsType, Vacant
  <2> QED
    BY <2>1, <2>2, <2>4, <2>6
<1>31. ASSUME DeclineRespawn PROVE TypeOK'
  BY <1>31 DEF DeclineRespawn, PageType, PageStates, LocalsType, Starting, Raised,
       Running, Phases, KernelType, SupType, SupPcs, ProcsType, Dead, Vacant, HistoryType
<1>32. ASSUME Respawn PROVE TypeOK'
  <2>1. supWorker \in Workers
    BY <1>32 DEF Respawn, Reaping, LocalsType, Starting, Raised, Running, Phases, KernelType
  <2>2. stopping \in BOOLEAN
    BY <1>32, <2>1 DEF SupType, LocalsType, Starting, Raised, Running, Phases, KernelType
  <2>3. LocalsType'
    BY <1>32, <2>1, <2>2 DEF Respawn, Fork, LocalsType, Starting, Raised, Running, Phases
  <2>4. ProcsType'
    BY <1>32, <2>1, <2>2 DEF Respawn, Fork, ProcsType, Dead, Vacant
  <2>5. SupType'
    BY <1>32, <2>1, <2>2 DEF Respawn, Fork, SupType, SupPcs
  <2>6. PageType' /\ KernelType' /\ HistoryType'
    BY <1>32, <2>1, <2>2 DEF Respawn, Fork, PageType, PageStates, KernelType, HistoryType
  <2> QED
    BY <2>3, <2>4, <2>5, <2>6
<1>33. ASSUME GiveUp PROVE TypeOK'
  BY <1>33 DEF GiveUp, PageType, PageStates, LocalsType, Starting, Raised, Running,
       Phases, KernelType, SupType, SupPcs, ProcsType, Dead, Vacant, HistoryType
<1>34. ASSUME CloseReaped PROVE TypeOK'
  <2>1. supWorker \in Workers
    BY <1>34 DEF CloseReaped, Reaping, LocalsType, Starting, Raised, Running, Phases,
         KernelType
  <2>2. Head(chan[supWorker]) \in Conns /\ Tail(chan[supWorker]) \in Seq(Conns)
    BY <1>34, <2>1 DEF CloseReaped, LocalsType, Starting, Raised, Running, Phases,
         KernelType
  <2>3. KernelType'
    BY <1>34, <2>1, <2>2 DEF CloseReaped, KernelType
  <2>4. SupType'
    BY <1>34, <2>1, <2>2 DEF CloseReaped, SupType, SupPcs
  <2>5. PageType' /\ LocalsType' /\ ProcsType' /\ HistoryType'
    BY <1>34, <2>1, <2>2 DEF CloseReaped, PageType, PageStates, LocalsType, Starting,
         Raised, Running, Phases, ProcsType, Dead, Vacant, HistoryType
  <2> QED
    BY <2>3, <2>4, <2>5
<1>35. ASSUME CloseReapedEnds PROVE TypeOK'
  BY <1>35 DEF CloseReapedEnds, ReapedSettled, PageType, PageStates, LocalsType, Starting,
       Raised, Running, Phases, KernelType, SupType, SupPcs, ProcsType, Dead, Vacant,
       HistoryType
<1>36. ASSUME CloseReapedTake PROVE TypeOK'
  BY <1>36 DEF CloseReapedTake, Reaping, PageType, PageStates, LocalsType, Starting,
       Raised, Running, Phases, KernelType, SupType, SupPcs, ProcsType, Dead, Vacant,
       HistoryType
<1>37. ASSUME CloseReapedRetire PROVE TypeOK'
  <2>1. LocalsType' /\ KernelType' /\ HistoryType'
    BY <1>37 DEF CloseReapedRetire, LocalsType, KernelType, HistoryType
  <2>2. SupType' /\ ProcsType'
    BY <1>37 DEF CloseReapedRetire, SupType, SupPcs, ProcsType, Vacant
  <2>3. PageType'
    <3>1. \A n \in Int : Floor(n) \in Int
      BY DEF Floor
    <3>2. PICK u \in Workers : u = supWorker
      BY <1>37 DEF CloseReapedRetire, Reaping
    <3>3. Floor(pending[u] - (supTook + supReceived)) \in Int
      BY <3>1 DEF PageType, SupType
    <3> QED
      BY <1>37, <3>2, <3>3 DEF CloseReapedRetire, PageType
  <2> QED
    BY <2>1, <2>2, <2>3
<1>38. ASSUME ReloadBegin PROVE TypeOK'
  <2>1. PageType' /\ LocalsType' /\ KernelType' /\ HistoryType'
    BY <1>38 DEF ReloadBegin, PageType, LocalsType, KernelType, HistoryType
  <2>2. SupType'
    BY <1>38 DEF ReloadBegin, SupType, SupPcs
  <2>3. term' \in [Workers -> BOOLEAN]
    BY <1>38, SignalType DEF ReloadBegin
  <2>4. ProcsType'
    BY <1>38, <2>3 DEF ReloadBegin, ProcsType
  <2> QED
    BY <2>1, <2>2, <2>4
<1>39. ASSUME ReloadFork PROVE TypeOK'
  <2>1. PageType' /\ KernelType' /\ HistoryType'
    <3>1. UNCHANGED page /\ UNCHANGED kernel /\ UNCHANGED history
      BY <1>39 DEF ReloadFork
    <3> QED
      BY <3>1 DEF PageType, KernelType, HistoryType
  <2>2. SupType'
    BY <1>39 DEF ReloadFork, SupType, SupPcs
  <2>3. pc' = [w \in Workers |-> "forked"] /\ proc' = [w \in Workers |-> "up"]
    BY <1>39 DEF ReloadFork, Fork
  <2>4. /\ term' = [w \in Workers |-> stopping]
        /\ expired' = [w \in Workers |-> FALSE]
    BY <1>39 DEF ReloadFork, Fork
  <2>5. LocalsType'
    BY <1>39, <2>3 DEF ReloadFork, LocalsType, Starting
  <2>6. ProcsType'
    BY <2>3, <2>4 DEF ProcsType, SupType
  <2> QED
    BY <2>1, <2>2, <2>5, <2>6
<1>40. ASSUME ServerEnds PROVE TypeOK'
  <2>1. Queued \subseteq Conns
    BY <1>40 DEF Queued, LocalsType, Starting, Raised, Running, Phases, KernelType
  <2>2. [w \in Workers |-> <<>>] \in [Workers -> Seq(Conns)]
    BY <1>40, <2>1
  <2>3. KernelType'
    BY <1>40, <2>1, <2>2 DEF ServerEnds, KernelType
  <2>4. PageType' /\ LocalsType' /\ SupType' /\ ProcsType' /\ HistoryType'
    BY <1>40, <2>1, <2>2 DEF ServerEnds, PageType, PageStates, LocalsType, Starting,
         Raised, Running, Phases, SupType, SupPcs, ProcsType, Dead, Vacant, HistoryType
  <2> QED
    BY <2>3, <2>4
<1>41. CASE UNCHANGED vars
  BY <1>41 DEF vars, PageType, PageStates, LocalsType, Starting, Raised, Running, Phases,
       KernelType, SupType, SupPcs, ProcsType, Dead, Vacant, HistoryType
<1>42. ASSUME NEW w \in Workers, Worker(w) PROVE TypeOK'
  BY <1>42, <1>1, <1>2, <1>3, <1>4, <1>5, <1>6, <1>7, <1>8, <1>9, <1>10, <1>11, <1>12,
       <1>13, <1>14, <1>15, <1>16, <1>17, <1>18, <1>19, <1>20, <1>21, <1>22, <1>23, <1>24,
       <1>25 DEF Worker, Start, Send, Doors, Rounds, Drain, Ending
<1>43. CASE Supervisor
  BY <1>43, <1>30, <1>31, <1>32, <1>33, <1>34, <1>35, <1>36, <1>37, <1>39, <1>40
       DEF Supervisor
<1>44. CASE Environment
  BY <1>44, <1>26, <1>27, <1>28, <1>29, <1>38 DEF Environment
<1> QED
  BY <1>41, <1>42, <1>43, <1>44 DEF Next

\* A worker's place in its code agrees with its process, its shutdown's
\* phase and what it has in hand.
LEMMA FlowStep ==
  TypeOK /\ Flow /\ Reaping /\ [Next]_vars
    => Flow'
<1> SUFFICES ASSUME TypeOK, Flow, Reaping, [Next]_vars PROVE Flow'
  OBVIOUS
<1> USE DEF page, locals, kernel, supLocal, procs, history, Flow, TypeOK, LocalsType,
         ProcsType, Starting, Raised, Running, Left, Phases
<1>1. ASSUME NEW w \in Workers, Bind(w) PROVE Flow'
  BY <1>1 DEF Bind, Go
<1>2. ASSUME NEW w \in Workers, StartPark(w) PROVE Flow'
  BY <1>2 DEF StartPark, Go
<1>3. ASSUME NEW w \in Workers, StartTake(w) PROVE Flow'
  BY <1>3 DEF StartTake, Go
<1>4. ASSUME NEW w \in Workers, StartRetire(w) PROVE Flow'
  BY <1>4 DEF StartRetire, Go
<1>5. ASSUME NEW w \in Workers, NEW S \in SUBSET held[w], PassBegin(w, S) PROVE Flow'
  BY <1>5 DEF PassBegin, Go, Ends
<1>6. ASSUME NEW w \in Workers, NEW c \in Conns, NEW t \in Workers, Accept(w, c, t)
         PROVE Flow'
  BY <1>6 DEF Accept, Go
<1>7. ASSUME NEW w \in Workers, AcceptDone(w) PROVE Flow'
  BY <1>7 DEF AcceptDone, Go
<1>8. ASSUME NEW w \in Workers, SendRaise(w) PROVE Flow'
  BY <1>8 DEF SendRaise, Go
<1>9. ASSUME NEW w \in Workers, SendRecheck(w) PROVE Flow'
  BY <1>9 DEF SendRecheck, Go
<1>10. ASSUME NEW w \in Workers, SendPost(w) PROVE Flow'
  BY <1>10 DEF SendPost, Go, Resume
<1>11. ASSUME NEW w \in Workers, SendFails(w) PROVE Flow'
  BY <1>11 DEF SendFails, Go
<1>12. ASSUME NEW w \in Workers, SendTakeBack(w) PROVE Flow'
  BY <1>12 DEF SendTakeBack, Go, Resume
<1>13. ASSUME NEW w \in Workers, Receive(w) PROVE Flow'
  BY <1>13 DEF Receive, Go
<1>14. ASSUME NEW w \in Workers, Publish(w) PROVE Flow'
  BY <1>14 DEF Publish, Go, Kept
<1>15. ASSUME NEW w \in Workers, NEW t \in Workers, Route(w, t) PROVE Flow'
  BY <1>15 DEF Route, Go
<1>16. ASSUME NEW w \in Workers, NEW S \in SUBSET held[w], HandoffsDone(w, S) PROVE Flow'
  BY <1>16 DEF HandoffsDone, Go, Ends
<1>17. ASSUME NEW w \in Workers, EndTake(w) PROVE Flow'
  BY <1>17 DEF EndTake, Go
<1>18. ASSUME NEW w \in Workers, EndRetire(w) PROVE Flow'
  <2>1. phase[w] \in {"run", "stop", "drain"}
    BY <1>18 DEF EndRetire, Go
  <2> QED
    BY <1>18, <2>1 DEF EndRetire, Go
<1>19. ASSUME NEW w \in Workers, Leave(w) PROVE Flow'
  BY <1>19 DEF Leave, Go
<1>20. ASSUME NEW w \in Workers, DrainOver(w) PROVE Flow'
  BY <1>20 DEF DrainOver, Go
<1>21. ASSUME NEW w \in Workers, DrainExpires(w) PROVE Flow'
  BY <1>21 DEF DrainExpires, Go
<1>22. ASSUME NEW w \in Workers, NEW S \in SUBSET held[w], DrainPass(w, S) PROVE Flow'
  BY <1>22 DEF DrainPass, Go, Ends
<1>23. ASSUME NEW w \in Workers, Exit(w) PROVE Flow'
  BY <1>23 DEF Exit, ProcessEnds, Kept, Floor
<1>24. ASSUME NEW w \in Workers, Declines(w) PROVE Flow'
  BY <1>24 DEF Declines, ProcessEnds, Kept
<1>25. ASSUME NEW w \in Workers, StoppedUnarmed(w) PROVE Flow'
  BY <1>25 DEF StoppedUnarmed, ProcessEnds, Kept
<1>26. ASSUME NEW w \in Workers, RefusesConfig(w) PROVE Flow'
  BY <1>26 DEF RefusesConfig, ProcessEnds, Kept
<1>27. ASSUME NEW w \in Workers, Killed(w) PROVE Flow'
  BY <1>27 DEF Killed, ProcessEnds, Kept
<1>28. ASSUME StopServer PROVE Flow'
  BY <1>28 DEF StopServer, Signalled
<1>29. ASSUME NEW w \in Workers, StopOne(w) PROVE Flow'
  BY <1>29 DEF StopOne, Signalled
<1>30. ASSUME NEW w \in Workers, Reap(w) PROVE Flow'
  BY <1>30 DEF Reap, Signalled, Dead, Vacant
<1>31. ASSUME DeclineRespawn PROVE Flow'
  BY <1>31 DEF DeclineRespawn
<1>32. ASSUME Respawn PROVE Flow'
  <2>1. supWorker \in Workers /\ proc[supWorker] = "lost"
    BY <1>32 DEF Respawn, Reaping
  <2> QED
    BY <1>32, <2>1 DEF Respawn, Fork
<1>33. ASSUME GiveUp PROVE Flow'
  BY <1>33 DEF GiveUp
<1>34. ASSUME CloseReaped PROVE Flow'
  BY <1>34 DEF CloseReaped
<1>35. ASSUME CloseReapedEnds PROVE Flow'
  BY <1>35 DEF CloseReapedEnds, ReapedSettled
<1>36. ASSUME CloseReapedTake PROVE Flow'
  BY <1>36 DEF CloseReapedTake
<1>37. ASSUME CloseReapedRetire PROVE Flow'
  <2>1. supWorker \in Workers /\ proc[supWorker] = "lost"
    BY <1>37 DEF CloseReapedRetire, Reaping
  <2> QED
    BY <1>37, <2>1 DEF CloseReapedRetire
<1>38. ASSUME ReloadBegin PROVE Flow'
  BY <1>38 DEF ReloadBegin, Signalled
<1>39. ASSUME ReloadFork PROVE Flow'
  <2>1. \A w \in Workers : pc[w] = "off"
    BY <1>39 DEF ReloadFork, Vacant
  <2> QED
    BY <1>39, <2>1 DEF ReloadFork, Fork
<1>40. ASSUME ServerEnds PROVE Flow'
  BY <1>40 DEF ServerEnds, Queued
<1>41. CASE UNCHANGED vars
  BY <1>41 DEF vars
<1>42. ASSUME NEW w \in Workers, Worker(w) PROVE Flow'
  BY <1>42, <1>1, <1>2, <1>3, <1>4, <1>5, <1>6, <1>7, <1>8, <1>9, <1>10, <1>11, <1>12,
       <1>13, <1>14, <1>15, <1>16, <1>17, <1>18, <1>19, <1>20, <1>21, <1>22, <1>23, <1>24,
       <1>25 DEF Worker, Start, Send, Doors, Rounds, Drain, Ending
<1>43. CASE Supervisor
  BY <1>43, <1>30, <1>31, <1>32, <1>33, <1>34, <1>35, <1>36, <1>37, <1>39, <1>40
       DEF Supervisor
<1>44. CASE Environment
  BY <1>44, <1>26, <1>27, <1>28, <1>29, <1>38 DEF Environment
<1> QED
  BY <1>41, <1>42, <1>43, <1>44 DEF Next

\* A loop holds finitely many connections.
LEMMA HeldStep ==
  TypeOK /\ HeldFinite /\ [Next]_vars
    => HeldFinite'
<1> SUFFICES ASSUME TypeOK, HeldFinite, [Next]_vars PROVE HeldFinite'
  OBVIOUS
<1> USE DEF page, locals, kernel, supLocal, procs, history, HeldFinite, TypeOK, LocalsType
<1>1. ASSUME NEW w \in Workers, Bind(w) PROVE HeldFinite'
  BY <1>1 DEF Bind, Go
<1>2. ASSUME NEW w \in Workers, StartPark(w) PROVE HeldFinite'
  BY <1>2 DEF StartPark, Go
<1>3. ASSUME NEW w \in Workers, StartTake(w) PROVE HeldFinite'
  BY <1>3 DEF StartTake, Go
<1>4. ASSUME NEW w \in Workers, StartRetire(w) PROVE HeldFinite'
  BY <1>4 DEF StartRetire, Go
<1>5. ASSUME NEW w \in Workers, NEW S \in SUBSET held[w], PassBegin(w, S) PROVE HeldFinite'
  BY <1>5, FS_Subset, FS_RemoveElement DEF PassBegin, Ends
<1>6. ASSUME NEW w \in Workers, NEW c \in Conns, NEW t \in Workers, Accept(w, c, t)
         PROVE HeldFinite'
  BY <1>6, FS_Subset, FS_AddElement DEF Accept
<1>7. ASSUME NEW w \in Workers, AcceptDone(w) PROVE HeldFinite'
  BY <1>7 DEF AcceptDone, Go
<1>8. ASSUME NEW w \in Workers, SendRaise(w) PROVE HeldFinite'
  BY <1>8 DEF SendRaise, Go
<1>9. ASSUME NEW w \in Workers, SendRecheck(w) PROVE HeldFinite'
  BY <1>9 DEF SendRecheck, Go
<1>10. ASSUME NEW w \in Workers, SendPost(w) PROVE HeldFinite'
  BY <1>10 DEF SendPost, Go, Resume
<1>11. ASSUME NEW w \in Workers, SendFails(w) PROVE HeldFinite'
  BY <1>11 DEF SendFails, Go
<1>12. ASSUME NEW w \in Workers, SendTakeBack(w) PROVE HeldFinite'
  BY <1>12, FS_Subset, FS_AddElement DEF SendTakeBack
<1>13. ASSUME NEW w \in Workers, Receive(w) PROVE HeldFinite'
  BY <1>13 DEF Receive, Go
<1>14. ASSUME NEW w \in Workers, Publish(w) PROVE HeldFinite'
  BY <1>14, FS_Subset, FS_AddElement, FS_EmptySet DEF Publish, Kept
<1>15. ASSUME NEW w \in Workers, NEW t \in Workers, Route(w, t) PROVE HeldFinite'
  <2>1. held' = [held EXCEPT ![w] = @ \cup {hand[w]}] \/ UNCHANGED held
    BY <1>15 DEF Route
  <2>2. IsFiniteSet(held[w] \cup {hand[w]})
    BY FS_AddElement
  <2> QED
    BY <2>1, <2>2
<1>16. ASSUME NEW w \in Workers, NEW S \in SUBSET held[w], HandoffsDone(w, S)
         PROVE HeldFinite'
  BY <1>16, FS_Subset DEF HandoffsDone, Ends
<1>17. ASSUME NEW w \in Workers, EndTake(w) PROVE HeldFinite'
  BY <1>17 DEF EndTake, Go
<1>18. ASSUME NEW w \in Workers, EndRetire(w) PROVE HeldFinite'
  BY <1>18 DEF EndRetire, Go, Floor
<1>19. ASSUME NEW w \in Workers, Leave(w) PROVE HeldFinite'
  BY <1>19 DEF Leave, Go
<1>20. ASSUME NEW w \in Workers, DrainOver(w) PROVE HeldFinite'
  BY <1>20 DEF DrainOver, Go
<1>21. ASSUME NEW w \in Workers, DrainExpires(w) PROVE HeldFinite'
  BY <1>21 DEF DrainExpires, Go
<1>22. ASSUME NEW w \in Workers, NEW S \in SUBSET held[w], DrainPass(w, S) PROVE HeldFinite'
  BY <1>22, FS_Subset DEF DrainPass, Ends
<1>23. ASSUME NEW w \in Workers, Exit(w) PROVE HeldFinite'
  BY <1>23, FS_Subset, FS_EmptySet DEF Exit, ProcessEnds
<1>24. ASSUME NEW w \in Workers, Declines(w) PROVE HeldFinite'
  BY <1>24, FS_Subset, FS_EmptySet DEF Declines, ProcessEnds
<1>25. ASSUME NEW w \in Workers, StoppedUnarmed(w) PROVE HeldFinite'
  BY <1>25, FS_Subset, FS_EmptySet DEF StoppedUnarmed, ProcessEnds
<1>26. ASSUME NEW w \in Workers, RefusesConfig(w) PROVE HeldFinite'
  BY <1>26, FS_Subset, FS_EmptySet DEF RefusesConfig, ProcessEnds
<1>27. ASSUME NEW w \in Workers, Killed(w) PROVE HeldFinite'
  BY <1>27, FS_Subset, FS_EmptySet DEF Killed, ProcessEnds
<1>28. ASSUME StopServer PROVE HeldFinite'
  BY <1>28 DEF StopServer, Signalled
<1>29. ASSUME NEW w \in Workers, StopOne(w) PROVE HeldFinite'
  BY <1>29 DEF StopOne, Signalled
<1>30. ASSUME NEW w \in Workers, Reap(w) PROVE HeldFinite'
  BY <1>30 DEF Reap, Signalled
<1>31. ASSUME DeclineRespawn PROVE HeldFinite'
  BY <1>31 DEF DeclineRespawn
<1>32. ASSUME Respawn PROVE HeldFinite'
  BY <1>32 DEF Respawn, Fork
<1>33. ASSUME GiveUp PROVE HeldFinite'
  BY <1>33 DEF GiveUp
<1>34. ASSUME CloseReaped PROVE HeldFinite'
  BY <1>34 DEF CloseReaped
<1>35. ASSUME CloseReapedEnds PROVE HeldFinite'
  BY <1>35 DEF CloseReapedEnds, ReapedSettled
<1>36. ASSUME CloseReapedTake PROVE HeldFinite'
  BY <1>36 DEF CloseReapedTake
<1>37. ASSUME CloseReapedRetire PROVE HeldFinite'
  BY <1>37 DEF CloseReapedRetire, Floor
<1>38. ASSUME ReloadBegin PROVE HeldFinite'
  BY <1>38 DEF ReloadBegin, Signalled
<1>39. ASSUME ReloadFork PROVE HeldFinite'
  BY <1>39 DEF ReloadFork, Fork
<1>40. ASSUME ServerEnds PROVE HeldFinite'
  BY <1>40 DEF ServerEnds, Queued
<1>41. CASE UNCHANGED vars
  BY <1>41 DEF vars
<1>42. ASSUME NEW w \in Workers, Worker(w) PROVE HeldFinite'
  BY <1>42, <1>1, <1>2, <1>3, <1>4, <1>5, <1>6, <1>7, <1>8, <1>9, <1>10, <1>11, <1>12,
       <1>13, <1>14, <1>15, <1>16, <1>17, <1>18, <1>19, <1>20, <1>21, <1>22, <1>23, <1>24,
       <1>25 DEF Worker, Start, Send, Doors, Rounds, Drain, Ending
<1>43. CASE Supervisor
  BY <1>43, <1>30, <1>31, <1>32, <1>33, <1>34, <1>35, <1>36, <1>37, <1>39, <1>40
       DEF Supervisor
<1>44. CASE Environment
  BY <1>44, <1>26, <1>27, <1>28, <1>29, <1>38 DEF Environment
<1> QED
  BY <1>41, <1>42, <1>43, <1>44 DEF Next

\* `taken` is stored after what was received and zeroed before it is
\* retired (pass_end, start).
LEMMA TakenStep ==
  TypeOK /\ Flow /\ TakenWithin /\ Reaping /\ [Next]_vars
    => TakenWithin'
<1> SUFFICES ASSUME TypeOK, Flow, TakenWithin, Reaping, [Next]_vars PROVE TakenWithin'
  OBVIOUS
<1> USE DEF page, locals, kernel, supLocal, procs, history, TakenWithin, TypeOK, PageType,
         LocalsType, Starting, Raised, Running
<1>1. ASSUME NEW w \in Workers, Bind(w) PROVE TakenWithin'
  BY <1>1 DEF Bind, Go
<1>2. ASSUME NEW w \in Workers, StartPark(w) PROVE TakenWithin'
  BY <1>2 DEF StartPark, Go
<1>3. ASSUME NEW w \in Workers, StartTake(w) PROVE TakenWithin'
  BY <1>3 DEF StartTake, Go
<1>4. ASSUME NEW w \in Workers, StartRetire(w) PROVE TakenWithin'
  BY <1>4 DEF StartRetire, Go
<1>5. ASSUME NEW w \in Workers, NEW S \in SUBSET held[w], PassBegin(w, S) PROVE TakenWithin'
  BY <1>5 DEF PassBegin, Go, Ends
<1>6. ASSUME NEW w \in Workers, NEW c \in Conns, NEW t \in Workers, Accept(w, c, t)
         PROVE TakenWithin'
  BY <1>6 DEF Accept, Go
<1>7. ASSUME NEW w \in Workers, AcceptDone(w) PROVE TakenWithin'
  BY <1>7 DEF AcceptDone, Go
<1>8. ASSUME NEW w \in Workers, SendRaise(w) PROVE TakenWithin'
  BY <1>8 DEF SendRaise, Go
<1>9. ASSUME NEW w \in Workers, SendRecheck(w) PROVE TakenWithin'
  BY <1>9 DEF SendRecheck, Go
<1>10. ASSUME NEW w \in Workers, SendPost(w) PROVE TakenWithin'
  BY <1>10 DEF SendPost, Go, Resume
<1>11. ASSUME NEW w \in Workers, SendFails(w) PROVE TakenWithin'
  BY <1>11 DEF SendFails, Go
<1>12. ASSUME NEW w \in Workers, SendTakeBack(w) PROVE TakenWithin'
  BY <1>12 DEF SendTakeBack, Go, Resume
<1>13. ASSUME NEW w \in Workers, Receive(w) PROVE TakenWithin'
  BY <1>13 DEF Receive, Go
<1>14. ASSUME NEW w \in Workers, Publish(w) PROVE TakenWithin'
  BY <1>14 DEF Publish, Go, Kept
<1>15. ASSUME NEW w \in Workers, NEW t \in Workers, Route(w, t) PROVE TakenWithin'
  BY <1>15 DEF Route, Go
<1>16. ASSUME NEW w \in Workers, NEW S \in SUBSET held[w], HandoffsDone(w, S)
         PROVE TakenWithin'
  BY <1>16 DEF HandoffsDone, Go, Ends
<1>17. ASSUME NEW w \in Workers, EndTake(w) PROVE TakenWithin'
  BY <1>17 DEF EndTake, Go
<1>18. ASSUME NEW w \in Workers, EndRetire(w) PROVE TakenWithin'
  BY <1>18 DEF EndRetire, Go, Floor
<1>19. ASSUME NEW w \in Workers, Leave(w) PROVE TakenWithin'
  BY <1>19 DEF Leave, Go
<1>20. ASSUME NEW w \in Workers, DrainOver(w) PROVE TakenWithin'
  BY <1>20 DEF DrainOver, Go
<1>21. ASSUME NEW w \in Workers, DrainExpires(w) PROVE TakenWithin'
  BY <1>21 DEF DrainExpires, Go
<1>22. ASSUME NEW w \in Workers, NEW S \in SUBSET held[w], DrainPass(w, S)
         PROVE TakenWithin'
  BY <1>22 DEF DrainPass, Go, Ends
<1>23. ASSUME NEW w \in Workers, Exit(w) PROVE TakenWithin'
  BY <1>23 DEF Exit, ProcessEnds, Kept, Floor
<1>24. ASSUME NEW w \in Workers, Declines(w) PROVE TakenWithin'
  BY <1>24 DEF Declines, ProcessEnds, Kept
<1>25. ASSUME NEW w \in Workers, StoppedUnarmed(w) PROVE TakenWithin'
  BY <1>25 DEF StoppedUnarmed, ProcessEnds, Kept
<1>26. ASSUME NEW w \in Workers, RefusesConfig(w) PROVE TakenWithin'
  BY <1>26 DEF RefusesConfig, ProcessEnds, Kept
<1>27. ASSUME NEW w \in Workers, Killed(w) PROVE TakenWithin'
  BY <1>27 DEF Killed, ProcessEnds, Kept
<1>28. ASSUME StopServer PROVE TakenWithin'
  BY <1>28 DEF StopServer, Signalled
<1>29. ASSUME NEW w \in Workers, StopOne(w) PROVE TakenWithin'
  BY <1>29 DEF StopOne, Signalled
<1>30. ASSUME NEW w \in Workers, Reap(w) PROVE TakenWithin'
  BY <1>30 DEF Reap, Signalled
<1>31. ASSUME DeclineRespawn PROVE TakenWithin'
  BY <1>31 DEF DeclineRespawn
<1>32. ASSUME Respawn PROVE TakenWithin'
  BY <1>32 DEF Respawn, Fork
<1>33. ASSUME GiveUp PROVE TakenWithin'
  BY <1>33 DEF GiveUp
<1>34. ASSUME CloseReaped PROVE TakenWithin'
  BY <1>34 DEF CloseReaped
<1>35. ASSUME CloseReapedEnds PROVE TakenWithin'
  BY <1>35 DEF CloseReapedEnds, ReapedSettled
<1>36. ASSUME CloseReapedTake PROVE TakenWithin'
  <2>1. supWorker \in Workers /\ pc[supWorker] = "off"
    BY <1>36 DEF CloseReapedTake, Reaping, Flow
  <2> QED
    BY <1>36, <2>1 DEF CloseReapedTake
<1>37. ASSUME CloseReapedRetire PROVE TakenWithin'
  BY <1>37 DEF CloseReapedRetire, Floor
<1>38. ASSUME ReloadBegin PROVE TakenWithin'
  BY <1>38 DEF ReloadBegin, Signalled
<1>39. ASSUME ReloadFork PROVE TakenWithin'
  BY <1>39 DEF ReloadFork, Fork
<1>40. ASSUME ServerEnds PROVE TakenWithin'
  BY <1>40 DEF ServerEnds, Queued
<1>41. CASE UNCHANGED vars
  BY <1>41 DEF vars
<1>42. ASSUME NEW w \in Workers, Worker(w) PROVE TakenWithin'
  BY <1>42, <1>1, <1>2, <1>3, <1>4, <1>5, <1>6, <1>7, <1>8, <1>9, <1>10, <1>11, <1>12,
       <1>13, <1>14, <1>15, <1>16, <1>17, <1>18, <1>19, <1>20, <1>21, <1>22, <1>23, <1>24,
       <1>25 DEF Worker, Start, Send, Doors, Rounds, Drain, Ending
<1>43. CASE Supervisor
  BY <1>43, <1>30, <1>31, <1>32, <1>33, <1>34, <1>35, <1>36, <1>37, <1>39, <1>40
       DEF Supervisor
<1>44. CASE Environment
  BY <1>44, <1>26, <1>27, <1>28, <1>29, <1>38 DEF Environment
<1> QED
  BY <1>41, <1>42, <1>43, <1>44 DEF Next

\* The supervisor is one process: it works on one reaped index at a time.
LEMMA ReapingStep ==
  TypeOK /\ Flow /\ Reaping /\ [Next]_vars
    => Reaping'
<1> SUFFICES ASSUME TypeOK, Flow, Reaping, [Next]_vars PROVE Reaping'
  OBVIOUS
<1> USE DEF page, locals, kernel, supLocal, procs, history, Reaping, TypeOK, ProcsType,
         SupType, SupPcs
<1>1. ASSUME NEW w \in Workers, Bind(w) PROVE Reaping'
  BY <1>1 DEF Bind, Go
<1>2. ASSUME NEW w \in Workers, StartPark(w) PROVE Reaping'
  BY <1>2 DEF StartPark, Go
<1>3. ASSUME NEW w \in Workers, StartTake(w) PROVE Reaping'
  BY <1>3 DEF StartTake, Go
<1>4. ASSUME NEW w \in Workers, StartRetire(w) PROVE Reaping'
  BY <1>4 DEF StartRetire, Go
<1>5. ASSUME NEW w \in Workers, NEW S \in SUBSET held[w], PassBegin(w, S) PROVE Reaping'
  BY <1>5 DEF PassBegin, Go, Ends
<1>6. ASSUME NEW w \in Workers, NEW c \in Conns, NEW t \in Workers, Accept(w, c, t)
         PROVE Reaping'
  BY <1>6 DEF Accept, Go
<1>7. ASSUME NEW w \in Workers, AcceptDone(w) PROVE Reaping'
  BY <1>7 DEF AcceptDone, Go
<1>8. ASSUME NEW w \in Workers, SendRaise(w) PROVE Reaping'
  BY <1>8 DEF SendRaise, Go
<1>9. ASSUME NEW w \in Workers, SendRecheck(w) PROVE Reaping'
  BY <1>9 DEF SendRecheck, Go
<1>10. ASSUME NEW w \in Workers, SendPost(w) PROVE Reaping'
  BY <1>10 DEF SendPost, Go, Resume
<1>11. ASSUME NEW w \in Workers, SendFails(w) PROVE Reaping'
  BY <1>11 DEF SendFails, Go
<1>12. ASSUME NEW w \in Workers, SendTakeBack(w) PROVE Reaping'
  BY <1>12 DEF SendTakeBack, Go, Resume
<1>13. ASSUME NEW w \in Workers, Receive(w) PROVE Reaping'
  BY <1>13 DEF Receive, Go
<1>14. ASSUME NEW w \in Workers, Publish(w) PROVE Reaping'
  BY <1>14 DEF Publish, Go, Kept
<1>15. ASSUME NEW w \in Workers, NEW t \in Workers, Route(w, t) PROVE Reaping'
  BY <1>15 DEF Route, Go
<1>16. ASSUME NEW w \in Workers, NEW S \in SUBSET held[w], HandoffsDone(w, S) PROVE Reaping'
  BY <1>16 DEF HandoffsDone, Go, Ends
<1>17. ASSUME NEW w \in Workers, EndTake(w) PROVE Reaping'
  BY <1>17 DEF EndTake, Go
<1>18. ASSUME NEW w \in Workers, EndRetire(w) PROVE Reaping'
  BY <1>18 DEF EndRetire, Go, Floor
<1>19. ASSUME NEW w \in Workers, Leave(w) PROVE Reaping'
  BY <1>19 DEF Leave, Go
<1>20. ASSUME NEW w \in Workers, DrainOver(w) PROVE Reaping'
  BY <1>20 DEF DrainOver, Go
<1>21. ASSUME NEW w \in Workers, DrainExpires(w) PROVE Reaping'
  BY <1>21 DEF DrainExpires, Go
<1>22. ASSUME NEW w \in Workers, NEW S \in SUBSET held[w], DrainPass(w, S) PROVE Reaping'
  BY <1>22 DEF DrainPass, Go, Ends
<1>23. ASSUME NEW w \in Workers, Exit(w) PROVE Reaping'
  <2>1. proc[w] = "up"
    BY <1>23 DEF Exit, Flow
  <2> QED
    BY <1>23, <2>1 DEF Exit, ProcessEnds
<1>24. ASSUME NEW w \in Workers, Declines(w) PROVE Reaping'
  <2>1. proc[w] = "up"
    BY <1>24 DEF Declines, Flow
  <2> QED
    BY <1>24, <2>1 DEF Declines, ProcessEnds
<1>25. ASSUME NEW w \in Workers, StoppedUnarmed(w) PROVE Reaping'
  <2>1. proc[w] = "up"
    BY <1>25 DEF StoppedUnarmed, Flow
  <2> QED
    BY <1>25, <2>1 DEF StoppedUnarmed, ProcessEnds
<1>26. ASSUME NEW w \in Workers, RefusesConfig(w) PROVE Reaping'
  <2>1. proc[w] = "up"
    BY <1>26 DEF RefusesConfig, Flow
  <2> QED
    BY <1>26, <2>1 DEF RefusesConfig, ProcessEnds
<1>27. ASSUME NEW w \in Workers, Killed(w) PROVE Reaping'
  BY <1>27 DEF Killed, ProcessEnds, Kept
<1>28. ASSUME StopServer PROVE Reaping'
  BY <1>28 DEF StopServer, Signalled
<1>29. ASSUME NEW w \in Workers, StopOne(w) PROVE Reaping'
  BY <1>29 DEF StopOne, Signalled
<1>30. ASSUME NEW w \in Workers, Reap(w) PROVE Reaping'
  BY <1>30 DEF Reap, Signalled
<1>31. ASSUME DeclineRespawn PROVE Reaping'
  BY <1>31 DEF DeclineRespawn
<1>32. ASSUME Respawn PROVE Reaping'
  BY <1>32 DEF Respawn, Fork
<1>33. ASSUME GiveUp PROVE Reaping'
  BY <1>33 DEF GiveUp
<1>34. ASSUME CloseReaped PROVE Reaping'
  BY <1>34 DEF CloseReaped
<1>35. ASSUME CloseReapedEnds PROVE Reaping'
  BY <1>35 DEF CloseReapedEnds, ReapedSettled
<1>36. ASSUME CloseReapedTake PROVE Reaping'
  BY <1>36 DEF CloseReapedTake
<1>37. ASSUME CloseReapedRetire PROVE Reaping'
  BY <1>37 DEF CloseReapedRetire, Floor
<1>38. ASSUME ReloadBegin PROVE Reaping'
  BY <1>38 DEF ReloadBegin, Signalled
<1>39. ASSUME ReloadFork PROVE Reaping'
  BY <1>39 DEF ReloadFork, Fork
<1>40. ASSUME ServerEnds PROVE Reaping'
  BY <1>40 DEF ServerEnds
<1>41. CASE UNCHANGED vars
  BY <1>41 DEF vars
<1>42. ASSUME NEW w \in Workers, Worker(w) PROVE Reaping'
  BY <1>42, <1>1, <1>2, <1>3, <1>4, <1>5, <1>6, <1>7, <1>8, <1>9, <1>10, <1>11, <1>12,
       <1>13, <1>14, <1>15, <1>16, <1>17, <1>18, <1>19, <1>20, <1>21, <1>22, <1>23, <1>24,
       <1>25 DEF Worker, Start, Send, Doors, Rounds, Drain, Ending
<1>43. CASE Supervisor
  BY <1>43, <1>30, <1>31, <1>32, <1>33, <1>34, <1>35, <1>36, <1>37, <1>39, <1>40
       DEF Supervisor
<1>44. CASE Environment
  BY <1>44, <1>26, <1>27, <1>28, <1>29, <1>38 DEF Environment
<1> QED
  BY <1>41, <1>42, <1>43, <1>44 DEF Next

\* pass_begin and pass_end leave a leaver's word alone, and every reap
\* marks the index left.
LEMMA MarkedStep ==
  TypeOK /\ Flow /\ Reaping /\ LeaverIsMarked /\ [Next]_vars
    => LeaverIsMarked'
<1> SUFFICES ASSUME TypeOK, Flow, Reaping, LeaverIsMarked, [Next]_vars PROVE LeaverIsMarked'
  OBVIOUS
<1> USE DEF page, locals, kernel, supLocal, procs, history, LeaverIsMarked, Left, TypeOK,
         PageType, LocalsType, ProcsType, Vacant, Phases, Starting
<1>1. ASSUME NEW w \in Workers, Bind(w) PROVE LeaverIsMarked'
  <2>1. proc[w] = "up" /\ phase[w] = "run"
    BY <1>1 DEF Bind, Go, Flow
  <2> QED
    BY <1>1, <2>1 DEF Bind, Go
<1>2. ASSUME NEW w \in Workers, StartPark(w) PROVE LeaverIsMarked'
  <2>1. proc[w] = "up" /\ phase[w] = "run"
    BY <1>2 DEF StartPark, Go, Flow
  <2> QED
    BY <1>2, <2>1 DEF StartPark, Go
<1>3. ASSUME NEW w \in Workers, StartTake(w) PROVE LeaverIsMarked'
  BY <1>3 DEF StartTake, Go
<1>4. ASSUME NEW w \in Workers, StartRetire(w) PROVE LeaverIsMarked'
  BY <1>4 DEF StartRetire, Go
<1>5. ASSUME NEW w \in Workers, NEW S \in SUBSET held[w], PassBegin(w, S)
         PROVE LeaverIsMarked'
  <2>1. proc[w] = "up"
    BY <1>5 DEF PassBegin, Go, Flow
  <2> QED
    BY <1>5, <2>1 DEF PassBegin, Go
<1>6. ASSUME NEW w \in Workers, NEW c \in Conns, NEW t \in Workers, Accept(w, c, t)
         PROVE LeaverIsMarked'
  BY <1>6 DEF Accept, Go
<1>7. ASSUME NEW w \in Workers, AcceptDone(w) PROVE LeaverIsMarked'
  BY <1>7 DEF AcceptDone, Go
<1>8. ASSUME NEW w \in Workers, SendRaise(w) PROVE LeaverIsMarked'
  BY <1>8 DEF SendRaise, Go
<1>9. ASSUME NEW w \in Workers, SendRecheck(w) PROVE LeaverIsMarked'
  BY <1>9 DEF SendRecheck, Go
<1>10. ASSUME NEW w \in Workers, SendPost(w) PROVE LeaverIsMarked'
  BY <1>10 DEF SendPost, Go, Resume
<1>11. ASSUME NEW w \in Workers, SendFails(w) PROVE LeaverIsMarked'
  BY <1>11 DEF SendFails, Go
<1>12. ASSUME NEW w \in Workers, SendTakeBack(w) PROVE LeaverIsMarked'
  BY <1>12 DEF SendTakeBack, Go, Resume
<1>13. ASSUME NEW w \in Workers, Receive(w) PROVE LeaverIsMarked'
  BY <1>13 DEF Receive, Go
<1>14. ASSUME NEW w \in Workers, Publish(w) PROVE LeaverIsMarked'
  BY <1>14 DEF Publish, Go, Kept
<1>15. ASSUME NEW w \in Workers, NEW t \in Workers, Route(w, t) PROVE LeaverIsMarked'
  BY <1>15 DEF Route, Go
<1>16. ASSUME NEW w \in Workers, NEW S \in SUBSET held[w], HandoffsDone(w, S)
         PROVE LeaverIsMarked'
  BY <1>16 DEF HandoffsDone, Go, Ends
<1>17. ASSUME NEW w \in Workers, EndTake(w) PROVE LeaverIsMarked'
  BY <1>17 DEF EndTake, Go
<1>18. ASSUME NEW w \in Workers, EndRetire(w) PROVE LeaverIsMarked'
  <2>1. proc[w] = "up" /\ phase[w] \in {"run", "stop", "drain"}
    BY <1>18 DEF EndRetire, Go, Flow
  <2> QED
    BY <1>18, <2>1 DEF EndRetire, Go
<1>19. ASSUME NEW w \in Workers, Leave(w) PROVE LeaverIsMarked'
  BY <1>19 DEF Leave, Go
<1>20. ASSUME NEW w \in Workers, DrainOver(w) PROVE LeaverIsMarked'
  <2>1. Left(w)
    BY <1>20 DEF DrainOver, Go, Flow
  <2> QED
    BY <1>20, <2>1 DEF DrainOver, Go
<1>21. ASSUME NEW w \in Workers, DrainExpires(w) PROVE LeaverIsMarked'
  <2>1. Left(w)
    BY <1>21 DEF DrainExpires, Go, Flow
  <2> QED
    BY <1>21, <2>1 DEF DrainExpires, Go
<1>22. ASSUME NEW w \in Workers, NEW S \in SUBSET held[w], DrainPass(w, S)
         PROVE LeaverIsMarked'
  BY <1>22 DEF DrainPass, Go, Ends
<1>23. ASSUME NEW w \in Workers, Exit(w) PROVE LeaverIsMarked'
  BY <1>23 DEF Exit, ProcessEnds, Kept, Floor
<1>24. ASSUME NEW w \in Workers, Declines(w) PROVE LeaverIsMarked'
  BY <1>24 DEF Declines, ProcessEnds, Kept
<1>25. ASSUME NEW w \in Workers, StoppedUnarmed(w) PROVE LeaverIsMarked'
  BY <1>25 DEF StoppedUnarmed, ProcessEnds, Kept
<1>26. ASSUME NEW w \in Workers, RefusesConfig(w) PROVE LeaverIsMarked'
  BY <1>26 DEF RefusesConfig, ProcessEnds, Kept
<1>27. ASSUME NEW w \in Workers, Killed(w) PROVE LeaverIsMarked'
  BY <1>27 DEF Killed, ProcessEnds, Kept
<1>28. ASSUME StopServer PROVE LeaverIsMarked'
  BY <1>28 DEF StopServer, Signalled
<1>29. ASSUME NEW w \in Workers, StopOne(w) PROVE LeaverIsMarked'
  BY <1>29 DEF StopOne, Signalled
<1>30. ASSUME NEW w \in Workers, Reap(w) PROVE LeaverIsMarked'
  BY <1>30 DEF Reap, Signalled
<1>31. ASSUME DeclineRespawn PROVE LeaverIsMarked'
  BY <1>31 DEF DeclineRespawn
<1>32. ASSUME Respawn PROVE LeaverIsMarked'
  BY <1>32 DEF Respawn, Fork
<1>33. ASSUME GiveUp PROVE LeaverIsMarked'
  BY <1>33 DEF GiveUp
<1>34. ASSUME CloseReaped PROVE LeaverIsMarked'
  BY <1>34 DEF CloseReaped
<1>35. ASSUME CloseReapedEnds PROVE LeaverIsMarked'
  BY <1>35 DEF CloseReapedEnds, ReapedSettled
<1>36. ASSUME CloseReapedTake PROVE LeaverIsMarked'
  BY <1>36 DEF CloseReapedTake
<1>37. ASSUME CloseReapedRetire PROVE LeaverIsMarked'
  BY <1>37 DEF CloseReapedRetire, Reaping
<1>38. ASSUME ReloadBegin PROVE LeaverIsMarked'
  BY <1>38 DEF ReloadBegin, Signalled
<1>39. ASSUME ReloadFork PROVE LeaverIsMarked'
  BY <1>39 DEF ReloadFork, Fork
<1>40. ASSUME ServerEnds PROVE LeaverIsMarked'
  BY <1>40 DEF ServerEnds
<1>41. CASE UNCHANGED vars
  BY <1>41 DEF vars
<1>42. ASSUME NEW w \in Workers, Worker(w) PROVE LeaverIsMarked'
  BY <1>42, <1>1, <1>2, <1>3, <1>4, <1>5, <1>6, <1>7, <1>8, <1>9, <1>10, <1>11, <1>12,
       <1>13, <1>14, <1>15, <1>16, <1>17, <1>18, <1>19, <1>20, <1>21, <1>22, <1>23, <1>24,
       <1>25 DEF Worker, Start, Send, Doors, Rounds, Drain, Ending
<1>43. CASE Supervisor
  BY <1>43, <1>30, <1>31, <1>32, <1>33, <1>34, <1>35, <1>36, <1>37, <1>39, <1>40
       DEF Supervisor
<1>44. CASE Environment
  BY <1>44, <1>26, <1>27, <1>28, <1>29, <1>38 DEF Environment
<1> QED
  BY <1>41, <1>42, <1>43, <1>44 DEF Next

-----------------------------------------------------------------------------
(* The count covers what is in flight: send_with raises it before its      *)
(* datagram exists, and each retire subtracts only what was received.      *)

\* The senders with a raise outstanding are finitely many.
LEMMA RaisedFinite ==
  ASSUME NEW w \in Workers
  PROVE  IsFiniteSet(RaisedTo(w)) /\ Cardinality(RaisedTo(w)) \in Nat
  BY ConstantsAssumption, FS_Subset, FS_CardinalityType DEF RaisedTo

\* Naturals are closed under addition.
LEMMA NatSum == \A a, b \in Nat : a + b \in Nat
  OBVIOUS

\* The parts of InFlight are numbers.
LEMMA PartsType ==
  ASSUME TypeOK, NEW w \in Workers
  PROVE  /\ Len(chan[w]) \in Nat /\ Unretired(w) \in Nat /\ SupOwes(w) \in Nat
         /\ pending[w] \in Int
<1>1. Len(chan[w]) \in Nat
  BY DEF TypeOK, KernelType
<1>2. Unretired(w) \in Nat
  BY DEF TypeOK, LocalsType, PageType, Unretired
<1>3. SupOwes(w) \in Nat
  BY DEF TypeOK, SupType, SupOwes
<1> QED
  BY <1>1, <1>2, <1>3 DEF TypeOK, PageType

\* And so they are after a step.
LEMMA PartsTypeNext ==
  ASSUME TypeOK', NEW w \in Workers
  PROVE  /\ Len(chan'[w]) \in Nat /\ Unretired(w)' \in Nat /\ SupOwes(w)' \in Nat
         /\ pending'[w] \in Int
<1>1. Len(chan'[w]) \in Nat
  BY DEF TypeOK, KernelType
<1>2. Unretired(w)' \in Nat
  BY DEF TypeOK, LocalsType, PageType, Unretired
<1>3. SupOwes(w)' \in Nat
  <2>1. supReceived' \in Nat /\ supTook' \in Nat
    BY DEF TypeOK, SupType
  <2>2. supReceived' + supTook' \in Nat
    BY <2>1, NatSum
  <2> QED
    BY <2>2 DEF SupOwes
<1> QED
  BY <1>1, <1>2, <1>3 DEF TypeOK, PageType

\* The arithmetic of Covered, over plain numbers.
LEMMA FallsWithin ==
  ASSUME NEW r \in Nat, NEW r2 \in Nat, NEW l \in Nat, NEW l2 \in Nat, NEW u \in Nat,
         NEW u2 \in Nat, NEW s \in Nat, NEW s2 \in Nat, NEW p \in Int, NEW p2 \in Int,
         r + l + u + s <= p, r2 <= r, l2 + u2 + s2 - p2 <= l + u + s - p
  PROVE  r2 + l2 + u2 + s2 <= p2
  OBVIOUS

\* The arithmetic of Framed.
LEMMA FallsTogether ==
  ASSUME NEW l \in Nat, NEW l2 \in Nat, NEW u \in Nat, NEW u2 \in Nat, NEW s \in Nat,
         NEW s2 \in Nat, NEW p \in Int, l2 <= l, u2 <= u, s2 <= s
  PROVE  l2 + u2 + s2 - p <= l + u + s - p
  OBVIOUS

\* A raise and its count rise together, and are taken back together.
LEMMA RisesByOne ==
  ASSUME NEW r \in Nat, NEW l \in Nat, NEW u \in Nat, NEW s \in Nat, NEW p \in Int,
         r + l + u + s <= p
  PROVE  /\ (r + 1) + l + u + s <= p + 1
         /\ (r - 1) + l + u + s <= p - 1
  OBVIOUS

\* A hand-off read off the channel counts as one not retired yet.
LEMMA TradesPlaces ==
  ASSUME NEW l \in Nat, NEW n \in Nat, NEW s \in Nat, NEW p \in Int
  PROVE  (l - 1) + (n + 1) + s - p <= l + n + s - p
  OBVIOUS

\* A count settled by what was not retired loses no more than that.
LEMMA Settles ==
  ASSUME NEW l \in Nat, NEW n \in Nat, NEW s \in Nat, NEW p \in Int, NEW p2 \in Int,
         p2 >= p - n
  PROVE  l + 0 + s - p2 <= l + n + s - p
  OBVIOUS

\* A step that adds no raise, and lets the count fall by no more than what
\* leaves the channel and the hands that owe a retire, keeps it above.
LEMMA Covered ==
  ASSUME TypeOK, TypeOK', PendingCovers, NEW v \in Workers,
         RaisedTo(v)' \subseteq RaisedTo(v),
         Len(chan'[v]) + Unretired(v)' + SupOwes(v)' - pending'[v]
           <= Len(chan[v]) + Unretired(v) + SupOwes(v) - pending[v]
  PROVE  InFlight(v)' <= pending'[v]
<1>1. /\ Cardinality(RaisedTo(v)) \in Nat /\ Cardinality(RaisedTo(v)') \in Nat
      /\ Cardinality(RaisedTo(v)') <= Cardinality(RaisedTo(v))
  BY RaisedFinite, FS_Subset, FS_CardinalityType
<1>2. InFlight(v) <= pending[v]
  BY DEF PendingCovers
<1> QED
  BY <1>1, <1>2, PartsType, PartsTypeNext, FallsWithin DEF InFlight

\* A step that changes nothing of what is counted but lets it fall.
LEMMA Framed ==
  ASSUME TypeOK, TypeOK', PendingCovers, NEW v \in Workers,
         RaisedTo(v)' \subseteq RaisedTo(v), pending'[v] = pending[v],
         Len(chan'[v]) <= Len(chan[v]),
         Unretired(v)' <= Unretired(v), SupOwes(v)' <= SupOwes(v)
  PROVE  InFlight(v)' <= pending'[v]
<1>1. /\ Len(chan[v]) \in Nat /\ Unretired(v) \in Nat /\ SupOwes(v) \in Nat
      /\ pending[v] \in Int
  BY PartsType
<1>2. /\ Len(chan'[v]) \in Nat /\ Unretired(v)' \in Nat /\ SupOwes(v)' \in Nat
  BY PartsTypeNext
<1>3. Len(chan'[v]) + Unretired(v)' + SupOwes(v)' - pending[v]
        <= Len(chan[v]) + Unretired(v) + SupOwes(v) - pending[v]
  BY <1>1, <1>2, FallsTogether
<1>4. Len(chan'[v]) + Unretired(v)' + SupOwes(v)' - pending'[v]
        <= Len(chan[v]) + Unretired(v) + SupOwes(v) - pending[v]
  BY <1>3
<1> QED
  BY <1>4, Covered

\* No step breaks the rule of review R5: raise before the datagram, retire
\* only what was received.
LEMMA CoverStep ==
  TypeOK /\ TypeOK' /\ Flow /\ TakenWithin /\ Reaping /\ PendingCovers /\ [Next]_vars
    => PendingCovers'
<1> SUFFICES ASSUME TypeOK, TypeOK', Flow, TakenWithin, Reaping, PendingCovers,
         [Next]_vars PROVE PendingCovers'
  OBVIOUS
<1> USE DEF page, locals, kernel, supLocal, procs, history
<1>1. ASSUME NEW w \in Workers, Bind(w) PROVE PendingCovers'
  <2>1. \A v \in Workers : RaisedTo(v)' \subseteq RaisedTo(v)
    BY <1>1 DEF Bind, Go, RaisedTo, Raised, TypeOK, LocalsType
  <2>2. \A v \in Workers : Unretired(v)' <= Unretired(v)
    BY <1>1 DEF Bind, Go, Unretired, TakenWithin, Flow, Starting, Running, Raised, TypeOK,
         PageType, LocalsType
  <2>3. \A v \in Workers : SupOwes(v)' <= SupOwes(v)
    BY <1>1 DEF Bind, SupOwes, TypeOK, SupType
  <2>4. UNCHANGED <<pending, chan>>
    BY <1>1 DEF Bind
  <2> QED
    BY <2>1, <2>2, <2>3, <2>4, Framed, PartsType DEF PendingCovers
<1>2. ASSUME NEW w \in Workers, StartPark(w) PROVE PendingCovers'
  <2>1. \A v \in Workers : RaisedTo(v)' \subseteq RaisedTo(v)
    BY <1>2 DEF StartPark, Go, RaisedTo, Raised, TypeOK, LocalsType
  <2>2. \A v \in Workers : Unretired(v)' <= Unretired(v)
    BY <1>2 DEF StartPark, Go, Unretired, TakenWithin, Flow, Starting, Running, Raised,
         TypeOK, PageType, LocalsType
  <2>3. \A v \in Workers : SupOwes(v)' <= SupOwes(v)
    BY <1>2 DEF StartPark, SupOwes, TypeOK, SupType
  <2>4. UNCHANGED <<pending, chan>>
    BY <1>2 DEF StartPark
  <2> QED
    BY <2>1, <2>2, <2>3, <2>4, Framed, PartsType DEF PendingCovers
<1>3. ASSUME NEW w \in Workers, StartTake(w) PROVE PendingCovers'
  <2>1. \A v \in Workers : RaisedTo(v)' \subseteq RaisedTo(v)
    BY <1>3 DEF StartTake, Go, RaisedTo, Raised, TypeOK, LocalsType
  <2>2. \A v \in Workers : Unretired(v)' <= Unretired(v)
    BY <1>3 DEF StartTake, Go, Unretired, TakenWithin, Flow, Starting, Running, Raised,
         TypeOK, PageType, LocalsType
  <2>3. \A v \in Workers : SupOwes(v)' <= SupOwes(v)
    BY <1>3 DEF StartTake, SupOwes, TypeOK, SupType
  <2>4. UNCHANGED <<pending, chan>>
    BY <1>3 DEF StartTake
  <2> QED
    BY <2>1, <2>2, <2>3, <2>4, Framed, PartsType DEF PendingCovers
<1>4. ASSUME NEW w \in Workers, StartRetire(w) PROVE PendingCovers'
  <2>1. \A v \in Workers : RaisedTo(v)' \subseteq RaisedTo(v)
    BY <1>4 DEF StartRetire, Go, RaisedTo, Raised, TypeOK, LocalsType
  <2>2. UNCHANGED <<chan, supWorker, supReceived, supTook>>
    BY <1>4 DEF StartRetire
  <2>3. \A v \in Workers \ {w} : Unretired(v)' = Unretired(v) /\ pending'[v] = pending[v]
    BY <1>4 DEF StartRetire, Go, Unretired, TypeOK, PageType, LocalsType
  <2>4. Unretired(w) = took[w] /\ pending'[w] = pending[w] - took[w]
    BY <1>4 DEF StartRetire, Go, Unretired, TypeOK, PageType
  <2>5. Unretired(w)' = 0
    BY <1>4 DEF StartRetire, Go, Unretired, Flow, Starting, TypeOK, LocalsType
  <2>6. \A v \in Workers : SupOwes(v)' = SupOwes(v)
    BY <2>2 DEF SupOwes
  <2>7. took[w] \in Nat
    BY DEF TypeOK, LocalsType
  <2>8. InFlight(w)' <= pending'[w]
    BY <2>1, <2>2, <2>4, <2>5, <2>6, <2>7, Covered, PartsType
  <2>9. \A v \in Workers \ {w} : InFlight(v)' <= pending'[v]
    BY <2>1, <2>2, <2>3, <2>6, Framed, PartsType
  <2> QED
    BY <2>8, <2>9 DEF PendingCovers
<1>5. ASSUME NEW w \in Workers, NEW S \in SUBSET held[w], PassBegin(w, S)
         PROVE PendingCovers'
  <2>1. \A v \in Workers : RaisedTo(v)' \subseteq RaisedTo(v)
    BY <1>5 DEF PassBegin, Go, RaisedTo, Raised, TypeOK, LocalsType
  <2>2. \A v \in Workers : Unretired(v)' <= Unretired(v)
    BY <1>5 DEF PassBegin, Go, Unretired, TakenWithin, Flow, Starting, Running, Raised,
         TypeOK, PageType, LocalsType
  <2>3. \A v \in Workers : SupOwes(v)' <= SupOwes(v)
    BY <1>5 DEF PassBegin, SupOwes, TypeOK, SupType
  <2>4. UNCHANGED <<pending, chan>>
    BY <1>5 DEF PassBegin
  <2> QED
    BY <2>1, <2>2, <2>3, <2>4, Framed, PartsType DEF PendingCovers
<1>6. ASSUME NEW w \in Workers, NEW c \in Conns, NEW t \in Workers, Accept(w, c, t)
         PROVE PendingCovers'
  <2>1. \A v \in Workers : RaisedTo(v)' \subseteq RaisedTo(v)
    BY <1>6 DEF Accept, Go, RaisedTo, Raised, TypeOK, LocalsType
  <2>2. \A v \in Workers : Unretired(v)' <= Unretired(v)
    BY <1>6 DEF Accept, Go, Unretired, TakenWithin, Flow, Starting, Running, Raised,
         TypeOK, PageType, LocalsType
  <2>3. \A v \in Workers : SupOwes(v)' <= SupOwes(v)
    BY <1>6 DEF Accept, SupOwes, TypeOK, SupType
  <2>4. UNCHANGED <<pending, chan>>
    BY <1>6 DEF Accept
  <2> QED
    BY <2>1, <2>2, <2>3, <2>4, Framed, PartsType DEF PendingCovers
<1>7. ASSUME NEW w \in Workers, AcceptDone(w) PROVE PendingCovers'
  <2>1. \A v \in Workers : RaisedTo(v)' \subseteq RaisedTo(v)
    BY <1>7 DEF AcceptDone, Go, RaisedTo, Raised, TypeOK, LocalsType
  <2>2. \A v \in Workers : Unretired(v)' <= Unretired(v)
    BY <1>7 DEF AcceptDone, Go, Unretired, TakenWithin, Flow, Starting, Running, Raised,
         TypeOK, PageType, LocalsType
  <2>3. \A v \in Workers : SupOwes(v)' <= SupOwes(v)
    BY <1>7 DEF AcceptDone, SupOwes, TypeOK, SupType
  <2>4. UNCHANGED <<pending, chan>>
    BY <1>7 DEF AcceptDone
  <2> QED
    BY <2>1, <2>2, <2>3, <2>4, Framed, PartsType DEF PendingCovers
<1>8. ASSUME NEW w \in Workers, SendRaise(w) PROVE PendingCovers'
  <2>0. PICK t \in Workers : t = target[w]
    BY <1>8 DEF SendRaise, Go, Flow, Raised
  <2>1. t \in Workers /\ pc[w] = "raise"
    BY <1>8, <2>0 DEF SendRaise, Go, Flow
  <2>2. RaisedTo(t)' = RaisedTo(t) \cup {w} /\ w \notin RaisedTo(t)
    BY <1>8, <2>0, <2>1 DEF SendRaise, Go, RaisedTo, Raised, TypeOK, LocalsType
  <2>3. \A v \in Workers \ {t} : RaisedTo(v)' = RaisedTo(v)
    BY <1>8, <2>0, <2>1 DEF SendRaise, Go, RaisedTo, Raised, TypeOK, LocalsType
  <2>4. pending'[t] = pending[t] + 1 /\ \A v \in Workers \ {t} : pending'[v] = pending[v]
    BY <1>8, <2>0, <2>1 DEF SendRaise, TypeOK, PageType
  <2>5. \A v \in Workers : Unretired(v)' = Unretired(v)
    BY <1>8, <2>0 DEF SendRaise, Go, Unretired, TypeOK, LocalsType
  <2>6. UNCHANGED chan /\ \A v \in Workers : SupOwes(v)' = SupOwes(v)
    BY <1>8, <2>0 DEF SendRaise, SupOwes
  <2>7. Cardinality(RaisedTo(t)') = Cardinality(RaisedTo(t)) + 1
    BY <2>1, <2>2, RaisedFinite, FS_AddElement
  <2>8. InFlight(t) <= pending[t] /\ Cardinality(RaisedTo(t)) \in Nat
    BY <2>1, RaisedFinite DEF PendingCovers
  <2>9. InFlight(t)' <= pending'[t]
    <3>1. /\ Len(chan[t]) \in Nat /\ Unretired(t) \in Nat /\ SupOwes(t) \in Nat
          /\ pending[t] \in Int
      BY <2>1, PartsType
    <3>2. Cardinality(RaisedTo(t)) + Len(chan[t]) + Unretired(t) + SupOwes(t) <= pending[t]
      BY <2>8 DEF InFlight
    <3>3. InFlight(t)' = (Cardinality(RaisedTo(t)) + 1) + Len(chan[t]) + Unretired(t)
                           + SupOwes(t)
      BY <2>1, <2>5, <2>6, <2>7 DEF InFlight
    <3>4. (Cardinality(RaisedTo(t)) + 1) + Len(chan[t]) + Unretired(t) + SupOwes(t)
            <= pending[t] + 1
      BY <2>8, <3>1, <3>2, RisesByOne
    <3> QED
      BY <2>4, <3>3, <3>4
  <2>10. \A v \in Workers \ {t} : InFlight(v)' <= pending'[v]
    BY <2>3, <2>4, <2>5, <2>6, Framed, PartsType
  <2> QED
    BY <2>9, <2>10 DEF PendingCovers
<1>9. ASSUME NEW w \in Workers, SendRecheck(w) PROVE PendingCovers'
  <2>1. \A v \in Workers : RaisedTo(v)' \subseteq RaisedTo(v)
    BY <1>9 DEF SendRecheck, Go, RaisedTo, Raised, TypeOK, LocalsType
  <2>2. \A v \in Workers : Unretired(v)' <= Unretired(v)
    BY <1>9 DEF SendRecheck, Go, Unretired, TakenWithin, Flow, Starting, Running, Raised,
         TypeOK, PageType, LocalsType
  <2>3. \A v \in Workers : SupOwes(v)' <= SupOwes(v)
    BY <1>9 DEF SendRecheck, SupOwes, TypeOK, SupType
  <2>4. UNCHANGED <<pending, chan>>
    BY <1>9 DEF SendRecheck
  <2> QED
    BY <2>1, <2>2, <2>3, <2>4, Framed, PartsType DEF PendingCovers
<1>10. ASSUME NEW w \in Workers, SendPost(w) PROVE PendingCovers'
  <2>0. PICK t \in Workers : t = target[w]
    BY <1>10 DEF SendPost, Go, Flow, Raised
  <2>1. t \in Workers /\ hand[w] \in Conns /\ pc[w] = "post" /\ Resume(w) \in {"handoffs",
           "accept"}
    BY <1>10, <2>0 DEF SendPost, Go, Flow, Raised, Resume
  <2>2. RaisedTo(t)' = RaisedTo(t) \ {w} /\ w \in RaisedTo(t)
    BY <1>10, <2>0, <2>1, ConstantsAssumption DEF SendPost, Go, RaisedTo, Raised, TypeOK,
         LocalsType
  <2>3. \A v \in Workers \ {t} : RaisedTo(v)' \subseteq RaisedTo(v)
    BY <1>10, <2>0, <2>1 DEF SendPost, Go, RaisedTo, Raised, TypeOK, LocalsType
  <2>4. chan'[t] = Append(chan[t], hand[w]) /\ \A v \in Workers \ {t} : chan'[v] = chan[v]
    BY <1>10, <2>0, <2>1 DEF SendPost, TypeOK, KernelType
  <2>5. Len(chan'[t]) = Len(chan[t]) + 1
    BY <2>1, <2>4 DEF TypeOK, KernelType
  <2>6. \A v \in Workers : Unretired(v)' = Unretired(v)
    BY <1>10, <2>0, <2>1 DEF SendPost, Go, Unretired, TypeOK, LocalsType
  <2>7. UNCHANGED pending /\ \A v \in Workers : SupOwes(v)' = SupOwes(v)
    BY <1>10, <2>0 DEF SendPost, SupOwes
  <2>8. Cardinality(RaisedTo(t)') = Cardinality(RaisedTo(t)) - 1
    BY <2>1, <2>2, RaisedFinite, FS_RemoveElement
  <2>9. InFlight(t) <= pending[t] /\ Cardinality(RaisedTo(t)) \in Nat
    BY <2>1, RaisedFinite DEF PendingCovers
  <2>10. InFlight(t)' <= pending'[t]
    <3>1. /\ Len(chan[t]) \in Nat /\ Unretired(t) \in Nat /\ SupOwes(t) \in Nat
          /\ pending[t] \in Int
      BY PartsType
    <3>2. InFlight(t)' = InFlight(t)
      BY <2>5, <2>6, <2>7, <2>8, <2>9, <3>1 DEF InFlight
    <3> QED
      BY <2>7, <2>9, <3>2
  <2>11. \A v \in Workers \ {t} : InFlight(v)' <= pending'[v]
    BY <2>3, <2>4, <2>6, <2>7, Framed, PartsType
  <2> QED
    BY <2>10, <2>11 DEF PendingCovers
<1>11. ASSUME NEW w \in Workers, SendFails(w) PROVE PendingCovers'
  <2>1. \A v \in Workers : RaisedTo(v)' \subseteq RaisedTo(v)
    BY <1>11 DEF SendFails, Go, RaisedTo, Raised, TypeOK, LocalsType
  <2>2. \A v \in Workers : Unretired(v)' <= Unretired(v)
    BY <1>11 DEF SendFails, Go, Unretired, TakenWithin, Flow, Starting, Running, Raised,
         TypeOK, PageType, LocalsType
  <2>3. \A v \in Workers : SupOwes(v)' <= SupOwes(v)
    BY <1>11 DEF SendFails, SupOwes, TypeOK, SupType
  <2>4. UNCHANGED <<pending, chan>>
    BY <1>11 DEF SendFails
  <2> QED
    BY <2>1, <2>2, <2>3, <2>4, Framed, PartsType DEF PendingCovers
<1>12. ASSUME NEW w \in Workers, SendTakeBack(w) PROVE PendingCovers'
  <2>0. PICK t \in Workers : t = target[w]
    BY <1>12 DEF SendTakeBack, Go, Flow, Raised
  <2>1. t \in Workers /\ pc[w] = "takeback" /\ Resume(w) \in {"handoffs", "accept"}
    BY <1>12, <2>0 DEF SendTakeBack, Go, Flow, Raised, Resume
  <2>2. RaisedTo(t)' = RaisedTo(t) \ {w} /\ w \in RaisedTo(t)
    BY <1>12, <2>0, <2>1, ConstantsAssumption DEF SendTakeBack, Go, RaisedTo, Raised,
         TypeOK, LocalsType
  <2>3. \A v \in Workers \ {t} : RaisedTo(v)' \subseteq RaisedTo(v)
    BY <1>12, <2>0, <2>1 DEF SendTakeBack, Go, RaisedTo, Raised, TypeOK, LocalsType
  <2>4. pending'[t] = pending[t] - 1 /\ \A v \in Workers \ {t} : pending'[v] = pending[v]
    BY <1>12, <2>0, <2>1 DEF SendTakeBack, TypeOK, PageType
  <2>5. \A v \in Workers : Unretired(v)' = Unretired(v)
    BY <1>12, <2>0, <2>1 DEF SendTakeBack, Go, Unretired, TypeOK, LocalsType
  <2>6. UNCHANGED chan /\ \A v \in Workers : SupOwes(v)' = SupOwes(v)
    BY <1>12, <2>0 DEF SendTakeBack, SupOwes
  <2>7. Cardinality(RaisedTo(t)') = Cardinality(RaisedTo(t)) - 1
    BY <2>1, <2>2, RaisedFinite, FS_RemoveElement
  <2>8. InFlight(t) <= pending[t] /\ Cardinality(RaisedTo(t)) \in Nat
    BY <2>1, RaisedFinite DEF PendingCovers
  <2>9. InFlight(t)' <= pending'[t]
    <3>1. /\ Len(chan[t]) \in Nat /\ Unretired(t) \in Nat /\ SupOwes(t) \in Nat
          /\ pending[t] \in Int
      BY <2>1, PartsType
    <3>2. Cardinality(RaisedTo(t)) + Len(chan[t]) + Unretired(t) + SupOwes(t) <= pending[t]
      BY <2>8 DEF InFlight
    <3>3. InFlight(t)' = (Cardinality(RaisedTo(t)) - 1) + Len(chan[t]) + Unretired(t)
                           + SupOwes(t)
      BY <2>1, <2>5, <2>6, <2>7 DEF InFlight
    <3>4. (Cardinality(RaisedTo(t)) - 1) + Len(chan[t]) + Unretired(t) + SupOwes(t)
            <= pending[t] - 1
      BY <2>8, <3>1, <3>2, RisesByOne
    <3> QED
      BY <2>4, <3>3, <3>4
  <2>10. \A v \in Workers \ {t} : InFlight(v)' <= pending'[v]
    BY <2>3, <2>4, <2>5, <2>6, Framed, PartsType
  <2> QED
    BY <2>9, <2>10 DEF PendingCovers
<1>13. ASSUME NEW w \in Workers, Receive(w) PROVE PendingCovers'
  <2>1. \A v \in Workers : RaisedTo(v)' \subseteq RaisedTo(v)
    BY <1>13 DEF Receive, Go, RaisedTo, Raised, TypeOK, LocalsType
  <2>2. UNCHANGED pending /\ \A v \in Workers : SupOwes(v)' = SupOwes(v)
    BY <1>13 DEF Receive, SupOwes
  <2>3. \A v \in Workers \ {w} : Unretired(v)' = Unretired(v) /\ chan'[v] = chan[v]
    BY <1>13 DEF Receive, Go, Unretired, TypeOK, LocalsType, KernelType
  <2>4. Unretired(w) = drained[w] /\ Unretired(w)' = drained[w] + 1
    BY <1>13 DEF Receive, Go, Unretired, TypeOK, LocalsType
  <2>5. chan'[w] = Tail(chan[w]) /\ chan[w] # <<>> /\ chan[w] \in Seq(Conns)
    BY <1>13 DEF Receive, TypeOK, KernelType
  <2>6. Len(chan'[w]) = Len(chan[w]) - 1
    BY <2>5
  <2>7. drained[w] \in Nat
    BY DEF TypeOK, LocalsType
  <2>8. InFlight(w)' <= pending'[w]
    <3>1. Len(chan'[w]) + Unretired(w)' + SupOwes(w)' - pending'[w]
            <= Len(chan[w]) + Unretired(w) + SupOwes(w) - pending[w]
      <4>1. Len(chan[w]) \in Nat /\ SupOwes(w) \in Nat /\ pending[w] \in Int
        BY PartsType
      <4>2. (Len(chan[w]) - 1) + (drained[w] + 1) + SupOwes(w) - pending[w]
              <= Len(chan[w]) + drained[w] + SupOwes(w) - pending[w]
        BY <2>7, <4>1, TradesPlaces
      <4> QED
        BY <2>2, <2>4, <2>6, <4>2
    <3> QED
      BY <2>1, <3>1, Covered
  <2>9. \A v \in Workers \ {w} : InFlight(v)' <= pending'[v]
    BY <2>1, <2>2, <2>3, Framed, PartsType
  <2> QED
    BY <2>8, <2>9 DEF PendingCovers
<1>14. ASSUME NEW w \in Workers, Publish(w) PROVE PendingCovers'
  <2>1. \A v \in Workers : RaisedTo(v)' \subseteq RaisedTo(v)
    BY <1>14 DEF Publish, Go, RaisedTo, Raised, TypeOK, LocalsType
  <2>2. \A v \in Workers : Unretired(v)' <= Unretired(v)
    BY <1>14 DEF Publish, Go, Unretired, TakenWithin, Flow, Starting, Running, Raised,
         TypeOK, PageType, LocalsType
  <2>3. \A v \in Workers : SupOwes(v)' <= SupOwes(v)
    BY <1>14 DEF Publish, SupOwes, TypeOK, SupType
  <2>4. UNCHANGED <<pending, chan>>
    BY <1>14 DEF Publish
  <2> QED
    BY <2>1, <2>2, <2>3, <2>4, Framed, PartsType DEF PendingCovers
<1>15. ASSUME NEW w \in Workers, NEW t \in Workers, Route(w, t) PROVE PendingCovers'
  <2>1. \A v \in Workers : RaisedTo(v)' \subseteq RaisedTo(v)
    BY <1>15 DEF Route, Go, RaisedTo, Raised, TypeOK, LocalsType
  <2>2. \A v \in Workers : Unretired(v)' <= Unretired(v)
    BY <1>15 DEF Route, Go, Unretired, TakenWithin, Flow, Starting, Running, Raised,
         TypeOK, PageType, LocalsType
  <2>3. \A v \in Workers : SupOwes(v)' <= SupOwes(v)
    BY <1>15 DEF Route, SupOwes, TypeOK, SupType
  <2>4. UNCHANGED <<pending, chan>>
    BY <1>15 DEF Route
  <2> QED
    BY <2>1, <2>2, <2>3, <2>4, Framed, PartsType DEF PendingCovers
<1>16. ASSUME NEW w \in Workers, NEW S \in SUBSET held[w], HandoffsDone(w, S)
         PROVE PendingCovers'
  <2>1. \A v \in Workers : RaisedTo(v)' \subseteq RaisedTo(v)
    BY <1>16 DEF HandoffsDone, Go, RaisedTo, Raised, TypeOK, LocalsType
  <2>2. \A v \in Workers : Unretired(v)' <= Unretired(v)
    BY <1>16 DEF HandoffsDone, Go, Unretired, TakenWithin, Flow, Starting, Running,
         Raised, TypeOK, PageType, LocalsType
  <2>3. \A v \in Workers : SupOwes(v)' <= SupOwes(v)
    BY <1>16 DEF HandoffsDone, SupOwes, TypeOK, SupType
  <2>4. UNCHANGED <<pending, chan>>
    BY <1>16 DEF HandoffsDone
  <2> QED
    BY <2>1, <2>2, <2>3, <2>4, Framed, PartsType DEF PendingCovers
<1>17. ASSUME NEW w \in Workers, EndTake(w) PROVE PendingCovers'
  <2>1. \A v \in Workers : RaisedTo(v)' \subseteq RaisedTo(v)
    BY <1>17 DEF EndTake, Go, RaisedTo, Raised, TypeOK, LocalsType
  <2>2. \A v \in Workers : Unretired(v)' <= Unretired(v)
    BY <1>17 DEF EndTake, Go, Unretired, TakenWithin, Flow, Starting, Running, Raised,
         TypeOK, PageType, LocalsType
  <2>3. \A v \in Workers : SupOwes(v)' <= SupOwes(v)
    BY <1>17 DEF EndTake, SupOwes, TypeOK, SupType
  <2>4. UNCHANGED <<pending, chan>>
    BY <1>17 DEF EndTake
  <2> QED
    BY <2>1, <2>2, <2>3, <2>4, Framed, PartsType DEF PendingCovers
<1>18. ASSUME NEW w \in Workers, EndRetire(w) PROVE PendingCovers'
  <2>1. phase[w] \in {"run", "stop", "drain"} /\ drained[w] \in Nat /\ pending[w] \in Int
    BY <1>18 DEF EndRetire, Go, Flow, TypeOK, LocalsType, Phases, PageType
  <2>2. \A v \in Workers : RaisedTo(v)' \subseteq RaisedTo(v)
    BY <1>18, <2>1 DEF EndRetire, Go, RaisedTo, Raised, TypeOK, LocalsType
  <2>3. UNCHANGED chan /\ \A v \in Workers : SupOwes(v)' = SupOwes(v)
    BY <1>18 DEF EndRetire, SupOwes
  <2>4. \A v \in Workers \ {w} : Unretired(v)' = Unretired(v) /\ pending'[v] = pending[v]
    BY <1>18 DEF EndRetire, Go, Unretired, TypeOK, PageType, LocalsType
  <2>5. Unretired(w) = drained[w]
    BY <1>18 DEF EndRetire, Go, Unretired
  <2>6. Unretired(w)' = 0
    BY <1>18, <2>1 DEF EndRetire, Go, Unretired, TypeOK, LocalsType
  <2>7. pending'[w] >= pending[w] - drained[w]
    BY <1>18, <2>1 DEF EndRetire, Floor, TypeOK, PageType
  <2>8. InFlight(w)' <= pending'[w]
    <3>1. Len(chan[w]) \in Nat /\ SupOwes(w) \in Nat /\ pending'[w] \in Int
      BY PartsType, PartsTypeNext
    <3>2. Len(chan[w]) + 0 + SupOwes(w) - pending'[w]
            <= Len(chan[w]) + drained[w] + SupOwes(w) - pending[w]
      BY <2>1, <2>7, <3>1, Settles
    <3>3. Len(chan'[w]) + Unretired(w)' + SupOwes(w)' - pending'[w]
            <= Len(chan[w]) + Unretired(w) + SupOwes(w) - pending[w]
      BY <2>3, <2>5, <2>6, <3>2
    <3> QED
      BY <2>2, <3>3, Covered
  <2>9. \A v \in Workers \ {w} : InFlight(v)' <= pending'[v]
    BY <2>2, <2>3, <2>4, Framed, PartsType
  <2> QED
    BY <2>8, <2>9 DEF PendingCovers
<1>19. ASSUME NEW w \in Workers, Leave(w) PROVE PendingCovers'
  <2>1. \A v \in Workers : RaisedTo(v)' \subseteq RaisedTo(v)
    BY <1>19 DEF Leave, Go, RaisedTo, Raised, TypeOK, LocalsType
  <2>2. \A v \in Workers : Unretired(v)' <= Unretired(v)
    BY <1>19 DEF Leave, Go, Unretired, TakenWithin, Flow, Starting, Running, Raised,
         TypeOK, PageType, LocalsType
  <2>3. \A v \in Workers : SupOwes(v)' <= SupOwes(v)
    BY <1>19 DEF Leave, SupOwes, TypeOK, SupType
  <2>4. UNCHANGED <<pending, chan>>
    BY <1>19 DEF Leave
  <2> QED
    BY <2>1, <2>2, <2>3, <2>4, Framed, PartsType DEF PendingCovers
<1>20. ASSUME NEW w \in Workers, DrainOver(w) PROVE PendingCovers'
  <2>1. \A v \in Workers : RaisedTo(v)' \subseteq RaisedTo(v)
    BY <1>20 DEF DrainOver, Go, RaisedTo, Raised, TypeOK, LocalsType
  <2>2. \A v \in Workers : Unretired(v)' <= Unretired(v)
    BY <1>20 DEF DrainOver, Go, Unretired, TakenWithin, Flow, Starting, Running, Raised,
         TypeOK, PageType, LocalsType
  <2>3. \A v \in Workers : SupOwes(v)' <= SupOwes(v)
    BY <1>20 DEF DrainOver, SupOwes, TypeOK, SupType
  <2>4. UNCHANGED <<pending, chan>>
    BY <1>20 DEF DrainOver
  <2> QED
    BY <2>1, <2>2, <2>3, <2>4, Framed, PartsType DEF PendingCovers
<1>21. ASSUME NEW w \in Workers, DrainExpires(w) PROVE PendingCovers'
  <2>1. \A v \in Workers : RaisedTo(v)' \subseteq RaisedTo(v)
    BY <1>21 DEF DrainExpires, Go, RaisedTo, Raised, TypeOK, LocalsType
  <2>2. \A v \in Workers : Unretired(v)' <= Unretired(v)
    BY <1>21 DEF DrainExpires, Go, Unretired, TakenWithin, Flow, Starting, Running,
         Raised, TypeOK, PageType, LocalsType
  <2>3. \A v \in Workers : SupOwes(v)' <= SupOwes(v)
    BY <1>21 DEF DrainExpires, SupOwes, TypeOK, SupType
  <2>4. UNCHANGED <<pending, chan>>
    BY <1>21 DEF DrainExpires
  <2> QED
    BY <2>1, <2>2, <2>3, <2>4, Framed, PartsType DEF PendingCovers
<1>22. ASSUME NEW w \in Workers, NEW S \in SUBSET held[w], DrainPass(w, S)
         PROVE PendingCovers'
  <2>1. \A v \in Workers : RaisedTo(v)' \subseteq RaisedTo(v)
    BY <1>22 DEF DrainPass, Go, RaisedTo, Raised, TypeOK, LocalsType
  <2>2. \A v \in Workers : Unretired(v)' <= Unretired(v)
    BY <1>22 DEF DrainPass, Go, Unretired, TakenWithin, Flow, Starting, Running, Raised,
         TypeOK, PageType, LocalsType
  <2>3. \A v \in Workers : SupOwes(v)' <= SupOwes(v)
    BY <1>22 DEF DrainPass, SupOwes, TypeOK, SupType
  <2>4. UNCHANGED <<pending, chan>>
    BY <1>22 DEF DrainPass
  <2> QED
    BY <2>1, <2>2, <2>3, <2>4, Framed, PartsType DEF PendingCovers
<1>23. ASSUME NEW w \in Workers, Exit(w) PROVE PendingCovers'
  <2>1. drained[w] \in Nat /\ pending[w] \in Int /\ taken[w] = 0
    BY <1>23 DEF Exit, TakenWithin, TypeOK, LocalsType, PageType
  <2>2. \A v \in Workers : RaisedTo(v)' \subseteq RaisedTo(v)
    BY <1>23 DEF Exit, ProcessEnds, RaisedTo, Raised, TypeOK, LocalsType
  <2>3. UNCHANGED chan /\ \A v \in Workers : SupOwes(v)' = SupOwes(v)
    BY <1>23 DEF Exit, ProcessEnds, SupOwes
  <2>4. \A v \in Workers \ {w} : Unretired(v)' = Unretired(v) /\ pending'[v] = pending[v]
    BY <1>23 DEF Exit, ProcessEnds, Unretired, TypeOK, PageType, LocalsType
  <2>5. Unretired(w) = drained[w]
    BY <1>23 DEF Exit, Unretired
  <2>6. Unretired(w)' = 0
    BY <1>23, <2>1 DEF Exit, ProcessEnds, Unretired, TypeOK, LocalsType
  <2>7. pending'[w] >= pending[w] - drained[w]
    BY <1>23, <2>1 DEF Exit, Floor, TypeOK, PageType
  <2>8. InFlight(w)' <= pending'[w]
    <3>1. Len(chan[w]) \in Nat /\ SupOwes(w) \in Nat /\ pending'[w] \in Int
      BY PartsType, PartsTypeNext
    <3>2. Len(chan[w]) + 0 + SupOwes(w) - pending'[w]
            <= Len(chan[w]) + drained[w] + SupOwes(w) - pending[w]
      BY <2>1, <2>7, <3>1, Settles
    <3>3. Len(chan'[w]) + Unretired(w)' + SupOwes(w)' - pending'[w]
            <= Len(chan[w]) + Unretired(w) + SupOwes(w) - pending[w]
      BY <2>3, <2>5, <2>6, <3>2
    <3> QED
      BY <2>2, <3>3, Covered
  <2>9. \A v \in Workers \ {w} : InFlight(v)' <= pending'[v]
    BY <2>2, <2>3, <2>4, Framed, PartsType
  <2> QED
    BY <2>8, <2>9 DEF PendingCovers
<1>24. ASSUME NEW w \in Workers, Declines(w) PROVE PendingCovers'
  <2>1. \A v \in Workers : RaisedTo(v)' \subseteq RaisedTo(v)
    BY <1>24 DEF Declines, ProcessEnds, RaisedTo, Raised, TypeOK, LocalsType
  <2>2. \A v \in Workers : Unretired(v)' <= Unretired(v)
    BY <1>24 DEF Declines, ProcessEnds, Unretired, TakenWithin, Flow, Starting, Running,
         Raised, TypeOK, PageType, LocalsType
  <2>3. \A v \in Workers : SupOwes(v)' <= SupOwes(v)
    BY <1>24 DEF Declines, ProcessEnds, SupOwes, TypeOK, SupType
  <2>4. UNCHANGED <<pending, chan>>
    BY <1>24 DEF Declines, ProcessEnds
  <2> QED
    BY <2>1, <2>2, <2>3, <2>4, Framed, PartsType DEF PendingCovers
<1>25. ASSUME NEW w \in Workers, StoppedUnarmed(w) PROVE PendingCovers'
  <2>1. \A v \in Workers : RaisedTo(v)' \subseteq RaisedTo(v)
    BY <1>25 DEF StoppedUnarmed, ProcessEnds, RaisedTo, Raised, TypeOK, LocalsType
  <2>2. \A v \in Workers : Unretired(v)' <= Unretired(v)
    BY <1>25 DEF StoppedUnarmed, ProcessEnds, Unretired, TakenWithin, Flow, Starting,
         Running, Raised, TypeOK, PageType, LocalsType
  <2>3. \A v \in Workers : SupOwes(v)' <= SupOwes(v)
    BY <1>25 DEF StoppedUnarmed, ProcessEnds, SupOwes, TypeOK, SupType
  <2>4. UNCHANGED <<pending, chan>>
    BY <1>25 DEF StoppedUnarmed, ProcessEnds
  <2> QED
    BY <2>1, <2>2, <2>3, <2>4, Framed, PartsType DEF PendingCovers
<1>26. ASSUME NEW w \in Workers, RefusesConfig(w) PROVE PendingCovers'
  <2>1. \A v \in Workers : RaisedTo(v)' \subseteq RaisedTo(v)
    BY <1>26 DEF RefusesConfig, ProcessEnds, RaisedTo, Raised, TypeOK, LocalsType
  <2>2. \A v \in Workers : Unretired(v)' <= Unretired(v)
    BY <1>26 DEF RefusesConfig, ProcessEnds, Unretired, TakenWithin, Flow, Starting,
         Running, Raised, TypeOK, PageType, LocalsType
  <2>3. \A v \in Workers : SupOwes(v)' <= SupOwes(v)
    BY <1>26 DEF RefusesConfig, ProcessEnds, SupOwes, TypeOK, SupType
  <2>4. UNCHANGED <<pending, chan>>
    BY <1>26 DEF RefusesConfig, ProcessEnds
  <2> QED
    BY <2>1, <2>2, <2>3, <2>4, Framed, PartsType DEF PendingCovers
<1>27. ASSUME NEW w \in Workers, Killed(w) PROVE PendingCovers'
  <2>1. \A v \in Workers : RaisedTo(v)' \subseteq RaisedTo(v)
    BY <1>27 DEF Killed, ProcessEnds, RaisedTo, Raised, TypeOK, LocalsType
  <2>2. \A v \in Workers : Unretired(v)' <= Unretired(v)
    BY <1>27 DEF Killed, ProcessEnds, Unretired, TakenWithin, Flow, Starting, Running,
         Raised, TypeOK, PageType, LocalsType
  <2>3. \A v \in Workers : SupOwes(v)' <= SupOwes(v)
    BY <1>27 DEF Killed, ProcessEnds, SupOwes, TypeOK, SupType
  <2>4. UNCHANGED <<pending, chan>>
    BY <1>27 DEF Killed, ProcessEnds
  <2> QED
    BY <2>1, <2>2, <2>3, <2>4, Framed, PartsType DEF PendingCovers
<1>28. ASSUME StopServer PROVE PendingCovers'
  <2>1. \A v \in Workers : RaisedTo(v)' \subseteq RaisedTo(v)
    BY <1>28 DEF StopServer, Signalled, RaisedTo, Raised, TypeOK, LocalsType
  <2>2. \A v \in Workers : Unretired(v)' <= Unretired(v)
    BY <1>28 DEF StopServer, Signalled, Unretired, TakenWithin, Flow, Starting, Running,
         Raised, TypeOK, PageType, LocalsType
  <2>3. \A v \in Workers : SupOwes(v)' <= SupOwes(v)
    BY <1>28 DEF StopServer, SupOwes, TypeOK, SupType
  <2>4. UNCHANGED <<pending, chan>>
    BY <1>28 DEF StopServer
  <2> QED
    BY <2>1, <2>2, <2>3, <2>4, Framed, PartsType DEF PendingCovers
<1>29. ASSUME NEW w \in Workers, StopOne(w) PROVE PendingCovers'
  <2>1. \A v \in Workers : RaisedTo(v)' \subseteq RaisedTo(v)
    BY <1>29 DEF StopOne, Signalled, RaisedTo, Raised, TypeOK, LocalsType
  <2>2. \A v \in Workers : Unretired(v)' <= Unretired(v)
    BY <1>29 DEF StopOne, Signalled, Unretired, TakenWithin, Flow, Starting, Running,
         Raised, TypeOK, PageType, LocalsType
  <2>3. \A v \in Workers : SupOwes(v)' <= SupOwes(v)
    BY <1>29 DEF StopOne, SupOwes, TypeOK, SupType
  <2>4. UNCHANGED <<pending, chan>>
    BY <1>29 DEF StopOne
  <2> QED
    BY <2>1, <2>2, <2>3, <2>4, Framed, PartsType DEF PendingCovers
<1>30. ASSUME NEW w \in Workers, Reap(w) PROVE PendingCovers'
  <2>1. \A v \in Workers : RaisedTo(v)' \subseteq RaisedTo(v)
    BY <1>30 DEF Reap, Signalled, RaisedTo, Raised, TypeOK, LocalsType
  <2>2. \A v \in Workers : Unretired(v)' <= Unretired(v)
    BY <1>30 DEF Reap, Signalled, Unretired, TakenWithin, Flow, Starting, Running, Raised,
         TypeOK, PageType, LocalsType
  <2>3. \A v \in Workers : SupOwes(v)' <= SupOwes(v)
    BY <1>30 DEF Reap, SupOwes, TypeOK, SupType, Reaping
  <2>4. UNCHANGED <<pending, chan>>
    BY <1>30 DEF Reap
  <2> QED
    BY <2>1, <2>2, <2>3, <2>4, Framed, PartsType DEF PendingCovers
<1>31. ASSUME DeclineRespawn PROVE PendingCovers'
  <2>1. \A v \in Workers : RaisedTo(v)' \subseteq RaisedTo(v)
    BY <1>31 DEF DeclineRespawn, RaisedTo, Raised, TypeOK, LocalsType
  <2>2. \A v \in Workers : Unretired(v)' <= Unretired(v)
    BY <1>31 DEF DeclineRespawn, Unretired, TakenWithin, Flow, Starting, Running, Raised,
         TypeOK, PageType, LocalsType
  <2>3. \A v \in Workers : SupOwes(v)' <= SupOwes(v)
    BY <1>31 DEF DeclineRespawn, SupOwes, TypeOK, SupType, Reaping
  <2>4. UNCHANGED <<pending, chan>>
    BY <1>31 DEF DeclineRespawn
  <2> QED
    BY <2>1, <2>2, <2>3, <2>4, Framed, PartsType DEF PendingCovers
<1>32. ASSUME Respawn PROVE PendingCovers'
  <2>1. \A v \in Workers : RaisedTo(v)' \subseteq RaisedTo(v)
    BY <1>32 DEF Respawn, Fork, RaisedTo, Raised, TypeOK, LocalsType
  <2>2. \A v \in Workers : Unretired(v)' <= Unretired(v)
    BY <1>32 DEF Respawn, Fork, Unretired, TakenWithin, Flow, Starting, Running, Raised,
         TypeOK, PageType, LocalsType
  <2>3. \A v \in Workers : SupOwes(v)' <= SupOwes(v)
    BY <1>32 DEF Respawn, SupOwes, TypeOK, SupType, Reaping
  <2>4. UNCHANGED <<pending, chan>>
    BY <1>32 DEF Respawn
  <2> QED
    BY <2>1, <2>2, <2>3, <2>4, Framed, PartsType DEF PendingCovers
<1>33. ASSUME GiveUp PROVE PendingCovers'
  <2>1. \A v \in Workers : RaisedTo(v)' \subseteq RaisedTo(v)
    BY <1>33 DEF GiveUp, RaisedTo, Raised, TypeOK, LocalsType
  <2>2. \A v \in Workers : Unretired(v)' <= Unretired(v)
    BY <1>33 DEF GiveUp, Unretired, TakenWithin, Flow, Starting, Running, Raised, TypeOK,
         PageType, LocalsType
  <2>3. \A v \in Workers : SupOwes(v)' <= SupOwes(v)
    BY <1>33 DEF GiveUp, SupOwes, TypeOK, SupType
  <2>4. UNCHANGED <<pending, chan>>
    BY <1>33 DEF GiveUp
  <2> QED
    BY <2>1, <2>2, <2>3, <2>4, Framed, PartsType DEF PendingCovers
<1>34. ASSUME CloseReaped PROVE PendingCovers'
  <2>0. PICK w \in Workers : w = supWorker
    BY <1>34 DEF CloseReaped, Reaping
  <2>1. w \in Workers
    BY <1>34 DEF CloseReaped, Reaping
  <2>2. \A v \in Workers : RaisedTo(v)' = RaisedTo(v) /\ Unretired(v)' = Unretired(v)
    BY <1>34, <2>0 DEF CloseReaped, RaisedTo, Unretired
  <2>3. UNCHANGED pending
    BY <1>34, <2>0 DEF CloseReaped
  <2>4. \A v \in Workers \ {w} : SupOwes(v)' = SupOwes(v) /\ chan'[v] = chan[v]
    BY <1>34, <2>0 DEF CloseReaped, SupOwes, TypeOK, KernelType
  <2>5. SupOwes(w)' = SupOwes(w) + 1
    BY <1>34, <2>0 DEF CloseReaped, SupOwes, TypeOK, SupType
  <2>6. chan'[w] = Tail(chan[w]) /\ chan[w] # <<>> /\ chan[w] \in Seq(Conns)
    BY <1>34, <2>0, <2>1 DEF CloseReaped, TypeOK, KernelType
  <2>7. Len(chan'[w]) = Len(chan[w]) - 1
    BY <2>6
  <2>8. InFlight(w)' <= pending'[w]
    <3>1. Len(chan'[w]) + Unretired(w)' + SupOwes(w)' - pending'[w]
            <= Len(chan[w]) + Unretired(w) + SupOwes(w) - pending[w]
      BY <2>2, <2>3, <2>5, <2>7, PartsType
    <3> QED
      BY <2>2, <3>1, Covered
  <2>9. \A v \in Workers \ {w} : InFlight(v)' <= pending'[v]
    BY <2>2, <2>3, <2>4, Framed, PartsType
  <2> QED
    BY <2>8, <2>9 DEF PendingCovers
<1>35. ASSUME CloseReapedEnds PROVE PendingCovers'
  <2>1. \A v \in Workers : RaisedTo(v)' \subseteq RaisedTo(v)
    BY <1>35 DEF CloseReapedEnds, ReapedSettled, RaisedTo, Raised, TypeOK, LocalsType
  <2>2. \A v \in Workers : Unretired(v)' <= Unretired(v)
    BY <1>35 DEF CloseReapedEnds, ReapedSettled, Unretired, TakenWithin, Flow, Starting,
         Running, Raised, TypeOK, PageType, LocalsType
  <2>3. \A v \in Workers : SupOwes(v)' <= SupOwes(v)
    BY <1>35 DEF CloseReapedEnds, SupOwes, TypeOK, SupType
  <2>4. UNCHANGED <<pending, chan>>
    BY <1>35 DEF CloseReapedEnds
  <2> QED
    BY <2>1, <2>2, <2>3, <2>4, Framed, PartsType DEF PendingCovers
<1>36. ASSUME CloseReapedTake PROVE PendingCovers'
  <2>0. PICK w \in Workers : w = supWorker
    BY <1>36 DEF CloseReapedTake, Reaping
  <2>1. w \in Workers /\ pc[w] = "off"
    BY <1>36, <2>0 DEF CloseReapedTake, Reaping, Flow
  <2>2. \A v \in Workers : RaisedTo(v)' = RaisedTo(v)
    BY <1>36, <2>0 DEF CloseReapedTake, RaisedTo
  <2>3. UNCHANGED <<pending, chan>>
    BY <1>36, <2>0 DEF CloseReapedTake
  <2>4. \A v \in Workers \ {w} : SupOwes(v)' = SupOwes(v) /\ Unretired(v)' = Unretired(v)
    BY <1>36, <2>0 DEF CloseReapedTake, SupOwes, Unretired, TypeOK, PageType
  <2>5. SupOwes(w)' = supReceived + taken[w] /\ SupOwes(w) >= supReceived
    BY <1>36, <2>0, <2>1 DEF CloseReapedTake, SupOwes, TypeOK, SupType
  <2>6. Unretired(w) = taken[w] /\ Unretired(w)' = 0
    BY <1>36, <2>0, <2>1 DEF CloseReapedTake, Unretired, TypeOK, PageType
  <2>7. supReceived \in Nat /\ taken[w] \in Nat
    BY <2>1 DEF TypeOK, SupType, PageType
  <2>8. InFlight(w)' <= pending'[w]
    BY <2>1, <2>2, <2>3, <2>5, <2>6, <2>7, Covered, PartsType
  <2>9. \A v \in Workers \ {w} : InFlight(v)' <= pending'[v]
    BY <2>2, <2>3, <2>4, Framed, PartsType
  <2> QED
    BY <2>8, <2>9 DEF PendingCovers
<1>37. ASSUME CloseReapedRetire PROVE PendingCovers'
  <2>0. PICK w \in Workers : w = supWorker
    BY <1>37 DEF CloseReapedRetire, Reaping
  <2>1. w \in Workers
    BY <1>37 DEF CloseReapedRetire, Reaping
  <2>2. \A v \in Workers : RaisedTo(v)' = RaisedTo(v) /\ Unretired(v)' = Unretired(v)
    BY <1>37, <2>0 DEF CloseReapedRetire, RaisedTo, Unretired
  <2>3. UNCHANGED chan
    BY <1>37, <2>0 DEF CloseReapedRetire
  <2>4. \A v \in Workers \ {w} : pending'[v] = pending[v]
    BY <1>37, <2>0 DEF CloseReapedRetire, TypeOK, PageType
  <2>5. \A v \in Workers : SupOwes(v)' = 0
    BY <1>37, <2>0, ConstantsAssumption DEF CloseReapedRetire, SupOwes
  <2>6. SupOwes(w) = supTook + supReceived
    BY <2>0 DEF SupOwes, TypeOK, SupType
  <2>7. supTook + supReceived \in Nat /\ pending[w] \in Int
    BY <2>1 DEF TypeOK, SupType, PageType
  <2>8. pending'[w] >= pending[w] - (supTook + supReceived)
    BY <1>37, <2>0, <2>1, <2>7 DEF CloseReapedRetire, Floor, TypeOK, PageType
  <2>9. InFlight(w)' <= pending'[w]
    BY <2>1, <2>2, <2>3, <2>5, <2>6, <2>7, <2>8, Covered, PartsType, PartsTypeNext
  <2>10. \A v \in Workers \ {w} : InFlight(v)' <= pending'[v]
    BY <2>2, <2>3, <2>4, <2>5, Framed, PartsType
  <2> QED
    BY <2>9, <2>10 DEF PendingCovers
<1>38. ASSUME ReloadBegin PROVE PendingCovers'
  <2>1. \A v \in Workers : RaisedTo(v)' \subseteq RaisedTo(v)
    BY <1>38 DEF ReloadBegin, Signalled, RaisedTo, Raised, TypeOK, LocalsType
  <2>2. \A v \in Workers : Unretired(v)' <= Unretired(v)
    BY <1>38 DEF ReloadBegin, Signalled, Unretired, TakenWithin, Flow, Starting, Running,
         Raised, TypeOK, PageType, LocalsType
  <2>3. \A v \in Workers : SupOwes(v)' <= SupOwes(v)
    BY <1>38 DEF ReloadBegin, SupOwes, TypeOK, SupType
  <2>4. UNCHANGED <<pending, chan>>
    BY <1>38 DEF ReloadBegin
  <2> QED
    BY <2>1, <2>2, <2>3, <2>4, Framed, PartsType DEF PendingCovers
<1>39. ASSUME ReloadFork PROVE PendingCovers'
  <2>1. \A v \in Workers : RaisedTo(v)' \subseteq RaisedTo(v)
    BY <1>39 DEF ReloadFork, Fork, RaisedTo, Raised, TypeOK, LocalsType
  <2>2. \A v \in Workers : Unretired(v)' <= Unretired(v)
    BY <1>39 DEF ReloadFork, Fork, Unretired, TakenWithin, Flow, Starting, Running,
         Raised, TypeOK, PageType, LocalsType
  <2>3. \A v \in Workers : SupOwes(v)' <= SupOwes(v)
    BY <1>39 DEF ReloadFork, SupOwes, TypeOK, SupType
  <2>4. UNCHANGED <<pending, chan>>
    BY <1>39 DEF ReloadFork
  <2> QED
    BY <2>1, <2>2, <2>3, <2>4, Framed, PartsType DEF PendingCovers
<1>40. ASSUME ServerEnds PROVE PendingCovers'
  <2>1. \A v \in Workers : RaisedTo(v)' = RaisedTo(v) /\ Unretired(v)' = Unretired(v)
    BY <1>40 DEF ServerEnds, RaisedTo, Unretired
  <2>2. UNCHANGED pending /\ \A v \in Workers : SupOwes(v)' = SupOwes(v)
    BY <1>40 DEF ServerEnds, SupOwes
  <2>3. \A v \in Workers : Len(chan'[v]) = 0
    BY <1>40 DEF ServerEnds
  <2> QED
    BY <2>1, <2>2, <2>3, Framed, PartsType DEF PendingCovers
<1>41. CASE UNCHANGED vars
  <2>1. \A v \in Workers : RaisedTo(v)' = RaisedTo(v) /\ Unretired(v)' = Unretired(v)
    BY <1>41 DEF vars, RaisedTo, Unretired
  <2>2. UNCHANGED <<chan, pending>> /\ \A v \in Workers : SupOwes(v)' = SupOwes(v)
    BY <1>41 DEF vars, SupOwes
  <2> QED
    BY <2>1, <2>2, Framed, PartsType DEF PendingCovers
<1>42. ASSUME NEW w \in Workers, Worker(w) PROVE PendingCovers'
  BY <1>42, <1>1, <1>2, <1>3, <1>4, <1>5, <1>6, <1>7, <1>8, <1>9, <1>10, <1>11, <1>12,
       <1>13, <1>14, <1>15, <1>16, <1>17, <1>18, <1>19, <1>20, <1>21, <1>22, <1>23, <1>24,
       <1>25 DEF Worker, Start, Send, Doors, Rounds, Drain, Ending
<1>43. CASE Supervisor
  BY <1>43, <1>30, <1>31, <1>32, <1>33, <1>34, <1>35, <1>36, <1>37, <1>39, <1>40
       DEF Supervisor
<1>44. CASE Environment
  BY <1>44, <1>26, <1>27, <1>28, <1>29, <1>38 DEF Environment
<1> QED
  BY <1>41, <1>42, <1>43, <1>44 DEF Next

-----------------------------------------------------------------------------
(* The handshake: a leaver that counts nothing more to come has an empty   *)
(* channel for good, because whoever raises its count now reads it left.   *)

\* Nothing in flight to a worker: an empty channel, and nobody about to
\* post.
LEMMA NothingInFlight ==
  ASSUME TypeOK, NEW w \in Workers,
         Cardinality(RaisedTo(w)) + Len(chan[w]) <= 0
  PROVE  Emptied(w)
<1>1. Len(chan[w]) \in Nat /\ Cardinality(RaisedTo(w)) \in Nat /\ chan[w] \in Seq(Conns)
  BY PartsType, RaisedFinite DEF TypeOK, KernelType
<1>2. Len(chan[w]) = 0 /\ Cardinality(RaisedTo(w)) = 0
  BY <1>1
<1>3. RaisedTo(w) = {}
  BY <1>2, RaisedFinite, FS_EmptySet
<1>4. chan[w] = <<>>
  BY <1>1, <1>2
<1> QED
  BY <1>3, <1>4 DEF Emptied, RaisedTo, Raised

\* A channel read for the last time belongs to a worker every sender reads
\* as left.
LEMMA SealedIsMarked ==
  ASSUME Flow, Reaping, LeaverIsMarked, NEW w \in Workers, Sealed(w)
  PROVE  state[w] = "left"
  BY DEF Sealed, LeaverIsMarked, Left, Reaping, Vacant

\* No step puts a connection on a sealed channel, or seals one that is not
\* empty.
LEMMA StrandedStep ==
  TypeOK /\ Flow /\ Reaping /\ PendingCovers /\ LeaverIsMarked /\ NothingStranded /\ [Next]_vars
    => NothingStranded'
<1> SUFFICES ASSUME TypeOK, Flow, Reaping, PendingCovers, LeaverIsMarked, NothingStranded,
         [Next]_vars,
           NEW v \in Workers, Sealed(v)'
  PROVE  Emptied(v)'
  BY DEF NothingStranded
<1> USE DEF page, locals, kernel, supLocal, procs, history
<1>1. ASSUME NEW w \in Workers, Bind(w) PROVE Emptied(v)'
  <2>1. Sealed(v)
    BY <1>1 DEF Sealed, Flow, Reaping, Bind, Go, Starting, Phases, Dead, Vacant, TypeOK,
         LocalsType, ProcsType, SupType
  <2> QED
    BY <1>1, <2>1 DEF NothingStranded, Emptied, Bind, Go, TypeOK, LocalsType, KernelType
<1>2. ASSUME NEW w \in Workers, StartPark(w) PROVE Emptied(v)'
  <2>1. Sealed(v)
    BY <1>2 DEF Sealed, Flow, Reaping, StartPark, Go, Starting, Phases, Dead, Vacant,
         TypeOK, LocalsType, ProcsType, SupType
  <2> QED
    BY <1>2, <2>1 DEF NothingStranded, Emptied, StartPark, Go, TypeOK, LocalsType,
         KernelType
<1>3. ASSUME NEW w \in Workers, StartTake(w) PROVE Emptied(v)'
  <2>1. Sealed(v)
    BY <1>3 DEF Sealed, Flow, Reaping, StartTake, Go, Starting, Phases, Dead, Vacant,
         TypeOK, LocalsType, ProcsType, SupType
  <2> QED
    BY <1>3, <2>1 DEF NothingStranded, Emptied, StartTake, Go, TypeOK, LocalsType,
         KernelType
<1>4. ASSUME NEW w \in Workers, StartRetire(w) PROVE Emptied(v)'
  <2>1. Sealed(v)
    BY <1>4 DEF Sealed, Flow, Reaping, StartRetire, Go, Starting, Phases, Dead, Vacant,
         TypeOK, LocalsType, ProcsType, SupType
  <2> QED
    BY <1>4, <2>1 DEF NothingStranded, Emptied, StartRetire, Go, TypeOK, LocalsType,
         KernelType
<1>5. ASSUME NEW w \in Workers, NEW S \in SUBSET held[w], PassBegin(w, S) PROVE Emptied(v)'
  <2>1. Sealed(v)
    BY <1>5 DEF Sealed, Flow, Reaping, PassBegin, Go, Starting, Phases, Dead, Vacant,
         TypeOK, LocalsType, ProcsType, SupType
  <2> QED
    BY <1>5, <2>1 DEF NothingStranded, Emptied, PassBegin, Go, TypeOK, LocalsType,
         KernelType
<1>6. ASSUME NEW w \in Workers, NEW c \in Conns, NEW t \in Workers, Accept(w, c, t)
         PROVE Emptied(v)'
  <2>1. Sealed(v)
    BY <1>6 DEF Sealed, Flow, Reaping, Accept, Go, Starting, Phases, Dead, Vacant, TypeOK,
         LocalsType, ProcsType, SupType
  <2> QED
    BY <1>6, <2>1 DEF NothingStranded, Emptied, Accept, Go, TypeOK, LocalsType, KernelType
<1>7. ASSUME NEW w \in Workers, AcceptDone(w) PROVE Emptied(v)'
  <2>1. Sealed(v)
    BY <1>7 DEF Sealed, Flow, Reaping, AcceptDone, Go, Starting, Phases, Dead, Vacant,
         TypeOK, LocalsType, ProcsType, SupType
  <2> QED
    BY <1>7, <2>1 DEF NothingStranded, Emptied, AcceptDone, Go, TypeOK, LocalsType,
         KernelType
<1>8. ASSUME NEW w \in Workers, SendRaise(w) PROVE Emptied(v)'
  <2>1. Sealed(v)
    BY <1>8 DEF Sealed, Flow, Reaping, SendRaise, Go, Starting, Phases, Dead, Vacant,
         TypeOK, LocalsType, ProcsType, SupType
  <2> QED
    BY <1>8, <2>1 DEF NothingStranded, Emptied, SendRaise, Go, TypeOK, LocalsType,
         KernelType
<1>9. ASSUME NEW w \in Workers, SendRecheck(w) PROVE Emptied(v)'
  <2>1. Sealed(v)
    BY <1>9 DEF Sealed, SendRecheck, Go, TypeOK, LocalsType
  <2>2. Emptied(v) /\ state[v] = "left"
    BY <2>1, SealedIsMarked DEF NothingStranded
  <2> QED
    BY <1>9, <2>2 DEF Emptied, SendRecheck, Go, TypeOK, LocalsType
<1>10. ASSUME NEW w \in Workers, SendPost(w) PROVE Emptied(v)'
  <2>1. Sealed(v)
    BY <1>10 DEF Sealed, SendPost, Go, Resume, TypeOK, LocalsType
  <2>2. Emptied(v) /\ target[w] # v
    BY <1>10, <2>1 DEF NothingStranded, Emptied, SendPost, Go
  <2>3. target[w] \in Workers
    BY <1>10 DEF SendPost, Go, Flow, Raised
  <2>4. chan'[v] = chan[v]
    BY <1>10, <2>2, <2>3 DEF SendPost, TypeOK, KernelType
  <2> QED
    BY <1>10, <2>2, <2>4, ConstantsAssumption DEF Emptied, SendPost, Go, Resume, TypeOK,
         LocalsType
<1>11. ASSUME NEW w \in Workers, SendFails(w) PROVE Emptied(v)'
  <2>1. Sealed(v)
    BY <1>11 DEF Sealed, Flow, Reaping, SendFails, Go, Starting, Phases, Dead, Vacant,
         TypeOK, LocalsType, ProcsType, SupType
  <2> QED
    BY <1>11, <2>1 DEF NothingStranded, Emptied, SendFails, Go, TypeOK, LocalsType,
         KernelType
<1>12. ASSUME NEW w \in Workers, SendTakeBack(w) PROVE Emptied(v)'
  <2>1. Sealed(v)
    BY <1>12 DEF Sealed, Flow, Reaping, SendTakeBack, Go, Resume, Starting, Phases, Dead,
         Vacant, TypeOK, LocalsType, ProcsType, SupType
  <2> QED
    BY <1>12, <2>1 DEF NothingStranded, Emptied, SendTakeBack, Go, Resume, TypeOK,
         LocalsType, KernelType
<1>13. ASSUME NEW w \in Workers, Receive(w) PROVE Emptied(v)'
  <2>1. Sealed(v)
    BY <1>13 DEF Sealed, Flow, Reaping, Receive, Go, Starting, Phases, Dead, Vacant,
         TypeOK, LocalsType, ProcsType, SupType
  <2> QED
    BY <1>13, <2>1 DEF NothingStranded, Emptied, Receive, Go, TypeOK, LocalsType, KernelType
<1>14. ASSUME NEW w \in Workers, Publish(w) PROVE Emptied(v)'
  <2>1. Sealed(v)
    BY <1>14 DEF Sealed, Flow, Reaping, Publish, Go, Starting, Phases, Dead, Vacant,
         TypeOK, LocalsType, ProcsType, SupType
  <2> QED
    BY <1>14, <2>1 DEF NothingStranded, Emptied, Publish, Go, TypeOK, LocalsType, KernelType
<1>15. ASSUME NEW w \in Workers, NEW t \in Workers, Route(w, t) PROVE Emptied(v)'
  <2>1. Sealed(v)
    BY <1>15 DEF Sealed, Flow, Reaping, Route, Go, Starting, Phases, Dead, Vacant, TypeOK,
         LocalsType, ProcsType, SupType
  <2> QED
    BY <1>15, <2>1 DEF NothingStranded, Emptied, Route, Go, TypeOK, LocalsType, KernelType
<1>16. ASSUME NEW w \in Workers, NEW S \in SUBSET held[w], HandoffsDone(w, S)
         PROVE Emptied(v)'
  <2>1. Sealed(v)
    BY <1>16 DEF Sealed, Flow, Reaping, HandoffsDone, Go, Starting, Phases, Dead, Vacant,
         TypeOK, LocalsType, ProcsType, SupType
  <2> QED
    BY <1>16, <2>1 DEF NothingStranded, Emptied, HandoffsDone, Go, TypeOK, LocalsType,
         KernelType
<1>17. ASSUME NEW w \in Workers, EndTake(w) PROVE Emptied(v)'
  <2>1. Sealed(v)
    BY <1>17 DEF Sealed, Flow, Reaping, EndTake, Go, Starting, Phases, Dead, Vacant,
         TypeOK, LocalsType, ProcsType, SupType
  <2> QED
    BY <1>17, <2>1 DEF NothingStranded, Emptied, EndTake, Go, TypeOK, LocalsType, KernelType
<1>18. ASSUME NEW w \in Workers, EndRetire(w) PROVE Emptied(v)'
  <2>1. phase[w] \in {"run", "stop", "drain"}
    BY <1>18 DEF EndRetire, Go, Flow, TypeOK, LocalsType, Phases
  <2>2. Sealed(v)
    BY <1>18, <2>1 DEF Sealed, EndRetire, Go, TypeOK, LocalsType
  <2>3. pc' = [pc EXCEPT ![w] = pc'[w]] /\ pc'[w] # "post"
    BY <1>18, <2>1 DEF EndRetire, Go, TypeOK, LocalsType
  <2> QED
    BY <1>18, <2>2, <2>3 DEF NothingStranded, Emptied, EndRetire, TypeOK, LocalsType
<1>19. ASSUME NEW w \in Workers, Leave(w) PROVE Emptied(v)'
  <2>1. Sealed(v)
    BY <1>19 DEF Sealed, Flow, Reaping, Leave, Go, Starting, Phases, Dead, Vacant, TypeOK,
         LocalsType, ProcsType, SupType
  <2> QED
    BY <1>19, <2>1 DEF NothingStranded, Emptied, Leave, Go, TypeOK, LocalsType, KernelType
<1>20. ASSUME NEW w \in Workers, DrainOver(w) PROVE Emptied(v)'
  <2>1. CASE v = w
    <3>1. pc[w] = "drain" /\ Left(w) /\ pending[w] - drained[w] <= 0
      BY <1>20 DEF DrainOver, Go, Flow, AwaitingHandoffs, TypeOK, PageType, LocalsType
    <3>2. InFlight(w) <= pending[w] /\ Unretired(w) = drained[w]
      BY <3>1 DEF PendingCovers, Unretired
    <3>3. Cardinality(RaisedTo(w)) + Len(chan[w]) <= 0
      BY <3>1, <3>2, PartsType, RaisedFinite DEF InFlight
    <3>4. Emptied(w)
      BY <3>3, NothingInFlight
    <3> QED
      BY <1>20, <2>1, <3>4 DEF Emptied, DrainOver, Go, TypeOK, LocalsType
  <2>2. CASE v # w
    <3>1. Sealed(v)
      BY <1>20, <2>2 DEF Sealed, DrainOver, Go, TypeOK, LocalsType
    <3> QED
      BY <1>20, <3>1 DEF NothingStranded, Emptied, DrainOver, Go, TypeOK, LocalsType
  <2> QED
    BY <2>1, <2>2
<1>21. ASSUME NEW w \in Workers, DrainExpires(w) PROVE Emptied(v)'
  <2>1. Sealed(v)
    BY <1>21 DEF Sealed, Flow, Reaping, DrainExpires, Go, Starting, Phases, Dead, Vacant,
         TypeOK, LocalsType, ProcsType, SupType
  <2> QED
    BY <1>21, <2>1 DEF NothingStranded, Emptied, DrainExpires, Go, TypeOK, LocalsType,
         KernelType
<1>22. ASSUME NEW w \in Workers, NEW S \in SUBSET held[w], DrainPass(w, S) PROVE Emptied(v)'
  <2>1. Sealed(v)
    BY <1>22 DEF Sealed, Flow, Reaping, DrainPass, Go, Starting, Phases, Dead, Vacant,
         TypeOK, LocalsType, ProcsType, SupType
  <2> QED
    BY <1>22, <2>1 DEF NothingStranded, Emptied, DrainPass, Go, TypeOK, LocalsType,
         KernelType
<1>23. ASSUME NEW w \in Workers, Exit(w) PROVE Emptied(v)'
  <2>1. Sealed(v)
    BY <1>23 DEF Sealed, Flow, Reaping, Exit, ProcessEnds, Starting, Phases, Dead, Vacant,
         TypeOK, LocalsType, ProcsType, SupType
  <2> QED
    BY <1>23, <2>1 DEF NothingStranded, Emptied, Exit, ProcessEnds, TypeOK, LocalsType,
         KernelType
<1>24. ASSUME NEW w \in Workers, Declines(w) PROVE Emptied(v)'
  <2>1. Sealed(v)
    BY <1>24 DEF Sealed, Flow, Reaping, Declines, ProcessEnds, Starting, Phases, Dead,
         Vacant, TypeOK, LocalsType, ProcsType, SupType
  <2> QED
    BY <1>24, <2>1 DEF NothingStranded, Emptied, Declines, ProcessEnds, TypeOK,
         LocalsType, KernelType
<1>25. ASSUME NEW w \in Workers, StoppedUnarmed(w) PROVE Emptied(v)'
  <2>1. Sealed(v)
    BY <1>25 DEF Sealed, Flow, Reaping, StoppedUnarmed, ProcessEnds, Starting, Phases,
         Dead, Vacant, TypeOK, LocalsType, ProcsType, SupType
  <2> QED
    BY <1>25, <2>1 DEF NothingStranded, Emptied, StoppedUnarmed, ProcessEnds, TypeOK,
         LocalsType, KernelType
<1>26. ASSUME NEW w \in Workers, RefusesConfig(w) PROVE Emptied(v)'
  <2>1. Sealed(v)
    BY <1>26 DEF Sealed, Flow, Reaping, RefusesConfig, ProcessEnds, Starting, Phases,
         Dead, Vacant, TypeOK, LocalsType, ProcsType, SupType
  <2> QED
    BY <1>26, <2>1 DEF NothingStranded, Emptied, RefusesConfig, ProcessEnds, TypeOK,
         LocalsType, KernelType
<1>27. ASSUME NEW w \in Workers, Killed(w) PROVE Emptied(v)'
  <2>1. Sealed(v)
    BY <1>27 DEF Sealed, Flow, Reaping, Killed, ProcessEnds, Starting, Phases, Dead,
         Vacant, TypeOK, LocalsType, ProcsType, SupType
  <2> QED
    BY <1>27, <2>1 DEF NothingStranded, Emptied, Killed, ProcessEnds, TypeOK, LocalsType,
         KernelType
<1>28. ASSUME StopServer PROVE Emptied(v)'
  <2>1. Sealed(v)
    BY <1>28 DEF Sealed, Flow, Reaping, StopServer, Starting, Phases, Dead, Vacant,
         TypeOK, LocalsType, ProcsType, SupType
  <2> QED
    BY <1>28, <2>1 DEF NothingStranded, Emptied, StopServer, TypeOK, LocalsType, KernelType
<1>29. ASSUME NEW w \in Workers, StopOne(w) PROVE Emptied(v)'
  <2>1. Sealed(v)
    BY <1>29 DEF Sealed, Flow, Reaping, StopOne, Starting, Phases, Dead, Vacant, TypeOK,
         LocalsType, ProcsType, SupType
  <2> QED
    BY <1>29, <2>1 DEF NothingStranded, Emptied, StopOne, TypeOK, LocalsType, KernelType
<1>30. ASSUME NEW w \in Workers, Reap(w) PROVE Emptied(v)'
  <2>1. Sealed(v)
    BY <1>30 DEF Sealed, Flow, Reaping, Reap, Starting, Phases, Dead, Vacant, TypeOK,
         LocalsType, ProcsType, SupType
  <2> QED
    BY <1>30, <2>1 DEF NothingStranded, Emptied, Reap, TypeOK, LocalsType, KernelType
<1>31. ASSUME DeclineRespawn PROVE Emptied(v)'
  <2>1. Sealed(v)
    BY <1>31 DEF Sealed, Flow, Reaping, DeclineRespawn, Starting, Phases, Dead, Vacant,
         TypeOK, LocalsType, ProcsType, SupType
  <2> QED
    BY <1>31, <2>1 DEF NothingStranded, Emptied, DeclineRespawn, TypeOK, LocalsType,
         KernelType
<1>32. ASSUME Respawn PROVE Emptied(v)'
  <2>1. Sealed(v)
    BY <1>32 DEF Sealed, Flow, Reaping, Respawn, Fork, Starting, Phases, Dead, Vacant,
         TypeOK, LocalsType, ProcsType, SupType
  <2> QED
    BY <1>32, <2>1 DEF NothingStranded, Emptied, Respawn, Fork, TypeOK, LocalsType,
         KernelType
<1>33. ASSUME GiveUp PROVE Emptied(v)'
  <2>1. Sealed(v)
    BY <1>33 DEF Sealed, Flow, Reaping, GiveUp, Starting, Phases, Dead, Vacant, TypeOK,
         LocalsType, ProcsType, SupType
  <2> QED
    BY <1>33, <2>1 DEF NothingStranded, Emptied, GiveUp, TypeOK, LocalsType, KernelType
<1>34. ASSUME CloseReaped PROVE Emptied(v)'
  <2>1. Sealed(v)
    BY <1>34 DEF Sealed, Flow, Reaping, CloseReaped, Starting, Phases, Dead, Vacant,
         TypeOK, LocalsType, ProcsType, SupType
  <2> QED
    BY <1>34, <2>1 DEF NothingStranded, Emptied, CloseReaped, TypeOK, LocalsType, KernelType
<1>35. ASSUME CloseReapedEnds PROVE Emptied(v)'
  <2>1. CASE v = supWorker
    <3>1. chan[v] = <<>> /\ pending[v] - taken[v] - supReceived <= 0
      BY <1>35, <2>1 DEF CloseReapedEnds, ReapedSettled, Sealed, TypeOK, ProcsType
    <3>2. InFlight(v) <= pending[v] /\ Unretired(v) = taken[v]
      BY <1>35, <2>1 DEF CloseReapedEnds, PendingCovers, Unretired, Flow, Reaping
    <3>3. SupOwes(v) >= supReceived /\ supReceived \in Nat
      BY <2>1 DEF SupOwes, TypeOK, SupType
    <3>4. Cardinality(RaisedTo(v)) + Len(chan[v]) <= 0
      BY <3>1, <3>2, <3>3, PartsType, RaisedFinite DEF InFlight, TypeOK, PageType
    <3> QED
      BY <1>35, <3>4, NothingInFlight DEF Emptied, CloseReapedEnds
  <2>2. CASE v # supWorker
    <3>1. Sealed(v)
      BY <1>35, <2>2 DEF Sealed, CloseReapedEnds, TypeOK, ProcsType
    <3> QED
      BY <1>35, <3>1 DEF NothingStranded, Emptied, CloseReapedEnds
  <2> QED
    BY <2>1, <2>2
<1>36. ASSUME CloseReapedTake PROVE Emptied(v)'
  <2>1. Sealed(v)
    BY <1>36 DEF Sealed, Flow, Reaping, CloseReapedTake, Starting, Phases, Dead, Vacant,
         TypeOK, LocalsType, ProcsType, SupType
  <2> QED
    BY <1>36, <2>1 DEF NothingStranded, Emptied, CloseReapedTake, TypeOK, LocalsType,
         KernelType
<1>37. ASSUME CloseReapedRetire PROVE Emptied(v)'
  <2>1. Sealed(v)
    BY <1>37 DEF Sealed, Flow, Reaping, CloseReapedRetire, Starting, Phases, Dead, Vacant,
         TypeOK, LocalsType, ProcsType, SupType
  <2> QED
    BY <1>37, <2>1 DEF NothingStranded, Emptied, CloseReapedRetire, TypeOK, LocalsType,
         KernelType
<1>38. ASSUME ReloadBegin PROVE Emptied(v)'
  <2>1. Sealed(v)
    BY <1>38 DEF Sealed, Flow, Reaping, ReloadBegin, Starting, Phases, Dead, Vacant,
         TypeOK, LocalsType, ProcsType, SupType
  <2> QED
    BY <1>38, <2>1 DEF NothingStranded, Emptied, ReloadBegin, TypeOK, LocalsType, KernelType
<1>39. ASSUME ReloadFork PROVE Emptied(v)'
  <2>1. Sealed(v)
    BY <1>39 DEF Sealed, Flow, Reaping, ReloadFork, Fork, Starting, Phases, Dead, Vacant,
         TypeOK, LocalsType, ProcsType, SupType
  <2> QED
    BY <1>39, <2>1 DEF NothingStranded, Emptied, ReloadFork, Fork, TypeOK, LocalsType,
         KernelType
<1>40. ASSUME ServerEnds PROVE Emptied(v)'
  <2>1. Sealed(v)
    BY <1>40 DEF Sealed, Flow, Reaping, ServerEnds, Starting, Phases, Dead, Vacant,
         TypeOK, LocalsType, ProcsType, SupType
  <2> QED
    BY <1>40, <2>1 DEF NothingStranded, Emptied, ServerEnds, TypeOK, LocalsType, KernelType
<1>41. CASE UNCHANGED vars
  BY <1>41 DEF vars, NothingStranded, Sealed, Emptied
<1>42. ASSUME NEW w \in Workers, Worker(w) PROVE Emptied(v)'
  BY <1>42, <1>1, <1>2, <1>3, <1>4, <1>5, <1>6, <1>7, <1>8, <1>9, <1>10, <1>11, <1>12,
       <1>13, <1>14, <1>15, <1>16, <1>17, <1>18, <1>19, <1>20, <1>21, <1>22, <1>23, <1>24,
       <1>25 DEF Worker, Start, Send, Doors, Rounds, Drain, Ending
<1>43. CASE Supervisor
  BY <1>43, <1>30, <1>31, <1>32, <1>33, <1>34, <1>35, <1>36, <1>37, <1>39, <1>40
       DEF Supervisor
<1>44. CASE Environment
  BY <1>44, <1>26, <1>27, <1>28, <1>29, <1>38 DEF Environment
<1> QED
  BY <1>41, <1>42, <1>43, <1>44 DEF Next

-----------------------------------------------------------------------------

\* The invariant holds at the start.
LEMMA InitInductive == Init => Inductive
<1> SUFFICES ASSUME Init PROVE Inductive
  OBVIOUS
<1>1. TypeOK
  BY InitType
<1>2. Flow /\ TakenWithin /\ Reaping /\ LeaverIsMarked /\ NothingStranded
  BY DEF Init, Flow, TakenWithin, Reaping, LeaverIsMarked, NothingStranded, Sealed, Left,
     Starting, Running, Raised, Vacant
<1>3. HeldFinite
  BY FS_EmptySet DEF Init, HeldFinite
<1>4. ASSUME NEW w \in Workers PROVE InFlight(w) <= pending[w]
  <2>1. RaisedTo(w) = {}
    BY DEF Init, RaisedTo, Raised
  <2>2. Cardinality(RaisedTo(w)) = 0
    BY <2>1, FS_EmptySet
  <2>3. Len(chan[w]) = 0 /\ Unretired(w) = 0 /\ SupOwes(w) = 0 /\ pending[w] = 0
    BY ConstantsAssumption DEF Init, Unretired, SupOwes
  <2> QED
    BY <2>2, <2>3 DEF InFlight
<1> QED
  BY <1>1, <1>2, <1>3, <1>4 DEF Inductive, PendingCovers

\* And every step keeps it.
LEMMA NextInductive == Inductive /\ [Next]_vars => Inductive'
  BY TypeStep, FlowStep, HeldStep, TakenStep, ReapingStep, MarkedStep, CoverStep,
       StrandedStep
     DEF Inductive

\* So it holds in every behaviour.
THEOREM Invariance == Spec => []Inductive
  BY InitInductive, NextInductive, PTL DEF Spec

\* Every variable keeps its type, whatever the number of workers and deaths.
THEOREM TypeCorrect == Spec => []TypeOK
<1>1. Inductive => TypeOK
  BY DEF Inductive
<1> QED
  BY <1>1, Invariance, PTL

\* send_with's rule (review R5): the count of a worker's hand-offs is never
\* below what is in flight to it, a death anywhere included.
THEOREM CountNeverBelow == Spec => []PendingCovers
<1>1. Inductive => PendingCovers
  BY DEF Inductive
<1> QED
  BY <1>1, Invariance, PTL

\* A worker that left, exited or was reaped reads as left to its siblings
\* until its index is forked again.
THEOREM LeaversMarked == Spec => []LeaverIsMarked
<1>1. Inductive => LeaverIsMarked
  BY DEF Inductive
<1> QED
  BY <1>1, Invariance, PTL

\* The leave handshake (reviews B25 and RB): a channel read for the last
\* time holds no connection and none can still be posted to it.
THEOREM HandshakeSafe == Spec => []NothingStranded
<1>1. Inductive => NothingStranded
  BY DEF Inductive
<1> QED
  BY <1>1, Invariance, PTL

-----------------------------------------------------------------------------
(* And exact, while no process is killed.                                  *)

\* No process has been killed.
Unkilled == \A w \in Workers : deaths[w] = 0

\* Nobody is killed: the supervisor has no index to respawn or to give up on.
Calm ==
  /\ supPc \notin {"decide", "drain", "retireTake", "retire"}
  /\ \A w \in Workers : proc[w] # "killed"
  /\ supPc = "over" => \A w \in Workers : proc[w] # "up"

\* w's count is what was raised for it, queued and not retired.
Counted(w) == pending[w] = Cardinality(RaisedTo(w)) + Len(chan[w]) + Unretired(w)

\* And all of it until the server is over.
Exact == Unkilled => Calm /\ (supPc # "over" => \A w \in Workers : Counted(w))

\* What no step takes back.
Irreversible == deaths' = deaths /\ (supPc = "over" => supPc' = "over")

\* The dead stay counted, and a server that is over stays so.
LEMMA DeathsStay ==
  TypeOK /\ [Next]_vars /\ Unkilled' => Unkilled /\ (supPc = "over" => supPc' = "over")
<1> SUFFICES ASSUME TypeOK, [Next]_vars, Unkilled'
             PROVE  Irreversible
  BY DEF Unkilled, Irreversible
<1> USE DEF page, locals, kernel, supLocal, procs, history, Irreversible
<1>1. ASSUME NEW w \in Workers, Bind(w) PROVE Irreversible
  BY <1>1 DEF Bind
<1>2. ASSUME NEW w \in Workers, StartPark(w) PROVE Irreversible
  BY <1>2 DEF StartPark
<1>3. ASSUME NEW w \in Workers, StartTake(w) PROVE Irreversible
  BY <1>3 DEF StartTake
<1>4. ASSUME NEW w \in Workers, StartRetire(w) PROVE Irreversible
  BY <1>4 DEF StartRetire
<1>5. ASSUME NEW w \in Workers, NEW S \in SUBSET held[w], PassBegin(w, S) PROVE Irreversible
  BY <1>5 DEF PassBegin
<1>6. ASSUME NEW w \in Workers, NEW c \in Conns, NEW t \in Workers, Accept(w, c, t)
      PROVE  Irreversible
  BY <1>6 DEF Accept
<1>7. ASSUME NEW w \in Workers, AcceptDone(w) PROVE Irreversible
  BY <1>7 DEF AcceptDone
<1>8. ASSUME NEW w \in Workers, SendRaise(w) PROVE Irreversible
  BY <1>8 DEF SendRaise
<1>9. ASSUME NEW w \in Workers, SendRecheck(w) PROVE Irreversible
  BY <1>9 DEF SendRecheck
<1>10. ASSUME NEW w \in Workers, SendPost(w) PROVE Irreversible
  BY <1>10 DEF SendPost
<1>11. ASSUME NEW w \in Workers, SendFails(w) PROVE Irreversible
  BY <1>11 DEF SendFails
<1>12. ASSUME NEW w \in Workers, SendTakeBack(w) PROVE Irreversible
  BY <1>12 DEF SendTakeBack
<1>13. ASSUME NEW w \in Workers, Receive(w) PROVE Irreversible
  BY <1>13 DEF Receive
<1>14. ASSUME NEW w \in Workers, Publish(w) PROVE Irreversible
  BY <1>14 DEF Publish
<1>15. ASSUME NEW w \in Workers, NEW t \in Workers, Route(w, t) PROVE Irreversible
  BY <1>15 DEF Route
<1>16. ASSUME NEW w \in Workers, NEW S \in SUBSET held[w], HandoffsDone(w, S) PROVE Irreversible
  BY <1>16 DEF HandoffsDone
<1>17. ASSUME NEW w \in Workers, EndTake(w) PROVE Irreversible
  BY <1>17 DEF EndTake
<1>18. ASSUME NEW w \in Workers, EndRetire(w) PROVE Irreversible
  BY <1>18 DEF EndRetire
<1>19. ASSUME NEW w \in Workers, Leave(w) PROVE Irreversible
  BY <1>19 DEF Leave
<1>20. ASSUME NEW w \in Workers, DrainOver(w) PROVE Irreversible
  BY <1>20 DEF DrainOver
<1>21. ASSUME NEW w \in Workers, DrainExpires(w) PROVE Irreversible
  BY <1>21 DEF DrainExpires
<1>22. ASSUME NEW w \in Workers, NEW S \in SUBSET held[w], DrainPass(w, S) PROVE Irreversible
  BY <1>22 DEF DrainPass
<1>23. ASSUME NEW w \in Workers, Exit(w) PROVE Irreversible
  BY <1>23 DEF Exit, ProcessEnds
<1>24. ASSUME NEW w \in Workers, Declines(w) PROVE Irreversible
  BY <1>24 DEF Declines, ProcessEnds
<1>25. ASSUME NEW w \in Workers, StoppedUnarmed(w) PROVE Irreversible
  BY <1>25 DEF StoppedUnarmed, ProcessEnds
<1>26. ASSUME NEW w \in Workers, RefusesConfig(w) PROVE Irreversible
  BY <1>26 DEF RefusesConfig, ProcessEnds
<1>27. ASSUME NEW w \in Workers, Killed(w) PROVE Irreversible
  BY <1>27 DEF Killed, Unkilled, TypeOK, HistoryType
<1>28. ASSUME StopServer PROVE Irreversible
  BY <1>28 DEF StopServer
<1>29. ASSUME NEW w \in Workers, StopOne(w) PROVE Irreversible
  BY <1>29 DEF StopOne
<1>30. ASSUME NEW w \in Workers, Reap(w) PROVE Irreversible
  BY <1>30 DEF Reap
<1>31. ASSUME DeclineRespawn PROVE Irreversible
  BY <1>31 DEF DeclineRespawn
<1>32. ASSUME Respawn PROVE Irreversible
  BY <1>32 DEF Respawn
<1>33. ASSUME GiveUp PROVE Irreversible
  BY <1>33 DEF GiveUp
<1>34. ASSUME CloseReaped PROVE Irreversible
  BY <1>34 DEF CloseReaped
<1>35. ASSUME CloseReapedEnds PROVE Irreversible
  BY <1>35 DEF CloseReapedEnds
<1>36. ASSUME CloseReapedTake PROVE Irreversible
  BY <1>36 DEF CloseReapedTake
<1>37. ASSUME CloseReapedRetire PROVE Irreversible
  BY <1>37 DEF CloseReapedRetire
<1>38. ASSUME ReloadBegin PROVE Irreversible
  BY <1>38 DEF ReloadBegin
<1>39. ASSUME ReloadFork PROVE Irreversible
  BY <1>39 DEF ReloadFork
<1>40. ASSUME ServerEnds PROVE Irreversible
  BY <1>40 DEF ServerEnds
<1>41. CASE UNCHANGED vars
  BY <1>41 DEF vars
<1>42. ASSUME NEW w \in Workers, Worker(w) PROVE Irreversible
  BY <1>42, <1>1, <1>2, <1>3, <1>4, <1>5, <1>6, <1>7, <1>8, <1>9, <1>10, <1>11, <1>12, <1>13,
     <1>14, <1>15, <1>16, <1>17, <1>18, <1>19, <1>20, <1>21, <1>22, <1>23, <1>24, <1>25 DEF
     Worker, Start, Send, Doors, Rounds, Drain, Ending
<1>43. CASE Supervisor
  BY <1>43, <1>30, <1>31, <1>32, <1>33, <1>34, <1>35, <1>36, <1>37, <1>39, <1>40 DEF
     Supervisor
<1>44. CASE Environment
  BY <1>44, <1>28, <1>38, <1>29, <1>26, <1>27 DEF Environment
<1> QED
  BY <1>41, <1>42, <1>43, <1>44 DEF Next

\* And while there are none the supervisor stays calm.
LEMMA CalmStep == TypeOK /\ Flow /\ Calm /\ [Next]_vars => (Unkilled' => Calm')
<1> SUFFICES ASSUME TypeOK, Flow, Calm, [Next]_vars, Unkilled' PROVE Calm'
  OBVIOUS
<1> USE DEF page, locals, kernel, supLocal, procs, history, TypeOK, ProcsType, Calm
<1>1. ASSUME NEW w \in Workers, Bind(w) PROVE Calm'
  BY <1>1 DEF Bind
<1>2. ASSUME NEW w \in Workers, StartPark(w) PROVE Calm'
  BY <1>2 DEF StartPark
<1>3. ASSUME NEW w \in Workers, StartTake(w) PROVE Calm'
  BY <1>3 DEF StartTake
<1>4. ASSUME NEW w \in Workers, StartRetire(w) PROVE Calm'
  BY <1>4 DEF StartRetire
<1>5. ASSUME NEW w \in Workers, NEW S \in SUBSET held[w], PassBegin(w, S) PROVE Calm'
  BY <1>5 DEF PassBegin
<1>6. ASSUME NEW w \in Workers, NEW c \in Conns, NEW t \in Workers, Accept(w, c, t)
      PROVE  Calm'
  BY <1>6 DEF Accept
<1>7. ASSUME NEW w \in Workers, AcceptDone(w) PROVE Calm'
  BY <1>7 DEF AcceptDone
<1>8. ASSUME NEW w \in Workers, SendRaise(w) PROVE Calm'
  BY <1>8 DEF SendRaise
<1>9. ASSUME NEW w \in Workers, SendRecheck(w) PROVE Calm'
  BY <1>9 DEF SendRecheck
<1>10. ASSUME NEW w \in Workers, SendPost(w) PROVE Calm'
  BY <1>10 DEF SendPost
<1>11. ASSUME NEW w \in Workers, SendFails(w) PROVE Calm'
  BY <1>11 DEF SendFails
<1>12. ASSUME NEW w \in Workers, SendTakeBack(w) PROVE Calm'
  BY <1>12 DEF SendTakeBack
<1>13. ASSUME NEW w \in Workers, Receive(w) PROVE Calm'
  BY <1>13 DEF Receive
<1>14. ASSUME NEW w \in Workers, Publish(w) PROVE Calm'
  BY <1>14 DEF Publish
<1>15. ASSUME NEW w \in Workers, NEW t \in Workers, Route(w, t) PROVE Calm'
  BY <1>15 DEF Route
<1>16. ASSUME NEW w \in Workers, NEW S \in SUBSET held[w], HandoffsDone(w, S) PROVE Calm'
  BY <1>16 DEF HandoffsDone
<1>17. ASSUME NEW w \in Workers, EndTake(w) PROVE Calm'
  BY <1>17 DEF EndTake
<1>18. ASSUME NEW w \in Workers, EndRetire(w) PROVE Calm'
  BY <1>18 DEF EndRetire
<1>19. ASSUME NEW w \in Workers, Leave(w) PROVE Calm'
  BY <1>19 DEF Leave
<1>20. ASSUME NEW w \in Workers, DrainOver(w) PROVE Calm'
  BY <1>20 DEF DrainOver
<1>21. ASSUME NEW w \in Workers, DrainExpires(w) PROVE Calm'
  BY <1>21 DEF DrainExpires
<1>22. ASSUME NEW w \in Workers, NEW S \in SUBSET held[w], DrainPass(w, S) PROVE Calm'
  BY <1>22 DEF DrainPass
<1>23. ASSUME NEW w \in Workers, Exit(w) PROVE Calm'
  BY <1>23 DEF Exit, ProcessEnds, Go, Flow
<1>24. ASSUME NEW w \in Workers, Declines(w) PROVE Calm'
  BY <1>24 DEF Declines, ProcessEnds, Go, Flow
<1>25. ASSUME NEW w \in Workers, StoppedUnarmed(w) PROVE Calm'
  BY <1>25 DEF StoppedUnarmed, ProcessEnds, Go, Flow
<1>26. ASSUME NEW w \in Workers, RefusesConfig(w) PROVE Calm'
  BY <1>26 DEF RefusesConfig, ProcessEnds, Go, Flow
<1>27. ASSUME NEW w \in Workers, Killed(w) PROVE Calm'
  BY <1>27 DEF Killed, Unkilled, HistoryType
<1>28. ASSUME StopServer PROVE Calm'
  BY <1>28 DEF StopServer
<1>29. ASSUME NEW w \in Workers, StopOne(w) PROVE Calm'
  BY <1>29 DEF StopOne
<1>30. ASSUME NEW w \in Workers, Reap(w) PROVE Calm'
  BY <1>30 DEF Reap, Dead
<1>31. ASSUME DeclineRespawn PROVE Calm'
  BY <1>31 DEF DeclineRespawn
<1>32. ASSUME Respawn PROVE Calm'
  BY <1>32 DEF Respawn
<1>33. ASSUME GiveUp PROVE Calm'
  BY <1>33 DEF GiveUp
<1>34. ASSUME CloseReaped PROVE Calm'
  BY <1>34 DEF CloseReaped
<1>35. ASSUME CloseReapedEnds PROVE Calm'
  BY <1>35 DEF CloseReapedEnds
<1>36. ASSUME CloseReapedTake PROVE Calm'
  BY <1>36 DEF CloseReapedTake
<1>37. ASSUME CloseReapedRetire PROVE Calm'
  BY <1>37 DEF CloseReapedRetire
<1>38. ASSUME ReloadBegin PROVE Calm'
  BY <1>38 DEF ReloadBegin
<1>39. ASSUME ReloadFork PROVE Calm'
  BY <1>39 DEF ReloadFork, Fork
<1>40. ASSUME ServerEnds PROVE Calm'
  BY <1>40 DEF ServerEnds, Vacant
<1>41. CASE UNCHANGED vars
  BY <1>41 DEF vars
<1>42. ASSUME NEW w \in Workers, Worker(w) PROVE Calm'
  BY <1>42, <1>1, <1>2, <1>3, <1>4, <1>5, <1>6, <1>7, <1>8, <1>9, <1>10, <1>11, <1>12, <1>13,
     <1>14, <1>15, <1>16, <1>17, <1>18, <1>19, <1>20, <1>21, <1>22, <1>23, <1>24, <1>25 DEF
     Worker, Start, Send, Doors, Rounds, Drain, Ending
<1>43. CASE Supervisor
  BY <1>43, <1>30, <1>31, <1>32, <1>33, <1>34, <1>35, <1>36, <1>37, <1>39, <1>40 DEF
     Supervisor
<1>44. CASE Environment
  BY <1>44, <1>28, <1>38, <1>29, <1>26, <1>27 DEF Environment
<1> QED
  BY <1>41, <1>42, <1>43, <1>44 DEF Next

\* A step that leaves the parts of w's count alone.
LEMMA CountStays ==
  ASSUME NEW w \in Workers, Counted(w), RaisedTo(w)' = RaisedTo(w), pending'[w] = pending[w],
         chan'[w] = chan[w], Unretired(w)' = Unretired(w)
  PROVE  Counted(w)'
  BY DEF Counted

\* Every raise is taken back, posted or retired by what was received, no more and no less.
LEMMA ExactStep ==
  ASSUME TypeOK, TypeOK', Flow, TakenWithin, Calm, Unkilled', [Next]_vars, supPc' # "over",
         \A w \in Workers : Counted(w)
  PROVE  \A v \in Workers : Counted(v)'
<1> DEFINE Goal == \A v \in Workers : Counted(v)'
<1> USE DEF page, locals, kernel, supLocal, procs, history
<1>1. ASSUME NEW w \in Workers, Bind(w) PROVE Goal
  <2>1. \A v \in Workers : RaisedTo(v)' = RaisedTo(v)
    BY <1>1 DEF Bind, Go, RaisedTo, Raised, TypeOK, LocalsType
  <2>2. \A v \in Workers : Unretired(v)' = Unretired(v)
    BY <1>1 DEF Bind, Go, Unretired, Flow, Starting, TypeOK, PageType, LocalsType
  <2>3. UNCHANGED <<pending, chan>>
    BY <1>1 DEF Bind
  <2> QED
    BY <2>1, <2>2, <2>3, CountStays
<1>2. ASSUME NEW w \in Workers, StartPark(w) PROVE Goal
  <2>1. \A v \in Workers : RaisedTo(v)' = RaisedTo(v)
    BY <1>2 DEF StartPark, Go, RaisedTo, Raised, TypeOK, LocalsType
  <2>2. \A v \in Workers : Unretired(v)' = Unretired(v)
    BY <1>2 DEF StartPark, Go, Unretired, Flow, Starting, TypeOK, PageType, LocalsType
  <2>3. UNCHANGED <<pending, chan>>
    BY <1>2 DEF StartPark
  <2> QED
    BY <2>1, <2>2, <2>3, CountStays
<1>3. ASSUME NEW w \in Workers, StartTake(w) PROVE Goal
  <2>1. \A v \in Workers : RaisedTo(v)' = RaisedTo(v)
    BY <1>3 DEF StartTake, Go, RaisedTo, Raised, TypeOK, LocalsType
  <2>2. \A v \in Workers : Unretired(v)' = Unretired(v)
    BY <1>3 DEF StartTake, Go, Unretired, Flow, Starting, TypeOK, PageType, LocalsType
  <2>3. UNCHANGED <<pending, chan>>
    BY <1>3 DEF StartTake
  <2> QED
    BY <2>1, <2>2, <2>3, CountStays
<1>4. ASSUME NEW w \in Workers, StartRetire(w) PROVE Goal
  <2>1. \A v \in Workers : RaisedTo(v)' = RaisedTo(v)
    BY <1>4 DEF StartRetire, Go, RaisedTo, Raised, TypeOK, LocalsType
  <2>2. UNCHANGED chan
    BY <1>4 DEF StartRetire
  <2>3. \A v \in Workers \ {w} : Unretired(v)' = Unretired(v) /\ pending'[v] = pending[v]
    BY <1>4 DEF StartRetire, Go, Unretired, TypeOK, PageType, LocalsType
  <2>4. /\ Unretired(w) = took[w] /\ pending'[w] = pending[w] - took[w] /\ Unretired(w)' = 0
        /\ took[w] \in Nat
    BY <1>4 DEF StartRetire, Go, Unretired, Flow, Starting, TypeOK, PageType, LocalsType
  <2>5. Counted(w)'
    BY <2>1, <2>2, <2>4, RaisedFinite, PartsType DEF Counted
  <2> QED
    BY <2>1, <2>2, <2>3, <2>5, CountStays
<1>5. ASSUME NEW w \in Workers, NEW S \in SUBSET held[w], PassBegin(w, S) PROVE Goal
  <2>1. \A v \in Workers : RaisedTo(v)' = RaisedTo(v)
    BY <1>5 DEF PassBegin, Go, RaisedTo, Raised, TypeOK, LocalsType, Ends
  <2>2. \A v \in Workers : Unretired(v)' = Unretired(v)
    BY <1>5 DEF PassBegin, Go, Unretired, Flow, Starting, TypeOK, PageType, LocalsType, Ends
  <2>3. UNCHANGED <<pending, chan>>
    BY <1>5 DEF PassBegin, Ends
  <2> QED
    BY <2>1, <2>2, <2>3, CountStays
<1>6. ASSUME NEW w \in Workers, NEW c \in Conns, NEW t \in Workers, Accept(w, c, t)
      PROVE  Goal
  <2>1. \A v \in Workers : RaisedTo(v)' = RaisedTo(v)
    BY <1>6 DEF Accept, Go, RaisedTo, Raised, TypeOK, LocalsType
  <2>2. \A v \in Workers : Unretired(v)' = Unretired(v)
    BY <1>6 DEF Accept, Go, Unretired, Flow, Starting, TypeOK, PageType, LocalsType
  <2>3. UNCHANGED <<pending, chan>>
    BY <1>6 DEF Accept
  <2> QED
    BY <2>1, <2>2, <2>3, CountStays
<1>7. ASSUME NEW w \in Workers, AcceptDone(w) PROVE Goal
  <2>1. \A v \in Workers : RaisedTo(v)' = RaisedTo(v)
    BY <1>7 DEF AcceptDone, Go, RaisedTo, Raised, TypeOK, LocalsType
  <2>2. \A v \in Workers : Unretired(v)' = Unretired(v)
    BY <1>7 DEF AcceptDone, Go, Unretired, Flow, Starting, TypeOK, PageType, LocalsType
  <2>3. UNCHANGED <<pending, chan>>
    BY <1>7 DEF AcceptDone
  <2> QED
    BY <2>1, <2>2, <2>3, CountStays
<1>8. ASSUME NEW w \in Workers, SendRaise(w) PROVE Goal
  <2>1. PICK t \in Workers : t = target[w]
    BY <1>8 DEF SendRaise, Go, Flow, Raised
  <2>2. RaisedTo(t)' = RaisedTo(t) \cup {w} /\ w \notin RaisedTo(t)
    BY <1>8, <2>1 DEF SendRaise, Go, RaisedTo, Raised, TypeOK, LocalsType
  <2>3. \A v \in Workers \ {t} : RaisedTo(v)' = RaisedTo(v) /\ pending'[v] = pending[v]
    BY <1>8, <2>1 DEF SendRaise, Go, RaisedTo, Raised, TypeOK, LocalsType, PageType
  <2>4. pending'[t] = pending[t] + 1
    BY <1>8, <2>1 DEF SendRaise, TypeOK, PageType
  <2>5. \A v \in Workers : Unretired(v)' = Unretired(v) /\ chan'[v] = chan[v]
    BY <1>8 DEF SendRaise, Go, Unretired, TypeOK, LocalsType
  <2>6. Cardinality(RaisedTo(t)') = Cardinality(RaisedTo(t)) + 1
    BY <2>2, RaisedFinite, FS_AddElement
  <2>7. Counted(t)'
    <3>1. /\ Cardinality(RaisedTo(t)) \in Nat /\ Len(chan[t]) \in Nat /\ Unretired(t) \in Nat
          /\ pending[t] = Cardinality(RaisedTo(t)) + Len(chan[t]) + Unretired(t)
      BY RaisedFinite, PartsType DEF Counted
    <3> QED
      BY <2>4, <2>5, <2>6, <3>1 DEF Counted
  <2> QED
    BY <2>3, <2>5, <2>7, CountStays
<1>9. ASSUME NEW w \in Workers, SendRecheck(w) PROVE Goal
  <2>1. \A v \in Workers : RaisedTo(v)' = RaisedTo(v)
    BY <1>9 DEF SendRecheck, Go, RaisedTo, Raised, TypeOK, LocalsType
  <2>2. \A v \in Workers : Unretired(v)' = Unretired(v)
    BY <1>9 DEF SendRecheck, Go, Unretired, Flow, Starting, TypeOK, PageType, LocalsType
  <2>3. UNCHANGED <<pending, chan>>
    BY <1>9 DEF SendRecheck
  <2> QED
    BY <2>1, <2>2, <2>3, CountStays
<1>10. ASSUME NEW w \in Workers, SendPost(w) PROVE Goal
  <2>1. PICK t \in Workers : t = target[w]
    BY <1>10 DEF SendPost, Go, Flow, Raised
  <2>2. RaisedTo(t)' = RaisedTo(t) \ {w} /\ w \in RaisedTo(t)
    BY <1>10, <2>1, ConstantsAssumption
       DEF SendPost, Go, Resume, RaisedTo, Raised, TypeOK, LocalsType
  <2>3. \A v \in Workers \ {t} : RaisedTo(v)' = RaisedTo(v) /\ chan'[v] = chan[v]
    BY <1>10, <2>1, ConstantsAssumption
       DEF SendPost, Go, Resume, RaisedTo, Raised, TypeOK, LocalsType, KernelType
  <2>4. Len(chan'[t]) = Len(chan[t]) + 1
    <3>1. hand[w] \in Conns /\ chan'[t] = Append(chan[t], hand[w]) /\ chan[t] \in Seq(Conns)
      BY <1>10, <2>1 DEF SendPost, Go, Flow, Raised, TypeOK, KernelType
    <3> QED
      BY <3>1
  <2>5. \A v \in Workers : Unretired(v)' = Unretired(v) /\ pending'[v] = pending[v]
    BY <1>10 DEF SendPost, Go, Resume, Unretired, TypeOK, LocalsType
  <2>6. Cardinality(RaisedTo(t)') = Cardinality(RaisedTo(t)) - 1
    BY <2>2, RaisedFinite, FS_RemoveElement
  <2>7. Counted(t)'
    <3>1. /\ Cardinality(RaisedTo(t)) \in Nat /\ Len(chan[t]) \in Nat /\ Unretired(t) \in Nat
          /\ pending[t] = Cardinality(RaisedTo(t)) + Len(chan[t]) + Unretired(t)
      BY RaisedFinite, PartsType DEF Counted
    <3> QED
      BY <2>4, <2>5, <2>6, <3>1 DEF Counted
  <2> QED
    BY <2>3, <2>5, <2>7, CountStays
<1>11. ASSUME NEW w \in Workers, SendFails(w) PROVE Goal
  <2>1. \A v \in Workers : RaisedTo(v)' = RaisedTo(v)
    BY <1>11 DEF SendFails, Go, RaisedTo, Raised, TypeOK, LocalsType
  <2>2. \A v \in Workers : Unretired(v)' = Unretired(v)
    BY <1>11 DEF SendFails, Go, Unretired, Flow, Starting, TypeOK, PageType, LocalsType
  <2>3. UNCHANGED <<pending, chan>>
    BY <1>11 DEF SendFails
  <2> QED
    BY <2>1, <2>2, <2>3, CountStays
<1>12. ASSUME NEW w \in Workers, SendTakeBack(w) PROVE Goal
  <2>1. PICK t \in Workers : t = target[w]
    BY <1>12 DEF SendTakeBack, Go, Flow, Raised
  <2>2. RaisedTo(t)' = RaisedTo(t) \ {w} /\ w \in RaisedTo(t)
    BY <1>12, <2>1, ConstantsAssumption
       DEF SendTakeBack, Go, Resume, RaisedTo, Raised, TypeOK, LocalsType
  <2>3. \A v \in Workers \ {t} : RaisedTo(v)' = RaisedTo(v) /\ pending'[v] = pending[v]
    BY <1>12, <2>1, ConstantsAssumption
       DEF SendTakeBack, Go, Resume, RaisedTo, Raised, TypeOK, LocalsType, PageType
  <2>4. pending'[t] = pending[t] - 1
    BY <1>12, <2>1 DEF SendTakeBack, TypeOK, PageType
  <2>5. \A v \in Workers : Unretired(v)' = Unretired(v) /\ chan'[v] = chan[v]
    BY <1>12 DEF SendTakeBack, Go, Resume, Unretired, TypeOK, LocalsType
  <2>6. Cardinality(RaisedTo(t)') = Cardinality(RaisedTo(t)) - 1
    BY <2>2, RaisedFinite, FS_RemoveElement
  <2>7. Counted(t)'
    <3>1. /\ Cardinality(RaisedTo(t)) \in Nat /\ Len(chan[t]) \in Nat /\ Unretired(t) \in Nat
          /\ pending[t] = Cardinality(RaisedTo(t)) + Len(chan[t]) + Unretired(t)
      BY RaisedFinite, PartsType DEF Counted
    <3> QED
      BY <2>4, <2>5, <2>6, <3>1 DEF Counted
  <2> QED
    BY <2>3, <2>5, <2>7, CountStays
<1>13. ASSUME NEW w \in Workers, Receive(w) PROVE Goal
  <2>1. \A v \in Workers : RaisedTo(v)' = RaisedTo(v) /\ pending'[v] = pending[v]
    BY <1>13 DEF Receive, Go, RaisedTo, Raised, TypeOK, LocalsType
  <2>2. \A v \in Workers \ {w} : Unretired(v)' = Unretired(v) /\ chan'[v] = chan[v]
    BY <1>13 DEF Receive, Go, Unretired, TypeOK, LocalsType, KernelType
  <2>3. Len(chan'[w]) = Len(chan[w]) - 1
    <3>1. chan[w] \in Seq(Conns) /\ chan[w] # <<>> /\ chan'[w] = Tail(chan[w])
      BY <1>13 DEF Receive, TypeOK, KernelType
    <3> QED
      BY <3>1
  <2>4. Unretired(w)' = Unretired(w) + 1
    BY <1>13 DEF Receive, Go, Unretired, TypeOK, LocalsType
  <2>5. Counted(w)'
    <3>1. /\ Cardinality(RaisedTo(w)) \in Nat /\ Len(chan[w]) \in Nat /\ Unretired(w) \in Nat
          /\ pending[w] = Cardinality(RaisedTo(w)) + Len(chan[w]) + Unretired(w)
      BY RaisedFinite, PartsType DEF Counted
    <3> QED
      BY <2>1, <2>3, <2>4, <3>1 DEF Counted
  <2> QED
    BY <2>1, <2>2, <2>5, CountStays
<1>14. ASSUME NEW w \in Workers, Publish(w) PROVE Goal
  <2>1. \A v \in Workers : RaisedTo(v)' = RaisedTo(v)
    BY <1>14 DEF Publish, Go, RaisedTo, Raised, TypeOK, LocalsType, Kept
  <2>2. \A v \in Workers : Unretired(v)' = Unretired(v)
    BY <1>14 DEF Publish, Go, Unretired, Flow, Starting, TypeOK, PageType, LocalsType, Kept
  <2>3. UNCHANGED <<pending, chan>>
    BY <1>14 DEF Publish, Kept
  <2> QED
    BY <2>1, <2>2, <2>3, CountStays
<1>15. ASSUME NEW w \in Workers, NEW t \in Workers, Route(w, t) PROVE Goal
  <2>1. \A v \in Workers : RaisedTo(v)' = RaisedTo(v)
    BY <1>15 DEF Route, Go, RaisedTo, Raised, TypeOK, LocalsType
  <2>2. \A v \in Workers : Unretired(v)' = Unretired(v)
    BY <1>15 DEF Route, Go, Unretired, Flow, Starting, TypeOK, PageType, LocalsType
  <2>3. UNCHANGED <<pending, chan>>
    BY <1>15 DEF Route
  <2> QED
    BY <2>1, <2>2, <2>3, CountStays
<1>16. ASSUME NEW w \in Workers, NEW S \in SUBSET held[w], HandoffsDone(w, S) PROVE Goal
  <2>1. \A v \in Workers : RaisedTo(v)' = RaisedTo(v)
    BY <1>16 DEF HandoffsDone, Go, RaisedTo, Raised, TypeOK, LocalsType, Ends
  <2>2. \A v \in Workers : Unretired(v)' = Unretired(v)
    BY <1>16 DEF HandoffsDone, Go, Unretired, Flow, Starting, TypeOK, PageType, LocalsType, Ends
  <2>3. UNCHANGED <<pending, chan>>
    BY <1>16 DEF HandoffsDone, Ends
  <2> QED
    BY <2>1, <2>2, <2>3, CountStays
<1>17. ASSUME NEW w \in Workers, EndTake(w) PROVE Goal
  <2>1. \A v \in Workers : RaisedTo(v)' = RaisedTo(v)
    BY <1>17 DEF EndTake, Go, RaisedTo, Raised, TypeOK, LocalsType
  <2>2. \A v \in Workers : Unretired(v)' = Unretired(v)
    BY <1>17 DEF EndTake, Go, Unretired, Flow, Starting, TypeOK, PageType, LocalsType
  <2>3. UNCHANGED <<pending, chan>>
    BY <1>17 DEF EndTake
  <2> QED
    BY <2>1, <2>2, <2>3, CountStays
<1>18. ASSUME NEW w \in Workers, EndRetire(w) PROVE Goal
  <2>1. \A v \in Workers : RaisedTo(v)' = RaisedTo(v) /\ chan'[v] = chan[v]
    BY <1>18, ConstantsAssumption DEF EndRetire, Go, RaisedTo, Raised, Flow, Phases, TypeOK,
       LocalsType
  <2>2. \A v \in Workers \ {w} : Unretired(v)' = Unretired(v) /\ pending'[v] = pending[v]
    BY <1>18 DEF EndRetire, Go, Unretired, TypeOK, PageType, LocalsType
  <2>3. Unretired(w) = drained[w] /\ drained[w] \in Nat
    BY <1>18 DEF EndRetire, Go, Unretired, TypeOK, LocalsType
  <2>4. pending'[w] = pending[w] - drained[w]
    <3>1. pending[w] >= drained[w] /\ pending[w] \in Int
      BY <2>3, RaisedFinite, PartsType DEF Counted
    <3>2. pending'[w] = IF drained[w] > 0 THEN Floor(pending[w] - drained[w]) ELSE pending[w]
      BY <1>18 DEF EndRetire, TypeOK, PageType
    <3> QED
      BY <2>3, <3>1, <3>2 DEF Floor
  <2>5. Unretired(w)' = 0
    <3>1. taken[w] = 0 /\ taken' = taken
      BY <1>18 DEF EndRetire, Go, TakenWithin
    <3>2. drained'[w] = 0 /\ pc'[w] \in {"wait", "leave", "drain", "off"}
      BY <1>18 DEF EndRetire, Go, Flow, Phases, TypeOK, LocalsType
    <3> QED
      BY <3>1, <3>2 DEF Unretired
  <2>6. Counted(w)'
    BY <2>1, <2>3, <2>4, <2>5, RaisedFinite, PartsType DEF Counted
  <2> QED
    BY <2>1, <2>2, <2>6, CountStays
<1>19. ASSUME NEW w \in Workers, Leave(w) PROVE Goal
  <2>1. \A v \in Workers : RaisedTo(v)' = RaisedTo(v)
    BY <1>19 DEF Leave, Go, RaisedTo, Raised, TypeOK, LocalsType
  <2>2. \A v \in Workers : Unretired(v)' = Unretired(v)
    BY <1>19 DEF Leave, Go, Unretired, Flow, Starting, TypeOK, PageType, LocalsType
  <2>3. UNCHANGED <<pending, chan>>
    BY <1>19 DEF Leave
  <2> QED
    BY <2>1, <2>2, <2>3, CountStays
<1>20. ASSUME NEW w \in Workers, DrainOver(w) PROVE Goal
  <2>1. \A v \in Workers : RaisedTo(v)' = RaisedTo(v)
    BY <1>20 DEF DrainOver, Go, RaisedTo, Raised, TypeOK, LocalsType
  <2>2. \A v \in Workers : Unretired(v)' = Unretired(v)
    BY <1>20 DEF DrainOver, Go, Unretired, Flow, Starting, TypeOK, PageType, LocalsType
  <2>3. UNCHANGED <<pending, chan>>
    BY <1>20 DEF DrainOver
  <2> QED
    BY <2>1, <2>2, <2>3, CountStays
<1>21. ASSUME NEW w \in Workers, DrainExpires(w) PROVE Goal
  <2>1. \A v \in Workers : RaisedTo(v)' = RaisedTo(v)
    BY <1>21 DEF DrainExpires, Go, RaisedTo, Raised, TypeOK, LocalsType
  <2>2. \A v \in Workers : Unretired(v)' = Unretired(v)
    BY <1>21 DEF DrainExpires, Go, Unretired, Flow, Starting, TypeOK, PageType, LocalsType
  <2>3. UNCHANGED <<pending, chan>>
    BY <1>21 DEF DrainExpires
  <2> QED
    BY <2>1, <2>2, <2>3, CountStays
<1>22. ASSUME NEW w \in Workers, NEW S \in SUBSET held[w], DrainPass(w, S) PROVE Goal
  <2>1. \A v \in Workers : RaisedTo(v)' = RaisedTo(v)
    BY <1>22 DEF DrainPass, Go, RaisedTo, Raised, TypeOK, LocalsType, Ends
  <2>2. \A v \in Workers : Unretired(v)' = Unretired(v)
    BY <1>22 DEF DrainPass, Go, Unretired, Flow, Starting, TypeOK, PageType, LocalsType, Ends
  <2>3. UNCHANGED <<pending, chan>>
    BY <1>22 DEF DrainPass, Ends
  <2> QED
    BY <2>1, <2>2, <2>3, CountStays
<1>23. ASSUME NEW w \in Workers, Exit(w) PROVE Goal
  <2>1. \A v \in Workers : RaisedTo(v)' = RaisedTo(v) /\ chan'[v] = chan[v]
    BY <1>23, ConstantsAssumption DEF Exit, Go, ProcessEnds, RaisedTo, Raised, Flow, Phases,
       TypeOK, LocalsType
  <2>2. \A v \in Workers \ {w} : Unretired(v)' = Unretired(v) /\ pending'[v] = pending[v]
    BY <1>23 DEF Exit, Go, ProcessEnds, Unretired, TypeOK, PageType, LocalsType
  <2>3. Unretired(w) = drained[w] /\ drained[w] \in Nat
    BY <1>23 DEF Exit, Go, Unretired, TypeOK, LocalsType
  <2>4. pending'[w] = pending[w] - drained[w]
    <3>1. pending[w] >= drained[w] /\ pending[w] \in Int
      BY <2>3, RaisedFinite, PartsType DEF Counted
    <3>2. pending'[w] = IF drained[w] > 0 THEN Floor(pending[w] - drained[w]) ELSE pending[w]
      BY <1>23 DEF Exit, TypeOK, PageType
    <3> QED
      BY <2>3, <3>1, <3>2 DEF Floor
  <2>5. Unretired(w)' = 0
    <3>1. taken[w] = 0 /\ taken' = taken
      BY <1>23 DEF Exit, Go, TakenWithin
    <3>2. drained'[w] = 0 /\ pc'[w] \in {"wait", "leave", "drain", "off"}
      BY <1>23 DEF Exit, Go, ProcessEnds, Flow, Phases, TypeOK, LocalsType
    <3> QED
      BY <3>1, <3>2 DEF Unretired
  <2>6. Counted(w)'
    BY <2>1, <2>3, <2>4, <2>5, RaisedFinite, PartsType DEF Counted
  <2> QED
    BY <2>1, <2>2, <2>6, CountStays
<1>24. ASSUME NEW w \in Workers, Declines(w) PROVE Goal
  <2>1. \A v \in Workers : RaisedTo(v)' = RaisedTo(v)
    BY <1>24 DEF Declines, Go, RaisedTo, Raised, TypeOK, LocalsType, ProcessEnds
  <2>2. \A v \in Workers : Unretired(v)' = Unretired(v)
    BY <1>24 DEF Declines, Go, Unretired, Flow, Starting, TypeOK, PageType, LocalsType, ProcessEnds
  <2>3. UNCHANGED <<pending, chan>>
    BY <1>24 DEF Declines, ProcessEnds
  <2> QED
    BY <2>1, <2>2, <2>3, CountStays
<1>25. ASSUME NEW w \in Workers, StoppedUnarmed(w) PROVE Goal
  <2>1. \A v \in Workers : RaisedTo(v)' = RaisedTo(v)
    BY <1>25 DEF StoppedUnarmed, Go, RaisedTo, Raised, TypeOK, LocalsType, ProcessEnds
  <2>2. \A v \in Workers : Unretired(v)' = Unretired(v)
    BY <1>25 DEF StoppedUnarmed, Go, Unretired, Flow, Starting, TypeOK, PageType, LocalsType,
       ProcessEnds
  <2>3. UNCHANGED <<pending, chan>>
    BY <1>25 DEF StoppedUnarmed, ProcessEnds
  <2> QED
    BY <2>1, <2>2, <2>3, CountStays
<1>26. ASSUME NEW w \in Workers, RefusesConfig(w) PROVE Goal
  <2>1. \A v \in Workers : RaisedTo(v)' = RaisedTo(v)
    BY <1>26 DEF RefusesConfig, Go, RaisedTo, Raised, TypeOK, LocalsType, ProcessEnds
  <2>2. \A v \in Workers : Unretired(v)' = Unretired(v)
    BY <1>26 DEF RefusesConfig, Go, Unretired, Flow, Starting, TypeOK, PageType, LocalsType,
       ProcessEnds
  <2>3. UNCHANGED <<pending, chan>>
    BY <1>26 DEF RefusesConfig, ProcessEnds
  <2> QED
    BY <2>1, <2>2, <2>3, CountStays
<1>27. ASSUME NEW w \in Workers, Killed(w) PROVE Goal
  BY <1>27 DEF Killed, Unkilled, TypeOK, HistoryType
<1>28. ASSUME StopServer PROVE Goal
  <2>1. \A v \in Workers : RaisedTo(v)' = RaisedTo(v)
    BY <1>28 DEF StopServer, Go, RaisedTo, Raised, TypeOK, LocalsType
  <2>2. \A v \in Workers : Unretired(v)' = Unretired(v)
    BY <1>28 DEF StopServer, Go, Unretired, Flow, Starting, TypeOK, PageType, LocalsType
  <2>3. UNCHANGED <<pending, chan>>
    BY <1>28 DEF StopServer
  <2> QED
    BY <2>1, <2>2, <2>3, CountStays
<1>29. ASSUME NEW w \in Workers, StopOne(w) PROVE Goal
  <2>1. \A v \in Workers : RaisedTo(v)' = RaisedTo(v)
    BY <1>29 DEF StopOne, Go, RaisedTo, Raised, TypeOK, LocalsType
  <2>2. \A v \in Workers : Unretired(v)' = Unretired(v)
    BY <1>29 DEF StopOne, Go, Unretired, Flow, Starting, TypeOK, PageType, LocalsType
  <2>3. UNCHANGED <<pending, chan>>
    BY <1>29 DEF StopOne
  <2> QED
    BY <2>1, <2>2, <2>3, CountStays
<1>30. ASSUME NEW w \in Workers, Reap(w) PROVE Goal
  <2>1. \A v \in Workers : RaisedTo(v)' = RaisedTo(v)
    BY <1>30 DEF Reap, Go, RaisedTo, Raised, TypeOK, LocalsType
  <2>2. \A v \in Workers : Unretired(v)' = Unretired(v)
    BY <1>30 DEF Reap, Go, Unretired, Flow, Starting, TypeOK, PageType, LocalsType
  <2>3. UNCHANGED <<pending, chan>>
    BY <1>30 DEF Reap
  <2> QED
    BY <2>1, <2>2, <2>3, CountStays
<1>31. ASSUME DeclineRespawn PROVE Goal
  BY <1>31 DEF DeclineRespawn, Calm
<1>32. ASSUME Respawn PROVE Goal
  BY <1>32 DEF Respawn, Calm
<1>33. ASSUME GiveUp PROVE Goal
  BY <1>33 DEF GiveUp, Calm
<1>34. ASSUME CloseReaped PROVE Goal
  BY <1>34 DEF CloseReaped, Calm
<1>35. ASSUME CloseReapedEnds PROVE Goal
  BY <1>35 DEF CloseReapedEnds, Calm
<1>36. ASSUME CloseReapedTake PROVE Goal
  BY <1>36 DEF CloseReapedTake, Calm
<1>37. ASSUME CloseReapedRetire PROVE Goal
  BY <1>37 DEF CloseReapedRetire, Calm
<1>38. ASSUME ReloadBegin PROVE Goal
  <2>1. \A v \in Workers : RaisedTo(v)' = RaisedTo(v)
    BY <1>38 DEF ReloadBegin, Go, RaisedTo, Raised, TypeOK, LocalsType
  <2>2. \A v \in Workers : Unretired(v)' = Unretired(v)
    BY <1>38 DEF ReloadBegin, Go, Unretired, Flow, Starting, TypeOK, PageType, LocalsType
  <2>3. UNCHANGED <<pending, chan>>
    BY <1>38 DEF ReloadBegin
  <2> QED
    BY <2>1, <2>2, <2>3, CountStays
<1>39. ASSUME ReloadFork PROVE Goal
  <2>1. \A v \in Workers : RaisedTo(v)' = RaisedTo(v)
    BY <1>39 DEF ReloadFork, Go, RaisedTo, Raised, TypeOK, LocalsType, Fork, Vacant, Flow
  <2>2. \A v \in Workers : Unretired(v)' = Unretired(v)
    BY <1>39 DEF ReloadFork, Go, Unretired, Flow, Starting, TypeOK, PageType, LocalsType, Fork,
       Vacant
  <2>3. UNCHANGED <<pending, chan>>
    BY <1>39 DEF ReloadFork, Fork, Vacant
  <2> QED
    BY <2>1, <2>2, <2>3, CountStays
<1>40. ASSUME ServerEnds PROVE Goal
  BY <1>40 DEF ServerEnds
<1>41. CASE UNCHANGED vars
  BY <1>41 DEF vars, Counted, RaisedTo, Unretired
<1>42. ASSUME NEW w \in Workers, Worker(w) PROVE Goal
  BY <1>42, <1>1, <1>2, <1>3, <1>4, <1>5, <1>6, <1>7, <1>8, <1>9, <1>10, <1>11, <1>12, <1>13,
     <1>14, <1>15, <1>16, <1>17, <1>18, <1>19, <1>20, <1>21, <1>22, <1>23, <1>24, <1>25 DEF
     Worker, Start, Send, Doors, Rounds, Drain, Ending
<1>43. CASE Supervisor
  BY <1>43, <1>30, <1>31, <1>32, <1>33, <1>34, <1>35, <1>36, <1>37, <1>39, <1>40 DEF
     Supervisor
<1>44. CASE Environment
  BY <1>44, <1>28, <1>38, <1>29, <1>26, <1>27 DEF Environment
<1> QED
  BY <1>41, <1>42, <1>43, <1>44 DEF Next

\* Nothing is raised before the first bind.
LEMMA InitExact == Init => Exact
<1> SUFFICES ASSUME Init PROVE Exact
  OBVIOUS
<1>1. Calm
  BY DEF Init, Calm
<1>2. ASSUME NEW w \in Workers PROVE Counted(w)
  <2>1. RaisedTo(w) = {}
    BY DEF Init, RaisedTo, Raised
  <2>2. Cardinality(RaisedTo(w)) = 0
    BY <2>1, FS_EmptySet
  <2>3. Len(chan[w]) = 0 /\ Unretired(w) = 0 /\ pending[w] = 0
    BY DEF Init, Unretired
  <2> QED
    BY <2>2, <2>3 DEF Counted
<1> QED
  BY <1>1, <1>2 DEF Exact

\* Exactness is inductive.
LEMMA NextExact == Inductive /\ Exact /\ [Next]_vars => Exact'
<1> SUFFICES ASSUME Inductive, Inductive', Exact, [Next]_vars, Unkilled'
             PROVE  Calm' /\ (supPc' # "over" => \A w \in Workers : Counted(w)')
  BY NextInductive DEF Exact
<1>1. Unkilled /\ Calm /\ (supPc # "over" => \A w \in Workers : Counted(w))
  BY DeathsStay DEF Inductive, Exact
<1>2. Calm'
  BY <1>1, CalmStep DEF Inductive
<1>3. ASSUME supPc' # "over" PROVE supPc # "over"
  BY <1>3, DeathsStay DEF Inductive
<1> QED
  BY <1>1, <1>2, <1>3, ExactStep DEF Inductive

\* While no process is killed a worker's count is exactly what is in flight to it: a
\* retire never overshoots, and no refused, failed or forwarded hand-off leaves its
\* count behind.
THEOREM CountExact == Spec => []PendingExact
<1>1. Inductive /\ Exact => PendingExact
  <2> SUFFICES ASSUME Inductive, Exact, supPc # "over", Unkilled, NEW w \in Workers
               PROVE  pending[w] = InFlight(w)
    BY DEF PendingExact, Unkilled
  <2>1. SupOwes(w) = 0
    BY DEF Exact, Calm, Inductive, Reaping, SupOwes
  <2> QED
    BY <2>1, RaisedFinite, PartsType DEF Exact, Counted, InFlight, Inductive
<1> QED
  BY <1>1, InitInductive, InitExact, NextInductive, NextExact, PTL DEF Spec

\* While no process is killed no budget is spent.
Unspent == Unkilled => \A w \in Workers : ~expired[w]

\* A budget that outlasts any live sender would be spent on a count that nobody in
\* flight explains, and there is none.
LEMMA UnspentStep ==
  ASSUME Budgets # "any", Inductive, Exact, Unspent, [Next]_vars
  PROVE  Unspent'
<1> SUFFICES ASSUME Unkilled' PROVE \A v \in Workers : ~expired'[v]
  BY DEF Unspent
<1> DEFINE Goal == \A v \in Workers : ~expired'[v]
<1>0. /\ TypeOK /\ Flow /\ Unkilled /\ Calm /\ (supPc # "over" => \A w \in Workers : Counted(w))
      /\ \A w \in Workers : ~expired[w]
  BY DeathsStay DEF Inductive, Exact, Unspent
<1> USE DEF page, locals, kernel, supLocal, procs, history
<1>1. ASSUME NEW w \in Workers, Bind(w) PROVE Goal
  BY <1>0, <1>1 DEF Bind
<1>2. ASSUME NEW w \in Workers, StartPark(w) PROVE Goal
  BY <1>0, <1>2 DEF StartPark
<1>3. ASSUME NEW w \in Workers, StartTake(w) PROVE Goal
  BY <1>0, <1>3 DEF StartTake
<1>4. ASSUME NEW w \in Workers, StartRetire(w) PROVE Goal
  BY <1>0, <1>4 DEF StartRetire
<1>5. ASSUME NEW w \in Workers, NEW S \in SUBSET held[w], PassBegin(w, S) PROVE Goal
  BY <1>0, <1>5 DEF PassBegin
<1>6. ASSUME NEW w \in Workers, NEW c \in Conns, NEW t \in Workers, Accept(w, c, t)
      PROVE  Goal
  BY <1>0, <1>6 DEF Accept
<1>7. ASSUME NEW w \in Workers, AcceptDone(w) PROVE Goal
  BY <1>0, <1>7 DEF AcceptDone
<1>8. ASSUME NEW w \in Workers, SendRaise(w) PROVE Goal
  BY <1>0, <1>8 DEF SendRaise
<1>9. ASSUME NEW w \in Workers, SendRecheck(w) PROVE Goal
  BY <1>0, <1>9 DEF SendRecheck
<1>10. ASSUME NEW w \in Workers, SendPost(w) PROVE Goal
  BY <1>0, <1>10 DEF SendPost
<1>11. ASSUME NEW w \in Workers, SendFails(w) PROVE Goal
  BY <1>0, <1>11 DEF SendFails
<1>12. ASSUME NEW w \in Workers, SendTakeBack(w) PROVE Goal
  BY <1>0, <1>12 DEF SendTakeBack
<1>13. ASSUME NEW w \in Workers, Receive(w) PROVE Goal
  BY <1>0, <1>13 DEF Receive
<1>14. ASSUME NEW w \in Workers, Publish(w) PROVE Goal
  BY <1>0, <1>14 DEF Publish
<1>15. ASSUME NEW w \in Workers, NEW t \in Workers, Route(w, t) PROVE Goal
  BY <1>0, <1>15 DEF Route
<1>16. ASSUME NEW w \in Workers, NEW S \in SUBSET held[w], HandoffsDone(w, S) PROVE Goal
  BY <1>0, <1>16 DEF HandoffsDone
<1>17. ASSUME NEW w \in Workers, EndTake(w) PROVE Goal
  BY <1>0, <1>17 DEF EndTake
<1>18. ASSUME NEW w \in Workers, EndRetire(w) PROVE Goal
  BY <1>0, <1>18 DEF EndRetire
<1>19. ASSUME NEW w \in Workers, Leave(w) PROVE Goal
  BY <1>0, <1>19 DEF Leave
<1>20. ASSUME NEW w \in Workers, DrainOver(w) PROVE Goal
  BY <1>0, <1>20 DEF DrainOver
<1>21. ASSUME NEW w \in Workers, DrainExpires(w) PROVE Goal
  <2>1. /\ pc[w] = "drain" /\ Left(w) /\ chan[w] = <<>> /\ held[w] = {}
        /\ pending[w] - drained[w] > 0
        /\ \A u \in Workers : ~(pc[u] \in Raised /\ target[u] = w)
    BY <1>0, <1>21 DEF DrainExpires, Go, BudgetSpent, AwaitingHandoffs
  <2>2. supPc # "over"
    BY <1>0, <2>1 DEF Calm, Flow
  <2>3. Cardinality(RaisedTo(w)) = 0
    <3>1. RaisedTo(w) = {}
      BY <2>1 DEF RaisedTo
    <3> QED
      BY <3>1, FS_EmptySet
  <2>4. Len(chan[w]) = 0 /\ Unretired(w) = drained[w] /\ drained[w] \in Nat
    BY <1>0, <2>1 DEF Unretired, TypeOK, LocalsType
  <2>5. pending[w] = drained[w]
    BY <1>0, <2>2, <2>3, <2>4 DEF Counted
  <2> QED
    BY <2>1, <2>4, <2>5
<1>22. ASSUME NEW w \in Workers, NEW S \in SUBSET held[w], DrainPass(w, S) PROVE Goal
  BY <1>0, <1>22 DEF DrainPass
<1>23. ASSUME NEW w \in Workers, Exit(w) PROVE Goal
  BY <1>0, <1>23 DEF Exit, ProcessEnds
<1>24. ASSUME NEW w \in Workers, Declines(w) PROVE Goal
  BY <1>0, <1>24 DEF Declines, ProcessEnds
<1>25. ASSUME NEW w \in Workers, StoppedUnarmed(w) PROVE Goal
  BY <1>0, <1>25 DEF StoppedUnarmed, ProcessEnds
<1>26. ASSUME NEW w \in Workers, RefusesConfig(w) PROVE Goal
  BY <1>0, <1>26 DEF RefusesConfig, ProcessEnds
<1>27. ASSUME NEW w \in Workers, Killed(w) PROVE Goal
  BY <1>0, <1>27 DEF Killed, ProcessEnds
<1>28. ASSUME StopServer PROVE Goal
  BY <1>0, <1>28 DEF StopServer
<1>29. ASSUME NEW w \in Workers, StopOne(w) PROVE Goal
  BY <1>0, <1>29 DEF StopOne
<1>30. ASSUME NEW w \in Workers, Reap(w) PROVE Goal
  BY <1>0, <1>30 DEF Reap
<1>31. ASSUME DeclineRespawn PROVE Goal
  BY <1>0, <1>31 DEF DeclineRespawn
<1>32. ASSUME Respawn PROVE Goal
  BY <1>0, <1>32 DEF Respawn, Fork
<1>33. ASSUME GiveUp PROVE Goal
  BY <1>0, <1>33 DEF GiveUp
<1>34. ASSUME CloseReaped PROVE Goal
  BY <1>0, <1>34 DEF CloseReaped
<1>35. ASSUME CloseReapedEnds PROVE Goal
  BY <1>0, <1>35 DEF CloseReapedEnds, Calm
<1>36. ASSUME CloseReapedTake PROVE Goal
  BY <1>0, <1>36 DEF CloseReapedTake
<1>37. ASSUME CloseReapedRetire PROVE Goal
  BY <1>0, <1>37 DEF CloseReapedRetire
<1>38. ASSUME ReloadBegin PROVE Goal
  BY <1>0, <1>38 DEF ReloadBegin
<1>39. ASSUME ReloadFork PROVE Goal
  BY <1>0, <1>39 DEF ReloadFork, Fork
<1>40. ASSUME ServerEnds PROVE Goal
  BY <1>0, <1>40 DEF ServerEnds
<1>41. CASE UNCHANGED vars
  BY <1>41, <1>0 DEF vars
<1>42. ASSUME NEW w \in Workers, Worker(w) PROVE Goal
  BY <1>42, <1>1, <1>2, <1>3, <1>4, <1>5, <1>6, <1>7, <1>8, <1>9, <1>10, <1>11, <1>12, <1>13,
     <1>14, <1>15, <1>16, <1>17, <1>18, <1>19, <1>20, <1>21, <1>22, <1>23, <1>24, <1>25 DEF
     Worker, Start, Send, Doors, Rounds, Drain, Ending
<1>43. CASE Supervisor
  BY <1>43, <1>30, <1>31, <1>32, <1>33, <1>34, <1>35, <1>36, <1>37, <1>39, <1>40 DEF
     Supervisor
<1>44. CASE Environment
  BY <1>44, <1>28, <1>38, <1>29, <1>26, <1>27 DEF Environment
<1> QED
  BY <1>41, <1>42, <1>43, <1>44 DEF Next

\* A drain ends by itself: where budgets outlast live senders and nobody is killed, no
\* leaver spends its budget waiting for a hand-off that does not come.
THEOREM DrainsEnd == ASSUME Budgets # "any" PROVE Spec => []BudgetUnspent
<1>1. Init => Unspent
  BY DEF Init, Unspent
<1>2. Inductive /\ Exact /\ Unspent => BudgetUnspent
  BY DEF Unspent, Unkilled, BudgetUnspent
<1>3. Inductive /\ Exact /\ Unspent /\ [Next]_vars => (Inductive /\ Exact /\ Unspent)'
  BY NextInductive, NextExact, UnspentStep
<1> QED
  BY <1>1, <1>2, <1>3, InitInductive, InitExact, PTL DEF Spec

-----------------------------------------------------------------------------
(* Where a connection is.                                                  *)

\* The connections on w's channel.
On(w) == {chan[w][i] : i \in 1..Len(chan[w])}

Kinds == {"backlog", "done", "held", "hand", "chan"}

\* Every connection is in the place that kind and owner give it, and in no other.
Placed(kind, owner) ==
  \A c \in Conns :
    /\ c \in backlog <=> kind[c] = "backlog"
    /\ c \in done <=> kind[c] = "done"
    /\ kind[c] \in {"held", "hand", "chan"} => owner[c] \in Workers
    /\ \A w \in Workers :
         /\ c \in held[w] <=> kind[c] = "held" /\ owner[c] = w
         /\ hand[w] = c <=> kind[c] = "hand" /\ owner[c] = w
         /\ c \in On(w) <=> kind[c] = "chan" /\ owner[c] = w

\* There are such a kind and owner, and no channel holds a connection twice.
InPlace == \E kind \in [Conns -> Kinds], owner \in [Conns -> Workers \cup {None}] :
             Placed(kind, owner)
OnceOn(w) == \A i, j \in 1..Len(chan[w]) : i # j => chan[w][i] # chan[w][j]
Once == \A w \in Workers : OnceOn(w)

\* A hand is full only where the code goes on with what is in it.
HandFlow ==
  \A w \in Workers : hand[w] # None => pc[w] \in {"raise", "publish", "route"} \cup Raised

Housed == InPlace /\ Once /\ HandFlow

-----------------------------------------------------------------------------
(* The moves.                                                              *)

\* Nothing moves.
LEMMA StayPut ==
  ASSUME InPlace, UNCHANGED <<backlog, done, held, hand, chan>>
  PROVE  InPlace'
  BY DEF InPlace, Placed, On

\* Exchanges end.
LEMMA EndsMove ==
  ASSUME TypeOK, InPlace, NEW w \in Workers, NEW S \in SUBSET held[w], Ends(w, S),
         UNCHANGED <<backlog, hand, chan>>
  PROVE  InPlace'
<1>1. PICK k \in [Conns -> Kinds], o \in [Conns -> Workers \cup {None}] : Placed(k, o)
  BY DEF InPlace
<1> DEFINE k2 == [c \in Conns |-> IF c \in S THEN "done" ELSE k[c]]
<1>2. k2 \in [Conns -> Kinds]
  BY DEF Kinds
<1>3. \A v \in Workers : On(v)' = On(v)
  BY DEF On
<1>4. \A v \in Workers : held'[v] = IF v = w THEN held[v] \ S ELSE held[v]
  BY DEF Ends, TypeOK, LocalsType
<1>5. \A c \in S : k[c] = "held" /\ o[c] = w
  BY <1>1 DEF Placed, TypeOK, LocalsType
<1>6. Placed(k2, o)'
  BY <1>1, <1>3, <1>4, <1>5 DEF Placed, Ends
<1> HIDE DEF k2
<1> QED
  BY <1>2, <1>6 DEF InPlace

\* Accepted, and kept or sent on.
LEMMA AcceptMove ==
  ASSUME TypeOK, InPlace, HandFlow, NEW w \in Workers, NEW c \in Conns, NEW t \in Workers,
         Accept(w, c, t)
  PROVE  InPlace'
<1>1. PICK k \in [Conns -> Kinds], o \in [Conns -> Workers \cup {None}] : Placed(k, o)
  BY DEF InPlace
<1> DEFINE k2(x) == [d \in Conns |-> IF d = c THEN x ELSE k[d]]
           o2 == [d \in Conns |-> IF d = c THEN w ELSE o[d]]
<1>2. k2("held") \in [Conns -> Kinds] /\ k2("hand") \in [Conns -> Kinds]
      /\ o2 \in [Conns -> Workers \cup {None}]
  BY DEF Kinds
<1>3. \A v \in Workers : On(v)' = On(v)
  BY DEF On, Accept, kernel
<1>4. c \in backlog /\ backlog' = backlog \ {c} /\ done' = done /\ k[c] = "backlog"
  BY <1>1 DEF Accept, Placed
<1>5. hand[w] = None /\ None \notin Conns
  BY ConstantsAssumption DEF Accept, Go, HandFlow, Raised
<1>6. CASE t = w
  <2>1. \A v \in Workers : /\ hand'[v] = hand[v]
                           /\ held'[v] = IF v = w THEN held[v] \cup {c} ELSE held[v]
    BY <1>6 DEF Accept, TypeOK, LocalsType
  <2>2. \A v \in Workers, d \in Conns : d \in held'[v] <=> d \in held[v] \/ (v = w /\ d = c)
    BY <2>1
  <2>3. \A v \in Workers : hand'[v] = hand[v]
    BY <2>1
  <2>4. Placed(k2("held"), o2)'
    BY <1>1, <1>3, <1>4, <2>2, <2>3 DEF Placed
  <2> HIDE DEF k2, o2
  <2> QED
    BY <1>2, <2>4 DEF InPlace
<1>7. CASE t # w
  <2>1. held' = held /\ \A v \in Workers : hand'[v] = IF v = w THEN c ELSE hand[v]
    BY <1>7 DEF Accept, TypeOK, LocalsType
  <2>2. Placed(k2("hand"), o2)'
    BY <1>1, <1>3, <1>4, <1>5, <2>1 DEF Placed
  <2> HIDE DEF k2, o2
  <2> QED
    BY <1>2, <2>2 DEF InPlace
<1> QED
  BY <1>6, <1>7

\* What was in hand is admitted.
LEMMA AdmitMove ==
  ASSUME TypeOK, InPlace, NEW w \in Workers,
         held' = [held EXCEPT ![w] = @ \cup Kept(w)], hand' = [hand EXCEPT ![w] = None],
         UNCHANGED <<backlog, done, chan>>
  PROVE  InPlace'
<1>1. PICK k \in [Conns -> Kinds], o \in [Conns -> Workers \cup {None}] : Placed(k, o)
  BY DEF InPlace
<1>0. PICK h : h = hand[w]
  OBVIOUS
<1> DEFINE k2 == [c \in Conns |-> IF c = h THEN "held" ELSE k[c]]
<1>2. k2 \in [Conns -> Kinds]
  BY DEF Kinds
<1>3. \A v \in Workers : On(v)' = On(v)
  BY DEF On
<1>4. \A v \in Workers : /\ held'[v] = IF v = w THEN held[v] \cup Kept(w) ELSE held[v]
                         /\ hand'[v] = IF v = w THEN None ELSE hand[v]
  BY DEF TypeOK, LocalsType
<1>5. None \notin Conns /\ \A c \in Conns : c \in Kept(w) <=> c = h
  BY <1>0, ConstantsAssumption DEF Kept
<1>6. \A v \in Workers, c \in Conns : /\ c \in held'[v] <=> c \in held[v] \/ (v = w /\ c = h)
                                      /\ hand'[v] = c <=> hand[v] = c /\ v # w
  BY <1>4, <1>5
<1>7. \A c \in Conns : c = h => k[c] = "hand" /\ o[c] = w
  BY <1>0, <1>1 DEF Placed
<1>8. Placed(k2, o)'
  BY <1>0, <1>1, <1>3, <1>6, <1>7 DEF Placed
<1> HIDE DEF k2
<1> QED
  BY <1>1, <1>2, <1>8 DEF InPlace

-----------------------------------------------------------------------------
(* Channels.                                                               *)

\* What a post adds to a channel.
LEMMA PostOn ==
  ASSUME TypeOK, NEW t \in Workers, NEW x \in Conns,
         chan' = [chan EXCEPT ![t] = Append(@, x)]
  PROVE  /\ \A v \in Workers : On(v)' = IF v = t THEN On(v) \cup {x} ELSE On(v)
         /\ Once /\ x \notin On(t) => Once'
<1>1. \A v \in Workers \ {t} : chan'[v] = chan[v]
  BY DEF TypeOK, KernelType
<1>2. /\ chan[t] \in Seq(Conns) /\ chan'[t] = Append(chan[t], x)
  BY DEF TypeOK, KernelType
<1>3. /\ Len(chan'[t]) = Len(chan[t]) + 1 /\ chan'[t][Len(chan[t]) + 1] = x
      /\ Len(chan[t]) \in Nat
      /\ \A i \in 1..Len(chan[t]) : chan'[t][i] = chan[t][i]
  BY <1>2
<1>4. On(t)' = On(t) \cup {x}
  BY <1>3 DEF On
<1>5. ASSUME Once, x \notin On(t) PROVE Once'
  <2>1. OnceOn(t)'
    <3>1. \A i, j \in 1..Len(chan[t]) : i # j => chan[t][i] # chan[t][j]
      BY <1>5 DEF Once, OnceOn
    <3>2. \A i \in 1..Len(chan[t]) : chan[t][i] # x
      BY <1>5 DEF On
    <3>3. 1..Len(chan'[t]) = (1..Len(chan[t])) \cup {Len(chan[t]) + 1}
      BY <1>3
    <3> QED
      BY <1>3, <3>1, <3>2, <3>3 DEF OnceOn
  <2> QED
    BY <1>1, <1>5, <2>1 DEF Once, OnceOn
<1> QED
  BY <1>1, <1>4, <1>5 DEF On

\* A sequence without its head.
LEMMA Shorter ==
  ASSUME NEW S, NEW s \in Seq(S), s # <<>>
  PROVE  /\ Len(s) \in Nat \ {0} /\ Len(Tail(s)) = Len(s) - 1
         /\ Head(s) = s[1] /\ Head(s) \in S
         /\ \A i \in 1..Len(Tail(s)) : Tail(s)[i] = s[i + 1]
  BY HeadTailProperties, LenProperties, EmptySeq

\* What a receive takes off it.
LEMMA ReceiveOn ==
  ASSUME TypeOK, Once, NEW t \in Workers, chan[t] # <<>>,
         chan' = [chan EXCEPT ![t] = Tail(@)]
  PROVE  /\ \A v \in Workers : On(v)' = IF v = t THEN On(v) \ {Head(chan[t])} ELSE On(v)
         /\ Head(chan[t]) \in On(t) /\ Head(chan[t]) \in Conns /\ Once'
<1>1. \A v \in Workers \ {t} : chan'[v] = chan[v]
  BY DEF TypeOK, KernelType
<1>2. chan[t] \in Seq(Conns) /\ chan'[t] = Tail(chan[t])
  BY DEF TypeOK, KernelType
<1>3. /\ Len(chan[t]) \in Nat \ {0} /\ Len(chan'[t]) = Len(chan[t]) - 1
      /\ Head(chan[t]) = chan[t][1] /\ Head(chan[t]) \in Conns
      /\ \A i \in 1..Len(chan'[t]) : chan'[t][i] = chan[t][i + 1]
  <2>1. PICK s \in Seq(Conns) : s = chan[t]
    BY <1>2
  <2>2. /\ Len(s) \in Nat \ {0} /\ Len(Tail(s)) = Len(s) - 1 /\ Head(s) = s[1] /\ Head(s) \in Conns
        /\ \A i \in 1..Len(Tail(s)) : Tail(s)[i] = s[i + 1]
    BY <2>1, Shorter
  <2> QED
    BY <1>2, <2>1, <2>2
<1>4. \A i, j \in 1..Len(chan[t]) : i # j => chan[t][i] # chan[t][j]
  BY DEF Once, OnceOn
<1>5. On(t)' = On(t) \ {Head(chan[t])}
  <2>1. ASSUME NEW c, c \in On(t)' PROVE c \in On(t) \ {Head(chan[t])}
    <3>1. PICK i \in 1..Len(chan'[t]) : c = chan'[t][i]
      BY <2>1 DEF On
    <3>2. i + 1 \in 1..Len(chan[t]) /\ i + 1 # 1 /\ 1 \in 1..Len(chan[t]) /\ c = chan[t][i + 1]
      BY <1>3, <3>1
    <3> QED
      BY <1>3, <1>4, <3>2 DEF On
  <2>2. ASSUME NEW c \in On(t), c # Head(chan[t]) PROVE c \in On(t)'
    <3>1. PICK i \in 1..Len(chan[t]) : c = chan[t][i]
      BY <2>2 DEF On
    <3>2. i - 1 \in 1..Len(chan'[t]) /\ (i - 1) + 1 = i
      BY <1>3, <2>2, <3>1
    <3>3. c = chan'[t][i - 1]
      BY <1>3, <3>1, <3>2
    <3> QED
      BY <3>2, <3>3 DEF On
  <2> QED
    BY <2>1, <2>2
<1>6. Head(chan[t]) \in On(t)
  BY <1>3 DEF On
<1>7. OnceOn(t)'
  <2> SUFFICES ASSUME NEW i \in 1..Len(chan'[t]), NEW j \in 1..Len(chan'[t]), i # j
               PROVE  chan'[t][i] # chan'[t][j]
    BY DEF OnceOn
  <2>1. i + 1 \in 1..Len(chan[t]) /\ j + 1 \in 1..Len(chan[t]) /\ i + 1 # j + 1
    BY <1>3
  <2> QED
    BY <1>3, <1>4, <2>1
<1>8. Once'
  BY <1>1, <1>7 DEF Once, OnceOn
<1>9. \A v \in Workers \ {t} : On(v)' = On(v)
  BY <1>1 DEF On
<1> QED
  BY <1>3, <1>5, <1>6, <1>8, <1>9

\* Posted: from the hand to the target's channel.
LEMMA PostMove ==
  ASSUME TypeOK, InPlace, Once, NEW w \in Workers, NEW t \in Workers, hand[w] \in Conns,
         chan' = [chan EXCEPT ![t] = Append(@, hand[w])],
         hand' = [hand EXCEPT ![w] = None], UNCHANGED <<backlog, done, held>>
  PROVE  InPlace' /\ Once'
<1>0. PICK h \in Conns : h = hand[w]
  OBVIOUS
<1>1. PICK k \in [Conns -> Kinds], o \in [Conns -> Workers \cup {None}] : Placed(k, o)
  BY DEF InPlace
<1> DEFINE k2 == [c \in Conns |-> IF c = h THEN "chan" ELSE k[c]]
           o2 == [c \in Conns |-> IF c = h THEN t ELSE o[c]]
<1>2. k2 \in [Conns -> Kinds] /\ o2 \in [Conns -> Workers \cup {None}]
  BY DEF Kinds
<1>3. k[h] = "hand" /\ o[h] = w /\ h \notin On(t)
  BY <1>0, <1>1 DEF Placed
<1>4. Once' /\ \A v \in Workers : On(v)' = IF v = t THEN On(v) \cup {h} ELSE On(v)
  BY <1>0, <1>3, PostOn
<1>5. \A v \in Workers, c \in Conns : c \in On(v)' <=> c \in On(v) \/ (v = t /\ c = h)
  BY <1>4
<1>6. None \notin Conns /\ \A v \in Workers : hand'[v] = IF v = w THEN None ELSE hand[v]
  BY ConstantsAssumption DEF TypeOK, LocalsType
<1>7. Placed(k2, o2)'
  BY <1>0, <1>1, <1>3, <1>5, <1>6 DEF Placed
<1> HIDE DEF k2, o2
<1> QED
  BY <1>2, <1>4, <1>7 DEF InPlace

\* Received: off the channel, into the hand.
LEMMA ReceiveMove ==
  ASSUME TypeOK, InPlace, Once, NEW w \in Workers, chan[w] # <<>>, hand[w] = None,
         chan' = [chan EXCEPT ![w] = Tail(@)],
         hand' = [hand EXCEPT ![w] = Head(chan[w])], UNCHANGED <<backlog, done, held>>
  PROVE  InPlace' /\ Once'
<1>0. PICK h : h = Head(chan[w])
  OBVIOUS
<1>1. PICK k \in [Conns -> Kinds], o \in [Conns -> Workers \cup {None}] : Placed(k, o)
  BY DEF InPlace
<1> DEFINE k2 == [c \in Conns |-> IF c = h THEN "hand" ELSE k[c]]
<1>2. k2 \in [Conns -> Kinds]
  BY DEF Kinds
<1>3. /\ h \in On(w) /\ h \in Conns /\ Once'
      /\ \A v \in Workers : On(v)' = IF v = w THEN On(v) \ {h} ELSE On(v)
  BY <1>0, ReceiveOn
<1>4. k[h] = "chan" /\ o[h] = w
  BY <1>1, <1>3 DEF Placed
<1>5. \A v \in Workers, c \in Conns : c \in On(v)' <=> c \in On(v) /\ ~(v = w /\ c = h)
  BY <1>3
<1>6. None \notin Conns /\ \A v \in Workers : hand'[v] = IF v = w THEN h ELSE hand[v]
  BY <1>0, ConstantsAssumption DEF TypeOK, LocalsType
<1>7. Placed(k2, o)'
  BY <1>1, <1>3, <1>4, <1>5, <1>6 DEF Placed
<1> HIDE DEF k2
<1> QED
  BY <1>1, <1>2, <1>3, <1>7 DEF InPlace

\* Received and closed.
LEMMA CloseMove ==
  ASSUME TypeOK, InPlace, Once, NEW w \in Workers, chan[w] # <<>>,
         chan' = [chan EXCEPT ![w] = Tail(@)], done' = done \cup {Head(chan[w])},
         UNCHANGED <<backlog, held, hand>>
  PROVE  InPlace' /\ Once'
<1>0. PICK h : h = Head(chan[w])
  OBVIOUS
<1>1. PICK k \in [Conns -> Kinds], o \in [Conns -> Workers \cup {None}] : Placed(k, o)
  BY DEF InPlace
<1> DEFINE k2 == [c \in Conns |-> IF c = h THEN "done" ELSE k[c]]
<1>2. k2 \in [Conns -> Kinds]
  BY DEF Kinds
<1>3. /\ h \in On(w) /\ h \in Conns /\ Once'
      /\ \A v \in Workers : On(v)' = IF v = w THEN On(v) \ {h} ELSE On(v)
  BY <1>0, ReceiveOn
<1>4. k[h] = "chan" /\ o[h] = w
  BY <1>1, <1>3 DEF Placed
<1>5. \A v \in Workers, c \in Conns : c \in On(v)' <=> c \in On(v) /\ ~(v = w /\ c = h)
  BY <1>3
<1>6. \A c \in Conns : c \in done' <=> c \in done \/ c = h
  BY <1>0
<1>7. Placed(k2, o)'
  BY <1>1, <1>3, <1>4, <1>5, <1>6 DEF Placed
<1> HIDE DEF k2
<1> QED
  BY <1>1, <1>2, <1>3, <1>7 DEF InPlace

\* A process ends, and what it held and had in hand is closed.
LEMMA EndMove ==
  ASSUME TypeOK, InPlace, NEW w \in Workers, NEW how, ProcessEnds(w, how)
  PROVE  InPlace'
<1>0. PICK h, H : h = hand[w] /\ H = held[w]
  OBVIOUS
<1>1. PICK k \in [Conns -> Kinds], o \in [Conns -> Workers \cup {None}] : Placed(k, o)
  BY DEF InPlace
<1> DEFINE k2 == [c \in Conns |-> IF c = h \/ c \in H THEN "done" ELSE k[c]]
<1>2. k2 \in [Conns -> Kinds]
  BY DEF Kinds
<1>3. \A v \in Workers : On(v)' = On(v)
  BY DEF On, ProcessEnds
<1>4. None \notin Conns /\ \A c \in Conns : c \in done' <=> c \in done \/ c = h \/ c \in H
  BY <1>0, ConstantsAssumption DEF ProcessEnds, Kept
<1>5. backlog' = backlog /\ \A v \in Workers :
        /\ held'[v] = IF v = w THEN {} ELSE held[v]
        /\ hand'[v] = IF v = w THEN None ELSE hand[v]
  BY DEF ProcessEnds, TypeOK, LocalsType
<1>6. \A c \in Conns : /\ c = h => k[c] = "hand" /\ o[c] = w
                       /\ c \in H <=> k[c] = "held" /\ o[c] = w
  BY <1>0, <1>1 DEF Placed
<1>7. Placed(k2, o)'
  BY <1>0, <1>1, <1>3, <1>4, <1>5, <1>6 DEF Placed
<1> HIDE DEF k2
<1> QED
  BY <1>1, <1>2, <1>7 DEF InPlace

\* The server ends: the kernel closes the channels and the listener.
LEMMA ServerMove ==
  ASSUME TypeOK, InPlace, ServerEnds
  PROVE  InPlace' /\ Once'
<1>1. PICK k \in [Conns -> Kinds], o \in [Conns -> Workers \cup {None}] : Placed(k, o)
  BY DEF InPlace
<1> DEFINE k2 == [c \in Conns |-> IF k[c] \in {"backlog", "chan"} THEN "done" ELSE k[c]]
<1>2. k2 \in [Conns -> Kinds]
  BY DEF Kinds
<1>3. \A v \in Workers : chan'[v] = <<>> /\ On(v)' = {}
  BY DEF On, ServerEnds
<1>4. \A c : c \in Queued <=> \E v \in Workers : c \in On(v)
  BY DEF Queued, On
<1>5. /\ backlog' = {} /\ UNCHANGED <<held, hand>>
      /\ \A c \in Conns : c \in done' <=> c \in done \/ c \in backlog \/ c \in Queued
  BY DEF ServerEnds, locals
<1>6. \A c \in Conns : c \in Queued => k[c] = "chan"
  BY <1>1, <1>4 DEF Placed
<1>7. \A c \in Conns : k[c] = "chan" => c \in Queued
  BY <1>1, <1>4 DEF Placed
<1>8. Placed(k2, o)'
  BY <1>1, <1>3, <1>5, <1>6, <1>7 DEF Placed
<1> HIDE DEF k2
<1> QED
  BY <1>1, <1>2, <1>3, <1>8 DEF InPlace, Once, OnceOn

-----------------------------------------------------------------------------
(* Every step keeps each connection in one place.                          *)

\* A channel that does not change holds nothing twice.
LEMMA StayOnce == ASSUME Once, UNCHANGED chan PROVE Once'
  BY DEF Once, OnceOn

\* The hands follow the code.
LEMMA HandStep == TypeOK /\ Flow /\ Reaping /\ HandFlow /\ [Next]_vars => HandFlow'
<1> SUFFICES ASSUME TypeOK, Flow, Reaping, HandFlow, [Next]_vars PROVE HandFlow'
  OBVIOUS
<1> USE DEF page, locals, kernel, supLocal, procs, history, HandFlow, TypeOK, LocalsType, Raised
<1>1. ASSUME NEW w \in Workers, Bind(w) PROVE HandFlow'
  BY <1>1 DEF Bind, Go
<1>2. ASSUME NEW w \in Workers, StartPark(w) PROVE HandFlow'
  BY <1>2 DEF StartPark, Go
<1>3. ASSUME NEW w \in Workers, StartTake(w) PROVE HandFlow'
  BY <1>3 DEF StartTake, Go
<1>4. ASSUME NEW w \in Workers, StartRetire(w) PROVE HandFlow'
  BY <1>4 DEF StartRetire, Go
<1>5. ASSUME NEW w \in Workers, NEW S \in SUBSET held[w], PassBegin(w, S) PROVE HandFlow'
  BY <1>5 DEF PassBegin, Go, Ends
<1>6. ASSUME NEW w \in Workers, NEW c \in Conns, NEW t \in Workers, Accept(w, c, t)
      PROVE  HandFlow'
  BY <1>6 DEF Accept, Go
<1>7. ASSUME NEW w \in Workers, AcceptDone(w) PROVE HandFlow'
  BY <1>7 DEF AcceptDone, Go
<1>8. ASSUME NEW w \in Workers, SendRaise(w) PROVE HandFlow'
  BY <1>8 DEF SendRaise, Go
<1>9. ASSUME NEW w \in Workers, SendRecheck(w) PROVE HandFlow'
  BY <1>9 DEF SendRecheck, Go
<1>10. ASSUME NEW w \in Workers, SendPost(w) PROVE HandFlow'
  BY <1>10 DEF SendPost, Go, Resume
<1>11. ASSUME NEW w \in Workers, SendFails(w) PROVE HandFlow'
  BY <1>11 DEF SendFails, Go
<1>12. ASSUME NEW w \in Workers, SendTakeBack(w) PROVE HandFlow'
  BY <1>12 DEF SendTakeBack, Go, Resume
<1>13. ASSUME NEW w \in Workers, Receive(w) PROVE HandFlow'
  BY <1>13 DEF Receive, Go
<1>14. ASSUME NEW w \in Workers, Publish(w) PROVE HandFlow'
  BY <1>14 DEF Publish, Go, Kept
<1>15. ASSUME NEW w \in Workers, NEW t \in Workers, Route(w, t) PROVE HandFlow'
  BY <1>15 DEF Route, Go
<1>16. ASSUME NEW w \in Workers, NEW S \in SUBSET held[w], HandoffsDone(w, S) PROVE HandFlow'
  BY <1>16 DEF HandoffsDone, Go, Ends
<1>17. ASSUME NEW w \in Workers, EndTake(w) PROVE HandFlow'
  BY <1>17 DEF EndTake, Go
<1>18. ASSUME NEW w \in Workers, EndRetire(w) PROVE HandFlow'
  BY <1>18 DEF EndRetire, Go
<1>19. ASSUME NEW w \in Workers, Leave(w) PROVE HandFlow'
  BY <1>19 DEF Leave, Go
<1>20. ASSUME NEW w \in Workers, DrainOver(w) PROVE HandFlow'
  BY <1>20 DEF DrainOver, Go
<1>21. ASSUME NEW w \in Workers, DrainExpires(w) PROVE HandFlow'
  BY <1>21 DEF DrainExpires, Go
<1>22. ASSUME NEW w \in Workers, NEW S \in SUBSET held[w], DrainPass(w, S) PROVE HandFlow'
  BY <1>22 DEF DrainPass, Go, Ends
<1>23. ASSUME NEW w \in Workers, Exit(w) PROVE HandFlow'
  BY <1>23 DEF Exit, Go, ProcessEnds
<1>24. ASSUME NEW w \in Workers, Declines(w) PROVE HandFlow'
  BY <1>24 DEF Declines, Go, ProcessEnds
<1>25. ASSUME NEW w \in Workers, StoppedUnarmed(w) PROVE HandFlow'
  BY <1>25 DEF StoppedUnarmed, Go, ProcessEnds
<1>26. ASSUME NEW w \in Workers, RefusesConfig(w) PROVE HandFlow'
  BY <1>26 DEF RefusesConfig, Go, ProcessEnds
<1>27. ASSUME NEW w \in Workers, Killed(w) PROVE HandFlow'
  BY <1>27 DEF Killed, Go, ProcessEnds
<1>28. ASSUME StopServer PROVE HandFlow'
  BY <1>28 DEF StopServer
<1>29. ASSUME NEW w \in Workers, StopOne(w) PROVE HandFlow'
  BY <1>29 DEF StopOne
<1>30. ASSUME NEW w \in Workers, Reap(w) PROVE HandFlow'
  BY <1>30 DEF Reap
<1>31. ASSUME DeclineRespawn PROVE HandFlow'
  BY <1>31 DEF DeclineRespawn
<1>32. ASSUME Respawn PROVE HandFlow'
  BY <1>32, ConstantsAssumption DEF Respawn, Fork, Flow, Reaping, ProcsType, Dead, Vacant
<1>33. ASSUME GiveUp PROVE HandFlow'
  BY <1>33 DEF GiveUp
<1>34. ASSUME CloseReaped PROVE HandFlow'
  BY <1>34 DEF CloseReaped
<1>35. ASSUME CloseReapedEnds PROVE HandFlow'
  BY <1>35 DEF CloseReapedEnds
<1>36. ASSUME CloseReapedTake PROVE HandFlow'
  BY <1>36 DEF CloseReapedTake
<1>37. ASSUME CloseReapedRetire PROVE HandFlow'
  BY <1>37 DEF CloseReapedRetire
<1>38. ASSUME ReloadBegin PROVE HandFlow'
  BY <1>38 DEF ReloadBegin
<1>39. ASSUME ReloadFork PROVE HandFlow'
  BY <1>39, ConstantsAssumption DEF ReloadFork, Fork, Flow, Reaping, ProcsType, Dead, Vacant
<1>40. ASSUME ServerEnds PROVE HandFlow'
  BY <1>40 DEF ServerEnds
<1>41. CASE UNCHANGED vars
  BY <1>41 DEF vars
<1>42. ASSUME NEW w \in Workers, Worker(w) PROVE HandFlow'
  BY <1>42, <1>1, <1>2, <1>3, <1>4, <1>5, <1>6, <1>7, <1>8, <1>9, <1>10, <1>11, <1>12, <1>13,
     <1>14, <1>15, <1>16, <1>17, <1>18, <1>19, <1>20, <1>21, <1>22, <1>23, <1>24, <1>25 DEF
     Worker, Start, Send, Doors, Rounds, Drain, Ending
<1>43. CASE Supervisor
  BY <1>43, <1>30, <1>31, <1>32, <1>33, <1>34, <1>35, <1>36, <1>37, <1>39, <1>40 DEF
     Supervisor
<1>44. CASE Environment
  BY <1>44, <1>28, <1>38, <1>29, <1>26, <1>27 DEF Environment
<1> QED
  BY <1>41, <1>42, <1>43, <1>44 DEF Next

\* The connections move as the lemmas above say, or stay.
LEMMA HousedStep == TypeOK /\ Flow /\ Reaping /\ Housed /\ [Next]_vars => InPlace' /\ Once'
<1> SUFFICES ASSUME TypeOK, Flow, Reaping, InPlace, Once, HandFlow, [Next]_vars
             PROVE  InPlace' /\ Once'
  BY DEF Housed
<1> USE DEF page, locals, kernel, supLocal, procs, history
<1>0. None \notin Conns
  BY ConstantsAssumption
<1>1. ASSUME NEW w \in Workers, Bind(w) PROVE InPlace' /\ Once'
  <2>1. UNCHANGED <<backlog, done, held, hand, chan>>
    BY <1>1 DEF Bind
  <2> QED
    BY <2>1, StayPut, StayOnce
<1>2. ASSUME NEW w \in Workers, StartPark(w) PROVE InPlace' /\ Once'
  <2>1. UNCHANGED <<backlog, done, held, hand, chan>>
    BY <1>2 DEF StartPark
  <2> QED
    BY <2>1, StayPut, StayOnce
<1>3. ASSUME NEW w \in Workers, StartTake(w) PROVE InPlace' /\ Once'
  <2>1. UNCHANGED <<backlog, done, held, hand, chan>>
    BY <1>3 DEF StartTake
  <2> QED
    BY <2>1, StayPut, StayOnce
<1>4. ASSUME NEW w \in Workers, StartRetire(w) PROVE InPlace' /\ Once'
  <2>1. UNCHANGED <<backlog, done, held, hand, chan>>
    BY <1>4 DEF StartRetire
  <2> QED
    BY <2>1, StayPut, StayOnce
<1>5. ASSUME NEW w \in Workers, NEW S \in SUBSET held[w], PassBegin(w, S) PROVE InPlace' /\ Once'
  <2>1. Ends(w, S) /\ UNCHANGED <<backlog, hand, chan>>
    BY <1>5 DEF PassBegin
  <2> QED
    BY <2>1, EndsMove, StayOnce
<1>6. ASSUME NEW w \in Workers, NEW c \in Conns, NEW t \in Workers, Accept(w, c, t)
      PROVE  InPlace' /\ Once'
  <2>1. UNCHANGED chan
    BY <1>6 DEF Accept
  <2> QED
    BY <1>6, <2>1, AcceptMove, StayOnce
<1>7. ASSUME NEW w \in Workers, AcceptDone(w) PROVE InPlace' /\ Once'
  <2>1. UNCHANGED <<backlog, done, held, hand, chan>>
    BY <1>7 DEF AcceptDone
  <2> QED
    BY <2>1, StayPut, StayOnce
<1>8. ASSUME NEW w \in Workers, SendRaise(w) PROVE InPlace' /\ Once'
  <2>1. UNCHANGED <<backlog, done, held, hand, chan>>
    BY <1>8 DEF SendRaise
  <2> QED
    BY <2>1, StayPut, StayOnce
<1>9. ASSUME NEW w \in Workers, SendRecheck(w) PROVE InPlace' /\ Once'
  <2>1. UNCHANGED <<backlog, done, held, hand, chan>>
    BY <1>9 DEF SendRecheck
  <2> QED
    BY <2>1, StayPut, StayOnce
<1>10. ASSUME NEW w \in Workers, SendPost(w) PROVE InPlace' /\ Once'
  <2>1. PICK t \in Workers : t = target[w]
    BY <1>10 DEF SendPost, Go, Flow, Raised
  <2>2. /\ hand[w] \in Conns /\ chan' = [chan EXCEPT ![t] = Append(@, hand[w])]
        /\ hand' = [hand EXCEPT ![w] = None] /\ UNCHANGED <<backlog, done, held>>
    BY <1>10, <2>1 DEF SendPost, Go, Flow, Raised
  <2> QED
    BY <2>2, PostMove
<1>11. ASSUME NEW w \in Workers, SendFails(w) PROVE InPlace' /\ Once'
  <2>1. UNCHANGED <<backlog, done, held, hand, chan>>
    BY <1>11 DEF SendFails
  <2> QED
    BY <2>1, StayPut, StayOnce
<1>12. ASSUME NEW w \in Workers, SendTakeBack(w) PROVE InPlace' /\ Once'
  <2>1. /\ Kept(w) = {hand[w]} /\ held' = [held EXCEPT ![w] = @ \cup {hand[w]}]
        /\ hand' = [hand EXCEPT ![w] = None] /\ UNCHANGED <<backlog, done, chan>>
    BY <1>0, <1>12 DEF SendTakeBack, Go, Flow, Raised, Kept
  <2> QED
    BY <2>1, AdmitMove, StayOnce
<1>13. ASSUME NEW w \in Workers, Receive(w) PROVE InPlace' /\ Once'
  <2>1. hand[w] = None /\ chan[w] # <<>> /\ chan' = [chan EXCEPT ![w] = Tail(@)]
    BY <1>13 DEF Receive, Go, HandFlow, Raised
  <2>2. CASE hand' = [hand EXCEPT ![w] = Head(chan[w])] /\ UNCHANGED done
    BY <1>13, <2>1, <2>2, ReceiveMove DEF Receive
  <2>3. CASE done' = done \cup {Head(chan[w])} /\ UNCHANGED hand
    BY <1>13, <2>1, <2>3, CloseMove DEF Receive
  <2> QED
    BY <1>13, <2>2, <2>3 DEF Receive
<1>14. ASSUME NEW w \in Workers, Publish(w) PROVE InPlace' /\ Once'
  <2>1. UNCHANGED <<backlog, done, chan>>
    BY <1>14 DEF Publish
  <2>2. CASE UNCHANGED <<hand, held>>
    BY <2>1, <2>2, StayPut, StayOnce
  <2>3. CASE held' = [held EXCEPT ![w] = @ \cup Kept(w)] /\ hand' = [hand EXCEPT ![w] = None]
    BY <2>1, <2>3, AdmitMove, StayOnce
  <2> QED
    BY <1>14, <2>2, <2>3 DEF Publish
<1>15. ASSUME NEW w \in Workers, NEW t \in Workers, Route(w, t) PROVE InPlace' /\ Once'
  <2>1. Kept(w) = {hand[w]} /\ UNCHANGED <<backlog, done, chan>>
    BY <1>0, <1>15 DEF Route, Go, Flow, Kept
  <2>2. CASE UNCHANGED <<hand, held>>
    BY <2>1, <2>2, StayPut, StayOnce
  <2>3. CASE held' = [held EXCEPT ![w] = @ \cup {hand[w]}] /\ hand' = [hand EXCEPT ![w] = None]
    BY <2>1, <2>3, AdmitMove, StayOnce
  <2> QED
    BY <1>15, <2>2, <2>3 DEF Route
<1>16. ASSUME NEW w \in Workers, NEW S \in SUBSET held[w], HandoffsDone(w, S)
      PROVE  InPlace' /\ Once'
  <2>1. Ends(w, S) /\ UNCHANGED <<backlog, hand, chan>>
    BY <1>16 DEF HandoffsDone
  <2> QED
    BY <2>1, EndsMove, StayOnce
<1>17. ASSUME NEW w \in Workers, EndTake(w) PROVE InPlace' /\ Once'
  <2>1. UNCHANGED <<backlog, done, held, hand, chan>>
    BY <1>17 DEF EndTake
  <2> QED
    BY <2>1, StayPut, StayOnce
<1>18. ASSUME NEW w \in Workers, EndRetire(w) PROVE InPlace' /\ Once'
  <2>1. UNCHANGED <<backlog, done, held, hand, chan>>
    BY <1>18 DEF EndRetire
  <2> QED
    BY <2>1, StayPut, StayOnce
<1>19. ASSUME NEW w \in Workers, Leave(w) PROVE InPlace' /\ Once'
  <2>1. UNCHANGED <<backlog, done, held, hand, chan>>
    BY <1>19 DEF Leave
  <2> QED
    BY <2>1, StayPut, StayOnce
<1>20. ASSUME NEW w \in Workers, DrainOver(w) PROVE InPlace' /\ Once'
  <2>1. UNCHANGED <<backlog, done, held, hand, chan>>
    BY <1>20 DEF DrainOver
  <2> QED
    BY <2>1, StayPut, StayOnce
<1>21. ASSUME NEW w \in Workers, DrainExpires(w) PROVE InPlace' /\ Once'
  <2>1. UNCHANGED <<backlog, done, held, hand, chan>>
    BY <1>21 DEF DrainExpires
  <2> QED
    BY <2>1, StayPut, StayOnce
<1>22. ASSUME NEW w \in Workers, NEW S \in SUBSET held[w], DrainPass(w, S) PROVE InPlace' /\ Once'
  <2>1. Ends(w, S) /\ UNCHANGED <<backlog, hand, chan>>
    BY <1>22 DEF DrainPass
  <2> QED
    BY <2>1, EndsMove, StayOnce
<1>23. ASSUME NEW w \in Workers, Exit(w) PROVE InPlace' /\ Once'
  <2>1. ProcessEnds(w, "exited")
    BY <1>23 DEF Exit
  <2>2. UNCHANGED chan
    BY <2>1 DEF ProcessEnds
  <2> QED
    BY <2>1, <2>2, EndMove, StayOnce
<1>24. ASSUME NEW w \in Workers, Declines(w) PROVE InPlace' /\ Once'
  <2>1. ProcessEnds(w, "declined")
    BY <1>24 DEF Declines
  <2>2. UNCHANGED chan
    BY <2>1 DEF ProcessEnds
  <2> QED
    BY <2>1, <2>2, EndMove, StayOnce
<1>25. ASSUME NEW w \in Workers, StoppedUnarmed(w) PROVE InPlace' /\ Once'
  <2>1. ProcessEnds(w, "stopped")
    BY <1>25 DEF StoppedUnarmed
  <2>2. UNCHANGED chan
    BY <2>1 DEF ProcessEnds
  <2> QED
    BY <2>1, <2>2, EndMove, StayOnce
<1>26. ASSUME NEW w \in Workers, RefusesConfig(w) PROVE InPlace' /\ Once'
  <2>1. ProcessEnds(w, "stopped")
    BY <1>26 DEF RefusesConfig
  <2>2. UNCHANGED chan
    BY <2>1 DEF ProcessEnds
  <2> QED
    BY <2>1, <2>2, EndMove, StayOnce
<1>27. ASSUME NEW w \in Workers, Killed(w) PROVE InPlace' /\ Once'
  <2>1. ProcessEnds(w, "killed")
    BY <1>27 DEF Killed
  <2>2. UNCHANGED chan
    BY <2>1 DEF ProcessEnds
  <2> QED
    BY <2>1, <2>2, EndMove, StayOnce
<1>28. ASSUME StopServer PROVE InPlace' /\ Once'
  <2>1. UNCHANGED <<backlog, done, held, hand, chan>>
    BY <1>28 DEF StopServer
  <2> QED
    BY <2>1, StayPut, StayOnce
<1>29. ASSUME NEW w \in Workers, StopOne(w) PROVE InPlace' /\ Once'
  <2>1. UNCHANGED <<backlog, done, held, hand, chan>>
    BY <1>29 DEF StopOne
  <2> QED
    BY <2>1, StayPut, StayOnce
<1>30. ASSUME NEW w \in Workers, Reap(w) PROVE InPlace' /\ Once'
  <2>1. UNCHANGED <<backlog, done, held, hand, chan>>
    BY <1>30 DEF Reap
  <2> QED
    BY <2>1, StayPut, StayOnce
<1>31. ASSUME DeclineRespawn PROVE InPlace' /\ Once'
  <2>1. UNCHANGED <<backlog, done, held, hand, chan>>
    BY <1>31 DEF DeclineRespawn
  <2> QED
    BY <2>1, StayPut, StayOnce
<1>32. ASSUME Respawn PROVE InPlace' /\ Once'
  <2>1. UNCHANGED <<backlog, done, held, hand, chan>>
    BY <1>32 DEF Respawn
  <2> QED
    BY <2>1, StayPut, StayOnce
<1>33. ASSUME GiveUp PROVE InPlace' /\ Once'
  <2>1. UNCHANGED <<backlog, done, held, hand, chan>>
    BY <1>33 DEF GiveUp
  <2> QED
    BY <2>1, StayPut, StayOnce
<1>34. ASSUME CloseReaped PROVE InPlace' /\ Once'
  <2>1. supWorker \in Workers
    BY <1>34 DEF CloseReaped, Reaping
  <2> QED
    BY <1>34, <2>1, CloseMove DEF CloseReaped
<1>35. ASSUME CloseReapedEnds PROVE InPlace' /\ Once'
  <2>1. UNCHANGED <<backlog, done, held, hand, chan>>
    BY <1>35 DEF CloseReapedEnds
  <2> QED
    BY <2>1, StayPut, StayOnce
<1>36. ASSUME CloseReapedTake PROVE InPlace' /\ Once'
  <2>1. UNCHANGED <<backlog, done, held, hand, chan>>
    BY <1>36 DEF CloseReapedTake
  <2> QED
    BY <2>1, StayPut, StayOnce
<1>37. ASSUME CloseReapedRetire PROVE InPlace' /\ Once'
  <2>1. UNCHANGED <<backlog, done, held, hand, chan>>
    BY <1>37 DEF CloseReapedRetire
  <2> QED
    BY <2>1, StayPut, StayOnce
<1>38. ASSUME ReloadBegin PROVE InPlace' /\ Once'
  <2>1. UNCHANGED <<backlog, done, held, hand, chan>>
    BY <1>38 DEF ReloadBegin
  <2> QED
    BY <2>1, StayPut, StayOnce
<1>39. ASSUME ReloadFork PROVE InPlace' /\ Once'
  <2>1. UNCHANGED <<backlog, done, held, hand, chan>>
    BY <1>39 DEF ReloadFork
  <2> QED
    BY <2>1, StayPut, StayOnce
<1>40. ASSUME ServerEnds PROVE InPlace' /\ Once'
  BY <1>40, ServerMove
<1>41. CASE UNCHANGED vars
  BY <1>41, StayPut, StayOnce DEF vars
<1>42. ASSUME NEW w \in Workers, Worker(w) PROVE InPlace' /\ Once'
  BY <1>42, <1>1, <1>2, <1>3, <1>4, <1>5, <1>6, <1>7, <1>8, <1>9, <1>10, <1>11, <1>12, <1>13,
     <1>14, <1>15, <1>16, <1>17, <1>18, <1>19, <1>20, <1>21, <1>22, <1>23, <1>24, <1>25 DEF
     Worker, Start, Send, Doors, Rounds, Drain, Ending
<1>43. CASE Supervisor
  BY <1>43, <1>30, <1>31, <1>32, <1>33, <1>34, <1>35, <1>36, <1>37, <1>39, <1>40 DEF
     Supervisor
<1>44. CASE Environment
  BY <1>44, <1>28, <1>38, <1>29, <1>26, <1>27 DEF Environment
<1> QED
  BY <1>41, <1>42, <1>43, <1>44 DEF Next

-----------------------------------------------------------------------------
(* No connection is lost and none is served twice.                         *)

\* At the start every connection waits on the listener.
LEMMA InitHoused == Init => Housed
<1> SUFFICES ASSUME Init PROVE Housed
  OBVIOUS
<1> DEFINE k == [c \in Conns |-> "backlog"]
           o == [c \in Conns |-> None]
<1>1. k \in [Conns -> Kinds] /\ o \in [Conns -> Workers \cup {None}]
  BY DEF Kinds
<1>2. \A w \in Workers : Len(chan[w]) = 0 /\ On(w) = {}
  BY DEF Init, On
<1>3. Placed(k, o)
  BY <1>2, ConstantsAssumption DEF Init, Placed
<1> HIDE DEF k, o
<1>4. InPlace
  BY <1>1, <1>3 DEF InPlace
<1>5. Once
  BY <1>2 DEF Once, OnceOn
<1>6. HandFlow
  BY DEF Init, HandFlow
<1> QED
  BY <1>4, <1>5, <1>6 DEF Housed

\* Who is in one place of one kind is counted once.
LEMMA HomesOne == Housed => OneHome
<1> SUFFICES ASSUME Housed, NEW c \in Conns PROVE Homes(c) = 1
  BY DEF OneHome
<1>1. PICK k \in [Conns -> Kinds], o \in [Conns -> Workers \cup {None}] : Placed(k, o)
  BY DEF Housed, InPlace
<1> DEFINE Held  == {w \in Workers : c \in held[w]}
           Hands == {w \in Workers : hand[w] = c}
           Chans == UNION {{<<w, i>> : i \in {j \in 1..Len(chan[w]) : chan[w][j] = c}} :
                             w \in Workers}
<1>2. k[c] \in Kinds /\ (k[c] \in {"held", "hand", "chan"} => o[c] \in Workers)
  BY <1>1 DEF Placed
<1>3. /\ c \in backlog <=> k[c] = "backlog"
      /\ c \in done <=> k[c] = "done"
  BY <1>1 DEF Placed
<1>4. Cardinality(Held) = IF k[c] = "held" THEN 1 ELSE 0
  <2>1. Held = IF k[c] = "held" THEN {o[c]} ELSE {}
    BY <1>1, <1>2 DEF Placed
  <2> HIDE DEF Held
  <2> QED
    BY <2>1, FS_EmptySet, FS_Singleton
<1>5. Cardinality(Hands) = IF k[c] = "hand" THEN 1 ELSE 0
  <2>1. Hands = IF k[c] = "hand" THEN {o[c]} ELSE {}
    BY <1>1, <1>2 DEF Placed
  <2> HIDE DEF Hands
  <2> QED
    BY <2>1, FS_EmptySet, FS_Singleton
<1>6. Cardinality(Chans) = IF k[c] = "chan" THEN 1 ELSE 0
  <2>1. CASE k[c] # "chan"
    <3>1. \A w \in Workers : \A j \in 1..Len(chan[w]) : chan[w][j] # c
      BY <1>1, <2>1 DEF Placed, On
    <3>2. Chans = {}
      BY <3>1
    <3> HIDE DEF Chans
    <3> QED
      BY <2>1, <3>2, FS_EmptySet
  <2>2. CASE k[c] = "chan"
    <3>1. o[c] \in Workers /\ c \in On(o[c]) /\ \A w \in Workers : c \in On(w) => w = o[c]
      BY <1>1, <1>2, <2>2 DEF Placed
    <3>2. PICK i \in 1..Len(chan[o[c]]) : chan[o[c]][i] = c
      BY <3>1 DEF On
    <3>3. \A w \in Workers : \A j \in 1..Len(chan[w]) : chan[w][j] = c => w = o[c] /\ j = i
      BY <3>1, <3>2 DEF On, Housed, Once, OnceOn
    <3>4. Chans = {<<o[c], i>>}
      <4>1. <<o[c], i>> \in Chans
        BY <3>1, <3>2
      <4>2. \A x \in Chans : x = <<o[c], i>>
        BY <3>3
      <4> QED
        BY <4>1, <4>2
    <3> HIDE DEF Chans
    <3> QED
      BY <2>2, <3>4, FS_Singleton
  <2> QED
    BY <2>1, <2>2
<1> HIDE DEF Held, Hands, Chans
<1>7. Homes(c) = (IF c \in backlog THEN 1 ELSE 0) + (IF c \in done THEN 1 ELSE 0)
                   + Cardinality(Held) + Cardinality(Hands) + Cardinality(Chans)
  BY DEF Homes, Held, Hands, Chans
<1> QED
  BY <1>2, <1>3, <1>4, <1>5, <1>6, <1>7 DEF Kinds

\* "What can never happen: a lost connection": each is in exactly one place, the
\* listener, a hand, a channel, a loop or among those answered, whoever dies, and
\* wherever.
THEOREM ServedOnce == Spec => []OneHome
<1>1. Init => Inductive /\ Housed
  BY InitInductive, InitHoused
<1>2. Inductive /\ Housed /\ [Next]_vars => (Inductive /\ Housed)'
  BY NextInductive, HandStep, HousedStep DEF Inductive, Housed
<1>3. Housed => OneHome
  BY HomesOne
<1> QED
  BY <1>1, <1>2, <1>3, PTL DEF Spec

-----------------------------------------------------------------------------
(* How often a connection is handed on.                                    *)

\* No worker is replaced.
Original == respawns = 0 /\ reloads = 0

\* The workers that read as left.
Gone == {u \in Workers : state[u] = "left"}

\* Where the code goes with what it sends, and who is leaving there.
Sending(w) == pc[w] \in {"raise"} \cup Raised
SendFlow ==
  /\ supPc = "reload" => reloads > 0
  /\ \A w \in Workers :
       /\ Sending(w) => target[w] # w
       /\ pc[w] \in {"wait", "accept"} => ~Left(w)
       /\ pc[w] = "route" => Left(w)

\* Who reads as left is, while nobody is replaced.
LeftForGood == Original => \A w \in Workers : state[w] = "left" => Left(w) \/ pc[w] = "off"

\* c has been handed on at most once by its acceptor and once by each worker of S
\* that has left.
Within(c, S) == moves[c] <= 1 + Cardinality(Gone \cap S)

\* What w has, it has not yet passed on; a send that is past its check is covered
\* by the target, which had not left then.
PassedOf(w) ==
  /\ \A c \in On(w) : Within(c, Workers \ {w})
  /\ hand[w] \in Conns => Within(hand[w], Workers \ {w})
  /\ Sending(w) /\ ~Left(w) => moves[hand[w]] = 0
  /\ pc[w] = "post" => moves[hand[w]] <= Cardinality(Gone \cap (Workers \ {target[w]}))

Passed ==
  Original => /\ \A c \in Conns : moves[c] <= Cardinality(Workers)
              /\ \A c \in backlog : moves[c] = 0
              /\ \A w \in Workers : PassedOf(w)

Routed == SendFlow /\ LeftForGood /\ Passed

\* The code's own order.
LEMMA SendFlowStep == TypeOK /\ Flow /\ Reaping /\ SendFlow /\ [Next]_vars => SendFlow'
<1> SUFFICES ASSUME TypeOK, Flow, Reaping, SendFlow, [Next]_vars PROVE SendFlow'
  OBVIOUS
<1> USE DEF page, locals, kernel, supLocal, procs, history, SendFlow, Sending, Left, TypeOK,
        LocalsType, Raised
<1>1. ASSUME NEW w \in Workers, Bind(w) PROVE SendFlow'
  BY <1>1 DEF Bind, Go
<1>2. ASSUME NEW w \in Workers, StartPark(w) PROVE SendFlow'
  BY <1>2 DEF StartPark, Go
<1>3. ASSUME NEW w \in Workers, StartTake(w) PROVE SendFlow'
  BY <1>3 DEF StartTake, Go
<1>4. ASSUME NEW w \in Workers, StartRetire(w) PROVE SendFlow'
  BY <1>4 DEF StartRetire, Go, Flow, Starting
<1>5. ASSUME NEW w \in Workers, NEW S \in SUBSET held[w], PassBegin(w, S) PROVE SendFlow'
  BY <1>5 DEF PassBegin, Go, Ends
<1>6. ASSUME NEW w \in Workers, NEW c \in Conns, NEW t \in Workers, Accept(w, c, t)
      PROVE  SendFlow'
  BY <1>6 DEF Accept, Go
<1>7. ASSUME NEW w \in Workers, AcceptDone(w) PROVE SendFlow'
  BY <1>7 DEF AcceptDone, Go
<1>8. ASSUME NEW w \in Workers, SendRaise(w) PROVE SendFlow'
  BY <1>8 DEF SendRaise, Go
<1>9. ASSUME NEW w \in Workers, SendRecheck(w) PROVE SendFlow'
  BY <1>9 DEF SendRecheck, Go
<1>10. ASSUME NEW w \in Workers, SendPost(w) PROVE SendFlow'
  BY <1>10 DEF SendPost, Go, Resume
<1>11. ASSUME NEW w \in Workers, SendFails(w) PROVE SendFlow'
  BY <1>11 DEF SendFails, Go
<1>12. ASSUME NEW w \in Workers, SendTakeBack(w) PROVE SendFlow'
  BY <1>12 DEF SendTakeBack, Go, Resume
<1>13. ASSUME NEW w \in Workers, Receive(w) PROVE SendFlow'
  BY <1>13 DEF Receive, Go
<1>14. ASSUME NEW w \in Workers, Publish(w) PROVE SendFlow'
  BY <1>14 DEF Publish, Go, Kept
<1>15. ASSUME NEW w \in Workers, NEW t \in Workers, Route(w, t) PROVE SendFlow'
  BY <1>15 DEF Route, Go
<1>16. ASSUME NEW w \in Workers, NEW S \in SUBSET held[w], HandoffsDone(w, S) PROVE SendFlow'
  BY <1>16 DEF HandoffsDone, Go, Ends
<1>17. ASSUME NEW w \in Workers, EndTake(w) PROVE SendFlow'
  BY <1>17 DEF EndTake, Go
<1>18. ASSUME NEW w \in Workers, EndRetire(w) PROVE SendFlow'
  BY <1>18 DEF EndRetire, Go, Flow, Phases
<1>19. ASSUME NEW w \in Workers, Leave(w) PROVE SendFlow'
  BY <1>19 DEF Leave, Go
<1>20. ASSUME NEW w \in Workers, DrainOver(w) PROVE SendFlow'
  BY <1>20 DEF DrainOver, Go
<1>21. ASSUME NEW w \in Workers, DrainExpires(w) PROVE SendFlow'
  BY <1>21 DEF DrainExpires, Go
<1>22. ASSUME NEW w \in Workers, NEW S \in SUBSET held[w], DrainPass(w, S) PROVE SendFlow'
  BY <1>22 DEF DrainPass, Go, Ends
<1>23. ASSUME NEW w \in Workers, Exit(w) PROVE SendFlow'
  BY <1>23 DEF Exit, Go, ProcessEnds
<1>24. ASSUME NEW w \in Workers, Declines(w) PROVE SendFlow'
  BY <1>24 DEF Declines, Go, ProcessEnds
<1>25. ASSUME NEW w \in Workers, StoppedUnarmed(w) PROVE SendFlow'
  BY <1>25 DEF StoppedUnarmed, Go, ProcessEnds
<1>26. ASSUME NEW w \in Workers, RefusesConfig(w) PROVE SendFlow'
  BY <1>26 DEF RefusesConfig, Go, ProcessEnds
<1>27. ASSUME NEW w \in Workers, Killed(w) PROVE SendFlow'
  BY <1>27 DEF Killed, Go, ProcessEnds
<1>28. ASSUME StopServer PROVE SendFlow'
  BY <1>28 DEF StopServer
<1>29. ASSUME NEW w \in Workers, StopOne(w) PROVE SendFlow'
  BY <1>29 DEF StopOne
<1>30. ASSUME NEW w \in Workers, Reap(w) PROVE SendFlow'
  BY <1>30 DEF Reap
<1>31. ASSUME DeclineRespawn PROVE SendFlow'
  BY <1>31 DEF DeclineRespawn
<1>32. ASSUME Respawn PROVE SendFlow'
  BY <1>32, ConstantsAssumption DEF Respawn, Fork, Flow, Reaping, ProcsType, Dead, Vacant
<1>33. ASSUME GiveUp PROVE SendFlow'
  BY <1>33 DEF GiveUp
<1>34. ASSUME CloseReaped PROVE SendFlow'
  BY <1>34 DEF CloseReaped
<1>35. ASSUME CloseReapedEnds PROVE SendFlow'
  BY <1>35 DEF CloseReapedEnds
<1>36. ASSUME CloseReapedTake PROVE SendFlow'
  BY <1>36 DEF CloseReapedTake
<1>37. ASSUME CloseReapedRetire PROVE SendFlow'
  BY <1>37 DEF CloseReapedRetire
<1>38. ASSUME ReloadBegin PROVE SendFlow'
  BY <1>38 DEF ReloadBegin, SupType
<1>39. ASSUME ReloadFork PROVE SendFlow'
  BY <1>39, ConstantsAssumption DEF ReloadFork, Fork, Flow, Reaping, ProcsType, Dead, Vacant
<1>40. ASSUME ServerEnds PROVE SendFlow'
  BY <1>40 DEF ServerEnds
<1>41. CASE UNCHANGED vars
  BY <1>41 DEF vars
<1>42. ASSUME NEW w \in Workers, Worker(w) PROVE SendFlow'
  BY <1>42, <1>1, <1>2, <1>3, <1>4, <1>5, <1>6, <1>7, <1>8, <1>9, <1>10, <1>11, <1>12, <1>13,
     <1>14, <1>15, <1>16, <1>17, <1>18, <1>19, <1>20, <1>21, <1>22, <1>23, <1>24, <1>25 DEF
     Worker, Start, Send, Doors, Rounds, Drain, Ending
<1>43. CASE Supervisor
  BY <1>43, <1>30, <1>31, <1>32, <1>33, <1>34, <1>35, <1>36, <1>37, <1>39, <1>40 DEF
     Supervisor
<1>44. CASE Environment
  BY <1>44, <1>28, <1>38, <1>29, <1>26, <1>27 DEF Environment
<1> QED
  BY <1>41, <1>42, <1>43, <1>44 DEF Next

\* A word that reads left stays so while nobody is replaced.
LEMMA LeftStep ==
  TypeOK /\ Flow /\ Reaping /\ LeaverIsMarked /\ SendFlow /\ LeftForGood /\ [Next]_vars
    => LeftForGood' /\ (Original' => Original /\ Gone \subseteq Gone')
<1> SUFFICES ASSUME TypeOK, Flow, Reaping, LeaverIsMarked, SendFlow, LeftForGood, [Next]_vars
             PROVE  LeftForGood' /\ (Original' => Original /\ Gone \subseteq Gone')
  OBVIOUS
<1> USE DEF page, locals, kernel, supLocal, procs, history, LeftForGood, Original, Gone, Left,
        TypeOK, LocalsType, PageType, SupType
<1>1. ASSUME NEW w \in Workers, Bind(w) PROVE LeftForGood'
             /\ (Original' => Original /\ Gone \subseteq Gone')
  BY <1>1 DEF Bind, Go, Flow, Starting
<1>2. ASSUME NEW w \in Workers, StartPark(w) PROVE LeftForGood'
             /\ (Original' => Original /\ Gone \subseteq Gone')
  BY <1>2 DEF StartPark, Go, Flow, Starting
<1>3. ASSUME NEW w \in Workers, StartTake(w) PROVE LeftForGood'
             /\ (Original' => Original /\ Gone \subseteq Gone')
  BY <1>3 DEF StartTake, Go
<1>4. ASSUME NEW w \in Workers, StartRetire(w) PROVE LeftForGood'
             /\ (Original' => Original /\ Gone \subseteq Gone')
  BY <1>4 DEF StartRetire, Go
<1>5. ASSUME NEW w \in Workers, NEW S \in SUBSET held[w], PassBegin(w, S) PROVE LeftForGood'
             /\ (Original' => Original /\ Gone \subseteq Gone')
  BY <1>5 DEF PassBegin, Go, Ends, SendFlow
<1>6. ASSUME NEW w \in Workers, NEW c \in Conns, NEW t \in Workers, Accept(w, c, t)
      PROVE  LeftForGood'
             /\ (Original' => Original /\ Gone \subseteq Gone')
  BY <1>6 DEF Accept, Go
<1>7. ASSUME NEW w \in Workers, AcceptDone(w) PROVE LeftForGood'
             /\ (Original' => Original /\ Gone \subseteq Gone')
  BY <1>7 DEF AcceptDone, Go
<1>8. ASSUME NEW w \in Workers, SendRaise(w) PROVE LeftForGood'
             /\ (Original' => Original /\ Gone \subseteq Gone')
  BY <1>8 DEF SendRaise, Go
<1>9. ASSUME NEW w \in Workers, SendRecheck(w) PROVE LeftForGood'
             /\ (Original' => Original /\ Gone \subseteq Gone')
  BY <1>9 DEF SendRecheck, Go
<1>10. ASSUME NEW w \in Workers, SendPost(w) PROVE LeftForGood'
             /\ (Original' => Original /\ Gone \subseteq Gone')
  BY <1>10 DEF SendPost, Go, Resume
<1>11. ASSUME NEW w \in Workers, SendFails(w) PROVE LeftForGood'
             /\ (Original' => Original /\ Gone \subseteq Gone')
  BY <1>11 DEF SendFails, Go
<1>12. ASSUME NEW w \in Workers, SendTakeBack(w) PROVE LeftForGood'
             /\ (Original' => Original /\ Gone \subseteq Gone')
  BY <1>12 DEF SendTakeBack, Go, Resume
<1>13. ASSUME NEW w \in Workers, Receive(w) PROVE LeftForGood'
             /\ (Original' => Original /\ Gone \subseteq Gone')
  BY <1>13 DEF Receive, Go
<1>14. ASSUME NEW w \in Workers, Publish(w) PROVE LeftForGood'
             /\ (Original' => Original /\ Gone \subseteq Gone')
  BY <1>14 DEF Publish, Go, Kept
<1>15. ASSUME NEW w \in Workers, NEW t \in Workers, Route(w, t) PROVE LeftForGood'
             /\ (Original' => Original /\ Gone \subseteq Gone')
  BY <1>15 DEF Route, Go
<1>16. ASSUME NEW w \in Workers, NEW S \in SUBSET held[w], HandoffsDone(w, S) PROVE LeftForGood'
             /\ (Original' => Original /\ Gone \subseteq Gone')
  BY <1>16 DEF HandoffsDone, Go, Ends
<1>17. ASSUME NEW w \in Workers, EndTake(w) PROVE LeftForGood'
             /\ (Original' => Original /\ Gone \subseteq Gone')
  BY <1>17 DEF EndTake, Go
<1>18. ASSUME NEW w \in Workers, EndRetire(w) PROVE LeftForGood'
             /\ (Original' => Original /\ Gone \subseteq Gone')
  BY <1>18 DEF EndRetire, Go
<1>19. ASSUME NEW w \in Workers, Leave(w) PROVE LeftForGood'
             /\ (Original' => Original /\ Gone \subseteq Gone')
  BY <1>19 DEF Leave, Go
<1>20. ASSUME NEW w \in Workers, DrainOver(w) PROVE LeftForGood'
             /\ (Original' => Original /\ Gone \subseteq Gone')
  BY <1>20 DEF DrainOver, Go, Flow
<1>21. ASSUME NEW w \in Workers, DrainExpires(w) PROVE LeftForGood'
             /\ (Original' => Original /\ Gone \subseteq Gone')
  BY <1>21 DEF DrainExpires, Go, Flow
<1>22. ASSUME NEW w \in Workers, NEW S \in SUBSET held[w], DrainPass(w, S) PROVE LeftForGood'
             /\ (Original' => Original /\ Gone \subseteq Gone')
  BY <1>22 DEF DrainPass, Go, Ends
<1>23. ASSUME NEW w \in Workers, Exit(w) PROVE LeftForGood'
             /\ (Original' => Original /\ Gone \subseteq Gone')
  BY <1>23 DEF Exit, Go, ProcessEnds
<1>24. ASSUME NEW w \in Workers, Declines(w) PROVE LeftForGood'
             /\ (Original' => Original /\ Gone \subseteq Gone')
  BY <1>24 DEF Declines, Go, ProcessEnds
<1>25. ASSUME NEW w \in Workers, StoppedUnarmed(w) PROVE LeftForGood'
             /\ (Original' => Original /\ Gone \subseteq Gone')
  BY <1>25 DEF StoppedUnarmed, Go, ProcessEnds
<1>26. ASSUME NEW w \in Workers, RefusesConfig(w) PROVE LeftForGood'
             /\ (Original' => Original /\ Gone \subseteq Gone')
  BY <1>26 DEF RefusesConfig, Go, ProcessEnds
<1>27. ASSUME NEW w \in Workers, Killed(w) PROVE LeftForGood'
             /\ (Original' => Original /\ Gone \subseteq Gone')
  BY <1>27 DEF Killed, Go, ProcessEnds
<1>28. ASSUME StopServer PROVE LeftForGood'
             /\ (Original' => Original /\ Gone \subseteq Gone')
  BY <1>28 DEF StopServer
<1>29. ASSUME NEW w \in Workers, StopOne(w) PROVE LeftForGood'
             /\ (Original' => Original /\ Gone \subseteq Gone')
  BY <1>29 DEF StopOne
<1>30. ASSUME NEW w \in Workers, Reap(w) PROVE LeftForGood'
             /\ (Original' => Original /\ Gone \subseteq Gone')
  BY <1>30 DEF Reap, Flow, Dead
<1>31. ASSUME DeclineRespawn PROVE LeftForGood'
             /\ (Original' => Original /\ Gone \subseteq Gone')
  BY <1>31 DEF DeclineRespawn
<1>32. ASSUME Respawn PROVE LeftForGood'
             /\ (Original' => Original /\ Gone \subseteq Gone')
  BY <1>32 DEF Respawn, Fork
<1>33. ASSUME GiveUp PROVE LeftForGood'
             /\ (Original' => Original /\ Gone \subseteq Gone')
  BY <1>33 DEF GiveUp
<1>34. ASSUME CloseReaped PROVE LeftForGood'
             /\ (Original' => Original /\ Gone \subseteq Gone')
  BY <1>34 DEF CloseReaped
<1>35. ASSUME CloseReapedEnds PROVE LeftForGood'
             /\ (Original' => Original /\ Gone \subseteq Gone')
  BY <1>35 DEF CloseReapedEnds
<1>36. ASSUME CloseReapedTake PROVE LeftForGood'
             /\ (Original' => Original /\ Gone \subseteq Gone')
  BY <1>36 DEF CloseReapedTake
<1>37. ASSUME CloseReapedRetire PROVE LeftForGood'
             /\ (Original' => Original /\ Gone \subseteq Gone')
  BY <1>37 DEF CloseReapedRetire
<1>38. ASSUME ReloadBegin PROVE LeftForGood'
             /\ (Original' => Original /\ Gone \subseteq Gone')
  BY <1>38 DEF ReloadBegin
<1>39. ASSUME ReloadFork PROVE LeftForGood'
             /\ (Original' => Original /\ Gone \subseteq Gone')
  BY <1>39 DEF ReloadFork, Fork, SendFlow
<1>40. ASSUME ServerEnds PROVE LeftForGood'
             /\ (Original' => Original /\ Gone \subseteq Gone')
  BY <1>40 DEF ServerEnds
<1>41. CASE UNCHANGED vars
  BY <1>41 DEF vars
<1>42. ASSUME NEW w \in Workers, Worker(w)
      PROVE  LeftForGood' /\ (Original' => Original /\ Gone \subseteq Gone')
  BY <1>42, <1>1, <1>2, <1>3, <1>4, <1>5, <1>6, <1>7, <1>8, <1>9, <1>10, <1>11, <1>12, <1>13,
     <1>14, <1>15, <1>16, <1>17, <1>18, <1>19, <1>20, <1>21, <1>22, <1>23, <1>24, <1>25 DEF
     Worker, Start, Send, Doors, Rounds, Drain, Ending
<1>43. CASE Supervisor
  BY <1>43, <1>30, <1>31, <1>32, <1>33, <1>34, <1>35, <1>36, <1>37, <1>39, <1>40 DEF
     Supervisor
<1>44. CASE Environment
  BY <1>44, <1>28, <1>38, <1>29, <1>26, <1>27 DEF Environment
<1> QED
  BY <1>41, <1>42, <1>43, <1>44 DEF Next

\* Sets of workers that have left can be counted, and grow.
LEMMA GoneCounts ==
  ASSUME NEW S \in SUBSET Workers
  PROVE  /\ Cardinality(Gone \cap S) \in Nat /\ Cardinality(Gone \cap S) <= Cardinality(S)
         /\ Cardinality(S) \in Nat
         /\ Gone \subseteq Gone' => /\ Cardinality(Gone \cap S) <= Cardinality(Gone' \cap S)
                                  /\ Cardinality(Gone' \cap S) \in Nat
<1>1. IsFiniteSet(S)
  BY ConstantsAssumption, FS_Subset
<1>2. IsFiniteSet(Gone \cap S) /\ Cardinality(Gone \cap S) <= Cardinality(S)
  BY <1>1, FS_Subset
<1>3. ASSUME Gone \subseteq Gone'
      PROVE  /\ Cardinality(Gone \cap S) <= Cardinality(Gone' \cap S)
             /\ Cardinality(Gone' \cap S) \in Nat
  <2>1. IsFiniteSet(Gone' \cap S)
    BY <1>1, FS_Subset
  <2>2. Gone \cap S \subseteq Gone' \cap S
    BY <1>3
  <2> QED
    BY <2>1, <2>2, FS_Subset, FS_CardinalityType
<1> QED
  BY <1>1, <1>2, <1>3, FS_CardinalityType

\* What a worker keeps of its sends, whatever a step does.
Keeps(v) ==
  /\ On(v)' \subseteq On(v)
  /\ hand'[v] \in Conns \/ Sending(v)' => hand'[v] = hand[v]
  /\ Sending(v)' /\ ~Left(v)' => Sending(v) /\ ~Left(v)
  /\ pc'[v] = "post" => pc[v] = "post" /\ target'[v] = target[v]

\* A worker that keeps them keeps its bounds, as others leave.
LEMMA KeepsPassed ==
  ASSUME TypeOK, TypeOK', Flow', Gone \subseteq Gone', NEW v \in Workers, PassedOf(v), Keeps(v),
         \A c \in On(v) \cup {hand[v]} : c \in Conns => moves'[c] = moves[c]
  PROVE  PassedOf(v)'
<1>1. \A S \in SUBSET Workers : /\ Cardinality(Gone \cap S) <= Cardinality(Gone' \cap S)
                               /\ Cardinality(Gone \cap S) \in Nat
                               /\ Cardinality(Gone' \cap S) \in Nat
  BY GoneCounts
<1>2. moves \in [Conns -> Nat] /\ moves' \in [Conns -> Nat] /\ \A c \in On(v) : c \in Conns
  BY DEF TypeOK, HistoryType, KernelType, On
<1>3. Sending(v)' => hand'[v] \in Conns /\ target'[v] \in Workers
  BY DEF Flow, Sending, Raised
<1>4. ASSUME NEW c \in Conns, NEW S \in SUBSET Workers, Within(c, S), moves'[c] = moves[c]
      PROVE  Within(c, S)'
  <2>1. moves[c] <= 1 + Cardinality(Gone \cap S)
    BY <1>4 DEF Within
  <2> QED
    BY <1>1, <1>2, <1>4, <2>1 DEF Within
<1>5. \A c \in On(v)' : Within(c, Workers \ {v})'
  BY <1>2, <1>4 DEF Keeps, PassedOf
<1>6. hand'[v] \in Conns => Within(hand[v], Workers \ {v})' /\ hand'[v] = hand[v]
  BY <1>2, <1>4 DEF Keeps, PassedOf
<1>7. Sending(v)' /\ ~Left(v)' => moves'[hand'[v]] = 0
  BY <1>3 DEF Keeps, PassedOf
<1>8. pc'[v] = "post" =>
        moves'[hand'[v]] <= Cardinality(Gone' \cap (Workers \ {target'[v]}))
  <2> SUFFICES ASSUME pc'[v] = "post"
               PROVE  moves'[hand'[v]] <= Cardinality(Gone' \cap (Workers \ {target'[v]}))
    OBVIOUS
  <2>1. Sending(v)'
    BY DEF Sending, Raised
  <2>2. /\ moves'[hand'[v]] = moves[hand[v]] /\ hand[v] \in Conns /\ target'[v] = target[v]
        /\ moves[hand[v]] <= Cardinality(Gone \cap (Workers \ {target[v]}))
    BY <1>3, <2>1 DEF Keeps, PassedOf
  <2>3. /\ Cardinality(Gone \cap (Workers \ {target[v]}))
             <= Cardinality(Gone' \cap (Workers \ {target[v]}))
        /\ Cardinality(Gone \cap (Workers \ {target[v]})) \in Nat
        /\ Cardinality(Gone' \cap (Workers \ {target[v]})) \in Nat
    BY <1>1
  <2> QED
    BY <1>2, <2>2, <2>3
<1> QED
  BY <1>5, <1>6, <1>7, <1>8 DEF PassedOf, Within

\* The steps of a hand-off: picked, past the check, posted, received, routed.
HandsOff(w) ==
  \/ \E c \in Conns, t \in Workers \ {w} : Accept(w, c, t)
  \/ SendRecheck(w) /\ state[target[w]] # "left"
  \/ SendPost(w)
  \/ Receive(w)
  \/ \E t \in Workers \ {w} : Route(w, t)

\* A step that hands nothing on.
Quiet ==
  UNCHANGED moves /\ backlog' \subseteq backlog /\ \A v \in Workers : Keeps(v)

\* Every other step is quiet.
LEMMA QuietStep ==
  TypeOK /\ Flow /\ Reaping /\ Housed /\ [Next]_vars => Quiet \/ \E w \in Workers : HandsOff(w)
<1> SUFFICES ASSUME TypeOK, Flow, Reaping, HandFlow, Once, [Next]_vars
             PROVE  Quiet \/ \E w \in Workers : HandsOff(w)
  BY DEF Housed
<1> USE DEF page, locals, kernel, supLocal, procs, history, Quiet, Keeps, On, Sending, Left,
        TypeOK, LocalsType, Raised
<1>1. ASSUME NEW w \in Workers, Bind(w) PROVE Quiet
  BY <1>1, ConstantsAssumption DEF Bind, Go
<1>2. ASSUME NEW w \in Workers, StartPark(w) PROVE Quiet
  BY <1>2, ConstantsAssumption DEF StartPark, Go
<1>3. ASSUME NEW w \in Workers, StartTake(w) PROVE Quiet
  BY <1>3, ConstantsAssumption DEF StartTake, Go
<1>4. ASSUME NEW w \in Workers, StartRetire(w) PROVE Quiet
  BY <1>4, ConstantsAssumption DEF StartRetire, Go
<1>5. ASSUME NEW w \in Workers, NEW S \in SUBSET held[w], PassBegin(w, S) PROVE Quiet
  BY <1>5, ConstantsAssumption DEF PassBegin, Go, Ends
<1>6. ASSUME NEW w \in Workers, NEW c \in Conns, NEW t \in Workers, Accept(w, c, t)
      PROVE  Quiet \/ HandsOff(w)
  <2>1. CASE t = w
    BY <1>6, <2>1 DEF Accept, Go
  <2> QED
    BY <1>6, <2>1 DEF HandsOff
<1>7. ASSUME NEW w \in Workers, AcceptDone(w) PROVE Quiet
  BY <1>7, ConstantsAssumption DEF AcceptDone, Go
<1>8. ASSUME NEW w \in Workers, SendRaise(w) PROVE Quiet
  BY <1>8, ConstantsAssumption DEF SendRaise, Go
<1>9. ASSUME NEW w \in Workers, SendRecheck(w) PROVE Quiet \/ HandsOff(w)
  <2>1. CASE state[target[w]] = "left"
    BY <1>9, <2>1 DEF SendRecheck, Go
  <2> QED
    BY <1>9, <2>1 DEF HandsOff
<1>10. ASSUME NEW w \in Workers, SendPost(w) PROVE Quiet \/ HandsOff(w)
  BY <1>10 DEF HandsOff
<1>11. ASSUME NEW w \in Workers, SendFails(w) PROVE Quiet
  BY <1>11, ConstantsAssumption DEF SendFails, Go
<1>12. ASSUME NEW w \in Workers, SendTakeBack(w) PROVE Quiet
  BY <1>12, ConstantsAssumption DEF SendTakeBack, Go, Resume
<1>13. ASSUME NEW w \in Workers, Receive(w) PROVE Quiet \/ HandsOff(w)
  BY <1>13 DEF HandsOff
<1>14. ASSUME NEW w \in Workers, Publish(w) PROVE Quiet
  BY <1>14, ConstantsAssumption DEF Publish, Go, Kept
<1>15. ASSUME NEW w \in Workers, NEW t \in Workers, Route(w, t) PROVE Quiet \/ HandsOff(w)
  <2>1. CASE t = w
    BY <1>15, <2>1, ConstantsAssumption DEF Route, Go
  <2> QED
    BY <1>15, <2>1 DEF HandsOff
<1>16. ASSUME NEW w \in Workers, NEW S \in SUBSET held[w], HandoffsDone(w, S) PROVE Quiet
  BY <1>16, ConstantsAssumption DEF HandoffsDone, Go, Ends
<1>17. ASSUME NEW w \in Workers, EndTake(w) PROVE Quiet
  BY <1>17, ConstantsAssumption DEF EndTake, Go
<1>18. ASSUME NEW w \in Workers, EndRetire(w) PROVE Quiet
  BY <1>18, ConstantsAssumption DEF EndRetire, Go, Flow, Phases
<1>19. ASSUME NEW w \in Workers, Leave(w) PROVE Quiet
  BY <1>19, ConstantsAssumption DEF Leave, Go
<1>20. ASSUME NEW w \in Workers, DrainOver(w) PROVE Quiet
  BY <1>20, ConstantsAssumption DEF DrainOver, Go
<1>21. ASSUME NEW w \in Workers, DrainExpires(w) PROVE Quiet
  BY <1>21, ConstantsAssumption DEF DrainExpires, Go
<1>22. ASSUME NEW w \in Workers, NEW S \in SUBSET held[w], DrainPass(w, S) PROVE Quiet
  BY <1>22, ConstantsAssumption DEF DrainPass, Go, Ends
<1>23. ASSUME NEW w \in Workers, Exit(w) PROVE Quiet
  BY <1>23, ConstantsAssumption DEF Exit, Go, ProcessEnds
<1>24. ASSUME NEW w \in Workers, Declines(w) PROVE Quiet
  BY <1>24, ConstantsAssumption DEF Declines, Go, ProcessEnds
<1>25. ASSUME NEW w \in Workers, StoppedUnarmed(w) PROVE Quiet
  BY <1>25, ConstantsAssumption DEF StoppedUnarmed, Go, ProcessEnds
<1>26. ASSUME NEW w \in Workers, RefusesConfig(w) PROVE Quiet
  BY <1>26, ConstantsAssumption DEF RefusesConfig, Go, ProcessEnds
<1>27. ASSUME NEW w \in Workers, Killed(w) PROVE Quiet
  BY <1>27, ConstantsAssumption DEF Killed, Go, ProcessEnds
<1>28. ASSUME StopServer PROVE Quiet
  BY <1>28 DEF StopServer
<1>29. ASSUME NEW w \in Workers, StopOne(w) PROVE Quiet
  BY <1>29 DEF StopOne
<1>30. ASSUME NEW w \in Workers, Reap(w) PROVE Quiet
  BY <1>30 DEF Reap
<1>31. ASSUME DeclineRespawn PROVE Quiet
  BY <1>31 DEF DeclineRespawn
<1>32. ASSUME Respawn PROVE Quiet
  BY <1>32, ConstantsAssumption DEF Respawn, Fork, Flow, Reaping, ProcsType, Dead, Vacant
<1>33. ASSUME GiveUp PROVE Quiet
  BY <1>33 DEF GiveUp
<1>34. ASSUME CloseReaped PROVE Quiet
  <2>1. PICK t \in Workers : t = supWorker
    BY <1>34 DEF CloseReaped, Reaping
  <2>2. \A v \in Workers : On(v)' \subseteq On(v)
    BY <1>34, <2>1, ReceiveOn DEF CloseReaped
  <2> QED
    BY <1>34, <2>2 DEF CloseReaped
<1>35. ASSUME CloseReapedEnds PROVE Quiet
  BY <1>35 DEF CloseReapedEnds
<1>36. ASSUME CloseReapedTake PROVE Quiet
  BY <1>36 DEF CloseReapedTake
<1>37. ASSUME CloseReapedRetire PROVE Quiet
  BY <1>37 DEF CloseReapedRetire
<1>38. ASSUME ReloadBegin PROVE Quiet
  BY <1>38 DEF ReloadBegin
<1>39. ASSUME ReloadFork PROVE Quiet
  BY <1>39, ConstantsAssumption DEF ReloadFork, Fork, Flow, Reaping, ProcsType, Dead, Vacant
<1>40. ASSUME ServerEnds PROVE Quiet
  BY <1>40 DEF ServerEnds
<1>41. CASE UNCHANGED vars
  BY <1>41 DEF vars
<1>42. ASSUME NEW w \in Workers, Worker(w) PROVE Quiet \/ HandsOff(w)
  BY <1>42, <1>1, <1>2, <1>3, <1>4, <1>5, <1>6, <1>7, <1>8, <1>9, <1>10, <1>11, <1>12, <1>13,
     <1>14, <1>15, <1>16, <1>17, <1>18, <1>19, <1>20, <1>21, <1>22, <1>23, <1>24, <1>25 DEF
     Worker, Start, Send, Doors, Rounds, Drain, Ending
<1>43. CASE Supervisor
  BY <1>43, <1>30, <1>31, <1>32, <1>33, <1>34, <1>35, <1>36, <1>37, <1>39, <1>40 DEF
     Supervisor
<1>44. CASE Environment
  BY <1>44, <1>28, <1>38, <1>29, <1>26, <1>27 DEF Environment
<1> QED
  BY <1>41, <1>42, <1>43, <1>44 DEF Next

\* Where every worker keeps them, nobody's bound is lost.
LEMMA QuietPassed ==
  ASSUME TypeOK, TypeOK', Flow', Passed, Original' => Original /\ Gone \subseteq Gone', Quiet
  PROVE  Passed'
  BY KeepsPassed DEF Passed, Quiet

\* Accepted and picked for: c has not been handed on yet.
LEMMA AcceptPassed ==
  ASSUME TypeOK, Flow, HandFlow, Passed, Original, NEW w \in Workers, NEW c \in Conns,
         NEW t \in Workers \ {w}, Accept(w, c, t)
  PROVE  Passed'
<1> USE DEF TypeOK, LocalsType, Passed, PassedOf
<1>1. /\ c \in backlog /\ backlog' = backlog \ {c}
      /\ moves' = moves /\ Gone' = Gone /\ phase' = phase
      /\ \A v \in Workers : On(v)' = On(v)
      /\ \A v \in Workers \ {w} : pc'[v] = pc[v] /\ hand'[v] = hand[v] /\ target'[v] = target[v]
      /\ pc'[w] = "raise" /\ hand'[w] = c
  BY DEF Accept, Go, page, kernel, history, Gone, On
<1>2. moves[c] = 0 /\ Within(c, Workers \ {w})
  <2>1. moves[c] = 0 /\ Cardinality(Gone \cap (Workers \ {w})) \in Nat
    BY <1>1, GoneCounts
  <2> QED
    BY <2>1 DEF Within
<1>3. \A d, S : Within(d, S)' <=> Within(d, S)
  BY <1>1 DEF Within
<1>4. \A v \in Workers \ {w} : PassedOf(v)'
  BY <1>1, <1>3 DEF Sending, Left
<1>5. PassedOf(w)'
  BY <1>1, <1>2, <1>3
<1> QED
  BY <1>1, <1>4, <1>5

\* Past the check: the target has not left, and a leaver that passes on has.
LEMMA RecheckPassed ==
  ASSUME TypeOK, Flow, LeaverIsMarked, SendFlow, Passed, Original, NEW w \in Workers,
         SendRecheck(w), state[target[w]] # "left"
  PROVE  Passed'
<1> USE DEF TypeOK, LocalsType
<1>1. PICK t \in Workers : t = target[w] /\ t # w
  BY DEF SendRecheck, Go, Flow, SendFlow, Sending, Raised
<1>2. PICK h \in Conns : h = hand[w]
  BY DEF SendRecheck, Go, Flow, Raised
<1>3. /\ moves' = moves /\ Gone' = Gone /\ phase' = phase /\ hand' = hand /\ target' = target
      /\ backlog' = backlog /\ \A v \in Workers : On(v)' = On(v)
      /\ \A v \in Workers \ {w} : pc'[v] = pc[v]
      /\ pc[w] = "recheck" /\ pc'[w] = "post"
  BY DEF SendRecheck, Go, page, kernel, history, Gone, On
<1>4. Gone \cap (Workers \ {t}) = Gone
  BY <1>1 DEF Gone
<1>5. moves[h] <= Cardinality(Gone)
  <2>1. Cardinality(Gone) \in Nat /\ IsFiniteSet(Gone) /\ moves[h] \in Nat
    BY ConstantsAssumption, FS_Subset, FS_CardinalityType DEF Gone, HistoryType
  <2>2. CASE ~Left(w)
    <3>1. Sending(w) /\ PassedOf(w)
      BY <1>3 DEF Passed, Sending, Raised
    <3>2. moves[h] = 0
      BY <1>2, <2>2, <3>1 DEF PassedOf
    <3> QED
      BY <2>1, <3>2
  <2>3. CASE Left(w)
    <3>1. w \in Gone /\ Gone \cap (Workers \ {w}) = Gone \ {w}
      BY <2>3 DEF LeaverIsMarked, Gone
    <3>2. Cardinality(Gone \ {w}) = Cardinality(Gone) - 1
      BY <2>1, <3>1, FS_RemoveElement
    <3>3. moves[h] <= 1 + Cardinality(Gone \ {w})
      BY <1>2, <3>1 DEF Passed, PassedOf, Within
    <3> QED
      BY <2>1, <3>2, <3>3
  <2> QED
    BY <2>2, <2>3
<1>6. \A d, S : Within(d, S)' <=> Within(d, S)
  BY <1>3 DEF Within
<1>7. \A v \in Workers : Sending(v)' => Sending(v)
  BY <1>3 DEF Sending, Raised
<1>8. \A v \in Workers \ {w} : PassedOf(v)'
  BY <1>3, <1>6, <1>7 DEF Passed, PassedOf, Left
<1>9. PassedOf(w)'
  BY <1>1, <1>2, <1>3, <1>4, <1>5, <1>6, <1>7 DEF Passed, PassedOf, Left
<1> QED
  BY <1>3, <1>8, <1>9 DEF Passed

\* Posted: one more, for a target that had not left at the check.
LEMMA PostPassed ==
  ASSUME TypeOK, Flow, InPlace, SendFlow, Passed, Original, NEW w \in Workers, SendPost(w)
  PROVE  Passed'
<1> USE DEF TypeOK, LocalsType
<1>1. PICK t \in Workers : t = target[w] /\ t # w
  BY DEF SendPost, Go, Flow, SendFlow, Sending, Raised
<1>2. PICK h \in Conns : h = hand[w]
  BY DEF SendPost, Go, Flow, Raised
<1>3. \A v \in Workers : On(v)' = IF v = t THEN On(v) \cup {h} ELSE On(v)
  BY <1>1, <1>2, PostOn DEF SendPost
<1>4. /\ Gone' = Gone /\ phase' = phase /\ backlog' = backlog
      /\ \A v \in Workers \ {w} : pc'[v] = pc[v] /\ hand'[v] = hand[v] /\ target'[v] = target[v]
      /\ pc[w] = "post" /\ pc'[w] \in {"handoffs", "accept"} /\ hand'[w] \notin Conns
  BY ConstantsAssumption DEF SendPost, Go, Resume, page, Gone
<1>5. /\ moves \in [Conns -> Nat]
      /\ \A c \in Conns : moves'[c] = IF c = h THEN moves[h] + 1 ELSE moves[c]
  BY <1>2 DEF SendPost, HistoryType
<1>6. /\ h \notin backlog /\ \A v \in Workers : h \notin On(v)
      /\ \A v \in Workers \ {w} : hand[v] # h
  BY <1>2 DEF InPlace, Placed
<1>7. /\ moves[h] <= Cardinality(Gone \cap (Workers \ {t}))
      /\ Cardinality(Gone \cap (Workers \ {t})) \in Nat
      /\ Cardinality(Gone \cap (Workers \ {t})) <= Cardinality(Workers) - 1
      /\ Cardinality(Workers) \in Nat
  <2>1. Cardinality(Workers \ {t}) = Cardinality(Workers) - 1 /\ Cardinality(Workers) \in Nat
    BY ConstantsAssumption, FS_RemoveElement, FS_CardinalityType
  <2>2. moves[h] <= Cardinality(Gone \cap (Workers \ {t}))
    BY <1>1, <1>2, <1>4 DEF Passed, PassedOf
  <2>3. /\ Cardinality(Gone \cap (Workers \ {t})) \in Nat
        /\ Cardinality(Gone \cap (Workers \ {t})) <= Cardinality(Workers \ {t})
    BY GoneCounts
  <2> QED
    BY <2>1, <2>2, <2>3
<1>8. \A c \in Conns, S \in SUBSET Workers : c # h => (Within(c, S)' <=> Within(c, S))
  BY <1>4, <1>5 DEF Within
<1>9. Within(h, Workers \ {t})'
  BY <1>4, <1>5, <1>7 DEF Within
<1>10. \A c \in Conns : moves'[c] <= Cardinality(Workers)
  <2>1. moves'[h] <= Cardinality(Workers)
    BY <1>5, <1>7
  <2>2. \A c \in Conns : moves[c] <= Cardinality(Workers)
    BY DEF Passed
  <2> QED
    BY <1>5, <2>1, <2>2
<1>11. \A v \in Workers : On(v) \subseteq Conns
  BY DEF On, KernelType
<1>12. \A v \in Workers \ {w} : PassedOf(v)'
  <2> SUFFICES ASSUME NEW v \in Workers \ {w} PROVE PassedOf(v)'
    OBVIOUS
  <2>1. PassedOf(v)
    BY DEF Passed
  <2>2. \A c \in On(v)' : Within(c, Workers \ {v})'
    <3> SUFFICES ASSUME NEW c \in On(v)' PROVE Within(c, Workers \ {v})'
      OBVIOUS
    <3>1. CASE c = h
      BY <1>3, <1>6, <1>9, <3>1
    <3>2. CASE c # h
      <4>1. c \in On(v) /\ c \in Conns
        BY <1>3, <1>11, <3>2
      <4>2. Within(c, Workers \ {v})
        BY <2>1, <4>1 DEF PassedOf
      <4> QED
        BY <1>8, <3>2, <4>1, <4>2
    <3> QED
      BY <3>1, <3>2
  <2>3. hand'[v] \in Conns => Within(hand[v], Workers \ {v})' /\ hand'[v] = hand[v]
    <3> SUFFICES ASSUME hand[v] \in Conns PROVE Within(hand[v], Workers \ {v})'
      BY <1>4
    <3>1. PICK c \in Conns : c = hand[v]
      OBVIOUS
    <3>2. Within(c, Workers \ {v}) /\ c # h
      BY <1>6, <2>1, <3>1 DEF PassedOf
    <3>3. Within(c, Workers \ {v})' /\ hand'[v] = c
      BY <1>4, <1>8, <3>1, <3>2
    <3> QED
      BY <3>3
  <2>4. /\ Sending(v)' /\ ~Left(v)' => moves'[hand'[v]] = 0
        /\ pc'[v] = "post" => moves'[hand'[v]] <= Cardinality(Gone' \cap (Workers \ {target'[v]}))
    <3>1. Sending(v) \/ pc[v] = "post" => hand[v] \in Conns /\ hand[v] # h
      BY <1>6 DEF Flow, Sending, Raised
    <3> QED
      BY <1>4, <1>5, <2>1, <3>1 DEF PassedOf, Sending, Left
  <2> QED
    BY <2>2, <2>3, <2>4 DEF PassedOf, Within
<1>13. PassedOf(w)'
  <2>1. PassedOf(w)
    BY DEF Passed
  <2>2. \A c \in On(w)' : Within(c, Workers \ {w})'
    <3> SUFFICES ASSUME NEW c \in On(w)' PROVE Within(c, Workers \ {w})'
      OBVIOUS
    <3>1. c \in On(w) /\ c # h /\ c \in Conns
      BY <1>1, <1>3, <1>6, <1>11
    <3>2. Within(c, Workers \ {w})
      BY <2>1, <3>1 DEF PassedOf
    <3> QED
      BY <1>8, <3>1, <3>2
  <2> QED
    BY <1>4, <2>2 DEF PassedOf, Sending, Raised
<1>14. \A c \in backlog' : moves'[c] = 0
  BY <1>4, <1>5, <1>6 DEF Passed, KernelType
<1> QED
  BY <1>10, <1>12, <1>13, <1>14 DEF Passed

\* Received: the bound of the channel is the bound of the hand.
LEMMA ReceivePassed ==
  ASSUME TypeOK, Flow, HandFlow, Once, Passed, Original, NEW w \in Workers, Receive(w)
  PROVE  Passed'
<1> USE DEF TypeOK, LocalsType
<1>1. PICK h : h = Head(chan[w])
  OBVIOUS
<1>2. h \in On(w) /\ \A v \in Workers : On(v)' \subseteq On(v)
  BY <1>1, ReceiveOn DEF Receive
<1>3. /\ moves' = moves /\ Gone' = Gone /\ phase' = phase /\ backlog' = backlog /\ target' = target
      /\ \A v \in Workers \ {w} : pc'[v] = pc[v] /\ hand'[v] = hand[v]
      /\ pc[w] = "handoffs" /\ pc'[w] = "publish" /\ hand'[w] \in {h, hand[w]}
  BY <1>1 DEF Receive, Go, page, history, Gone
<1>4. hand[w] = None /\ None \notin Conns
  BY <1>3, ConstantsAssumption DEF HandFlow, Raised
<1>5. \A d, S : Within(d, S)' <=> Within(d, S)
  BY <1>3 DEF Within
<1>6. \A v \in Workers \ {w} : PassedOf(v)'
  BY <1>2, <1>3, <1>5 DEF Passed, PassedOf, Sending, Left
<1>7. PassedOf(w)'
  BY <1>2, <1>3, <1>4, <1>5 DEF Passed, PassedOf, Sending, Raised
<1> QED
  BY <1>3, <1>6, <1>7 DEF Passed

\* Routed on by a leaver.
LEMMA RoutePassed ==
  ASSUME TypeOK, Flow, SendFlow, Passed, Original, NEW w \in Workers, NEW t \in Workers \ {w},
         Route(w, t)
  PROVE  Passed'
<1> USE DEF TypeOK, LocalsType
<1>1. /\ moves' = moves /\ Gone' = Gone /\ phase' = phase /\ backlog' = backlog /\ hand' = hand
      /\ \A v \in Workers : On(v)' = On(v)
      /\ \A v \in Workers \ {w} : pc'[v] = pc[v] /\ target'[v] = target[v]
      /\ pc'[w] = "raise" /\ Left(w)
  BY DEF Route, Go, page, kernel, history, Gone, On, SendFlow
<1>2. \A d, S : Within(d, S)' <=> Within(d, S)
  BY <1>1 DEF Within
<1>3. \A v \in Workers \ {w} : PassedOf(v)'
  BY <1>1, <1>2 DEF Passed, PassedOf, Sending, Left
<1>4. PassedOf(w)'
  BY <1>1, <1>2 DEF Passed, PassedOf, Left
<1> QED
  BY <1>1, <1>3, <1>4 DEF Passed

\* Every step keeps the bounds.
LEMMA PassedStep ==
  ASSUME TypeOK, TypeOK', Flow, Flow', Reaping, LeaverIsMarked, Housed, Routed, [Next]_vars
  PROVE  Passed'
<1>1. Original' => Original /\ Gone \subseteq Gone'
  BY LeftStep DEF Routed
<1>2. CASE Quiet
  BY <1>1, <1>2, QuietPassed DEF Routed
<1>3. ASSUME NEW w \in Workers, HandsOff(w) PROVE Passed'
  <2> SUFFICES ASSUME Original PROVE Passed'
    BY <1>1 DEF Passed
  <2>1. CASE \E c \in Conns, t \in Workers \ {w} : Accept(w, c, t)
    BY <2>1, AcceptPassed DEF Routed, Housed
  <2>2. CASE SendRecheck(w) /\ state[target[w]] # "left"
    BY <2>2, RecheckPassed DEF Routed
  <2>3. CASE SendPost(w)
    BY <2>3, PostPassed DEF Routed, Housed
  <2>4. CASE Receive(w)
    BY <2>4, ReceivePassed DEF Routed, Housed
  <2>5. CASE \E t \in Workers \ {w} : Route(w, t)
    BY <2>5, RoutePassed DEF Routed
  <2> QED
    BY <1>3, <2>1, <2>2, <2>3, <2>4, <2>5 DEF HandsOff
<1> QED
  BY <1>2, <1>3, QuietStep

\* Before the first bind nothing has been handed on.
LEMMA InitRouted == Init => Routed
<1> SUFFICES ASSUME Init PROVE Routed
  OBVIOUS
<1>1. \A S \in SUBSET Workers : Cardinality(Gone \cap S) \in Nat
  BY GoneCounts
<1>2. Cardinality(Workers) \in Nat
  BY ConstantsAssumption, FS_CardinalityType
<1>3. SendFlow /\ LeftForGood
  BY DEF Init, SendFlow, LeftForGood, Sending, Raised, Left
<1>4. Passed
  BY <1>2, ConstantsAssumption DEF Init, Passed, PassedOf, On, Sending, Raised
<1> QED
  BY <1>3, <1>4 DEF Routed

\* A hand-off travels no further than there are workers, while none is replaced:
\* each worker that passes a connection on has left, and has left for good.
THEOREM HandedOnFew == Spec => []MovesBounded
<1>1. Init => Inductive /\ Housed /\ Routed
  BY InitInductive, InitHoused, InitRouted
<1>2. Inductive /\ Housed /\ Routed /\ [Next]_vars => (Inductive /\ Housed /\ Routed)'
  BY NextInductive, HandStep, HousedStep, SendFlowStep, LeftStep, PassedStep
     DEF Inductive, Housed, Routed
<1>3. Routed => MovesBounded
  BY DEF Routed, Passed, Original, MovesBounded
<1> QED
  BY <1>1, <1>2, <1>3, PTL DEF Spec
=============================================================================
