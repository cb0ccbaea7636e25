----------------------- MODULE ServiceLifecycleProofs -----------------------
(***************************************************************************)
(* What TLAPS proves of ServiceLifecycle for any set of processes, with    *)
(* and without a readiness check and whatever stops clients send: that its *)
(* safety properties hold however many times the service is started and    *)
(* however late its supervisors and readiness checks are.                  *)
(***************************************************************************)
EXTENDS ServiceLifecycle, RestartEngine, TLAPS

-----------------------------------------------------------------------------
(* The inductive invariant. *)

\* Who holds the lock is where the lock says it is.
LockInv ==
    /\ lock = "operator" <=> opc # "idle"
    /\ \A p \in Procs : sup[p] \in {"fork", "forked"} => lock = "supervisor"
    /\ \A p, q \in Procs :
          sup[p] \in {"fork", "forked"} /\ sup[q] \in {"fork", "forked"} => p = q

\* A process is forked once, by one goroutine, and has no supervisor before that
\* goroutine starts one: so no step of another goroutine can take the process out
\* of its hand, and the supervisor that starts takes over the watch.
HandInv ==
    /\ \A p \in Procs : proc[p] = "unborn" =>
          /\ sup[p] = "none"
          /\ registered # p
          /\ opProc # p
          /\ \A q \in Procs : next[q] # p
    /\ opc \in {"forked", "stopReq", "grace", "reap"} => opProc \in Procs
    /\ opc = "forked" => /\ sup[opProc] = "none"
                         /\ \A q \in Procs : next[q] # opProc
    /\ \A q \in Procs : sup[q] \in {"forked", "spawn"} =>
          next[q] \in Procs /\ sup[next[q]] = "none"
    /\ \A q, r \in Procs : next[q] = next[r] /\ next[q] # NoProc => q = r

IInv == TypeOK /\ LockInv /\ HandInv /\ ChildrenAreWaitedFor

-----------------------------------------------------------------------------
\* The steps of the service, one by one.
LEMMA NextCases ==
    ASSUME Next
    PROVE  \/ OpBeginStart \/ OpRestartCheck \/ OpStarting \/ OpForkFails \/ OpPublish
           \/ OpStopRequest \/ OpGraceOver
           \/ OpStopTimesOut \/ OpReap \/ OpClearFailed
           \/ \E r \in Stops : OpBeginStop(r)
           \/ \E p \in Procs : \/ OpFork(p) \/ SupDecide(p) \/ SupBackoffOver(p)
                               \/ SupBackoffCancelled(p) \/ SupAbortStop(p)
                               \/ SupAbortDown(p) \/ SupLock(p) \/ SupForkFails(p)
                               \/ SupPublish(p) \/ SupSpawn(p) \/ SupReturn(p)
                               \/ RdyPass(p) \/ RdyTimeout(p) \/ RdyKill(p)
                               \/ RdyReturn(p) \/ Reaped(p)
           \/ \E p, q \in Procs : SupFork(p, q)
           \/ \E p \in Procs, exit \in ExitKind : End(p, exit)
  BY DEF Next, OpBegin, OpStep, SupStep, RdyStep, ProcStep

\* Firing an event keeps the state a state.
LEMMA FireType ==
    ASSUME NEW s \in ServiceState, NEW e
    PROVE  Fire(s, e) \in ServiceState
  BY DEF Fire, Target, ServiceState

USE DEF vars, opVars, supVars, ctxVars

\* The initial states are of the type: the registry, the lock and every process.
LEMMA TypeInit == Init => TypeOK
  BY NoProcAssumption DEF Init, TypeOK, ServiceState, OpPc, Request, ProcState, SupPc

\* No step of the operator, a supervisor, a readiness check or a process breaks a type.
LEMMA TypeNext == TypeOK /\ [Next]_vars => TypeOK'
  <1> SUFFICES ASSUME TypeOK, [Next]_vars PROVE TypeOK'
    OBVIOUS
  <1> USE FireType DEF TypeOK, OpPc, Request, SupPc, OpGoTo, OpDone, OpStopped, SupGoTo
  <1>1. CASE UNCHANGED vars
    BY <1>1
  <1>2. CASE Next
    <2>1. CASE OpBeginStart BY <2>1 DEF OpBeginStart
    <2>2. CASE OpRestartCheck BY <2>2 DEF OpRestartCheck
    <2>3. CASE OpStarting BY <2>3 DEF OpStarting
    <2>4. CASE OpForkFails BY <2>4 DEF OpForkFails
    <2>5. CASE OpPublish
      <3>1. Fire(state, "process_started") \in ServiceState
        OBVIOUS
      <3>2. state' \in ServiceState /\ rdy' \in [Procs -> {"off", "checking", "kill"}]
        BY <2>5, <3>1 DEF OpPublish, StartReadiness
      <3> QED
        BY <2>5, <3>2 DEF OpPublish
    <2>9. CASE OpStopRequest BY <2>9 DEF OpStopRequest, Kill, ProcState
    <2>10. CASE OpGraceOver BY <2>10 DEF OpGraceOver, Kill, ProcState
    <2>11. CASE OpStopTimesOut BY <2>11 DEF OpStopTimesOut
    <2>12. CASE OpReap BY <2>12 DEF OpReap
    <2>13. CASE OpClearFailed BY <2>13 DEF OpClearFailed, ServiceState
    <2>14. ASSUME NEW r \in Stops, OpBeginStop(r) PROVE TypeOK'
      BY <2>14, StopsAssumption DEF OpBeginStop, Cancel
    <2>15. ASSUME NEW p \in Procs, OpFork(p) PROVE TypeOK'
      BY <2>15 DEF OpFork, ProcState
    <2>16. ASSUME NEW p \in Procs, SupDecide(p) PROVE TypeOK'
      BY <2>16 DEF SupDecide
    <2>17. ASSUME NEW p \in Procs, SupBackoffOver(p) PROVE TypeOK'
      BY <2>17 DEF SupBackoffOver
    <2>18. ASSUME NEW p \in Procs, SupBackoffCancelled(p) PROVE TypeOK'
      BY <2>18 DEF SupBackoffCancelled
    <2>19. ASSUME NEW p \in Procs, SupAbortStop(p) PROVE TypeOK'
      BY <2>19 DEF SupAbortStop
    <2>20. ASSUME NEW p \in Procs, SupAbortDown(p) PROVE TypeOK'
      BY <2>20 DEF SupAbortDown
    <2>21. ASSUME NEW p \in Procs, SupLock(p) PROVE TypeOK'
      BY <2>21 DEF SupLock
    <2>22. ASSUME NEW p \in Procs, SupForkFails(p) PROVE TypeOK'
      BY <2>22 DEF SupForkFails
    <2>23. ASSUME NEW p \in Procs, NEW q \in Procs, SupFork(p, q) PROVE TypeOK'
      BY <2>23 DEF SupFork, ProcState
    <2>24. ASSUME NEW p \in Procs, SupPublish(p) PROVE TypeOK'
      BY <2>24 DEF SupPublish
    <2>25. ASSUME NEW p \in Procs, SupSpawn(p) PROVE TypeOK'
      BY <2>25 DEF SupSpawn, StartReadiness
    <2>26. ASSUME NEW p \in Procs, SupReturn(p) PROVE TypeOK'
      BY <2>26 DEF SupReturn
    <2>27. ASSUME NEW p \in Procs, RdyPass(p) PROVE TypeOK'
      BY <2>27 DEF RdyPass
    <2>28. ASSUME NEW p \in Procs, RdyTimeout(p) PROVE TypeOK'
      BY <2>28 DEF RdyTimeout
    <2>29. ASSUME NEW p \in Procs, RdyKill(p) PROVE TypeOK'
      BY <2>29 DEF RdyKill, Kill, ProcState
    <2>30. ASSUME NEW p \in Procs, RdyReturn(p) PROVE TypeOK'
      BY <2>30 DEF RdyReturn
    <2>31. ASSUME NEW p \in Procs, Reaped(p) PROVE TypeOK'
      BY <2>31 DEF Reaped, ProcState, ExitKind
    <2>32. ASSUME NEW p \in Procs, NEW exit \in ExitKind, End(p, exit) PROVE TypeOK'
      BY <2>32 DEF End, ProcState
    <2> QED
      BY <1>2, NextCases, <2>1, <2>2, <2>3, <2>4, <2>5, <2>9, <2>10,
         <2>11, <2>12, <2>13, <2>14, <2>15, <2>16, <2>17, <2>18, <2>19, <2>20, <2>21,
         <2>22, <2>23, <2>24, <2>25, <2>26, <2>27, <2>28, <2>29, <2>30, <2>31, <2>32
  <1> QED
    BY <1>1, <1>2

\* Every variable keeps its type.
THEOREM TypeCorrect == Spec => []TypeOK
  BY TypeInit, TypeNext, PTL DEF Spec

-----------------------------------------------------------------------------
(* The lock: who holds it and who may fork. *)

\* The lock stays with the goroutine that took it until that goroutine gives it back.
LEMMA LockNext == TypeOK /\ TypeOK' /\ LockInv /\ [Next]_vars => LockInv'
  <1> SUFFICES ASSUME TypeOK, LockInv, [Next]_vars PROVE LockInv'
    OBVIOUS
  <1> USE DEF LockInv, OpGoTo, OpDone, OpStopped, SupGoTo
  <1>1. CASE UNCHANGED <<lock, opc, sup>>
    BY <1>1
  <1>2. CASE Next
    <2>1. CASE OpBeginStart \/ OpRestartCheck \/ OpStarting \/ OpForkFails
      BY <2>1 DEF OpBeginStart, OpRestartCheck, OpStarting, OpForkFails
    <2>2. CASE OpPublish
      BY <2>2 DEF OpPublish, TypeOK
    <2>4. CASE OpStopRequest \/ OpGraceOver \/ OpReap
      BY <2>4 DEF OpStopRequest, OpGraceOver, OpReap
    <2>5. CASE OpStopTimesOut \/ OpClearFailed
      BY <2>5 DEF OpStopTimesOut, OpClearFailed
    <2>6. ASSUME NEW r \in Stops, OpBeginStop(r) PROVE LockInv'
      BY <2>6 DEF OpBeginStop
    <2>7. ASSUME NEW p \in Procs, OpFork(p) PROVE LockInv'
      BY <2>7 DEF OpFork
    <2>8. ASSUME NEW p \in Procs,
                 SupDecide(p) \/ SupBackoffOver(p) \/ SupBackoffCancelled(p)
                 \/ SupAbortStop(p) \/ SupAbortDown(p) \/ SupReturn(p)
          PROVE  LockInv'
      BY <2>8 DEF SupDecide, SupBackoffOver, SupBackoffCancelled, SupAbortStop,
                  SupAbortDown, SupReturn, TypeOK
    <2>9. ASSUME NEW p \in Procs, SupLock(p) PROVE LockInv'
      BY <2>9 DEF SupLock, TypeOK
    <2>10. ASSUME NEW p \in Procs, SupForkFails(p) \/ SupPublish(p) PROVE LockInv'
      BY <2>10 DEF SupForkFails, SupPublish, TypeOK
    <2>11. ASSUME NEW p \in Procs, NEW q \in Procs, SupFork(p, q) PROVE LockInv'
      BY <2>11 DEF SupFork, TypeOK
    <2>12. ASSUME NEW p \in Procs, SupSpawn(p) PROVE LockInv'
      BY <2>12 DEF SupSpawn, TypeOK
    <2>13. ASSUME NEW p \in Procs,
                  \/ RdyPass(p) \/ RdyTimeout(p) \/ RdyKill(p) \/ RdyReturn(p)
                  \/ Reaped(p) \/ \E exit \in ExitKind : End(p, exit)
           PROVE  LockInv'
      BY <2>13 DEF RdyPass, RdyTimeout, RdyKill, RdyReturn, Reaped, End
    <2> QED
      BY <1>2, NextCases, <2>1, <2>2, <2>4, <2>5, <2>6, <2>7, <2>8, <2>9, <2>10,
         <2>11, <2>12, <2>13
  <1> QED
    BY <1>1, <1>2

-----------------------------------------------------------------------------
(* The hand that holds a new process. *)

\* A process stays in the hand that forked it until its supervisor is started.
LEMMA HandNext == TypeOK /\ TypeOK' /\ LockInv /\ HandInv /\ [Next]_vars => HandInv'
  <1> SUFFICES ASSUME TypeOK, LockInv, HandInv, [Next]_vars PROVE HandInv'
    OBVIOUS
  <1> USE NoProcAssumption DEF HandInv, OpGoTo, OpDone, OpStopped, SupGoTo
  <1>1. CASE UNCHANGED <<proc, sup, registered, opProc, next, opc>>
    BY <1>1
  <1>2. CASE Next
    <2>1. CASE OpBeginStart \/ OpRestartCheck \/ OpStarting \/ OpForkFails
      BY <2>1 DEF OpBeginStart, OpRestartCheck, OpStarting, OpForkFails
    <2>2. CASE OpPublish
      BY <2>2 DEF OpPublish, TypeOK
    <2>4. CASE OpStopRequest \/ OpGraceOver \/ OpReap
      BY <2>4 DEF OpStopRequest, OpGraceOver, OpReap, Kill, TypeOK
    <2>5. CASE OpStopTimesOut \/ OpClearFailed
      BY <2>5 DEF OpStopTimesOut, OpClearFailed
    <2>6. ASSUME NEW r \in Stops, OpBeginStop(r) PROVE HandInv'
      BY <2>6 DEF OpBeginStop, TypeOK
    <2>7. ASSUME NEW p \in Procs, OpFork(p) PROVE HandInv'
      BY <2>7 DEF OpFork, TypeOK
    <2>8. ASSUME NEW p \in Procs,
                 SupDecide(p) \/ SupBackoffOver(p) \/ SupBackoffCancelled(p)
                 \/ SupAbortStop(p) \/ SupAbortDown(p) \/ SupReturn(p)
          PROVE  HandInv'
      BY <2>8 DEF SupDecide, SupBackoffOver, SupBackoffCancelled, SupAbortStop,
                  SupAbortDown, SupReturn, TypeOK
    <2>9. ASSUME NEW p \in Procs, SupLock(p) \/ SupForkFails(p) PROVE HandInv'
      BY <2>9 DEF SupLock, SupForkFails, TypeOK
    <2>10. ASSUME NEW p \in Procs, SupPublish(p) PROVE HandInv'
      BY <2>10 DEF SupPublish, TypeOK
    <2>11. ASSUME NEW p \in Procs, NEW q \in Procs, SupFork(p, q) PROVE HandInv'
      BY <2>11 DEF SupFork, LockInv, TypeOK
    <2>12. ASSUME NEW p \in Procs, SupSpawn(p) PROVE HandInv'
      BY <2>12 DEF SupSpawn, TypeOK
    <2>13. ASSUME NEW p \in Procs,
                  RdyPass(p) \/ RdyTimeout(p) \/ RdyKill(p) \/ RdyReturn(p)
           PROVE  HandInv'
      BY <2>13 DEF RdyPass, RdyTimeout, RdyKill, RdyReturn, Kill, TypeOK
    <2>14. ASSUME NEW p \in Procs,
                  Reaped(p) \/ \E exit \in ExitKind : End(p, exit)
           PROVE  HandInv'
      BY <2>14 DEF Reaped, End, ExitKind, TypeOK
    <2> QED
      BY <1>2, NextCases, <2>1, <2>2, <2>4, <2>5, <2>6, <2>7, <2>8, <2>9, <2>10,
         <2>11, <2>12, <2>13, <2>14
  <1> QED
    BY <1>1, <1>2

-----------------------------------------------------------------------------
(* The watch over the children. *)

\* No step leaves a live process without a goroutine that waits for it.
LEMMA WatchNext ==
    TypeOK /\ LockInv /\ HandInv /\ ChildrenAreWaitedFor /\ [Next]_vars
        => ChildrenAreWaitedFor'
  <1> SUFFICES ASSUME TypeOK, LockInv, HandInv, ChildrenAreWaitedFor, [Next]_vars
      PROVE  ChildrenAreWaitedFor'
    OBVIOUS
  <1> USE DEF HandInv, ChildrenAreWaitedFor, Watched, InHand, Lives, Dead, OpGoTo,
      OpDone, OpStopped, SupGoTo
  <1>1. CASE UNCHANGED <<proc, sup, opProc, next, opc>>
    BY <1>1
  <1>2. CASE Next
    <2>1. CASE OpBeginStart \/ OpRestartCheck \/ OpStarting \/ OpForkFails
      BY <2>1 DEF OpBeginStart, OpRestartCheck, OpStarting, OpForkFails, TypeOK
    <2>2. CASE OpPublish
      BY <2>2 DEF OpPublish, TypeOK
    <2>4. CASE OpStopRequest \/ OpGraceOver \/ OpReap
      BY <2>4 DEF OpStopRequest, OpGraceOver, OpReap, Kill, ProcState, TypeOK
    <2>5. CASE OpStopTimesOut \/ OpClearFailed
      BY <2>5 DEF OpStopTimesOut, OpClearFailed, TypeOK
    <2>6. ASSUME NEW r \in Stops, OpBeginStop(r) PROVE ChildrenAreWaitedFor'
      BY <2>6 DEF OpBeginStop, TypeOK
    <2>7. ASSUME NEW p \in Procs, OpFork(p) PROVE ChildrenAreWaitedFor'
      BY <2>7 DEF OpFork, TypeOK
    <2>8. ASSUME NEW p \in Procs, SupDecide(p) PROVE ChildrenAreWaitedFor'
      BY <2>8 DEF SupDecide, ExitKind, TypeOK
    <2>9. ASSUME NEW p \in Procs,
                 SupBackoffOver(p) \/ SupBackoffCancelled(p)
          PROVE  ChildrenAreWaitedFor'
      BY <2>9 DEF SupBackoffOver, SupBackoffCancelled, TypeOK
    <2>10. ASSUME NEW p \in Procs,
                 SupAbortStop(p) \/ SupAbortDown(p) \/ SupReturn(p)
          PROVE  ChildrenAreWaitedFor'
      BY <2>10 DEF SupAbortStop, SupAbortDown, SupReturn, TypeOK
    <2>11. ASSUME NEW p \in Procs,
                 SupLock(p) \/ SupForkFails(p)
          PROVE  ChildrenAreWaitedFor'
      BY <2>11 DEF SupLock, SupForkFails, TypeOK
    <2>12. ASSUME NEW p \in Procs, SupPublish(p) PROVE ChildrenAreWaitedFor'
      BY <2>12 DEF SupPublish, TypeOK
    <2>13. ASSUME NEW p \in Procs, NEW q \in Procs, SupFork(p, q)
        PROVE  ChildrenAreWaitedFor'
      BY <2>13 DEF SupFork, TypeOK
    <2>14. ASSUME NEW p \in Procs, SupSpawn(p) PROVE ChildrenAreWaitedFor'
      BY <2>14 DEF SupSpawn, TypeOK
    <2>15. ASSUME NEW p \in Procs,
                 RdyPass(p) \/ RdyTimeout(p) \/ RdyKill(p) \/ RdyReturn(p)
          PROVE  ChildrenAreWaitedFor'
      BY <2>15 DEF RdyPass, RdyTimeout, RdyKill, RdyReturn, Kill, ProcState, TypeOK
    <2>16. ASSUME NEW p \in Procs,
                 Reaped(p) \/ \E exit \in ExitKind : End(p, exit)
          PROVE  ChildrenAreWaitedFor'
      BY <2>16 DEF Reaped, End, ExitKind, TypeOK
    <2> QED
      BY <1>2, NextCases, <2>1, <2>2, <2>4, <2>5, <2>6, <2>7, <2>8, <2>9,
         <2>10, <2>11, <2>12, <2>13, <2>14, <2>15, <2>16
  <1> QED
    BY <1>1, <1>2

\* The invariant of the lock, the hands and the watch, on which every other one rests:
\* which goroutine forks, which process it holds and who waits for each process.
THEOREM Inductive == Spec => []IInv
  <1>1. Init => IInv
    BY TypeInit, NoProcAssumption DEF Init, IInv, LockInv, HandInv, ChildrenAreWaitedFor,
        Lives
  <1>2. IInv /\ [Next]_vars => IInv'
    BY TypeNext, LockNext, HandNext, WatchNext DEF IInv
  <1> QED
    BY <1>1, <1>2, PTL DEF Spec

\* No two goroutines fork a process for the service at the same time, and every
\* process that lives has a goroutine that waits for it.
THEOREM ForksAndChildren == Spec => []OneForker
  <1>1. IInv => OneForker
    BY DEF IInv, LockInv, OneForker, NoTwoForkers, TypeOK
  <1> QED
    BY <1>1, Inductive, PTL

-----------------------------------------------------------------------------
(* The state and the goroutines that are to move it on. *)

\* No step takes the last watcher from a service that stays up or ready.
LEMMA UpNext == IInv /\ UpIsWatched /\ [Next]_vars => UpIsWatched'
  <1> SUFFICES ASSUME IInv, UpIsWatched, [Next]_vars PROVE UpIsWatched'
    OBVIOUS
  <1> USE DEF IInv, HandInv, UpIsWatched, Watched, InHand, Fire, Sources, TableSources,
      Target, Running, OpGoTo, OpDone, OpStopped, SupGoTo
  <1>1. CASE UNCHANGED <<state, sup, opProc, next, opc>>
    BY <1>1
  <1>2. CASE Next
    <2>1. CASE OpBeginStart \/ OpRestartCheck \/ OpStarting \/ OpForkFails
      BY <2>1 DEF OpBeginStart, OpRestartCheck, OpStarting, OpForkFails, TypeOK
    <2>2. CASE OpPublish
      BY <2>2 DEF OpPublish, StartReadiness, TypeOK
    <2>4. CASE OpStopRequest \/ OpGraceOver \/ OpReap
      BY <2>4 DEF OpStopRequest, OpGraceOver, OpReap, TypeOK
    <2>5. CASE OpStopTimesOut \/ OpClearFailed
      BY <2>5 DEF OpStopTimesOut, OpClearFailed, TypeOK
    <2>6. ASSUME NEW r \in Stops, OpBeginStop(r) PROVE UpIsWatched'
      BY <2>6 DEF OpBeginStop, TypeOK
    <2>7. ASSUME NEW p \in Procs, OpFork(p) PROVE UpIsWatched'
      BY <2>7 DEF OpFork, TypeOK
    <2>8. ASSUME NEW p \in Procs, SupDecide(p) PROVE UpIsWatched'
      BY <2>8 DEF SupDecide, AnswerEvent, Answers, Dead, ExitKind, TypeOK
    <2>9. ASSUME NEW p \in Procs,
                 SupBackoffOver(p) \/ SupBackoffCancelled(p)
          PROVE  UpIsWatched'
      BY <2>9 DEF SupBackoffOver, SupBackoffCancelled, TypeOK
    <2>10. ASSUME NEW p \in Procs,
                 SupAbortStop(p) \/ SupAbortDown(p) \/ SupReturn(p)
          PROVE  UpIsWatched'
      BY <2>10 DEF SupAbortStop, SupAbortDown, SupReturn, TypeOK
    <2>11. ASSUME NEW p \in Procs, SupLock(p) \/ SupForkFails(p) PROVE UpIsWatched'
      BY <2>11 DEF SupLock, SupForkFails, TypeOK
    <2>12. ASSUME NEW p \in Procs, SupPublish(p) PROVE UpIsWatched'
      BY <2>12 DEF SupPublish, TypeOK
    <2>13. ASSUME NEW p \in Procs, NEW q \in Procs, SupFork(p, q) PROVE UpIsWatched'
      BY <2>13 DEF SupFork, TypeOK
    <2>14. ASSUME NEW p \in Procs, SupSpawn(p) PROVE UpIsWatched'
      BY <2>14 DEF SupSpawn, StartReadiness, TypeOK
    <2>15. ASSUME NEW p \in Procs,
                 RdyPass(p) \/ RdyTimeout(p) \/ RdyKill(p) \/ RdyReturn(p)
          PROVE  UpIsWatched'
      BY <2>15 DEF RdyPass, RdyTimeout, RdyKill, RdyReturn, TypeOK
    <2>16. ASSUME NEW p \in Procs,
                 Reaped(p) \/ \E exit \in ExitKind : End(p, exit)
          PROVE  UpIsWatched'
      BY <2>16 DEF Reaped, End, TypeOK
    <2> QED
      BY <1>2, NextCases, <2>1, <2>2, <2>4, <2>5, <2>6, <2>7, <2>8, <2>9,
         <2>10, <2>11, <2>12, <2>13, <2>14, <2>15, <2>16
  <1> QED
    BY <1>1, <1>2

\* No step takes the last goroutine that drives it from a service that stays starting.
LEMMA StartingNext == IInv /\ StartingIsDriven /\ [Next]_vars => StartingIsDriven'
  <1> SUFFICES ASSUME IInv, StartingIsDriven, [Next]_vars PROVE StartingIsDriven'
    OBVIOUS
  <1> USE DEF IInv, HandInv, StartingIsDriven, Fire, Sources, TableSources, Target,
      Running, OpGoTo, OpDone, OpStopped, SupGoTo
  <1>1. CASE UNCHANGED <<state, sup, opc>>
    BY <1>1
  <1>2. CASE Next
    <2>1. CASE OpBeginStart \/ OpRestartCheck \/ OpStarting \/ OpForkFails
      BY <2>1 DEF OpBeginStart, OpRestartCheck, OpStarting, OpForkFails, TypeOK
    <2>2. CASE OpPublish
      BY <2>2 DEF OpPublish, StartReadiness, TypeOK
    <2>4. CASE OpStopRequest \/ OpGraceOver \/ OpReap
      BY <2>4 DEF OpStopRequest, OpGraceOver, OpReap, TypeOK
    <2>5. CASE OpStopTimesOut \/ OpClearFailed
      BY <2>5 DEF OpStopTimesOut, OpClearFailed, TypeOK
    <2>6. ASSUME NEW r \in Stops, OpBeginStop(r) PROVE StartingIsDriven'
      BY <2>6 DEF OpBeginStop, TypeOK
    <2>7. ASSUME NEW p \in Procs, OpFork(p) PROVE StartingIsDriven'
      BY <2>7 DEF OpFork, TypeOK
    <2>8. ASSUME NEW p \in Procs, SupDecide(p) PROVE StartingIsDriven'
      BY <2>8 DEF SupDecide, AnswerEvent, Answers, Dead, ExitKind, TypeOK
    <2>9. ASSUME NEW p \in Procs,
                 SupBackoffOver(p) \/ SupBackoffCancelled(p)
          PROVE  StartingIsDriven'
      BY <2>9 DEF SupBackoffOver, SupBackoffCancelled, TypeOK
    <2>10. ASSUME NEW p \in Procs,
                 SupAbortStop(p) \/ SupAbortDown(p) \/ SupReturn(p)
          PROVE  StartingIsDriven'
      BY <2>10 DEF SupAbortStop, SupAbortDown, SupReturn, TypeOK
    <2>11. ASSUME NEW p \in Procs, SupLock(p) \/ SupForkFails(p) PROVE StartingIsDriven'
      BY <2>11 DEF SupLock, SupForkFails, TypeOK
    <2>12. ASSUME NEW p \in Procs, SupPublish(p) PROVE StartingIsDriven'
      BY <2>12 DEF SupPublish, TypeOK
    <2>13. ASSUME NEW p \in Procs, NEW q \in Procs, SupFork(p, q) PROVE StartingIsDriven'
      BY <2>13 DEF SupFork, TypeOK
    <2>14. ASSUME NEW p \in Procs, SupSpawn(p) PROVE StartingIsDriven'
      BY <2>14 DEF SupSpawn, StartReadiness, TypeOK
    <2>15. ASSUME NEW p \in Procs,
                 RdyPass(p) \/ RdyTimeout(p) \/ RdyKill(p) \/ RdyReturn(p)
          PROVE  StartingIsDriven'
      BY <2>15 DEF RdyPass, RdyTimeout, RdyKill, RdyReturn, TypeOK
    <2>16. ASSUME NEW p \in Procs,
                 Reaped(p) \/ \E exit \in ExitKind : End(p, exit)
          PROVE  StartingIsDriven'
      BY <2>16 DEF Reaped, End, TypeOK
    <2> QED
      BY <1>2, NextCases, <2>1, <2>2, <2>4, <2>5, <2>6, <2>7, <2>8, <2>9,
         <2>10, <2>11, <2>12, <2>13, <2>14, <2>15, <2>16
  <1> QED
    BY <1>1, <1>2

\* No step takes the last goroutine that drives it from a service that stays stopping.
LEMMA StoppingNext == IInv /\ StoppingIsDriven /\ [Next]_vars => StoppingIsDriven'
  <1> SUFFICES ASSUME IInv, StoppingIsDriven, [Next]_vars PROVE StoppingIsDriven'
    OBVIOUS
  <1> USE DEF IInv, HandInv, StoppingIsDriven, Fire, Sources, TableSources, Target,
      Running, OpGoTo, OpDone, OpStopped, SupGoTo
  <1>1. CASE UNCHANGED <<state, sup, opc>>
    BY <1>1
  <1>2. CASE Next
    <2>1. CASE OpBeginStart \/ OpRestartCheck \/ OpStarting \/ OpForkFails
      BY <2>1 DEF OpBeginStart, OpRestartCheck, OpStarting, OpForkFails, TypeOK
    <2>2. CASE OpPublish
      BY <2>2 DEF OpPublish, StartReadiness, TypeOK
    <2>4. CASE OpStopRequest \/ OpGraceOver \/ OpReap
      BY <2>4 DEF OpStopRequest, OpGraceOver, OpReap, TypeOK
    <2>5. CASE OpStopTimesOut \/ OpClearFailed
      BY <2>5 DEF OpStopTimesOut, OpClearFailed, TypeOK
    <2>6. ASSUME NEW r \in Stops, OpBeginStop(r) PROVE StoppingIsDriven'
      BY <2>6 DEF OpBeginStop, TypeOK
    <2>7. ASSUME NEW p \in Procs, OpFork(p) PROVE StoppingIsDriven'
      BY <2>7 DEF OpFork, TypeOK
    <2>8. ASSUME NEW p \in Procs, SupDecide(p) PROVE StoppingIsDriven'
      BY <2>8 DEF SupDecide, AnswerEvent, Answers, Dead, ExitKind, TypeOK
    <2>9. ASSUME NEW p \in Procs,
                 SupBackoffOver(p) \/ SupBackoffCancelled(p)
          PROVE  StoppingIsDriven'
      BY <2>9 DEF SupBackoffOver, SupBackoffCancelled, TypeOK
    <2>10. ASSUME NEW p \in Procs,
                 SupAbortStop(p) \/ SupAbortDown(p) \/ SupReturn(p)
          PROVE  StoppingIsDriven'
      BY <2>10 DEF SupAbortStop, SupAbortDown, SupReturn, TypeOK
    <2>11. ASSUME NEW p \in Procs, SupLock(p) \/ SupForkFails(p) PROVE StoppingIsDriven'
      BY <2>11 DEF SupLock, SupForkFails, TypeOK
    <2>12. ASSUME NEW p \in Procs, SupPublish(p) PROVE StoppingIsDriven'
      BY <2>12 DEF SupPublish, TypeOK
    <2>13. ASSUME NEW p \in Procs, NEW q \in Procs, SupFork(p, q) PROVE StoppingIsDriven'
      BY <2>13 DEF SupFork, TypeOK
    <2>14. ASSUME NEW p \in Procs, SupSpawn(p) PROVE StoppingIsDriven'
      BY <2>14 DEF SupSpawn, StartReadiness, TypeOK
    <2>15. ASSUME NEW p \in Procs,
                 RdyPass(p) \/ RdyTimeout(p) \/ RdyKill(p) \/ RdyReturn(p)
          PROVE  StoppingIsDriven'
      BY <2>15 DEF RdyPass, RdyTimeout, RdyKill, RdyReturn, TypeOK
    <2>16. ASSUME NEW p \in Procs,
                 Reaped(p) \/ \E exit \in ExitKind : End(p, exit)
          PROVE  StoppingIsDriven'
      BY <2>16 DEF Reaped, End, TypeOK
    <2> QED
      BY <1>2, NextCases, <2>1, <2>2, <2>4, <2>5, <2>6, <2>7, <2>8, <2>9,
         <2>10, <2>11, <2>12, <2>13, <2>14, <2>15, <2>16
  <1> QED
    BY <1>1, <1>2

\* No step takes a service back to a running state in the middle of a stop.
LEMMA StopNext == IInv /\ StopHolds /\ [Next]_vars => StopHolds'
  <1> SUFFICES ASSUME IInv, StopHolds, [Next]_vars PROVE StopHolds'
    OBVIOUS
  <1> USE DEF IInv, HandInv, StopHolds, Fire, Sources, TableSources, Target, Running,
      OpGoTo, OpDone, OpStopped, SupGoTo
  <1>1. CASE UNCHANGED <<state, opc>>
    BY <1>1
  <1>2. CASE Next
    <2>1. CASE OpBeginStart \/ OpRestartCheck \/ OpStarting \/ OpForkFails
      BY <2>1 DEF OpBeginStart, OpRestartCheck, OpStarting, OpForkFails, TypeOK
    <2>2. CASE OpPublish
      BY <2>2 DEF OpPublish, StartReadiness, TypeOK
    <2>4. CASE OpStopRequest \/ OpGraceOver \/ OpReap
      BY <2>4 DEF OpStopRequest, OpGraceOver, OpReap, TypeOK
    <2>5. CASE OpStopTimesOut \/ OpClearFailed
      BY <2>5 DEF OpStopTimesOut, OpClearFailed, TypeOK
    <2>6. ASSUME NEW r \in Stops, OpBeginStop(r) PROVE StopHolds'
      BY <2>6 DEF OpBeginStop, TypeOK
    <2>7. ASSUME NEW p \in Procs, OpFork(p) PROVE StopHolds'
      BY <2>7 DEF OpFork, TypeOK
    <2>8. ASSUME NEW p \in Procs, SupDecide(p) PROVE StopHolds'
      BY <2>8 DEF SupDecide, AnswerEvent, Answers, Dead, ExitKind, TypeOK
    <2>9. ASSUME NEW p \in Procs,
                 SupBackoffOver(p) \/ SupBackoffCancelled(p)
          PROVE  StopHolds'
      BY <2>9 DEF SupBackoffOver, SupBackoffCancelled, TypeOK
    <2>10. ASSUME NEW p \in Procs,
                 SupAbortStop(p) \/ SupAbortDown(p) \/ SupReturn(p)
          PROVE  StopHolds'
      BY <2>10 DEF SupAbortStop, SupAbortDown, SupReturn, TypeOK
    <2>11. ASSUME NEW p \in Procs, SupLock(p) \/ SupForkFails(p) PROVE StopHolds'
      BY <2>11 DEF SupLock, SupForkFails, TypeOK
    <2>12. ASSUME NEW p \in Procs, SupPublish(p) PROVE StopHolds'
      BY <2>12 DEF SupPublish, TypeOK
    <2>13. ASSUME NEW p \in Procs, NEW q \in Procs, SupFork(p, q) PROVE StopHolds'
      BY <2>13 DEF SupFork, TypeOK
    <2>14. ASSUME NEW p \in Procs, SupSpawn(p) PROVE StopHolds'
      BY <2>14 DEF SupSpawn, StartReadiness, TypeOK
    <2>15. ASSUME NEW p \in Procs,
                 RdyPass(p) \/ RdyTimeout(p) \/ RdyKill(p) \/ RdyReturn(p)
          PROVE  StopHolds'
      BY <2>15 DEF RdyPass, RdyTimeout, RdyKill, RdyReturn, TypeOK
    <2>16. ASSUME NEW p \in Procs,
                 Reaped(p) \/ \E exit \in ExitKind : End(p, exit)
          PROVE  StopHolds'
      BY <2>16 DEF Reaped, End, TypeOK
    <2> QED
      BY <1>2, NextCases, <2>1, <2>2, <2>4, <2>5, <2>6, <2>7, <2>8, <2>9,
         <2>10, <2>11, <2>12, <2>13, <2>14, <2>15, <2>16
  <1> QED
    BY <1>1, <1>2

\* No step takes the registered process from a service that goes on running.
LEMMA RegisteredNext == IInv /\ StopHolds /\ RunningIsRegistered /\ [Next]_vars => RunningIsRegistered'
  <1> SUFFICES ASSUME IInv, StopHolds, RunningIsRegistered, [Next]_vars PROVE RunningIsRegistered'
    OBVIOUS
  <1> USE NoProcAssumption DEF IInv, HandInv, StopHolds, RunningIsRegistered, Fire, Sources, TableSources, Target, Running,
      OpGoTo, OpDone, OpStopped, SupGoTo
  <1>1. CASE UNCHANGED <<state, opc, registered>>
    BY <1>1
  <1>2. CASE Next
    <2>1. CASE OpBeginStart \/ OpRestartCheck \/ OpStarting \/ OpForkFails
      BY <2>1 DEF OpBeginStart, OpRestartCheck, OpStarting, OpForkFails, TypeOK
    <2>2. CASE OpPublish
      BY <2>2 DEF OpPublish, StartReadiness, TypeOK
    <2>4. CASE OpStopRequest \/ OpGraceOver \/ OpReap
      BY <2>4 DEF OpStopRequest, OpGraceOver, OpReap, TypeOK
    <2>5. CASE OpStopTimesOut \/ OpClearFailed
      BY <2>5 DEF OpStopTimesOut, OpClearFailed, TypeOK
    <2>6. ASSUME NEW r \in Stops, OpBeginStop(r) PROVE RunningIsRegistered'
      BY <2>6 DEF OpBeginStop, TypeOK
    <2>7. ASSUME NEW p \in Procs, OpFork(p) PROVE RunningIsRegistered'
      BY <2>7 DEF OpFork, TypeOK
    <2>8. ASSUME NEW p \in Procs, SupDecide(p) PROVE RunningIsRegistered'
      BY <2>8 DEF SupDecide, AnswerEvent, Answers, Dead, ExitKind, TypeOK
    <2>9. ASSUME NEW p \in Procs,
                 SupBackoffOver(p) \/ SupBackoffCancelled(p)
          PROVE  RunningIsRegistered'
      BY <2>9 DEF SupBackoffOver, SupBackoffCancelled, TypeOK
    <2>10. ASSUME NEW p \in Procs,
                 SupAbortStop(p) \/ SupAbortDown(p) \/ SupReturn(p)
          PROVE  RunningIsRegistered'
      BY <2>10 DEF SupAbortStop, SupAbortDown, SupReturn, TypeOK
    <2>11. ASSUME NEW p \in Procs, SupLock(p) \/ SupForkFails(p) PROVE RunningIsRegistered'
      BY <2>11 DEF SupLock, SupForkFails, TypeOK
    <2>12. ASSUME NEW p \in Procs, SupPublish(p) PROVE RunningIsRegistered'
      BY <2>12 DEF SupPublish, TypeOK
    <2>13. ASSUME NEW p \in Procs, NEW q \in Procs, SupFork(p, q) PROVE RunningIsRegistered'
      BY <2>13 DEF SupFork, TypeOK
    <2>14. ASSUME NEW p \in Procs, SupSpawn(p) PROVE RunningIsRegistered'
      BY <2>14 DEF SupSpawn, StartReadiness, TypeOK
    <2>15. ASSUME NEW p \in Procs,
                 RdyPass(p) \/ RdyTimeout(p) \/ RdyKill(p) \/ RdyReturn(p)
          PROVE  RunningIsRegistered'
      BY <2>15 DEF RdyPass, RdyTimeout, RdyKill, RdyReturn, TypeOK
    <2>16. ASSUME NEW p \in Procs,
                 Reaped(p) \/ \E exit \in ExitKind : End(p, exit)
          PROVE  RunningIsRegistered'
      BY <2>16 DEF Reaped, End, TypeOK
    <2> QED
      BY <1>2, NextCases, <2>1, <2>2, <2>4, <2>5, <2>6, <2>7, <2>8, <2>9,
         <2>10, <2>11, <2>12, <2>13, <2>14, <2>15, <2>16
  <1> QED
    BY <1>1, <1>2

\* A service that is up is watched, one that is starting or stopping has somebody
\* who takes it on, a stop in progress is not undone, and what runs is registered.
THEOREM StateIsKeptMoving == Spec => []StateIsCarried
  <1>1. Init => StateIsCarried
    BY DEF Init, StateIsCarried, UpIsWatched, StartingIsDriven, StoppingIsDriven, StopHolds,
       RunningIsRegistered, Running
  <1>2. IInv /\ StateIsCarried /\ [Next]_vars => StateIsCarried'
    BY UpNext, StartingNext, StoppingNext, StopNext, RegisteredNext DEF StateIsCarried
  <1> QED
    BY <1>1, <1>2, Inductive, PTL DEF Spec

-----------------------------------------------------------------------------
(* Who takes a service out of rest. *)

\* A step that takes the service out of down or failed is one of a request.
LEMMA RestNext == IInv /\ [Next]_vars => (LeavesRest => Requested)
  <1> SUFFICES ASSUME IInv, [Next]_vars PROVE (LeavesRest => Requested)
    OBVIOUS
  <1> USE DEF IInv, LeavesRest, Requested, Fire, Sources, TableSources, Target, Running,
      OpGoTo, OpDone, OpStopped, SupGoTo
  <1>1. CASE UNCHANGED <<state>>
    BY <1>1
  <1>2. CASE Next
    <2>1. CASE OpBeginStart \/ OpRestartCheck \/ OpStarting \/ OpForkFails
      BY <2>1 DEF OpBeginStart, OpRestartCheck, OpStarting, OpForkFails, TypeOK
    <2>2. CASE OpPublish
      BY <2>2 DEF OpPublish, StartReadiness, TypeOK
    <2>4. CASE OpStopRequest \/ OpGraceOver \/ OpReap
      BY <2>4 DEF OpStopRequest, OpGraceOver, OpReap, TypeOK
    <2>5. CASE OpStopTimesOut \/ OpClearFailed
      BY <2>5 DEF OpStopTimesOut, OpClearFailed, TypeOK
    <2>6. ASSUME NEW r \in Stops, OpBeginStop(r) PROVE (LeavesRest => Requested)
      BY <2>6 DEF OpBeginStop, TypeOK
    <2>7. ASSUME NEW p \in Procs, OpFork(p) PROVE (LeavesRest => Requested)
      BY <2>7 DEF OpFork, TypeOK
    <2>8. ASSUME NEW p \in Procs, SupDecide(p) PROVE (LeavesRest => Requested)
      BY <2>8 DEF SupDecide, AnswerEvent, Answers, Dead, ExitKind, TypeOK
    <2>9. ASSUME NEW p \in Procs,
                 SupBackoffOver(p) \/ SupBackoffCancelled(p)
          PROVE  (LeavesRest => Requested)
      BY <2>9 DEF SupBackoffOver, SupBackoffCancelled, TypeOK
    <2>10. ASSUME NEW p \in Procs,
                 SupAbortStop(p) \/ SupAbortDown(p) \/ SupReturn(p)
          PROVE  (LeavesRest => Requested)
      BY <2>10 DEF SupAbortStop, SupAbortDown, SupReturn, TypeOK
    <2>11. ASSUME NEW p \in Procs,
                 SupLock(p) \/ SupForkFails(p)
          PROVE  (LeavesRest => Requested)
      BY <2>11 DEF SupLock, SupForkFails, TypeOK
    <2>12. ASSUME NEW p \in Procs, SupPublish(p) PROVE (LeavesRest => Requested)
      BY <2>12 DEF SupPublish, TypeOK
    <2>13. ASSUME NEW p \in Procs, NEW q \in Procs, SupFork(p, q)
        PROVE  (LeavesRest => Requested)
      BY <2>13 DEF SupFork, TypeOK
    <2>14. ASSUME NEW p \in Procs, SupSpawn(p) PROVE (LeavesRest => Requested)
      BY <2>14 DEF SupSpawn, StartReadiness, TypeOK
    <2>15. ASSUME NEW p \in Procs,
                 RdyPass(p) \/ RdyTimeout(p) \/ RdyKill(p) \/ RdyReturn(p)
          PROVE  (LeavesRest => Requested)
      BY <2>15 DEF RdyPass, RdyTimeout, RdyKill, RdyReturn, TypeOK
    <2>16. ASSUME NEW p \in Procs,
                 Reaped(p) \/ \E exit \in ExitKind : End(p, exit)
          PROVE  (LeavesRest => Requested)
      BY <2>16 DEF Reaped, End, TypeOK
    <2> QED
      BY <1>2, NextCases, <2>1, <2>2, <2>4, <2>5, <2>6, <2>7, <2>8, <2>9,
         <2>10, <2>11, <2>12, <2>13, <2>14, <2>15, <2>16
  <1> QED
    BY <1>1, <1>2

\* Only a request takes a service out of down or failed.
THEOREM RestIsKept == Spec => RestIsLeftByRequest
  <1>1. IInv /\ [Next]_vars => [LeavesRest => Requested]_vars
    BY RestNext
  <1> QED
    BY <1>1, Inductive, PTL DEF Spec, RestIsLeftByRequest

-----------------------------------------------------------------------------
(***************************************************************************)
(* The restart engine (RestartEngine), a specification of its own: what it *)
(* promises about max_retries, for any set of configurations and a clock   *)
(* that runs as long as one likes.                                         *)
(***************************************************************************)

\* Without a readiness check the engine's two fields are what the history says:
\* the anchor is the moment the process was up, the retries are the crashes.
Anchored ==
    ~readiness =>
        /\ phase # "ready"
        /\ phase = "up" => lastStart = stableSince
        /\ phase \in {"up", "backoff"} => retries = crashes

EngineIInv == EngineTypeOK /\ Anchored

\* ResetIfNeeded leaves a natural number, and in a process whose start is the
\* anchor it resets exactly after a long run.
LEMMA ResetCounts ==
    ASSUME EngineTypeOK
    PROVE  /\ ResetIfNeeded(cfg, retries, lastStart, now) \in Nat
           /\ lastStart = stableSince =>
                ResetIfNeeded(cfg, retries, lastStart, now) = IF RanLong THEN 0 ELSE retries
    BY DEF EngineTypeOK, ResetIfNeeded, RanLong

\* A restart is granted with its count within the limit of the configuration.
LEMMA GrantedWithinLimit ==
    ASSUME EngineTypeOK, NEW exit \in Exit, Grant(exit)
    PROVE  cfg.maxRetries = 0 \/ retries' <= cfg.maxRetries
<1> DEFINE n == ResetIfNeeded(cfg, retries, lastStart, now)
<1>1. n \in Nat /\ cfg.maxRetries \in Nat
    BY ResetCounts DEF EngineTypeOK, Config
<1>2. retries' = n + 1 /\ (cfg.maxRetries = 0 \/ ~(n >= cfg.maxRetries))
    BY DEF Grant, MaxRetriesReached
<1> HIDE DEF n
<1> QED
    BY <1>1, <1>2

\* A service starts with no retries, and its anchor is its start.
LEMMA InitAnchored == EngineInit => EngineIInv
    BY EngineReadinessAssumption, ConfigsAssumption DEF EngineInit, EngineIInv, EngineTypeOK, Anchored

\* No decision, restart, reload or start parts the engine's count from the history's.
LEMMA NextAnchored == EngineIInv /\ [EngineNext]_restartVars => EngineIInv'
<1> SUFFICES ASSUME EngineIInv, [EngineNext]_restartVars PROVE EngineIInv'
    OBVIOUS
<1> USE DEF EngineIInv, EngineTypeOK, Anchored
<1>1. CASE StartService
    BY <1>1, ConfigsAssumption DEF StartService
<1>2. CASE Ready
    BY <1>2 DEF Ready
<1>3. CASE DecideRestart
    <2>1. PICK exit \in Exit : Refuse(exit) \/ Grant(exit)
        BY <1>3 DEF DecideRestart
    <2>2. /\ phase \in {"up", "ready"}
          /\ stableSince' = Never
          /\ UNCHANGED <<readiness, cfg, lastStart, now>>
        BY <1>3 DEF DecideRestart
    <2>3. CASE Refuse(exit)
        BY <2>2, <2>3, ResetCounts DEF Refuse
    <2>4. CASE Grant(exit)
        <3>1. /\ retries' = ResetIfNeeded(cfg, retries, lastStart, now) + 1
              /\ crashes' = (IF RanLong THEN 0 ELSE crashes) + 1
              /\ phase' = "backoff" /\ decidedAt' = now /\ decidedCfg' = cfg
            BY <2>4 DEF Grant, OneMoreCrash
        <3>2. ~readiness => retries' = crashes'
            BY <2>2, <3>1, ResetCounts
        <3>3. retries' \in Nat /\ crashes' \in Nat
            BY <3>1, ResetCounts
        <3> QED
            BY <2>2, <3>1, <3>2, <3>3
    <2> QED
        BY <2>1, <2>3, <2>4
<1>4. CASE Restarted
    BY <1>4 DEF Restarted, engineVars
<1>5. CASE Tick
    BY <1>5 DEF Tick, engineVars, historyVars
<1>6. ASSUME NEW c \in Configs, SyncConfigFrom(c) PROVE EngineIInv'
    BY <1>6, ConfigsAssumption DEF SyncConfigFrom, historyVars
<1>7. CASE UNCHANGED restartVars
    BY <1>7 DEF restartVars, engineVars, historyVars
<1> QED
    BY <1>1, <1>2, <1>3, <1>4, <1>5, <1>6, <1>7 DEF EngineNext

\* The engine's count is the count of the restarts in a row.
THEOREM CountIsTrue == EngineSpec => []EngineIInv
    BY InitAnchored, NextAnchored, PTL DEF EngineSpec

\* max_retries bounds the restarts in a row of a service without a readiness
\* check, whatever its configurations are and however they are reloaded.
THEOREM RestartsBounded == EngineSpec => RestartsAreBounded
<1>1. EngineIInv /\ [EngineNext]_restartVars =>
        [Granted /\ ~readiness => cfg.maxRetries = 0 \/ crashes' <= cfg.maxRetries]_restartVars
    <2> SUFFICES ASSUME EngineIInv, EngineNext, Granted, ~readiness
                 PROVE  cfg.maxRetries = 0 \/ crashes' <= cfg.maxRetries
        OBVIOUS
    <2>1. DecideRestart
        BY DEF EngineNext, StartService, Ready, Restarted, Tick, SyncConfigFrom, Granted, Decided,
               historyVars
    <2>2. PICK exit \in Exit : Grant(exit)
        BY <2>1 DEF DecideRestart, Refuse, Granted
    <2>3. cfg.maxRetries = 0 \/ retries' <= cfg.maxRetries
        BY <2>2, GrantedWithinLimit DEF EngineIInv
    <2>4. EngineIInv' /\ readiness' = readiness
        BY <2>1, NextAnchored DEF EngineNext, DecideRestart
    <2>5. retries' = crashes'
        BY <2>4 DEF EngineIInv, Anchored, Granted
    <2> QED
        BY <2>3, <2>5
<1> QED
    BY <1>1, CountIsTrue, PTL DEF EngineSpec, RestartsAreBounded

-----------------------------------------------------------------------------
(* The engine's waits. The provers know nothing of exponentiation; what is  *)
(* used of it is said here, and the theorem about the waits supposes it.    *)

\* A power is what multiplying again and again comes to.
PowerIsRepeated ==
    \A m \in Nat \ {0} : m^0 = 1 /\ \A n \in Nat : m^n \in Nat /\ m^(n + 1) = m^n * m

LEMMA Wait ==
    ASSUME NEW c \in Config, NEW n \in Nat \ {0}, PowerIsRepeated
    PROVE  BackoffDuration(c, n) = Smaller(c.backoff * c.multiplier^(n - 1), c.maxBackoff)
    BY DEF BackoffDuration

\* A number that has reached the cap stays there when it is multiplied.
LEMMA CappedThenMultiplied ==
    ASSUME NEW x \in Nat, NEW m \in Nat \ {0}, NEW cap \in Nat
    PROVE  Smaller(Smaller(x, cap) * m, cap) = Smaller(x * m, cap)
<1>1. \A y \in Nat : y * m >= y /\ y * m \in Nat
    OBVIOUS
<1>2. x >= cap => x * m >= cap * m
    OBVIOUS
<1>3. CASE x < cap
    BY <1>3 DEF Smaller
<1>4. CASE x >= cap
    <2>1. cap * m >= cap /\ x * m >= cap /\ cap * m \in Nat /\ x * m \in Nat
        BY <1>1, <1>2, <1>4
    <2>2. Smaller(x, cap) = cap
        BY <1>4 DEF Smaller
    <2> DEFINE a == cap * m
    <2> DEFINE b == x * m
    <2> HIDE DEF a, b
    <2>3. a \in Nat /\ b \in Nat /\ a >= cap /\ b >= cap
        BY <2>1 DEF a, b
    <2>4. Smaller(a, cap) = cap /\ Smaller(b, cap) = cap
        BY <2>3 DEF Smaller
    <2> QED
        BY <2>2, <2>4 DEF a, b
<1> QED
    BY <1>3, <1>4

\* The first wait, and the next one.
LEMMA FirstWait ==
    ASSUME NEW c \in Config, PowerIsRepeated
    PROVE  BackoffDuration(c, 1) = Smaller(c.backoff, c.maxBackoff)
<1>1. c.backoff \in Nat /\ c.multiplier \in Nat \ {0}
    BY DEF Config
<1>2. c.multiplier^0 = 1
    BY <1>1 DEF PowerIsRepeated
<1>3. BackoffDuration(c, 1) = Smaller(c.backoff * c.multiplier^(1 - 1), c.maxBackoff)
    BY Wait
<1>4. 1 - 1 = 0 /\ c.backoff * 1 = c.backoff
    BY <1>1
<1> QED
    BY <1>2, <1>3, <1>4

LEMMA NextWait ==
    ASSUME NEW c \in Config, NEW n \in Nat \ {0}, PowerIsRepeated
    PROVE  BackoffDuration(c, n + 1) = Smaller(BackoffDuration(c, n) * c.multiplier, c.maxBackoff)
<1> DEFINE m == c.multiplier
<1>1. c.backoff \in Nat /\ m \in Nat \ {0} /\ c.maxBackoff \in Nat
    BY DEF Config
<1>2. (n + 1) - 1 = (n - 1) + 1 /\ n - 1 \in Nat /\ n + 1 \in Nat \ {0}
    OBVIOUS
<1> DEFINE p == m^(n - 1)
<1>3. p \in Nat /\ m^((n + 1) - 1) = p * m
    BY <1>1, <1>2 DEF PowerIsRepeated
<1>4. /\ BackoffDuration(c, n + 1) = Smaller(c.backoff * m^((n + 1) - 1), c.maxBackoff)
      /\ BackoffDuration(c, n) = Smaller(c.backoff * p, c.maxBackoff)
    BY <1>2, Wait
<1> HIDE DEF m, p
<1>5. c.backoff * (p * m) = (c.backoff * p) * m /\ c.backoff * p \in Nat
    BY <1>1, <1>3
<1>6. Smaller(Smaller(c.backoff * p, c.maxBackoff) * m, c.maxBackoff)
        = Smaller((c.backoff * p) * m, c.maxBackoff)
    BY <1>1, <1>5, CappedThenMultiplied
<1> QED
    BY <1>3, <1>4, <1>5, <1>6 DEF m

\* The process that is up got there after the wait of its crashes; and the
\* engine's anchor is the moment from which its time counts.
WaitInv ==
    /\ ~readiness /\ phase \in {"up", "backoff"} /\ crashes > 0
         => wait = BackoffDuration(decidedCfg, crashes)
    /\ stableSince \in {Never, lastStart}

LEMMA NextWaits == EngineIInv /\ WaitInv /\ [EngineNext]_restartVars => WaitInv'
<1> SUFFICES ASSUME EngineIInv, WaitInv, [EngineNext]_restartVars PROVE WaitInv'
    OBVIOUS
<1> USE DEF WaitInv
<1>1. CASE StartService
    BY <1>1 DEF StartService
<1>2. CASE Ready
    BY <1>2 DEF Ready
<1>3. CASE DecideRestart
    <2>1. PICK exit \in Exit : Refuse(exit) \/ Grant(exit)
        BY <1>3 DEF DecideRestart
    <2>2. EngineIInv' /\ stableSince' = Never
        BY <1>3, NextAnchored DEF DecideRestart
    <2>3. CASE Refuse(exit)
        BY <2>2, <2>3 DEF Refuse
    <2>4. CASE Grant(exit)
        <3>1. wait' = BackoffDuration(cfg, retries') /\ decidedCfg' = cfg /\ phase' = "backoff"
            BY <2>4 DEF Grant
        <3>2. ~readiness' => retries' = crashes'
            BY <2>2, <3>1 DEF EngineIInv, Anchored
        <3>3. ~readiness' => wait' = BackoffDuration(decidedCfg', crashes')
            BY <3>1, <3>2
        <3> QED
            BY <2>2, <3>3
    <2> QED
        BY <2>1, <2>3, <2>4
<1>4. CASE Restarted
    BY <1>4 DEF Restarted
<1>5. CASE Tick
    BY <1>5 DEF Tick, engineVars, historyVars
<1>6. ASSUME NEW c \in Configs, SyncConfigFrom(c) PROVE WaitInv'
    BY <1>6 DEF SyncConfigFrom, historyVars
<1>7. CASE UNCHANGED restartVars
    BY <1>7 DEF restartVars, engineVars, historyVars
<1> QED
    BY <1>1, <1>2, <1>3, <1>4, <1>5, <1>6, <1>7 DEF EngineNext

\* What a decision that grants a restart leaves.
LEMMA Decisions ==
    ASSUME EngineIInv, EngineNext, Decided
    PROVE  \E exit \in Exit : /\ Refuse(exit) \/ Grant(exit)
                              /\ UNCHANGED <<readiness, cfg>>
<1>1. DecideRestart
    BY DEF EngineNext, StartService, Ready, Restarted, Tick, SyncConfigFrom, Decided, historyVars
<1> QED
    BY <1>1 DEF DecideRestart

LEMMA WaitsAreNext ==
    ASSUME PowerIsRepeated, EngineIInv, WaitInv, EngineNext, Granted, ~readiness, decidedCfg = cfg
    PROVE  wait' = Smaller(IF crashes' = 1 THEN cfg.backoff ELSE wait * cfg.multiplier,
                           cfg.maxBackoff)
<1>1. PICK exit \in Exit : Grant(exit) /\ UNCHANGED <<readiness, cfg>>
    BY Decisions DEF Granted, Refuse
<1>2. wait' = BackoffDuration(cfg, retries') /\ crashes' = (IF RanLong THEN 0 ELSE crashes) + 1
    BY <1>1 DEF Grant, OneMoreCrash
<1>3. retries' = crashes' /\ cfg \in Config /\ crashes \in Nat
    <2>1. EngineIInv'
        BY NextAnchored
    <2> QED
        BY <1>1, <2>1 DEF EngineIInv, EngineTypeOK, Anchored, Granted
<1>4. CASE crashes' = 1
    BY <1>2, <1>3, <1>4, FirstWait
<1>5. CASE crashes' # 1
    <2>1. crashes \in Nat \ {0} /\ crashes' = crashes + 1
        BY <1>2, <1>3, <1>5
    <2>2. phase = "up"
        BY DEF Granted, Decided, EngineIInv, Anchored
    <2>3. wait = BackoffDuration(cfg, crashes)
        BY <2>1, <2>2 DEF WaitInv
    <2> QED
        BY <1>2, <1>3, <1>5, <2>1, <2>3, NextWait
<1> QED
    BY <1>4, <1>5

LEMMA LongRunIsForgiven ==
    ASSUME PowerIsRepeated, EngineIInv, WaitInv, EngineNext, RanLong, cfg.policy = "always", Decided
    PROVE  phase' = "backoff" /\ wait' = Smaller(cfg.backoff, cfg.maxBackoff)
<1>1. PICK exit \in Exit : (Refuse(exit) \/ Grant(exit)) /\ UNCHANGED <<readiness, cfg>>
    BY Decisions
<1>2. ResetIfNeeded(cfg, retries, lastStart, now) = 0
    BY DEF WaitInv, RanLong, ResetIfNeeded
<1>3. cfg \in Config /\ cfg.maxRetries \in Nat
    BY DEF EngineIInv, EngineTypeOK, Config
<1>4. ShouldRestart(cfg, exit) /\ ~MaxRetriesReached(cfg, 0)
    BY <1>3 DEF ShouldRestart, MaxRetriesReached
<1>5. Grant(exit)
    BY <1>1, <1>2, <1>4 DEF Refuse
<1>6. phase' = "backoff" /\ wait' = BackoffDuration(cfg, retries') /\ retries' = 0 + 1
    BY <1>2, <1>5 DEF Grant
<1> QED
    BY <1>3, <1>6, FirstWait

\* Over any sequence of crashes, reloads and long runs the wait before a restart
\* is that of the number of crashes in a row, and a long run begins a new row,
\* for any configurations (BackoffDuration, ResetIfNeeded, IncrementRetries).
THEOREM WaitsAreTrue == ASSUME PowerIsRepeated PROVE EngineSpec => WaitsFollowCrashes
<1>1. EngineInit => WaitInv
    BY DEF EngineInit, WaitInv
<1>2. EngineIInv /\ WaitInv /\ [EngineNext]_restartVars =>
        [Granted /\ ~readiness /\ decidedCfg = cfg =>
            wait' = Smaller(IF crashes' = 1 THEN cfg.backoff ELSE wait * cfg.multiplier,
                            cfg.maxBackoff)]_restartVars
    BY WaitsAreNext
<1>3. EngineIInv /\ WaitInv /\ [EngineNext]_restartVars =>
        [RanLong /\ cfg.policy = "always" /\ Decided =>
            /\ phase' = "backoff"
            /\ wait' = Smaller(cfg.backoff, cfg.maxBackoff)]_restartVars
    BY LongRunIsForgiven
<1> QED
    BY <1>1, <1>2, <1>3, CountIsTrue, NextWaits, PTL
    DEF EngineSpec, WaitsFollowCrashes, WaitsGrow, LongRunsAreForgiven
=============================================================================
