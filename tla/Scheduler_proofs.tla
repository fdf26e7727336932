---- MODULE Scheduler_proofs ----
(***************************************************************************)
(* Proofs about Scheduler, for every set of tasks, supervisors and         *)
(* commands and every limit.                                               *)
(***************************************************************************)
EXTENDS Scheduler, FiniteSetTheorems, TLAPS

\* A command that is not idle has a task.
CommandHasTask == \A u \in Users : cmdPc[u] # "idle" => cmdTask[u] \in Tasks

TypeInv == TypeOK /\ CommandHasTask

USE DEF rowVars, ctlVars, runVars, supVars, dispVars, cmdVars, budgets

----
(* Types.                                                                    *)

\* The rows, the registry and every program counter start in their types.
LEMMA TypeInit == Init => TypeInv
  BY SchedulerAssumption DEF Init, TypeInv, TypeOK, CommandHasTask, RowStates,
     Statuses, RetryStates, SupPcs, DispPcs, CmdPcs, CmdKinds, DrainingKinds, Results

\* Every step of the dispatch pass and of start_task keeps the types.
LEMMA TypeDispatch == TypeInv /\ DispatchStep => TypeInv'
<1> SUFFICES ASSUME TypeInv, DispatchStep PROVE TypeInv'
  OBVIOUS
<1> USE SchedulerAssumption DEF TypeInv, TypeOK, CommandHasTask, SetRow, SetStatus,
        LeaveStart, RowStates, Statuses, RetryStates, SupPcs, DispPcs
<1>1. CASE DispatchBegin
  <2>1. IsFiniteSet(ActiveTasks)
    BY FS_Subset DEF ActiveTasks
  <2>2. Cardinality(ActiveTasks) \in Nat
    BY <2>1, FS_CardinalityType
  <2>3. QED
    BY <1>1, <2>2 DEF DispatchBegin
<1>2. CASE DispatchPage
  BY <1>2 DEF DispatchPage
<1>3. CASE DispatchEnd
  BY <1>3 DEF DispatchEnd
<1>4. CASE StartLock
  BY <1>4 DEF StartLock
<1>5. CASE StartUnresolved
  BY <1>5 DEF StartUnresolved
<1>6. CASE StartAlreadyActive
  BY <1>6 DEF StartAlreadyActive
<1>7. CASE StartTransition
  BY <1>7 DEF StartTransition
<1>8. CASE StartTransitionFailed
  BY <1>8 DEF StartTransitionFailed
<1>9. CASE StartSpawn
  BY <1>9 DEF StartSpawn
<1>10. CASE StartSetHandle
  <2> DEFINE b == downloads[dispTask] # NoWorker
  <2>1. b \in BOOLEAN
    OBVIOUS
  <2>2. held' = [held EXCEPT ![dispTask] = b]
    BY <1>10 DEF StartSetHandle
  <2> HIDE DEF b
  <2>3. held' \in [Tasks -> BOOLEAN]
    BY <2>1, <2>2
  <2>4. QED
    BY <1>10, <2>3 DEF StartSetHandle
<1>11. CASE StartFailed
  BY <1>11 DEF StartFailed, PersistFailure
<1>12. ASSUME NEW t \in Tasks, DispatchPick(t) PROVE TypeInv'
  BY <1>12 DEF DispatchPick
<1>13. ASSUME NEW w \in Workers, StartReserve(w) PROVE TypeInv'
  BY <1>13 DEF StartReserve
<1>14. QED
  BY <1>1, <1>2, <1>3, <1>4, <1>5, <1>6, <1>7, <1>8, <1>9, <1>10, <1>11, <1>12,
     <1>13 DEF DispatchStep
\* Every step of a supervisor or of its engine keeps the types.
LEMMA TypeSupervisor ==
  ASSUME TypeInv, NEW w \in Workers, SupervisorStep(w) \/ EngineStep(w) \/ EngineEnd(w)
  PROVE  TypeInv'
<1> USE SchedulerAssumption DEF TypeInv, TypeOK, CommandHasTask, SetRow, SetStatus,
        GoTo, SupUnchanged, RowStates, Statuses, RetryStates, SupPcs, Results
<1>1. CASE SupPrepare(w)
  BY <1>1 DEF SupPrepare
<1>2. CASE SupPrepareResync(w)
  <2>1. CASE RowExists(supTask[w])
    <3>1. /\ status' = [status EXCEPT ![supTask[w]] = "queued"]
          /\ tempAhead' = [tempAhead EXCEPT ![supTask[w]] = FALSE]
          /\ supPc' = [supPc EXCEPT ![w] = "engine"]
      BY <1>2, <2>1 DEF SupPrepareResync
    <3>2. UNCHANGED <<retryAt, attempt, ctlVars, supTask, supResult, supCanceled, dispVars,
                      wake, cmdVars, budgets>>
      BY <1>2, <2>1 DEF SupPrepareResync
    <3>3. QED
      BY <3>1, <3>2
  <2>2. CASE ~RowExists(supTask[w])
    BY <1>2, <2>2 DEF SupPrepareResync
  <2>3. QED
    BY <2>1, <2>2
<1>3. CASE SupPrepareBlocked(w)
  BY <1>3 DEF SupPrepareBlocked
<1>4. CASE SupFailEarly(w)
  BY <1>4 DEF SupFailEarly
<1>5. CASE SupEngineStart(w)
  <2>1. tempAhead' \in [Tasks -> BOOLEAN]
    <3>1. PICK b \in BOOLEAN : tempAhead' = [tempAhead EXCEPT ![supTask[w]] = b]
      BY <1>5 DEF SupEngineStart
    <3>2. QED
      BY <3>1
  <2>2. QED
    BY <1>5, <2>1 DEF SupEngineStart, RowExists
<1>6. CASE SupRetrying(w)
  BY <1>6 DEF SupRetrying
<1>7. CASE SupCheckpoint(w)
  BY <1>7 DEF SupCheckpoint
<1>8. CASE SupComplete(w)
  BY <1>8 DEF SupComplete
<1>9. CASE SupFail(w)
  BY <1>9 DEF SupFail
<1>10. CASE SupCancelExit(w)
  BY <1>10 DEF SupCancelExit
<1>11. CASE SupObserve(w)
  BY <1>11 DEF SupObserve
<1>12. CASE SupConverge(w)
  <2>1. CASE ConvergeCanceled(supTask[w])
    BY <1>12, <2>1 DEF SupConverge, ConvergeCanceled
  <2>2. CASE ScheduleAutoRetry(supTask[w])
    BY <1>12, <2>2 DEF SupConverge, ScheduleAutoRetry
  <2>3. CASE PersistFailure(supTask[w], LiveStatuses)
    BY <1>12, <2>3 DEF SupConverge, PersistFailure
  <2>4. CASE SetRow(supTask[w], status[supTask[w]], retryAt[supTask[w]], 0)
    BY <1>12, <2>4 DEF SupConverge
  <2>5. QED
    BY <1>12, <2>1, <2>2, <2>3, <2>4 DEF SupConverge
<1>13. CASE SupRelease(w)
  BY <1>13 DEF SupRelease
<1>14. CASE SupTail(w)
  BY <1>14 DEF SupTail
<1>15. QED
  BY <1>1, <1>2, <1>3, <1>4, <1>5, <1>6, <1>7, <1>8, <1>9, <1>10, <1>11, <1>12, <1>13,
     <1>14 DEF SupervisorStep, EngineStep, EngineEnd

\* Every step of a command keeps the types.
LEMMA TypeCommand ==
  ASSUME TypeInv, NEW u \in Users, CmdLock(u) \/ CommandStep(u)
  PROVE  TypeInv'
<1> USE SchedulerAssumption DEF TypeInv, TypeOK, CommandHasTask, SetRow, Return,
        LeaveCommand, Finish, CmdUnchanged, Applying, RowStates, Statuses, RetryStates,
        CmdPcs, CmdKinds, DrainingKinds
<1>1. CASE CmdLock(u)
  BY <1>1 DEF CmdLock
<1>2. CASE CmdRefuse(u)
  BY <1>2 DEF CmdRefuse
<1>3. CASE CmdProceed(u)
  BY <1>3 DEF CmdProceed
<1>4. CASE CmdCancelToken(u)
  <2>1. CASE held[cmdTask[u]]
    <3>1. cmdTask[u] \in Tasks /\ downloads[cmdTask[u]] \in Workers
      BY <1>4 DEF CmdCancelToken
    <3>2. cmdWorker' = [cmdWorker EXCEPT ![u] = downloads[cmdTask[u]]]
      BY <1>4, <2>1 DEF CmdCancelToken
    <3>3. cmdPc' = [cmdPc EXCEPT ![u] = "drain"]
      BY <1>4, <2>1 DEF CmdCancelToken
    <3>4. /\ held' = [held EXCEPT ![cmdTask[u]] = FALSE]
          /\ cancelled' = [cancelled EXCEPT ![downloads[cmdTask[u]]] = TRUE]
      BY <1>4, <2>1 DEF CmdCancelToken
    <3>5. UNCHANGED <<rowVars, downloads, taskLock, wake, supVars, dispVars, cmdKind,
                      cmdTask, budgets>>
      BY <1>4, <2>1 DEF CmdCancelToken
    <3>6. QED
      BY <3>1, <3>2, <3>3, <3>4, <3>5
  <2>2. CASE ~held[cmdTask[u]]
    BY <1>4, <2>2 DEF CmdCancelToken
  <2>3. QED
    BY <2>1, <2>2
<1>5. CASE CmdJoined(u)
  BY <1>5 DEF CmdJoined
<1>6. CASE CmdDrainTimeout(u)
  <2>1. CASE downloads[cmdTask[u]] # NoWorker
    <3>1. held' = [held EXCEPT ![cmdTask[u]] = TRUE]
      BY <1>6, <2>1 DEF CmdDrainTimeout
    <3>2. /\ cmdPc' = [cmdPc EXCEPT ![u] = "idle"]
          /\ cmdTask' = [cmdTask EXCEPT ![u] = NoTask]
          /\ cmdKind' = [cmdKind EXCEPT ![u] = "pause"]
          /\ cmdWorker' = [cmdWorker EXCEPT ![u] = NoWorker]
          /\ taskLock' = [taskLock EXCEPT ![cmdTask[u]] = Free]
      BY <1>6, <2>1 DEF CmdDrainTimeout
    <3>3. UNCHANGED <<rowVars, downloads, cancelled, wake, supVars, dispVars, budgets>>
      BY <1>6, <2>1 DEF CmdDrainTimeout
    <3>4. QED
      BY <3>1, <3>2, <3>3
  <2>2. CASE downloads[cmdTask[u]] = NoWorker
    BY <1>6, <2>2 DEF CmdDrainTimeout
  <2>3. QED
    BY <2>1, <2>2
<1>7. CASE ApplyPause(u)
  BY <1>7 DEF ApplyPause
<1>8. CASE ApplyCancel(u)
  BY <1>8 DEF ApplyCancel
<1>9. CASE ApplyRetry(u)
  BY <1>9 DEF ApplyRetry
<1>10. CASE ApplyResume(u)
  BY <1>10 DEF ApplyResume
<1>11. CASE ApplyRecover(u)
  BY <1>11 DEF ApplyRecover
<1>12. CASE ApplyRestart(u)
  <2>1. tempAhead' \in [Tasks -> BOOLEAN]
    <3>1. PICK b \in {FALSE, tempAhead[cmdTask[u]]} :
            tempAhead' = [tempAhead EXCEPT ![cmdTask[u]] = b]
      BY <1>12 DEF ApplyRestart
    <3>2. b \in BOOLEAN
      BY <1>12, <3>1 DEF ApplyRestart
    <3>3. QED
      BY <3>1, <3>2
  <2>2. QED
    BY <1>12, <2>1 DEF ApplyRestart
<1>13. CASE ApplyDelete(u)
  BY <1>13 DEF ApplyDelete
<1>14. CASE ApplyRejected(u)
  BY <1>14 DEF ApplyRejected
<1>15. QED
  BY <1>1, <1>2, <1>3, <1>4, <1>5, <1>6, <1>7, <1>8, <1>9, <1>10, <1>11, <1>12, <1>13,
     <1>14 DEF CommandStep

\* Every step of the scheduler keeps the types.
LEMMA TypeNext == TypeInv /\ [Next]_vars => TypeInv'
<1> SUFFICES ASSUME TypeInv, [Next]_vars PROVE TypeInv'
  OBVIOUS
<1>1. CASE DispatchStep
  BY <1>1, TypeDispatch
<1>2. ASSUME NEW w \in Workers, SupervisorStep(w) \/ EngineStep(w) \/ EngineEnd(w)
      PROVE  TypeInv'
  BY <1>2, TypeSupervisor
<1>3. ASSUME NEW u \in Users, CmdLock(u) \/ CommandStep(u)
      PROVE  TypeInv'
  BY <1>3, TypeCommand
<1> USE SchedulerAssumption DEF TypeInv, TypeOK, CommandHasTask, RowStates, Statuses,
        RetryStates, CmdPcs, CmdKinds, DrainingKinds
<1>4. ASSUME NEW u \in Users, NEW k \in CmdKinds, NEW t \in Tasks, CmdIssue(u, k, t)
      PROVE  TypeInv'
  BY <1>4 DEF CmdIssue
<1>5. ASSUME NEW t \in Tasks, RetryDue(t)
      PROVE  TypeInv'
  BY <1>5 DEF RetryDue
<1>6. CASE WatcherDispatch
  BY <1>6 DEF WatcherDispatch
<1>7. CASE Crash
  BY <1>7 DEF Crash, SupPcs, DispPcs, Results
<1>8. CASE UNCHANGED vars
  BY <1>8 DEF vars
<1>9. QED
  BY <1>1, <1>2, <1>3, <1>4, <1>5, <1>6, <1>7, <1>8 DEF Next

\* The types hold in every reachable state.
LEMMA AlwaysTypeInv == Spec => []TypeInv
  BY TypeInit, TypeNext, PTL DEF Spec

\* Every variable keeps its type: no step of start_task, of a supervisor, of a
\* command or of a restart takes a row to a status that the schema does not have,
\* or the registry to something that is not a control.
THEOREM TypeCorrect == Spec => []TypeOK
<1>1. TypeInv => TypeOK
  BY DEF TypeInv
<1>2. QED
  BY AlwaysTypeInv, <1>1, PTL

----
(* The inductive invariant, in layers: each layer is preserved by a step     *)
(* from a state of the layers before it.                                     *)

\* start_task and a command that entered hold the lock of their task.
Locks ==
  /\ dispPc \in {"lock", "reserve", "transition", "spawn", "setHandle", "startFailed"}
       => dispTask \in Tasks
  /\ dispPc \in {"reserve", "transition", "spawn", "setHandle"}
       => taskLock[dispTask] = Dispatcher
  /\ \A u \in Users : cmdPc[u] \in {"enter", "drain", "apply"} => taskLock[cmdTask[u]] = u

\* The registry and the supervisors agree in both directions.
Registry ==
  /\ \A w \in Workers : supPc[w] \in Owning =>
       supTask[w] \in Tasks /\ downloads[supTask[w]] = w
  /\ \A t \in Tasks : downloads[t] # NoWorker =>
       supPc[downloads[t]] \in Owning /\ supTask[downloads[t]] = t

\* A pending control belongs to the dispatch pass that is starting its task.
Pending ==
  /\ dispPc \in {"transition", "spawn"} =>
       downloads[dispTask] # NoWorker /\ supPc[downloads[dispTask]] = "reserved"
  /\ \A w \in Workers : supPc[w] = "reserved" =>
       dispPc \in {"transition", "spawn"} /\ supTask[w] = dispTask

\* A command drains the run that it found, and writes only after that run.
Drained ==
  \A u \in Users :
    /\ cmdPc[u] = "drain" => cmdWorker[u] \in Workers
                             /\ downloads[cmdTask[u]] \in {NoWorker, cmdWorker[u]}
    /\ cmdPc[u] = "apply" /\ Draining(u) => downloads[cmdTask[u]] = NoWorker

Slots == Registry /\ Pending /\ Drained

\* A control without a join handle is pending, or some command is joining it.
Handles ==
  \A t \in Tasks : downloads[t] # NoWorker /\ ~held[t] =>
    \/ dispTask = t /\ dispPc \in {"transition", "spawn", "setHandle"}
    \/ \E u \in Users : cmdTask[u] = t /\ cmdPc[u] = "drain"

\* The count of a dispatch pass is never below the slots in use.
Count ==
  /\ dispPc \in {"page", "lock", "reserve", "startFailed"} => active < MaxActive
  /\ dispPc \in {"page", "pick", "lock", "reserve", "startFailed"} =>
       Cardinality(ActiveTasks) <= active
  /\ dispPc \in {"transition", "spawn", "setHandle"} =>
       active < MaxActive /\ Cardinality(ActiveTasks) <= active + 1
  /\ ActiveBound

\* A run that is about to release its slot has no live row left.
Converged ==
  /\ \A w \in Workers :
       LET t == supTask[w] IN
       /\ supPc[w] = "release" => status[t] \notin LiveStatuses
       /\ supPc[w] = "observe" /\ supResult[w] = "ok"
            => status[t] \notin LiveStatuses \/ cancelled[w]
       /\ supPc[w] = "converge" /\ supResult[w] = "ok"
            => status[t] \notin LiveStatuses \/ supCanceled[w]
  /\ dispPc = "transition" => status[dispTask] \notin LiveStatuses
  /\ LiveRowHasOwner

----
(* What the steps leave alone.                                               *)

\* A supervisor touches no lock, no dispatch pass and no command.
LEMMA SupervisorFrame ==
  ASSUME NEW w \in Workers, SupervisorStep(w) \/ EngineStep(w) \/ EngineEnd(w)
  PROVE  UNCHANGED <<taskLock, dispVars, cmdVars>>
  BY DEF SupervisorStep, EngineStep, EngineEnd, SupPrepare, SupPrepareResync,
     SupPrepareBlocked, SupFailEarly, SupEngineStart, SupRetrying, SupCheckpoint,
     SupComplete, SupFail, SupCancelExit, SupObserve, SupConverge, SupRelease, SupTail,
     SupUnchanged

\* A command touches no supervisor and no dispatch pass.
LEMMA CommandFrame ==
  ASSUME NEW u \in Users, CmdLock(u) \/ CommandStep(u)
  PROVE  UNCHANGED <<runVars, dispVars>>
  BY DEF CommandStep, CmdLock, CmdRefuse, CmdProceed, CmdCancelToken, CmdJoined,
     CmdDrainTimeout, ApplyPause, ApplyCancel, ApplyRetry, ApplyResume, ApplyRecover,
     ApplyRestart, ApplyDelete, ApplyRejected, CmdUnchanged, Return, LeaveCommand, Finish

\* After it entered, a command returns, or keeps its lock, its task and its kind.
LEMMA CommandLeaves ==
  ASSUME NEW u \in Users, CommandStep(u)
  PROVE  /\ cmdPc[u] \in {"enter", "drain", "apply"}
         /\ \/ LeaveCommand(u)
            \/ /\ UNCHANGED <<taskLock, cmdTask, cmdKind>>
               /\ \E pc \in {"drain", "apply"} : cmdPc' = [cmdPc EXCEPT ![u] = pc]
<1> USE DEF CmdUnchanged, Return, Finish, Applying
<1>1. CASE CmdRefuse(u) \/ CmdProceed(u) \/ CmdJoined(u)
  BY <1>1 DEF CmdRefuse, CmdProceed, CmdJoined
<1>2. CASE CmdCancelToken(u)
  BY <1>2 DEF CmdCancelToken
<1>3. CASE CmdDrainTimeout(u)
  BY <1>3 DEF CmdDrainTimeout
<1>4. CASE \/ ApplyPause(u) \/ ApplyCancel(u) \/ ApplyRetry(u) \/ ApplyResume(u)
           \/ ApplyRecover(u) \/ ApplyRestart(u) \/ ApplyDelete(u) \/ ApplyRejected(u)
  BY <1>4 DEF ApplyPause, ApplyCancel, ApplyRetry, ApplyResume, ApplyRecover,
     ApplyRestart, ApplyDelete, ApplyRejected
<1>5. QED
  BY <1>1, <1>2, <1>3, <1>4 DEF CommandStep

----
(* The locks.                                                                *)

\* At the start no task lock is held and nobody needs one.
LEMMA LocksInit == Init => Locks
  BY DEF Init, Locks

\* Every step keeps the task locks in step with their holders.
LEMMA LocksNext == TypeInv /\ Locks /\ [Next]_vars => Locks'
<1> SUFFICES ASSUME TypeInv, Locks, [Next]_vars PROVE Locks'
  OBVIOUS
<1> USE SchedulerAssumption DEF TypeInv, TypeOK, CommandHasTask, Locks
<1>1. CASE DispatchStep
  BY <1>1 DEF DispatchStep, DispatchBegin, DispatchPage, DispatchPick, DispatchEnd,
     StartLock, StartUnresolved, StartAlreadyActive, StartReserve, StartTransition,
     StartTransitionFailed, StartSpawn, StartSetHandle, StartFailed, LeaveStart
<1>2. ASSUME NEW w \in Workers, SupervisorStep(w) \/ EngineStep(w) \/ EngineEnd(w)
      PROVE  Locks'
  BY <1>2, SupervisorFrame
<1>3. ASSUME NEW u \in Users, CmdLock(u)
      PROVE  Locks'
  BY <1>3 DEF CmdLock, CmdUnchanged
<1>4. ASSUME NEW u \in Users, CommandStep(u)
      PROVE  Locks'
  <2>1. UNCHANGED dispVars
    BY <1>4, CommandFrame
  <2>2. CASE LeaveCommand(u)
    <3>1. cmdTask[u] \in Tasks /\ taskLock[cmdTask[u]] = u
      BY <1>4, CommandLeaves
    <3>2. /\ taskLock' = [taskLock EXCEPT ![cmdTask[u]] = Free]
          /\ cmdPc' = [cmdPc EXCEPT ![u] = "idle"]
          /\ cmdTask' = [cmdTask EXCEPT ![u] = NoTask]
      BY <2>2 DEF LeaveCommand
    <3>3. ASSUME NEW v \in Users, cmdPc'[v] \in {"enter", "drain", "apply"}
          PROVE  taskLock'[cmdTask'[v]] = v
      BY <3>1, <3>2, <3>3
    <3>4. QED
      BY <2>1, <3>1, <3>2, <3>3
  <2>3. CASE /\ UNCHANGED <<taskLock, cmdTask>>
             /\ \E pc \in {"drain", "apply"} : cmdPc' = [cmdPc EXCEPT ![u] = pc]
    BY <1>4, <2>1, <2>3, CommandLeaves
  <2>4. QED
    BY <1>4, <2>2, <2>3, CommandLeaves
<1>5. ASSUME NEW u \in Users, NEW k \in CmdKinds, NEW t \in Tasks, CmdIssue(u, k, t)
      PROVE  Locks'
  BY <1>5 DEF CmdIssue
<1>6. ASSUME NEW t \in Tasks, RetryDue(t)
      PROVE  Locks'
  BY <1>6 DEF RetryDue
<1>7. CASE WatcherDispatch
  BY <1>7 DEF WatcherDispatch
<1>8. CASE Crash
  BY <1>8 DEF Crash
<1>9. CASE UNCHANGED vars
  BY <1>9 DEF vars
<1>10. QED
  BY <1>1, <1>2, <1>3, <1>4, <1>5, <1>6, <1>7, <1>8, <1>9 DEF Next

\* The task locks agree with their holders in every reachable state.
LEMMA AlwaysLocks == Spec => []Locks
  BY AlwaysTypeInv, LocksInit, LocksNext, PTL DEF Spec

----
(* The slots.                                                                *)

\* At the start no slot is reserved and no supervisor runs.
LEMMA SlotsInit == Init => Slots
  BY DEF Init, Slots, Registry, Pending, Drained, Owning, Draining, DrainingKinds

\* Every step of a run but the last two keeps its slot and stays the owner.
LEMMA SupervisorKeeps ==
  ASSUME TypeInv, NEW w \in Workers, SupervisorStep(w) \/ EngineStep(w) \/ EngineEnd(w)
  PROVE  \/ SupRelease(w)
         \/ SupTail(w)
         \/ /\ UNCHANGED <<downloads, held, cancelled, supTask>>
            /\ supPc[w] \in Owning \ {"reserved"}
            /\ \E pc \in Owning \ {"reserved"} : supPc' = [supPc EXCEPT ![w] = pc]
  BY DEF SupervisorStep, EngineStep, EngineEnd, SupPrepare, SupPrepareResync,
     SupPrepareBlocked, SupFailEarly, SupEngineStart, SupRetrying, SupCheckpoint,
     SupComplete, SupFail, SupCancelExit, SupObserve, SupConverge, SupUnchanged, GoTo,
     Owning, TypeInv, TypeOK

\* The dispatch pass keeps the slot invariant: a reservation goes to an idle supervisor.
LEMMA SlotsDispatch ==
  ASSUME TypeInv, Locks, Slots, DispatchStep
  PROVE  Slots'
<1> USE SchedulerAssumption DEF TypeInv, TypeOK, CommandHasTask, Locks, Slots, Registry,
        Pending, Drained, Draining, LeaveStart
<1>1. CASE \/ DispatchBegin \/ DispatchPage \/ DispatchEnd \/ StartLock
           \/ StartUnresolved \/ StartAlreadyActive \/ StartTransition \/ StartSetHandle
           \/ StartFailed \/ \E t \in Tasks : DispatchPick(t)
  BY <1>1 DEF DispatchBegin, DispatchPage, DispatchPick, DispatchEnd, StartLock,
     StartUnresolved, StartAlreadyActive, StartTransition, StartSetHandle, StartFailed
<1>2. ASSUME NEW w \in Workers, StartReserve(w) PROVE Slots'
  <2>1. Registry'
    BY <1>2 DEF StartReserve, Owning
  <2>2. Pending'
    BY <1>2 DEF StartReserve
  <2>3. \A u \in Users : cmdPc[u] \in {"drain", "apply"} => cmdTask[u] # dispTask
    BY <1>2 DEF StartReserve
  <2>4. Drained'
    BY <1>2, <2>3 DEF StartReserve
  <2>5. QED
    BY <2>1, <2>2, <2>4
<1>3. CASE StartTransitionFailed
  <2>1. Registry'
    BY <1>3 DEF StartTransitionFailed, Owning
  <2>2. Pending'
    BY <1>3 DEF StartTransitionFailed, Owning
  <2>3. Drained'
    BY <1>3 DEF StartTransitionFailed
  <2>4. QED
    BY <2>1, <2>2, <2>3
<1>4. CASE StartSpawn
  <2>1. Registry'
    BY <1>4 DEF StartSpawn, Owning
  <2>2. Pending'
    BY <1>4 DEF StartSpawn, Owning
  <2>3. Drained'
    BY <1>4 DEF StartSpawn
  <2>4. QED
    BY <2>1, <2>2, <2>3
<1>5. QED
  BY <1>1, <1>2, <1>3, <1>4 DEF DispatchStep

\* A supervisor keeps the slot invariant: it releases its slot only when it stops writing.
LEMMA SlotsSupervisor ==
  ASSUME TypeInv, Locks, Slots,
         NEW w \in Workers, SupervisorStep(w) \/ EngineStep(w) \/ EngineEnd(w)
  PROVE  Slots'
<1> USE SchedulerAssumption DEF TypeInv, TypeOK, CommandHasTask, Locks, Slots, Registry,
        Pending, Drained, Draining
<1>1. UNCHANGED <<taskLock, dispVars, cmdVars>>
  BY SupervisorFrame
<1>2. CASE SupRelease(w)
  BY <1>1, <1>2 DEF SupRelease, GoTo, Owning
<1>3. CASE SupTail(w)
  BY <1>1, <1>3 DEF SupTail, GoTo, Owning
<1>4. CASE /\ UNCHANGED <<downloads, supTask>>
           /\ supPc[w] \in Owning \ {"reserved"}
           /\ \E pc \in Owning \ {"reserved"} : supPc' = [supPc EXCEPT ![w] = pc]
  BY <1>1, <1>4
<1>5. QED
  BY <1>2, <1>3, <1>4, SupervisorKeeps

\* A command keeps the slot invariant: it frees a slot only of a run that it joined.
LEMMA SlotsCommand ==
  ASSUME TypeInv, Locks, Slots, NEW u \in Users, CmdLock(u) \/ CommandStep(u)
  PROVE  Slots' /\ UNCHANGED downloads
<1> USE SchedulerAssumption DEF TypeInv, TypeOK, CommandHasTask, Locks, Slots, Registry,
        Pending, Drained, Draining
<1>1. UNCHANGED <<runVars, dispVars>>
  BY CommandFrame
<1>2. CASE CmdLock(u)
  BY <1>1, <1>2 DEF CmdLock, CmdUnchanged
<1>3. CASE CmdProceed(u)
  BY <1>1, <1>3 DEF CmdProceed, CmdUnchanged
<1>4. CASE CmdCancelToken(u)
  BY <1>1, <1>4 DEF CmdCancelToken, CmdUnchanged, Return, LeaveCommand
<1>5. CASE CmdJoined(u)
  \* The slot was released before the handle became ready.
  <2>1. downloads[cmdTask[u]] = NoWorker
    BY <1>5 DEF CmdJoined, JoinReady
  <2>2. UNCHANGED downloads
    BY <1>5, <2>1 DEF CmdJoined
  <2>3. QED
    BY <1>1, <1>5, <2>1, <2>2 DEF CmdJoined, CmdUnchanged
<1>6. CASE CmdDrainTimeout(u)
  BY <1>1, <1>6 DEF CmdDrainTimeout, CmdUnchanged, Return, LeaveCommand
<1>7. CASE \/ CmdRefuse(u) \/ ApplyPause(u) \/ ApplyCancel(u) \/ ApplyRetry(u)
           \/ ApplyResume(u) \/ ApplyRecover(u) \/ ApplyRestart(u) \/ ApplyDelete(u)
           \/ ApplyRejected(u)
  <2>1. LeaveCommand(u) /\ UNCHANGED downloads
    BY <1>7 DEF CmdRefuse, ApplyPause, ApplyCancel, ApplyRetry, ApplyResume,
       ApplyRecover, ApplyRestart, ApplyDelete, ApplyRejected, Return, Finish
  <2>2. QED
    BY <1>1, <2>1 DEF LeaveCommand
<1>8. QED
  BY <1>2, <1>3, <1>4, <1>5, <1>6, <1>7 DEF CommandStep

\* Every step keeps the slot invariant.
LEMMA SlotsNext == TypeInv /\ Locks /\ Slots /\ [Next]_vars => Slots'
<1> SUFFICES ASSUME TypeInv, Locks, Slots, [Next]_vars PROVE Slots'
  OBVIOUS
<1>1. CASE DispatchStep
  BY <1>1, SlotsDispatch
<1>2. ASSUME NEW w \in Workers, SupervisorStep(w) \/ EngineStep(w) \/ EngineEnd(w)
      PROVE  Slots'
  BY <1>2, SlotsSupervisor
<1>3. ASSUME NEW u \in Users, CmdLock(u) \/ CommandStep(u)
      PROVE  Slots'
  BY <1>3, SlotsCommand
<1> USE SchedulerAssumption DEF TypeInv, TypeOK, Slots, Registry, Pending, Drained, Draining
<1>4. ASSUME NEW u \in Users, NEW k \in CmdKinds, NEW t \in Tasks, CmdIssue(u, k, t)
      PROVE  Slots'
  BY <1>4 DEF CmdIssue
<1>5. ASSUME NEW t \in Tasks, RetryDue(t)
      PROVE  Slots'
  BY <1>5 DEF RetryDue
<1>6. CASE WatcherDispatch
  BY <1>6 DEF WatcherDispatch
<1>7. CASE Crash
  BY <1>7 DEF Crash, Owning
<1>8. CASE UNCHANGED vars
  BY <1>8 DEF vars
<1>9. QED
  BY <1>1, <1>2, <1>3, <1>4, <1>5, <1>6, <1>7, <1>8 DEF Next

\* The slot invariant holds in every reachable state.
LEMMA AlwaysSlots == Spec => []Slots
  BY AlwaysTypeInv, AlwaysLocks, SlotsInit, SlotsNext, PTL DEF Spec

\* However convergence, commands and dispatch interleave, two runs never own the
\* same task.
THEOREM OneOwnerAlways == Spec => []OneOwner
<1>1. Slots => OneOwner
  BY DEF Slots, Registry, OneOwner
<1>2. QED
  BY AlwaysSlots, <1>1, PTL

\* A command that stops a task writes its row or removes its files only after
\* the last run of the task gave up its slot.
THEOREM StopIsQuietAlways == Spec => []StopIsQuiet
<1>1. Slots /\ TypeInv => StopIsQuiet
  BY SchedulerAssumption DEF Slots, Registry, Drained, StopIsQuiet, TypeInv, TypeOK,
     CommandHasTask
<1>2. QED
  BY AlwaysSlots, AlwaysTypeInv, <1>1, PTL

----
(* The join handles.                                                         *)

\* At the start no control exists, so no join handle is missing.
LEMMA HandlesInit == Init => Handles
  BY DEF Init, Handles

\* Every step keeps the join handle where a later stop can find it.
LEMMA HandlesNext == TypeInv /\ Locks /\ Slots /\ Handles /\ [Next]_vars => Handles'
<1> SUFFICES ASSUME TypeInv, Locks, Slots, Handles, [Next]_vars PROVE Handles'
  OBVIOUS
<1> USE SchedulerAssumption DEF TypeInv, TypeOK, CommandHasTask, Locks, Handles
<1>1. CASE \/ DispatchBegin \/ DispatchPage \/ DispatchEnd \/ StartLock
           \/ StartUnresolved \/ StartAlreadyActive \/ StartTransition \/ StartSpawn
           \/ StartFailed \/ \E t \in Tasks : DispatchPick(t)
  BY <1>1 DEF DispatchBegin, DispatchPage, DispatchPick, DispatchEnd, StartLock,
     StartUnresolved, StartAlreadyActive, StartTransition, StartSpawn, StartFailed, LeaveStart
<1>2. ASSUME NEW w \in Workers, StartReserve(w) PROVE Handles'
  BY <1>2 DEF StartReserve
<1>3. CASE StartTransitionFailed
  BY <1>3 DEF StartTransitionFailed, LeaveStart
<1>4. CASE StartSetHandle
  BY <1>4 DEF StartSetHandle, LeaveStart
<1>5. ASSUME NEW w \in Workers, SupervisorStep(w) \/ EngineStep(w) \/ EngineEnd(w)
      PROVE  Handles'
  <2>1. UNCHANGED <<taskLock, dispVars, cmdVars>>
    BY <1>5, SupervisorFrame
  <2>2. CASE SupRelease(w)
    BY <2>1, <2>2 DEF SupRelease
  <2>3. CASE UNCHANGED <<downloads, held>>
    BY <2>1, <2>3
  <2>4. QED
    BY <1>5, <2>2, <2>3, SupervisorKeeps DEF SupTail
<1>6. ASSUME NEW u \in Users, CmdLock(u) \/ CommandStep(u)
      PROVE  Handles'
  <2>1. UNCHANGED <<runVars, dispVars, downloads>>
    BY <1>6, CommandFrame, SlotsCommand
  <2>2. CASE CmdLock(u)
    BY <2>1, <2>2 DEF CmdLock, CmdUnchanged
  <2>3. CASE CmdProceed(u)
    BY <2>1, <2>3 DEF CmdProceed, CmdUnchanged
  <2>4. CASE CmdCancelToken(u)
    BY <2>1, <2>4 DEF CmdCancelToken, CmdUnchanged, Return, LeaveCommand
  <2>5. CASE CmdJoined(u)
    <3>1. downloads[cmdTask[u]] = NoWorker
      BY <2>5 DEF CmdJoined, JoinReady, Slots, Registry, Drained
    <3>2. QED
      BY <2>1, <2>5, <3>1 DEF CmdJoined, CmdUnchanged
  <2>6. CASE CmdDrainTimeout(u)
    BY <2>1, <2>6 DEF CmdDrainTimeout, CmdUnchanged, Return, LeaveCommand
  <2>7. CASE \/ CmdRefuse(u) \/ ApplyPause(u) \/ ApplyCancel(u) \/ ApplyRetry(u)
             \/ ApplyResume(u) \/ ApplyRecover(u) \/ ApplyRestart(u) \/ ApplyDelete(u)
             \/ ApplyRejected(u)
    <3>1. LeaveCommand(u) /\ UNCHANGED held /\ cmdPc[u] # "drain"
      BY <2>7 DEF CmdRefuse, ApplyPause, ApplyCancel, ApplyRetry, ApplyResume,
         ApplyRecover, ApplyRestart, ApplyDelete, ApplyRejected, Return, Finish, Applying
    <3>2. QED
      BY <2>1, <3>1 DEF LeaveCommand
  <2>8. QED
    BY <1>6, <2>2, <2>3, <2>4, <2>5, <2>6, <2>7 DEF CommandStep
<1>7. ASSUME NEW u \in Users, NEW k \in CmdKinds, NEW t \in Tasks, CmdIssue(u, k, t)
      PROVE  Handles'
  BY <1>7 DEF CmdIssue
<1>8. ASSUME NEW t \in Tasks, RetryDue(t)
      PROVE  Handles'
  BY <1>8 DEF RetryDue
<1>9. CASE WatcherDispatch
  BY <1>9 DEF WatcherDispatch
<1>10. CASE Crash
  BY <1>10 DEF Crash
<1>11. CASE UNCHANGED vars
  BY <1>11 DEF vars
<1>12. QED
  BY <1>1, <1>2, <1>3, <1>4, <1>5, <1>6, <1>7, <1>8, <1>9, <1>10, <1>11
     DEF Next, DispatchStep

\* The join handles are where they belong in every reachable state.
LEMMA AlwaysHandles == Spec => []Handles
  BY AlwaysTypeInv, AlwaysLocks, AlwaysSlots, HandlesInit, HandlesNext, PTL DEF Spec

\* A command never meets a control without its join handle, so its answer that a
\* stop is still pending is out of reach of every command that takes the task lock.
THEOREM StopFindsHandleAlways == Spec => []StopFindsHandle
<1>1. TypeInv /\ Locks /\ Handles => StopFindsHandle
  BY SchedulerAssumption DEF TypeInv, TypeOK, CommandHasTask, Locks, Handles, StopFindsHandle
<1>2. QED
  BY AlwaysTypeInv, AlwaysLocks, AlwaysHandles, <1>1, PTL

----
(* The slot count.                                                           *)

\* The set of reserved tasks is finite, so counting it gives a natural number.
LEMMA ActiveFinite == IsFiniteSet(ActiveTasks) /\ Cardinality(ActiveTasks) \in Nat
<1>1. IsFiniteSet(ActiveTasks)
  BY SchedulerAssumption, FS_Subset DEF ActiveTasks
<1>2. QED
  BY <1>1, FS_CardinalityType

\* No slot is reserved at the start, and none is counted.
LEMMA CountInit == Init => Count
<1> SUFFICES ASSUME Init PROVE Count
  OBVIOUS
<1>1. ActiveTasks = {}
  BY DEF Init, ActiveTasks
<1>2. Cardinality(ActiveTasks) = 0
  BY <1>1, FS_EmptySet
<1>3. QED
  BY <1>2, SchedulerAssumption DEF Init, Count, ActiveBound

\* Every step keeps the reserved slots within what the dispatch pass has counted.
LEMMA CountNext == TypeInv /\ Locks /\ Slots /\ Count /\ [Next]_vars => Count'
<1> SUFFICES ASSUME TypeInv, Locks, Slots, Count, [Next]_vars PROVE Count'
  OBVIOUS
<1> USE SchedulerAssumption DEF TypeInv, TypeOK, Count, ActiveBound
<1> DEFINE n == Cardinality(ActiveTasks)
<1>1. IsFiniteSet(ActiveTasks) /\ n \in Nat
  BY ActiveFinite
<1>2. ASSUME NEW w \in Workers, StartReserve(w) PROVE Count'
  <2>1. ActiveTasks' = ActiveTasks \cup {dispTask}
    BY <1>2 DEF StartReserve, ActiveTasks, Locks
  <2>2. dispTask \notin ActiveTasks
    BY <1>2 DEF StartReserve, ActiveTasks
  <2>3. n' = n + 1
    BY <1>1, <2>1, <2>2, FS_AddElement
  <2>4. QED
    BY <1>1, <1>2, <2>3 DEF StartReserve
<1>3. CASE StartTransitionFailed
  <2>1. ActiveTasks' = ActiveTasks \ {dispTask}
    BY <1>3 DEF StartTransitionFailed, ActiveTasks, Locks
  <2>2. dispTask \in ActiveTasks
    BY <1>3 DEF StartTransitionFailed, ActiveTasks, Locks, Slots, Pending
  <2>3. n' = n - 1
    BY <1>1, <2>1, <2>2, FS_RemoveElement
  <2>4. QED
    BY <1>1, <1>3, <2>3 DEF StartTransitionFailed, LeaveStart
<1>4. ASSUME \/ DispatchBegin \/ DispatchPage \/ DispatchEnd \/ StartLock
             \/ StartUnresolved \/ StartAlreadyActive \/ StartTransition \/ StartSpawn
             \/ StartSetHandle \/ StartFailed \/ \E t \in Tasks : DispatchPick(t)
      PROVE  Count'
  <2>1. n' = n
    <3>1. UNCHANGED downloads
      BY <1>4 DEF DispatchBegin, DispatchPage, DispatchPick, DispatchEnd, StartLock,
         StartUnresolved, StartAlreadyActive, StartTransition, StartSpawn, StartSetHandle,
         StartFailed
    <3>2. QED
      BY <3>1 DEF ActiveTasks
  <2> HIDE DEF n
  <2>2. Count' <=> /\ dispPc' \in {"page", "lock", "reserve", "startFailed"}
                        => active' < MaxActive
                   /\ dispPc' \in {"page", "pick", "lock", "reserve", "startFailed"}
                        => n' <= active'
                   /\ dispPc' \in {"transition", "spawn", "setHandle"}
                        => active' < MaxActive /\ n' <= active' + 1
                   /\ n' <= MaxActive
    BY DEF n
  <2>3. CASE DispatchBegin
    BY <1>1, <2>1, <2>2, <2>3 DEF DispatchBegin, n
  <2>4. CASE \/ DispatchPage \/ DispatchEnd \/ StartLock \/ StartUnresolved
             \/ StartAlreadyActive
    BY <1>1, <2>1, <2>2, <2>4 DEF DispatchPage, DispatchEnd, StartLock, StartUnresolved,
       StartAlreadyActive, LeaveStart, n
  <2>5. CASE \/ StartTransition \/ StartSpawn \/ StartSetHandle \/ StartFailed
             \/ \E t \in Tasks : DispatchPick(t)
    BY <1>1, <2>1, <2>2, <2>5 DEF StartTransition, StartSpawn, StartSetHandle, StartFailed,
       DispatchPick, LeaveStart, n
  <2>6. QED
    BY <1>4, <2>3, <2>4, <2>5
<1>5. ASSUME UNCHANGED dispVars, ActiveTasks' \subseteq ActiveTasks PROVE Count'
  <2>1. n' \in Nat /\ n' <= n
    BY <1>1, <1>5, FS_Subset, FS_CardinalityType
  <2>2. QED
    BY <1>1, <1>5, <2>1
<1>6. ASSUME NEW w \in Workers, SupervisorStep(w) \/ EngineStep(w) \/ EngineEnd(w)
      PROVE  Count'
  <2>1. UNCHANGED dispVars
    BY <1>6, SupervisorFrame
  <2>2. ActiveTasks' \subseteq ActiveTasks
    <3>1. CASE SupRelease(w)
      BY <3>1 DEF SupRelease, ActiveTasks
    <3>2. CASE UNCHANGED downloads
      BY <3>2 DEF ActiveTasks
    <3>3. QED
      BY <1>6, <3>1, <3>2, SupervisorKeeps DEF SupTail
  <2>3. QED
    BY <1>5, <2>1, <2>2
<1>7. ASSUME NEW u \in Users, CmdLock(u) \/ CommandStep(u)
      PROVE  Count'
  <2>1. UNCHANGED <<dispVars, downloads>>
    BY <1>7, CommandFrame, SlotsCommand
  <2>2. QED
    BY <1>5, <2>1 DEF ActiveTasks
<1>8. ASSUME \/ \E u \in Users, k \in CmdKinds, t \in Tasks : CmdIssue(u, k, t)
             \/ \E t \in Tasks : RetryDue(t)
             \/ WatcherDispatch
             \/ UNCHANGED vars
      PROVE  Count'
  BY <1>5, <1>8 DEF CmdIssue, RetryDue, WatcherDispatch, vars, ActiveTasks
<1>9. CASE Crash
  <2>1. ActiveTasks' = {}
    BY <1>9 DEF Crash, ActiveTasks
  <2>2. n' = 0
    BY <2>1, FS_EmptySet
  <2>3. QED
    BY <1>9, <2>2 DEF Crash
<1>10. ASSUME DispatchStep PROVE Count'
  BY <1>2, <1>3, <1>4, <1>10 DEF DispatchStep
<1>11. QED
  BY <1>6, <1>7, <1>8, <1>9, <1>10 DEF Next

\* The count of the dispatch pass bounds the slots in every reachable state.
LEMMA AlwaysCount == Spec => []Count
  BY AlwaysTypeInv, AlwaysLocks, AlwaysSlots, CountInit, CountNext, PTL DEF Spec

\* Although a pass counts the slots once and then works on, while runs end and
\* their slots are released under it, max_active_tasks is never exceeded.
THEOREM ActiveBoundAlways == Spec => []ActiveBound
<1>1. Count => ActiveBound
  BY DEF Count
<1>2. QED
  BY AlwaysCount, <1>1, PTL

----
(* Convergence.                                                              *)

\* A command makes no row live, and takes back no cancellation.
LEMMA CommandQuietens ==
  ASSUME TypeInv, NEW u \in Users, CmdLock(u) \/ CommandStep(u)
  PROVE  /\ \A t \in Tasks : status'[t] \in LiveStatuses => status'[t] = status[t]
         /\ \A w \in Workers : cancelled[w] => cancelled'[w]
<1> USE DEF TypeInv, TypeOK, SetRow, Return, LeaveCommand, Finish, CmdUnchanged, LiveStatuses
<1>1. CASE CmdLock(u) \/ CmdRefuse(u) \/ CmdProceed(u) \/ CmdJoined(u)
  BY <1>1 DEF CmdLock, CmdRefuse, CmdProceed, CmdJoined
<1>2. CASE CmdCancelToken(u)
  BY <1>2 DEF CmdCancelToken
<1>3. CASE CmdDrainTimeout(u)
  BY <1>3 DEF CmdDrainTimeout
<1>4. CASE ApplyPause(u) \/ ApplyCancel(u) \/ ApplyRetry(u) \/ ApplyResume(u)
  BY <1>4 DEF ApplyPause, ApplyCancel, ApplyRetry, ApplyResume
<1>5. CASE ApplyRecover(u) \/ ApplyRestart(u)
  BY <1>5 DEF ApplyRecover, ApplyRestart
<1>6. CASE ApplyDelete(u) \/ ApplyRejected(u)
  BY <1>6 DEF ApplyDelete, ApplyRejected
<1>7. QED
  BY <1>1, <1>2, <1>3, <1>4, <1>5, <1>6 DEF CommandStep

\* The two conjuncts about a run, for one run.
RunConverged(w) ==
  /\ supPc[w] = "release" => status[supTask[w]] \notin LiveStatuses
  /\ supPc[w] = "observe" /\ supResult[w] = "ok"
       => status[supTask[w]] \notin LiveStatuses \/ cancelled[w]
  /\ supPc[w] = "converge" /\ supResult[w] = "ok"
       => status[supTask[w]] \notin LiveStatuses \/ supCanceled[w]

\* The convergence invariant, stated run by run.
LEMMA ConvergedByRun ==
  Converged <=> /\ \A w \in Workers : RunConverged(w)
                /\ dispPc = "transition" => status[dispTask] \notin LiveStatuses
                /\ LiveRowHasOwner
  BY DEF Converged, RunConverged

\* No row is live at the start.
LEMMA ConvergedInit == Init => Converged
  BY DEF Init, Converged, LiveRowHasOwner, LiveStatuses

\* The run itself keeps its promise, and writes no other row.
LEMMA RunStep ==
  ASSUME TypeInv, Slots, Converged,
         NEW w \in Workers, SupervisorStep(w) \/ EngineStep(w) \/ EngineEnd(w)
  PROVE  /\ RunConverged(w)'
         /\ \A t \in Tasks : t # supTask[w] => status'[t] = status[t]
         /\ supPc[w] # "tail" => supPc[w] \in Owning
         /\ supPc[w] \in {"release", "tail"} => status' = status
         /\ \A v \in Workers : v # w =>
              /\ supPc'[v] = supPc[v] /\ supTask'[v] = supTask[v]
              /\ supResult'[v] = supResult[v] /\ supCanceled'[v] = supCanceled[v]
              /\ cancelled'[v] = cancelled[v]
<1> USE DEF TypeInv, TypeOK, Slots, Registry, Owning, Converged, RunConverged, SetRow,
        SetStatus, GoTo, SupUnchanged, LiveStatuses
<1>1. CASE SupPrepare(w)
  BY <1>1 DEF SupPrepare
<1>2. CASE SupPrepareResync(w)
  BY <1>2 DEF SupPrepareResync
<1>3. CASE SupPrepareBlocked(w)
  BY <1>3 DEF SupPrepareBlocked
<1>4. CASE SupFailEarly(w)
  BY <1>4 DEF SupFailEarly
<1>5. CASE SupEngineStart(w)
  BY <1>5 DEF SupEngineStart
<1>6. CASE SupRetrying(w)
  BY <1>6 DEF SupRetrying
<1>7. CASE SupCheckpoint(w)
  BY <1>7 DEF SupCheckpoint
<1>8. CASE SupComplete(w)
  BY <1>8 DEF SupComplete
<1>9. CASE SupFail(w)
  BY <1>9 DEF SupFail
<1>10. CASE SupCancelExit(w)
  BY <1>10 DEF SupCancelExit
<1>11. CASE SupObserve(w)
  BY <1>11 DEF SupObserve
<1>12. CASE SupConverge(w)
  <2>1. CASE supCanceled[w] /\ ConvergeCanceled(supTask[w])
    BY <1>12, <2>1 DEF SupConverge, ConvergeCanceled
  <2>2. CASE supResult[w] = "retryable" /\ ScheduleAutoRetry(supTask[w])
    BY <1>12, <2>2 DEF SupConverge, ScheduleAutoRetry, AutoRetryFrom
  <2>3. CASE supResult[w] = "fatal" /\ PersistFailure(supTask[w], LiveStatuses)
    BY <1>12, <2>3 DEF SupConverge, PersistFailure
  <2>4. CASE /\ ~supCanceled[w]
             /\ supResult[w] = "ok"
             /\ SetRow(supTask[w], status[supTask[w]], retryAt[supTask[w]], 0)
    BY <1>12, <2>4 DEF SupConverge
  <2>5. QED
    BY <1>12, <2>1, <2>2, <2>3, <2>4 DEF SupConverge
<1>13. CASE SupRelease(w)
  BY <1>13 DEF SupRelease
<1>14. CASE SupTail(w)
  BY <1>14 DEF SupTail
<1>15. QED
  BY <1>1, <1>2, <1>3, <1>4, <1>5, <1>6, <1>7, <1>8, <1>9, <1>10, <1>11, <1>12, <1>13,
     <1>14 DEF SupervisorStep, EngineStep, EngineEnd

\* A supervisor gives up its slot only after its row has left the live statuses.
LEMMA ConvergedSupervisor ==
  ASSUME TypeInv, Locks, Slots, Converged,
         NEW w \in Workers, SupervisorStep(w) \/ EngineStep(w) \/ EngineEnd(w)
  PROVE  Converged'
<1> USE SchedulerAssumption DEF TypeInv, TypeOK, Slots, Registry
<1>1. UNCHANGED <<taskLock, dispVars, cmdVars>>
  BY SupervisorFrame
<1>2. \A t \in Tasks : status'[t] # status[t] => t = supTask[w] /\ supPc[w] \in Owning
  BY RunStep
<1>3. ASSUME NEW v \in Workers PROVE RunConverged(v)'
  <2>1. CASE v = w
    BY <2>1, RunStep
  <2>2. CASE v # w
    <3>1. RunConverged(v)
      BY ConvergedByRun
    <3>2. supPc[v] \in {"release", "observe", "converge"}
            => status'[supTask[v]] = status[supTask[v]]
      BY <1>2, <2>2 DEF Owning
    <3>3. QED
      BY <2>2, <3>1, <3>2, RunStep DEF RunConverged
  <2>3. QED
    BY <2>1, <2>2
<1>4. dispPc' = "transition" => status'[dispTask'] \notin LiveStatuses
  <2>1. SUFFICES ASSUME dispPc = "transition" PROVE status'[dispTask] \notin LiveStatuses
    BY <1>1
  <2>2. dispTask # supTask[w] \/ supPc[w] \notin Owning
    <3>1. supPc[w] # "reserved"
      BY DEF SupervisorStep, EngineStep, EngineEnd, SupPrepare, SupPrepareResync,
         SupPrepareBlocked, SupFailEarly, SupEngineStart, SupRetrying, SupCheckpoint,
         SupComplete, SupFail, SupCancelExit, SupObserve, SupConverge, SupRelease, SupTail
    <3>2. QED
      BY <2>1, <3>1 DEF Pending
  <2>3. dispTask \in Tasks
    BY <2>1 DEF Locks
  <2>4. QED
    BY <1>2, <2>1, <2>2, <2>3, ConvergedByRun
<1>5. LiveRowHasOwner'
  <2>1. SUFFICES ASSUME NEW t \in Tasks, status'[t] \in LiveStatuses
                 PROVE  downloads'[t] # NoWorker
    BY DEF LiveRowHasOwner
  <2>2. CASE SupRelease(w)
    <3>1. t # supTask[w]
      BY <2>1, <2>2, ConvergedByRun DEF SupRelease, RunConverged
    <3>2. QED
      BY <2>1, <2>2, <3>1, ConvergedByRun DEF SupRelease, LiveRowHasOwner
  <2>3. CASE UNCHANGED downloads
    BY <1>2, <2>1, <2>3, ConvergedByRun DEF LiveRowHasOwner
  <2>4. QED
    BY <2>2, <2>3, SupervisorKeeps DEF SupTail
<1>6. QED
  BY <1>3, <1>4, <1>5 DEF Converged, RunConverged

\* No command leaves a live row without a run.
LEMMA ConvergedCommand ==
  ASSUME TypeInv, Locks, Slots, Converged, NEW u \in Users, CmdLock(u) \/ CommandStep(u)
  PROVE  Converged'
<1> USE SchedulerAssumption DEF TypeInv, TypeOK
<1>1. UNCHANGED <<runVars, dispVars, downloads>>
  BY CommandFrame, SlotsCommand
<1>2. \A t \in Tasks : status'[t] \in LiveStatuses => status'[t] = status[t]
  BY CommandQuietens
<1>3. ASSUME NEW w \in Workers PROVE RunConverged(w)'
  <2>1. RunConverged(w)
    BY ConvergedByRun
  <2>2. supPc[w] \in {"release", "observe", "converge"} => supTask[w] \in Tasks
    BY DEF Slots, Registry, Owning
  <2>3. cancelled[w] => cancelled'[w]
    BY CommandQuietens
  <2>4. QED
    BY <1>1, <1>2, <2>1, <2>2, <2>3 DEF RunConverged
<1>4. dispPc' = "transition" => status'[dispTask'] \notin LiveStatuses
  BY <1>1, <1>2, ConvergedByRun DEF Locks
<1>5. LiveRowHasOwner'
  BY <1>1, <1>2, ConvergedByRun DEF LiveRowHasOwner
<1>6. QED
  BY <1>3, <1>4, <1>5 DEF Converged, RunConverged

\* The dispatcher makes a row live only after it reserved the slot.
LEMMA ConvergedDispatch ==
  ASSUME TypeInv, Locks, Slots, Converged, DispatchStep
  PROVE  Converged'
<1> USE SchedulerAssumption DEF TypeInv, TypeOK, Locks, SetRow, LeaveStart
<1>1. CASE \/ DispatchBegin \/ DispatchPage \/ DispatchEnd \/ StartLock
           \/ StartUnresolved \/ StartAlreadyActive \/ StartSetHandle
           \/ \E t \in Tasks : DispatchPick(t)
  <2>1. UNCHANGED <<status, supTask, supPc, supResult, supCanceled, cancelled, downloads>>
    BY <1>1 DEF DispatchBegin, DispatchPage, DispatchEnd, StartLock, StartUnresolved,
       StartAlreadyActive, StartSetHandle, DispatchPick
  <2>2. dispPc' # "transition"
    BY <1>1 DEF DispatchBegin, DispatchPage, DispatchEnd, StartLock, StartUnresolved,
       StartAlreadyActive, StartSetHandle, DispatchPick
  <2>3. QED
    BY <2>1, <2>2 DEF Converged, LiveRowHasOwner
<1>2. ASSUME NEW w \in Workers, StartReserve(w) PROVE Converged'
  BY <1>2 DEF StartReserve, Converged, LiveRowHasOwner
<1>3. CASE StartTransition
  <2>1. status' = [status EXCEPT ![dispTask] = "downloading"]
    BY <1>3 DEF StartTransition
  <2>2. UNCHANGED <<supTask, supPc, supResult, supCanceled, cancelled, downloads>>
    BY <1>3 DEF StartTransition
  <2>3. dispTask \in Tasks /\ downloads[dispTask] # NoWorker
    BY <1>3 DEF StartTransition, Slots, Pending
  <2>4. ASSUME NEW w \in Workers, supPc[w] \in {"release", "observe", "converge"}
        PROVE  supTask[w] # dispTask
    BY <1>3, <2>4 DEF StartTransition, Slots, Pending, Registry, Owning
  <2>5. QED
    BY <1>3, <2>1, <2>2, <2>3, <2>4 DEF Converged, LiveRowHasOwner, StartTransition
<1>4. CASE StartTransitionFailed
  BY <1>4 DEF StartTransitionFailed, Converged, LiveRowHasOwner
<1>5. CASE StartSpawn
  BY <1>5 DEF StartSpawn, Converged, LiveRowHasOwner
<1>6. CASE StartFailed
  <2>1. \A t \in Tasks : status'[t] \in LiveStatuses => status'[t] = status[t]
    BY <1>6 DEF StartFailed, PersistFailure, LiveStatuses
  <2>2. UNCHANGED <<supTask, supPc, supResult, supCanceled, cancelled, downloads>>
    BY <1>6 DEF StartFailed
  <2>3. ASSUME NEW w \in Workers PROVE RunConverged(w)'
    <3>1. RunConverged(w)
      BY ConvergedByRun
    <3>2. supPc[w] \in {"release", "observe", "converge"} => supTask[w] \in Tasks
      BY DEF Slots, Registry, Owning
    <3>3. QED
      BY <2>1, <2>2, <3>1, <3>2 DEF RunConverged
  <2>4. dispPc' = "pick"
    BY <1>6 DEF StartFailed
  <2>5. LiveRowHasOwner'
    BY <2>1, <2>2, ConvergedByRun DEF LiveRowHasOwner
  <2>6. QED
    BY <2>3, <2>4, <2>5 DEF Converged, RunConverged
<1>7. QED
  BY <1>1, <1>2, <1>3, <1>4, <1>5, <1>6 DEF DispatchStep

\* Every step keeps a live row owned.
LEMMA ConvergedNext ==
  TypeInv /\ Locks /\ Slots /\ Converged /\ [Next]_vars => Converged'
<1> SUFFICES ASSUME TypeInv, Locks, Slots, Converged, [Next]_vars PROVE Converged'
  OBVIOUS
<1>1. CASE DispatchStep
  BY <1>1, ConvergedDispatch
<1>2. ASSUME NEW w \in Workers, SupervisorStep(w) \/ EngineStep(w) \/ EngineEnd(w)
      PROVE  Converged'
  BY <1>2, ConvergedSupervisor
<1>3. ASSUME NEW u \in Users, CmdLock(u) \/ CommandStep(u)
      PROVE  Converged'
  BY <1>3, ConvergedCommand
<1>4. ASSUME NEW u \in Users, NEW k \in CmdKinds, NEW t \in Tasks, CmdIssue(u, k, t)
      PROVE  Converged'
  BY <1>4 DEF CmdIssue, Converged, LiveRowHasOwner
<1>5. ASSUME NEW t \in Tasks, RetryDue(t)
      PROVE  Converged'
  BY <1>5 DEF RetryDue, Converged, LiveRowHasOwner
<1>6. CASE WatcherDispatch
  BY <1>6 DEF WatcherDispatch, Converged, LiveRowHasOwner
<1>7. CASE Crash
  <2>1. \A t \in Tasks : status'[t] \notin LiveStatuses
    BY <1>7 DEF Crash, LiveStatuses
  <2>2. dispPc' = "idle" /\ \A w \in Workers : supPc'[w] = "exited"
    BY <1>7 DEF Crash
  <2>3. QED
    BY <2>1, <2>2 DEF Converged, LiveRowHasOwner
<1>8. CASE UNCHANGED vars
  BY <1>8 DEF vars, Converged, LiveRowHasOwner
<1>9. QED
  BY <1>1, <1>2, <1>3, <1>4, <1>5, <1>6, <1>7, <1>8 DEF Next

\* A live row is owned in every reachable state.
LEMMA AlwaysConverged == Spec => []Converged
  BY AlwaysTypeInv, AlwaysLocks, AlwaysSlots, ConvergedInit, ConvergedNext, PTL DEF Spec

\* No zombie row: whatever the order of convergence, release and commands, a row
\* that says downloading or retrying has a slot whose run will converge it.
THEOREM LiveRowHasOwnerAlways == Spec => []LiveRowHasOwner
<1>1. Converged => LiveRowHasOwner
  BY DEF Converged
<1>2. QED
  BY AlwaysConverged, <1>1, PTL

----
(* What a step may not do.                                                   *)

\* A command writes no row but that of its task, and only while it applies.
LEMMA CommandWritesOwnRow ==
  ASSUME TypeInv, NEW u \in Users, CmdLock(u) \/ CommandStep(u),
         NEW t \in Tasks, status'[t] # status[t]
  PROVE  /\ cmdPc[u] = "apply" /\ cmdPc'[u] = "idle" /\ t = cmdTask[u]
         /\ status'[t] # "completed"
         /\ status[t] = "completed" => cmdKind[u] \in {"restart", "delete"}
<1> USE DEF TypeInv, TypeOK, SetRow, Return, LeaveCommand, Finish, CmdUnchanged, Applying,
        CanMove, CanTransition
<1>1. CASE CmdLock(u) \/ CmdRefuse(u) \/ CmdProceed(u) \/ CmdJoined(u)
  BY <1>1 DEF CmdLock, CmdRefuse, CmdProceed, CmdJoined
<1>2. CASE CmdCancelToken(u) \/ CmdDrainTimeout(u)
  BY <1>2 DEF CmdCancelToken, CmdDrainTimeout
<1>3. CASE ApplyPause(u) \/ ApplyCancel(u)
  BY <1>3 DEF ApplyPause, ApplyCancel
<1>4. CASE ApplyRetry(u) \/ ApplyResume(u) \/ ApplyRecover(u)
  BY <1>4 DEF ApplyRetry, ApplyResume, ApplyRecover
<1>5. CASE ApplyRestart(u) \/ ApplyDelete(u) \/ ApplyRejected(u)
  BY <1>5 DEF ApplyRestart, ApplyDelete, ApplyRejected
<1>6. QED
  BY <1>1, <1>2, <1>3, <1>4, <1>5 DEF CommandStep

\* A dispatch pass writes the row it starts, under its lock, or a queued row whose
\* start failed.
LEMMA DispatchWritesRow ==
  ASSUME TypeInv, DispatchStep, NEW t \in Tasks, status'[t] # status[t]
  PROVE  /\ t = dispTask /\ status'[t] # "completed" /\ status[t] # "completed"
         /\ \/ dispPc = "transition"
            \/ dispPc = "startFailed" /\ status[t] = "queued"
<1> USE DEF TypeInv, TypeOK, SetRow, CanMove, CanTransition
<1>1. CASE StartTransition
  BY <1>1 DEF StartTransition
<1>2. CASE StartFailed
  BY <1>2 DEF StartFailed, PersistFailure
<1>3. CASE UNCHANGED status
  BY <1>3
<1>4. QED
  BY <1>1, <1>2, <1>3 DEF DispatchStep, DispatchBegin, DispatchPage, DispatchPick,
     DispatchEnd, StartLock, StartUnresolved, StartAlreadyActive, StartReserve,
     StartTransitionFailed, StartSpawn, StartSetHandle

\* A run that has not reported its end has not completed its row.
Incomplete ==
  /\ \A w \in Workers : supPc[w] \in {"prepare", "engine", "running"} =>
       status[supTask[w]] # "completed"
  /\ dispPc = "spawn" => status[dispTask] # "completed"

\* No run has started, so the claim about running tasks holds at the start.
LEMMA IncompleteInit == Init => Incomplete
  BY DEF Init, Incomplete

\* A run never takes a row out of completed, and enters it only as it ends.
LEMMA RunKeepsCompleted ==
  ASSUME TypeInv, Slots, Incomplete,
         NEW w \in Workers, SupervisorStep(w) \/ EngineStep(w) \/ EngineEnd(w)
  PROVE  /\ status[supTask[w]] = "completed" => status' = status
         /\ supPc'[w] \in {"prepare", "engine", "running"} =>
              supTask'[w] = supTask[w] /\ status'[supTask[w]] # "completed"
<1> USE DEF TypeInv, TypeOK, Slots, Registry, Owning, Incomplete, SetRow, SetStatus, GoTo,
        SupUnchanged, LiveStatuses, CanMove, CanTransition
<1>1. CASE SupPrepare(w)
  BY <1>1 DEF SupPrepare
<1>2. CASE SupPrepareResync(w)
  BY <1>2 DEF SupPrepareResync
<1>3. CASE SupPrepareBlocked(w)
  BY <1>3 DEF SupPrepareBlocked
<1>4. CASE SupFailEarly(w)
  BY <1>4 DEF SupFailEarly
<1>5. CASE SupEngineStart(w)
  BY <1>5 DEF SupEngineStart
<1>6. CASE SupRetrying(w)
  BY <1>6 DEF SupRetrying
<1>7. CASE SupCheckpoint(w)
  BY <1>7 DEF SupCheckpoint
<1>8. CASE SupComplete(w)
  BY <1>8 DEF SupComplete
<1>9. CASE SupFail(w)
  BY <1>9 DEF SupFail
<1>10. CASE SupCancelExit(w)
  BY <1>10 DEF SupCancelExit
<1>11. CASE SupObserve(w)
  BY <1>11 DEF SupObserve
<1>12. CASE SupConverge(w)
  <2>1. CASE ConvergeCanceled(supTask[w])
    BY <1>12, <2>1 DEF SupConverge, ConvergeCanceled
  <2>2. CASE ScheduleAutoRetry(supTask[w])
    BY <1>12, <2>2 DEF SupConverge, ScheduleAutoRetry, AutoRetryFrom
  <2>3. CASE PersistFailure(supTask[w], LiveStatuses)
    BY <1>12, <2>3 DEF SupConverge, PersistFailure
  <2>4. CASE SetRow(supTask[w], status[supTask[w]], retryAt[supTask[w]], 0)
    BY <1>12, <2>4 DEF SupConverge
  <2>5. QED
    BY <1>12, <2>1, <2>2, <2>3, <2>4 DEF SupConverge
<1>13. CASE SupRelease(w)
  BY <1>13 DEF SupRelease
<1>14. CASE SupTail(w)
  BY <1>14 DEF SupTail
<1>15. QED
  BY <1>1, <1>2, <1>3, <1>4, <1>5, <1>6, <1>7, <1>8, <1>9, <1>10, <1>11, <1>12, <1>13,
     <1>14 DEF SupervisorStep, EngineStep, EngineEnd

\* Every step keeps the rows of runs in progress out of completed.
LEMMA IncompleteNext ==
  TypeInv /\ Locks /\ Slots /\ Converged /\ Incomplete /\ [Next]_vars => Incomplete'
<1> SUFFICES ASSUME TypeInv, Locks, Slots, Converged, Incomplete, [Next]_vars
             PROVE  Incomplete'
  OBVIOUS
<1> USE SchedulerAssumption DEF TypeInv, TypeOK
<1>1. CASE DispatchStep
  <2>1. CASE StartTransition
    <3>1. status' = [status EXCEPT ![dispTask] = "downloading"]
      BY <2>1 DEF StartTransition, SetRow
    <3>2. UNCHANGED <<supPc, supTask, dispTask>>
      BY <2>1 DEF StartTransition
    <3>3. dispTask \in Tasks
      BY <2>1 DEF StartTransition, Locks
    <3>4. QED
      BY <3>1, <3>2, <3>3 DEF Incomplete, Slots, Registry, Owning
  <2>2. CASE StartSpawn
    BY <2>2 DEF StartSpawn, Incomplete, Slots, Pending, Registry
  <2>3. CASE StartFailed
    <3>1. \A t \in Tasks : status'[t] = "completed" => status[t] = "completed"
      BY <2>3 DEF StartFailed, PersistFailure, SetRow
    <3>2. UNCHANGED <<supPc, supTask>> /\ dispPc' = "pick"
      BY <2>3 DEF StartFailed
    <3>3. QED
      BY <3>1, <3>2 DEF Incomplete, Slots, Registry, Owning
  <2>4. ASSUME NEW w \in Workers, StartReserve(w) PROVE Incomplete'
    BY <2>4 DEF StartReserve, Incomplete
  <2>5. CASE StartTransitionFailed
    BY <2>5 DEF StartTransitionFailed, LeaveStart, Incomplete
  <2>6. CASE \/ DispatchBegin \/ DispatchPage \/ DispatchEnd \/ StartLock
             \/ StartUnresolved \/ StartAlreadyActive \/ StartSetHandle
             \/ \E t \in Tasks : DispatchPick(t)
    <3>1. UNCHANGED <<status, supPc, supTask>> /\ dispPc' # "spawn"
      BY <2>6 DEF DispatchBegin, DispatchPage, DispatchEnd, StartLock, StartUnresolved,
         StartAlreadyActive, StartSetHandle, DispatchPick, LeaveStart
    <3>2. QED
      BY <3>1 DEF Incomplete
  <2>7. QED
    BY <1>1, <2>1, <2>2, <2>3, <2>4, <2>5, <2>6 DEF DispatchStep
<1>2. ASSUME NEW w \in Workers, SupervisorStep(w) \/ EngineStep(w) \/ EngineEnd(w)
      PROVE  Incomplete'
  <2>1. UNCHANGED dispVars
    BY <1>2, SupervisorFrame
  <2>2. \A t \in Tasks : status'[t] # status[t] => t = supTask[w] /\ supPc[w] \in Owning
    BY <1>2, RunStep
  <2>3. ASSUME NEW v \in Workers, supPc'[v] \in {"prepare", "engine", "running"}
        PROVE  status'[supTask'[v]] # "completed"
    <3>1. CASE v = w
      BY <1>2, <2>3, <3>1, RunKeepsCompleted
    <3>2. CASE v # w
      <4>1. supPc[v] \in {"prepare", "engine", "running"} /\ supTask'[v] = supTask[v]
        BY <1>2, <2>3, <3>2, RunStep
      <4>2. status'[supTask[v]] = status[supTask[v]]
        BY <2>2, <3>2, <4>1 DEF Slots, Registry, Owning
      <4>3. QED
        BY <4>1, <4>2 DEF Incomplete
    <3>3. QED
      BY <3>1, <3>2
  <2>4. ASSUME dispPc = "spawn" PROVE status'[dispTask] # "completed"
    <3>1. supPc[w] # "reserved"
      BY <1>2 DEF SupervisorStep, EngineStep, EngineEnd, SupPrepare, SupPrepareResync,
         SupPrepareBlocked, SupFailEarly, SupEngineStart, SupRetrying, SupCheckpoint,
         SupComplete, SupFail, SupCancelExit, SupObserve, SupConverge, SupRelease, SupTail
    <3>2. dispTask \in Tasks /\ (dispTask # supTask[w] \/ supPc[w] \notin Owning)
      BY <2>4, <3>1 DEF Locks, Slots, Pending, Registry
    <3>3. QED
      BY <2>2, <2>4, <3>2 DEF Incomplete
  <2>5. QED
    BY <2>1, <2>3, <2>4 DEF Incomplete
<1>3. ASSUME NEW u \in Users, CmdLock(u) \/ CommandStep(u)
      PROVE  Incomplete'
  <2>1. UNCHANGED <<runVars, dispVars>>
    BY <1>3, CommandFrame
  <2>2. \A t \in Tasks : status'[t] = "completed" => status[t] = "completed"
    BY <1>3, CommandWritesOwnRow
  <2>3. QED
    BY <2>1, <2>2 DEF Incomplete, Slots, Registry, Owning, Locks
<1>4. ASSUME \/ \E u \in Users, k \in CmdKinds, t \in Tasks : CmdIssue(u, k, t)
             \/ \E t \in Tasks : RetryDue(t)
             \/ WatcherDispatch
             \/ UNCHANGED vars
      PROVE  Incomplete'
  BY <1>4 DEF CmdIssue, RetryDue, WatcherDispatch, vars, Incomplete
<1>5. CASE Crash
  BY <1>5 DEF Crash, Incomplete
<1>6. QED
  BY <1>1, <1>2, <1>3, <1>4, <1>5 DEF Next

\* A run in progress never has a completed row.
LEMMA AlwaysIncomplete == Spec => []Incomplete
  BY AlwaysTypeInv, AlwaysLocks, AlwaysSlots, AlwaysConverged, IncompleteInit,
     IncompleteNext, PTL DEF Spec

\* One step never takes a row out of completed, restart and delete apart.
LEMMA CompletedIsKeptStep ==
  ASSUME TypeInv, Locks, Slots, Converged, Incomplete, [Next]_vars,
         NEW t \in Tasks, status[t] = "completed", status'[t] # "completed"
  PROVE  \E u \in Users : cmdTask[u] = t /\ cmdPc[u] = "apply"
                          /\ cmdKind[u] \in {"restart", "delete"}
<1>1. ~DispatchStep
  BY DispatchWritesRow
<1>2. ASSUME NEW w \in Workers, SupervisorStep(w) \/ EngineStep(w) \/ EngineEnd(w)
      PROVE  FALSE
  <2>1. t = supTask[w]
    BY <1>2, RunStep
  <2>2. QED
    BY <1>2, <2>1, RunKeepsCompleted
<1>3. ~Crash /\ ~WatcherDispatch /\ status' # status
  BY DEF Crash, WatcherDispatch, LiveStatuses, TypeInv, TypeOK
<1>4. PICK u \in Users : CmdLock(u) \/ CommandStep(u)
  BY <1>1, <1>2, <1>3 DEF Next, CmdIssue, RetryDue, vars
<1>5. QED
  BY <1>4, CommandWritesOwnRow

\* No late write of an engine, of convergence or of a failed start takes a row
\* out of completed: only the commands that restart or delete the task do.
THEOREM CompletedIsKeptAlways == Spec => CompletedIsKept
<1>1. TypeInv /\ Locks /\ Slots /\ Converged /\ Incomplete /\ [Next]_vars =>
        [\A t \in Tasks : status[t] = "completed" /\ status'[t] # "completed" =>
           \E u \in Users : cmdTask[u] = t /\ cmdPc[u] = "apply"
                            /\ cmdKind[u] \in {"restart", "delete"}]_vars
  BY CompletedIsKeptStep
<1>2. QED
  BY <1>1, AlwaysTypeInv, AlwaysLocks, AlwaysSlots, AlwaysConverged, AlwaysIncomplete, PTL
     DEF Spec, CompletedIsKept

\* One step changes the row under a drained command only for a failed start.
LEMMA DrainedRowIsStillStep ==
  ASSUME TypeInv, Locks, Slots, Converged, [Next]_vars, NEW u \in Users,
         cmdPc[u] = "apply", Draining(u), cmdPc'[u] = "apply",
         status'[cmdTask[u]] # status[cmdTask[u]]
  PROVE  status[cmdTask[u]] = "queued" /\ dispTask = cmdTask[u] /\ dispPc = "startFailed"
<1> DEFINE t == cmdTask[u]
<1>1. t \in Tasks /\ taskLock[t] = u /\ downloads[t] = NoWorker
  BY DEF TypeInv, CommandHasTask, Locks, Slots, Drained
<1>2. CASE DispatchStep
  <2>1. dispPc = "transition" => taskLock[dispTask] = Dispatcher
    BY DEF Locks
  <2>2. QED
    BY <1>1, <1>2, <2>1, DispatchWritesRow, SchedulerAssumption
<1>3. ASSUME NEW w \in Workers, SupervisorStep(w) \/ EngineStep(w) \/ EngineEnd(w)
      PROVE  FALSE
  <2>1. t = supTask[w] /\ supPc[w] \in Owning
    BY <1>1, <1>3, RunStep
  <2>2. QED
    BY <1>1, <2>1, SchedulerAssumption DEF Slots, Registry
<1>4. ASSUME NEW v \in Users, CmdLock(v) \/ CommandStep(v)
      PROVE  FALSE
  <2>1. cmdPc[v] = "apply" /\ cmdPc'[v] = "idle" /\ t = cmdTask[v]
    BY <1>1, <1>4, CommandWritesOwnRow
  <2>2. v = u
    BY <1>1, <2>1 DEF Locks
  <2>3. QED
    BY <2>1, <2>2
<1>5. ~Crash
  BY DEF Crash
<1>6. QED
  BY <1>2, <1>3, <1>4, <1>5 DEF Next, CmdIssue, RetryDue, WatcherDispatch, vars

\* While a command that drained its task still has to write, nobody else does,
\* but for a failed start on a row that is queued.
THEOREM DrainedRowIsStillAlways == Spec => DrainedRowIsStill
<1>1. TypeInv /\ Locks /\ Slots /\ Converged /\ [Next]_vars =>
        [\A u \in Users :
           LET t == cmdTask[u] IN
           cmdPc[u] = "apply" /\ Draining(u) /\ cmdPc'[u] = "apply"
           /\ status'[t] # status[t]
             => status[t] = "queued" /\ dispTask = t /\ dispPc = "startFailed"]_vars
  BY DrainedRowIsStillStep
<1>2. QED
  BY <1>1, AlwaysTypeInv, AlwaysLocks, AlwaysSlots, AlwaysConverged, PTL
     DEF Spec, DrainedRowIsStill
====
