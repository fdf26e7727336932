---- MODULE AppLifecycle_proofs ----
(***************************************************************************)
(* Proofs about AppLifecycle, for every set of tasks, of seeding commands  *)
(* and of callers that restart the application.                            *)
(***************************************************************************)
EXTENDS AppLifecycle, FiniteSetTheorems, TLAPS

USE DEF flagVars, taskVars, dispVars, seedVars

----
(* Types.                                                                    *)

\* Every variable starts in its type.
LEMMA TypeInit == Init => TypeOK
<1> SUFFICES ASSUME Init PROVE TypeOK
  OBVIOUS
<1>1. row \in [Tasks -> {"queued", "active", "completed", "stopped"}]
  <2>1. row \in [Tasks -> {"queued", "completed"}]
    BY DEF Init
  <2>2. QED
    BY <2>1
<1>2. /\ taskLock \in [Tasks -> {Free, Dispatcher} \cup Seeders]
      /\ slot \in [Tasks -> BOOLEAN]
      /\ cancelled \in [Tasks -> BOOLEAN]
      /\ seeding \in [Tasks -> {"none", "on", "stopping"}]
      /\ supervisors \in Nat
  BY DEF Init
<1>3. /\ seedPc \in [Seeders -> SeedPcs]
      /\ seedTask \in [Seeders -> Tasks \cup {NoTask}]
      /\ drainPc \in [Drainers -> DrainPcs]
  BY DEF Init, SeedPcs, DrainPcs
<1>4. QED
  BY <1>1, <1>2, <1>3 DEF Init, TypeOK, Phases, DispPcs

\* start_task keeps the types.
LEMMA TypeDispatch == TypeOK /\ DispatchStep => TypeOK'
<1> SUFFICES ASSUME TypeOK, DispatchStep PROVE TypeOK'
  OBVIOUS
<1> USE DEF TypeOK, DispPcs, DispReturn
<1>1. CASE DispLock
  BY <1>1 DEF DispLock
<1>2. CASE DispGate
  BY <1>2 DEF DispGate
<1>3. CASE DispSkip
  BY <1>3 DEF DispSkip
<1>4. CASE DispCheck
  BY <1>4 DEF DispCheck
<1>5. CASE DispReserve
  <2>1. /\ slot' \in [Tasks -> BOOLEAN]
        /\ cancelled' \in [Tasks -> BOOLEAN]
    BY <1>5 DEF DispReserve
  <2> DEFINE Rows == {"queued", "active", "completed", "stopped"}
  <2>2. supervisors' \in Nat /\ row' \in [Tasks -> Rows]
    <3>1. supervisors' = supervisors + 1 /\ row' = [row EXCEPT ![dispTask] = "active"]
      BY <1>5 DEF DispReserve
    <3>2. row \in [Tasks -> Rows] /\ supervisors \in Nat /\ "active" \in Rows
      OBVIOUS
    <3> HIDE DEF TypeOK, Rows
    <3>3. row' \in [Tasks -> Rows]
      BY <3>1, <3>2
    <3>4. supervisors' \in Nat
      BY <3>1, <3>2
    <3>5. QED
      BY <3>3, <3>4
  <2>3. taskLock' \in [Tasks -> {Free, Dispatcher} \cup Seeders]
    BY <1>5 DEF DispReserve
  <2>4. QED
    BY <1>5, <2>1, <2>2, <2>3 DEF DispReserve
<1>6. QED
  BY <1>1, <1>2, <1>3, <1>4, <1>5 DEF DispatchStep

\* Downloads, supervisors and seedings keep the types; the counter, which only
\* goes down while it exceeds the slots, never goes below zero.
LEMMA TypeRun ==
  ASSUME TypeOK, SupervisorExit \/ \E t \in Tasks : RunStep(t)
  PROVE  TypeOK'
<1>1. CASE SupervisorExit
  <2>1. IsFiniteSet({t \in Tasks : slot[t]})
    BY LifecycleAssumption, FS_Subset
  <2>2. Cardinality({t \in Tasks : slot[t]}) \in Nat
    BY <2>1, FS_CardinalityType
  <2>3. supervisors' \in Nat
    BY <1>1, <2>2 DEF SupervisorExit, TypeOK
  <2>4. QED
    BY <1>1, <2>3 DEF SupervisorExit, RunUnchanged, TypeOK
<1>2. ASSUME NEW t \in Tasks, RunStep(t) PROVE TypeOK'
  <2>1. CASE RunPublish(t)
    BY <2>1 DEF RunPublish, RunUnchanged, TypeOK
  <2>2. CASE HandOver(t)
    BY <2>2 DEF HandOver, RunUnchanged, TypeOK
  <2>3. CASE RunRelease(t)
    BY <2>3 DEF RunRelease, RunUnchanged, TypeOK
  <2>4. CASE SeedingEnds(t)
    BY <2>4 DEF SeedingEnds, RunUnchanged, TypeOK
  <2>5. QED
    BY <1>2, <2>1, <2>2, <2>3, <2>4 DEF RunStep
<1>3. QED
  BY <1>1, <1>2

\* The seeding command keeps the types.
LEMMA TypeSeeder ==
  ASSUME TypeOK, NEW s \in Seeders, SeederStep(s)
  PROVE  TypeOK'
<1> USE DEF TypeOK, SeedPcs, SeedReturn, SeedUnlock
<1>1. CASE SeedGate(s)
  BY <1>1 DEF SeedGate
<1>2. CASE SeedCheck(s)
  BY <1>2 DEF SeedCheck
<1>3. CASE SeedLock(s)
  BY <1>3 DEF SeedLock
<1>4. CASE SeedEnable(s)
  BY <1>4 DEF SeedEnable
<1>5. CASE SeedNothing(s) \/ SeedJoined(s)
  BY <1>5 DEF SeedNothing, SeedJoined
<1>6. CASE SeedDisable(s)
  BY <1>6 DEF SeedDisable
<1>7. QED
  BY <1>1, <1>2, <1>3, <1>4, <1>5, <1>6 DEF SeederStep

\* The steps that every drain takes keep the types.
LEMMA TypeDrain ==
  ASSUME TypeOK, NEW d \in Drainers, DrainStep(d)
  PROVE  TypeOK'
<1> USE DEF TypeOK, DrainPcs, DrainGoTo, DrainUnchanged
<1>1. CASE DrainQuit(d)
  BY <1>1 DEF DrainQuit
<1>2. CASE DrainEnter(d)
  BY <1>2 DEF DrainEnter, CancelRuns
<1>3. CASE DrainOwners(d)
  BY <1>3 DEF DrainOwners, CancelSeedings
<1>4. CASE DrainSeeds(d)
  BY <1>4 DEF DrainSeeds
<1>5. QED
  BY <1>1, <1>2, <1>3, <1>4 DEF DrainStep

\* A restart, called off or not, keeps the types.
LEMMA TypeRelaunch ==
  ASSUME TypeOK, NEW r \in Relaunchers, RelaunchStep(r)
  PROVE  TypeOK'
<1> USE DEF TypeOK, Phases, DrainPcs, DrainGoTo, DrainUnchanged, Drainers
<1>1. CASE DrainStep(r)
  BY <1>1, TypeDrain
<1>2. CASE DrainTimeout(r)
  BY <1>2 DEF DrainTimeout
<1>3. CASE PrepareMark(r)
  BY <1>3 DEF PrepareMark
<1>4. CASE PrepareFail(r)
  BY <1>4 DEF PrepareFail
<1>5. CASE CancelPrepared(r)
  BY <1>5 DEF CancelPrepared
<1>6. CASE Reset(r)
  BY <1>6 DEF Reset
<1>7. QED
  BY <1>1, <1>2, <1>3, <1>4, <1>5, <1>6 DEF RelaunchStep

\* What users call keeps the types.
LEMMA TypeCall == TypeOK /\ CallStep => TypeOK'
<1> SUFFICES ASSUME TypeOK, CallStep PROVE TypeOK'
  OBVIOUS
<1> USE DEF TypeOK, Phases, DrainPcs, DrainGoTo, DrainUnchanged, Drainers
<1>1. ASSUME NEW t \in Tasks, DispPick(t) PROVE TypeOK'
  BY <1>1 DEF DispPick, DispPcs
<1>2. ASSUME NEW t \in Tasks, Requeue(t) PROVE TypeOK'
  BY <1>2 DEF Requeue, RunUnchanged
<1>3. ASSUME NEW s \in Seeders, NEW t \in Tasks, SeedIssue(s, t) PROVE TypeOK'
  BY <1>3 DEF SeedIssue, SeedPcs
<1>4. ASSUME NEW r \in Relaunchers, PrepareClaim(r) PROVE TypeOK'
  BY <1>4 DEF PrepareClaim
<1>5. ASSUME NEW r \in Relaunchers, CancelIssue(r) \/ Relaunch(r) PROVE TypeOK'
  BY <1>5 DEF CancelIssue, Relaunch
<1>6. CASE ExitClaim \/ ExitPrepared
  BY <1>6 DEF ExitClaim, ExitPrepared
<1>7. QED
  BY <1>1, <1>2, <1>3, <1>4, <1>5, <1>6 DEF CallStep

\* Every step keeps the types.
LEMMA TypeNext == TypeOK /\ [Next]_vars => TypeOK'
<1> SUFFICES ASSUME TypeOK, [Next]_vars PROVE TypeOK'
  OBVIOUS
<1>1. CASE DispatchStep
  BY <1>1, TypeDispatch
<1>2. CASE SupervisorExit \/ \E t \in Tasks : RunStep(t)
  BY <1>2, TypeRun
<1>3. CASE \E s \in Seeders : SeederStep(s)
  BY <1>3, TypeSeeder
<1>4. CASE \E r \in Relaunchers : RelaunchStep(r)
  BY <1>4, TypeRelaunch
<1>5. CASE ExitStep
  <2>1. CASE DrainStep(Exit)
    BY <2>1, TypeDrain DEF Drainers
  <2>2. CASE ExitMark \/ ExitDrainFails
    BY <2>2 DEF ExitMark, ExitDrainFails, TypeOK, Phases, DrainPcs, DrainGoTo, DrainUnchanged
  <2>3. QED
    BY <1>5, <2>1, <2>2 DEF ExitStep
<1>6. CASE CallStep
  BY <1>6, TypeCall
<1>7. CASE UNCHANGED vars
  BY <1>7 DEF vars, TypeOK
<1>8. QED
  BY <1>1, <1>2, <1>3, <1>4, <1>5, <1>6, <1>7 DEF Next

\* The types hold in every reachable state: in particular the counter of the
\* supervisors, which ActiveSupervisorGuard moves by one, is never negative.
THEOREM TypeCorrect == Spec => []TypeOK
  BY TypeInit, TypeNext, PTL DEF Spec

----
(* The inductive invariant.                                                  *)

\* The gate has one holder, and these are the places where it is held.
Gates ==
  /\ dispPc \in {"check", "reserve"} => gate = Dispatcher
  /\ \A s \in Seeders : seedPc[s] \in {"check", "lock", "apply", "join"} => gate = s
  /\ \A d \in Drainers : drainPc[d] \in {"owners", "seeds", "reset"} => gate = d

Preparing == {"claimed", "gate", "owners", "seeds", "mark", "fail"}

\* One restart at a time is being prepared, and only an exit takes it over.
Claims ==
  /\ \A q, r \in Relaunchers :
       drainPc[q] \in Preparing /\ drainPc[r] \in Preparing => q = r
  /\ \A r \in Relaunchers :
       drainPc[r] \in Preparing => phase \in {"restartDraining"} \cup Exiting
  /\ drainPc[Exit] \in {"idle", "claimed", "gate", "owners", "seeds", "mark", "failed"}
  /\ drainPc[Exit] # "idle" => phase \in Exiting

\* From the release of the gate to the end of the readiness nothing can start.
Sealed == phase \in Ready \/ \E d \in Drainers : drainPc[d] = "mark"

Seals ==
  /\ \A d \in Drainers :
       /\ drainPc[d] \in {"owners", "seeds"} => quit
       /\ drainPc[d] = "seeds" => supervisors = 0 /\ \A t \in Tasks : ~slot[t]
  /\ Sealed =>
       /\ Drained /\ quit
       /\ dispPc # "reserve"
       /\ \A s \in Seeders : seedPc[s] \notin {"lock", "apply", "join"}
       /\ \A r \in Drainers : drainPc[r] # "reset"

IInv == TypeOK /\ Gates /\ Claims /\ Seals

\* Downloads and seedings leave the flags, the locks and the callers alone.
LEMMA RunFrame ==
  ASSUME SupervisorExit \/ \E t \in Tasks : RunStep(t)
  PROVE  /\ UNCHANGED <<flagVars, gate, taskLock, dispVars, seedVars, drainPc>>
  BY DEF SupervisorExit, RunStep, RunPublish, HandOver, RunRelease, SeedingEnds,
      RunUnchanged

\* start_task touches no flag, no seeding command and no drain.
LEMMA DispatchFrame ==
  ASSUME DispatchStep
  PROVE  UNCHANGED <<flagVars, seeding, seedVars, drainPc>>
  BY DEF DispatchStep, DispLock, DispGate, DispSkip, DispCheck, DispReserve, DispReturn

\* A seeding command touches no flag, no slot, no drain and no other command.
LEMMA SeederFrame ==
  ASSUME TypeOK, NEW s \in Seeders, SeederStep(s)
  PROVE  /\ UNCHANGED <<flagVars, slot, supervisors, dispVars, drainPc>>
         /\ \A q \in Seeders : q # s => seedPc'[q] = seedPc[q]
  BY DEF TypeOK, SeederStep, SeedGate, SeedCheck, SeedLock, SeedEnable, SeedNothing,
      SeedDisable, SeedJoined, SeedReturn, SeedUnlock

\* A drain starts and releases nothing, and moves no other caller.
LEMMA DrainFrame ==
  ASSUME TypeOK, NEW d \in Drainers,
         \/ DrainStep(d)
         \/ d \in Relaunchers /\ RelaunchStep(d)
         \/ d = Exit /\ (ExitMark \/ ExitDrainFails)
  PROVE  /\ UNCHANGED <<slot, supervisors, dispVars, seedVars>>
         /\ \A q \in Drainers : q # d => drainPc'[q] = drainPc[q]
<1> USE DEF TypeOK, DrainGoTo, DrainUnchanged
<1>1. CASE DrainStep(d)
  BY <1>1 DEF DrainStep, DrainQuit, DrainEnter, DrainOwners, DrainSeeds
<1>2. CASE d \in Relaunchers /\ RelaunchStep(d)
  BY <1>1, <1>2 DEF RelaunchStep, DrainTimeout, PrepareMark, PrepareFail,
     CancelPrepared, Reset
<1>3. CASE d = Exit /\ (ExitMark \/ ExitDrainFails)
  BY <1>3 DEF ExitMark, ExitDrainFails
<1>4. QED
  BY <1>1, <1>2, <1>3

\* What users call takes no lock and starts no owner; it moves only callers
\* that are idle or prepared, and start_task from idle to its first lock.
LEMMA CallFrame ==
  ASSUME TypeOK, CallStep
  PROVE  /\ UNCHANGED <<quit, gate, slot, supervisors, seeding>>
         /\ dispPc' \in {dispPc, "lock"}
         /\ \A s \in Seeders : seedPc'[s] \in {seedPc[s], "gate"}
         /\ \A d \in Drainers :
              drainPc'[d] \in {drainPc[d], "claimed", "prepared", "cancel"}
<1> USE DEF TypeOK, DrainGoTo, DrainUnchanged, Drainers
<1>1. ASSUME NEW t \in Tasks, DispPick(t) \/ Requeue(t)
      PROVE  /\ UNCHANGED <<quit, gate, slot, supervisors, seeding, seedPc, drainPc>>
             /\ dispPc' \in {dispPc, "lock"}
  BY <1>1 DEF DispPick, Requeue, RunUnchanged
<1>2. ASSUME NEW s \in Seeders, NEW t \in Tasks, SeedIssue(s, t)
      PROVE  /\ UNCHANGED <<quit, gate, slot, supervisors, seeding, dispPc, drainPc>>
             /\ \A q \in Seeders : seedPc'[q] \in {seedPc[q], "gate"}
  BY <1>2 DEF SeedIssue
<1>3. ASSUME \/ \E r \in Relaunchers : PrepareClaim(r) \/ CancelIssue(r) \/ Relaunch(r)
             \/ ExitClaim \/ ExitPrepared
      PROVE  /\ UNCHANGED <<quit, gate, slot, supervisors, seeding, dispPc, seedPc>>
             /\ \A d \in Drainers :
                  drainPc'[d] \in {drainPc[d], "claimed", "prepared", "cancel"}
  BY <1>3 DEF PrepareClaim, CancelIssue, Relaunch, ExitClaim, ExitPrepared
<1>4. QED
  BY <1>1, <1>2, <1>3 DEF CallStep

\* The steps of all the callers that drain, by caller.
LEMMA DrainerSteps ==
  (\E r \in Relaunchers : RelaunchStep(r)) \/ ExitStep
    <=> \E d \in Drainers : \/ DrainStep(d)
                            \/ d \in Relaunchers /\ RelaunchStep(d)
                            \/ d = Exit /\ (ExitMark \/ ExitDrainFails)
  BY LifecycleAssumption DEF Drainers, ExitStep, RelaunchStep

\* A step of the scheduler, of a command, of a drain, of a run or of a user.
LEMMA NextCases ==
  ASSUME [Next]_vars
  PROVE  \/ DispatchStep
         \/ SupervisorExit \/ \E t \in Tasks : RunStep(t)
         \/ \E s \in Seeders : SeederStep(s)
         \/ \E d \in Drainers : \/ DrainStep(d)
                                \/ d \in Relaunchers /\ RelaunchStep(d)
                                \/ d = Exit /\ (ExitMark \/ ExitDrainFails)
         \/ CallStep
         \/ UNCHANGED vars
  BY DrainerSteps DEF Next

----
(* The gate.                                                                 *)

\* Nobody holds the gate at the start.
LEMMA GatesInit == Init => Gates
  BY DEF Init, Gates

\* Every step keeps the gate with its holder.
LEMMA GatesNext == TypeOK /\ Gates /\ [Next]_vars => Gates'
<1> SUFFICES ASSUME TypeOK, Gates, [Next]_vars PROVE Gates'
  OBVIOUS
<1> USE LifecycleAssumption DEF Gates
<1>1. CASE DispatchStep
  <2>1. /\ UNCHANGED <<seedPc, drainPc>>
        /\ dispPc' \in {"check", "reserve"} => gate' = Dispatcher
        /\ gate' # gate => gate = Free \/ dispPc \in {"check", "reserve"}
    BY <1>1, DispatchFrame
    DEF DispatchStep, DispLock, DispGate, DispSkip, DispCheck, DispReserve, DispReturn
  <2>2. QED
    BY <2>1 DEF Drainers
<1>2. CASE SupervisorExit \/ \E t \in Tasks : RunStep(t)
  BY <1>2, RunFrame
<1>3. ASSUME NEW s \in Seeders, SeederStep(s) PROVE Gates'
  <2>1. /\ seedPc'[s] \in {"check", "lock", "apply", "join"} => gate' = s
        /\ gate' # gate => gate = Free \/ gate = s
    BY <1>3 DEF TypeOK, SeederStep, SeedGate, SeedCheck, SeedLock, SeedEnable, SeedNothing,
       SeedDisable, SeedJoined, SeedReturn, SeedUnlock
  <2>2. QED
    BY <1>3, <2>1, SeederFrame DEF Drainers
<1>4. ASSUME NEW d \in Drainers,
             \/ DrainStep(d)
             \/ d \in Relaunchers /\ RelaunchStep(d)
             \/ d = Exit /\ (ExitMark \/ ExitDrainFails)
      PROVE Gates'
  <2>1. /\ drainPc'[d] \in {"owners", "seeds", "reset"} => gate' = d
        /\ gate' # gate => gate = Free \/ gate = d
    BY <1>4 DEF TypeOK, DrainGoTo, DrainStep, DrainQuit, DrainEnter, DrainOwners, DrainSeeds,
       RelaunchStep, DrainTimeout, PrepareMark, PrepareFail, CancelPrepared, Reset,
       ExitMark, ExitDrainFails
  <2>2. QED
    BY <1>4, <2>1, DrainFrame DEF Drainers
<1>5. CASE CallStep
  BY <1>5, CallFrame
<1>6. CASE UNCHANGED vars
  BY <1>6 DEF vars
<1>7. QED
  BY <1>1, <1>2, <1>3, <1>4, <1>5, <1>6, NextCases

----
(* The claims.                                                               *)

\* Nobody prepares a restart at the start.
LEMMA ClaimsInit == Init => Claims
  BY DEF Init, Claims, Preparing, Drainers

\* Every step keeps the claims: the compare-and-swap of the phase decides.
LEMMA ClaimsNext == TypeOK /\ Claims /\ [Next]_vars => Claims'
<1> SUFFICES ASSUME TypeOK, Claims, [Next]_vars PROVE Claims'
  OBVIOUS
<1> USE LifecycleAssumption DEF Claims, Preparing, Exiting, Drainers
<1>1. CASE DispatchStep \/ SupervisorExit \/ \E t \in Tasks : RunStep(t)
  BY <1>1, DispatchFrame, RunFrame
<1>2. ASSUME NEW s \in Seeders, SeederStep(s) PROVE Claims'
  BY <1>2, SeederFrame
<1>3. ASSUME NEW d \in Drainers, DrainStep(d) PROVE Claims'
  <2>1. /\ phase' = phase
        /\ drainPc[d] \in {"claimed", "gate", "owners", "seeds"}
        /\ drainPc'[d] \in {"gate", "owners", "seeds", "mark"}
    BY <1>3 DEF TypeOK, DrainGoTo, DrainStep, DrainQuit, DrainEnter, DrainOwners, DrainSeeds
  <2>2. QED
    BY <1>3, <2>1, DrainFrame
<1>4. ASSUME NEW r \in Relaunchers, RelaunchStep(r), ~DrainStep(r) PROVE Claims'
  <2>1. CASE DrainTimeout(r)
    BY <2>1 DEF TypeOK, DrainTimeout, DrainGoTo
  <2>2. CASE PrepareMark(r)
    BY <2>2 DEF TypeOK, PrepareMark, DrainGoTo
  <2>3. CASE PrepareFail(r)
    BY <2>3 DEF TypeOK, PrepareFail, DrainGoTo
  <2>4. CASE CancelPrepared(r)
    BY <2>4 DEF TypeOK, CancelPrepared, DrainGoTo
  <2>5. CASE Reset(r)
    BY <2>5 DEF TypeOK, Reset, DrainGoTo
  <2>6. QED
    BY <1>4, <2>1, <2>2, <2>3, <2>4, <2>5 DEF RelaunchStep
<1>5. CASE ExitMark \/ ExitDrainFails
  BY <1>5 DEF TypeOK, ExitMark, ExitDrainFails, DrainGoTo
<1>6. CASE CallStep
  <2>1. ASSUME NEW t \in Tasks, DispPick(t) \/ Requeue(t) PROVE Claims'
    BY <2>1 DEF DispPick, Requeue, RunUnchanged
  <2>2. ASSUME NEW s \in Seeders, NEW t \in Tasks, SeedIssue(s, t) PROVE Claims'
    BY <2>2 DEF SeedIssue
  <2>3. ASSUME NEW r \in Relaunchers, PrepareClaim(r) PROVE Claims'
    BY <2>3 DEF TypeOK, PrepareClaim, DrainGoTo
  <2>4. ASSUME NEW r \in Relaunchers, CancelIssue(r) \/ Relaunch(r) PROVE Claims'
    BY <2>4 DEF TypeOK, CancelIssue, Relaunch, DrainGoTo
  <2>5. CASE ExitClaim
    BY <2>5 DEF TypeOK, ExitClaim, DrainGoTo
  <2>6. CASE ExitPrepared
    BY <2>6 DEF ExitPrepared, Ready
  <2>7. QED
    BY <1>6, <2>1, <2>2, <2>3, <2>4, <2>5, <2>6 DEF CallStep
<1>7. CASE UNCHANGED vars
  BY <1>7 DEF vars
<1>8. QED
  BY <1>1, <1>2, <1>3, <1>4, <1>5, <1>6, <1>7, NextCases

----
(* The seal.                                                                 *)

\* Nothing is sealed at the start.
LEMMA SealsInit == Init => Seals
  BY DEF Init, Seals, Sealed, Ready

\* start_task starts nothing once a drain found the owners gone.
LEMMA SealsDispatch ==
  ASSUME TypeOK, Gates, Seals, DispatchStep
  PROVE  Seals'
<1> USE LifecycleAssumption DEF Seals, Sealed, Drained, Gates, Drainers
<1>1. UNCHANGED <<phase, quit, seeding, seedPc, drainPc>>
  BY DispatchFrame
<1>2. CASE DispReserve
  <2>1. ~Sealed /\ \A d \in Drainers : drainPc[d] \notin {"owners", "seeds"}
    BY <1>2 DEF DispReserve
  <2>2. QED
    BY <1>1, <2>1
<1>3. CASE DispCheck
  BY <1>1, <1>3 DEF DispCheck
<1>4. CASE DispLock \/ DispGate \/ DispSkip
  BY <1>1, <1>4 DEF DispLock, DispGate, DispSkip, DispReturn
<1>5. QED
  BY <1>2, <1>3, <1>4 DEF DispatchStep

\* A run that ends, or hands over to seeding, needs an owner to do so.
LEMMA SealsRun ==
  ASSUME TypeOK, Seals, SupervisorExit \/ \E t \in Tasks : RunStep(t)
  PROVE  Seals'
<1> USE DEF Seals, Sealed, Drained
<1>1. UNCHANGED <<phase, quit, dispPc, seedPc, drainPc>>
  BY RunFrame
<1>2. CASE SupervisorExit
  <2>1. ASSUME supervisors = 0, \A t \in Tasks : ~slot[t] PROVE FALSE
    <3>1. {t \in Tasks : slot[t]} = {}
      BY <2>1
    <3>2. Cardinality({t \in Tasks : slot[t]}) = 0
      BY <3>1, FS_EmptySet
    <3>3. QED
      BY <1>2, <2>1, <3>2 DEF SupervisorExit
  <2>2. UNCHANGED <<slot, seeding>>
    BY <1>2 DEF SupervisorExit
  <2>3. QED
    BY <1>1, <2>1, <2>2
<1>3. ASSUME NEW t \in Tasks, RunStep(t) PROVE Seals'
  <2>1. CASE RunPublish(t)
    BY <1>1, <2>1 DEF RunPublish
  <2>2. CASE HandOver(t)
    BY <1>1, <2>2 DEF HandOver
  <2>3. CASE RunRelease(t)
    BY <1>1, <2>3 DEF RunRelease, TypeOK
  <2>4. CASE SeedingEnds(t)
    BY <1>1, <2>4 DEF SeedingEnds, TypeOK
  <2>5. QED
    BY <1>3, <2>1, <2>2, <2>3, <2>4 DEF RunStep
<1>4. QED
  BY <1>2, <1>3

\* A seeding command that reaches its task saw the flag down, under the gate.
LEMMA SealsSeeder ==
  ASSUME TypeOK, Gates, Seals, NEW s \in Seeders, SeederStep(s)
  PROVE  Seals'
<1> USE LifecycleAssumption DEF Seals, Sealed, Drained
<1>1. /\ UNCHANGED <<phase, quit, slot, supervisors, dispPc, drainPc>>
      /\ \A q \in Seeders : q # s => seedPc'[q] = seedPc[q]
  BY SeederFrame
<1>2. Sealed => seeding' = seeding /\ seedPc'[s] \in {"idle", "gate", "check"}
  BY DEF TypeOK, SeederStep, SeedGate, SeedCheck, SeedLock, SeedEnable, SeedNothing,
     SeedDisable, SeedJoined, SeedReturn, SeedUnlock
<1>3. QED
  BY <1>1, <1>2

\* The drain that finds the seedings gone too closes the seal as it lets go of
\* the gate: whoever else could start something would have to hold it.
LEMMA SealsDrain ==
  ASSUME TypeOK, Gates, Seals, NEW d \in Drainers, DrainStep(d)
  PROVE  Seals'
<1> USE LifecycleAssumption DEF Seals, Sealed, Drained, TypeOK, DrainGoTo, DrainUnchanged
<1>1. /\ UNCHANGED <<slot, supervisors, dispPc, seedPc, phase>>
      /\ \A q \in Drainers : q # d => drainPc'[q] = drainPc[q]
  <2>1. phase' = phase
    BY DEF DrainStep, DrainQuit, DrainEnter, DrainOwners, DrainSeeds
  <2>2. QED
    BY <2>1, DrainFrame
<1>2. CASE DrainQuit(d)
  BY <1>1, <1>2 DEF DrainQuit
<1>3. CASE DrainEnter(d)
  BY <1>1, <1>3 DEF DrainEnter
<1>4. CASE DrainOwners(d)
  <2>1. Sealed => seeding' = seeding
    BY <1>4 DEF DrainOwners, CancelSeedings
  <2>2. QED
    BY <1>1, <1>4, <2>1 DEF DrainOwners
<1>5. CASE DrainSeeds(d)
  <2>1. gate = d /\ dispPc # "reserve"
        /\ \A s \in Seeders : seedPc[s] \notin {"lock", "apply", "join"}
    BY <1>5 DEF DrainSeeds, Gates, Drainers
  <2>2. \A q \in Drainers : drainPc[q] # "reset"
    BY <1>5, <2>1 DEF DrainSeeds, Gates
  <2>3. QED
    BY <1>1, <1>5, <2>1, <2>2 DEF DrainSeeds
<1>6. QED
  BY <1>2, <1>3, <1>4, <1>5 DEF DrainStep

\* A restart that is called off breaks the seal with the phase: it cannot while
\* another drain stands between the gate and its phase.
LEMMA SealsRelaunch ==
  ASSUME TypeOK, Gates, Claims, Seals, NEW r \in Relaunchers, RelaunchStep(r)
  PROVE  Seals'
<1> USE LifecycleAssumption DEF Seals, Sealed, Drained, TypeOK, DrainGoTo, DrainUnchanged,
        Drainers, Ready
<1>1. CASE DrainStep(r)
  BY <1>1, SealsDrain
<1>2. CASE DrainTimeout(r)
  BY <1>2 DEF DrainTimeout
<1>3. CASE PrepareMark(r)
  BY <1>3 DEF PrepareMark
<1>4. CASE PrepareFail(r)
  <2>1. phase = "restartDraining" => \A d \in Drainers : drainPc[d] # "mark"
    BY <1>4 DEF PrepareFail, Claims, Preparing, Exiting
  <2>2. QED
    BY <1>4, <2>1 DEF PrepareFail
<1>5. CASE CancelPrepared(r)
  <2>1. phase = "restartReady" => \A d \in Drainers : drainPc[d] # "mark"
    BY <1>5 DEF CancelPrepared, Claims, Preparing, Exiting
  <2>2. QED
    BY <1>5, <2>1 DEF CancelPrepared
<1>6. CASE Reset(r)
  <2>1. \A d \in Drainers : drainPc[d] \notin {"owners", "seeds"} /\ ~Sealed
    BY <1>6 DEF Reset, Gates
  <2>2. QED
    BY <1>6, <2>1 DEF Reset
<1>7. QED
  BY <1>1, <1>2, <1>3, <1>4, <1>5, <1>6 DEF RelaunchStep

\* Every step keeps the seal closed over an application without owners.
LEMMA SealsNext == IInv /\ [Next]_vars => Seals'
<1> SUFFICES ASSUME IInv, [Next]_vars PROVE Seals'
  OBVIOUS
<1> USE DEF IInv
<1>1. CASE DispatchStep
  BY <1>1, SealsDispatch
<1>2. CASE SupervisorExit \/ \E t \in Tasks : RunStep(t)
  BY <1>2, SealsRun
<1>3. ASSUME NEW s \in Seeders, SeederStep(s) PROVE Seals'
  BY <1>3, SealsSeeder
<1>4. ASSUME NEW d \in Drainers,
             DrainStep(d) \/ (d \in Relaunchers /\ RelaunchStep(d))
      PROVE Seals'
  BY <1>4, SealsDrain, SealsRelaunch
<1>5. CASE ExitMark \/ ExitDrainFails
  <2>1. CASE ExitMark
    BY <2>1, LifecycleAssumption DEF ExitMark, Seals, Sealed, Drained, Drainers
  <2>2. CASE ExitDrainFails
    BY <2>2, LifecycleAssumption
    DEF TypeOK, ExitDrainFails, DrainGoTo, DrainUnchanged, Seals, Sealed, Drained, Drainers
  <2>3. QED
    BY <1>5, <2>1, <2>2
<1>6. CASE CallStep
  <2>1. /\ UNCHANGED <<quit, gate, slot, supervisors, seeding>>
        /\ dispPc' \in {dispPc, "lock"}
        /\ \A s \in Seeders : seedPc'[s] \in {seedPc[s], "gate"}
        /\ \A d \in Drainers : drainPc'[d] \in {drainPc[d], "claimed", "prepared", "cancel"}
    BY <1>6, CallFrame
  <2>2. phase' \in Ready => phase \in Ready
    BY <1>6 DEF CallStep, DispPick, Requeue, RunUnchanged, SeedIssue, PrepareClaim,
       CancelIssue, Relaunch, ExitClaim, ExitPrepared, Ready
  <2>3. QED
    BY <2>1, <2>2 DEF Seals, Sealed, Drained
<1>7. CASE UNCHANGED vars
  BY <1>7 DEF vars, Seals, Sealed, Drained
<1>8. QED
  BY <1>1, <1>2, <1>3, <1>4, <1>5, <1>6, <1>7, NextCases

\* The inductive invariant holds in every reachable state.
LEMMA AlwaysIInv == Spec => []IInv
<1>1. Init => IInv
  BY TypeInit, GatesInit, ClaimsInit, SealsInit DEF IInv
<1>2. IInv /\ [Next]_vars => IInv'
  BY TypeNext, GatesNext, ClaimsNext, SealsNext DEF IInv
<1>3. QED
  BY <1>1, <1>2, PTL DEF Spec

----
(* Theorems.                                                                 *)

\* Whatever restarts, exits, seeding commands and dispatches interleave, the
\* application is ready to be ended or replaced only when nobody owns files.
THEOREM ReadyIsDrainedAlways == Spec => []ReadyIsDrained
<1>1. IInv => ReadyIsDrained
  BY DEF IInv, Seals, Sealed, ReadyIsDrained
<1>2. QED
  BY <1>1, AlwaysIInv, PTL

\* An exit that was claimed is never taken back: every write of the phase that
\* is not an exit looks for a phase that is not an exit.
THEOREM ExitIsFinalAlways == Spec => ExitIsFinal
<1>1. ASSUME [Next]_vars, phase \in Exiting PROVE phase' \in Exiting
  <2> USE <1>1, LifecycleAssumption DEF Exiting
  <2>1. CASE DispatchStep \/ SupervisorExit \/ \E t \in Tasks : RunStep(t)
    BY <2>1, DispatchFrame, RunFrame
  <2>2. CASE \E s \in Seeders : SeederStep(s)
    BY <2>2 DEF SeederStep, SeedGate, SeedCheck, SeedLock, SeedEnable, SeedNothing,
       SeedDisable, SeedJoined, SeedReturn, SeedUnlock
  <2>3. ASSUME NEW d \in Drainers,
               DrainStep(d) \/ (d \in Relaunchers /\ RelaunchStep(d)) \/ ExitMark
                 \/ ExitDrainFails
        PROVE phase' \in Exiting
    BY <2>3 DEF DrainStep, DrainQuit, DrainEnter, DrainOwners, DrainSeeds, RelaunchStep,
       DrainTimeout, PrepareMark, PrepareFail, CancelPrepared, Reset,
       ExitMark, ExitDrainFails
  <2>4. CASE CallStep
    BY <2>4 DEF CallStep, DispPick, Requeue, RunUnchanged, SeedIssue, PrepareClaim,
       CancelIssue, Relaunch, ExitClaim, ExitPrepared
  <2>5. CASE UNCHANGED vars
    BY <2>5 DEF vars
  <2>6. QED
    BY <2>1, <2>2, <2>3, <2>4, <2>5, NextCases
<1>2. [Next]_vars => [(phase \in Exiting) => (phase' \in Exiting)]_vars
  BY <1>1
<1>3. QED
  BY <1>2, PTL DEF Spec, ExitIsFinal

\* The flag that stops the dispatcher goes up only for a caller that holds a
\* claim, and comes down with the phase, under the gate.
LEMMA RunningServesNext ==
  IInv /\ RunningServes /\ [Next]_vars => RunningServes'
<1> SUFFICES ASSUME IInv, RunningServes, [Next]_vars PROVE RunningServes'
  OBVIOUS
<1> USE LifecycleAssumption DEF RunningServes, IInv
<1>1. CASE DispatchStep \/ SupervisorExit \/ \E t \in Tasks : RunStep(t)
  BY <1>1, DispatchFrame, RunFrame
<1>2. CASE \E s \in Seeders : SeederStep(s)
  BY <1>2, SeederFrame
<1>3. ASSUME NEW d \in Drainers, DrainStep(d) PROVE RunningServes'
  <2>1. /\ drainPc[d] # "reset"
        /\ phase' = phase
        /\ phase # "running" \/ quit' = quit
    BY <1>3 DEF DrainStep, DrainQuit, DrainEnter, DrainOwners, DrainSeeds, Claims, Preparing,
       Exiting, Drainers
  <2>2. QED
    BY <1>3, <2>1, DrainFrame
<1>4. ASSUME NEW r \in Relaunchers, RelaunchStep(r), ~DrainStep(r) PROVE RunningServes'
  <2>1. CASE DrainTimeout(r) \/ PrepareMark(r)
    BY <2>1 DEF TypeOK, DrainTimeout, PrepareMark, DrainGoTo, Drainers
  <2>2. CASE PrepareFail(r) \/ CancelPrepared(r)
    BY <2>2 DEF TypeOK, PrepareFail, CancelPrepared, DrainGoTo, Drainers
  <2>3. CASE Reset(r)
    BY <2>3 DEF Reset
  <2>4. QED
    BY <1>4, <2>1, <2>2, <2>3 DEF RelaunchStep
<1>5. CASE ExitMark \/ ExitDrainFails
  BY <1>5 DEF TypeOK, ExitMark, ExitDrainFails, DrainGoTo
<1>6. CASE CallStep
  <2>1. phase' = "running" => phase = "running"
    BY <1>6 DEF CallStep, DispPick, Requeue, RunUnchanged, SeedIssue, PrepareClaim,
       CancelIssue, Relaunch, ExitClaim, ExitPrepared
  <2>2. \A d \in Drainers : drainPc[d] = "reset" => drainPc'[d] = "reset"
    BY <1>6 DEF TypeOK, CallStep, DispPick, Requeue, RunUnchanged, SeedIssue, PrepareClaim,
       CancelIssue, Relaunch, ExitClaim, ExitPrepared, DrainGoTo, Drainers
  <2>3. QED
    BY <1>6, <2>1, <2>2, CallFrame
<1>7. CASE UNCHANGED vars
  BY <1>7 DEF vars
<1>8. QED
  BY <1>1, <1>2, <1>3, <1>4, <1>5, <1>6, <1>7, NextCases

\* A restart that failed, or was called off, never leaves an application that
\* says it runs and starts nothing.
THEOREM RunningServesAlways == Spec => []RunningServes
<1>1. Init => RunningServes
  BY DEF Init, RunningServes
<1>2. QED
  BY <1>1, RunningServesNext, AlwaysIInv, PTL DEF Spec

====
