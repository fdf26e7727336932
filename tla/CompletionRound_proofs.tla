---- MODULE CompletionRound_proofs ----
(***************************************************************************)
(* Proofs about CompletionRound, for every set of tasks and of workers.    *)
(***************************************************************************)
EXTENDS CompletionRound, TLAPS

USE DEF rowVars, startVars, roundVars, decideVars, workVars

----
(* Types. *)

\* Every variable starts in its type.
LEMMA TypeInit == Init => TypeOK
<1> SUFFICES ASSUME Init PROVE TypeOK
  OBVIOUS
<1>1. /\ status \in [Tasks -> Rows]
      /\ hash \in [Tasks -> HashStates]
  BY DEF Init, Rows, HashStates
<1>2. /\ pc \in [Workers -> WorkerPcs]
      /\ task \in [Workers -> Tasks \cup {NoTask}]
      /\ \A w \in Workers : pc[w] # "exited" => task[w] # NoTask
  BY DEF Init, WorkerPcs
<1>3. QED
  BY <1>1, <1>2 DEF Init, TypeOK


\* A worker that leaves keeps the types.
LEMMA TypeExit ==
  ASSUME TypeOK, NEW w \in Workers, Exit(w)
  PROVE  /\ pc' \in [Workers -> WorkerPcs]
         /\ task' \in [Workers -> Tasks \cup {NoTask}]
         /\ failed' \in [Workers -> BOOLEAN]
         /\ snapGen' \in [Workers -> Nat]
         /\ toCheck' \in [Workers -> SUBSET Tasks]
         /\ hadFailure' \in [Workers -> BOOLEAN]
         /\ settled' \in [Workers -> SUBSET Tasks]
         /\ \A v \in Workers : pc'[v] # "exited" => task'[v] # NoTask
<1>1. "exited" \in WorkerPcs
  BY DEF WorkerPcs
<1>2. QED
  BY <1>1 DEF TypeOK, Exit


\* Every step keeps the types.
LEMMA TypeStep ==
  ASSUME TypeOK, [Next]_vars
  PROVE  TypeOK'
<1>1. ASSUME NEW t \in Tasks, Reserve(t)
      PROVE  TypeOK'
  BY <1>1, RoundAssumption DEF Reserve, TypeOK, Rows, HashStates, WorkerPcs, Deciding
<1>2. CASE Transition
  BY <1>2 DEF Transition, TypeOK, Rows, HashStates, WorkerPcs, Deciding
<1>3. CASE TransitionConflict
  BY <1>3 DEF TransitionConflict, TypeOK, Rows, HashStates, WorkerPcs, Deciding
<1>4. ASSUME NEW w \in Workers, RecordStart(w)
      PROVE  TypeOK'
  <2>1. startTask \in Tasks
    BY <1>4 DEF RecordStart, TypeOK
  <2>2. /\ pc' \in [Workers -> WorkerPcs]
        /\ task' \in [Workers -> Tasks \cup {NoTask}]
        /\ \A v \in Workers : pc'[v] # "exited" => task'[v] # NoTask
    BY <1>4, <2>1, RoundAssumption DEF RecordStart, TypeOK, WorkerPcs
  <2>3. /\ batch' \subseteq Tasks /\ failedIds' \subseteq Tasks
        /\ generation' \in Nat /\ open' \in BOOLEAN
    BY <1>4, <2>1 DEF RecordStart, Opened, TypeOK
  <2>4. settled' \in [Workers -> SUBSET Tasks]
    BY <1>4 DEF RecordStart, TypeOK
  <2>5. QED
    BY <1>4, <2>2, <2>3, <2>4 DEF RecordStart, TypeOK
<1>5. ASSUME NEW w \in Workers, Prepare(w)
      PROVE  TypeOK'
  BY <1>5 DEF Prepare, Step, TypeOK, Rows, HashStates, WorkerPcs, Deciding
<1>6. ASSUME NEW w \in Workers, PrepareFails(w)
      PROVE  TypeOK'
  <2>1. status' \in [Tasks -> Rows]
    BY <1>6 DEF PrepareFails, ConvergedTo, TypeOK, Rows
  <2>2. QED
    BY <1>6, <2>1, TypeExit DEF PrepareFails, TypeOK
<1>7. ASSUME NEW w \in Workers, EngineCompletes(w)
      PROVE  TypeOK'
  <2>1. status' \in [Tasks -> Rows] /\ seeding' \subseteq Tasks
    BY <1>7, RoundAssumption DEF EngineCompletes, Step, TypeOK, Rows
  <2>2. QED
    BY <1>7, <2>1 DEF EngineCompletes, Step, TypeOK, WorkerPcs
<1>8. ASSUME NEW w \in Workers, EngineFails(w)
      PROVE  TypeOK'
  BY <1>8 DEF EngineFails, Step, TypeOK, Rows, HashStates, WorkerPcs, Deciding
<1>9. ASSUME NEW w \in Workers, RecordFailure(w)
      PROVE  TypeOK'
  <2>1. failedIds' \subseteq Tasks
    BY <1>9 DEF RecordFailure, Step, TypeOK
  <2>2. QED
    BY <1>9, <2>1 DEF RecordFailure, Step, TypeOK, WorkerPcs, Deciding
<1>10. ASSUME NEW w \in Workers, Converge(w)
      PROVE  TypeOK'
  BY <1>10 DEF Converge, Step, ConvergedTo, TypeOK, Rows, HashStates, WorkerPcs, Deciding
<1>11. ASSUME NEW w \in Workers, Release(w)
      PROVE  TypeOK'
  BY <1>11 DEF Release, Step, AfterRelease, TypeOK, Rows, HashStates, WorkerPcs, Deciding
<1>12. ASSUME NEW w \in Workers, Verify(w)
      PROVE  TypeOK'
  BY <1>12 DEF Verify, Step, TypeOK, Rows, HashStates, WorkerPcs, Deciding
<1>13. ASSUME NEW w \in Workers, RecordMismatch(w)
      PROVE  TypeOK'
  <2>1. failedIds' \subseteq Tasks
    BY <1>13 DEF RecordMismatch, Step, TypeOK
  <2>2. QED
    BY <1>13, <2>1 DEF RecordMismatch, Step, TypeOK, WorkerPcs, Deciding
<1>14. ASSUME NEW t \in Tasks, NEW w \in Workers, SeedingEnds(t, w)
      PROVE  TypeOK'
  BY <1>14, RoundAssumption DEF SeedingEnds, TypeOK, Rows, HashStates, WorkerPcs, Deciding
<1>15. ASSUME NEW w \in Workers, GateSeeds(w)
      PROVE  TypeOK'
  <2>1. CASE Exit(w)
    <3>1. UNCHANGED <<rowVars, slots, seeding, startVars, generation, failedIds, batch, resumes>> /\ open' \in BOOLEAN
      BY <1>15 DEF GateSeeds, Gate, TypeOK
    <3>2. QED
      BY <2>1, <3>1, TypeExit DEF TypeOK
  <2>2. CASE ~Exit(w)
    BY <1>15, <2>2 DEF GateSeeds, Gate, TypeOK, WorkerPcs, Deciding
  <2>3. QED
    BY <2>1, <2>2
<1>16. ASSUME NEW w \in Workers, GateSlots(w)
      PROVE  TypeOK'
  <2>1. CASE Exit(w)
    <3>1. UNCHANGED <<rowVars, slots, seeding, startVars, generation, failedIds, batch, resumes>> /\ open' \in BOOLEAN
      BY <1>16 DEF GateSlots, TypeOK
    <3>2. QED
      BY <2>1, <3>1, TypeExit DEF TypeOK
  <2>2. CASE ~Exit(w)
    BY <1>16, <2>2 DEF GateSlots, TypeOK, WorkerPcs, Deciding
  <2>3. QED
    BY <2>1, <2>2
<1>17. ASSUME NEW w \in Workers, GateQueue(w)
      PROVE  TypeOK'
  <2>1. CASE Exit(w)
    <3>1. UNCHANGED <<rowVars, slots, seeding, startVars, generation, failedIds, batch, resumes>> /\ open' \in BOOLEAN
      BY <1>17 DEF GateQueue, Gate, TypeOK
    <3>2. QED
      BY <2>1, <3>1, TypeExit DEF TypeOK
  <2>2. CASE ~Exit(w)
    BY <1>17, <2>2 DEF GateQueue, Gate, TypeOK, WorkerPcs, Deciding
  <2>3. QED
    BY <2>1, <2>2
<1>18. ASSUME NEW w \in Workers, GateHashes(w)
      PROVE  TypeOK'
  <2>1. CASE Exit(w)
    <3>1. UNCHANGED <<rowVars, slots, seeding, startVars, generation, failedIds, batch, resumes>> /\ open' \in BOOLEAN
      BY <1>18 DEF GateHashes, Gate, TypeOK
    <3>2. QED
      BY <2>1, <3>1, TypeExit DEF TypeOK
  <2>2. CASE ~Exit(w)
    BY <1>18, <2>2 DEF GateHashes, Gate, TypeOK, WorkerPcs, Deciding
  <2>3. QED
    BY <2>1, <2>2
<1>19. ASSUME NEW w \in Workers, Snapshot(w)
      PROVE  TypeOK'
  <2>1. CASE Exit(w)
    <3>1. UNCHANGED <<rowVars, slots, seeding, startVars, generation, failedIds, batch, resumes>> /\ open' \in BOOLEAN
      BY <1>19 DEF Snapshot, TypeOK
    <3>2. QED
      BY <2>1, <3>1, TypeExit DEF TypeOK
  <2>2. CASE ~Exit(w)
    BY <1>19, <2>2 DEF Snapshot, TypeOK, WorkerPcs, Deciding
  <2>3. QED
    BY <2>1, <2>2
<1>20. ASSUME NEW w \in Workers, Recheck(w)
      PROVE  TypeOK'
  <2>1. pc' \in [Workers -> WorkerPcs] /\ hadFailure' \in [Workers -> BOOLEAN]
    BY <1>20 DEF Recheck, TypeOK, WorkerPcs, Deciding
  <2>2. toCheck' \in [Workers -> SUBSET Tasks]
    BY <1>20 DEF Recheck, TypeOK
  <2>3. \A v \in Workers : pc'[v] # "exited" => task'[v] # NoTask
    BY <1>20 DEF Recheck, TypeOK
  <2>4. QED
    BY <1>20, <2>1, <2>2, <2>3 DEF Recheck, TypeOK
<1>21. ASSUME NEW w \in Workers, Close(w)
      PROVE  TypeOK'
  <2>1. CASE Exit(w)
    <3>1. UNCHANGED <<rowVars, slots, seeding, startVars, generation, failedIds, batch, resumes>> /\ open' \in BOOLEAN
      BY <1>21 DEF Close, MayClose, TypeOK
    <3>2. QED
      BY <2>1, <3>1, TypeExit DEF TypeOK
  <2>2. CASE ~Exit(w)
    BY <1>21, <2>2 DEF Close, MayClose, TypeOK, WorkerPcs, Deciding
  <2>3. QED
    BY <2>1, <2>2
<1>22. ASSUME NEW w \in Workers, Act(w)
      PROVE  TypeOK'
  <2>1. UNCHANGED <<rowVars, slots, seeding, startVars, roundVars, resumes>> /\ Exit(w)
    BY <1>22 DEF Act
  <2>2. QED
    BY <2>1, TypeExit DEF TypeOK
<1>23. ASSUME NEW t \in Tasks, Stop(t)
      PROVE  TypeOK'
  <2>1. status' \in [Tasks -> Rows]
    BY <1>23 DEF Stop, TypeOK, Rows
  <2>2. CASE UNCHANGED <<slots, workVars, decideVars>>
    BY <1>23, <2>1, <2>2 DEF Stop, TypeOK
  <2>3. CASE \E w \in Workers : slots' = slots \ {t} /\ Exit(w)
    BY <1>23, <2>1, <2>3, TypeExit DEF Stop, TypeOK
  <2>4. QED
    BY <1>23, <2>2, <2>3 DEF Stop
<1>24. ASSUME NEW t \in Tasks, Resume(t)
      PROVE  TypeOK'
  BY <1>24 DEF Resume, TypeOK, Rows, HashStates, WorkerPcs, Deciding
<1>25. ASSUME NEW t \in Tasks, Delete(t)
      PROVE  TypeOK'
  BY <1>25 DEF Delete, TypeOK, Rows, HashStates, WorkerPcs, Deciding
<1>26. ASSUME NEW t \in Tasks, RetryDue(t)
      PROVE  TypeOK'
  BY <1>26 DEF RetryDue, TypeOK, Rows, HashStates, WorkerPcs, Deciding
<1>27. CASE UNCHANGED vars
  BY <1>27 DEF vars, TypeOK
<1>28. QED
  BY <1>1, <1>2, <1>3, <1>4, <1>5, <1>6, <1>7, <1>8, <1>9, <1>10, <1>11,
     <1>12, <1>13, <1>14, <1>15, <1>16, <1>17, <1>18, <1>19, <1>20, <1>21,
     <1>22, <1>23, <1>24, <1>25, <1>26, <1>27 DEF Next, StartStep, RunStep,
     DecideStep, UserStep, SeedStep


----
(* The invariant, one part per layer. *)

\* A snapshot is never ahead of the round, and a round that was decided is
\* closed or has grown since.
Generations ==
  \A w \in Workers :
    /\ pc[w] \in {"recheck", "close", "act"} => snapGen[w] <= generation
    /\ pc[w] = "act" => snapGen[w] < generation \/ ~open

\* A run holds its slot until it releases it; tasks are run once at a time.
Running == {"prepare", "engine", "record", "converge", "release"}
Runs ==
  /\ startPc # "idle" => startTask \in slots
  /\ startPc = "started" => status[startTask] = "downloading"
  /\ \A w \in Workers : pc[w] \in Running =>
       /\ task[w] \in slots
       /\ startPc # "idle" => task[w] # startTask
       /\ pc[w] # "release" => status[task[w]] = "downloading"
  /\ \A v, w \in Workers :
       v # w /\ pc[v] \in Running /\ pc[w] \in Running => task[v] # task[w]

\* A run that succeeded leaves a completed row, whose checksum is pending until
\* this run has verified it.
Finishing(w) == (pc[w] = "release" /\ ~failed[w]) \/ pc[w] = "verify"
Outcomes ==
  /\ \A w \in Workers :
       /\ pc[w] \in {"exited", "prepare", "engine"} => ~failed[w]
       /\ pc[w] \in {"record", "converge"} => failed[w]
       /\ Finishing(w) => /\ status[task[w]] = "completed"
                          /\ task[w] \in Checked => hash[task[w]] = "pending"
  /\ \A v, w \in Workers :
       v # w /\ Finishing(v) /\ Finishing(w) => task[v] # task[w]
  /\ \A t \in Checked : status[t] # "completed" => hash[t] = "pending"

\* A failed row of the batch is in the round's list.
Recorded ==
  /\ \A w \in Workers :
       pc[w] = "converge" /\ task[w] \in batch => task[w] \in failedIds
  /\ \A t \in batch : status[t] = "failed" => t \in failedIds

\* What had ended when a worker looked has not been started again.
Settled ==
  \A v, w \in Workers : \A t \in settled[w] : pc[v] \in Running => task[v] # t

\* A settled failure stays to be checked until it has been counted, unless the
\* decision is void anyway.
Counted ==
  \A w \in Workers : \A t \in settled[w] \cap batch :
    status[t] = "failed" /\ MayClose(w) =>
      /\ pc[w] = "recheck" => t \in toCheck[w]
      /\ pc[w] = "close" => hadFailure[w]

\* Past the gate no settled task is being verified.
Verified ==
  \A w \in Workers : \A t \in settled[w] \cap batch :
    pc[w] \in {"snapshot", "recheck", "close"} =>
      ~(status[t] = "completed" /\ hash[t] = "pending")

----
(* Each part is kept by every step. *)

\* Closing needs an open round of the snapshot's generation, so an earlier
\* decision of that generation is excluded.
LEMMA GenerationsStep ==
  ASSUME TypeOK, Generations, RoundDecidedOnce, [Next]_vars
  PROVE  (Generations /\ RoundDecidedOnce)'
<1> USE DEF TypeOK, Generations, RoundDecidedOnce
<1>1. ASSUME NEW t \in Tasks, Reserve(t)
      PROVE  (Generations /\ RoundDecidedOnce)'
  BY <1>1 DEF Reserve
<1>2. CASE Transition
  BY <1>2 DEF Transition
<1>3. CASE TransitionConflict
  BY <1>3 DEF TransitionConflict
<1>4. ASSUME NEW w \in Workers, RecordStart(w)
      PROVE  (Generations /\ RoundDecidedOnce)'
  BY <1>4 DEF RecordStart, Opened
<1>5. ASSUME NEW w \in Workers, Prepare(w)
      PROVE  (Generations /\ RoundDecidedOnce)'
  BY <1>5 DEF Prepare, Step
<1>6. ASSUME NEW w \in Workers, PrepareFails(w)
      PROVE  (Generations /\ RoundDecidedOnce)'
  BY <1>6 DEF PrepareFails, Exit, ConvergedTo
<1>7. ASSUME NEW w \in Workers, EngineCompletes(w)
      PROVE  (Generations /\ RoundDecidedOnce)'
  BY <1>7 DEF EngineCompletes, Step
<1>8. ASSUME NEW w \in Workers, EngineFails(w)
      PROVE  (Generations /\ RoundDecidedOnce)'
  BY <1>8 DEF EngineFails, Step
<1>9. ASSUME NEW w \in Workers, RecordFailure(w)
      PROVE  (Generations /\ RoundDecidedOnce)'
  BY <1>9 DEF RecordFailure, Step
<1>10. ASSUME NEW w \in Workers, Converge(w)
      PROVE  (Generations /\ RoundDecidedOnce)'
  BY <1>10 DEF Converge, Step, ConvergedTo
<1>11. ASSUME NEW w \in Workers, Release(w)
      PROVE  (Generations /\ RoundDecidedOnce)'
  BY <1>11 DEF Release, Step, AfterRelease
<1>12. ASSUME NEW w \in Workers, Verify(w)
      PROVE  (Generations /\ RoundDecidedOnce)'
  BY <1>12 DEF Verify, Step
<1>13. ASSUME NEW w \in Workers, RecordMismatch(w)
      PROVE  (Generations /\ RoundDecidedOnce)'
  BY <1>13 DEF RecordMismatch, Step
<1>14. ASSUME NEW t \in Tasks, NEW w \in Workers, SeedingEnds(t, w)
      PROVE  (Generations /\ RoundDecidedOnce)'
  BY <1>14 DEF SeedingEnds
<1>15. ASSUME NEW w \in Workers, GateSeeds(w)
      PROVE  (Generations /\ RoundDecidedOnce)'
  BY <1>15 DEF GateSeeds, Gate, Exit
<1>16. ASSUME NEW w \in Workers, GateSlots(w)
      PROVE  (Generations /\ RoundDecidedOnce)'
  BY <1>16 DEF GateSlots, Exit
<1>17. ASSUME NEW w \in Workers, GateQueue(w)
      PROVE  (Generations /\ RoundDecidedOnce)'
  BY <1>17 DEF GateQueue, Gate, Exit
<1>18. ASSUME NEW w \in Workers, GateHashes(w)
      PROVE  (Generations /\ RoundDecidedOnce)'
  BY <1>18 DEF GateHashes, Gate, Exit
<1>19. ASSUME NEW w \in Workers, Snapshot(w)
      PROVE  (Generations /\ RoundDecidedOnce)'
  BY <1>19 DEF Snapshot, Exit
<1>20. ASSUME NEW w \in Workers, Recheck(w)
      PROVE  (Generations /\ RoundDecidedOnce)'
  BY <1>20 DEF Recheck
<1>21. ASSUME NEW w \in Workers, Close(w)
      PROVE  (Generations /\ RoundDecidedOnce)'
  BY <1>21 DEF Close, Exit, MayClose
<1>22. ASSUME NEW w \in Workers, Act(w)
      PROVE  (Generations /\ RoundDecidedOnce)'
  BY <1>22 DEF Act, Exit
<1>23. ASSUME NEW t \in Tasks, Stop(t)
      PROVE  (Generations /\ RoundDecidedOnce)'
  BY <1>23 DEF Stop, Exit
<1>24. ASSUME NEW t \in Tasks, Resume(t)
      PROVE  (Generations /\ RoundDecidedOnce)'
  BY <1>24 DEF Resume
<1>25. ASSUME NEW t \in Tasks, Delete(t)
      PROVE  (Generations /\ RoundDecidedOnce)'
  BY <1>25 DEF Delete
<1>26. ASSUME NEW t \in Tasks, RetryDue(t)
      PROVE  (Generations /\ RoundDecidedOnce)'
  BY <1>26 DEF RetryDue
<1>27. CASE UNCHANGED vars
  BY <1>27 DEF vars
<1>28. QED
  BY <1>1, <1>2, <1>3, <1>4, <1>5, <1>6, <1>7, <1>8, <1>9, <1>10, <1>11,
     <1>12, <1>13, <1>14, <1>15, <1>16, <1>17, <1>18, <1>19, <1>20, <1>21,
     <1>22, <1>23, <1>24, <1>25, <1>26, <1>27 DEF Next, StartStep, RunStep,
     DecideStep, UserStep, SeedStep

\* A slot is reserved for one run and released by that run.
LEMMA RunsStep ==
  ASSUME TypeOK, Runs, [Next]_vars
  PROVE  Runs'
<1> USE DEF TypeOK, Runs, Running
<1>1. ASSUME NEW t \in Tasks, Reserve(t)
      PROVE  Runs'
  BY <1>1 DEF Reserve
<1>2. CASE Transition
  BY <1>2 DEF Transition
<1>3. CASE TransitionConflict
  BY <1>3 DEF TransitionConflict
<1>4. ASSUME NEW w \in Workers, RecordStart(w)
      PROVE  Runs'
  BY <1>4 DEF RecordStart, Opened
<1>5. ASSUME NEW w \in Workers, Prepare(w)
      PROVE  Runs'
  BY <1>5 DEF Prepare, Step
<1>6. ASSUME NEW w \in Workers, PrepareFails(w)
      PROVE  Runs'
  BY <1>6 DEF PrepareFails, Exit, ConvergedTo
<1>7. ASSUME NEW w \in Workers, EngineCompletes(w)
      PROVE  Runs'
  BY <1>7 DEF EngineCompletes, Step
<1>8. ASSUME NEW w \in Workers, EngineFails(w)
      PROVE  Runs'
  BY <1>8 DEF EngineFails, Step
<1>9. ASSUME NEW w \in Workers, RecordFailure(w)
      PROVE  Runs'
  BY <1>9 DEF RecordFailure, Step
<1>10. ASSUME NEW w \in Workers, Converge(w)
      PROVE  Runs'
  BY <1>10 DEF Converge, Step, ConvergedTo
<1>11. ASSUME NEW w \in Workers, Release(w)
      PROVE  Runs'
  BY <1>11 DEF Release, Step, AfterRelease
<1>12. ASSUME NEW w \in Workers, Verify(w)
      PROVE  Runs'
  BY <1>12 DEF Verify, Step
<1>13. ASSUME NEW w \in Workers, RecordMismatch(w)
      PROVE  Runs'
  BY <1>13 DEF RecordMismatch, Step
<1>14. ASSUME NEW t \in Tasks, NEW w \in Workers, SeedingEnds(t, w)
      PROVE  Runs'
  BY <1>14 DEF SeedingEnds
<1>15. ASSUME NEW w \in Workers, GateSeeds(w)
      PROVE  Runs'
  BY <1>15 DEF GateSeeds, Gate, Exit
<1>16. ASSUME NEW w \in Workers, GateSlots(w)
      PROVE  Runs'
  BY <1>16 DEF GateSlots, Exit
<1>17. ASSUME NEW w \in Workers, GateQueue(w)
      PROVE  Runs'
  BY <1>17 DEF GateQueue, Gate, Exit
<1>18. ASSUME NEW w \in Workers, GateHashes(w)
      PROVE  Runs'
  BY <1>18 DEF GateHashes, Gate, Exit
<1>19. ASSUME NEW w \in Workers, Snapshot(w)
      PROVE  Runs'
  BY <1>19 DEF Snapshot, Exit
<1>20. ASSUME NEW w \in Workers, Recheck(w)
      PROVE  Runs'
  BY <1>20 DEF Recheck
<1>21. ASSUME NEW w \in Workers, Close(w)
      PROVE  Runs'
  BY <1>21 DEF Close, Exit, MayClose
<1>22. ASSUME NEW w \in Workers, Act(w)
      PROVE  Runs'
  BY <1>22 DEF Act, Exit
<1>23. ASSUME NEW t \in Tasks, Stop(t)
      PROVE  Runs'
  BY <1>23 DEF Stop, Exit
<1>24. ASSUME NEW t \in Tasks, Resume(t)
      PROVE  Runs'
  BY <1>24 DEF Resume
<1>25. ASSUME NEW t \in Tasks, Delete(t)
      PROVE  Runs'
  BY <1>25 DEF Delete
<1>26. ASSUME NEW t \in Tasks, RetryDue(t)
      PROVE  Runs'
  BY <1>26 DEF RetryDue
<1>27. CASE UNCHANGED vars
  BY <1>27 DEF vars
<1>28. QED
  BY <1>1, <1>2, <1>3, <1>4, <1>5, <1>6, <1>7, <1>8, <1>9, <1>10, <1>11,
     <1>12, <1>13, <1>14, <1>15, <1>16, <1>17, <1>18, <1>19, <1>20, <1>21,
     <1>22, <1>23, <1>24, <1>25, <1>26, <1>27 DEF Next, StartStep, RunStep,
     DecideStep, UserStep, SeedStep

\* Only the run that completed a row verifies it.
LEMMA OutcomesStep ==
  ASSUME TypeOK, Runs, Outcomes, [Next]_vars
  PROVE  Outcomes'
<1> USE DEF TypeOK, Runs, Running, Outcomes, Finishing
<1>1. ASSUME NEW t \in Tasks, Reserve(t)
      PROVE  Outcomes'
  BY <1>1 DEF Reserve
<1>2. CASE Transition
  BY <1>2 DEF Transition
<1>3. CASE TransitionConflict
  BY <1>3 DEF TransitionConflict
<1>4. ASSUME NEW w \in Workers, RecordStart(w)
      PROVE  Outcomes'
  BY <1>4 DEF RecordStart, Opened
<1>5. ASSUME NEW w \in Workers, Prepare(w)
      PROVE  Outcomes'
  BY <1>5 DEF Prepare, Step
<1>6. ASSUME NEW w \in Workers, PrepareFails(w)
      PROVE  Outcomes'
  <2>1. /\ \A u \in Tasks : u # task[w] => status'[u] = status[u] /\ hash'[u] = hash[u]
        /\ status'[task[w]] # "completed" /\ UNCHANGED hash
        /\ task[w] \in Tasks
    BY <1>6 DEF PrepareFails, Exit, ConvergedTo
  <2>2. \A v \in Workers :
          /\ pc'[v] \in {"exited", "prepare", "engine"} => ~failed'[v]
          /\ pc'[v] \in {"record", "converge"} => failed'[v]
    BY <1>6 DEF PrepareFails, Exit, ConvergedTo
  <2>3. \A v \in Workers : Finishing(v)' => v # w /\ Finishing(v) /\ task'[v] = task[v]
    BY <1>6 DEF PrepareFails, Exit, ConvergedTo
  <2>4. \A v \in Workers : Finishing(v) /\ v # w => task[v] # task[w] /\ task[v] \in Tasks
    BY <1>6 DEF PrepareFails, Exit, ConvergedTo
  <2>5. /\ \A v \in Workers : Finishing(v)' =>
              /\ status'[task'[v]] = "completed"
              /\ task'[v] \in Checked => hash'[task'[v]] = "pending"
        /\ \A v, u \in Workers :
              v # u /\ Finishing(v)' /\ Finishing(u)' => task'[v] # task'[u]
    <3> HIDE DEF Finishing, TypeOK, Runs
    <3>1. QED
      BY <2>1, <2>3, <2>4
  <2>6. \A t \in Checked : status'[t] # "completed" => hash'[t] = "pending"
    BY <1>6, <2>1, RoundAssumption DEF PrepareFails, Exit, ConvergedTo
  <2>7. QED
    BY <2>2, <2>5, <2>6
<1>7. ASSUME NEW w \in Workers, EngineCompletes(w)
      PROVE  Outcomes'
  BY <1>7 DEF EngineCompletes, Step
<1>8. ASSUME NEW w \in Workers, EngineFails(w)
      PROVE  Outcomes'
  BY <1>8 DEF EngineFails, Step
<1>9. ASSUME NEW w \in Workers, RecordFailure(w)
      PROVE  Outcomes'
  BY <1>9 DEF RecordFailure, Step
<1>10. ASSUME NEW w \in Workers, Converge(w)
      PROVE  Outcomes'
  <2>1. /\ \A u \in Tasks : u # task[w] => status'[u] = status[u] /\ hash'[u] = hash[u]
        /\ status'[task[w]] # "completed" /\ UNCHANGED hash
        /\ task[w] \in Tasks
    BY <1>10 DEF Converge, Step, ConvergedTo
  <2>2. \A v \in Workers :
          /\ pc'[v] \in {"exited", "prepare", "engine"} => ~failed'[v]
          /\ pc'[v] \in {"record", "converge"} => failed'[v]
    BY <1>10 DEF Converge, Step, ConvergedTo
  <2>3. \A v \in Workers : Finishing(v)' => v # w /\ Finishing(v) /\ task'[v] = task[v]
    BY <1>10 DEF Converge, Step, ConvergedTo
  <2>4. \A v \in Workers : Finishing(v) /\ v # w => task[v] # task[w] /\ task[v] \in Tasks
    BY <1>10 DEF Converge, Step, ConvergedTo
  <2>5. /\ \A v \in Workers : Finishing(v)' =>
              /\ status'[task'[v]] = "completed"
              /\ task'[v] \in Checked => hash'[task'[v]] = "pending"
        /\ \A v, u \in Workers :
              v # u /\ Finishing(v)' /\ Finishing(u)' => task'[v] # task'[u]
    <3> HIDE DEF Finishing, TypeOK, Runs
    <3>1. QED
      BY <2>1, <2>3, <2>4
  <2>6. \A t \in Checked : status'[t] # "completed" => hash'[t] = "pending"
    BY <1>10, <2>1, RoundAssumption DEF Converge, Step, ConvergedTo
  <2>7. QED
    BY <2>2, <2>5, <2>6
<1>11. ASSUME NEW w \in Workers, Release(w)
      PROVE  Outcomes'
  BY <1>11 DEF Release, Step, AfterRelease
<1>12. ASSUME NEW w \in Workers, Verify(w)
      PROVE  Outcomes'
  <2>1. /\ \A u \in Tasks : u # task[w] => status'[u] = status[u] /\ hash'[u] = hash[u]
        /\ UNCHANGED status
        /\ task[w] \in Tasks
    BY <1>12 DEF Verify, Step
  <2>2. \A v \in Workers :
          /\ pc'[v] \in {"exited", "prepare", "engine"} => ~failed'[v]
          /\ pc'[v] \in {"record", "converge"} => failed'[v]
    BY <1>12 DEF Verify, Step
  <2>3. \A v \in Workers : Finishing(v)' => v # w /\ Finishing(v) /\ task'[v] = task[v]
    BY <1>12 DEF Verify, Step
  <2>4. \A v \in Workers : Finishing(v) /\ v # w => task[v] # task[w] /\ task[v] \in Tasks
    BY <1>12 DEF Verify, Step
  <2>5. /\ \A v \in Workers : Finishing(v)' =>
              /\ status'[task'[v]] = "completed"
              /\ task'[v] \in Checked => hash'[task'[v]] = "pending"
        /\ \A v, u \in Workers :
              v # u /\ Finishing(v)' /\ Finishing(u)' => task'[v] # task'[u]
    <3> HIDE DEF Finishing, TypeOK, Runs
    <3>1. QED
      BY <2>1, <2>3, <2>4
  <2>6. \A t \in Checked : status'[t] # "completed" => hash'[t] = "pending"
    BY <1>12, <2>1, RoundAssumption DEF Verify, Step
  <2>7. QED
    BY <2>2, <2>5, <2>6
<1>13. ASSUME NEW w \in Workers, RecordMismatch(w)
      PROVE  Outcomes'
  BY <1>13 DEF RecordMismatch, Step
<1>14. ASSUME NEW t \in Tasks, NEW w \in Workers, SeedingEnds(t, w)
      PROVE  Outcomes'
  BY <1>14 DEF SeedingEnds
<1>15. ASSUME NEW w \in Workers, GateSeeds(w)
      PROVE  Outcomes'
  BY <1>15 DEF GateSeeds, Gate, Exit
<1>16. ASSUME NEW w \in Workers, GateSlots(w)
      PROVE  Outcomes'
  BY <1>16 DEF GateSlots, Exit
<1>17. ASSUME NEW w \in Workers, GateQueue(w)
      PROVE  Outcomes'
  BY <1>17 DEF GateQueue, Gate, Exit
<1>18. ASSUME NEW w \in Workers, GateHashes(w)
      PROVE  Outcomes'
  BY <1>18 DEF GateHashes, Gate, Exit
<1>19. ASSUME NEW w \in Workers, Snapshot(w)
      PROVE  Outcomes'
  BY <1>19 DEF Snapshot, Exit
<1>20. ASSUME NEW w \in Workers, Recheck(w)
      PROVE  Outcomes'
  BY <1>20 DEF Recheck
<1>21. ASSUME NEW w \in Workers, Close(w)
      PROVE  Outcomes'
  BY <1>21 DEF Close, Exit, MayClose
<1>22. ASSUME NEW w \in Workers, Act(w)
      PROVE  Outcomes'
  BY <1>22 DEF Act, Exit
<1>23. ASSUME NEW t \in Tasks, Stop(t)
      PROVE  Outcomes'
  BY <1>23 DEF Stop, Exit
<1>24. ASSUME NEW t \in Tasks, Resume(t)
      PROVE  Outcomes'
  BY <1>24 DEF Resume
<1>25. ASSUME NEW t \in Tasks, Delete(t)
      PROVE  Outcomes'
  BY <1>25 DEF Delete
<1>26. ASSUME NEW t \in Tasks, RetryDue(t)
      PROVE  Outcomes'
  BY <1>26 DEF RetryDue
<1>27. CASE UNCHANGED vars
  BY <1>27 DEF vars
<1>28. QED
  BY <1>1, <1>2, <1>3, <1>4, <1>5, <1>6, <1>7, <1>8, <1>9, <1>10, <1>11,
     <1>12, <1>13, <1>14, <1>15, <1>16, <1>17, <1>18, <1>19, <1>20, <1>21,
     <1>22, <1>23, <1>24, <1>25, <1>26, <1>27 DEF Next, StartStep, RunStep,
     DecideStep, UserStep, SeedStep

\* A failure is recorded before the row says so.
LEMMA RecordedStep ==
  ASSUME TypeOK, Runs, Recorded, [Next]_vars
  PROVE  Recorded'
<1> USE DEF TypeOK, Runs, Running, Recorded
<1>1. ASSUME NEW t \in Tasks, Reserve(t)
      PROVE  Recorded'
  BY <1>1 DEF Reserve
<1>2. CASE Transition
  BY <1>2 DEF Transition
<1>3. CASE TransitionConflict
  BY <1>3 DEF TransitionConflict
<1>4. ASSUME NEW w \in Workers, RecordStart(w)
      PROVE  Recorded'
  BY <1>4 DEF RecordStart, Opened
<1>5. ASSUME NEW w \in Workers, Prepare(w)
      PROVE  Recorded'
  BY <1>5 DEF Prepare, Step
<1>6. ASSUME NEW w \in Workers, PrepareFails(w)
      PROVE  Recorded'
  BY <1>6 DEF PrepareFails, Exit, ConvergedTo
<1>7. ASSUME NEW w \in Workers, EngineCompletes(w)
      PROVE  Recorded'
  BY <1>7 DEF EngineCompletes, Step
<1>8. ASSUME NEW w \in Workers, EngineFails(w)
      PROVE  Recorded'
  BY <1>8 DEF EngineFails, Step
<1>9. ASSUME NEW w \in Workers, RecordFailure(w)
      PROVE  Recorded'
  BY <1>9 DEF RecordFailure, Step
<1>10. ASSUME NEW w \in Workers, Converge(w)
      PROVE  Recorded'
  BY <1>10 DEF Converge, Step, ConvergedTo
<1>11. ASSUME NEW w \in Workers, Release(w)
      PROVE  Recorded'
  BY <1>11 DEF Release, Step, AfterRelease
<1>12. ASSUME NEW w \in Workers, Verify(w)
      PROVE  Recorded'
  BY <1>12 DEF Verify, Step
<1>13. ASSUME NEW w \in Workers, RecordMismatch(w)
      PROVE  Recorded'
  BY <1>13 DEF RecordMismatch, Step
<1>14. ASSUME NEW t \in Tasks, NEW w \in Workers, SeedingEnds(t, w)
      PROVE  Recorded'
  BY <1>14 DEF SeedingEnds
<1>15. ASSUME NEW w \in Workers, GateSeeds(w)
      PROVE  Recorded'
  BY <1>15 DEF GateSeeds, Gate, Exit
<1>16. ASSUME NEW w \in Workers, GateSlots(w)
      PROVE  Recorded'
  BY <1>16 DEF GateSlots, Exit
<1>17. ASSUME NEW w \in Workers, GateQueue(w)
      PROVE  Recorded'
  BY <1>17 DEF GateQueue, Gate, Exit
<1>18. ASSUME NEW w \in Workers, GateHashes(w)
      PROVE  Recorded'
  BY <1>18 DEF GateHashes, Gate, Exit
<1>19. ASSUME NEW w \in Workers, Snapshot(w)
      PROVE  Recorded'
  BY <1>19 DEF Snapshot, Exit
<1>20. ASSUME NEW w \in Workers, Recheck(w)
      PROVE  Recorded'
  BY <1>20 DEF Recheck
<1>21. ASSUME NEW w \in Workers, Close(w)
      PROVE  Recorded'
  BY <1>21 DEF Close, Exit, MayClose
<1>22. ASSUME NEW w \in Workers, Act(w)
      PROVE  Recorded'
  BY <1>22 DEF Act, Exit
<1>23. ASSUME NEW t \in Tasks, Stop(t)
      PROVE  Recorded'
  BY <1>23 DEF Stop, Exit
<1>24. ASSUME NEW t \in Tasks, Resume(t)
      PROVE  Recorded'
  BY <1>24 DEF Resume
<1>25. ASSUME NEW t \in Tasks, Delete(t)
      PROVE  Recorded'
  BY <1>25 DEF Delete
<1>26. ASSUME NEW t \in Tasks, RetryDue(t)
      PROVE  Recorded'
  BY <1>26 DEF RetryDue
<1>27. CASE UNCHANGED vars
  BY <1>27 DEF vars
<1>28. QED
  BY <1>1, <1>2, <1>3, <1>4, <1>5, <1>6, <1>7, <1>8, <1>9, <1>10, <1>11,
     <1>12, <1>13, <1>14, <1>15, <1>16, <1>17, <1>18, <1>19, <1>20, <1>21,
     <1>22, <1>23, <1>24, <1>25, <1>26, <1>27 DEF Next, StartStep, RunStep,
     DecideStep, UserStep, SeedStep

\* A start takes its task out of every worker's settled tasks.
LEMMA SettledStep ==
  ASSUME TypeOK, Runs, Settled, [Next]_vars
  PROVE  Settled'
<1> USE DEF TypeOK, Runs, Running, Settled
<1>1. ASSUME NEW t \in Tasks, Reserve(t)
      PROVE  Settled'
  BY <1>1 DEF Reserve
<1>2. CASE Transition
  BY <1>2 DEF Transition
<1>3. CASE TransitionConflict
  BY <1>3 DEF TransitionConflict
<1>4. ASSUME NEW w \in Workers, RecordStart(w)
      PROVE  Settled'
  BY <1>4 DEF RecordStart, Opened
<1>5. ASSUME NEW w \in Workers, Prepare(w)
      PROVE  Settled'
  BY <1>5 DEF Prepare, Step
<1>6. ASSUME NEW w \in Workers, PrepareFails(w)
      PROVE  Settled'
  BY <1>6 DEF PrepareFails, Exit, ConvergedTo
<1>7. ASSUME NEW w \in Workers, EngineCompletes(w)
      PROVE  Settled'
  BY <1>7 DEF EngineCompletes, Step
<1>8. ASSUME NEW w \in Workers, EngineFails(w)
      PROVE  Settled'
  BY <1>8 DEF EngineFails, Step
<1>9. ASSUME NEW w \in Workers, RecordFailure(w)
      PROVE  Settled'
  BY <1>9 DEF RecordFailure, Step
<1>10. ASSUME NEW w \in Workers, Converge(w)
      PROVE  Settled'
  BY <1>10 DEF Converge, Step, ConvergedTo
<1>11. ASSUME NEW w \in Workers, Release(w)
      PROVE  Settled'
  BY <1>11 DEF Release, Step, AfterRelease
<1>12. ASSUME NEW w \in Workers, Verify(w)
      PROVE  Settled'
  BY <1>12 DEF Verify, Step
<1>13. ASSUME NEW w \in Workers, RecordMismatch(w)
      PROVE  Settled'
  BY <1>13 DEF RecordMismatch, Step
<1>14. ASSUME NEW t \in Tasks, NEW w \in Workers, SeedingEnds(t, w)
      PROVE  Settled'
  BY <1>14 DEF SeedingEnds
<1>15. ASSUME NEW w \in Workers, GateSeeds(w)
      PROVE  Settled'
  BY <1>15 DEF GateSeeds, Gate, Exit
<1>16. ASSUME NEW w \in Workers, GateSlots(w)
      PROVE  Settled'
  BY <1>16 DEF GateSlots, Exit
<1>17. ASSUME NEW w \in Workers, GateQueue(w)
      PROVE  Settled'
  BY <1>17 DEF GateQueue, Gate, Exit
<1>18. ASSUME NEW w \in Workers, GateHashes(w)
      PROVE  Settled'
  BY <1>18 DEF GateHashes, Gate, Exit
<1>19. ASSUME NEW w \in Workers, Snapshot(w)
      PROVE  Settled'
  BY <1>19 DEF Snapshot, Exit
<1>20. ASSUME NEW w \in Workers, Recheck(w)
      PROVE  Settled'
  BY <1>20 DEF Recheck
<1>21. ASSUME NEW w \in Workers, Close(w)
      PROVE  Settled'
  BY <1>21 DEF Close, Exit, MayClose
<1>22. ASSUME NEW w \in Workers, Act(w)
      PROVE  Settled'
  BY <1>22 DEF Act, Exit
<1>23. ASSUME NEW t \in Tasks, Stop(t)
      PROVE  Settled'
  BY <1>23 DEF Stop, Exit
<1>24. ASSUME NEW t \in Tasks, Resume(t)
      PROVE  Settled'
  BY <1>24 DEF Resume
<1>25. ASSUME NEW t \in Tasks, Delete(t)
      PROVE  Settled'
  BY <1>25 DEF Delete
<1>26. ASSUME NEW t \in Tasks, RetryDue(t)
      PROVE  Settled'
  BY <1>26 DEF RetryDue
<1>27. CASE UNCHANGED vars
  BY <1>27 DEF vars
<1>28. QED
  BY <1>1, <1>2, <1>3, <1>4, <1>5, <1>6, <1>7, <1>8, <1>9, <1>10, <1>11,
     <1>12, <1>13, <1>14, <1>15, <1>16, <1>17, <1>18, <1>19, <1>20, <1>21,
     <1>22, <1>23, <1>24, <1>25, <1>26, <1>27 DEF Next, StartStep, RunStep,
     DecideStep, UserStep, SeedStep

\* A settled row cannot become failed, and a start voids the decision.
LEMMA CountedStep ==
  ASSUME TypeOK, Runs, Recorded, Generations, Settled, Counted, [Next]_vars
  PROVE  Counted'
<1> USE DEF TypeOK, Runs, Running, Recorded, Generations, Settled, Counted, MayClose, Unresolved
<1>1. ASSUME NEW t \in Tasks, Reserve(t)
      PROVE  Counted'
  BY <1>1 DEF Reserve
<1>2. CASE Transition
  BY <1>2 DEF Transition
<1>3. CASE TransitionConflict
  BY <1>3 DEF TransitionConflict
<1>4. ASSUME NEW w \in Workers, RecordStart(w)
      PROVE  Counted'
  BY <1>4 DEF RecordStart, Opened
<1>5. ASSUME NEW w \in Workers, Prepare(w)
      PROVE  Counted'
  BY <1>5 DEF Prepare, Step
<1>6. ASSUME NEW w \in Workers, PrepareFails(w)
      PROVE  Counted'
  BY <1>6 DEF PrepareFails, Exit, ConvergedTo
<1>7. ASSUME NEW w \in Workers, EngineCompletes(w)
      PROVE  Counted'
  BY <1>7 DEF EngineCompletes, Step
<1>8. ASSUME NEW w \in Workers, EngineFails(w)
      PROVE  Counted'
  BY <1>8 DEF EngineFails, Step
<1>9. ASSUME NEW w \in Workers, RecordFailure(w)
      PROVE  Counted'
  BY <1>9 DEF RecordFailure, Step
<1>10. ASSUME NEW w \in Workers, Converge(w)
      PROVE  Counted'
  BY <1>10 DEF Converge, Step, ConvergedTo
<1>11. ASSUME NEW w \in Workers, Release(w)
      PROVE  Counted'
  BY <1>11 DEF Release, Step, AfterRelease
<1>12. ASSUME NEW w \in Workers, Verify(w)
      PROVE  Counted'
  BY <1>12 DEF Verify, Step
<1>13. ASSUME NEW w \in Workers, RecordMismatch(w)
      PROVE  Counted'
  BY <1>13 DEF RecordMismatch, Step
<1>14. ASSUME NEW t \in Tasks, NEW w \in Workers, SeedingEnds(t, w)
      PROVE  Counted'
  BY <1>14 DEF SeedingEnds
<1>15. ASSUME NEW w \in Workers, GateSeeds(w)
      PROVE  Counted'
  BY <1>15 DEF GateSeeds, Gate, Exit
<1>16. ASSUME NEW w \in Workers, GateSlots(w)
      PROVE  Counted'
  BY <1>16 DEF GateSlots, Exit
<1>17. ASSUME NEW w \in Workers, GateQueue(w)
      PROVE  Counted'
  BY <1>17 DEF GateQueue, Gate, Exit
<1>18. ASSUME NEW w \in Workers, GateHashes(w)
      PROVE  Counted'
  BY <1>18 DEF GateHashes, Gate, Exit
<1>19. ASSUME NEW w \in Workers, Snapshot(w)
      PROVE  Counted'
  BY <1>19 DEF Snapshot, Exit
<1>20. ASSUME NEW w \in Workers, Recheck(w)
      PROVE  Counted'
  BY <1>20 DEF Recheck
<1>21. ASSUME NEW w \in Workers, Close(w)
      PROVE  Counted'
  <2>1. UNCHANGED <<status, batch, generation>>
    BY <1>21 DEF Close
  <2>2. \A v \in Workers : pc'[v] \in {"recheck", "close"} =>
          /\ v # w /\ pc'[v] = pc[v] /\ settled'[v] = settled[v]
          /\ snapGen'[v] = snapGen[v] /\ toCheck'[v] = toCheck[v]
          /\ hadFailure'[v] = hadFailure[v]
    BY <1>21 DEF Close, Exit
  <2>3. open' => open
    BY <1>21 DEF Close
  <2>4. QED
    BY <2>1, <2>2, <2>3
<1>22. ASSUME NEW w \in Workers, Act(w)
      PROVE  Counted'
  BY <1>22 DEF Act, Exit
<1>23. ASSUME NEW t \in Tasks, Stop(t)
      PROVE  Counted'
  BY <1>23 DEF Stop, Exit
<1>24. ASSUME NEW t \in Tasks, Resume(t)
      PROVE  Counted'
  BY <1>24 DEF Resume
<1>25. ASSUME NEW t \in Tasks, Delete(t)
      PROVE  Counted'
  BY <1>25 DEF Delete
<1>26. ASSUME NEW t \in Tasks, RetryDue(t)
      PROVE  Counted'
  BY <1>26 DEF RetryDue
<1>27. CASE UNCHANGED vars
  BY <1>27 DEF vars
<1>28. QED
  BY <1>1, <1>2, <1>3, <1>4, <1>5, <1>6, <1>7, <1>8, <1>9, <1>10, <1>11,
     <1>12, <1>13, <1>14, <1>15, <1>16, <1>17, <1>18, <1>19, <1>20, <1>21,
     <1>22, <1>23, <1>24, <1>25, <1>26, <1>27 DEF Next, StartStep, RunStep,
     DecideStep, UserStep, SeedStep

\* A settled row cannot become completed, and its checksum does not become
\* pending again.
LEMMA VerifiedStep ==
  ASSUME TypeOK, Runs, Outcomes, Settled, Verified, [Next]_vars
  PROVE  Verified'
<1> USE DEF TypeOK, Runs, Running, Outcomes, Finishing, Settled, Verified, HashInFlight
<1>1. ASSUME NEW t \in Tasks, Reserve(t)
      PROVE  Verified'
  BY <1>1 DEF Reserve
<1>2. CASE Transition
  BY <1>2 DEF Transition
<1>3. CASE TransitionConflict
  BY <1>3 DEF TransitionConflict
<1>4. ASSUME NEW w \in Workers, RecordStart(w)
      PROVE  Verified'
  BY <1>4 DEF RecordStart, Opened
<1>5. ASSUME NEW w \in Workers, Prepare(w)
      PROVE  Verified'
  BY <1>5 DEF Prepare, Step
<1>6. ASSUME NEW w \in Workers, PrepareFails(w)
      PROVE  Verified'
  BY <1>6 DEF PrepareFails, Exit, ConvergedTo
<1>7. ASSUME NEW w \in Workers, EngineCompletes(w)
      PROVE  Verified'
  BY <1>7 DEF EngineCompletes, Step
<1>8. ASSUME NEW w \in Workers, EngineFails(w)
      PROVE  Verified'
  BY <1>8 DEF EngineFails, Step
<1>9. ASSUME NEW w \in Workers, RecordFailure(w)
      PROVE  Verified'
  BY <1>9 DEF RecordFailure, Step
<1>10. ASSUME NEW w \in Workers, Converge(w)
      PROVE  Verified'
  BY <1>10 DEF Converge, Step, ConvergedTo
<1>11. ASSUME NEW w \in Workers, Release(w)
      PROVE  Verified'
  BY <1>11 DEF Release, Step, AfterRelease
<1>12. ASSUME NEW w \in Workers, Verify(w)
      PROVE  Verified'
  BY <1>12 DEF Verify, Step
<1>13. ASSUME NEW w \in Workers, RecordMismatch(w)
      PROVE  Verified'
  BY <1>13 DEF RecordMismatch, Step
<1>14. ASSUME NEW t \in Tasks, NEW w \in Workers, SeedingEnds(t, w)
      PROVE  Verified'
  BY <1>14 DEF SeedingEnds
<1>15. ASSUME NEW w \in Workers, GateSeeds(w)
      PROVE  Verified'
  BY <1>15 DEF GateSeeds, Gate, Exit
<1>16. ASSUME NEW w \in Workers, GateSlots(w)
      PROVE  Verified'
  BY <1>16 DEF GateSlots, Exit
<1>17. ASSUME NEW w \in Workers, GateQueue(w)
      PROVE  Verified'
  BY <1>17 DEF GateQueue, Gate, Exit
<1>18. ASSUME NEW w \in Workers, GateHashes(w)
      PROVE  Verified'
  BY <1>18 DEF GateHashes, Gate, Exit
<1>19. ASSUME NEW w \in Workers, Snapshot(w)
      PROVE  Verified'
  BY <1>19 DEF Snapshot, Exit
<1>20. ASSUME NEW w \in Workers, Recheck(w)
      PROVE  Verified'
  BY <1>20 DEF Recheck
<1>21. ASSUME NEW w \in Workers, Close(w)
      PROVE  Verified'
  <2>1. UNCHANGED <<status, hash, batch>>
    BY <1>21 DEF Close
  <2>2. \A v \in Workers : pc'[v] \in {"snapshot", "recheck", "close"} =>
          pc'[v] = pc[v] /\ settled'[v] = settled[v]
    BY <1>21 DEF Close, Exit
  <2>3. QED
    BY <2>1, <2>2
<1>22. ASSUME NEW w \in Workers, Act(w)
      PROVE  Verified'
  BY <1>22 DEF Act, Exit
<1>23. ASSUME NEW t \in Tasks, Stop(t)
      PROVE  Verified'
  BY <1>23 DEF Stop, Exit
<1>24. ASSUME NEW t \in Tasks, Resume(t)
      PROVE  Verified'
  BY <1>24 DEF Resume
<1>25. ASSUME NEW t \in Tasks, Delete(t)
      PROVE  Verified'
  BY <1>25 DEF Delete
<1>26. ASSUME NEW t \in Tasks, RetryDue(t)
      PROVE  Verified'
  BY <1>26 DEF RetryDue
<1>27. CASE UNCHANGED vars
  BY <1>27 DEF vars
<1>28. QED
  BY <1>1, <1>2, <1>3, <1>4, <1>5, <1>6, <1>7, <1>8, <1>9, <1>10, <1>11,
     <1>12, <1>13, <1>14, <1>15, <1>16, <1>17, <1>18, <1>19, <1>20, <1>21,
     <1>22, <1>23, <1>24, <1>25, <1>26, <1>27 DEF Next, StartStep, RunStep,
     DecideStep, UserStep, SeedStep

----
\* The step into the action is close(generation), which found the round open and
\* not grown.
LEMMA CloseNeedsRound ==
  ASSUME TypeOK, NEW x \in Workers, Closes(x), [Next]_vars
  PROVE  MayClose(x)
<1> USE DEF TypeOK, Closes
<1>1. ASSUME NEW t \in Tasks, Reserve(t)
      PROVE  MayClose(x)
  BY <1>1 DEF Reserve
<1>2. CASE Transition
  BY <1>2 DEF Transition
<1>3. CASE TransitionConflict
  BY <1>3 DEF TransitionConflict
<1>4. ASSUME NEW w \in Workers, RecordStart(w)
      PROVE  MayClose(x)
  BY <1>4 DEF RecordStart, Opened
<1>5. ASSUME NEW w \in Workers, Prepare(w)
      PROVE  MayClose(x)
  BY <1>5 DEF Prepare, Step
<1>6. ASSUME NEW w \in Workers, PrepareFails(w)
      PROVE  MayClose(x)
  BY <1>6 DEF PrepareFails, Exit, ConvergedTo
<1>7. ASSUME NEW w \in Workers, EngineCompletes(w)
      PROVE  MayClose(x)
  BY <1>7 DEF EngineCompletes, Step
<1>8. ASSUME NEW w \in Workers, EngineFails(w)
      PROVE  MayClose(x)
  BY <1>8 DEF EngineFails, Step
<1>9. ASSUME NEW w \in Workers, RecordFailure(w)
      PROVE  MayClose(x)
  BY <1>9 DEF RecordFailure, Step
<1>10. ASSUME NEW w \in Workers, Converge(w)
      PROVE  MayClose(x)
  BY <1>10 DEF Converge, Step, ConvergedTo
<1>11. ASSUME NEW w \in Workers, Release(w)
      PROVE  MayClose(x)
  BY <1>11 DEF Release, Step, AfterRelease
<1>12. ASSUME NEW w \in Workers, Verify(w)
      PROVE  MayClose(x)
  BY <1>12 DEF Verify, Step
<1>13. ASSUME NEW w \in Workers, RecordMismatch(w)
      PROVE  MayClose(x)
  BY <1>13 DEF RecordMismatch, Step
<1>14. ASSUME NEW t \in Tasks, NEW w \in Workers, SeedingEnds(t, w)
      PROVE  MayClose(x)
  BY <1>14 DEF SeedingEnds
<1>15. ASSUME NEW w \in Workers, GateSeeds(w)
      PROVE  MayClose(x)
  BY <1>15 DEF GateSeeds, Gate, Exit
<1>16. ASSUME NEW w \in Workers, GateSlots(w)
      PROVE  MayClose(x)
  BY <1>16 DEF GateSlots, Exit
<1>17. ASSUME NEW w \in Workers, GateQueue(w)
      PROVE  MayClose(x)
  BY <1>17 DEF GateQueue, Gate, Exit
<1>18. ASSUME NEW w \in Workers, GateHashes(w)
      PROVE  MayClose(x)
  BY <1>18 DEF GateHashes, Gate, Exit
<1>19. ASSUME NEW w \in Workers, Snapshot(w)
      PROVE  MayClose(x)
  BY <1>19 DEF Snapshot, Exit
<1>20. ASSUME NEW w \in Workers, Recheck(w)
      PROVE  MayClose(x)
  BY <1>20 DEF Recheck
<1>21. ASSUME NEW w \in Workers, Close(w)
      PROVE  MayClose(x)
  BY <1>21 DEF Close, Exit, MayClose
<1>22. ASSUME NEW w \in Workers, Act(w)
      PROVE  MayClose(x)
  BY <1>22 DEF Act, Exit
<1>23. ASSUME NEW t \in Tasks, Stop(t)
      PROVE  MayClose(x)
  BY <1>23 DEF Stop, Exit
<1>24. ASSUME NEW t \in Tasks, Resume(t)
      PROVE  MayClose(x)
  BY <1>24 DEF Resume
<1>25. ASSUME NEW t \in Tasks, Delete(t)
      PROVE  MayClose(x)
  BY <1>25 DEF Delete
<1>26. ASSUME NEW t \in Tasks, RetryDue(t)
      PROVE  MayClose(x)
  BY <1>26 DEF RetryDue
<1>27. CASE UNCHANGED vars
  BY <1>27 DEF vars
<1>28. QED
  BY <1>1, <1>2, <1>3, <1>4, <1>5, <1>6, <1>7, <1>8, <1>9, <1>10, <1>11,
     <1>12, <1>13, <1>14, <1>15, <1>16, <1>17, <1>18, <1>19, <1>20, <1>21,
     <1>22, <1>23, <1>24, <1>25, <1>26, <1>27 DEF Next, StartStep, RunStep,
     DecideStep, UserStep, SeedStep

----
(* The theorems. *)

Inv == /\ TypeOK /\ Generations /\ RoundDecidedOnce
       /\ Runs /\ Outcomes /\ Recorded
       /\ Settled /\ Counted /\ Verified

\* The initial state satisfies every part.
LEMMA InvInit == Init => Inv
<1> SUFFICES ASSUME Init PROVE Inv
  OBVIOUS
<1>1. TypeOK
  BY TypeInit
<1>2. \A w \in Workers : pc[w] = "exited" /\ settled[w] = {} /\ ~failed[w]
  BY DEF Init
<1>3. Generations /\ RoundDecidedOnce /\ Settled /\ Counted /\ Verified
  BY <1>2 DEF Generations, RoundDecidedOnce, Settled, Counted, Verified, Running
<1>4. Runs /\ Recorded
  BY <1>2 DEF Init, Runs, Running, Recorded
<1>5. Outcomes
  BY <1>2, RoundAssumption DEF Init, Outcomes, Finishing
<1>6. QED
  BY <1>1, <1>3, <1>4, <1>5 DEF Inv

\* Every step keeps every part.
LEMMA InvStep == Inv /\ [Next]_vars => Inv'
  BY TypeStep, GenerationsStep, RunsStep, OutcomesStep, RecordedStep,
     SettledStep, CountedStep, VerifiedStep DEF Inv

\* The invariant holds of every behaviour.
THEOREM InvAlways == Spec => []Inv
  BY InvInit, InvStep, PTL DEF Spec

\* Every variable keeps its type, and a worker that is under way has a task.
THEOREM TypeCorrect == Spec => []TypeOK
<1>1. Inv => TypeOK
  BY DEF Inv
<1>2. QED
  BY <1>1, InvAlways, PTL

\* Two workers never act on one round.
THEOREM RoundDecidedOnceAlways == Spec => []RoundDecidedOnce
<1>1. Inv => RoundDecidedOnce
  BY DEF Inv
<1>2. QED
  BY <1>1, InvAlways, PTL

\* A failure whose slot was free when the worker looked counts in its decision.
THEOREM RecordedFailureCountsAlways == Spec => RecordedFailureCounts
<1> DEFINE A == \A w \in Workers :
                  Closes(w) /\ (\E t \in settled[w] \cap batch : status[t] = "failed")
                    => hadFailure[w]
<1>1. Inv /\ [Next]_vars => [A]_vars
  <2> SUFFICES ASSUME Inv, [Next]_vars, NEW w \in Workers, Closes(w),
                      NEW t \in settled[w] \cap batch, status[t] = "failed"
               PROVE  hadFailure[w]
    OBVIOUS
  <2>1. MayClose(w)
    <3>1. TypeOK
      BY DEF Inv
    <3>2. QED
      BY <3>1, CloseNeedsRound
  <2>2. QED
    BY <2>1 DEF Inv, Counted, Closes
<1>2. QED
  BY <1>1, InvAlways, PTL DEF Spec, RecordedFailureCounts

\* A worker that closes the round finds every settled checksum decided.
THEOREM VerificationHoldsActionAlways == Spec => VerificationHoldsAction
<1> DEFINE A == \A w \in Workers :
                  Closes(w) => \A t \in settled[w] \cap batch : t \notin HashInFlight
<1>1. Inv => [A]_vars
  BY DEF Inv, Verified, Closes, HashInFlight
<1>2. QED
  BY <1>1, InvAlways, PTL DEF Spec, VerificationHoldsAction
====
