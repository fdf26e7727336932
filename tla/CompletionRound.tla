---- MODULE CompletionRound ----
(***************************************************************************)
(* The round that decides the completion action (sleep, shut down, run a   *)
(* command): every supervisor whose download ended, and every seeding that *)
(* stopped, looks whether the queue is drained; the one that closes the    *)
(* round acts.  The gates read four different places one after another,    *)
(* with an await between any two, while tasks start, fail and verify.      *)
(*                                                                         *)
(* The life of a task is the one of module Scheduler, reduced to what a    *)
(* decision can see: its row, its slot and its end.  A user stop is one    *)
(* step here; its drain is modelled there.                                 *)
(***************************************************************************)
EXTENDS Naturals, FiniteSets

CONSTANTS
  Tasks, Workers, NoTask,
  Checked,          \* tasks created with an expected checksum
  Seeders,          \* torrents with seeding enabled
  IncludeFailures,  \* settings.completion_include_failures
  ResumeBudget      \* bound: tasks put back into the queue in a behaviour

ASSUME RoundAssumption ==
  /\ IsFiniteSet(Tasks)
  /\ NoTask \notin Tasks
  /\ Checked \subseteq Tasks
  /\ Seeders \subseteq Tasks
  /\ IncludeFailures \in BOOLEAN
  /\ ResumeBudget \in Nat

VARIABLES
  status, hash,                 \* the rows
  slots,                        \* the keys of the downloads map
  seeding,                      \* the controls of the seeding manager
  startPc, startTask,           \* start_task, under the scheduler's lock
  open, generation, failedIds,  \* CompletionRound
  pc, task, failed,             \* the supervisors and stopped seedings
  snapGen, toCheck, hadFailure, \* the decision a worker is making
  batch,                        \* history: tasks started since the round opened
  settled,                      \* history: tasks of the batch that had ended
                                \* when the worker found no slot taken
  resumes

rowVars   == <<status, hash>>
startVars == <<startPc, startTask>>
roundVars == <<open, generation, failedIds, batch>>
decideVars == <<snapGen, toCheck, hadFailure, settled>>
workVars  == <<pc, task, failed>>
vars == <<rowVars, slots, seeding, startVars, roundVars, workVars, decideVars,
          resumes>>

\* "waiting" is a queued row whose retry_after_at has not come; "refused" is a
\* failed row whose download never began.
Rows == {"queued", "waiting", "downloading", "completed", "failed", "refused",
         "stopped", "gone"}
HashStates == {"none", "pending", "verified", "failed"}
Deciding == {"seeds", "slots", "queue", "hashes", "snapshot", "recheck", "close"}
WorkerPcs == {"exited", "prepare", "engine", "record", "converge", "release",
              "verify", "mismatch", "act"} \cup Deciding

TypeOK ==
  /\ status \in [Tasks -> Rows]
  /\ hash \in [Tasks -> HashStates]
  /\ slots \subseteq Tasks
  /\ seeding \subseteq Tasks
  /\ startPc \in {"idle", "reserved", "started"}
  /\ startTask \in Tasks \cup {NoTask}
  /\ open \in BOOLEAN
  /\ generation \in Nat
  /\ failedIds \subseteq Tasks
  /\ pc \in [Workers -> WorkerPcs]
  /\ task \in [Workers -> Tasks \cup {NoTask}]
  /\ failed \in [Workers -> BOOLEAN]
  /\ snapGen \in [Workers -> Nat]
  /\ toCheck \in [Workers -> SUBSET Tasks]
  /\ hadFailure \in [Workers -> BOOLEAN]
  /\ batch \subseteq Tasks
  /\ settled \in [Workers -> SUBSET Tasks]
  /\ resumes \in Nat
  /\ startPc # "idle" => startTask # NoTask
  /\ \A w \in Workers : pc[w] # "exited" => task[w] # NoTask

Init ==
  /\ status = [t \in Tasks |-> "queued"]
  /\ hash = [t \in Tasks |-> IF t \in Checked THEN "pending" ELSE "none"]
  /\ slots = {}
  /\ seeding = {}
  /\ startPc = "idle"
  /\ startTask = NoTask
  /\ open = FALSE
  /\ generation = 0
  /\ failedIds = {}
  /\ pc = [w \in Workers |-> "exited"]
  /\ task = [w \in Workers |-> NoTask]
  /\ failed = [w \in Workers |-> FALSE]
  /\ snapGen = [w \in Workers |-> 0]
  /\ toCheck = [w \in Workers |-> {}]
  /\ hadFailure = [w \in Workers |-> FALSE]
  /\ batch = {}
  /\ settled = [w \in Workers |-> {}]
  /\ resumes = 0

----
(* start_task.  The scheduler's lock admits one at a time. *)

Reserve(t) ==
  /\ startPc = "idle"
  /\ status[t] = "queued"
  /\ t \notin slots
  /\ slots' = slots \cup {t}
  /\ startPc' = "reserved"
  /\ startTask' = t
  /\ UNCHANGED <<rowVars, seeding, roundVars, workVars, decideVars, resumes>>

\* The table lets a paused row start as well as a queued one; "stopped" is a
\* paused or a cancelled row.
Transition ==
  /\ startPc = "reserved"
  /\ status[startTask] \in {"queued", "stopped"}
  /\ status' = [status EXCEPT ![startTask] = "downloading"]
  /\ startPc' = "started"
  /\ UNCHANGED <<hash, slots, seeding, startTask, roundVars, workVars,
                 decideVars, resumes>>

\* The row was cancelled or has gone on after the dispatcher read it: the slot
\* goes back.
TransitionConflict ==
  /\ startPc = "reserved"
  /\ status[startTask] # "queued"
  /\ slots' = slots \ {startTask}
  /\ startPc' = "idle"
  /\ startTask' = NoTask
  /\ UNCHANGED <<rowVars, seeding, roundVars, workVars, decideVars, resumes>>

\* Fault: every start forgets the failures.
OpenedAfresh(t) ==
  /\ open' = TRUE
  /\ generation' = generation + 1
  /\ failedIds' = {}
  /\ batch' = (IF open THEN batch ELSE {}) \cup {t}

\* record_start: the first start after a decision opens a new round.
Opened(t) ==
  /\ open' = TRUE
  /\ generation' = generation + 1
  /\ failedIds' = IF open THEN failedIds ELSE {}
  /\ batch' = (IF open THEN batch ELSE {}) \cup {t}

\* record_start and the spawn of the supervisor: no await is between them.
RecordStart(w) ==
  /\ startPc = "started"
  /\ pc[w] = "exited"
  /\ Opened(startTask)
  /\ settled' = [v \in Workers |-> settled[v] \ {startTask}]
  /\ pc' = [pc EXCEPT ![w] = "prepare"]
  /\ task' = [task EXCEPT ![w] = startTask]
  /\ startPc' = "idle"
  /\ startTask' = NoTask
  /\ UNCHANGED <<rowVars, slots, seeding, failed, snapGen, toCheck, hadFailure,
                 resumes>>

----
(* The supervisor, from its start to its decision. *)

Step(w, from, to) ==
  /\ pc[w] = from
  /\ pc' = [pc EXCEPT ![w] = to]

Exit(w) ==
  /\ pc' = [pc EXCEPT ![w] = "exited"]
  /\ task' = [task EXCEPT ![w] = NoTask]
  /\ failed' = [failed EXCEPT ![w] = FALSE]
  /\ snapGen' = [snapGen EXCEPT ![w] = 0]
  /\ toCheck' = [toCheck EXCEPT ![w] = {}]
  /\ hadFailure' = [hadFailure EXCEPT ![w] = FALSE]
  /\ settled' = [settled EXCEPT ![w] = {}]

\* What converge_download_outcome writes for an error: a retry with a deadline
\* while the budget lasts, else a failure.
ConvergedTo(t, failure) ==
  IF status[t] = "downloading"
  THEN {[status EXCEPT ![t] = to] : to \in {"waiting", failure}}
  ELSE {status}

Prepare(w) ==
  /\ Step(w, "prepare", "engine")
  /\ UNCHANGED <<rowVars, slots, seeding, startVars, roundVars, task, failed,
                 decideVars, resumes>>

\* prepare_task_for_download or engine_for_task fails: the supervisor converges
\* and returns.  It neither records the failure nor decides.
PrepareFails(w) ==
  /\ pc[w] = "prepare"
  /\ status' \in ConvergedTo(task[w], "refused")
  /\ slots' = slots \ {task[w]}
  /\ Exit(w)
  /\ UNCHANGED <<hash, seeding, startVars, roundVars, resumes>>

\* The engine completed the row; a torrent hands over to its seeding before the
\* engine returns.
EngineCompletes(w) ==
  LET t == task[w] IN
  /\ Step(w, "engine", "release")
  /\ status' = IF status[t] = "downloading"
               THEN [status EXCEPT ![t] = "completed"] ELSE status
  /\ seeding' = IF t \in Seeders THEN seeding \cup {t} ELSE seeding
  /\ UNCHANGED <<hash, slots, startVars, roundVars, task, failed, decideVars,
                 resumes>>

EngineFails(w) ==
  /\ Step(w, "engine", "record")
  /\ failed' = [failed EXCEPT ![w] = TRUE]
  /\ UNCHANGED <<rowVars, slots, seeding, startVars, roundVars, task, decideVars,
                 resumes>>

\* record_failure, before the slot is released.
RecordFailure(w) ==
  /\ Step(w, "record", "converge")
  /\ failedIds' = failedIds \cup {task[w]}
  /\ UNCHANGED <<rowVars, slots, seeding, startVars, open, generation, batch,
                 task, failed, decideVars, resumes>>

Converge(w) ==
  /\ Step(w, "converge", "release")
  /\ status' \in ConvergedTo(task[w], "failed")
  /\ UNCHANGED <<hash, slots, seeding, startVars, roundVars, task, failed,
                 decideVars, resumes>>

AfterRelease(w) == IF failed[w] THEN "seeds" ELSE "verify"

\* Fault: a run that failed leaves without a decision.
ReleaseUndecided(w) ==
  /\ pc[w] = "release"
  /\ slots' = slots \ {task[w]}
  /\ IF failed[w]
     THEN Exit(w)
     ELSE /\ pc' = [pc EXCEPT ![w] = AfterRelease(w)]
          /\ UNCHANGED <<task, failed, decideVars>>
  /\ UNCHANGED <<rowVars, seeding, startVars, roundVars, resumes>>

Release(w) ==
  /\ Step(w, "release", AfterRelease(w))
  /\ slots' = slots \ {task[w]}
  /\ UNCHANGED <<rowVars, seeding, startVars, roundVars, task, failed, decideVars,
                 resumes>>

\* verify_task_hash_with_pool.  An error while the file is read leaves the row
\* pending; nothing verifies it again unless the user asks.
Verify(w) ==
  LET t == task[w] IN
  /\ pc[w] = "verify"
  /\ \/ /\ t \notin Checked
        /\ Step(w, "verify", "seeds")
        /\ UNCHANGED hash
     \/ /\ t \in Checked
        /\ Step(w, "verify", "seeds")
        /\ \E verdict \in {"verified", "pending"} :
             hash' = [hash EXCEPT ![t] = verdict]
     \/ /\ t \in Checked
        /\ Step(w, "verify", "mismatch")
        /\ hash' = [hash EXCEPT ![t] = "failed"]
  /\ UNCHANGED <<status, slots, seeding, startVars, roundVars, task, failed,
                 decideVars, resumes>>

\* A checksum mismatch is recorded like a failed download, after the verdict.
RecordMismatch(w) ==
  /\ Step(w, "mismatch", "seeds")
  /\ failedIds' = failedIds \cup {task[w]}
  /\ UNCHANGED <<rowVars, slots, seeding, startVars, open, generation, batch,
                 task, failed, decideVars, resumes>>

\* A seeding ends: its control is removed, and its task makes a decision too.
SeedingEnds(t, w) ==
  /\ t \in seeding
  /\ pc[w] = "exited"
  /\ seeding' = seeding \ {t}
  /\ pc' = [pc EXCEPT ![w] = "seeds"]
  /\ task' = [task EXCEPT ![w] = t]
  /\ UNCHANGED <<rowVars, slots, startVars, roundVars, failed, decideVars, resumes>>

----
(* maybe_emit_completion_action. *)

Gate(w, from, to, passes) ==
  /\ pc[w] = from
  /\ IF passes
     THEN /\ pc' = [pc EXCEPT ![w] = to]
          /\ UNCHANGED <<task, failed, decideVars>>
     ELSE Exit(w)
  /\ UNCHANGED <<rowVars, slots, seeding, startVars, roundVars, resumes>>

\* completion_waits_for_seeding: only a destructive action waits, and the user
\* may change the action between two decisions.
GateSeeds(w) ==
  \E destructive \in BOOLEAN :
    Gate(w, "seeds", "slots", destructive => seeding = {})

GateSlots(w) ==
  /\ pc[w] = "slots"
  /\ IF slots = {}
     THEN /\ pc' = [pc EXCEPT ![w] = "queue"]
          /\ settled' = [settled EXCEPT ![w] = batch]
          /\ UNCHANGED <<task, failed, snapGen, toCheck, hadFailure>>
     ELSE Exit(w)
  /\ UNCHANGED <<rowVars, slots, seeding, startVars, roundVars, resumes>>

GateQueue(w) ==
  Gate(w, "queue", "hashes", \A t \in Tasks : status[t] # "queued")

HashInFlight == {t \in Tasks : status[t] = "completed" /\ hash[t] = "pending"}

\* Fault: the action does not wait for checksums.
GateNoHashes(w) == Gate(w, "hashes", "snapshot", TRUE)

GateHashes(w) == Gate(w, "hashes", "snapshot", HashInFlight = {})

Snapshot(w) ==
  /\ pc[w] = "snapshot"
  /\ IF open
     THEN /\ pc' = [pc EXCEPT ![w] = "recheck"]
          /\ snapGen' = [snapGen EXCEPT ![w] = generation]
          /\ toCheck' = [toCheck EXCEPT ![w] = failedIds]
          /\ UNCHANGED <<task, failed, hadFailure, settled>>
     ELSE Exit(w)
  /\ UNCHANGED <<rowVars, slots, seeding, startVars, roundVars, resumes>>

\* A checksum mismatch counts whatever became of the row.
Unresolved(t) == status[t] \in {"failed", "refused"} \/
                 (status[t] # "gone" /\ hash[t] = "failed")

\* The loop over the recorded ids reads one row at a time and stops at the
\* first that is unresolved.
Recheck(w) ==
  /\ pc[w] = "recheck"
  /\ \/ /\ toCheck[w] = {}
        /\ pc' = [pc EXCEPT ![w] = "close"]
        /\ UNCHANGED <<toCheck, hadFailure>>
     \/ \E t \in toCheck[w] :
          IF Unresolved(t)
          THEN /\ pc' = [pc EXCEPT ![w] = "close"]
               /\ hadFailure' = [hadFailure EXCEPT ![w] = TRUE]
               /\ UNCHANGED toCheck
          ELSE /\ toCheck' = [toCheck EXCEPT ![w] = @ \ {t}]
               /\ UNCHANGED <<pc, hadFailure>>
  /\ UNCHANGED <<rowVars, slots, seeding, startVars, roundVars, task, failed,
                 snapGen, settled, resumes>>

\* Fault: only the generation is compared.
MayCloseAgain(w) == generation = snapGen[w]

\* close(generation): false unless the round is open and has not grown.
MayClose(w) == open /\ generation = snapGen[w]

Close(w) ==
  /\ pc[w] = "close"
  /\ IF MayClose(w)
     THEN /\ open' = FALSE
          /\ pc' = [pc EXCEPT ![w] = "act"]
          /\ UNCHANGED <<task, failed, decideVars>>
     ELSE /\ Exit(w)
          /\ UNCHANGED open
  /\ UNCHANGED <<rowVars, slots, seeding, startVars, generation, failedIds, batch,
                 resumes>>

\* completion_action_permitted
Permitted(w) == IncludeFailures \/ ~hadFailure[w]

\* The action is requested, or held back because of a failure.
Act(w) ==
  /\ pc[w] = "act"
  /\ Exit(w)
  /\ UNCHANGED <<rowVars, slots, seeding, startVars, roundVars, resumes>>

----
(* The user, and the deadline of a retry. *)

\* pause_task or cancel_task, which join the supervisor before they write.  A
\* supervisor that was cancelled neither records nor decides.
Stop(t) ==
  /\ status[t] \in {"queued", "waiting", "downloading"}
  /\ ~(startPc = "started" /\ startTask = t)
  /\ \/ /\ status[t] # "downloading"
        /\ UNCHANGED <<slots, workVars, decideVars>>
     \/ \E w \in Workers :
          /\ task[w] = t
          /\ pc[w] \in {"prepare", "engine"}
          /\ slots' = slots \ {t}
          /\ Exit(w)
  /\ status' = [status EXCEPT ![t] = "stopped"]
  /\ UNCHANGED <<hash, seeding, startVars, roundVars, resumes>>

\* resume_task and retry_task.
Resume(t) ==
  /\ status[t] \in {"stopped", "failed", "refused"}
  /\ resumes < ResumeBudget
  /\ resumes' = resumes + 1
  /\ status' = [status EXCEPT ![t] = "queued"]
  /\ UNCHANGED <<hash, slots, seeding, startVars, roundVars, workVars, decideVars>>

Delete(t) ==
  /\ status[t] \in {"stopped", "failed", "refused"}
  /\ status' = [status EXCEPT ![t] = "gone"]
  /\ UNCHANGED <<hash, slots, seeding, startVars, roundVars, workVars, decideVars,
                 resumes>>

RetryDue(t) ==
  /\ status[t] = "waiting"
  /\ resumes < ResumeBudget
  /\ resumes' = resumes + 1
  /\ status' = [status EXCEPT ![t] = "queued"]
  /\ UNCHANGED <<hash, slots, seeding, startVars, roundVars, workVars, decideVars>>

----
StartStep ==
  \/ \E t \in Tasks : Reserve(t)
  \/ Transition
  \/ TransitionConflict
  \/ \E w \in Workers : RecordStart(w)

RunStep(w) ==
  \/ Prepare(w) \/ PrepareFails(w)
  \/ EngineCompletes(w) \/ EngineFails(w)
  \/ RecordFailure(w) \/ Converge(w) \/ Release(w)
  \/ Verify(w) \/ RecordMismatch(w)

DecideStep(w) ==
  \/ GateSeeds(w) \/ GateSlots(w) \/ GateQueue(w) \/ GateHashes(w)
  \/ Snapshot(w) \/ Recheck(w) \/ Close(w) \/ Act(w)

UserStep(t) == Stop(t) \/ Resume(t) \/ Delete(t) \/ RetryDue(t)

SeedStep(t) == \E w \in Workers : SeedingEnds(t, w)

Next ==
  \/ StartStep
  \/ \E w \in Workers : RunStep(w) \/ DecideStep(w)
  \/ \E t \in Tasks : UserStep(t) \/ SeedStep(t)

\* Spawned futures are polled; a transfer and a seeding are assumed to end.
Fairness ==
  /\ WF_vars(StartStep)
  /\ \A w \in Workers : WF_vars(RunStep(w)) /\ WF_vars(DecideStep(w))
  /\ \A t \in Tasks : SF_vars(SeedStep(t))

Spec == Init /\ [][Next]_vars /\ Fairness

----
(* Properties. *)

\* Two workers that both act have decided different rounds: a command is never
\* run twice, and prompts are never stacked, for one batch (scheduler/mod.rs 754).
RoundDecidedOnce ==
  \A v, w \in Workers :
    v # w /\ pc[v] = "act" /\ pc[w] = "act" => snapGen[v] # snapGen[w]

Closes(w) == pc[w] = "close" /\ pc'[w] = "act"

\* A failure of a run that had released its slot when the worker looked counts
\* in its decision, whoever recorded it and however many tasks started since
\* (scheduler/mod.rs 617-619).
RecordedFailureCounts ==
  [][\A w \in Workers :
       Closes(w) /\ (\E t \in settled[w] \cap batch : status[t] = "failed")
         => hadFailure[w]]_vars

\* The action waits for the checksum of every task that had ended when the
\* worker looked at the slots (scheduler/mod.rs 1045-1051).
VerificationHoldsAction ==
  [][\A w \in Workers :
       Closes(w) => \A t \in settled[w] \cap batch : t \notin HashInFlight]_vars

\* Rows whose end decides nothing.
Unattended == {"stopped", "gone", "refused", "waiting"}

\* A batch that has drained is decided, also when its last task failed, unless
\* the user stopped or deleted a task, a preparation failed (its task is refused
\* or waits for its retry), or a verification that broke off holds the round
\* (scheduler/mod.rs 656-661).
DrainIsDecided ==
  open ~> \/ ~open
          \/ \E t \in Tasks : status[t] \in Unattended
          \/ HashInFlight # {}

\* CompletionRound, scheduler/mod.rs 822: the generation is "Bumped on every
\* start so a decision that raced a new task is dropped".
RacedDecisionIsDropped ==
  [][\A w \in Workers :
       Closes(w) => \A t \in batch : status[t] # "downloading"]_vars
====
