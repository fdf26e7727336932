----------------------------- MODULE MCBackground -----------------------------
(***************************************************************************)
(* The end of the application and the download window share no state and   *)
(* are checked in one run: `part` says which of them moves, the other      *)
(* stays in one initial state.                                             *)
(***************************************************************************)
EXTENDS AppLifecycle, ScheduleWindow

VARIABLE part

backgroundVars == <<part, vars, scheduleVars>>

Parked ==
    /\ part # "lifecycle" => \A t \in Tasks : row[t] = "queued"
    /\ part # "schedule" => enabled /\ open /\ \A t \in WinTasks : rowOf[t] = "queued"

BackgroundInit == part \in {"lifecycle", "schedule"} /\ Init /\ ScheduleInit /\ Parked

InLifecycle(step) == part = "lifecycle" /\ step /\ UNCHANGED <<part, scheduleVars>>
InSchedule(step) == part = "schedule" /\ step /\ UNCHANGED <<part, vars>>

BackgroundNext ==
    \/ part = "lifecycle" /\ Next /\ UNCHANGED <<part, scheduleVars>>
    \/ part = "schedule" /\ ScheduleNext /\ UNCHANGED <<part, vars>>

(* Fairness and ScheduleFairness, each of the part that moves.  Only one of *)
(* the disjuncts below is ever enabled, and TLC has fewer cases to look at.  *)
BackgroundFairness ==
    /\ SF_backgroundVars(InLifecycle(DispatchStep) \/ InSchedule(PauseLock("monitor")))
    /\ \A s \in Seeders : SF_backgroundVars(InLifecycle(SeederStep(s)))
    /\ \A r \in Relaunchers : SF_backgroundVars(InLifecycle(RelaunchStep(r)))
    /\ SF_backgroundVars(InLifecycle(ExitStep))
    /\ WF_backgroundVars(InLifecycle(SupervisorExit) \/ InSchedule(MonitorWakes))
    /\ \A t \in Tasks : /\ WF_backgroundVars(InLifecycle(cancelled[t] /\ RunRelease(t)))
                        /\ WF_backgroundVars(InLifecycle(seeding[t] = "stopping" /\ SeedingEnds(t)))
    /\ WF_backgroundVars(InSchedule(CheckStep("monitor")))
    /\ \A a \in Callers : WF_backgroundVars(InSchedule(PauseTimeout(a) \/ PauseApply(a)))
    /\ WF_backgroundVars(InSchedule(PassPick \/ PassStart \/ PassEnds))
    /\ \A t \in WinTasks :
          /\ WF_backgroundVars(InSchedule(RunRecovers(t)))
          /\ WF_backgroundVars(InSchedule((stopping[t] \/ rowOf[t] = "completed") /\ RunEnds(t)))

BackgroundSpec ==
    BackgroundInit /\ [][BackgroundNext]_backgroundVars /\ BackgroundFairness
=============================================================================
