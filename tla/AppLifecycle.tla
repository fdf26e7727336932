---- MODULE AppLifecycle ----
(***************************************************************************)
(* How the application stops its downloads before it exits or restarts:    *)
(* the phase of AppLifecycle, the quit_requested flag and the lifecycle    *)
(* gate, against the three ways in which an owner of files starts: the     *)
(* dispatcher, the seeding command (and the restore of seedings at         *)
(* startup, which takes the same steps), and a torrent that is handed      *)
(* over to seeding when it completes.                                      *)
(*                                                                         *)
(* Rows are reduced to what these paths read.  The choice of the dispatch  *)
(* pass is left open: any queued task may be started at any time.          *)
(***************************************************************************)
EXTENDS Naturals, FiniteSets

CONSTANTS
  Tasks,          \* task ids
  Seeders,        \* concurrent calls of update_torrent_seeding, and the restore
  Relaunchers,    \* callers of prepare_app_relaunch (updater, sleep, shutdown)
  Exit,           \* the drain that request_graceful_exit spawns
  Free,           \* the value of an unheld lock
  Dispatcher,     \* start_task as the holder of a lock
  NoTask,
  MaxSupervisors  \* bound: supervisors alive at the same time

Drainers == Relaunchers \cup {Exit}

ASSUME LifecycleAssumption ==
  /\ IsFiniteSet(Tasks)
  /\ Exit \notin Relaunchers
  /\ Seeders \cap Drainers = {}
  /\ Free \notin Seeders \cup Drainers
  /\ Dispatcher \notin Seeders \cup Drainers
  /\ Free # Dispatcher
  /\ NoTask \notin Tasks
  /\ MaxSupervisors \in Nat

VARIABLES
  phase, quit, exitCalled,      \* AppLifecycle, quit_requested, app.exit was called
  gate, taskLock,               \* the lifecycle gate and the task locks
  row, slot, cancelled,         \* tasks, their slots and the tokens of the slots
  supervisors,                  \* active_supervisors
  seeding,                      \* the controls of BtSeedingManager
  dispPc, dispTask,             \* start_task
  seedPc, seedTask,             \* the seeding commands
  drainPc                       \* the callers that drain

flagVars == <<phase, quit, exitCalled>>
taskVars == <<row, slot, cancelled, supervisors, seeding>>
dispVars == <<dispPc, dispTask>>
seedVars == <<seedPc, seedTask>>
vars == <<flagVars, gate, taskLock, taskVars, dispVars, seedVars, drainPc>>

Phases == {"running", "restartDraining", "exitDraining", "restartReady", "exitReady"}
Ready == {"restartReady", "exitReady"}
Exiting == {"exitDraining", "exitReady"}
DispPcs == {"idle", "lock", "gate", "check", "reserve"}
SeedPcs == {"idle", "gate", "check", "lock", "apply", "join"}
DrainPcs == {"idle", "claimed", "gate", "owners", "seeds", "mark",
             "fail", "reset", "prepared", "cancel", "failed"}

TypeOK ==
  /\ phase \in Phases
  /\ quit \in BOOLEAN
  /\ exitCalled \in BOOLEAN
  /\ gate \in {Free, Dispatcher} \cup Seeders \cup Drainers
  /\ taskLock \in [Tasks -> {Free, Dispatcher} \cup Seeders]
  /\ row \in [Tasks -> {"queued", "active", "completed", "stopped"}]
  /\ slot \in [Tasks -> BOOLEAN]
  /\ cancelled \in [Tasks -> BOOLEAN]
  /\ supervisors \in Nat
  /\ seeding \in [Tasks -> {"none", "on", "stopping"}]
  /\ dispPc \in DispPcs
  /\ dispTask \in Tasks \cup {NoTask}
  /\ seedPc \in [Seeders -> SeedPcs]
  /\ seedTask \in [Seeders -> Tasks \cup {NoTask}]
  /\ drainPc \in [Drainers -> DrainPcs]

Init ==
  /\ phase = "running"
  /\ quit = FALSE
  /\ exitCalled = FALSE
  /\ gate = Free
  /\ taskLock = [t \in Tasks |-> Free]
  /\ row \in [Tasks -> {"queued", "completed"}]
  /\ slot = [t \in Tasks |-> FALSE]
  /\ cancelled = [t \in Tasks |-> FALSE]
  /\ supervisors = 0
  /\ seeding = [t \in Tasks |-> "none"]
  /\ dispPc = "idle"
  /\ dispTask = NoTask
  /\ seedPc = [s \in Seeders |-> "idle"]
  /\ seedTask = [s \in Seeders |-> NoTask]
  /\ drainPc = [d \in Drainers |-> "idle"]

----
(* start_task: the task lock first, then the gate, then the two flags.       *)

DispPick(t) ==
  /\ dispPc = "idle"
  /\ ~quit
  /\ row[t] = "queued"
  /\ dispTask' = t
  /\ dispPc' = "lock"
  /\ UNCHANGED <<flagVars, gate, taskLock, taskVars, seedVars, drainPc>>

DispLock ==
  /\ dispPc = "lock"
  /\ taskLock[dispTask] = Free
  /\ taskLock' = [taskLock EXCEPT ![dispTask] = Dispatcher]
  /\ dispPc' = "gate"
  /\ UNCHANGED <<flagVars, gate, taskVars, dispTask, seedVars, drainPc>>

DispGate ==
  /\ dispPc = "gate"
  /\ gate = Free
  /\ gate' = Dispatcher
  /\ dispPc' = "check"
  /\ UNCHANGED <<flagVars, taskLock, taskVars, dispTask, seedVars, drainPc>>

\* Fault: a path of start_task that keeps the gate.
DispReturnHeld ==
  /\ taskLock' = [taskLock EXCEPT ![dispTask] = Free]
  /\ dispTask' = NoTask
  /\ dispPc' = "idle"
  /\ UNCHANGED <<flagVars, gate, seeding, seedVars, drainPc>>

\* Both guards go out of scope when start_task returns.
DispReturn ==
  /\ gate' = Free
  /\ taskLock' = [taskLock EXCEPT ![dispTask] = Free]
  /\ dispTask' = NoTask
  /\ dispPc' = "idle"
  /\ UNCHANGED <<flagVars, seeding, seedVars, drainPc>>

\* Not while the application drains; a task with a slot, a row that left the
\* queue, or a failed lookup starts nothing either.
DispSkip ==
  /\ dispPc = "check"
  /\ DispReturn
  /\ UNCHANGED <<row, slot, cancelled, supervisors>>

DispCheck ==
  /\ dispPc = "check"
  /\ phase = "running"
  /\ ~quit
  /\ ~slot[dispTask]
  /\ row[dispTask] = "queued"
  /\ dispPc' = "reserve"
  /\ UNCHANGED <<flagVars, gate, taskLock, taskVars, dispTask, seedVars, drainPc>>

\* The slot, the row and the counted supervisor; a supervisor of an earlier run
\* of the task may still be in its tail.
DispReserve ==
  /\ dispPc = "reserve"
  /\ supervisors < MaxSupervisors
  /\ slot' = [slot EXCEPT ![dispTask] = TRUE]
  /\ cancelled' = [cancelled EXCEPT ![dispTask] = FALSE]
  /\ row' = [row EXCEPT ![dispTask] = "active"]
  /\ supervisors' = supervisors + 1
  /\ DispReturn

----
(* A download and its supervisor.                                            *)

RunUnchanged == UNCHANGED <<flagVars, gate, taskLock, dispVars, seedVars, drainPc>>

\* The engine writes completed before it leaves.
RunPublish(t) ==
  /\ slot[t]
  /\ row[t] = "active"
  /\ row' = [row EXCEPT ![t] = "completed"]
  /\ RunUnchanged
  /\ UNCHANGED <<slot, cancelled, supervisors, seeding>>

\* A completed torrent hands over to seeding.  It looked at its token some
\* awaits ago, so the drain may have cancelled it in between.
HandOver(t) ==
  /\ slot[t]
  /\ row[t] = "completed"
  /\ seeding[t] = "none"
  /\ seeding' = [seeding EXCEPT ![t] = "on"]
  /\ RunUnchanged
  /\ UNCHANGED <<row, slot, cancelled, supervisors>>

\* Convergence: the outcome of the row, then the slot goes.
RunRelease(t) ==
  /\ slot[t]
  /\ slot' = [slot EXCEPT ![t] = FALSE]
  /\ cancelled' = [cancelled EXCEPT ![t] = FALSE]
  /\ \/ row[t] = "completed" /\ UNCHANGED row
     \/ row[t] = "active" /\ row' = [row EXCEPT ![t] = "stopped"]
     \/ row[t] = "active" /\ ~cancelled[t] /\ row' = [row EXCEPT ![t] = "queued"]
  /\ RunUnchanged
  /\ UNCHANGED <<supervisors, seeding>>

\* Hash verification and the completion action of a released run are over:
\* the guard that counts its supervisor is dropped.
SupervisorExit ==
  /\ supervisors > Cardinality({t \in Tasks : slot[t]})
  /\ supervisors' = supervisors - 1
  /\ RunUnchanged
  /\ UNCHANGED <<row, slot, cancelled, seeding>>

\* A seeding reaches its limit, fails, or obeys its token.
SeedingEnds(t) ==
  /\ seeding[t] # "none"
  /\ seeding' = [seeding EXCEPT ![t] = "none"]
  /\ RunUnchanged
  /\ UNCHANGED <<row, slot, cancelled, supervisors>>

\* A command of the user queues a task, or starts a completed one anew.
Requeue(t) ==
  /\ row[t] \in {"stopped", "completed"}
  /\ ~slot[t]
  /\ seeding[t] = "none"
  /\ taskLock[t] = Free
  /\ row' = [row EXCEPT ![t] = "queued"]
  /\ RunUnchanged
  /\ UNCHANGED <<slot, cancelled, supervisors, seeding>>

----
(* update_torrent_seeding: the gate first, then the task lock.               *)

SeedIssue(s, t) ==
  /\ seedPc[s] = "idle"
  /\ seedPc' = [seedPc EXCEPT ![s] = "gate"]
  /\ seedTask' = [seedTask EXCEPT ![s] = t]
  /\ UNCHANGED <<flagVars, gate, taskLock, taskVars, dispVars, drainPc>>

SeedGate(s) ==
  /\ seedPc[s] = "gate"
  /\ gate = Free
  /\ gate' = s
  /\ seedPc' = [seedPc EXCEPT ![s] = "check"]
  /\ UNCHANGED <<flagVars, taskLock, taskVars, dispVars, seedTask, drainPc>>

SeedReturn(s) ==
  /\ gate' = Free
  /\ seedPc' = [seedPc EXCEPT ![s] = "idle"]
  /\ seedTask' = [seedTask EXCEPT ![s] = NoTask]
  /\ UNCHANGED <<flagVars, dispVars, drainPc>>

\* Only quit_requested is read here, not the phase.
SeedCheck(s) ==
  /\ seedPc[s] = "check"
  /\ IF quit
     THEN SeedReturn(s) /\ UNCHANGED <<taskLock, taskVars>>
     ELSE /\ seedPc' = [seedPc EXCEPT ![s] = "lock"]
          /\ UNCHANGED <<flagVars, gate, taskLock, taskVars, dispVars, seedTask, drainPc>>

SeedLock(s) ==
  /\ seedPc[s] = "lock"
  /\ taskLock[seedTask[s]] = Free
  /\ taskLock' = [taskLock EXCEPT ![seedTask[s]] = s]
  /\ seedPc' = [seedPc EXCEPT ![s] = "apply"]
  /\ UNCHANGED <<flagVars, gate, taskVars, dispVars, seedTask, drainPc>>

SeedUnlock(s) ==
  /\ taskLock' = [taskLock EXCEPT ![seedTask[s]] = Free]
  /\ SeedReturn(s)
  /\ UNCHANGED <<row, slot, cancelled, supervisors>>

\* Enabling starts a completed torrent that does not seed yet.
SeedEnable(s) ==
  LET t == seedTask[s] IN
  /\ seedPc[s] = "apply"
  /\ row[t] = "completed"
  /\ seeding[t] = "none"
  /\ seeding' = [seeding EXCEPT ![t] = "on"]
  /\ SeedUnlock(s)

\* Another row, a second start, or files that are not valid any more: at most
\* the setting is written.
SeedNothing(s) ==
  /\ seedPc[s] = "apply"
  /\ SeedUnlock(s)
  /\ UNCHANGED seeding

\* Disabling cancels the seeding and waits for its worker, with both locks.
SeedDisable(s) ==
  LET t == seedTask[s] IN
  /\ seedPc[s] = "apply"
  /\ seeding[t] # "none"
  /\ seeding' = [seeding EXCEPT ![t] = "stopping"]
  /\ seedPc' = [seedPc EXCEPT ![s] = "join"]
  /\ UNCHANGED <<flagVars, gate, taskLock, row, slot, cancelled, supervisors,
                 dispVars, seedTask, drainPc>>

\* The worker ended, or the five seconds of grace did.
SeedJoined(s) ==
  /\ seedPc[s] = "join"
  /\ SeedUnlock(s)
  /\ UNCHANGED seeding

----
(* The drain: prepare_app_relaunch with a budget, the exit without one.      *)

DrainGoTo(d, pc) == drainPc' = [drainPc EXCEPT ![d] = pc]

DrainUnchanged == UNCHANGED <<exitCalled, taskLock, dispVars, seedVars>>

\* One compare-and-swap: only one caller claims the restart, and a caller that
\* finds the application prepared shares that preparation.
PrepareClaim(r) ==
  /\ drainPc[r] = "idle"
  /\ \/ /\ phase = "running"
        /\ phase' = "restartDraining"
        /\ DrainGoTo(r, "claimed")
     \/ /\ phase = "restartReady"
        /\ DrainGoTo(r, "prepared")
        /\ UNCHANGED phase
  /\ DrainUnchanged
  /\ UNCHANGED <<quit, gate, taskVars>>

\* An exit overrides a restart that is still draining.
ExitClaim ==
  /\ drainPc[Exit] = "idle"
  /\ phase \in {"running", "restartDraining"}
  /\ phase' = "exitDraining"
  /\ DrainGoTo(Exit, "claimed")
  /\ DrainUnchanged
  /\ UNCHANGED <<quit, gate, taskVars>>

\* ExitNow: nothing is left to drain.
ExitPrepared ==
  /\ phase \in Ready
  /\ phase' = "exitReady"
  /\ exitCalled' = TRUE
  /\ UNCHANGED <<quit, gate, taskLock, taskVars, dispVars, seedVars, drainPc>>

DrainQuit(d) ==
  /\ drainPc[d] = "claimed"
  /\ quit' = TRUE
  /\ DrainGoTo(d, "gate")
  /\ DrainUnchanged
  /\ UNCHANGED <<phase, gate, taskVars>>

CancelRuns == cancelled' = [t \in Tasks |-> slot[t]]

\* Fault: the flag is not raised again under the gate.
DrainEnterUnflagged(d) ==
  /\ drainPc[d] = "gate"
  /\ gate = Free
  /\ gate' = d
  /\ CancelRuns
  /\ DrainGoTo(d, "owners")
  /\ DrainUnchanged
  /\ UNCHANGED <<phase, quit, row, slot, supervisors, seeding>>

\* shutdown_active_downloads raises the flag again once it has the gate, since
\* a restart that was called off may have lowered it; then it cancels every slot.
DrainEnter(d) ==
  /\ drainPc[d] = "gate"
  /\ gate = Free
  /\ gate' = d
  /\ quit' = TRUE
  /\ CancelRuns
  /\ DrainGoTo(d, "owners")
  /\ DrainUnchanged
  /\ UNCHANGED <<phase, row, slot, supervisors, seeding>>

CancelSeedings ==
  seeding' = [t \in Tasks |-> IF seeding[t] = "none" THEN "none" ELSE "stopping"]

\* No slot and no supervisor: nobody is left who could hand over to seeding.
DrainOwners(d) ==
  /\ drainPc[d] = "owners"
  /\ \A t \in Tasks : ~slot[t]
  /\ supervisors = 0
  /\ CancelSeedings
  /\ DrainGoTo(d, "seeds")
  /\ DrainUnchanged
  /\ UNCHANGED <<phase, quit, gate, row, slot, cancelled, supervisors>>

\* The gate is released before the phase is written.
DrainSeeds(d) ==
  /\ drainPc[d] = "seeds"
  /\ \A t \in Tasks : seeding[t] = "none"
  /\ gate' = Free
  /\ DrainGoTo(d, "mark")
  /\ DrainUnchanged
  /\ UNCHANGED <<phase, quit, taskVars>>

\* Fault: the failure path still has the gate that it is going to take.
DrainTimeoutHeld(r) ==
  /\ drainPc[r] \in {"owners", "seeds"}
  /\ DrainGoTo(r, "fail")
  /\ DrainUnchanged
  /\ UNCHANGED <<phase, quit, gate, taskVars>>

\* The budget is spent, or the join of a seeding worker gives an error: what was
\* cancelled stays cancelled.
DrainTimeout(r) ==
  /\ drainPc[r] \in {"owners", "seeds"}
  /\ gate' = Free
  /\ DrainGoTo(r, "fail")
  /\ DrainUnchanged
  /\ UNCHANGED <<phase, quit, taskVars>>

\* Fault: the restart does not notice that an exit took over.
PrepareMarkBlind(r) ==
  /\ drainPc[r] = "mark"
  /\ phase' = "restartReady"
  /\ DrainGoTo(r, "prepared")
  /\ DrainUnchanged
  /\ UNCHANGED <<quit, gate, taskVars>>

PrepareMark(r) ==
  /\ drainPc[r] = "mark"
  /\ IF phase = "restartDraining"
     THEN phase' = "restartReady" /\ DrainGoTo(r, "prepared")
     ELSE DrainGoTo(r, "idle") /\ UNCHANGED phase
  /\ DrainUnchanged
  /\ UNCHANGED <<quit, gate, taskVars>>

\* The failure path takes the gate again, for the phase and the flag together.
PrepareFail(r) ==
  /\ drainPc[r] = "fail"
  /\ gate = Free
  /\ IF phase = "restartDraining"
     THEN phase' = "running" /\ gate' = r /\ DrainGoTo(r, "reset")
     ELSE DrainGoTo(r, "idle") /\ UNCHANGED <<phase, gate>>
  /\ DrainUnchanged
  /\ UNCHANGED <<quit, taskVars>>

\* The prepared caller could not install or shut down, or the machine woke up.
CancelIssue(r) ==
  /\ drainPc[r] = "prepared"
  /\ DrainGoTo(r, "cancel")
  /\ DrainUnchanged
  /\ UNCHANGED <<phase, quit, gate, taskVars>>

CancelPrepared(r) ==
  /\ drainPc[r] = "cancel"
  /\ gate = Free
  /\ IF phase = "restartReady"
     THEN phase' = "running" /\ gate' = r /\ DrainGoTo(r, "reset")
     ELSE DrainGoTo(r, "idle") /\ UNCHANGED <<phase, gate>>
  /\ DrainUnchanged
  /\ UNCHANGED <<quit, taskVars>>

\* Fault: the flag stays up when a restart is called off.
ResetForgotten(r) ==
  /\ drainPc[r] = "reset"
  /\ gate' = Free
  /\ DrainGoTo(r, "idle")
  /\ DrainUnchanged
  /\ UNCHANGED <<phase, quit, taskVars>>

\* The phase is running again; the flag follows, still under the gate.
Reset(r) ==
  /\ drainPc[r] = "reset"
  /\ quit' = FALSE
  /\ gate' = Free
  /\ DrainGoTo(r, "idle")
  /\ DrainUnchanged
  /\ UNCHANGED <<phase, taskVars>>

\* install, relaunch or shutdown: ExitRequested finds the phase ready.
Relaunch(r) ==
  /\ drainPc[r] = "prepared"
  /\ phase \in Ready
  /\ exitCalled' = TRUE
  /\ UNCHANGED <<phase, quit, gate, taskLock, taskVars, dispVars, seedVars, drainPc>>

\* The unbounded drain is over; set_phase does not compare; app.exit(0).
ExitMark ==
  /\ drainPc[Exit] = "mark"
  /\ phase' = "exitReady"
  /\ exitCalled' = TRUE
  /\ UNCHANGED <<quit, gate, taskLock, taskVars, dispVars, seedVars, drainPc>>

\* A seeding worker that the exit waits for panicked in its tail: the join gives
\* an error, and the exit returns.  The phase stays exitDraining.
ExitDrainFails ==
  /\ drainPc[Exit] = "seeds"
  /\ \E t \in Tasks : seeding[t] = "stopping"
  /\ gate' = Free
  /\ DrainGoTo(Exit, "failed")
  /\ DrainUnchanged
  /\ UNCHANGED <<phase, quit, taskVars>>

----
DispatchStep ==
  \/ DispLock \/ DispGate \/ DispSkip \/ DispCheck \/ DispReserve

SeederStep(s) ==
  \/ SeedGate(s) \/ SeedCheck(s) \/ SeedLock(s)
  \/ SeedEnable(s) \/ SeedNothing(s) \/ SeedDisable(s) \/ SeedJoined(s)

DrainStep(d) == DrainQuit(d) \/ DrainEnter(d) \/ DrainOwners(d) \/ DrainSeeds(d)

RelaunchStep(r) ==
  DrainStep(r) \/ DrainTimeout(r) \/ PrepareMark(r) \/ PrepareFail(r)
  \/ CancelPrepared(r) \/ Reset(r)

ExitStep == DrainStep(Exit) \/ ExitMark \/ ExitDrainFails

\* What users, engines and the clock do of themselves.
RunStep(t) == RunPublish(t) \/ HandOver(t) \/ RunRelease(t) \/ SeedingEnds(t)

CallStep ==
  \/ \E t \in Tasks : DispPick(t) \/ Requeue(t)
  \/ \E s \in Seeders, t \in Tasks : SeedIssue(s, t)
  \/ \E r \in Relaunchers : PrepareClaim(r) \/ CancelIssue(r) \/ Relaunch(r)
  \/ ExitClaim \/ ExitPrepared

\* What was spawned goes on after app.exit until the process is gone, which may
\* be at any time: a behaviour that stops there is one of these.
Next ==
  \/ DispatchStep
  \/ \E t \in Tasks : RunStep(t)
  \/ SupervisorExit
  \/ \E s \in Seeders : SeederStep(s)
  \/ \E r \in Relaunchers : RelaunchStep(r)
  \/ ExitStep
  \/ CallStep

Spec == Init /\ [][Next]_vars

\* Spawned futures are polled and tokio hands a lock over in arrival order,
\* hence strong fairness for the actors that queue for one; a cancelled run and
\* a cancelled seeding end.  Nothing obliges a user to call anything, or a
\* download that is not cancelled to end.
Fairness ==
  /\ SF_vars(DispatchStep)
  /\ \A s \in Seeders : SF_vars(SeederStep(s))
  /\ \A r \in Relaunchers : SF_vars(RelaunchStep(r))
  /\ SF_vars(ExitStep)
  /\ WF_vars(SupervisorExit)
  /\ \A t \in Tasks :
       /\ WF_vars(cancelled[t] /\ RunRelease(t))
       /\ WF_vars(seeding[t] = "stopping" /\ SeedingEnds(t))

FairSpec == Spec /\ Fairness

----
(* Safety.                                                                   *)

Drained ==
  /\ \A t \in Tasks : ~slot[t] /\ seeding[t] = "none"
  /\ supervisors = 0

\* When the application may be replaced, restarted or ended, nobody owns files:
\* no slot, no supervisor in its tail, no seeding; and the flag that keeps new
\* ones out is up, although the gate was free again before the phase says so.
ReadyIsDrained == phase \in Ready => Drained /\ quit

\* Once an exit is claimed the application never runs again, whatever a restart
\* that was draining at the time, or was prepared, still writes.
ExitIsFinal == [][(phase \in Exiting) => (phase' \in Exiting)]_vars

\* Called-off restarts leave the application serving: with the phase running
\* and no caller between its two writes, the dispatcher is not told to quit.
RunningServes ==
  phase = "running" /\ (\A d \in Drainers : drainPc[d] # "reset") => ~quit

----
(* The order of the two locks.                                               *)

\* start_task holds the task lock of t and waits for the gate; a seeding command
\* holds the gate and waits for the task lock of t.
LockCycle ==
  \E s \in Seeders :
    /\ seedPc[s] = "lock"
    /\ dispPc = "gate"
    /\ dispTask = seedTask[s]

\* "Spawning lets the caller unwind and release its lock first": no actor waits
\* for the scheduler while it keeps what the scheduler waits for.
NoLockCycle == ~LockCycle

\* An exit completes, however long the owners take to stop, unless that cycle
\* has closed or a seeding worker panicked in its tail.
ExitCompletes ==
  drainPc[Exit] = "claimed" ~>
    exitCalled \/ LockCycle \/ drainPc[Exit] = "failed"

\* A caller that prepares or calls off a restart is answered within its budget,
\* unless that cycle has closed.
RelaunchAnswers ==
  \A r \in Relaunchers :
    drainPc[r] \notin {"idle", "prepared"} ~>
      drainPc[r] \in {"idle", "prepared"} \/ LockCycle

\* Whoever asked for the end of the process learns of it: an exit completes and
\* a caller of a restart is answered.
EndingsSettle == ExitCompletes /\ RelaunchAnswers

====
