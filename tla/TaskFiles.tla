------------------------------ MODULE TaskFiles ------------------------------
(***************************************************************************)
(* The files of the tasks: the temp file of a run, its publication under   *)
(* the final name, and everybody who removes, renames or plans them - the  *)
(* startup sweep, the storage cleanup, the commands of a task, and the     *)
(* user, who has the same directory open.                                  *)
(*                                                                         *)
(* A temp file is named by the id of its task and the final name, so the   *)
(* pair stands for its path.  A run holds the paths it was given, not its  *)
(* row, and the row may be pointed elsewhere meanwhile.  The engine is the *)
(* segmented one for a task of several segments and known size; how its    *)
(* bytes arrive is HttpSegments.                                           *)
(***************************************************************************)
EXTENDS Naturals, FiniteSets

CONSTANTS
    FileTasks,      \* task ids; each is created once
    FileNames,      \* final paths
    NoFile, UserFile,
    MaxActs         \* bound: commands, acts of the user, deaths of the process

ASSUME TaskFilesAssumption ==
    /\ FileNames # {}
    /\ NoFile \notin FileTasks
    /\ UserFile \notin FileTasks \cup {NoFile}
    /\ MaxActs \in Nat

VARIABLES
    stateOf, nameOf, tempOf, progress,  \* the rows: status, final path, temp path, offsets
    temp,                               \* content of the temp file of a task and a name
    owner, hollow,                      \* whose file is at a name; which of them lack bytes
    runPc, runTemp, runName, pending,   \* the run: its paths, a file operation under way
    outcome,                            \* what the convergence of a stopped run writes
    cleanPc, believed, candidates,      \* a storage cleanup
    publishedAt, gone, disturbed,       \* history
    acts                                \* the bounded counter

fileRowVars == <<stateOf, nameOf, tempOf, progress>>
diskVars    == <<temp, owner, hollow>>
runFileVars == <<runPc, runTemp, runName, pending, outcome>>
cleanVars   == <<cleanPc, believed, candidates>>
pastVars    == <<publishedAt, gone, disturbed>>
taskFileVars == <<fileRowVars, diskVars, runFileVars, cleanVars, pastVars, acts>>

RowStatesOfFiles == {"unborn", "queued", "live", "paused", "failed", "completed", "deleted"}
Contents == {"none", "part", "whole", "broken"}
RunPcs == {"none", "page", "prepare", "probe", "write", "publish", "persist",
           "complete", "stopped"}

FilesTypeOK ==
    /\ stateOf \in [FileTasks -> RowStatesOfFiles]
    /\ nameOf \in [FileTasks -> FileNames]
    /\ tempOf \in [FileTasks -> FileNames]
    /\ progress \in [FileTasks -> {"none", "some", "all"}]
    /\ temp \in [FileTasks -> [FileNames -> Contents]]
    /\ owner \in [FileNames -> FileTasks \cup {NoFile, UserFile}]
    /\ hollow \in SUBSET FileNames
    /\ runPc \in [FileTasks -> RunPcs]
    /\ runTemp \in [FileTasks -> FileNames]
    /\ runName \in [FileTasks -> FileNames]
    /\ pending \in SUBSET FileTasks
    /\ outcome \in [FileTasks -> {"paused", "failed"}]
    /\ cleanPc \in {"idle", "list", "delete"}
    /\ believed \in SUBSET FileTasks
    /\ candidates \in SUBSET (FileTasks \X FileNames)
    /\ publishedAt \in [FileTasks -> FileNames]
    /\ gone \in SUBSET FileTasks
    /\ disturbed \in SUBSET FileTasks
    /\ acts \in Nat

Exists(t) == stateOf[t] \notin {"unborn", "deleted"}

\* The temp files that exist, by task and name.
TempFiles == {f \in FileTasks \X FileNames : temp[f[1]][f[2]] # "none"}

\* status_keeps_artifacts.
KeepsArtifacts(t) == Exists(t) /\ stateOf[t] # "completed"

FilesInit ==
    /\ stateOf = [t \in FileTasks |-> "unborn"]
    /\ nameOf = [t \in FileTasks |-> CHOOSE n \in FileNames : TRUE]
    /\ tempOf = nameOf
    /\ progress = [t \in FileTasks |-> "none"]
    /\ temp = [t \in FileTasks |-> [n \in FileNames |-> "none"]]
    /\ owner = [n \in FileNames |-> NoFile]
    /\ hollow = {}
    /\ runPc = [t \in FileTasks |-> "none"]
    /\ runTemp = nameOf
    /\ runName = nameOf
    /\ pending = {}
    /\ outcome = [t \in FileTasks |-> "failed"]
    /\ cleanPc = "idle"
    /\ believed = {}
    /\ candidates = {}
    /\ publishedAt = nameOf
    /\ gone = {}
    /\ disturbed = {}
    /\ acts = 0

----
(* Names.                                                                  *)

\* path_is_available: neither a file nor a temp file of any task is there.
PathIsFree(n) == owner[n] = NoFile /\ \A t \in FileTasks : temp[t][n] = "none"

\* idx_task_files_final_path_selected: no two rows have the same final path.
IsReserved(n, t) == \E u \in FileTasks \ {t} : Exists(u) /\ nameOf[u] = n

Act == acts < MaxActs /\ acts' = acts + 1

\* create_task: a queued row with a planned name.
Create(t, n) ==
    /\ stateOf[t] = "unborn"
    /\ PathIsFree(n)
    /\ ~IsReserved(n, t)
    /\ stateOf' = [stateOf EXCEPT ![t] = "queued"]
    /\ nameOf' = [nameOf EXCEPT ![t] = n]
    /\ tempOf' = [tempOf EXCEPT ![t] = n]
    /\ UNCHANGED <<progress, diskVars, runFileVars, cleanVars, pastVars, acts>>

----
(* A run.                                                                  *)

RunAt(t, pc) == runPc' = [runPc EXCEPT ![t] = pc]

RunFrame == UNCHANGED <<cleanVars, acts>>

\* The page of the queue that the dispatcher read: the row as it was then.
ReadPage(t) ==
    /\ stateOf[t] = "queued"
    /\ runPc[t] = "none"
    /\ RunAt(t, "page")
    /\ runTemp' = [runTemp EXCEPT ![t] = tempOf[t]]
    /\ UNCHANGED <<fileRowVars, diskVars, runName, pending, outcome, pastVars>>
    /\ RunFrame

\* start_task: the row must be able to move to Downloading.
Start(t) ==
    /\ runPc[t] = "page"
    /\ IF stateOf[t] \in {"queued", "paused"}
       THEN /\ RunAt(t, "prepare")
            /\ stateOf' = [stateOf EXCEPT ![t] = "live"]
       ELSE RunAt(t, "none") /\ UNCHANGED stateOf
    /\ UNCHANGED <<nameOf, tempOf, progress, diskVars, runTemp, runName, pending, outcome,
                   pastVars>>
    /\ RunFrame

\* Fault: the temp file is not looked for.
ProgressWithoutFileIgnored(t) == FALSE

\* segment_resume_error, temp_file_missing: progress without a temp file at
\* the path of the page.
ProgressWithoutFile(t) == progress[t] # "none" /\ temp[t][runTemp[t]] = "none"

\* prepare_task_for_download looks at the temp file and fails the row, or asks
\* the server whether the file is still the same.
PrepareFiles(t) ==
    /\ runPc[t] = "prepare"
    /\ IF ProgressWithoutFile(t)
       THEN /\ RunAt(t, "none")
            /\ stateOf' = [stateOf EXCEPT ![t] = "failed"]
       ELSE RunAt(t, "probe") /\ UNCHANGED stateOf
    /\ UNCHANGED <<nameOf, tempOf, progress, diskVars, runTemp, runName, pending, outcome,
                   pastVars>>
    /\ RunFrame

\* prepare returns the row as it is now, and the engine starts with its paths:
\* without progress the temp file is removed, then it is opened or created.
OpenTemp(t) ==
    /\ runPc[t] = "probe"
    /\ RunAt(t, "write")
    /\ runTemp' = [runTemp EXCEPT ![t] = tempOf[t]]
    /\ runName' = [runName EXCEPT ![t] = nameOf[t]]
    /\ temp' = [temp EXCEPT ![t][tempOf[t]] =
                 IF progress[t] = "none" THEN "part" ELSE IF @ = "none" THEN "broken" ELSE @]
    /\ UNCHANGED <<fileRowVars, owner, hollow, pending, outcome, pastVars>>
    /\ RunFrame

\* A worker submits a file operation: it holds the temp file open, or opens it.
Submit(t) ==
    /\ runPc[t] = "write"
    /\ progress[t] # "all"
    /\ t \notin pending
    /\ pending' = pending \cup {t}
    /\ UNCHANGED <<fileRowVars, diskVars, runPc, runTemp, runName, outcome, pastVars>>
    /\ RunFrame

\* What the temp file is after bytes were written at their offset, the last
\* missing ones if `all`.  A removed file takes them unseen while its worker
\* still holds it; a worker that opens it afresh creates it without the rest.
Written(content, all) ==
    IF content = "part" /\ all THEN {"whole"}
    ELSE IF content = "none" THEN {"none", "broken"}
    ELSE {content}

\* A cancelled engine waits for its workers and records what they report, a
\* failed one drops them.
Records(t) == runPc[t] = "write" \/ outcome[t] = "paused"

Land(t) ==
    /\ t \in pending
    /\ pending' = pending \ {t}
    /\ \E all \in BOOLEAN : \E content \in Written(temp[t][runTemp[t]], all) :
         /\ temp' = [temp EXCEPT ![t][runTemp[t]] = content]
         /\ progress' = IF Records(t)
                        THEN [progress EXCEPT ![t] = IF all THEN "all" ELSE "some"]
                        ELSE progress
    /\ UNCHANGED <<stateOf, nameOf, tempOf, owner, hollow, runPc, runTemp, runName, outcome,
                   pastVars>>
    /\ RunFrame

\* Every segment is complete; the length of the temp file is the expected one.
\* A file that lacks bytes may have it: it was preallocated, or its last bytes
\* were written.
Finish(t) ==
    /\ runPc[t] = "write"
    /\ progress[t] = "all"
    /\ t \notin pending
    /\ temp[t][runTemp[t]] \in {"whole", "broken"}
    /\ RunAt(t, "publish")
    /\ UNCHANGED <<fileRowVars, diskVars, runTemp, runName, pending, outcome, pastVars>>
    /\ RunFrame

\* Fault: an existing file is replaced.
PublishOver(t) ==
    /\ runPc[t] = "publish"
    /\ temp[t][runTemp[t]] # "none"
    /\ RunAt(t, "persist")
    /\ temp' = [temp EXCEPT ![t][runTemp[t]] = "none"]
    /\ owner' = [owner EXCEPT ![runName[t]] = t]
    /\ hollow' = IF temp[t][runTemp[t]] = "whole" THEN hollow \ {runName[t]}
                 ELSE hollow \cup {runName[t]}
    /\ publishedAt' = [publishedAt EXCEPT ![t] = runName[t]]
    /\ gone' = gone \ {t}
    /\ UNCHANGED <<fileRowVars, runTemp, runName, pending, outcome, disturbed>>
    /\ RunFrame

\* rename_noreplace; with a file at the final path it is final_path_conflict.
Publish(t) ==
    /\ owner[runName[t]] = NoFile
    /\ PublishOver(t)

\* persist_completed_path: the row takes the path that the run published.
Persist(t) ==
    /\ runPc[t] = "persist"
    /\ ~IsReserved(runName[t], t)
    /\ RunAt(t, "complete")
    /\ nameOf' = [nameOf EXCEPT ![t] = runName[t]]
    /\ UNCHANGED <<stateOf, tempOf, progress, diskVars, runTemp, runName, pending, outcome,
                   pastVars>>
    /\ RunFrame

\* complete_task, and the end of the run.
Complete(t) ==
    /\ runPc[t] = "complete"
    /\ RunAt(t, "none")
    /\ stateOf' = [stateOf EXCEPT ![t] = IF @ = "live" THEN "completed" ELSE @]
    /\ UNCHANGED <<nameOf, tempOf, progress, diskVars, runTemp, runName, pending, outcome,
                   pastVars>>
    /\ RunFrame

StopAs(t, result) ==
    /\ RunAt(t, "stopped")
    /\ outcome' = [outcome EXCEPT ![t] = result]
    /\ UNCHANGED <<fileRowVars, diskVars, runTemp, runName, pending, pastVars>>
    /\ RunFrame

\* A pause cancels the run; past its last look at the token it goes on.
Cancel(t) == runPc[t] \in {"prepare", "probe", "write"} /\ StopAs(t, "paused")

\* Any step of a run may fail: the probe, a worker, the length, the rename, the
\* database.
Fail(t) == runPc[t] \notin {"none", "page", "stopped"} /\ StopAs(t, "failed")

\* Fault: the run is converged while a file operation of it is under way.
ConvergeAtOnce(t) ==
    /\ runPc[t] = "stopped"
    /\ RunAt(t, "none")
    /\ stateOf' = [stateOf EXCEPT ![t] = IF @ = "live" THEN outcome[t] ELSE @]
    /\ UNCHANGED <<nameOf, tempOf, progress, diskVars, runTemp, runName, pending, outcome,
                   pastVars>>
    /\ RunFrame

\* run_owned returns when no lease is held; then the outcome is written.
Converge(t) ==
    /\ t \notin pending
    /\ ConvergeAtOnce(t)

----
(* The process ends and starts again.                                      *)

\* resolve_ownership for a temp file, which carries the id of its task.
Swept(t) == ~KeepsArtifacts(t)

\* sweep_orphan_artifacts before anything runs, over the directories it knows
\* and as far as the removals succeed; then the interrupted rows are queued.
Restarted ==
    /\ Act
    /\ \E S \in SUBSET {f \in TempFiles : Swept(f[1])} :
         temp' = [t \in FileTasks |-> [n \in FileNames |->
                     IF <<t, n>> \in S THEN "none" ELSE temp[t][n]]]
    /\ stateOf' = [t \in FileTasks |-> IF stateOf[t] = "live" THEN "queued" ELSE stateOf[t]]
    /\ runPc' = [t \in FileTasks |-> "none"]
    /\ pending' = {}
    /\ cleanPc' = "idle"
    /\ believed' = {}
    /\ candidates' = {}
    /\ UNCHANGED <<nameOf, tempOf, progress, owner, hollow, runTemp, runName, outcome, pastVars>>

----
(* Commands of a task.  They hold its lock, and those that take files away  *)
(* have cancelled and drained its run.                                      *)

CommandFrame == UNCHANGED <<runFileVars, cleanVars>>

Idle(t) == runPc[t] \in {"none", "page"}

Retry(t) ==
    /\ stateOf[t] \in {"paused", "failed"}
    /\ Act
    /\ stateOf' = [stateOf EXCEPT ![t] = "queued"]
    /\ UNCHANGED <<nameOf, tempOf, progress, diskVars, pastVars>>
    /\ CommandFrame

\* update_recovery_target, for a row of any status and without a drain: the row
\* is pointed to another free name, the temp file stays where it is.  Then the
\* row is queued, if it can be.
Retarget(t, n) ==
    /\ Exists(t)
    /\ PathIsFree(n)
    /\ ~IsReserved(n, t)
    /\ Act
    /\ nameOf' = [nameOf EXCEPT ![t] = n]
    /\ tempOf' = [tempOf EXCEPT ![t] = n]
    /\ stateOf' = [stateOf EXCEPT ![t] = IF @ \in {"paused", "failed"} THEN "queued" ELSE @]
    /\ disturbed' = IF runPc[t] = "none" THEN disturbed ELSE disturbed \cup {t}
    /\ UNCHANGED <<progress, diskVars, publishedAt, gone>>
    /\ CommandFrame

\* restart_task_from_beginning: the temp file is removed if that succeeds; the
\* rows are reset if the probe that follows does.
RestartTask(t) ==
    /\ Exists(t)
    /\ Idle(t)
    /\ Act
    /\ \E removed, probed \in BOOLEAN :
         /\ temp' = [temp EXCEPT ![t][tempOf[t]] = IF removed THEN "none" ELSE @]
         /\ progress' = [progress EXCEPT ![t] = IF probed THEN "none" ELSE @]
         /\ stateOf' = [stateOf EXCEPT ![t] = IF probed THEN "queued" ELSE @]
    /\ UNCHANGED <<nameOf, tempOf, owner, hollow, pastVars>>
    /\ CommandFrame

\* cleanup_task_temp_files: the temp file goes (a removal that fails changes
\* nothing), the offsets stay.
CleanTask(t) ==
    /\ stateOf[t] \in {"paused", "failed"}
    /\ Act
    /\ temp' = [temp EXCEPT ![t][tempOf[t]] = "none"]
    /\ UNCHANGED <<fileRowVars, owner, hollow, pastVars>>
    /\ CommandFrame

\* A file leaves a final name.
Leaves(n) ==
    /\ owner' = [owner EXCEPT ![n] = NoFile]
    /\ hollow' = hollow \ {n}
    /\ gone' = gone \cup {t \in FileTasks : owner[n] = t /\ publishedAt[t] = n}

\* TaskDeletion: with files the temp file and whatever lies at the final path of
\* the row are removed, and the row is kept when one of the removals fails.
DeleteTask(t) ==
    /\ Exists(t)
    /\ Idle(t)
    /\ Act
    /\ \E withTemp, withFile, failed \in BOOLEAN :
         /\ withTemp # withFile => failed
         /\ temp' = IF withTemp THEN [temp EXCEPT ![t][tempOf[t]] = "none"] ELSE temp
         /\ IF withFile THEN Leaves(nameOf[t]) ELSE UNCHANGED <<owner, hollow, gone>>
         /\ stateOf' = [stateOf EXCEPT ![t] =
                          IF ~failed THEN "deleted" ELSE IF @ = "queued" THEN "paused" ELSE @]
    /\ UNCHANGED <<nameOf, tempOf, progress, publishedAt, disturbed>>
    /\ CommandFrame

----
(* The storage cleanup.  It holds no task lock.                            *)

CleanFrame ==
    /\ UNCHANGED <<fileRowVars, owner, hollow, publishedAt, gone>>
    /\ UNCHANGED runFileVars

\* scan_storage_impl reads which tasks keep their artifacts ...
CleanScanRows ==
    /\ cleanPc = "idle"
    /\ Act
    /\ cleanPc' = "list"
    /\ believed' = {t \in FileTasks : KeepsArtifacts(t)}
    /\ UNCHANGED <<candidates, temp, disturbed>>
    /\ CleanFrame

\* ... and lists the directories afterwards.
CleanList ==
    /\ cleanPc = "list"
    /\ cleanPc' = "delete"
    /\ candidates' = {f \in TempFiles : f[1] \notin believed}
    /\ UNCHANGED <<believed, temp, disturbed, acts>>
    /\ CleanFrame

\* The candidates go by their paths, without another look at the rows.
CleanDelete(t, n) ==
    /\ cleanPc = "delete"
    /\ <<t, n>> \in candidates
    /\ candidates' = candidates \ {<<t, n>>}
    /\ temp' = [temp EXCEPT ![t][n] = "none"]
    /\ disturbed' = IF runPc[t] \in {"none", "page"} THEN disturbed ELSE disturbed \cup {t}
    /\ UNCHANGED <<cleanPc, believed, acts>>
    /\ CleanFrame

\* What could not be removed, or was not chosen, stays.
CleanEnd ==
    /\ cleanPc = "delete"
    /\ cleanPc' = "idle"
    /\ believed' = {}
    /\ candidates' = {}
    /\ UNCHANGED <<temp, disturbed, acts>>
    /\ CleanFrame

----
(* The user in the directory.                                              *)

UserFrame ==
    /\ UNCHANGED <<fileRowVars, temp, publishedAt, disturbed>>
    /\ UNCHANGED <<runFileVars, cleanVars>>

UserPlaces(n) ==
    /\ owner[n] = NoFile
    /\ Act
    /\ owner' = [owner EXCEPT ![n] = UserFile]
    /\ UNCHANGED <<hollow, gone>>
    /\ UserFrame

UserRemoves(n) ==
    /\ owner[n] # NoFile
    /\ Act
    /\ Leaves(n)
    /\ UserFrame

----
FilesNext ==
    \/ \E t \in FileTasks :
         \/ \E n \in FileNames : Create(t, n) \/ Retarget(t, n) \/ CleanDelete(t, n)
         \/ ReadPage(t) \/ Start(t) \/ PrepareFiles(t) \/ OpenTemp(t)
         \/ Submit(t) \/ Land(t) \/ Finish(t) \/ Publish(t) \/ Persist(t) \/ Complete(t)
         \/ Cancel(t) \/ Fail(t) \/ Converge(t)
         \/ Retry(t) \/ RestartTask(t) \/ CleanTask(t) \/ DeleteTask(t)
    \/ Restarted
    \/ CleanScanRows \/ CleanList \/ CleanEnd
    \/ \E n \in FileNames : UserPlaces(n) \/ UserRemoves(n)

FilesSpec == FilesInit /\ [][FilesNext]_taskFileVars

----
(* Properties.                                                             *)

\* A file under a final name has all its bytes unless, while its task ran, the
\* row was pointed elsewhere or the cleanup took its temp file (those are the
\* open windows, WholeFiles below): no crash, sweep, cleanup of a task, failed
\* restart or failed deletion leads to a hole.  A completed task has its file
\* where it published it until somebody removes that file.
FilesAreSound ==
    /\ \A n \in hollow : owner[n] \in disturbed
    /\ \A t \in FileTasks :
         stateOf[t] = "completed" => owner[publishedAt[t]] = t \/ t \in gone

\* A temp file appears only for a run of a live row - no write that was under
\* way when the run stopped recreates the file that a command has removed since
\* (run_owned waits for the leases) - and a file under a final name is never
\* replaced by another, only removed.
WritesAreOwned ==
    [][ /\ \A n \in FileNames, t \in FileTasks :
             temp[t][n] = "none" /\ temp'[t][n] # "none" =>
                 stateOf'[t] = "live" /\ runPc'[t] # "none"
        /\ \A n \in FileNames : owner[n] # NoFile => owner'[n] \in {owner[n], NoFile}
      ]_taskFileVars

----
(* What the documents say and the code does not hold; run by hand.         *)

\* storage.rs says that a cleanup never deletes what became live meanwhile, and
\* a task's row and its run agree on its files: then no file lacks bytes.
WholeFiles == hollow = {}

\* A file that no task wrote is taken away by the user alone.
ForeignFilesAreKept ==
    [][\A n \in FileNames :
         owner[n] = UserFile /\ owner'[n] = NoFile => UserRemoves(n)]_taskFileVars

\* A conflict at the end of a download is recovered by another name, with the
\* bytes it has: the temp file is found under the new path.
ConflictIsRecoverable ==
    [][\A t \in FileTasks :
         /\ stateOf[t] = "failed" /\ stateOf'[t] = "queued"
         /\ nameOf'[t] # nameOf[t]
         /\ temp[t][tempOf[t]] = "whole"
         => temp'[t][tempOf'[t]] = "whole"]_taskFileVars

=============================================================================
