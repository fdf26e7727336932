---- MODULE HttpSegments ----
(***************************************************************************)
(* The segmented HTTP engine on one task of known size: prepare and resume *)
(* checks, the coordinator, its segment workers, the progress channel, the *)
(* checkpoints and the automatic split of a segment, over several runs of  *)
(* the same task with pauses, failures and crashes between them.           *)
(*                                                                         *)
(* Four copies of a segment's progress exist at once: what the worker      *)
(* handed to its buffer (off), what it flushed (dur), what the coordinator *)
(* has been told (rt, behind the channel) and what the database says       *)
(* (until).  The temp file is preallocated, so a hole in it cannot be told *)
(* from data: a resumed run trusts until.                                  *)
(***************************************************************************)
EXTENDS Naturals, FiniteSets, Sequences

CONSTANTS
  Size,             \* total_size
  InitialSegments,  \* what the planner chose when the task was created
  MaxSegments,      \* AUTO_ACCELERATION_MAX_SEGMENTS
  MinRemaining,     \* AUTO_ACCELERATION_MIN_REMAINING_BYTES
  MaxWorkers,       \* connection_limit of the run
  Chunks,           \* sizes of the chunks that a response delivers
  ChannelBound,     \* capacity of the progress channel, per worker
  RestartBudget     \* bound: resumes, retries and deaths of the process

ASSUME HttpAssumption ==
  /\ Size \in Nat \ {0}
  /\ InitialSegments \in 1..MaxSegments
  /\ MaxSegments \in Nat \ {0}
  /\ Size >= InitialSegments
  /\ MinRemaining \in Nat
  /\ MaxWorkers \in Nat \ {0}
  /\ Chunks \subseteq Nat \ {0}
  /\ ChannelBound \in Nat \ {0}
  /\ RestartBudget \in Nat

VARIABLES
  row,                       \* the task row
  first, last, until, count, \* its work units; 1..count exist
  disk, tempLen, published,  \* bytes of the temp file, its length, the rename
  phase, cancel, splitting,  \* the coordinator
  rt, dirty,                 \* RuntimeProgress
  wpc, off, dur, rangeEnd, chan,  \* the workers
  restarts                   \* the bounded counter

rowVars  == <<row, first, last, until, count>>
fileVars == <<disk, tempLen, published>>
coVars   == <<phase, cancel, splitting, rt, dirty>>
workVars == <<wpc, off, dur, rangeEnd, chan>>
vars == <<rowVars, fileVars, coVars, workVars, restarts>>

Ids == 1..MaxSegments
Live == 1..count
Offsets == 0..Size
Rows == {"ready", "live", "paused", "failed", "completed"}
Phases == {"idle", "start", "run", "drain", "finish", "published"}
WorkerPcs == {"none", "pending", "request", "stream", "backoff", "ok", "err", "lost"}
Messages == [kind : {"progress", "retry"}, at : Offsets]

TypeOK ==
  /\ row \in Rows
  /\ first \in [Ids -> Offsets]
  /\ last \in [Ids -> Offsets]
  /\ until \in [Ids -> Offsets]
  /\ count \in Ids
  /\ disk \in SUBSET (0..(Size - 1))
  /\ tempLen \in Offsets
  /\ published \in BOOLEAN
  /\ phase \in Phases
  /\ cancel \in BOOLEAN
  /\ splitting \in {0} \cup Ids
  /\ rt \in [Ids -> Offsets]
  /\ dirty \in SUBSET Ids
  /\ wpc \in [Ids -> WorkerPcs]
  /\ off \in [Ids -> Offsets]
  /\ dur \in [Ids -> Offsets]
  /\ rangeEnd \in [Ids -> Offsets]
  /\ chan \in [Ids -> Seq(Messages)]
  /\ restarts \in Nat

----
(* The plan: InitialSegments ranges whose lengths differ by at most one.     *)

Smaller(a, b) == IF a <= b THEN a ELSE b
Larger(a, b) == IF a >= b THEN a ELSE b

\* The first of them take one byte more each until the remainder is spent.
PlannedFirst(i) ==
  (i - 1) * (Size \div InitialSegments) + Smaller(i - 1, Size % InitialSegments)

PlannedLast(i) ==
  PlannedFirst(i) + (Size \div InitialSegments)
    - (IF i <= Size % InitialSegments THEN 0 ELSE 1)

Init ==
  /\ row = "ready"
  /\ count = InitialSegments
  /\ first = [i \in Ids |-> IF i <= InitialSegments THEN PlannedFirst(i) ELSE 0]
  /\ last = [i \in Ids |-> IF i <= InitialSegments THEN PlannedLast(i) ELSE 0]
  /\ until = first
  /\ disk = {}
  /\ tempLen = 0
  /\ published = FALSE
  /\ phase = "idle"
  /\ cancel = FALSE
  /\ splitting = 0
  /\ rt = [i \in Ids |-> 0]
  /\ dirty = {}
  /\ wpc = [i \in Ids |-> "none"]
  /\ off = [i \in Ids |-> 0]
  /\ dur = [i \in Ids |-> 0]
  /\ rangeEnd = [i \in Ids |-> 0]
  /\ chan = [i \in Ids |-> <<>>]
  /\ restarts = 0

----
(* Between runs: the row, the user, and the end of the process.              *)

RunVars == <<cancel, splitting, rt, dirty, workVars>>

\* Nothing of a run is left: no worker, no message, no progress in memory.
NoRun ==
  /\ phase' = "idle"
  /\ cancel' = FALSE
  /\ splitting' = 0
  /\ rt' = [i \in Ids |-> 0]
  /\ dirty' = {}
  /\ wpc' = [i \in Ids |-> "none"]
  /\ off' = [i \in Ids |-> 0]
  /\ dur' = [i \in Ids |-> 0]
  /\ rangeEnd' = [i \in Ids |-> 0]
  /\ chan' = [i \in Ids |-> <<>>]

Pause ==
  /\ row = "live"
  /\ ~cancel
  /\ cancel' = TRUE
  /\ UNCHANGED <<rowVars, fileVars, phase, splitting, rt, dirty, workVars, restarts>>

\* A resume of a paused task, or a retry of a failed one.
Resume ==
  /\ row \in {"paused", "failed"}
  /\ phase = "idle"
  /\ restarts < RestartBudget
  /\ restarts' = restarts + 1
  /\ row' = "ready"
  /\ UNCHANGED <<first, last, until, count, fileVars, coVars, workVars>>

\* Buffers and memory go; the rows and the temp file stay, and startup queues
\* the interrupted row again.
Crash ==
  /\ restarts < RestartBudget
  /\ restarts' = restarts + 1
  /\ row = "live"
  /\ row' = "ready"
  /\ NoRun
  /\ UNCHANGED <<first, last, until, count, fileVars>>

\* segment_resume_error: the recorded offsets against the file and the ranges.
Recorded(i) == Smaller(until[i], last[i] + 1)
Progress == \E i \in Live : Recorded(i) > first[i]

OutOfRange == \E i \in Live : until[i] < first[i] \/ until[i] > last[i] + 1

ResumeBlocked ==
  \/ OutOfRange
  \/ published /\ Progress
  \/ \E i \in Live : Recorded(i) > first[i] /\ Recorded(i) > tempLen

\* prepare_task_for_download: a task of one segment takes the length of its
\* temp file for its progress.
Prepare ==
  /\ row = "ready"
  /\ phase = "idle"
  /\ IF ResumeBlocked
     THEN /\ row' = "failed"
          /\ UNCHANGED <<until, phase>>
     ELSE /\ row' = "live"
          /\ phase' = "start"
          /\ until' = IF count = 1 /\ tempLen > until[1]
                      THEN [until EXCEPT ![1] = tempLen] ELSE until
  /\ UNCHANGED <<first, last, count, fileVars, cancel, splitting, rt, dirty,
                 workVars, restarts>>

----
(* The coordinator starts.                                                   *)

Running(pc) == {i \in Live : pc[i] \in {"request", "stream", "backoff", "ok", "err"}}

\* spawn_segment_workers fills the free places from the pending queue; each
\* worker starts at the clamped offset, which is written back to its row.
Spawned(pc) ==
  LET pending == {i \in Live : pc[i] = "pending"}
      room == IF MaxWorkers > Cardinality(Running(pc))
              THEN MaxWorkers - Cardinality(Running(pc)) ELSE 0
  IN {S \in SUBSET pending : Cardinality(S) = Smaller(room, Cardinality(pending))}

\* Fault: the exclusive end of a segment is taken for an inclusive one.
CompleteAtStartOffByOne(i) == until[i] >= last[i]

\* offset > range_end: the segment needs no worker.
CompleteAtStart(i) == until[i] > last[i]

\* Without recorded progress the temp file is removed; then it is opened, and
\* the preallocation to the full size may fail without ending the run.
CoStart ==
  LET left == IF Progress THEN tempLen ELSE 0
      pc == [i \in Ids |-> IF i \notin Live THEN "none"
                           ELSE IF CompleteAtStart(i) THEN "none" ELSE "pending"]
  IN
  /\ phase = "start"
  /\ phase' = "run"
  /\ disk' = IF Progress THEN disk ELSE {}
  /\ tempLen' \in {left, Size}
  /\ until' = [i \in Ids |->
                IF i \in Live /\ CompleteAtStart(i) THEN last[i] + 1 ELSE until[i]]
  /\ rt' = until'
  /\ off' = until'
  /\ dur' = until'
  /\ rangeEnd' = last
  /\ \E S \in Spawned(pc) :
       /\ wpc' = [i \in Ids |-> IF i \in S THEN "request" ELSE pc[i]]
       /\ dirty' = S
  /\ UNCHANGED <<row, first, last, count, published, cancel, splitting, chan, restarts>>

----
(* The workers.                                                              *)

\* Buffered bytes reach the temp file.
Flush(i) ==
  /\ disk' = disk \cup dur[i]..(off[i] - 1)
  /\ tempLen' = Larger(tempLen, off[i])
  /\ dur' = [dur EXCEPT ![i] = off[i]]

\* The channel is bounded: a full one blocks the worker until the coordinator reads.
Send(i, kind) ==
  /\ Len(chan[i]) < ChannelBound
  /\ chan' = [chan EXCEPT ![i] = Append(@, [kind |-> kind, at |-> off[i]])]

WorkerAt(i, pc) == wpc' = [wpc EXCEPT ![i] = pc]

WorkerFrame == UNCHANGED <<rowVars, published, coVars, rangeEnd, restarts>>

\* A response whose status and Content-Range fit the request.
WorkerRequest(i) ==
  /\ wpc[i] = "request"
  /\ ~cancel
  /\ off[i] <= rangeEnd[i]
  /\ WorkerAt(i, "stream")
  /\ UNCHANGED <<disk, tempLen, off, dur, chan>>
  /\ WorkerFrame

\* A chunk is cut at the end of the range, which a split may have moved.
WorkerChunk(i) ==
  /\ wpc[i] = "stream"
  /\ ~cancel
  /\ off[i] <= rangeEnd[i]
  /\ \E n \in Chunks :
       off' = [off EXCEPT ![i] = Smaller(@ + n, rangeEnd[i] + 1)]
  /\ UNCHANGED <<disk, tempLen, wpc, dur, chan>>
  /\ WorkerFrame

\* Fault: the running offset is published without a flush.
WorkerPublishUnflushed(i) ==
  /\ wpc[i] = "stream"
  /\ dur[i] < off[i]
  /\ Send(i, "progress")
  /\ UNCHANGED <<disk, tempLen, wpc, off, dur>>
  /\ WorkerFrame

\* Every 300 ms the bytes are flushed, then published.
WorkerPublish(i) ==
  /\ wpc[i] = "stream"
  /\ dur[i] < off[i]
  /\ Flush(i)
  /\ Send(i, "progress")
  /\ UNCHANGED <<wpc, off>>
  /\ WorkerFrame

\* Cancelled, or past the end of the range: flush, publish, return Ok.
WorkerEnd(i) ==
  /\ wpc[i] \in {"request", "stream", "backoff"}
  /\ cancel \/ (wpc[i] # "backoff" /\ off[i] > rangeEnd[i])
  /\ Flush(i)
  /\ Send(i, "progress")
  /\ WorkerAt(i, "ok")
  /\ UNCHANGED off
  /\ WorkerFrame

\* A transient error, a stall, or a response that ends early; MAX_SEGMENT_RETRIES
\* of them are retried, so each may be the one that fails.
WorkerRetry(i) ==
  /\ wpc[i] \in {"request", "stream"}
  /\ Flush(i)
  /\ Send(i, "retry")
  /\ WorkerAt(i, "backoff")
  /\ UNCHANGED off
  /\ WorkerFrame

\* Fault: a retry asks for the segment from its first byte again.
WorkerWakeFromFirst(i) ==
  /\ wpc[i] = "backoff"
  /\ WorkerAt(i, "request")
  /\ off' = [off EXCEPT ![i] = first[i]]
  /\ dur' = [dur EXCEPT ![i] = first[i]]
  /\ UNCHANGED <<disk, tempLen, chan>>
  /\ WorkerFrame

\* After the backoff the request asks for what is left of the range.
WorkerWake(i) ==
  /\ wpc[i] = "backoff"
  /\ WorkerAt(i, "request")
  /\ UNCHANGED <<disk, tempLen, off, dur, chan>>
  /\ WorkerFrame

\* A permanent error, or a transient one when the budget is spent.
WorkerFail(i) ==
  /\ wpc[i] \in {"request", "stream"}
  /\ Flush(i)
  /\ WorkerAt(i, "err")
  /\ UNCHANGED <<off, chan>>
  /\ WorkerFrame

\* A write or a flush fails: the report falls back to the durable offset.
WorkerDiskError(i) ==
  /\ wpc[i] = "stream"
  /\ off' = [off EXCEPT ![i] = dur[i]]
  /\ WorkerAt(i, "err")
  /\ UNCHANGED <<disk, tempLen, dur, chan>>
  /\ WorkerFrame

----
(* The coordinator's loop.                                                   *)

CoIdle == splitting = 0

\* A progress message moves the runtime copy; a retry goes to the row at once.
CoReceive(i) ==
  /\ phase \in {"run", "drain", "finish"}
  /\ CoIdle
  /\ chan[i] # <<>>
  /\ LET m == Head(chan[i]) IN
     /\ rt' = [rt EXCEPT ![i] = m.at]
     /\ IF m.kind = "retry"
        THEN until' = [until EXCEPT ![i] = m.at] /\ dirty' = dirty \ {i}
        ELSE UNCHANGED until /\ dirty' = dirty \cup {i}
  /\ chan' = [chan EXCEPT ![i] = Tail(@)]
  /\ UNCHANGED <<row, first, last, count, fileVars, phase, cancel, splitting, wpc,
                 off, dur, rangeEnd, restarts>>

Checkpointed == [i \in Ids |-> IF i \in dirty THEN rt[i] ELSE until[i]]

\* The one-second tick, or 300 ms after the last emission.
CoCheckpoint ==
  /\ phase = "run"
  /\ CoIdle
  /\ ~cancel
  /\ dirty # {}
  /\ until' = Checkpointed
  /\ dirty' = {}
  /\ UNCHANGED <<row, first, last, count, fileVars, phase, cancel, splitting, rt,
                 workVars, restarts>>

Remaining(i) == IF until[i] <= last[i] THEN last[i] + 1 - until[i] ELSE 0

\* Fault: the tail starts one byte late.
SplitTailLate(i) == until[i] + (Remaining(i) \div 2) + 1

\* The worker keeps the first half of what remains.
SplitTail(i) == until[i] + (Remaining(i) \div 2)

\* The same tick splits the segment with the most recorded bytes left.
CoSplit(i) ==
  /\ phase = "run"
  /\ CoIdle
  /\ ~cancel
  /\ dirty = {}
  /\ Cardinality(Running(wpc)) < MaxWorkers
  /\ count < MaxSegments
  /\ i \in Live
  /\ \A j \in Live : Remaining(j) <= Remaining(i)
  /\ Remaining(i) >= Larger(MinRemaining, 2)
  /\ LET k == count + 1 IN
     /\ count' = k
     /\ last' = [last EXCEPT ![i] = until[i] + (Remaining(i) \div 2) - 1, ![k] = last[i]]
     /\ first' = [first EXCEPT ![k] = SplitTail(i)]
     /\ until' = [until EXCEPT ![k] = SplitTail(i)]
  /\ splitting' = i
  /\ UNCHANGED <<row, fileVars, phase, cancel, rt, dirty, workVars, restarts>>

\* The split is in the database; now the worker's limit moves and the tail starts.
CoSplitPublish ==
  LET k == count IN
  /\ splitting # 0
  /\ rangeEnd' = [rangeEnd EXCEPT ![splitting] = last[splitting], ![k] = last[k]]
  /\ rt' = [rt EXCEPT ![k] = first[k]]
  /\ dirty' = dirty \cup {splitting, k}
  /\ off' = [off EXCEPT ![k] = first[k]]
  /\ dur' = [dur EXCEPT ![k] = first[k]]
  /\ wpc' = [wpc EXCEPT ![k] = "request"]
  /\ splitting' = 0
  /\ UNCHANGED <<rowVars, fileVars, phase, cancel, chan, restarts>>

\* A worker returned: its place goes to a pending segment.
CoJoin(i) ==
  /\ phase = "run"
  /\ CoIdle
  /\ wpc[i] = "ok"
  /\ LET pc == [wpc EXCEPT ![i] = "none"] IN
     \E S \in Spawned(pc) :
       /\ wpc' = [j \in Ids |-> IF j \in S THEN "request" ELSE pc[j]]
       /\ dirty' = dirty \cup S
  /\ off' = [off EXCEPT ![i] = 0]
  /\ dur' = [dur EXCEPT ![i] = 0]
  /\ UNCHANGED <<rowVars, fileVars, phase, cancel, splitting, rt, rangeEnd, chan, restarts>>

\* A worker failed: the others are aborted, what was reported is written, and
\* the row fails.  Unread messages are lost.
CoJoinFailed(i) ==
  /\ phase = "run"
  /\ CoIdle
  /\ wpc[i] = "err"
  /\ until' = [Checkpointed EXCEPT ![i] = off[i]]
  /\ row' = "failed"
  /\ NoRun
  /\ UNCHANGED <<first, last, count, fileVars, restarts>>

CoCancel ==
  /\ phase = "run"
  /\ CoIdle
  /\ cancel
  /\ phase' = "drain"
  /\ UNCHANGED <<rowVars, fileVars, cancel, splitting, rt, dirty, workVars, restarts>>

\* A cancelled coordinator waits for its workers and keeps what they report; a
\* message that a failed worker sent earlier may still overwrite its last offset.
CoDrainJoin(i) ==
  /\ phase = "drain"
  /\ wpc[i] \in {"ok", "err"}
  /\ wpc' = [wpc EXCEPT ![i] = IF @ = "ok" THEN "none" ELSE "lost"]
  /\ IF wpc[i] = "err"
     THEN rt' = [rt EXCEPT ![i] = off[i]] /\ dirty' = dirty \cup {i}
     ELSE UNCHANGED <<rt, dirty>>
  /\ UNCHANGED <<rowVars, fileVars, phase, cancel, splitting, off, dur, rangeEnd, chan, restarts>>

Quiet == Running(wpc) = {} /\ \A i \in Ids : chan[i] = <<>>

\* Fault: a cancelled coordinator does not wait for its workers.
CoDrainedEarly ==
  /\ phase = "drain"
  /\ until' = Checkpointed
  /\ row' = "paused"
  /\ NoRun
  /\ UNCHANGED <<first, last, count, fileVars, restarts>>

CoDrained ==
  /\ phase = "drain"
  /\ Quiet
  /\ until' = Checkpointed
  /\ row' = "paused"
  /\ NoRun
  /\ UNCHANGED <<first, last, count, fileVars, restarts>>

\* No worker is left: the channel is emptied, then the rows are checked.
CoLoopEnd ==
  /\ phase = "run"
  /\ CoIdle
  /\ Running(wpc) = {}
  /\ ~cancel
  /\ phase' = "finish"
  /\ UNCHANGED <<rowVars, fileVars, cancel, splitting, rt, dirty, workVars, restarts>>

Short == \E i \in Live : Checkpointed[i] <= last[i]

\* The last checkpoint.  The file is renamed when every segment is complete and
\* the temp file has the expected length.
CoFinish ==
  /\ phase = "finish"
  /\ Quiet
  /\ IF Short \/ tempLen # Size
     THEN /\ until' = Checkpointed
          /\ row' = "failed"
          /\ NoRun
          /\ UNCHANGED published
     ELSE /\ until' = [i \in Ids |-> IF i \in Live THEN last[i] + 1 ELSE until[i]]
          /\ phase' = "published"
          /\ published' = TRUE
          /\ UNCHANGED <<row, RunVars>>
  /\ UNCHANGED <<first, last, count, disk, tempLen, restarts>>

CoComplete ==
  /\ phase = "published"
  /\ row' = "completed"
  /\ NoRun
  /\ UNCHANGED <<first, last, until, count, fileVars, restarts>>

----
WorkerStep(i) ==
  \/ WorkerRequest(i) \/ WorkerChunk(i) \/ WorkerPublish(i) \/ WorkerEnd(i)
  \/ WorkerRetry(i) \/ WorkerWake(i) \/ WorkerFail(i) \/ WorkerDiskError(i)

CoordinatorStep ==
  \/ Prepare \/ CoStart \/ CoCheckpoint \/ CoSplitPublish
  \/ CoCancel \/ CoDrained \/ CoLoopEnd \/ CoFinish \/ CoComplete
  \/ \E i \in Ids : CoReceive(i) \/ CoSplit(i) \/ CoJoin(i) \/ CoJoinFailed(i)
                    \/ CoDrainJoin(i)

Next ==
  \/ CoordinatorStep
  \/ \E i \in Ids : WorkerStep(i)
  \/ Pause \/ Resume \/ Crash

Spec == Init /\ [][Next]_vars

----
(* Properties.                                                               *)

\* The recorded offset of a segment never runs ahead of the bytes on disk, not
\* in the rows, not in memory and not in a message, at any point of a crash:
\* a resumed run can seek to it in a preallocated file.
DurableProgress ==
  \A i \in Live :
    /\ first[i]..(Recorded(i) - 1) \subseteq disk
    /\ phase # "idle" => first[i]..(Smaller(rt[i], last[i] + 1) - 1) \subseteq disk
    /\ \A n \in 1..Len(chan[i]) : first[i]..(chan[i][n].at - 1) \subseteq disk

\* The work units partition the file, through every split and crash.
SegmentsTile ==
  \A b \in 0..(Size - 1) : Cardinality({i \in Live : b \in first[i]..last[i]}) = 1

\* A file that is published under its final name has every byte.
PublishedIsWhole == published => disk = 0..(Size - 1)

\* Recorded progress is not lost: no step of a run moves an offset back.
ProgressIsKept ==
  [][\A i \in Live : Recorded(i)' >= Recorded(i) \/ last'[i] # last[i]]_vars

\* A pause records everything that the workers which it stopped have made
\* durable.  A worker that failed while the pause drained is excepted: a message
\* it sent before may be read after its failure and take its offset back.
PauseKeepsProgress ==
  [][phase = "drain" /\ phase' = "idle" /\ row' = "paused" =>
       \A i \in Live : wpc[i] # "lost" => until'[i] >= dur[i]]_vars

\* A split leaves the active worker "its already-downloaded prefix": no run of
\* the program leaves rows whose offsets the next resume rejects as outside
\* their range.
RowsStayResumable == row \in {"ready", "paused", "failed"} => ~OutOfRange

====
