---------------------------- MODULE Files_proofs -----------------------------
(***************************************************************************)
(* Proofs about what is written to disk.  HttpSegments, for every size,    *)
(* number of segments, workers, chunks and channel places: segments tile   *)
(* the file, what is recorded is durable, what is published is whole, and  *)
(* progress is not lost.  TaskFiles, for any number of tasks, names and    *)
(* acts: a file is published without bytes only when its run was           *)
(* disturbed, and nothing writes or replaces a file behind the back of its *)
(* owner.                                                                  *)
(***************************************************************************)
EXTENDS HttpSegments, TaskFiles, FiniteSetTheorems, TLAPS

(***************************************************************************)
(* Types.  A range ends before the end of the file, so that one past it is *)
(* still an offset.                                                        *)
(***************************************************************************)
TypeInv ==
    /\ TypeOK
    /\ \A i \in Ids : last[i] <= Size - 1 /\ rangeEnd[i] <= Size - 1

-------------------------------------------------------------------------------
(* Arithmetic.                                                             *)

(* The smaller and the larger of two numbers are among them.               *)
LEMMA SmallerLarger ==
  ASSUME NEW a \in Int, NEW b \in Int
  PROVE  /\ Smaller(a, b) \in {a, b} /\ Smaller(a, b) <= a /\ Smaller(a, b) <= b
         /\ Larger(a, b) \in {a, b} /\ Larger(a, b) >= a /\ Larger(a, b) >= b
BY DEF Smaller, Larger

(* The file is cut into equal parts; the remainder is less than a part     *)
(* for each segment.                                                       *)
LEMMA Division ==
  ASSUME NEW a \in Nat, NEW d \in Nat \ {0}
  PROVE  /\ a \div d \in Nat /\ a % d \in Nat /\ a % d < d
         /\ a = d * (a \div d) + (a % d)
  BY Z3

(* What a split leaves to the worker and gives to the tail.                *)
LEMMA Halves ==
  ASSUME NEW n \in Nat, n >= 2
  PROVE  n \div 2 \in Nat /\ 1 <= n \div 2 /\ n \div 2 < n
BY Z3

(* The planned ranges lie within the file, follow one another and end at   *)
(* its end.                                                                *)
LEMMA Planned ==
  ASSUME NEW i \in 1 .. InitialSegments
  PROVE  /\ PlannedFirst(i) \in Nat /\ PlannedLast(i) \in Nat
         /\ PlannedFirst(i) <= PlannedLast(i) /\ PlannedLast(i) <= Size - 1
<1> DEFINE q == Size \div InitialSegments
           r == Size % InitialSegments
<1>1. /\ q \in Nat /\ r \in Nat /\ r < InitialSegments /\ InitialSegments \in Nat \ {0}
      /\ Size = InitialSegments * q + r /\ Size \in Nat /\ Size >= InitialSegments
  BY Division, HttpAssumption
<1>2. q >= 1
  BY <1>1, Z3
<1>3. i - 1 \in Nat /\ i <= InitialSegments /\ (i - 1) * q \in Nat
  BY <1>1, Z3
<1>4. (i - 1) * q + q <= InitialSegments * q
  BY <1>1, <1>3, Z3
<1> HIDE DEF q, r
<1>5. PlannedFirst(i) = (i - 1) * q + Smaller(i - 1, r)
  BY DEF PlannedFirst, q, r
<1>6. PlannedLast(i) = PlannedFirst(i) + q - (IF i <= r THEN 0 ELSE 1)
  BY DEF PlannedLast, q, r
<1>7. CASE i <= r
  <2>1. Smaller(i - 1, r) = i - 1
    BY <1>1, <1>3, <1>7 DEF Smaller
  <2>2. QED
    BY <1>1, <1>2, <1>3, <1>4, <1>5, <1>6, <1>7, <2>1
<1>8. CASE ~(i <= r)
  <2>1. Smaller(i - 1, r) = r
    BY <1>1, <1>3, <1>8 DEF Smaller
  <2>2. QED
    BY <1>1, <1>2, <1>3, <1>4, <1>5, <1>6, <1>8, <2>1
<1>9. QED
  BY <1>7, <1>8

-------------------------------------------------------------------------------
(* What the actions have in common.                                        *)

(* A run that is over leaves well typed variables.                         *)
LEMMA NoRunType ==
  ASSUME NoRun
  PROVE  /\ phase' \in Phases /\ cancel' \in BOOLEAN /\ splitting' \in {0} \cup Ids
         /\ rt' \in [Ids -> Offsets] /\ dirty' \in SUBSET Ids
         /\ wpc' \in [Ids -> WorkerPcs] /\ off' \in [Ids -> Offsets]
         /\ dur' \in [Ids -> Offsets] /\ rangeEnd' \in [Ids -> Offsets]
         /\ chan' \in [Ids -> Seq(Messages)]
         /\ \A i \in Ids : rangeEnd'[i] <= Size - 1
<1>1. 0 \in Offsets /\ 0 <= Size - 1
  BY HttpAssumption DEF Offsets
<1>2. <<>> \in Seq(Messages)
  OBVIOUS
<1>3. QED
  BY <1>1, <1>2 DEF NoRun, Phases, WorkerPcs

(* What would be written by a checkpoint is an offset.                     *)
LEMMA CheckpointType ==
  ASSUME TypeInv
  PROVE  /\ Checkpointed \in [Ids -> Offsets]
         /\ \A i \in Ids : Checkpointed[i] = (IF i \in dirty THEN rt[i] ELSE until[i])
BY DEF TypeInv, TypeOK, Checkpointed

(* The workers that get a free place were waiting for one.                 *)
LEMMA SpawnedPending ==
  ASSUME NEW pc, NEW S \in Spawned(pc)
  PROVE  \A j \in S : j \in Live /\ pc[j] = "pending"
BY DEF Spawned

(* Work units are identifiers.                                             *)
LEMMA LiveIds ==
  ASSUME TypeInv
  PROVE  Live \subseteq Ids /\ count \in Nat /\ MaxSegments \in Nat
BY HttpAssumption DEF TypeInv, TypeOK, Live, Ids

(* Offsets are numbers.                                                    *)
LEMMA OffsetsNat ==
  ASSUME TypeInv
  PROVE  /\ Live \subseteq Ids /\ count \in Nat /\ (count' = count => Live' = Live)
         /\ \A i \in Ids : /\ first[i] \in Nat /\ last[i] \in Nat /\ until[i] \in Nat
                           /\ rt[i] \in Nat /\ off[i] \in Nat /\ dur[i] \in Nat
BY LiveIds DEF Live, TypeInv, TypeOK, Offsets

(* What a flush leaves.                                                    *)
LEMMA FlushType ==
  ASSUME TypeInv, NEW i \in Ids, Flush(i)
  PROVE  /\ disk' \in SUBSET (0 .. (Size - 1)) /\ tempLen' \in Offsets
         /\ dur' \in [Ids -> Offsets]
<1>1. /\ off[i] \in Nat /\ off[i] <= Size /\ dur[i] \in Nat /\ Size \in Nat
      /\ tempLen \in Nat /\ tempLen <= Size
  BY HttpAssumption DEF TypeInv, TypeOK, Offsets
<1>2. Larger(tempLen, off[i]) \in Offsets
  BY <1>1 DEF Larger, Offsets
<1>3. dur[i] .. (off[i] - 1) \subseteq 0 .. (Size - 1)
  BY <1>1
<1>4. QED
  BY <1>2, <1>3 DEF Flush, TypeInv, TypeOK

(* What a message leaves in the channel.                                   *)
LEMMA SendType ==
  ASSUME TypeInv, NEW i \in Ids, NEW kind \in {"progress", "retry"}, Send(i, kind)
  PROVE  /\ chan' \in [Ids -> Seq(Messages)]
         /\ chan' = [chan EXCEPT ![i] = Append(chan[i], [kind |-> kind, at |-> off[i]])]
<1>1. [kind |-> kind, at |-> off[i]] \in Messages
  BY DEF TypeInv, TypeOK, Messages
<1>2. chan[i] \in Seq(Messages)
  BY DEF TypeInv, TypeOK
<1>3. Append(chan[i], [kind |-> kind, at |-> off[i]]) \in Seq(Messages)
  BY <1>1, <1>2
<1>4. QED
  BY <1>3 DEF Send, TypeInv, TypeOK

(* Taking a message from the channel.                                      *)
LEMMA ReceiveType ==
  ASSUME TypeInv, NEW i \in Ids, chan[i] # <<>>
  PROVE  /\ Head(chan[i]) \in Messages /\ Head(chan[i]).at \in Offsets
         /\ Tail(chan[i]) \in Seq(Messages)
<1>1. chan[i] \in Seq(Messages)
  BY DEF TypeInv, TypeOK
<1>2. Head(chan[i]) \in Messages /\ Tail(chan[i]) \in Seq(Messages)
  BY <1>1
<1>3. QED
  BY <1>2 DEF Messages

(* The numbers of a split.                                                 *)
LEMMA SplitNumbers ==
  ASSUME TypeInv, NEW i \in Ids, Remaining(i) >= Larger(MinRemaining, 2)
  PROVE  LET h == Remaining(i) \div 2 IN
         /\ h \in Nat /\ h >= 1 /\ until[i] <= last[i]
         /\ until[i] + h <= last[i]
         /\ until[i] \in Nat /\ last[i] \in Nat /\ last[i] <= Size - 1 /\ Size \in Nat
<1> DEFINE h == Remaining(i) \div 2
<1>1. /\ until[i] \in Nat /\ last[i] \in Nat /\ last[i] <= Size - 1 /\ Size \in Nat
      /\ MinRemaining \in Nat
  BY HttpAssumption DEF TypeInv, TypeOK, Offsets
<1>2. Remaining(i) \in Nat
  BY <1>1 DEF Remaining
<1>3. Larger(MinRemaining, 2) >= 2 /\ Larger(MinRemaining, 2) \in Nat
  BY <1>1 DEF Larger
<1>4. Remaining(i) >= 2
  BY <1>2, <1>3
<1>5. until[i] <= last[i] /\ Remaining(i) = last[i] + 1 - until[i]
  BY <1>1, <1>4 DEF Remaining
<1>6. h \in Nat /\ 1 <= h /\ h < Remaining(i)
  BY <1>2, <1>4, Halves
<1>7. QED
  BY <1>1, <1>5, <1>6

-------------------------------------------------------------------------------
(* The type invariant.                                                     *)

LEMMA TypeInit == Init => TypeInv
<1> SUFFICES ASSUME Init PROVE TypeInv
  OBVIOUS
<1>1. Size \in Nat /\ Size >= 1 /\ 0 \in Offsets /\ 0 <= Size - 1
  BY HttpAssumption DEF Offsets
<1>2. \A i \in Ids : first[i] \in Offsets /\ last[i] \in Offsets /\ last[i] <= Size - 1
  <2> SUFFICES ASSUME NEW i \in Ids
               PROVE  first[i] \in Offsets /\ last[i] \in Offsets /\ last[i] <= Size - 1
    OBVIOUS
  <2>1. CASE i <= InitialSegments
    <3>1. i \in 1 .. InitialSegments
      BY <2>1, HttpAssumption DEF Ids
    <3>2. first[i] = PlannedFirst(i) /\ last[i] = PlannedLast(i)
      BY <2>1 DEF Init
    <3>3. QED
      BY <1>1, <3>1, <3>2, Planned DEF Offsets
  <2>2. CASE ~(i <= InitialSegments)
    BY <1>1, <2>2 DEF Init
  <2>3. QED
    BY <2>1, <2>2
<1>3. first \in [Ids -> Offsets] /\ last \in [Ids -> Offsets]
  BY <1>2 DEF Init
<1>4. count \in Ids
  BY HttpAssumption DEF Init, Ids
<1>5. \A i \in Ids : rangeEnd[i] <= Size - 1
  BY <1>1 DEF Init
<1>6. row \in Rows /\ phase \in Phases /\ wpc \in [Ids -> WorkerPcs]
  BY DEF Init, Rows, Phases, WorkerPcs
<1>7. chan \in [Ids -> Seq(Messages)]
  BY DEF Init
<1>8. QED
  BY <1>1, <1>2, <1>3, <1>4, <1>5, <1>6, <1>7 DEF Init, TypeInv, TypeOK

LEMMA TypeStep == TypeInv /\ [Next]_vars => TypeInv'
<1> SUFFICES ASSUME TypeInv, [Next]_vars PROVE TypeInv'
  OBVIOUS
<1>0. Size \in Nat /\ Size >= 1 /\ 0 \in Offsets
  BY HttpAssumption DEF Offsets
<1>1. CASE Prepare
  BY <1>1 DEF Prepare, TypeInv, TypeOK, Rows, Phases, fileVars, workVars, Ids
<1>2. CASE CoStart
  <2>1. \A i \in Ids : last[i] + 1 \in Offsets
    BY <1>0 DEF TypeInv, TypeOK, Offsets
  <2>2. until' \in [Ids -> Offsets]
    BY <1>2, <2>1 DEF CoStart, TypeInv, TypeOK
  <2>3. rt' \in [Ids -> Offsets] /\ off' \in [Ids -> Offsets] /\ dur' \in [Ids -> Offsets]
    BY <1>2, <2>2 DEF CoStart
  <2>4. rangeEnd' = last /\ phase' = "run"
    BY <1>2 DEF CoStart
  <2>5. disk' \in SUBSET (0 .. (Size - 1))
    BY <1>2 DEF CoStart, TypeInv, TypeOK
  <2>6. tempLen' \in Offsets
    BY <1>0, <1>2 DEF CoStart, TypeInv, TypeOK, Offsets
  <2>7. wpc' \in [Ids -> WorkerPcs] /\ dirty' \in SUBSET Ids
    <3> DEFINE pc == [i \in Ids |-> IF i \notin Live THEN "none"
                           ELSE IF CompleteAtStart(i) THEN "none" ELSE "pending"]
    <3>1. PICK S \in Spawned(pc) :
             /\ wpc' = [i \in Ids |-> IF i \in S THEN "request" ELSE pc[i]]
             /\ dirty' = S
      BY <1>2 DEF CoStart
    <3>2. S \subseteq Ids
      BY SpawnedPending, LiveIds
    <3>3. \A i \in Ids : pc[i] \in WorkerPcs
      BY DEF WorkerPcs
    <3>4. QED
      BY <3>1, <3>2, <3>3 DEF WorkerPcs
  <2>8. UNCHANGED <<row, first, last, count, published, cancel, splitting, chan, restarts>>
    BY <1>2 DEF CoStart
  <2>9. QED
    BY <2>2, <2>3, <2>4, <2>5, <2>6, <2>7, <2>8 DEF TypeInv, TypeOK, Phases
<1>3. CASE CoCheckpoint
  BY <1>3, CheckpointType DEF CoCheckpoint, TypeInv, TypeOK, fileVars, workVars
<1>4. CASE CoSplitPublish
  BY <1>4 DEF CoSplitPublish, TypeInv, TypeOK, rowVars, fileVars, WorkerPcs
<1>5. CASE CoCancel
  BY <1>5 DEF CoCancel, TypeInv, TypeOK, rowVars, fileVars, workVars, Phases
<1>6. CASE CoDrained
  BY <1>6, CheckpointType, NoRunType DEF CoDrained, TypeInv, TypeOK, fileVars, Rows
<1>7. CASE CoLoopEnd
  BY <1>7 DEF CoLoopEnd, TypeInv, TypeOK, rowVars, fileVars, workVars, Phases
<1>8. CASE CoFinish
  <2>1. \A i \in Ids : last[i] + 1 \in Offsets
    BY <1>0 DEF TypeInv, TypeOK, Offsets
  <2>2. CASE Short \/ tempLen # Size
    BY <1>8, <2>2, CheckpointType, NoRunType DEF CoFinish, TypeInv, TypeOK, Rows
  <2>3. CASE ~(Short \/ tempLen # Size)
    <3>1. until' = [i \in Ids |-> IF i \in Live THEN last[i] + 1 ELSE until[i]]
      BY <1>8, <2>3 DEF CoFinish
    <3>2. until' \in [Ids -> Offsets]
      BY <2>1, <3>1 DEF TypeInv, TypeOK
    <3>3. QED
      BY <1>8, <2>3, <3>2 DEF CoFinish, TypeInv, TypeOK, RunVars, workVars, Phases
  <2>4. QED
    BY <2>2, <2>3
<1>9. CASE CoComplete
  BY <1>9, NoRunType DEF CoComplete, TypeInv, TypeOK, fileVars, Rows
<1>10. ASSUME NEW i \in Ids, CoReceive(i) PROVE TypeInv'
  <2>1. Head(chan[i]).at \in Offsets /\ Tail(chan[i]) \in Seq(Messages)
    BY <1>10, ReceiveType DEF CoReceive
  <2>2. until' \in [Ids -> Offsets] /\ rt' \in [Ids -> Offsets] /\ dirty' \in SUBSET Ids
    BY <1>10, <2>1 DEF CoReceive, TypeInv, TypeOK
  <2>3. chan' \in [Ids -> Seq(Messages)]
    BY <1>10, <2>1 DEF CoReceive, TypeInv, TypeOK
  <2>4. QED
    BY <1>10, <2>2, <2>3 DEF CoReceive, TypeInv, TypeOK, fileVars
<1>11. ASSUME NEW i \in Ids, CoSplit(i) PROVE TypeInv'
  <2> DEFINE h == Remaining(i) \div 2
  <2>1. /\ h \in Nat /\ h >= 1 /\ until[i] <= last[i] /\ until[i] + h <= last[i]
        /\ until[i] \in Nat /\ last[i] \in Nat /\ last[i] <= Size - 1
    BY <1>11, SplitNumbers DEF CoSplit
  <2>2. count + 1 \in Ids
    BY <1>11, HttpAssumption DEF CoSplit, TypeInv, TypeOK, Ids
  <2> HIDE DEF h
  <2>3. /\ until[i] + h \in Offsets /\ until[i] + h - 1 \in Offsets
        /\ until[i] + h - 1 <= Size - 1
    BY <1>0, <2>1 DEF Offsets
  <2>4. /\ last' = [last EXCEPT ![i] = until[i] + h - 1, ![count + 1] = last[i]]
        /\ first' = [first EXCEPT ![count + 1] = until[i] + h]
        /\ until' = [until EXCEPT ![count + 1] = until[i] + h]
        /\ count' = count + 1 /\ splitting' = i
    BY <1>11 DEF CoSplit, SplitTail, h
  <2>5. last' \in [Ids -> Offsets] /\ \A j \in Ids : last'[j] <= Size - 1
    BY <2>1, <2>2, <2>3, <2>4 DEF TypeInv, TypeOK
  <2>6. first' \in [Ids -> Offsets] /\ until' \in [Ids -> Offsets]
    BY <2>2, <2>3, <2>4 DEF TypeInv, TypeOK
  <2>7. UNCHANGED <<row, fileVars, phase, cancel, rt, dirty, workVars, restarts>>
    BY <1>11 DEF CoSplit
  <2>8. QED
    BY <2>2, <2>4, <2>5, <2>6, <2>7 DEF TypeInv, TypeOK, fileVars, workVars
<1>12. ASSUME NEW i \in Ids, CoJoin(i) PROVE TypeInv'
  <2> DEFINE pc == [wpc EXCEPT ![i] = "none"]
  <2>1. PICK S \in Spawned(pc) :
           /\ wpc' = [j \in Ids |-> IF j \in S THEN "request" ELSE pc[j]]
           /\ dirty' = dirty \cup S
    BY <1>12 DEF CoJoin
  <2>2. S \subseteq Ids
    BY SpawnedPending, LiveIds
  <2>3. \A j \in Ids : pc[j] \in WorkerPcs
    BY DEF WorkerPcs, TypeInv, TypeOK
  <2>4. wpc' \in [Ids -> WorkerPcs] /\ dirty' \in SUBSET Ids
    BY <2>1, <2>2, <2>3 DEF WorkerPcs, TypeInv, TypeOK
  <2>5. QED
    BY <1>0, <1>12, <2>4 DEF CoJoin, TypeInv, TypeOK, rowVars, fileVars
<1>13. ASSUME NEW i \in Ids, CoJoinFailed(i) PROVE TypeInv'
  <2>1. until' \in [Ids -> Offsets]
    BY <1>13, CheckpointType DEF CoJoinFailed, TypeInv, TypeOK
  <2>2. QED
    BY <1>13, <2>1, NoRunType DEF CoJoinFailed, TypeInv, TypeOK, fileVars, Rows
<1>14. ASSUME NEW i \in Ids, CoDrainJoin(i) PROVE TypeInv'
  BY <1>14 DEF CoDrainJoin, TypeInv, TypeOK, rowVars, fileVars, WorkerPcs
<1>15. ASSUME NEW i \in Ids, WorkerRequest(i) PROVE TypeInv'
  BY <1>15 DEF WorkerRequest, WorkerAt, WorkerFrame, TypeInv, TypeOK, rowVars, coVars,
               WorkerPcs
<1>16. ASSUME NEW i \in Ids, WorkerChunk(i) PROVE TypeInv'
  <2>1. PICK n \in Chunks : off' = [off EXCEPT ![i] = Smaller(off[i] + n, rangeEnd[i] + 1)]
    BY <1>16 DEF WorkerChunk
  <2>2. /\ off[i] \in Nat /\ n \in Nat /\ rangeEnd[i] \in Nat /\ rangeEnd[i] + 1 <= Size
    BY <1>0, HttpAssumption DEF TypeInv, TypeOK, Offsets
  <2>3. Smaller(off[i] + n, rangeEnd[i] + 1) \in Offsets
    BY <1>0, <2>2 DEF Smaller, Offsets
  <2>4. off' \in [Ids -> Offsets]
    BY <2>1, <2>3 DEF TypeInv, TypeOK
  <2>5. QED
    BY <1>16, <2>4 DEF WorkerChunk, WorkerFrame, TypeInv, TypeOK, rowVars, coVars
<1>17. ASSUME NEW i \in Ids, WorkerPublish(i) PROVE TypeInv'
  BY <1>17, FlushType, SendType DEF WorkerPublish, WorkerFrame, TypeInv, TypeOK, rowVars,
               coVars
<1>18. ASSUME NEW i \in Ids, WorkerEnd(i) PROVE TypeInv'
  BY <1>18, FlushType, SendType DEF WorkerEnd, WorkerAt, WorkerFrame, TypeInv, TypeOK,
               rowVars, coVars, WorkerPcs
<1>19. ASSUME NEW i \in Ids, WorkerRetry(i) PROVE TypeInv'
  BY <1>19, FlushType, SendType DEF WorkerRetry, WorkerAt, WorkerFrame, TypeInv, TypeOK,
               rowVars, coVars, WorkerPcs
<1>20. ASSUME NEW i \in Ids, WorkerWake(i) PROVE TypeInv'
  BY <1>20 DEF WorkerWake, WorkerAt, WorkerFrame, TypeInv, TypeOK, rowVars, coVars,
               WorkerPcs
<1>21. ASSUME NEW i \in Ids, WorkerFail(i) PROVE TypeInv'
  BY <1>21, FlushType DEF WorkerFail, WorkerAt, WorkerFrame, TypeInv, TypeOK, rowVars,
               coVars, WorkerPcs
<1>22. ASSUME NEW i \in Ids, WorkerDiskError(i) PROVE TypeInv'
  BY <1>22 DEF WorkerDiskError, WorkerAt, WorkerFrame, TypeInv, TypeOK, rowVars, coVars,
               WorkerPcs
<1>23. CASE Pause
  BY <1>23 DEF Pause, TypeInv, TypeOK, rowVars, fileVars, workVars
<1>24. CASE Resume
  BY <1>24 DEF Resume, TypeInv, TypeOK, fileVars, coVars, workVars, Rows
<1>25. CASE Crash
  BY <1>25, NoRunType DEF Crash, TypeInv, TypeOK, fileVars, Rows
<1>26. CASE UNCHANGED vars
  BY <1>26 DEF vars, rowVars, fileVars, coVars, workVars, TypeInv, TypeOK
<1>27. QED
  BY <1>1, <1>2, <1>3, <1>4, <1>5, <1>6, <1>7, <1>8, <1>9, <1>10, <1>11, <1>12, <1>13,
     <1>14, <1>15, <1>16, <1>17, <1>18, <1>19, <1>20, <1>21, <1>22, <1>23, <1>24, <1>25,
     <1>26
     DEF Next, CoordinatorStep, WorkerStep

(* The variables of the engine keep their types, and no range reaches past *)
(* the end of the file.                                                    *)
THEOREM TypeAlways == Spec => []TypeInv
BY TypeInit, TypeStep, PTL DEF Spec

-------------------------------------------------------------------------------
(* The shape of a run: what is empty outside of it, what a work unit that  *)
(* does not exist holds, and where a split in two steps may stand.         *)

\* Before the coordinator's start and after its end nothing of a run exists.
Rest ==
  /\ phase = "idle" <=> row # "live"
  /\ phase \in {"idle", "start"} =>
       /\ splitting = 0
       /\ dirty = {}
       /\ \A i \in Ids : wpc[i] = "none" /\ chan[i] = <<>> /\ dur[i] = 0
  /\ phase = "idle" => \A i \in Ids : rt[i] = 0
  /\ phase \in {"finish", "published"} =>
       \A i \in Ids : wpc[i] \in {"none", "pending", "lost"}

\* A place that no segment has taken is blank.
Blank(i) ==
  /\ until[i] = 0 /\ rt[i] = 0 /\ dur[i] = 0
  /\ wpc[i] = "none" /\ chan[i] = <<>> /\ i \notin dirty

\* Between the two steps of a split the tail has a row and nothing else.
Splitting ==
  splitting # 0 =>
    /\ phase = "run"
    /\ splitting \in Live /\ splitting # count
    /\ wpc[count] = "none" /\ chan[count] = <<>> /\ count \notin dirty
    /\ rt[count] = 0 /\ dur[count] = 0

Shape ==
  /\ Rest
  /\ \A i \in Ids : i \notin Live => Blank(i)
  /\ Splitting
  /\ count >= InitialSegments

\* The runtime copy of a segment is in use.
Tracked(i) ==
  /\ phase \in {"run", "drain", "finish"}
  /\ i \in Live
  /\ ~(splitting # 0 /\ i = count)

-------------------------------------------------------------------------------
(* The shape is kept.                                                      *)

(* An active worker belongs to a segment of a run.                         *)
LEMMA Active ==
  ASSUME TypeInv, Shape, NEW i \in Ids,
         wpc[i] \in {"request", "stream", "backoff", "ok", "err"}
  PROVE  /\ i \in Live /\ phase \in {"run", "drain"}
         /\ ~(splitting # 0 /\ i = count)
         /\ Tracked(i)
BY DEF Shape, Rest, Blank, Splitting, TypeInv, TypeOK, Phases, Tracked

(* A message comes from a segment of a run.                                *)
LEMMA Heeded ==
  ASSUME TypeInv, Shape, NEW i \in Ids, chan[i] # <<>>
  PROVE  i \in Live /\ ~(splitting # 0 /\ i = count) /\ phase \notin {"idle", "start"}
BY DEF Shape, Rest, Blank, Splitting

(* A run that is over has the shape of one that has not begun.             *)
LEMMA NoRunShape ==
  ASSUME TypeInv, Shape, NoRun, row' # "live", count' = count,
         \A i \in Ids : i \notin Live => until'[i] = 0
  PROVE  Shape'
<1>1. Live' = Live
  BY DEF Live
<1>2. QED
  BY <1>1 DEF NoRun, Shape, Rest, Blank, Splitting

LEMMA ShapeInit == Init => Shape
<1> SUFFICES ASSUME Init PROVE Shape
  OBVIOUS
<1>1. \A i \in Ids : i \notin Live => Blank(i)
  <2> SUFFICES ASSUME NEW i \in Ids, i \notin Live PROVE Blank(i)
    OBVIOUS
  <2>1. ~(i <= InitialSegments)
    BY HttpAssumption DEF Init, Live, Ids
  <2>2. QED
    BY <2>1 DEF Init, Blank
<1>2. QED
  BY <1>1, HttpAssumption DEF Init, Shape, Rest, Splitting

LEMMA ShapeWorker ==
  ASSUME TypeInv, Shape, NEW i \in Ids, WorkerStep(i)
  PROVE  Shape'
<1> USE DEF Shape
<1>1. /\ wpc[i] \in {"request", "stream", "backoff"}
      /\ wpc' \in [Ids -> WorkerPcs]
      /\ \A j \in Ids : j # i => wpc'[j] = wpc[j] /\ chan'[j] = chan[j] /\ dur'[j] = dur[j]
      /\ UNCHANGED <<row, until, count, phase, splitting, rt, dirty>>
  BY DEF WorkerStep, WorkerRequest, WorkerChunk, WorkerPublish, WorkerEnd, WorkerRetry,
         WorkerWake, WorkerFail, WorkerDiskError, WorkerAt, WorkerFrame, Flush, Send,
         rowVars, coVars, TypeInv, TypeOK, WorkerPcs
<1>2. /\ i \in Live /\ phase \in {"run", "drain"} /\ ~(splitting # 0 /\ i = count)
  BY <1>1, Active
<1>3. Live' = Live
  BY <1>1 DEF Live
<1>4. Rest'
  BY <1>1, <1>2 DEF Rest
<1>5. \A j \in Ids : j \notin Live => Blank(j)'
  BY <1>1, <1>2 DEF Blank
<1>6. Splitting'
  <2>1. splitting # 0 => count # i /\ count \in Ids
    BY <1>2 DEF TypeInv, TypeOK
  <2>2. QED
    BY <1>1, <1>3, <2>1 DEF Splitting
<1>7. QED
  BY <1>1, <1>3, <1>4, <1>5, <1>6

LEMMA ShapeStep == TypeInv /\ Shape /\ [Next]_vars => Shape'
<1> SUFFICES ASSUME TypeInv, Shape, [Next]_vars PROVE Shape'
  OBVIOUS
<1>0. Live \subseteq Ids /\ count \in Ids /\ (count' = count => Live' = Live)
  BY LiveIds DEF Live, TypeInv, TypeOK
<1>1. CASE Prepare
  <2>1. /\ UNCHANGED <<count, splitting, rt, dirty, workVars>> /\ phase = "idle"
        /\ \/ row' = "failed" /\ UNCHANGED <<until, phase>>
           \/ /\ row' = "live" /\ phase' = "start"
              /\ \A i \in Ids : i # 1 => until'[i] = until[i]
    BY <1>1 DEF Prepare, TypeInv, TypeOK
  <2>2. 1 \in Live
    BY <1>0 DEF Live, Ids
  <2>3. row # "live"
    BY <1>1 DEF Prepare
  <2>4. Rest'
    BY <2>1, <2>3 DEF Shape, Rest, workVars
  <2>5. \A i \in Ids : i \notin Live => Blank(i)'
    BY <2>1, <2>2 DEF Shape, Blank, workVars
  <2>6. QED
    BY <1>0, <2>1, <2>4, <2>5 DEF Shape, Rest, Splitting
<1>2. CASE CoStart
  <2> DEFINE pc == [i \in Ids |-> IF i \notin Live THEN "none"
                           ELSE IF CompleteAtStart(i) THEN "none" ELSE "pending"]
  <2>1. PICK S \in Spawned(pc) :
           /\ wpc' = [i \in Ids |-> IF i \in S THEN "request" ELSE pc[i]]
           /\ dirty' = S
    BY <1>2 DEF CoStart
  <2>2. /\ UNCHANGED <<row, count, splitting, chan>> /\ phase = "start" /\ phase' = "run"
        /\ rt' = until' /\ dur' = until'
        /\ until' = [i \in Ids |->
                      IF i \in Live /\ CompleteAtStart(i) THEN last[i] + 1 ELSE until[i]]
    BY <1>2 DEF CoStart
  <2>3. \A j \in S : j \in Live
    BY <2>1, SpawnedPending
  <2>4. \A i \in Ids : i \notin Live => Blank(i)'
    BY <2>1, <2>2, <2>3 DEF Shape, Blank
  <2>5. Rest'
    BY <2>2 DEF Shape, Rest
  <2>6. QED
    BY <1>0, <2>2, <2>4, <2>5 DEF Shape, Rest, Splitting
<1>3. CASE CoCheckpoint
  <2>1. \A i \in Ids : i \notin Live => Blank(i)'
    BY <1>3, CheckpointType DEF CoCheckpoint, Shape, Blank, workVars
  <2>2. QED
    BY <1>0, <1>3, <2>1 DEF CoCheckpoint, Shape, Rest, Splitting, workVars, CoIdle
<1>4. CASE CoSplitPublish
  <2>1. /\ phase = "run" /\ splitting \in Live /\ count \in Live /\ splitting' = 0
        /\ UNCHANGED <<row, until, count, phase, chan>>
        /\ dirty' = dirty \cup {splitting, count}
        /\ \A i \in Ids : i # count => UNCHANGED <<rt[i], dur[i], wpc[i]>>
    BY <1>0, <1>4 DEF CoSplitPublish, Shape, Splitting, rowVars, TypeInv, TypeOK, Live, Ids
  <2>2. \A i \in Ids : i \notin Live => Blank(i)'
    BY <2>1 DEF Shape, Blank
  <2>3. QED
    BY <1>0, <2>1, <2>2 DEF Shape, Rest, Splitting
<1>5. CASE CoCancel
  BY <1>0, <1>5 DEF CoCancel, Shape, Rest, Blank, Splitting, rowVars, workVars, CoIdle
<1>6. CASE CoDrained
  <2>1. \A i \in Ids : i \notin Live => until'[i] = 0
    BY <1>6, CheckpointType DEF CoDrained, Shape, Blank
  <2>2. QED
    BY <1>6, <2>1, NoRunShape DEF CoDrained
<1>7. CASE CoLoopEnd
  <2>1. \A i \in Ids : wpc[i] \in {"none", "pending", "lost"}
    <3> SUFFICES ASSUME NEW i \in Ids, wpc[i] \notin {"none", "pending", "lost"}
                 PROVE  FALSE
      OBVIOUS
    <3>1. wpc[i] \in {"request", "stream", "backoff", "ok", "err"}
      BY DEF TypeInv, TypeOK, WorkerPcs
    <3>2. i \in Live
      BY <3>1, Active
    <3>3. QED
      BY <1>7, <3>1, <3>2 DEF CoLoopEnd, Running
  <2>2. QED
    BY <1>0, <1>7, <2>1 DEF CoLoopEnd, Shape, Rest, Blank, Splitting, rowVars, workVars,
                            CoIdle
<1>8. CASE CoFinish
  <2>1. CASE Short \/ tempLen # Size
    <3>1. until' = Checkpointed /\ row' = "failed" /\ NoRun /\ count' = count
      BY <1>8, <2>1 DEF CoFinish
    <3>2. \A i \in Ids : i \notin Live => until'[i] = 0
      BY <3>1, CheckpointType DEF Shape, Blank
    <3>3. QED
      BY <3>1, <3>2, NoRunShape
  <2>2. CASE ~(Short \/ tempLen # Size)
    <3>1. /\ until' = [i \in Ids |-> IF i \in Live THEN last[i] + 1 ELSE until[i]]
          /\ phase = "finish" /\ phase' = "published"
          /\ UNCHANGED <<row, count, RunVars>>
      BY <1>8, <2>2 DEF CoFinish
    <3>2. \A i \in Ids : i \notin Live => Blank(i)'
      BY <3>1 DEF Shape, Blank, RunVars, workVars
    <3>3. QED
      BY <1>0, <3>1, <3>2 DEF Shape, Rest, Splitting, RunVars, workVars
  <2>3. QED
    BY <2>1, <2>2
<1>9. CASE CoComplete
  BY <1>9, NoRunShape DEF CoComplete, Shape, Blank
<1>10. ASSUME NEW i \in Ids, CoReceive(i) PROVE Shape'
  <2>1. /\ chan[i] # <<>> /\ phase \in {"run", "drain", "finish"} /\ splitting = 0
        /\ UNCHANGED <<row, count, phase, splitting, wpc, dur>>
        /\ \A j \in Ids : j # i => UNCHANGED <<until[j], rt[j], chan[j]>>
        /\ \A j \in Ids : j # i => (j \in dirty' <=> j \in dirty)
    BY <1>10 DEF CoReceive, CoIdle, TypeInv, TypeOK
  <2>2. i \in Live
    BY <2>1, Heeded
  <2>3. \A j \in Ids : j \notin Live => Blank(j)'
    BY <2>1, <2>2 DEF Shape, Blank
  <2>4. QED
    BY <1>0, <2>1, <2>3 DEF Shape, Rest, Splitting
<1>11. ASSUME NEW i \in Ids, CoSplit(i) PROVE Shape'
  <2>1. /\ count' = count + 1 /\ count + 1 \in Ids /\ count + 1 \notin Live
        /\ i \in Live /\ i # count + 1 /\ splitting' = i
        /\ phase = "run" /\ splitting = 0
        /\ UNCHANGED <<row, phase, rt, dirty, wpc, dur, chan>>
        /\ \A j \in Ids : j # count + 1 => until'[j] = until[j]
    BY <1>11, HttpAssumption DEF CoSplit, CoIdle, workVars, TypeInv, TypeOK, Ids, Live
  <2>2. Live' = Live \cup {count + 1}
    BY <2>1, LiveIds DEF Live
  <2>3. Blank(count + 1)
    BY <2>1 DEF Shape
  <2>4. \A j \in Ids : j \notin Live' => Blank(j)'
    BY <2>1, <2>2 DEF Shape, Blank
  <2>5. count' >= InitialSegments
    BY <1>0, <2>1, HttpAssumption DEF Shape, Ids
  <2>6. Splitting'
    BY <2>1, <2>2, <2>3 DEF Splitting, Blank
  <2>7. Rest'
    BY <2>1 DEF Shape, Rest
  <2>8. QED
    BY <2>4, <2>5, <2>6, <2>7 DEF Shape
<1>12. ASSUME NEW i \in Ids, CoJoin(i) PROVE Shape'
  <2> DEFINE pc == [wpc EXCEPT ![i] = "none"]
  <2>1. PICK S \in Spawned(pc) :
           /\ wpc' = [j \in Ids |-> IF j \in S THEN "request" ELSE pc[j]]
           /\ dirty' = dirty \cup S
    BY <1>12 DEF CoJoin
  <2>2. \A j \in S : j \in Live
    BY <2>1, SpawnedPending
  <2>3. /\ UNCHANGED <<row, until, count, phase, splitting, rt, chan>>
        /\ phase = "run" /\ splitting = 0
        /\ \A j \in Ids : dur'[j] = dur[j] \/ dur'[j] = 0
    BY <1>12 DEF CoJoin, CoIdle, rowVars, TypeInv, TypeOK
  <2>4. \A j \in Ids : j \notin Live => Blank(j)'
    <3> SUFFICES ASSUME NEW j \in Ids, j \notin Live PROVE Blank(j)'
      OBVIOUS
    <3>1. j \notin S /\ Blank(j)
      BY <2>2 DEF Shape
    <3>2. pc[j] = "none"
      BY <3>1 DEF Blank, TypeInv, TypeOK
    <3>3. wpc'[j] = "none" /\ j \notin dirty'
      BY <2>1, <3>1, <3>2 DEF Blank
    <3>4. QED
      BY <2>3, <3>1, <3>3 DEF Blank
  <2>5. QED
    BY <1>0, <2>3, <2>4 DEF Shape, Rest, Splitting
<1>13. ASSUME NEW i \in Ids, CoJoinFailed(i) PROVE Shape'
  <2>1. i \in Live
    BY <1>13, Active DEF CoJoinFailed
  <2>2. \A j \in Ids : j \notin Live => until'[j] = 0
    BY <1>13, <2>1, CheckpointType DEF CoJoinFailed, Shape, Blank
  <2>3. QED
    BY <1>13, <2>2, NoRunShape DEF CoJoinFailed
<1>14. ASSUME NEW i \in Ids, CoDrainJoin(i) PROVE Shape'
  <2>1. i \in Live
    BY <1>14, Active DEF CoDrainJoin
  <2>2. /\ UNCHANGED <<row, until, count, phase, splitting, dur, chan>> /\ phase = "drain"
        /\ \A j \in Ids : j # i => UNCHANGED <<rt[j], wpc[j]>> /\ (j \in dirty' <=> j \in dirty)
    BY <1>14 DEF CoDrainJoin, rowVars, TypeInv, TypeOK
  <2>3. \A j \in Ids : j \notin Live => Blank(j)'
    BY <2>1, <2>2 DEF Shape, Blank
  <2>4. splitting = 0
    BY <2>2 DEF Shape, Splitting
  <2>5. QED
    BY <1>0, <2>2, <2>3, <2>4 DEF Shape, Rest, Splitting
<1>15. ASSUME NEW i \in Ids, WorkerStep(i) PROVE Shape'
  BY <1>15, ShapeWorker
<1>16. CASE Pause
  BY <1>0, <1>16 DEF Pause, Shape, Rest, Blank, Splitting, rowVars, workVars
<1>17. CASE Resume
  BY <1>0, <1>17 DEF Resume, Shape, Rest, Blank, Splitting, coVars, workVars
<1>18. CASE Crash
  BY <1>18, NoRunShape DEF Crash, Shape, Blank
<1>19. CASE UNCHANGED vars
  BY <1>0, <1>19 DEF vars, rowVars, coVars, workVars, Shape, Rest, Blank, Splitting
<1>20. QED
  BY <1>1, <1>2, <1>3, <1>4, <1>5, <1>6, <1>7, <1>8, <1>9, <1>10, <1>11, <1>12, <1>13,
     <1>14, <1>15, <1>16, <1>17, <1>18, <1>19
     DEF Next, CoordinatorStep

-------------------------------------------------------------------------------
(* No offset of a segment lies before its first byte.                      *)
Ranges ==
  \A i \in Live :
    /\ first[i] <= last[i]
    /\ until[i] >= first[i]
    /\ \A n \in 1 .. Len(chan[i]) : chan[i][n].at >= first[i]
    /\ wpc[i] # "none" => off[i] >= first[i] /\ dur[i] >= first[i]
    /\ Tracked(i) => rt[i] >= first[i]

(* Every byte is in one range, and in no other.                            *)
Tile ==
  /\ \A b \in 0 .. (Size - 1) : \E i \in Live : b \in first[i] .. last[i]
  /\ \A i, j \in Live : \A b \in 0 .. (Size - 1) :
       b \in first[i] .. last[i] /\ b \in first[j] .. last[j] => i = j

\* The bytes of segment i before x are in the temp file.
OnDisk(i, x) == first[i] .. (x - 1) \subseteq disk

\* Every copy of the progress of segment i is behind the disk.
Backed(i) ==
  /\ OnDisk(i, until[i]) /\ OnDisk(i, rt[i]) /\ OnDisk(i, dur[i])
  /\ \A n \in 1 .. Len(chan[i]) : OnDisk(i, chan[i][n].at)
  /\ wpc[i] = "err" => off[i] = dur[i]

(* Every copy of a segment's progress lies behind what is on the disk.     *)
Durable ==
  /\ \A i \in Live : Backed(i)
  /\ published =>
       /\ disk = 0 .. (Size - 1)
       /\ phase \in {"idle", "published"}
       /\ \A i \in Live : until[i] = last[i] + 1

\* What the coordinator knows of a segment once it has read its messages.
Heard(i) ==
  IF chan[i] # <<>> THEN chan[i][Len(chan[i])].at
  ELSE IF i \in dirty THEN rt[i] ELSE until[i]


(* What a worker does to the channel: nothing, or one more message.        *)
LEMMA WorkerSends ==
  ASSUME TypeInv, NEW i \in Ids, WorkerStep(i)
  PROVE  /\ \A j \in Ids : j # i => chan'[j] = chan[j]
         /\ \/ chan'[i] = chan[i] /\ wpc'[i] # "ok"
            \/ /\ Len(chan'[i]) = Len(chan[i]) + 1 /\ Len(chan[i]) \in Nat
               /\ \A n \in 1 .. Len(chan[i]) : chan'[i][n] = chan[i][n]
               /\ chan'[i][Len(chan[i]) + 1].at = off[i]
               /\ dur'[i] = off[i] /\ off'[i] = off[i]
         /\ chan' \in [Ids -> Seq(Messages)]
<1>1. CASE \E kind \in {"progress", "retry"} : Send(i, kind) /\ Flush(i) /\ off' = off
  <2>1. PICK kind \in {"progress", "retry"} : Send(i, kind)
    BY <1>1
  <2>2. /\ chan' \in [Ids -> Seq(Messages)]
        /\ chan' = [chan EXCEPT ![i] = Append(chan[i], [kind |-> kind, at |-> off[i]])]
    BY <2>1, SendType
  <2>3. chan[i] \in Seq(Messages) /\ [kind |-> kind, at |-> off[i]] \in Messages
    BY DEF TypeInv, TypeOK, Messages
  <2>4. chan'[i] = Append(chan[i], [kind |-> kind, at |-> off[i]])
    BY <2>2 DEF TypeInv, TypeOK
  <2>5. /\ Len(chan[i]) \in Nat /\ Len(chan'[i]) = Len(chan[i]) + 1
        /\ \A n \in 1 .. Len(chan[i]) : chan'[i][n] = chan[i][n]
        /\ chan'[i][Len(chan[i]) + 1] = [kind |-> kind, at |-> off[i]]
    BY <2>3, <2>4
  <2>6. dur'[i] = off[i] /\ off'[i] = off[i]
    BY <1>1 DEF Flush, TypeInv, TypeOK
  <2>7. \A j \in Ids : j # i => chan'[j] = chan[j]
    BY <2>2 DEF TypeInv, TypeOK
  <2>8. QED
    BY <2>2, <2>5, <2>6, <2>7
<1>2. CASE chan' = chan /\ wpc'[i] # "ok"
  BY <1>2 DEF TypeInv, TypeOK
<1>3. \A pc : WorkerAt(i, pc) => wpc'[i] = pc
  BY DEF WorkerAt, TypeInv, TypeOK
<1>4. CASE WorkerPublish(i) \/ WorkerEnd(i) \/ WorkerRetry(i)
  BY <1>1, <1>4 DEF WorkerPublish, WorkerEnd, WorkerRetry
<1>5. CASE WorkerRequest(i) \/ WorkerWake(i) \/ WorkerFail(i) \/ WorkerDiskError(i)
  BY <1>2, <1>3, <1>5 DEF WorkerRequest, WorkerWake, WorkerFail, WorkerDiskError
<1>6. CASE WorkerChunk(i)
  BY <1>2, <1>6 DEF WorkerChunk
<1>7. QED
  BY <1>4, <1>5, <1>6 DEF WorkerStep

(* What a worker does to its offsets.                                      *)
LEMMA WorkerMoves ==
  ASSUME TypeInv, NEW i \in Ids, WorkerStep(i)
  PROVE  /\ wpc[i] \in {"request", "stream", "backoff"}
         /\ \A j \in Ids : j # i => UNCHANGED <<wpc[j], off[j], dur[j]>>
         /\ UNCHANGED <<first, last, until, count, phase, splitting, rt, dirty, row,
                        published, rangeEnd>>
         /\ wpc'[i] # "none" /\ wpc'[i] # "pending" /\ wpc'[i] # "lost"
         /\ disk \subseteq disk'
         /\ \/ /\ off'[i] >= off[i] /\ dur'[i] = dur[i] /\ disk' = disk
               /\ wpc'[i] \notin {"err", "ok"}
            \/ /\ off'[i] = off[i] /\ dur'[i] = off[i]
               /\ disk' = disk \cup dur[i] .. (off[i] - 1)
            \/ off'[i] = dur[i] /\ dur'[i] = dur[i] /\ disk' = disk /\ wpc'[i] = "err"
<1>0. /\ wpc' = wpc \/ \E pc : WorkerAt(i, pc)
      /\ \A pc : WorkerAt(i, pc) =>
           wpc'[i] = pc /\ \A j \in Ids : j # i => wpc'[j] = wpc[j]
  BY DEF WorkerStep, WorkerRequest, WorkerChunk, WorkerPublish, WorkerEnd, WorkerRetry,
         WorkerWake, WorkerFail, WorkerDiskError, WorkerAt, TypeInv, TypeOK
<1>1. WorkerFrame =>
        UNCHANGED <<first, last, until, count, phase, splitting, rt, dirty, row, published,
                    rangeEnd>>
  BY DEF WorkerFrame, rowVars, coVars
<1>2. Flush(i) => /\ dur'[i] = off[i] /\ disk' = disk \cup dur[i] .. (off[i] - 1)
                  /\ \A j \in Ids : j # i => dur'[j] = dur[j]
  BY DEF Flush, TypeInv, TypeOK
<1>3. off[i] \in Nat /\ off[i] >= off[i]
  BY DEF TypeInv, TypeOK, Offsets
<1>4. CASE WorkerRequest(i)
  BY <1>0, <1>1, <1>3, <1>4 DEF WorkerRequest
<1>5. CASE WorkerChunk(i)
  <2>1. PICK n \in Chunks : off' = [off EXCEPT ![i] = Smaller(off[i] + n, rangeEnd[i] + 1)]
    BY <1>5 DEF WorkerChunk
  <2>2. off'[i] = Smaller(off[i] + n, rangeEnd[i] + 1)
    BY <2>1 DEF TypeInv, TypeOK
  <2>3. /\ off[i] <= rangeEnd[i] /\ n \in Nat /\ rangeEnd[i] \in Nat
    BY <1>5, HttpAssumption DEF WorkerChunk, TypeInv, TypeOK, Offsets
  <2>4. off'[i] >= off[i]
    BY <1>3, <2>2, <2>3 DEF Smaller
  <2>5. \A j \in Ids : j # i => off'[j] = off[j]
    BY <2>1 DEF TypeInv, TypeOK
  <2>6. QED
    BY <1>1, <1>5, <2>4, <2>5 DEF WorkerChunk
<1>6. CASE WorkerPublish(i)
  BY <1>1, <1>2, <1>6 DEF WorkerPublish
<1>7. CASE WorkerEnd(i)
  BY <1>0, <1>1, <1>2, <1>7 DEF WorkerEnd
<1>8. CASE WorkerRetry(i)
  BY <1>0, <1>1, <1>2, <1>8 DEF WorkerRetry
<1>9. CASE WorkerWake(i)
  BY <1>0, <1>1, <1>3, <1>9 DEF WorkerWake
<1>10. CASE WorkerFail(i)
  BY <1>0, <1>1, <1>2, <1>10 DEF WorkerFail
<1>11. CASE WorkerDiskError(i)
  <2>1. off'[i] = dur[i] /\ \A j \in Ids : j # i => off'[j] = off[j]
    BY <1>11 DEF WorkerDiskError, TypeInv, TypeOK
  <2>2. QED
    BY <1>0, <1>1, <1>11, <2>1 DEF WorkerDiskError
<1>12. QED
  BY <1>4, <1>5, <1>6, <1>7, <1>8, <1>9, <1>10, <1>11 DEF WorkerStep

(* What is left of a channel whose first message was taken.                *)
LEMMA Remainder ==
  ASSUME TypeInv, NEW i \in Ids, chan[i] # <<>>, chan' = [chan EXCEPT ![i] = Tail(@)]
  PROVE  /\ Len(chan[i]) \in Nat /\ Len(chan[i]) >= 1 /\ Head(chan[i]) = chan[i][1]
         /\ Len(chan'[i]) = Len(chan[i]) - 1
         /\ \A n \in 1 .. Len(chan'[i]) :
              chan'[i][n] = chan[i][n + 1] /\ n + 1 \in 1 .. Len(chan[i])
         /\ \A j \in Ids : j # i => chan'[j] = chan[j]
<1>1. chan[i] \in Seq(Messages) /\ chan'[i] = Tail(chan[i])
  BY DEF TypeInv, TypeOK
<1>2. /\ Len(chan[i]) \in Nat /\ Len(chan[i]) >= 1 /\ Head(chan[i]) = chan[i][1]
      /\ Len(Tail(chan[i])) = Len(chan[i]) - 1
  BY <1>1
<1>3. \A n \in 1 .. Len(Tail(chan[i])) : Tail(chan[i])[n] = chan[i][n + 1]
  BY <1>1
<1>4. \A n \in 1 .. Len(Tail(chan[i])) : n + 1 \in 1 .. Len(chan[i])
  BY <1>2
<1>5. QED
  BY <1>1, <1>2, <1>3, <1>4 DEF TypeInv, TypeOK

(* A message carries an offset.                                            *)
LEMMA Carried ==
  ASSUME TypeInv, NEW i \in Ids, NEW n \in 1 .. Len(chan[i])
  PROVE  chan[i][n].at \in Nat /\ chan[i][n].at <= Size
<1>1. chan[i] \in Seq(Messages)
  BY DEF TypeInv, TypeOK
<1>2. chan[i][n] \in Messages
  BY <1>1
<1>3. QED
  BY <1>2, HttpAssumption DEF Messages, Offsets

(* A dirty segment is one whose runtime copy is in use.                    *)
LEMMA DirtyTracked ==
  ASSUME TypeInv, Shape, NEW i \in dirty, phase # "published"
  PROVE  i \in Live /\ Tracked(i)
BY DEF Shape, Rest, Blank, Splitting, TypeInv, TypeOK, Phases, Tracked

LEMMA RangesInit == Init => Ranges
<1> SUFFICES ASSUME Init, NEW i \in Live
             PROVE  /\ first[i] <= last[i]
                    /\ until[i] >= first[i]
                    /\ \A n \in 1 .. Len(chan[i]) : chan[i][n].at >= first[i]
                    /\ wpc[i] # "none" => off[i] >= first[i] /\ dur[i] >= first[i]
                    /\ Tracked(i) => rt[i] >= first[i]
  BY DEF Ranges
<1>1. i \in 1 .. InitialSegments /\ i \in Ids /\ i <= InitialSegments
  BY HttpAssumption DEF Init, Live, Ids
<1>2. first[i] = PlannedFirst(i) /\ last[i] = PlannedLast(i) /\ until[i] = first[i]
  BY <1>1 DEF Init
<1>3. chan[i] = <<>> /\ wpc[i] = "none" /\ ~Tracked(i)
  BY <1>1 DEF Init, Tracked
<1>4. QED
  BY <1>1, <1>2, <1>3, Planned

(* A checkpoint writes an offset within the range of its segment.          *)
LEMMA CheckpointRange ==
  ASSUME TypeInv, Shape, Ranges, phase # "published", NEW i \in Live
  PROVE  Checkpointed[i] >= first[i]
BY CheckpointType, DirtyTracked, LiveIds DEF Ranges

(* When a run is over only the recorded offsets count.                     *)
LEMMA NoRunRanges ==
  ASSUME TypeInv, Ranges, NoRun, UNCHANGED <<first, last, count>>,
         \A i \in Live : until'[i] >= first[i]
  PROVE  Ranges'
<1>1. Live' = Live /\ Live \subseteq Ids
  BY LiveIds DEF Live
<1>2. \A i \in Ids : chan'[i] = <<>> /\ wpc'[i] = "none" /\ ~Tracked(i)'
  BY DEF NoRun, Tracked
<1>3. QED
  BY <1>1, <1>2 DEF Ranges

(* What a split does to the ranges: the first half of what remains stays   *)
(* with the segment, the second becomes a segment of its own.              *)
LEMMA SplitRanges ==
  ASSUME TypeInv, Ranges, NEW i \in Ids, CoSplit(i)
  PROVE  \E cut \in Nat :
           /\ first[i] < cut /\ cut <= last[i] /\ until[i] < cut
           /\ i \in Live /\ count + 1 \notin Live /\ Live' = Live \cup {count + 1}
           /\ first'[i] = first[i] /\ last'[i] = cut - 1
           /\ first'[count + 1] = cut /\ last'[count + 1] = last[i]
           /\ until'[count + 1] = cut
           /\ \A j \in Live : first'[j] = first[j] /\ until'[j] = until[j]
           /\ \A j \in Live : j # i => last'[j] = last[j]
<1> DEFINE h == Remaining(i) \div 2
           k == count + 1
<1>1. /\ h \in Nat /\ h >= 1 /\ until[i] <= last[i] /\ until[i] + h <= last[i]
      /\ until[i] \in Nat /\ last[i] \in Nat
  BY SplitNumbers DEF CoSplit
<1>2. k \in Ids /\ k \notin Live /\ i \in Live /\ i # k /\ count \in Nat
  BY HttpAssumption DEF CoSplit, TypeInv, TypeOK, Ids, Live
<1> HIDE DEF h
<1>3. /\ last' = [last EXCEPT ![i] = until[i] + h - 1, ![k] = last[i]]
      /\ first' = [first EXCEPT ![k] = until[i] + h]
      /\ until' = [until EXCEPT ![k] = until[i] + h]
      /\ count' = k
  BY DEF CoSplit, SplitTail, h
<1>4. Live' = Live \cup {k}
  BY <1>2, <1>3 DEF Live
<1>5. /\ last'[i] = until[i] + h - 1 /\ last'[k] = last[i]
      /\ first'[k] = until[i] + h /\ until'[k] = until[i] + h
      /\ \A j \in Live : first'[j] = first[j] /\ until'[j] = until[j]
      /\ \A j \in Live : j # i => last'[j] = last[j]
  BY <1>2, <1>3, LiveIds DEF TypeInv, TypeOK
<1>6. until[i] >= first[i] /\ first[i] \in Nat
  BY <1>2 DEF Ranges, TypeInv, TypeOK, Offsets
<1>7. until[i] + h \in Nat /\ first[i] < until[i] + h /\ until[i] < until[i] + h
  BY <1>1, <1>6
<1>8. QED
  BY <1>1, <1>2, <1>4, <1>5, <1>7

LEMMA RangesStep == TypeInv /\ Shape /\ Ranges /\ [Next]_vars => Ranges'
<1> SUFFICES ASSUME TypeInv, Shape, Ranges, [Next]_vars PROVE Ranges'
  OBVIOUS
<1>0. /\ Live \subseteq Ids /\ count \in Nat /\ (count' = count => Live' = Live)
      /\ \A i \in Ids : /\ first[i] \in Nat /\ last[i] \in Nat /\ until[i] \in Nat
                        /\ rt[i] \in Nat /\ off[i] \in Nat /\ dur[i] \in Nat
  BY OffsetsNat
<1>1. CASE Prepare
  <2>1. /\ UNCHANGED <<first, last, count, splitting, rt, dirty, wpc, off, dur, chan>>
        /\ phase = "idle" /\ phase' \in {"idle", "start"}
        /\ \A i \in Ids : until'[i] >= until[i]
    <3>1. tempLen \in Nat
      BY DEF TypeInv, TypeOK, Offsets
    <3>2. \/ until' = until
          \/ until' = [until EXCEPT ![1] = tempLen] /\ tempLen > until[1]
      BY <1>1 DEF Prepare
    <3>3. ASSUME NEW i \in Ids PROVE until'[i] >= until[i]
      <4>1. until'[i] = until[i] \/ (i = 1 /\ until'[i] = tempLen /\ tempLen > until[i])
        BY <3>2 DEF TypeInv, TypeOK
      <4>2. QED
        BY <1>0, <3>1, <4>1
    <3>4. QED
      BY <1>1, <3>3 DEF Prepare, workVars
  <2>2. until' \in [Ids -> Offsets]
    BY TypeStep DEF TypeInv, TypeOK
  <2>3. QED
    BY <1>0, <2>1, <2>2 DEF Ranges, Tracked, Offsets
<1>2. CASE CoStart
  <2>1. /\ UNCHANGED <<first, last, count, chan>> /\ phase = "start"
        /\ rt' = until' /\ dur' = until' /\ off' = until'
        /\ until' = [i \in Ids |->
                      IF i \in Live /\ CompleteAtStart(i) THEN last[i] + 1 ELSE until[i]]
    BY <1>2 DEF CoStart
  <2>2. \A i \in Live : until'[i] >= first[i]
    BY <1>0, <2>1 DEF Ranges
  <2>3. \A i \in Ids : chan'[i] = <<>>
    BY <2>1 DEF Shape, Rest
  <2>4. QED
    BY <1>0, <2>1, <2>2, <2>3 DEF Ranges
<1>3. CASE CoCheckpoint
  <2>1. /\ UNCHANGED <<first, last, count, phase, splitting, rt, wpc, off, dur, chan>>
        /\ until' = Checkpointed /\ phase = "run"
    BY <1>3 DEF CoCheckpoint, workVars
  <2>2. \A i \in Live : until'[i] >= first[i]
    BY <2>1, CheckpointRange
  <2>3. QED
    BY <1>0, <2>1, <2>2 DEF Ranges, Tracked
<1>4. CASE CoSplitPublish
  <2>1. /\ UNCHANGED <<first, last, until, count, phase, chan>> /\ phase = "run"
        /\ splitting' = 0 /\ count \in Live
        /\ rt' = [rt EXCEPT ![count] = first[count]]
        /\ off' = [off EXCEPT ![count] = first[count]]
        /\ dur' = [dur EXCEPT ![count] = first[count]]
        /\ wpc' = [wpc EXCEPT ![count] = "request"]
    BY <1>4 DEF CoSplitPublish, Shape, Splitting, rowVars, TypeInv, TypeOK, Live, Ids
  <2>2. ASSUME NEW i \in Live, i # count
        PROVE  /\ UNCHANGED <<rt[i], off[i], dur[i], wpc[i]>>
               /\ Tracked(i)' => Tracked(i)
    BY <1>0, <2>1, <2>2 DEF Tracked, TypeInv, TypeOK
  <2>3. /\ rt'[count] = first[count] /\ off'[count] = first[count]
        /\ dur'[count] = first[count]
    BY <1>0, <2>1 DEF TypeInv, TypeOK
  <2>4. /\ first[count] <= last[count] /\ until[count] >= first[count]
        /\ first[count] \in Nat
        /\ \A n \in 1 .. Len(chan[count]) : chan[count][n].at >= first[count]
    BY <1>0, <2>1 DEF Ranges
  <2>5. first[count] >= first[count]
    BY <2>4
  <2>6. QED
    BY <1>0, <2>1, <2>2, <2>3, <2>4, <2>5 DEF Ranges
<1>5. CASE CoCancel \/ CoLoopEnd
  <2>1. UNCHANGED <<first, last, until, count, splitting, rt, wpc, off, dur, chan>>
        /\ phase = "run"
    BY <1>5 DEF CoCancel, CoLoopEnd, rowVars, workVars
  <2>2. QED
    BY <1>0, <2>1 DEF Ranges, Tracked
<1>6. CASE CoDrained
  <2>1. phase = "drain" /\ until' = Checkpointed /\ NoRun /\ UNCHANGED <<first, last, count>>
    BY <1>6 DEF CoDrained
  <2>2. QED
    BY <2>1, CheckpointRange, NoRunRanges
<1>7. CASE CoFinish
  <2>1. CASE Short \/ tempLen # Size
    <3>1. /\ phase = "finish" /\ until' = Checkpointed /\ NoRun
          /\ UNCHANGED <<first, last, count>>
      BY <1>7, <2>1 DEF CoFinish
    <3>2. QED
      BY <3>1, CheckpointRange, NoRunRanges
  <2>2. CASE ~(Short \/ tempLen # Size)
    <3>1. /\ until' = [i \in Ids |-> IF i \in Live THEN last[i] + 1 ELSE until[i]]
          /\ phase' = "published"
          /\ UNCHANGED <<first, last, count, RunVars>>
      BY <1>7, <2>2 DEF CoFinish
    <3>2. \A i \in Live : until'[i] >= first[i]
      BY <1>0, <3>1 DEF Ranges
    <3>3. QED
      BY <1>0, <3>1, <3>2 DEF Ranges, Tracked, RunVars, workVars
  <2>3. QED
    BY <2>1, <2>2
<1>8. CASE CoComplete \/ Crash
  BY <1>8, NoRunRanges DEF CoComplete, Crash, Ranges
<1>9. ASSUME NEW i \in Ids, CoReceive(i) PROVE Ranges'
  <2>1. /\ chan[i] # <<>> /\ phase \in {"run", "drain", "finish"} /\ splitting = 0
        /\ UNCHANGED <<first, last, count, phase, splitting, wpc, off, dur>>
        /\ \A j \in Ids : j # i => UNCHANGED <<until[j], rt[j]>>
        /\ rt'[i] = Head(chan[i]).at
        /\ until'[i] = until[i] \/ until'[i] = Head(chan[i]).at
        /\ chan' = [chan EXCEPT ![i] = Tail(@)]
    BY <1>9 DEF CoReceive, CoIdle, TypeInv, TypeOK
  <2>2. i \in Live
    BY <2>1, Heeded
  <2>3. /\ Len(chan[i]) >= 1 /\ Len(chan[i]) \in Nat /\ Head(chan[i]) = chan[i][1]
        /\ \A n \in 1 .. Len(chan'[i]) :
              chan'[i][n] = chan[i][n + 1] /\ n + 1 \in 1 .. Len(chan[i])
        /\ \A j \in Ids : j # i => chan'[j] = chan[j]
    BY <2>1, Remainder
  <2>4. 1 \in 1 .. Len(chan[i])
    BY <2>3
  <2>5. Head(chan[i]).at >= first[i]
    BY <2>2, <2>3, <2>4 DEF Ranges
  <2>6. \A n \in 1 .. Len(chan'[i]) : chan'[i][n].at >= first[i]
    BY <2>2, <2>3 DEF Ranges
  <2>7. ASSUME NEW j \in Live, Tracked(j)' PROVE Tracked(j)
    BY <1>0, <2>1, <2>7 DEF Tracked
  <2>8. QED
    BY <1>0, <2>1, <2>2, <2>3, <2>5, <2>6, <2>7 DEF Ranges
<1>10. ASSUME NEW i \in Ids, CoSplit(i) PROVE Ranges'
  <2> DEFINE k == count + 1
  <2>1. PICK cut \in Nat :
           /\ first[i] < cut /\ cut <= last[i] /\ until[i] < cut
           /\ i \in Live /\ k \notin Live /\ Live' = Live \cup {k}
           /\ first'[i] = first[i] /\ last'[i] = cut - 1
           /\ first'[k] = cut /\ last'[k] = last[i]
           /\ until'[k] = cut
           /\ \A j \in Live : first'[j] = first[j] /\ until'[j] = until[j]
           /\ \A j \in Live : j # i => last'[j] = last[j]
    BY <1>10, SplitRanges
  <2>2. /\ count' = k /\ splitting' = i /\ splitting = 0 /\ i # 0
        /\ UNCHANGED <<phase, rt, dirty, wpc, off, dur, chan>>
    BY <1>10 DEF CoSplit, workVars, CoIdle, Ids
  <2>3. k \in Ids
    BY <1>10, HttpAssumption DEF CoSplit, TypeInv, TypeOK, Ids
  <2>4. chan[k] = <<>> /\ wpc[k] = "none"
    BY <2>1, <2>3 DEF Shape, Blank
  <2>5. first'[i] <= last'[i] /\ first'[k] <= last'[k]
    BY <1>0, <2>1
  <2> HIDE DEF k
  <2>6. ASSUME NEW j \in Live'
         PROVE  /\ first'[j] <= last'[j]
                /\ until'[j] >= first'[j]
                /\ \A n \in 1 .. Len(chan'[j]) : chan'[j][n].at >= first'[j]
                /\ wpc'[j] # "none" => off'[j] >= first'[j] /\ dur'[j] >= first'[j]
                /\ Tracked(j)' => rt'[j] >= first'[j]
    <3>1. CASE j = k
      <4>1. ~Tracked(j)'
        BY <2>2, <3>1 DEF Tracked
      <4>2. until'[k] >= first'[k]
        BY <2>1
      <4>3. QED
        BY <2>2, <2>4, <2>5, <3>1, <4>1, <4>2
    <3>2. CASE j \in Live
      <4>1. Tracked(j)' => Tracked(j)
        BY <2>2, <3>2 DEF Tracked
      <4>2. QED
        BY <2>1, <2>2, <2>5, <3>2, <4>1 DEF Ranges
    <3>3. QED
      BY <2>1, <3>1, <3>2
  <2>7. QED
    BY <2>6 DEF Ranges
<1>11. ASSUME NEW i \in Ids, CoJoin(i) PROVE Ranges'
  <2> DEFINE pc == [wpc EXCEPT ![i] = "none"]
  <2>1. PICK S \in Spawned(pc) : wpc' = [j \in Ids |-> IF j \in S THEN "request" ELSE pc[j]]
    BY <1>11 DEF CoJoin
  <2>2. \A j \in S : pc[j] = "pending"
    BY <2>1, SpawnedPending
  <2>3. \A j \in Ids : wpc'[j] # "none" => j # i /\ wpc[j] # "none"
    BY <2>1, <2>2 DEF TypeInv, TypeOK
  <2>4. /\ UNCHANGED <<first, last, until, count, phase, splitting, rt, chan>>
        /\ \A j \in Ids : j # i => UNCHANGED <<off[j], dur[j]>>
    BY <1>11 DEF CoJoin, rowVars, TypeInv, TypeOK
  <2>5. QED
    BY <1>0, <2>3, <2>4 DEF Ranges, Tracked
<1>12. ASSUME NEW i \in Ids, CoJoinFailed(i) PROVE Ranges'
  <2>1. /\ phase = "run" /\ wpc[i] = "err" /\ NoRun /\ UNCHANGED <<first, last, count>>
        /\ until' = [Checkpointed EXCEPT ![i] = off[i]]
    BY <1>12 DEF CoJoinFailed
  <2>2. until'[i] = off[i] /\ \A j \in Ids : j # i => until'[j] = Checkpointed[j]
    BY <2>1, CheckpointType
  <2>3. \A j \in Live : until'[j] >= first[j]
    BY <1>0, <2>1, <2>2, CheckpointRange DEF Ranges
  <2>4. QED
    BY <2>1, <2>3, NoRunRanges
<1>13. ASSUME NEW i \in Ids, CoDrainJoin(i) PROVE Ranges'
  <2>1. /\ UNCHANGED <<first, last, until, count, phase, splitting, off, dur, chan>>
        /\ wpc[i] \in {"ok", "err"}
        /\ \A j \in Ids : j # i => UNCHANGED <<rt[j], wpc[j]>>
        /\ rt'[i] = rt[i] \/ rt'[i] = off[i]
    BY <1>13 DEF CoDrainJoin, rowVars, TypeInv, TypeOK
  <2>2. QED
    BY <1>0, <2>1 DEF Ranges, Tracked
<1>14. ASSUME NEW i \in Ids, WorkerStep(i) PROVE Ranges'
  <2>1. /\ wpc[i] \in {"request", "stream", "backoff"}
        /\ \A j \in Ids : j # i => UNCHANGED <<wpc[j], off[j], dur[j], chan[j]>>
        /\ UNCHANGED <<first, last, until, count, phase, splitting, rt>>
        /\ \/ off'[i] >= off[i] /\ dur'[i] = dur[i]
           \/ off'[i] = off[i] /\ dur'[i] = off[i]
           \/ off'[i] = dur[i] /\ dur'[i] = dur[i]
    BY <1>14, WorkerMoves, WorkerSends
  <2>2. i \in Live
    BY <2>1, Active
  <2>3. off[i] >= first[i] /\ dur[i] >= first[i]
    BY <2>1, <2>2 DEF Ranges
  <2>4. off'[i] \in Nat /\ dur'[i] \in Nat
    <3>1. TypeInv'
      BY TypeStep
    <3>2. QED
      BY <3>1 DEF TypeInv, TypeOK, Offsets
  <2>5. off'[i] >= first[i] /\ dur'[i] >= first[i]
    BY <1>0, <2>1, <2>2, <2>3, <2>4
  <2>6. \A n \in 1 .. Len(chan'[i]) : chan'[i][n].at >= first[i]
    <3>1. CASE chan'[i] = chan[i]
      BY <2>2, <3>1 DEF Ranges
    <3>2. CASE /\ Len(chan'[i]) = Len(chan[i]) + 1 /\ Len(chan[i]) \in Nat
               /\ \A n \in 1 .. Len(chan[i]) : chan'[i][n] = chan[i][n]
               /\ chan'[i][Len(chan[i]) + 1].at = off[i]
      <4> SUFFICES ASSUME NEW n \in 1 .. Len(chan'[i]) PROVE chan'[i][n].at >= first[i]
        OBVIOUS
      <4>1. n \in 1 .. Len(chan[i]) \/ n = Len(chan[i]) + 1
        BY <3>2
      <4>2. QED
        BY <2>2, <2>3, <3>2, <4>1 DEF Ranges
    <3>3. QED
      BY <1>14, <3>1, <3>2, WorkerSends
  <2>7. QED
    BY <1>0, <2>1, <2>2, <2>5, <2>6 DEF Ranges, Tracked
<1>15. CASE Pause \/ Resume \/ UNCHANGED vars
  BY <1>0, <1>15 DEF Pause, Resume, vars, rowVars, coVars, workVars, Ranges, Tracked
<1>16. QED
  BY <1>1, <1>2, <1>3, <1>4, <1>5, <1>6, <1>7, <1>8, <1>9, <1>10, <1>11, <1>12, <1>13,
     <1>14, <1>15
     DEF Next, CoordinatorStep

-------------------------------------------------------------------------------
(* The plan cuts the file into ranges that follow one another.             *)

(* Products grow with their factors.                                       *)
LEMMA Grows ==
  ASSUME NEW a \in Nat, NEW b \in Nat, NEW q \in Nat, a <= b
  PROVE  a * q <= b * q /\ a * q \in Nat /\ b * q \in Nat
<1>1. PICK d \in Nat : b = a + d
  <2>1. b - a \in Nat /\ b = a + (b - a)
    OBVIOUS
  <2>2. QED
    BY <2>1
<1>2. b * q = a * q + d * q /\ d * q \in Nat /\ a * q \in Nat
  BY <1>1, Z3
<1>3. QED
  BY <1>2

(* A planned range ends before the next one begins.                        *)
LEMMA PlannedApart ==
  ASSUME NEW i \in 1 .. InitialSegments, NEW j \in 1 .. InitialSegments, i < j
  PROVE  PlannedLast(i) < PlannedFirst(j)
<1> DEFINE q == Size \div InitialSegments
           r == Size % InitialSegments
<1>1. q \in Nat /\ r \in Nat
  BY Division, HttpAssumption
<1> HIDE DEF q, r
<1>2. PlannedLast(i) = (i - 1) * q + Smaller(i - 1, r) + q - (IF i <= r THEN 0 ELSE 1)
  BY DEF PlannedLast, PlannedFirst, q, r
<1>3. PlannedFirst(j) = (j - 1) * q + Smaller(j - 1, r)
  BY DEF PlannedFirst, q, r
<1>4. i \in Nat /\ j - 1 \in Nat /\ i <= j - 1 /\ i - 1 \in Nat
  BY HttpAssumption
<1>5. i * q <= (j - 1) * q /\ i * q \in Nat /\ (j - 1) * q \in Nat
  BY <1>1, <1>4, Grows
<1>6. (i - 1) * q + q = i * q /\ (i - 1) * q \in Nat
  BY <1>1, <1>4, Z3
<1>7. Smaller(i, r) <= Smaller(j - 1, r)
  BY <1>1, <1>4 DEF Smaller
<1>8. Smaller(i - 1, r) - (IF i <= r THEN 0 ELSE 1) < Smaller(i, r)
  BY <1>1, <1>4 DEF Smaller
<1>9. Smaller(i - 1, r) \in Nat /\ Smaller(i, r) \in Nat /\ Smaller(j - 1, r) \in Nat
  BY <1>1, <1>4 DEF Smaller
<1> DEFINE e == IF i <= r THEN 0 ELSE 1
<1>10. e \in Nat
  OBVIOUS
<1>11. PlannedLast(i) = i * q + (Smaller(i - 1, r) - e)
  <2> HIDE DEF e
  <2>1. PlannedLast(i) = (i - 1) * q + Smaller(i - 1, r) + q - e
    BY <1>2 DEF e
  <2>2. QED
    BY <1>1, <1>5, <1>6, <1>9, <1>10, <2>1
<1>12. Smaller(i - 1, r) - e < Smaller(i, r)
  BY <1>8
<1> HIDE DEF e
<1>13. QED
  BY <1>3, <1>5, <1>7, <1>9, <1>10, <1>11, <1>12

(* Every byte is in a planned range.                                       *)
LEMMA PlannedCovers ==
  ASSUME NEW b \in 0 .. (Size - 1)
  PROVE  \E i \in 1 .. InitialSegments : b \in PlannedFirst(i) .. PlannedLast(i)
<1> DEFINE n == InitialSegments
           q == Size \div n
           r == Size % n
<1>1. /\ q \in Nat /\ r \in Nat /\ r < n /\ n \in Nat \ {0}
      /\ Size = n * q + r /\ Size \in Nat /\ Size >= n
  BY Division, HttpAssumption
<1>2. q >= 1 /\ b \in Nat /\ b < Size
  BY <1>1, Z3
<1> HIDE DEF n, q, r
<1>3. ASSUME NEW i \in 1 .. n
      PROVE  /\ PlannedFirst(i) = (i - 1) * q + Smaller(i - 1, r)
             /\ PlannedLast(i) = PlannedFirst(i) + q - (IF i <= r THEN 0 ELSE 1)
  BY DEF PlannedFirst, PlannedLast, q, r, n
<1>4. CASE b < r * (q + 1)
  <2> DEFINE m == b \div (q + 1)
             t == b % (q + 1)
  <2>1. m \in Nat /\ t \in Nat /\ t < q + 1 /\ b = (q + 1) * m + t
    <3>1. q + 1 \in Nat \ {0}
      BY <1>1
    <3>2. QED
      BY <1>2, <3>1, Division
  <2> HIDE DEF m, t
  <2>2. m < r
    <3>1. SUFFICES ASSUME r <= m PROVE FALSE
      BY <1>1, <2>1
    <3>2. r * (q + 1) <= m * (q + 1)
      BY <1>1, <2>1, <3>1, Grows
    <3>3. (q + 1) * m = m * (q + 1) /\ (q + 1) * m \in Nat /\ r * (q + 1) \in Nat
      BY <1>1, <2>1, Z3
    <3>4. QED
      BY <1>2, <1>4, <2>1, <3>2, <3>3
  <2>3. m + 1 \in 1 .. n /\ m + 1 <= r /\ (m + 1) - 1 = m
    BY <1>1, <2>1, <2>2
  <2>4. Smaller(m, r) = m
    BY <1>1, <2>1, <2>2 DEF Smaller
  <2>5. PlannedFirst(m + 1) = m * q + m /\ PlannedLast(m + 1) = m * q + m + q - 0
    BY <1>3, <2>3, <2>4
  <2>6. (q + 1) * m = m * q + m /\ m * q \in Nat
    BY <1>1, <2>1, Z3
  <2>7. b \in PlannedFirst(m + 1) .. PlannedLast(m + 1)
    BY <1>1, <1>2, <2>1, <2>5, <2>6
  <2>8. QED
    BY <2>3, <2>7 DEF n
<1>5. CASE ~(b < r * (q + 1))
  <2> DEFINE c == b - r
             m == c \div q
             t == c % q
  <2>1. r * (q + 1) = r * q + r /\ r * q \in Nat /\ n * q \in Nat
    BY <1>1, Z3
  <2>2. c \in Nat /\ c >= r * q /\ c < n * q /\ b = c + r
    BY <1>1, <1>2, <1>5, <2>1
  <2>3. m \in Nat /\ t \in Nat /\ t < q /\ c = q * m + t
    <3> HIDE DEF c
    <3>1. QED
      BY <1>1, <1>2, <2>2, Division
  <2> HIDE DEF c, m, t
  <2>4. q * m = m * q /\ m * q \in Nat
    BY <1>1, <2>3, Z3
  <2>5. r <= m
    <3>1. SUFFICES ASSUME m + 1 <= r PROVE FALSE
      BY <1>1, <2>3
    <3>2. (m + 1) * q <= r * q
      BY <1>1, <2>3, <3>1, Grows
    <3>3. (m + 1) * q = m * q + q
      BY <1>1, <2>3, Z3
    <3>4. QED
      BY <1>1, <2>1, <2>2, <2>3, <2>4, <3>2, <3>3
  <2>6. m < n
    <3>1. SUFFICES ASSUME n <= m PROVE FALSE
      BY <1>1, <2>3
    <3>2. n * q <= m * q
      BY <1>1, <2>3, <3>1, Grows
    <3>3. QED
      BY <2>1, <2>2, <2>3, <2>4, <3>2
  <2>7. m + 1 \in 1 .. n /\ ~(m + 1 <= r) /\ (m + 1) - 1 = m
    BY <1>1, <2>3, <2>5, <2>6
  <2>8. Smaller(m, r) = r
    BY <1>1, <2>3, <2>5 DEF Smaller
  <2>9. PlannedFirst(m + 1) = m * q + r /\ PlannedLast(m + 1) = m * q + r + q - 1
    BY <1>3, <2>7, <2>8
  <2>10. b \in PlannedFirst(m + 1) .. PlannedLast(m + 1)
    BY <1>1, <1>2, <2>2, <2>3, <2>4, <2>9
  <2>11. QED
    BY <2>7, <2>10 DEF n
<1>6. QED
  BY <1>4, <1>5

LEMMA TileInit == Init => Tile
<1> SUFFICES ASSUME Init PROVE Tile
  OBVIOUS
<1>1. Live = 1 .. InitialSegments
  BY DEF Init, Live
<1>2. \A i \in Live : first[i] = PlannedFirst(i) /\ last[i] = PlannedLast(i)
  BY <1>1, HttpAssumption DEF Init, Ids
<1>3. \A b \in 0 .. (Size - 1) : \E i \in Live : b \in first[i] .. last[i]
  BY <1>1, <1>2, PlannedCovers
<1>4. ASSUME NEW i \in Live, NEW j \in Live, NEW b \in 0 .. (Size - 1),
             b \in first[i] .. last[i], b \in first[j] .. last[j], i < j
      PROVE  FALSE
  <2>1. PlannedLast(i) < PlannedFirst(j)
    BY <1>1, <1>4, PlannedApart
  <2>2. PlannedLast(i) \in Nat /\ PlannedFirst(j) \in Nat
    BY <1>1, Planned
  <2>3. b <= PlannedLast(i) /\ PlannedFirst(j) <= b
    BY <1>2, <1>4
  <2>4. QED
    BY <2>1, <2>2, <2>3
<1>5. ASSUME NEW i \in Live, NEW j \in Live, i # j PROVE i < j \/ j < i
  BY <1>1, <1>5
<1>6. QED
  BY <1>3, <1>4, <1>5 DEF Tile

(* Only a split changes the ranges.                                        *)
LEMMA RangesMove ==
  ASSUME Next
  PROVE  UNCHANGED <<first, last, count>> \/ \E i \in Ids : CoSplit(i)
<1>1. ASSUME NEW i \in Ids, WorkerStep(i) PROVE UNCHANGED <<first, last, count>>
  BY <1>1 DEF WorkerStep, WorkerRequest, WorkerChunk, WorkerPublish, WorkerEnd, WorkerRetry,
              WorkerWake, WorkerFail, WorkerDiskError, WorkerFrame, rowVars
<1>2. CASE CoordinatorStep
  BY <1>2 DEF CoordinatorStep, Prepare, CoStart, CoCheckpoint, CoSplitPublish, CoCancel,
              CoDrained, CoLoopEnd, CoFinish, CoComplete, CoReceive, CoJoin, CoJoinFailed,
              CoDrainJoin, rowVars
<1>3. QED
  BY <1>1, <1>2 DEF Next, Pause, Resume, Crash, rowVars

LEMMA TileStep == TypeInv /\ Ranges /\ Tile /\ [Next]_vars => Tile'
<1> SUFFICES ASSUME TypeInv, Ranges, Tile, [Next]_vars PROVE Tile'
  OBVIOUS
<1>1. CASE UNCHANGED <<first, last, count>>
  <2>1. Live' = Live
    BY <1>1 DEF Live
  <2>2. QED
    BY <1>1, <2>1 DEF Tile
<1>2. ASSUME NEW i \in Ids, CoSplit(i) PROVE Tile'
  <2> DEFINE k == count + 1
  <2>1. PICK cut \in Nat :
           /\ first[i] < cut /\ cut <= last[i]
           /\ i \in Live /\ k \notin Live /\ Live' = Live \cup {k}
           /\ first'[i] = first[i] /\ last'[i] = cut - 1
           /\ first'[k] = cut /\ last'[k] = last[i]
           /\ \A j \in Live : first'[j] = first[j]
           /\ \A j \in Live : j # i => last'[j] = last[j]
    BY <1>2, SplitRanges
  <2>2. first[i] \in Nat /\ last[i] \in Nat
    BY DEF TypeInv, TypeOK, Offsets
  <2> HIDE DEF k
  <2>3. ASSUME NEW b \in 0 .. (Size - 1)
        PROVE  /\ b \in first'[i] .. last'[i] <=> b \in first[i] .. last[i] /\ b < cut
               /\ b \in first'[k] .. last'[k] <=> b \in first[i] .. last[i] /\ ~(b < cut)
               /\ \A j \in Live : j # i =>
                    (b \in first'[j] .. last'[j] <=> b \in first[j] .. last[j])
    BY <2>1, <2>2
  <2>4. ASSUME NEW b \in 0 .. (Size - 1)
        PROVE  \E j \in Live' : b \in first'[j] .. last'[j]
    <3>1. PICK j \in Live : b \in first[j] .. last[j]
      BY DEF Tile
    <3>2. QED
      BY <2>1, <2>3, <3>1
  <2>5. ASSUME NEW j \in Live', NEW l \in Live', NEW b \in 0 .. (Size - 1),
               b \in first'[j] .. last'[j], b \in first'[l] .. last'[l]
        PROVE  j = l
    <3> DEFINE ownerOf(x) == IF x = k THEN i ELSE x
    <3>1. ownerOf(j) \in Live /\ ownerOf(l) \in Live
      BY <2>1
    <3>2. b \in first[ownerOf(j)] .. last[ownerOf(j)] /\ b \in first[ownerOf(l)] .. last[ownerOf(l)]
      BY <2>1, <2>3, <2>5
    <3>3. ownerOf(j) = ownerOf(l)
      BY <3>1, <3>2 DEF Tile
    <3>4. j = k <=> l = k
      BY <2>1, <2>3, <2>5, <3>3
    <3>5. QED
      BY <3>3, <3>4
  <2>6. QED
    BY <2>4, <2>5 DEF Tile
<1>3. QED
  BY <1>1, <1>2, RangesMove DEF vars, rowVars

-------------------------------------------------------------------------------
(* What is recorded is on the disk.  A task of one segment is excepted: it *)
(* takes the length of its temp file for its progress.                     *)

LEMMA DurableInit == Init => Durable
<1> SUFFICES ASSUME Init PROVE Durable
  OBVIOUS
<1>1. ASSUME NEW i \in Live PROVE Backed(i)
  <2>1. i \in Ids /\ i <= InitialSegments /\ i \in 1 .. InitialSegments
    BY HttpAssumption DEF Init, Live, Ids
  <2>2. /\ until[i] = first[i] /\ rt[i] = 0 /\ dur[i] = 0 /\ chan[i] = <<>>
        /\ wpc[i] = "none" /\ first[i] \in Nat
    BY <2>1, Planned DEF Init
  <2>3. QED
    BY <2>2 DEF Backed, OnDisk
<1>2. ~published
  BY DEF Init
<1>3. QED
  BY <1>1, <1>2 DEF Durable, Backed

(* A checkpoint writes what is on the disk.                                *)
LEMMA CheckpointBacked ==
  ASSUME TypeInv, Durable, NEW i \in Live
  PROVE  OnDisk(i, Checkpointed[i])
BY CheckpointType, LiveIds DEF Durable, Backed

(* When a run is over only the recorded offsets count.                     *)
LEMMA NoRunDurable ==
  ASSUME TypeInv, Ranges, NoRun, UNCHANGED <<first, last, count, disk, published>>,
         \A i \in Live : OnDisk(i, until'[i]),
         published => \A i \in Live : until'[i] = last[i] + 1,
         Durable
  PROVE  Durable'
<1>1. Live' = Live /\ Live \subseteq Ids
  BY LiveIds DEF Live
<1>2. ASSUME NEW i \in Live PROVE Backed(i)'
  <2>1. /\ chan'[i] = <<>> /\ wpc'[i] = "none" /\ rt'[i] = 0 /\ dur'[i] = 0
        /\ first[i] \in Nat
    BY <1>1 DEF NoRun, TypeInv, TypeOK, Offsets
  <2>2. QED
    BY <2>1 DEF Backed, OnDisk
<1>3. phase' = "idle"
  BY DEF NoRun
<1>4. QED
  BY <1>1, <1>2, <1>3 DEF Durable, Backed

(* A published file is not touched by a run.                               *)
LEMMA PublishedRests ==
  ASSUME TypeInv, Shape, Durable, published
  PROVE  /\ phase \in {"idle", "published"} /\ splitting = 0
         /\ \A i \in Ids : wpc[i] \in {"none", "pending", "lost"}
BY DEF Shape, Rest, Splitting, Durable, Backed

LEMMA DurableStep ==
  ASSUME InitialSegments >= 2, TypeInv, Shape, Ranges, Tile, Durable, [Next]_vars
  PROVE  Durable'
<1>0. /\ Live \subseteq Ids /\ count \in Nat /\ (count' = count => Live' = Live)
      /\ \A i \in Ids : /\ first[i] \in Nat /\ last[i] \in Nat /\ until[i] \in Nat
                        /\ rt[i] \in Nat /\ off[i] \in Nat /\ dur[i] \in Nat
  BY OffsetsNat
<1>1. CASE Prepare
  <2>1. count >= 2 /\ 1 \in Live
    BY <1>0, HttpAssumption DEF Shape, Live
  <2>2. /\ UNCHANGED <<first, last, count, disk, published, rt, dirty, wpc, off, dur, chan>>
        /\ until' = until /\ phase = "idle"
    BY <1>0, <1>1, <2>1 DEF Prepare, workVars, fileVars
  <2>3. ASSUME published PROVE phase' = phase
    <3>1. until[1] = last[1] + 1 /\ first[1] <= last[1]
      BY <2>1, <2>3 DEF Durable, Backed, Ranges
    <3>2. Recorded(1) > first[1]
      BY <1>0, <2>1, <3>1 DEF Recorded, Smaller
    <3>3. ResumeBlocked
      BY <2>1, <2>3, <3>2 DEF ResumeBlocked, Progress
    <3>4. QED
      BY <1>1, <3>3 DEF Prepare
  <2>4. QED
    BY <1>0, <2>2, <2>3 DEF Durable, Backed, OnDisk
<1>2. CASE CoStart
  <2>1. /\ UNCHANGED <<first, last, count, chan, published>> /\ phase = "start"
        /\ rt' = until' /\ dur' = until' /\ off' = until'
        /\ until' = [i \in Ids |->
                      IF i \in Live /\ CompleteAtStart(i) THEN last[i] + 1 ELSE until[i]]
        /\ disk' = IF Progress THEN disk ELSE {}
    BY <1>2 DEF CoStart
  <2>2. ~published
    BY <2>1 DEF Durable, Backed
  <2>3. \A i \in Ids : chan'[i] = <<>>
    BY <2>1 DEF Shape, Rest
  <2>4. ASSUME NEW i \in Live PROVE OnDisk(i, until[i])' /\ until'[i] \in Nat
    <3>1. CASE CompleteAtStart(i)
      <4>1. until'[i] = last[i] + 1 /\ last[i] + 1 <= until[i] /\ first[i] <= last[i]
        BY <1>0, <2>1, <3>1 DEF CompleteAtStart, Ranges
      <4>2. Recorded(i) > first[i]
        BY <1>0, <4>1 DEF Recorded, Smaller
      <4>3. disk' = disk
        BY <2>1, <4>2 DEF Progress
      <4>4. QED
        BY <1>0, <2>1, <4>1, <4>3 DEF Durable, Backed, OnDisk
    <3>2. CASE ~CompleteAtStart(i)
      <4>1. until'[i] = until[i]
        BY <1>0, <2>1, <3>2
      <4>2. CASE Progress
        BY <1>0, <2>1, <4>1, <4>2 DEF Durable, Backed, OnDisk
      <4>3. CASE ~Progress
        <5>1. ~(Recorded(i) > first[i]) /\ first[i] <= last[i]
          BY <4>3 DEF Progress, Ranges
        <5>2. until[i] <= first[i]
          BY <1>0, <5>1 DEF Recorded, Smaller
        <5>3. QED
          BY <1>0, <2>1, <4>1, <5>2 DEF OnDisk
      <4>4. QED
        BY <4>2, <4>3
    <3>3. QED
      BY <3>1, <3>2
  <2>5. ASSUME NEW i \in Live PROVE Backed(i)'
    <3>1. rt' = until' /\ dur' = until' /\ off' = until' /\ chan'[i] = <<>>
      BY <1>0, <2>1, <2>3
    <3>2. first'[i] .. (until'[i] - 1) \subseteq disk'
      BY <2>4 DEF OnDisk
    <3>3. QED
      BY <3>1, <3>2 DEF Backed, OnDisk
  <2>6. QED
    BY <1>0, <2>1, <2>2, <2>5 DEF Durable, Backed
<1>3. CASE CoCheckpoint
  <2>1. /\ UNCHANGED <<first, last, count, phase, disk, published, rt, wpc, off, dur, chan>>
        /\ until' = Checkpointed /\ phase = "run"
    BY <1>3 DEF CoCheckpoint, workVars, fileVars
  <2>2. \A i \in Live : OnDisk(i, until[i])'
    BY <2>1, CheckpointBacked DEF OnDisk
  <2>3. QED
    BY <1>0, <2>1, <2>2 DEF Durable, Backed, OnDisk
<1>4. CASE CoSplitPublish
  <2>1. /\ UNCHANGED <<first, last, until, count, phase, chan, disk, published>>
        /\ phase = "run" /\ count \in Live
        /\ rt' = [rt EXCEPT ![count] = first[count]]
        /\ dur' = [dur EXCEPT ![count] = first[count]]
        /\ wpc' = [wpc EXCEPT ![count] = "request"]
        /\ off' = [off EXCEPT ![count] = first[count]]
    BY <1>4 DEF CoSplitPublish, Shape, Splitting, rowVars, fileVars, TypeInv, TypeOK, Live,
                Ids
  <2>2. ASSUME NEW i \in Live, i # count
        PROVE  UNCHANGED <<rt[i], off[i], dur[i], wpc[i]>>
    BY <1>0, <2>1, <2>2 DEF TypeInv, TypeOK
  <2>3. rt'[count] = first[count] /\ dur'[count] = first[count] /\ wpc'[count] = "request"
    BY <1>0, <2>1 DEF TypeInv, TypeOK
  <2>4. OnDisk(count, first[count]) /\ first[count] \in Nat
    BY <1>0, <2>1 DEF OnDisk
  <2>5. ASSUME NEW i \in Live PROVE Backed(i)'
    <3>1. CASE i = count
      BY <2>1, <2>3, <2>4, <3>1 DEF Durable, Backed, OnDisk
    <3>2. CASE i # count
      BY <2>1, <2>2, <3>2 DEF Durable, Backed, OnDisk
    <3>3. QED
      BY <3>1, <3>2
  <2>6. QED
    BY <1>0, <2>1, <2>5 DEF Durable, Backed
<1>5. CASE CoCancel \/ CoLoopEnd
  <2>1. /\ UNCHANGED <<first, last, until, count, disk, published, rt, wpc, off, dur, chan>>
        /\ phase = "run"
    BY <1>5 DEF CoCancel, CoLoopEnd, rowVars, workVars, fileVars
  <2>2. QED
    BY <1>0, <2>1 DEF Durable, Backed, OnDisk
<1>6. CASE CoDrained
  <2>1. /\ phase = "drain" /\ until' = Checkpointed /\ NoRun
        /\ UNCHANGED <<first, last, count, disk, published>>
    BY <1>6 DEF CoDrained, fileVars
  <2>2. ~published
    BY <2>1 DEF Durable, Backed
  <2>3. QED
    BY <2>1, <2>2, CheckpointBacked, NoRunDurable
<1>7. CASE CoFinish
  <2>1. CASE Short \/ tempLen # Size
    <3>1. /\ phase = "finish" /\ until' = Checkpointed /\ NoRun
          /\ UNCHANGED <<first, last, count, disk, published>>
      BY <1>7, <2>1 DEF CoFinish
    <3>2. ~published
      BY <3>1 DEF Durable, Backed
    <3>3. QED
      BY <3>1, <3>2, CheckpointBacked, NoRunDurable
  <2>2. CASE ~(Short \/ tempLen # Size)
    <3>1. /\ until' = [i \in Ids |-> IF i \in Live THEN last[i] + 1 ELSE until[i]]
          /\ phase' = "published" /\ ~Short
          /\ UNCHANGED <<first, last, count, disk, RunVars>>
      BY <1>7, <2>2 DEF CoFinish
    <3>2. ASSUME NEW i \in Live PROVE OnDisk(i, last[i] + 1)
      <4>1. Checkpointed[i] > last[i] /\ Checkpointed[i] \in Nat
        BY <1>0, <3>1, CheckpointType DEF Short, Offsets
      <4>2. OnDisk(i, Checkpointed[i])
        BY CheckpointBacked
      <4>3. QED
        BY <1>0, <4>1, <4>2 DEF OnDisk
    <3>3. disk = 0 .. (Size - 1)
      <4>1. ASSUME NEW b \in 0 .. (Size - 1) PROVE b \in disk
        <5>1. PICK i \in Live : b \in first[i] .. last[i]
          BY DEF Tile
        <5>2. b \in first[i] .. ((last[i] + 1) - 1)
          BY <1>0, <5>1
        <5>3. QED
          BY <3>2, <5>2 DEF OnDisk
      <4>2. QED
        BY <4>1 DEF TypeInv, TypeOK
    <3>4. ASSUME NEW i \in Live PROVE Backed(i)'
      <4>1. until'[i] = last[i] + 1
        BY <1>0, <3>1
      <4>2. QED
        BY <3>1, <3>2, <4>1 DEF Durable, Backed, OnDisk, RunVars, workVars
    <3>5. \A i \in Live : until'[i] = last'[i] + 1
      BY <1>0, <3>1
    <3>6. QED
      BY <1>0, <3>1, <3>3, <3>4, <3>5 DEF Durable, Backed
  <2>3. QED
    BY <2>1, <2>2
<1>8. CASE CoComplete \/ Crash
  <2>1. NoRun /\ UNCHANGED <<first, last, until, count, disk, published>>
    BY <1>8 DEF CoComplete, Crash, fileVars
  <2>2. /\ \A i \in Live : OnDisk(i, until'[i])
        /\ published => \A i \in Live : until'[i] = last[i] + 1
    BY <2>1 DEF Durable, Backed
  <2>3. QED
    BY <2>1, <2>2, NoRunDurable
<1>9. ASSUME NEW i \in Ids, CoReceive(i) PROVE Durable'
  <2>1. /\ chan[i] # <<>> /\ phase \in {"run", "drain", "finish"}
        /\ UNCHANGED <<first, last, count, phase, disk, published, wpc, off, dur>>
        /\ \A j \in Ids : j # i => UNCHANGED <<until[j], rt[j]>>
        /\ rt'[i] = Head(chan[i]).at
        /\ until'[i] = until[i] \/ until'[i] = Head(chan[i]).at
        /\ chan' = [chan EXCEPT ![i] = Tail(@)]
    BY <1>9 DEF CoReceive, TypeInv, TypeOK, fileVars
  <2>2. i \in Live /\ ~published
    BY <2>1, Heeded DEF Durable, Backed
  <2>3. /\ Len(chan[i]) >= 1 /\ Len(chan[i]) \in Nat /\ Head(chan[i]) = chan[i][1]
        /\ \A n \in 1 .. Len(chan'[i]) :
              chan'[i][n] = chan[i][n + 1] /\ n + 1 \in 1 .. Len(chan[i])
        /\ \A j \in Ids : j # i => chan'[j] = chan[j]
    BY <2>1, Remainder
  <2>4. 1 \in 1 .. Len(chan[i])
    BY <2>3
  <2>5. OnDisk(i, Head(chan[i]).at)
    BY <2>2, <2>3, <2>4 DEF Durable, Backed
  <2>6. \A n \in 1 .. Len(chan'[i]) : OnDisk(i, chan'[i][n].at)
    BY <2>2, <2>3 DEF Durable, Backed
  <2>7. Backed(i)'
    BY <2>1, <2>2, <2>5, <2>6 DEF Durable, Backed, OnDisk
  <2>8. ASSUME NEW j \in Live, j # i PROVE Backed(j)'
    BY <1>0, <2>1, <2>3, <2>8 DEF Durable, Backed, OnDisk
  <2>9. QED
    BY <1>0, <2>1, <2>2, <2>7, <2>8 DEF Durable, Backed
<1>10. ASSUME NEW i \in Ids, CoSplit(i) PROVE Durable'
  <2> DEFINE k == count + 1
  <2>1. PICK cut \in Nat :
           /\ k \notin Live /\ Live' = Live \cup {k}
           /\ first'[k] = cut /\ until'[k] = cut
           /\ \A j \in Live : first'[j] = first[j] /\ until'[j] = until[j]
    BY <1>10, SplitRanges
  <2>2. /\ UNCHANGED <<phase, disk, published, rt, dirty, wpc, off, dur, chan>>
        /\ phase = "run"
    BY <1>10 DEF CoSplit, workVars, fileVars
  <2>3. k \in Ids
    BY <1>10, HttpAssumption DEF CoSplit, TypeInv, TypeOK, Ids
  <2>4. chan[k] = <<>> /\ wpc[k] = "none" /\ rt[k] = 0 /\ dur[k] = 0
    BY <2>1, <2>3 DEF Shape, Blank
  <2>5. ~published
    BY <2>2 DEF Durable, Backed
  <2> HIDE DEF k
  <2>6. ASSUME NEW j, j = k PROVE Backed(j)'
    BY <2>1, <2>2, <2>4, <2>6 DEF Backed, OnDisk
  <2>7. ASSUME NEW j \in Live PROVE Backed(j)'
    BY <2>1, <2>2 DEF Durable, Backed, OnDisk
  <2>8. ASSUME NEW j \in Live' PROVE Backed(j)'
    <3>1. CASE j = k
      BY <2>6, <3>1
    <3>2. CASE j \in Live
      BY <2>7, <3>2
    <3>3. QED
      BY <2>1, <3>1, <3>2
  <2>9. QED
    BY <2>2, <2>5, <2>8 DEF Durable, Backed
<1>11. ASSUME NEW i \in Ids, CoJoin(i) PROVE Durable'
  <2> DEFINE pc == [wpc EXCEPT ![i] = "none"]
  <2>1. PICK S \in Spawned(pc) : wpc' = [j \in Ids |-> IF j \in S THEN "request" ELSE pc[j]]
    BY <1>11 DEF CoJoin
  <2>2. \A j \in Ids : wpc'[j] = "err" => j # i /\ wpc[j] = "err"
    BY <2>1 DEF TypeInv, TypeOK
  <2>3. /\ UNCHANGED <<first, last, until, count, phase, disk, published, rt, chan>>
        /\ phase = "run" /\ dur'[i] = 0
        /\ \A j \in Ids : j # i => UNCHANGED <<off[j], dur[j]>>
    BY <1>11 DEF CoJoin, rowVars, fileVars, TypeInv, TypeOK
  <2>4. ASSUME NEW j \in Live PROVE Backed(j)'
    <3>1. OnDisk(j, dur[j])'
      <4>1. CASE j = i
        BY <1>0, <2>3, <4>1 DEF OnDisk
      <4>2. CASE j # i
        BY <1>0, <2>3, <4>2 DEF OnDisk, Durable, Backed
      <4>3. QED
        BY <4>1, <4>2
    <3>2. QED
      BY <1>0, <2>2, <2>3, <3>1 DEF Durable, Backed, OnDisk
  <2>5. QED
    BY <1>0, <2>3, <2>4 DEF Durable, Backed
<1>12. ASSUME NEW i \in Ids, CoJoinFailed(i) PROVE Durable'
  <2>1. /\ phase = "run" /\ wpc[i] = "err" /\ NoRun
        /\ UNCHANGED <<first, last, count, disk, published>>
        /\ until' = [Checkpointed EXCEPT ![i] = off[i]]
    BY <1>12 DEF CoJoinFailed, fileVars
  <2>2. until'[i] = off[i] /\ \A j \in Ids : j # i => until'[j] = Checkpointed[j]
    BY <2>1, CheckpointType
  <2>3. \A j \in Live : OnDisk(j, until'[j])
    <3> SUFFICES ASSUME NEW j \in Live PROVE OnDisk(j, until'[j])
      OBVIOUS
    <3>1. CASE j = i
      BY <2>1, <2>2, <3>1 DEF Durable, Backed
    <3>2. CASE j # i
      BY <1>0, <2>2, <3>2, CheckpointBacked
    <3>3. QED
      BY <3>1, <3>2
  <2>4. ~published
    BY <2>1 DEF Durable, Backed
  <2>5. QED
    BY <2>1, <2>3, <2>4, NoRunDurable
<1>13. ASSUME NEW i \in Ids, CoDrainJoin(i) PROVE Durable'
  <2>1. /\ UNCHANGED <<first, last, until, count, phase, disk, published, off, dur, chan>>
        /\ phase = "drain" /\ wpc'[i] # "err"
        /\ \A j \in Ids : j # i => UNCHANGED <<rt[j], wpc[j]>>
        /\ rt'[i] = rt[i] \/ (wpc[i] = "err" /\ rt'[i] = off[i])
    BY <1>13 DEF CoDrainJoin, rowVars, fileVars, TypeInv, TypeOK
  <2>2. ASSUME NEW j \in Live PROVE Backed(j)'
    <3>1. OnDisk(j, rt[j])'
      BY <1>0, <2>1 DEF Durable, Backed, OnDisk
    <3>2. QED
      BY <1>0, <2>1, <3>1 DEF Durable, Backed, OnDisk
  <2>3. QED
    BY <1>0, <2>1, <2>2 DEF Durable, Backed
<1>14. ASSUME NEW i \in Ids, WorkerStep(i) PROVE Durable'
  <2>1. /\ wpc[i] \in {"request", "stream", "backoff"}
        /\ \A j \in Ids : j # i => UNCHANGED <<wpc[j], off[j], dur[j], chan[j]>>
        /\ UNCHANGED <<first, last, until, count, phase, published, rt>>
        /\ disk \subseteq disk'
        /\ \/ off'[i] >= off[i] /\ dur'[i] = dur[i] /\ wpc'[i] # "err"
           \/ /\ off'[i] = off[i] /\ dur'[i] = off[i]
              /\ disk' = disk \cup dur[i] .. (off[i] - 1)
           \/ off'[i] = dur[i] /\ dur'[i] = dur[i]
    BY <1>14, WorkerMoves, WorkerSends
  <2>2. i \in Live /\ ~published
    BY <2>1, Active, PublishedRests
  <2>3. OnDisk(i, dur[i])'
    <3>1. CASE dur'[i] = dur[i]
      BY <2>1, <2>2, <3>1 DEF Durable, Backed, OnDisk
    <3>2. CASE dur'[i] = off[i] /\ disk' = disk \cup dur[i] .. (off[i] - 1)
      <4>1. first[i] .. (dur[i] - 1) \subseteq disk
        BY <2>2 DEF Durable, Backed, OnDisk
      <4>2. first[i] .. (off[i] - 1) \subseteq disk'
        BY <1>0, <3>2, <4>1
      <4>3. QED
        BY <2>1, <3>2, <4>2 DEF OnDisk
    <3>3. QED
      BY <2>1, <3>1, <3>2
  <2>4. wpc'[i] = "err" => off'[i] = dur'[i]
    BY <2>1
  <2>5. \A n \in 1 .. Len(chan'[i]) : OnDisk(i, chan[i][n].at)'
    <3>1. CASE chan'[i] = chan[i]
      BY <2>1, <2>2, <3>1 DEF Durable, Backed, OnDisk
    <3>2. CASE /\ Len(chan'[i]) = Len(chan[i]) + 1 /\ Len(chan[i]) \in Nat
               /\ \A n \in 1 .. Len(chan[i]) : chan'[i][n] = chan[i][n]
               /\ chan'[i][Len(chan[i]) + 1].at = off[i]
               /\ dur'[i] = off[i] /\ off'[i] = off[i]
      <4> SUFFICES ASSUME NEW n \in 1 .. Len(chan'[i]) PROVE OnDisk(i, chan[i][n].at)'
        OBVIOUS
      <4>1. CASE n \in 1 .. Len(chan[i])
        BY <2>1, <2>2, <3>2, <4>1 DEF Durable, Backed, OnDisk
      <4>2. CASE n = Len(chan[i]) + 1
        BY <2>3, <3>2, <4>2 DEF OnDisk
      <4>3. QED
        BY <3>2, <4>1, <4>2
    <3>3. QED
      BY <1>14, <3>1, <3>2, WorkerSends
  <2>6. Backed(i)'
    BY <2>1, <2>2, <2>3, <2>4, <2>5 DEF Durable, Backed, OnDisk
  <2>7. ASSUME NEW j \in Live, j # i PROVE Backed(j)'
    BY <1>0, <2>1, <2>7 DEF Durable, Backed, OnDisk
  <2>8. QED
    BY <1>0, <2>1, <2>2, <2>6, <2>7 DEF Durable, Backed
<1>15. CASE Pause \/ Resume \/ UNCHANGED vars
  <2>1. UNCHANGED <<first, last, until, count, phase, disk, published, rt, wpc, off, dur, chan>>
    BY <1>15 DEF Pause, Resume, vars, rowVars, fileVars, coVars, workVars
  <2>2. ASSUME NEW i \in Live PROVE Backed(i)'
    BY <2>1 DEF Durable, Backed, OnDisk
  <2>3. QED
    BY <1>0, <2>1, <2>2 DEF Durable, Backed
<1>16. QED
  BY <1>1, <1>2, <1>3, <1>4, <1>5, <1>6, <1>7, <1>8, <1>9, <1>10, <1>11, <1>12, <1>13,
     <1>14, <1>15
     DEF Next, CoordinatorStep

-------------------------------------------------------------------------------
(* Progress keeps its order.                                               *)

\* A message that was sent later reports at least as much.
Sorted(i) ==
  /\ \A n \in 1 .. Len(chan[i]) : until[i] <= chan[i][n].at
  /\ \A m, n \in 1 .. Len(chan[i]) : m <= n => chan[i][m].at <= chan[i][n].at

\* The runtime copy is between the row and the messages.
Between(i) ==
  Tracked(i) =>
    /\ until[i] <= rt[i]
    /\ phase = "run" => \A n \in 1 .. Len(chan[i]) : rt[i] <= chan[i][n].at

\* A worker is ahead of everything that it reported.
Ahead(i) ==
  phase \in {"run", "drain"} /\ wpc[i] # "none" =>
    /\ dur[i] <= off[i] /\ until[i] <= dur[i]
    /\ \A n \in 1 .. Len(chan[i]) : chan[i][n].at <= dur[i]
    /\ phase = "run" => rt[i] <= dur[i]

\* A worker that returned without an error has reported all of its bytes.
Reported(i) ==
  phase \in {"run", "drain"} /\ wpc[i] \in {"none", "pending", "ok"} => dur[i] <= Heard(i)

InOrder(i) == Sorted(i) /\ Between(i) /\ Ahead(i) /\ Reported(i)

Ordered ==
  /\ \A i \in Live : InOrder(i)
  /\ splitting # 0 => until[count] <= first[count]

(* Outside of a run only the messages matter, and there are none.          *)
LEMMA OutOfRunOrder ==
  ASSUME phase' \notin {"run", "drain", "finish"}, splitting' = 0,
         \A i \in Live' : chan'[i] = <<>>
  PROVE  Ordered'
<1>1. ASSUME NEW i \in Live' PROVE InOrder(i)'
  BY DEF InOrder, Sorted, Between, Ahead, Reported, Tracked
<1>2. QED
  BY <1>1 DEF Ordered

LEMMA OrderedInit == Init => Ordered
<1> SUFFICES ASSUME Init PROVE Ordered
  OBVIOUS
<1>1. ASSUME NEW i \in Live PROVE InOrder(i)
  <2>1. i \in Ids
    BY HttpAssumption DEF Init, Live, Ids
  <2>2. chan[i] = <<>>
    BY <2>1 DEF Init
  <2>3. QED
    BY <2>2 DEF Init, InOrder, Sorted, Between, Ahead, Reported, Tracked
<1>2. QED
  BY <1>1 DEF Ordered, Init

(* A run that is over leaves no message.                                   *)
LEMMA NoRunOrdered ==
  ASSUME TypeInv, NoRun, count' = count
  PROVE  Ordered'
<1>1. Live' \subseteq Ids
  BY LiveIds DEF Live
<1>2. QED
  BY <1>1, OutOfRunOrder DEF NoRun

(* What a segment's messages, its row and its copies say when none of them *)
(* changed but the phase went on.                                          *)
LEMMA SegmentKept ==
  ASSUME NEW i, InOrder(i),
         UNCHANGED <<until[i], rt[i], off[i], dur[i], wpc[i], chan[i]>>,
         i \in dirty' <=> i \in dirty,
         Tracked(i)' => Tracked(i),
         phase' = phase \/ (phase = "run" /\ phase' \in {"drain", "finish"})
  PROVE  InOrder(i)'
<1>1. Heard(i)' = Heard(i)
  BY DEF Heard
<1>2. Sorted(i)'
  BY DEF InOrder, Sorted
<1>3. Between(i)'
  BY DEF InOrder, Between
<1>4. Ahead(i)'
  BY DEF InOrder, Ahead
<1>5. Reported(i)'
  BY <1>1 DEF InOrder, Reported
<1>6. QED
  BY <1>2, <1>3, <1>4, <1>5 DEF InOrder

(* What was heard of a segment is an offset.                               *)
LEMMA HeardNat ==
  ASSUME TypeInv, NEW i \in Ids
  PROVE  Heard(i) \in Nat
<1>1. rt[i] \in Nat /\ until[i] \in Nat
  BY OffsetsNat
<1>2. CASE chan[i] # <<>>
  <2>1. chan[i] \in Seq(Messages)
    BY DEF TypeInv, TypeOK
  <2>2. Len(chan[i]) \in 1 .. Len(chan[i])
    BY <1>2, <2>1
  <2>3. QED
    BY <1>2, <2>2, Carried DEF Heard
<1>3. CASE chan[i] = <<>>
  BY <1>1, <1>3 DEF Heard
<1>4. QED
  BY <1>2, <1>3

(* A worker's step keeps the order of its segment.                         *)
LEMMA WorkerOrder ==
  ASSUME TypeInv, Shape, Ordered, NEW i \in Ids, WorkerStep(i)
  PROVE  InOrder(i)'
<1>1. /\ wpc[i] \in {"request", "stream", "backoff"}
      /\ UNCHANGED <<until, count, phase, splitting, rt, dirty>>
      /\ wpc'[i] # "none" /\ wpc'[i] # "pending"
      /\ \/ off'[i] >= off[i] /\ dur'[i] = dur[i]
         \/ off'[i] = off[i] /\ dur'[i] = off[i]
         \/ off'[i] = dur[i] /\ dur'[i] = dur[i]
  BY WorkerMoves
<1>2. i \in Live /\ phase \in {"run", "drain"} /\ Tracked(i)
  BY <1>1, Active
<1>3. /\ until[i] \in Nat /\ rt[i] \in Nat /\ off[i] \in Nat /\ dur[i] \in Nat
      /\ Len(chan[i]) \in Nat
      /\ \A n \in 1 .. Len(chan[i]) : chan[i][n].at \in Nat
  <2>1. chan[i] \in Seq(Messages)
    BY DEF TypeInv, TypeOK
  <2>2. QED
    BY <2>1, Carried, OffsetsNat
<1>4. off'[i] \in Nat /\ dur'[i] \in Nat
  <2>1. TypeInv'
    BY TypeStep DEF Next
  <2>2. QED
    BY <2>1, OffsetsNat DEF TypeInv, TypeOK, Offsets
<1>5. /\ \A n \in 1 .. Len(chan[i]) : until[i] <= chan[i][n].at
      /\ \A m, n \in 1 .. Len(chan[i]) : m <= n => chan[i][m].at <= chan[i][n].at
      /\ until[i] <= rt[i]
      /\ phase = "run" => \A n \in 1 .. Len(chan[i]) : rt[i] <= chan[i][n].at
      /\ dur[i] <= off[i] /\ until[i] <= dur[i]
      /\ \A n \in 1 .. Len(chan[i]) : chan[i][n].at <= dur[i]
      /\ phase = "run" => rt[i] <= dur[i]
  BY <1>1, <1>2 DEF Ordered, InOrder, Sorted, Between, Ahead
<1>6. dur'[i] <= off'[i] /\ dur[i] <= dur'[i] /\ dur'[i] <= Larger(off[i], dur[i])
  BY <1>1, <1>3, <1>4, <1>5 DEF Larger
<1>7. CASE chan'[i] = chan[i] /\ wpc'[i] # "ok"
  <2>1. Sorted(i)' /\ Between(i)'
    BY <1>1, <1>2, <1>5, <1>7 DEF Sorted, Between, Tracked
  <2>2. \A n \in 1 .. Len(chan[i]) : chan[i][n].at <= dur'[i]
    BY <1>3, <1>4, <1>5, <1>6
  <2>3. until[i] <= dur'[i] /\ (phase = "run" => rt[i] <= dur'[i])
    BY <1>3, <1>4, <1>5, <1>6
  <2>4. Ahead(i)'
    BY <1>1, <1>6, <1>7, <2>2, <2>3 DEF Ahead
  <2>5. Reported(i)'
    BY <1>1, <1>7 DEF Reported
  <2>6. QED
    BY <2>1, <2>4, <2>5 DEF InOrder
<1>8. CASE /\ Len(chan'[i]) = Len(chan[i]) + 1 /\ Len(chan[i]) \in Nat
           /\ \A n \in 1 .. Len(chan[i]) : chan'[i][n] = chan[i][n]
           /\ chan'[i][Len(chan[i]) + 1].at = off[i]
           /\ dur'[i] = off[i] /\ off'[i] = off[i]
  <2> DEFINE L == Len(chan[i])
  <2>1. ASSUME NEW n \in 1 .. Len(chan'[i])
        PROVE  \/ n \in 1 .. L /\ chan'[i][n].at = chan[i][n].at
               \/ n = L + 1 /\ chan'[i][n].at = off[i]
    <3>1. n \in 1 .. L \/ n = L + 1
      BY <1>8
    <3>2. QED
      BY <1>8, <3>1
  <2>2. \A n \in 1 .. L : chan[i][n].at <= off[i]
    BY <1>3, <1>5
  <2>3. \A n \in 1 .. Len(chan'[i]) : chan'[i][n].at <= off[i]
    BY <1>3, <2>1, <2>2
  <2>4. \A n \in 1 .. Len(chan'[i]) : until[i] <= chan'[i][n].at
    BY <1>3, <1>5, <2>1
  <2>5. \A m, n \in 1 .. Len(chan'[i]) : m <= n => chan'[i][m].at <= chan'[i][n].at
    <3> SUFFICES ASSUME NEW m \in 1 .. Len(chan'[i]), NEW n \in 1 .. Len(chan'[i]), m <= n
                 PROVE  chan'[i][m].at <= chan'[i][n].at
      OBVIOUS
    <3>1. CASE n \in 1 .. L
      <4>1. m \in 1 .. L
        BY <1>3, <3>1
      <4>2. QED
        BY <1>5, <1>8, <3>1, <4>1
    <3>2. CASE n = L + 1
      BY <1>8, <2>3, <3>2
    <3>3. QED
      BY <2>1, <3>1, <3>2
  <2>6. phase = "run" => \A n \in 1 .. Len(chan'[i]) : rt[i] <= chan'[i][n].at
    BY <1>3, <1>5, <2>1
  <2>7. Sorted(i)' /\ Between(i)'
    BY <1>1, <1>5, <2>4, <2>5, <2>6 DEF Sorted, Between
  <2>8. until[i] <= off[i] /\ (phase = "run" => rt[i] <= off[i])
    BY <1>3, <1>5
  <2>9. Ahead(i)'
    BY <1>1, <1>6, <1>8, <2>3, <2>8 DEF Ahead
  <2>10. chan'[i] # <<>> /\ Heard(i)' = off[i]
    <3>1. chan'[i] # <<>>
      BY <1>8
    <3>2. QED
      BY <1>8, <3>1 DEF Heard
  <2>11. Reported(i)'
    BY <1>3, <1>8, <2>10 DEF Reported
  <2>12. QED
    BY <2>7, <2>9, <2>11 DEF InOrder
<1>9. QED
  BY <1>7, <1>8, WorkerSends

LEMMA OrderedStep == TypeInv /\ Shape /\ Ordered /\ [Next]_vars => Ordered'
<1> SUFFICES ASSUME TypeInv, Shape, Ordered, [Next]_vars PROVE Ordered'
  OBVIOUS
<1>0. /\ Live \subseteq Ids /\ count \in Nat /\ (count' = count => Live' = Live)
      /\ \A i \in Ids : /\ first[i] \in Nat /\ last[i] \in Nat /\ until[i] \in Nat
                        /\ rt[i] \in Nat /\ off[i] \in Nat /\ dur[i] \in Nat
  BY OffsetsNat
<1>1. CASE Prepare
  <2>1. /\ UNCHANGED <<count, splitting, chan>> /\ phase = "idle"
        /\ phase' \in {"idle", "start"}
    BY <1>1 DEF Prepare, workVars
  <2>2. QED
    BY <1>0, <2>1, OutOfRunOrder DEF Shape, Rest
<1>2. CASE CoStart
  <2> DEFINE pc == [i \in Ids |-> IF i \notin Live THEN "none"
                           ELSE IF CompleteAtStart(i) THEN "none" ELSE "pending"]
  <2>1. /\ UNCHANGED <<count, splitting, chan>> /\ phase = "start" /\ phase' = "run"
        /\ rt' = until' /\ dur' = until' /\ off' = until'
    BY <1>2 DEF CoStart
  <2>2. splitting = 0 /\ \A i \in Ids : chan'[i] = <<>>
    BY <2>1 DEF Shape, Rest
  <2>3. ASSUME NEW i \in Live PROVE InOrder(i)'
    <3>1. until'[i] \in Nat
      <4>1. TypeInv'
        BY TypeStep
      <4>2. QED
        BY <1>0, <2>1, <4>1, OffsetsNat DEF TypeInv, TypeOK, Offsets
    <3>2. Heard(i)' = until'[i]
      BY <1>0, <2>1, <2>2 DEF Heard
    <3>3. /\ chan'[i] = <<>> /\ rt'[i] = until'[i] /\ dur'[i] = until'[i]
          /\ off'[i] = until'[i] /\ until'[i] <= until'[i]
      BY <1>0, <2>1, <2>2, <3>1
    <3>4. QED
      BY <3>2, <3>3 DEF InOrder, Sorted, Between, Ahead, Reported
  <2>4. QED
    BY <1>0, <2>1, <2>2, <2>3 DEF Ordered
<1>3. CASE CoCheckpoint
  <2>1. /\ UNCHANGED <<first, count, phase, splitting, rt, wpc, off, dur, chan>>
        /\ until' = Checkpointed /\ phase = "run" /\ splitting = 0 /\ dirty' = {}
    BY <1>3 DEF CoCheckpoint, workVars, CoIdle
  <2>2. ASSUME NEW i \in Live PROVE InOrder(i)'
    <3>1. until'[i] = (IF i \in dirty THEN rt[i] ELSE until[i])
      BY <1>0, <2>1, CheckpointType
    <3>2. Tracked(i) /\ InOrder(i) /\ rt[i] \in Nat
      BY <1>0, <2>1, <2>2 DEF Tracked, Ordered
    <3>3. Heard(i)' = Heard(i)
      BY <2>1, <3>1 DEF Heard
    <3>4. /\ \A n \in 1 .. Len(chan[i]) : until'[i] <= chan[i][n].at
          /\ until'[i] <= rt[i] /\ rt[i] <= rt[i]
      BY <2>1, <3>1, <3>2 DEF InOrder, Sorted, Between
    <3>5. Sorted(i)' /\ Between(i)'
      BY <2>1, <3>2, <3>4 DEF InOrder, Sorted, Between
    <3>6. Ahead(i)'
      BY <2>1, <3>1, <3>2 DEF InOrder, Ahead
    <3>7. Reported(i)'
      BY <2>1, <3>2, <3>3 DEF InOrder, Reported
    <3>8. QED
      BY <3>5, <3>6, <3>7 DEF InOrder
  <2>3. QED
    BY <1>0, <2>1, <2>2 DEF Ordered
<1>4. CASE CoSplitPublish
  <2>1. /\ UNCHANGED <<first, until, count, phase, chan>> /\ phase = "run"
        /\ splitting # 0 /\ splitting' = 0 /\ count \in Live /\ count \notin dirty
        /\ chan[count] = <<>>
        /\ dirty' = dirty \cup {splitting, count}
        /\ rt' = [rt EXCEPT ![count] = first[count]]
        /\ off' = [off EXCEPT ![count] = first[count]]
        /\ dur' = [dur EXCEPT ![count] = first[count]]
        /\ wpc' = [wpc EXCEPT ![count] = "request"]
    BY <1>4 DEF CoSplitPublish, Shape, Splitting, rowVars, TypeInv, TypeOK, Live, Ids
  <2>2. until[count] <= first[count] /\ first[count] \in Nat
    BY <1>0, <2>1 DEF Ordered
  <2>3. /\ rt'[count] = first[count] /\ off'[count] = first[count]
        /\ dur'[count] = first[count] /\ wpc'[count] = "request"
    BY <1>0, <2>1 DEF TypeInv, TypeOK
  <2>4. ASSUME NEW i \in Live PROVE InOrder(i)'
    <3>1. CASE i = count
      <4>1. /\ chan'[i] = <<>> /\ until'[i] <= rt'[i] /\ wpc'[i] = "request"
            /\ dur'[i] <= off'[i] /\ until'[i] <= dur'[i] /\ rt'[i] <= dur'[i]
        BY <2>1, <2>2, <2>3, <3>1
      <4>2. QED
        BY <4>1 DEF InOrder, Sorted, Between, Ahead, Reported
    <3>2. CASE i # count
      <4>1. /\ UNCHANGED <<rt[i], off[i], dur[i], wpc[i]>>
            /\ Tracked(i) /\ InOrder(i)
        BY <1>0, <2>1, <3>2 DEF Tracked, TypeInv, TypeOK, Ordered
      <4>2. Sorted(i)' /\ Between(i)' /\ Ahead(i)'
        BY <2>1, <4>1 DEF InOrder, Sorted, Between, Ahead
      <4>3. Heard(i) <= Heard(i)'
        <5>1. until[i] <= rt[i] /\ Heard(i) \in Nat /\ rt[i] \in Nat /\ until[i] \in Nat
          BY <1>0, <4>1, HeardNat DEF InOrder, Between
        <5>2. CASE chan[i] # <<>>
          BY <2>1, <5>1, <5>2 DEF Heard
        <5>3. CASE chan[i] = <<>>
          BY <2>1, <4>1, <5>1, <5>3 DEF Heard
        <5>4. QED
          BY <5>2, <5>3
      <4>4. Heard(i) \in Nat /\ Heard(i)' \in Nat /\ dur[i] \in Nat
        <5>1. Heard(i)' \in {Heard(i), rt[i]}
          BY <2>1, <4>1 DEF Heard
        <5>2. QED
          BY <1>0, <5>1, HeardNat
      <4>5. Reported(i)'
        BY <2>1, <4>1, <4>3, <4>4 DEF InOrder, Reported
      <4>6. QED
        BY <4>2, <4>5 DEF InOrder
    <3>3. QED
      BY <3>1, <3>2
  <2>5. QED
    BY <1>0, <2>1, <2>4 DEF Ordered
<1>5. CASE CoCancel \/ CoLoopEnd
  <2>1. /\ UNCHANGED <<until, count, splitting, rt, dirty, wpc, off, dur, chan>>
        /\ phase = "run" /\ phase' \in {"drain", "finish"} /\ splitting = 0
    BY <1>5 DEF CoCancel, CoLoopEnd, rowVars, workVars, CoIdle
  <2>2. ASSUME NEW i \in Live PROVE InOrder(i)'
    <3>1. Tracked(i)
      BY <2>1 DEF Tracked
    <3>2. QED
      BY <2>1, <3>1, SegmentKept DEF Ordered
  <2>3. QED
    BY <1>0, <2>1, <2>2 DEF Ordered
<1>6. CASE CoDrained \/ CoComplete \/ Crash
  BY <1>6, NoRunOrdered DEF CoDrained, CoComplete, Crash
<1>7. CASE CoFinish
  <2>1. CASE Short \/ tempLen # Size
    BY <1>7, <2>1, NoRunOrdered DEF CoFinish
  <2>2. CASE ~(Short \/ tempLen # Size)
    <3>1. /\ phase' = "published" /\ UNCHANGED <<count, splitting, chan>> /\ phase = "finish"
          /\ \A i \in Ids : chan[i] = <<>>
      BY <1>7, <2>2 DEF CoFinish, RunVars, workVars, Quiet
    <3>2. splitting = 0
      BY <3>1 DEF Shape, Splitting
    <3>3. QED
      BY <1>0, <3>1, <3>2, OutOfRunOrder
  <2>3. QED
    BY <2>1, <2>2
<1>8. ASSUME NEW i \in Ids, CoReceive(i) PROVE Ordered'
  <2>1. /\ chan[i] # <<>> /\ phase \in {"run", "drain", "finish"} /\ splitting = 0
        /\ UNCHANGED <<first, count, phase, splitting, wpc, off, dur>>
        /\ \A j \in Ids : j # i => UNCHANGED <<until[j], rt[j]>> /\ (j \in dirty' <=> j \in dirty)
        /\ rt'[i] = Head(chan[i]).at
        /\ \/ until'[i] = Head(chan[i]).at /\ i \notin dirty'
           \/ until'[i] = until[i] /\ i \in dirty'
        /\ chan' = [chan EXCEPT ![i] = Tail(@)]
    BY <1>8 DEF CoReceive, CoIdle, TypeInv, TypeOK
  <2>2. i \in Live /\ Tracked(i) /\ InOrder(i)
    BY <2>1, Heeded DEF Tracked, Ordered
  <2>3. /\ Len(chan[i]) >= 1 /\ Len(chan[i]) \in Nat /\ Head(chan[i]) = chan[i][1]
        /\ Len(chan'[i]) = Len(chan[i]) - 1
        /\ \A n \in 1 .. Len(chan'[i]) :
              chan'[i][n] = chan[i][n + 1] /\ n + 1 \in 1 .. Len(chan[i])
        /\ \A j \in Ids : j # i => chan'[j] = chan[j]
    BY <2>1, Remainder
  <2> DEFINE a == chan[i][1].at
  <2>4. 1 \in 1 .. Len(chan[i]) /\ a \in Nat
    BY <2>3, Carried
  <2>5. /\ until[i] <= a
        /\ \A n \in 1 .. Len(chan'[i]) : a <= chan'[i][n].at /\ until[i] <= chan'[i][n].at
        /\ \A m, n \in 1 .. Len(chan'[i]) : m <= n => chan'[i][m].at <= chan'[i][n].at
    <3>1. /\ \A n \in 1 .. Len(chan[i]) : until[i] <= chan[i][n].at
          /\ \A m, n \in 1 .. Len(chan[i]) : m <= n => chan[i][m].at <= chan[i][n].at
      BY <2>2 DEF InOrder, Sorted
    <3>2. \A n \in 1 .. Len(chan'[i]) : 1 <= n + 1
      OBVIOUS
    <3>3. \A m, n \in 1 .. Len(chan'[i]) : m <= n => m + 1 <= n + 1
      OBVIOUS
    <3>4. until[i] <= a
      BY <2>4, <3>1
    <3>5. \A n \in 1 .. Len(chan'[i]) : a <= chan'[i][n].at /\ until[i] <= chan'[i][n].at
      BY <2>3, <2>4, <3>1, <3>2
    <3>6. \A m, n \in 1 .. Len(chan'[i]) : m <= n => chan'[i][m].at <= chan'[i][n].at
      BY <2>3, <3>1, <3>3
    <3>7. QED
      BY <3>4, <3>5, <3>6
  <2>6. rt'[i] = a /\ until'[i] <= a /\ until'[i] \in {a, until[i]}
    BY <2>1, <2>3, <2>4, <2>5
  <2>7. Sorted(i)' /\ Between(i)'
    BY <2>5, <2>6 DEF Sorted, Between
  <2>8. Ahead(i)'
    <3> SUFFICES ASSUME phase \in {"run", "drain"}, wpc[i] # "none" PROVE Ahead(i)'
      BY <2>1 DEF Ahead
    <3>1. /\ dur[i] <= off[i] /\ until[i] <= dur[i]
          /\ \A n \in 1 .. Len(chan[i]) : chan[i][n].at <= dur[i]
      BY <2>2 DEF InOrder, Ahead
    <3>2. a <= dur[i]
      BY <2>4, <3>1
    <3>3. \A n \in 1 .. Len(chan'[i]) : chan'[i][n].at <= dur[i]
      BY <2>3, <3>1
    <3>4. QED
      BY <2>1, <2>6, <3>1, <3>2, <3>3 DEF Ahead
  <2>9. Heard(i)' = Heard(i)
    <3>1. CASE Len(chan[i]) = 1
      <4>1. Len(chan'[i]) = 0 /\ chan'[i] \in Seq(Messages)
        <5>1. TypeInv'
          BY TypeStep
        <5>2. QED
          BY <2>3, <3>1, <5>1 DEF TypeInv, TypeOK, Messages
      <4>2. chan'[i] = <<>>
        BY <4>1
      <4>3. Heard(i) = a
        BY <2>1, <3>1 DEF Heard
      <4>4. Heard(i)' = a
        BY <2>1, <2>3, <4>2 DEF Heard
      <4>5. QED
        BY <4>3, <4>4
    <3>2. CASE Len(chan[i]) # 1
      <4> DEFINE l == Len(chan[i])
      <4>0. l \in Nat /\ l >= 1 /\ l # 1 /\ Len(chan'[i]) = l - 1
        BY <2>3, <3>2
      <4> HIDE DEF l
      <4>1. l - 1 \in 1 .. (l - 1) /\ (l - 1) + 1 = l /\ l - 1 # 0
        BY <4>0
      <4>2. chan'[i][Len(chan'[i])] = chan[i][l]
        BY <2>3, <4>0, <4>1
      <4>3. chan'[i] # <<>>
        BY <4>0, <4>1
      <4>4. QED
        BY <2>1, <4>2, <4>3 DEF Heard, l
    <3>3. QED
      BY <3>1, <3>2
  <2>10. Reported(i)'
    BY <2>1, <2>2, <2>9 DEF InOrder, Reported
  <2>11. InOrder(i)'
    BY <2>7, <2>8, <2>10 DEF InOrder
  <2>12. ASSUME NEW j \in Live, j # i PROVE InOrder(j)'
    <3>1. Tracked(j) /\ InOrder(j)
      BY <2>1 DEF Tracked, Ordered
    <3>2. QED
      BY <1>0, <2>1, <2>3, <2>12, <3>1, SegmentKept
  <2>13. QED
    BY <1>0, <2>1, <2>11, <2>12 DEF Ordered
<1>9. ASSUME NEW i \in Ids, CoSplit(i) PROVE Ordered'
  <2> DEFINE k == count + 1
             h == Remaining(i) \div 2
  <2>1. /\ k \in Ids /\ k \notin Live /\ Live' = Live \cup {k} /\ count' = k
        /\ UNCHANGED <<phase, rt, dirty, wpc, off, dur, chan>> /\ phase = "run"
        /\ splitting = 0
    <3>1. /\ k \in Ids /\ k \notin Live /\ count' = k
      BY <1>9, HttpAssumption DEF CoSplit, TypeInv, TypeOK, Ids, Live
    <3>2. Live' = Live \cup {k}
      BY <1>0, <3>1 DEF Live
    <3>3. /\ UNCHANGED <<phase, rt, dirty, wpc, off, dur, chan>> /\ phase = "run"
          /\ splitting = 0
      BY <1>9 DEF CoSplit, workVars, CoIdle
    <3>4. QED
      BY <3>1, <3>2, <3>3
  <2>2. /\ until' = [until EXCEPT ![k] = SplitTail(i)]
        /\ first' = [first EXCEPT ![k] = SplitTail(i)]
    BY <1>9 DEF CoSplit
  <2>3. h \in Nat /\ until[i] \in Nat
    BY <1>9, SplitNumbers DEF CoSplit
  <2>4. SplitTail(i) \in Nat
    BY <2>3 DEF SplitTail
  <2>5. /\ until'[k] = SplitTail(i) /\ first'[k] = SplitTail(i)
        /\ \A j \in Live : until'[j] = until[j]
    BY <1>0, <2>1, <2>2 DEF TypeInv, TypeOK
  <2>6. chan[k] = <<>> /\ wpc[k] = "none" /\ dur[k] = 0 /\ k \notin dirty
    BY <2>1 DEF Shape, Blank
  <2>7. ASSUME NEW j, j = k PROVE InOrder(j)'
    <3>1. ~Tracked(j)'
      <4>1. splitting' = i /\ i # 0
        BY <1>9 DEF CoSplit, Ids
      <4>2. QED
        BY <2>1, <2>7, <4>1 DEF Tracked
    <3>2. Heard(j)' = until'[j] /\ until'[j] \in Nat
      BY <2>1, <2>4, <2>5, <2>6, <2>7 DEF Heard
    <3>3. QED
      BY <2>1, <2>6, <2>7, <3>1, <3>2 DEF InOrder, Sorted, Between, Ahead, Reported
  <2>8. ASSUME NEW j \in Live PROVE InOrder(j)'
    <3>1. Tracked(j) /\ InOrder(j)
      BY <2>1 DEF Tracked, Ordered
    <3>2. QED
      BY <2>1, <2>5, <2>8, <3>1, SegmentKept
  <2>9. until'[count'] <= first'[count']
    BY <2>1, <2>4, <2>5
  <2>10. ASSUME NEW j \in Live' PROVE InOrder(j)'
    BY <2>1, <2>7, <2>8
  <2>11. QED
    BY <2>9, <2>10 DEF Ordered
<1>10. ASSUME NEW i \in Ids, CoJoin(i) PROVE Ordered'
  <2> DEFINE pc == [wpc EXCEPT ![i] = "none"]
  <2>1. PICK S \in Spawned(pc) :
           /\ wpc' = [j \in Ids |-> IF j \in S THEN "request" ELSE pc[j]]
           /\ dirty' = dirty \cup S
    BY <1>10 DEF CoJoin
  <2>2. \A j \in S : j \in Live /\ pc[j] = "pending"
    BY <2>1, SpawnedPending
  <2>3. /\ UNCHANGED <<first, until, count, phase, splitting, rt, chan>>
        /\ phase = "run" /\ dur'[i] = 0 /\ splitting = 0 /\ wpc[i] = "ok"
        /\ \A j \in Ids : j # i => UNCHANGED <<off[j], dur[j]>>
    BY <1>10 DEF CoJoin, rowVars, TypeInv, TypeOK, CoIdle
  <2>4. i \notin S /\ wpc'[i] = "none"
    BY <2>1, <2>2 DEF TypeInv, TypeOK
  <2>5. ASSUME NEW j \in Live PROVE InOrder(j)'
    <3>1. Tracked(j) /\ InOrder(j) /\ j \in Ids
      BY <1>0, <2>3 DEF Tracked, Ordered
    <3>2. CASE j \in S
      <4>1. wpc[j] = "pending" /\ wpc'[j] = "request" /\ j # i
        BY <2>1, <2>2, <3>1, <3>2 DEF TypeInv, TypeOK
      <4>2. QED
        BY <2>3, <3>1, <4>1 DEF InOrder, Sorted, Between, Ahead, Reported
    <3>3. CASE j = i
      <4>1. Heard(j)' = Heard(j)
        BY <2>1, <2>3, <2>4, <3>3 DEF Heard
      <4>2. Heard(j) \in Nat
        BY <3>1, HeardNat
      <4>3. Sorted(j)' /\ Between(j)'
        BY <2>3, <3>1 DEF InOrder, Sorted, Between
      <4>4. Ahead(j)'
        BY <2>4, <3>3 DEF Ahead
      <4>5. Reported(j)'
        BY <2>3, <3>3, <4>1, <4>2 DEF Reported
      <4>6. QED
        BY <4>3, <4>4, <4>5 DEF InOrder
    <3>4. CASE j # i /\ j \notin S
      <4>1. wpc'[j] = wpc[j] /\ (j \in dirty' <=> j \in dirty)
        BY <2>1, <3>1, <3>4 DEF TypeInv, TypeOK
      <4>2. QED
        BY <2>3, <3>1, <3>4, <4>1, SegmentKept
    <3>5. QED
      BY <3>2, <3>3, <3>4
  <2>6. QED
    BY <1>0, <2>3, <2>5 DEF Ordered
<1>11. ASSUME NEW i \in Ids, CoJoinFailed(i) PROVE Ordered'
  BY <1>11, NoRunOrdered DEF CoJoinFailed
<1>12. ASSUME NEW i \in Ids, CoDrainJoin(i) PROVE Ordered'
  <2>1. /\ UNCHANGED <<first, until, count, phase, splitting, off, dur, chan>>
        /\ phase = "drain" /\ wpc[i] \in {"ok", "err"}
        /\ wpc'[i] = (IF wpc[i] = "ok" THEN "none" ELSE "lost")
        /\ \A j \in Ids : j # i => UNCHANGED <<rt[j], wpc[j]>> /\ (j \in dirty' <=> j \in dirty)
        /\ wpc[i] = "err" => rt'[i] = off[i]
        /\ wpc[i] = "ok" => rt'[i] = rt[i] /\ (i \in dirty' <=> i \in dirty)
    BY <1>12 DEF CoDrainJoin, rowVars, TypeInv, TypeOK
  <2>2. i \in Live /\ splitting = 0
    BY <2>1, Active DEF Shape, Splitting
  <2>3. InOrder(i)'
    <3>1. InOrder(i) /\ Tracked(i)
      BY <2>1, <2>2 DEF Ordered, Tracked
    <3>2. CASE wpc[i] = "ok"
      <4>1. Heard(i)' = Heard(i)
        BY <2>1, <3>2 DEF Heard
      <4>2. QED
        BY <2>1, <3>1, <3>2, <4>1 DEF InOrder, Sorted, Between, Ahead, Reported
    <3>3. CASE wpc[i] = "err"
      <4>1. until[i] <= dur[i] /\ dur[i] <= off[i]
        BY <2>1, <3>1, <3>3 DEF InOrder, Ahead
      <4>2. until[i] <= off[i]
        BY <1>0, <4>1
      <4>3. QED
        BY <2>1, <3>1, <3>3, <4>2 DEF InOrder, Sorted, Between, Ahead, Reported
    <3>4. QED
      BY <2>1, <3>2, <3>3
  <2>4. ASSUME NEW j \in Live, j # i PROVE InOrder(j)'
    <3>1. Tracked(j) /\ InOrder(j)
      BY <2>1, <2>2 DEF Tracked, Ordered
    <3>2. QED
      BY <1>0, <2>1, <2>4, <3>1, SegmentKept
  <2>5. QED
    BY <1>0, <2>1, <2>2, <2>3, <2>4 DEF Ordered
<1>13. ASSUME NEW i \in Ids, WorkerStep(i) PROVE Ordered'
  <2>1. /\ wpc[i] \in {"request", "stream", "backoff"}
        /\ \A j \in Ids : j # i => UNCHANGED <<wpc[j], off[j], dur[j], chan[j]>>
        /\ UNCHANGED <<first, until, count, phase, splitting, rt, dirty>>
    BY <1>13, WorkerMoves, WorkerSends
  <2>2. InOrder(i)'
    BY <1>13, WorkerOrder
  <2>3. ASSUME NEW j \in Live, j # i PROVE InOrder(j)'
    <3>1. Tracked(j)' => Tracked(j)
      BY <2>1, <2>3 DEF Tracked
    <3>2. QED
      BY <1>0, <2>1, <2>3, <3>1, SegmentKept DEF Ordered
  <2>4. QED
    BY <1>0, <2>1, <2>2, <2>3 DEF Ordered
<1>14. CASE Pause \/ Resume \/ UNCHANGED vars
  <2>1. UNCHANGED <<first, until, count, phase, splitting, rt, dirty, wpc, off, dur, chan>>
    BY <1>14 DEF Pause, Resume, vars, rowVars, coVars, workVars
  <2>2. ASSUME NEW j \in Live PROVE InOrder(j)'
    <3>1. Tracked(j)' => Tracked(j)
      BY <2>1, <2>2 DEF Tracked
    <3>2. QED
      BY <1>0, <2>1, <2>2, <3>1, SegmentKept DEF Ordered
  <2>3. QED
    BY <1>0, <2>1, <2>2 DEF Ordered
<1>15. QED
  BY <1>1, <1>2, <1>3, <1>4, <1>5, <1>6, <1>7, <1>8, <1>9, <1>10, <1>11, <1>12, <1>13,
     <1>14
     DEF Next, CoordinatorStep

-------------------------------------------------------------------------------
(* The theorems.                                                           *)

(* The work units partition the file, through every split and crash.       *)
THEOREM SegmentsTileAlways == Spec => []SegmentsTile
<1>1. Init => TypeInv /\ Shape /\ Ranges /\ Tile
  BY TypeInit, ShapeInit, RangesInit, TileInit
<1>2. TypeInv /\ Shape /\ Ranges /\ Tile /\ [Next]_vars => (TypeInv /\ Shape /\ Ranges /\ Tile)'
  BY TypeStep, ShapeStep, RangesStep, TileStep
<1>3. Tile => SegmentsTile
  <2> SUFFICES ASSUME Tile, NEW b \in 0 .. (Size - 1)
               PROVE  Cardinality({i \in Live : b \in first[i] .. last[i]}) = 1
    BY DEF SegmentsTile
  <2>1. PICK i \in Live : b \in first[i] .. last[i]
    BY DEF Tile
  <2>2. {j \in Live : b \in first[j] .. last[j]} = {i}
    BY <2>1 DEF Tile
  <2>3. QED
    BY <2>2, FS_Singleton
<1>4. QED
  BY <1>1, <1>2, <1>3, PTL DEF Spec

(* The inductive invariant behind what is durable.                         *)
LEMMA DurableInvariant ==
  ASSUME InitialSegments >= 2
  PROVE  Spec => [](TypeInv /\ Shape /\ Ranges /\ Tile /\ Durable)
<1>1. Init => TypeInv /\ Shape /\ Ranges /\ Tile /\ Durable
  BY TypeInit, ShapeInit, RangesInit, TileInit, DurableInit
<1>2. TypeInv /\ Shape /\ Ranges /\ Tile /\ Durable /\ [Next]_vars
        => (TypeInv /\ Shape /\ Ranges /\ Tile /\ Durable)'
  BY TypeStep, ShapeStep, RangesStep, TileStep, DurableStep
<1>3. QED
  BY <1>1, <1>2, PTL DEF Spec

(* A task that was planned with at least two segments never records an     *)
(* offset ahead of the bytes on the disk, at any point of a crash.         *)
THEOREM DurableProgressAlways ==
  ASSUME InitialSegments >= 2
  PROVE  Spec => []DurableProgress
<1>1. TypeInv /\ Shape /\ Durable => DurableProgress
  <2> SUFFICES ASSUME TypeInv, Durable, NEW i \in Live
               PROVE  /\ first[i] .. (Recorded(i) - 1) \subseteq disk
                      /\ first[i] .. (Smaller(rt[i], last[i] + 1) - 1) \subseteq disk
                      /\ \A n \in 1 .. Len(chan[i]) :
                           first[i] .. (chan[i][n].at - 1) \subseteq disk
    BY DEF DurableProgress
  <2>1. /\ first[i] \in Nat /\ last[i] \in Nat /\ until[i] \in Nat /\ rt[i] \in Nat
    BY OffsetsNat
  <2>2. /\ first[i] .. (until[i] - 1) \subseteq disk
        /\ first[i] .. (rt[i] - 1) \subseteq disk
        /\ \A n \in 1 .. Len(chan[i]) : first[i] .. (chan[i][n].at - 1) \subseteq disk
    BY DEF Durable, Backed, OnDisk
  <2>3. Recorded(i) <= until[i] /\ Recorded(i) \in Nat
    BY <2>1 DEF Recorded, Smaller
  <2>4. /\ Smaller(rt[i], last[i] + 1) <= rt[i] /\ Smaller(rt[i], last[i] + 1) \in Nat
    BY <2>1 DEF Smaller
  <2>5. first[i] .. (Recorded(i) - 1) \subseteq first[i] .. (until[i] - 1)
    BY <2>1, <2>3
  <2>6. first[i] .. (Smaller(rt[i], last[i] + 1) - 1) \subseteq first[i] .. (rt[i] - 1)
    BY <2>1, <2>4
  <2>7. QED
    BY <2>2, <2>5, <2>6
<1>2. QED
  BY <1>1, DurableInvariant, PTL

(* A file of such a task that carries its final name has every byte.       *)
THEOREM PublishedIsWholeAlways ==
  ASSUME InitialSegments >= 2
  PROVE  Spec => []PublishedIsWhole
<1>1. Durable => PublishedIsWhole
  BY DEF Durable, Backed, PublishedIsWhole
<1>2. QED
  BY <1>1, DurableInvariant, PTL

(* The inductive invariant behind the progress that is kept.               *)
LEMMA OrderInvariant == Spec => [](TypeInv /\ Shape /\ Ranges /\ Ordered)
<1>1. Init => TypeInv /\ Shape /\ Ranges /\ Ordered
  BY TypeInit, ShapeInit, RangesInit, OrderedInit
<1>2. TypeInv /\ Shape /\ Ranges /\ Ordered /\ [Next]_vars
        => (TypeInv /\ Shape /\ Ranges /\ Ordered)'
  BY TypeStep, ShapeStep, RangesStep, OrderedStep
<1>3. QED
  BY <1>1, <1>2, PTL DEF Spec

(* A checkpoint of a run moves no offset back.                             *)
LEMMA CheckpointGrows ==
  ASSUME TypeInv, Shape, Ordered, phase # "published", NEW i \in Live
  PROVE  until[i] <= Checkpointed[i]
<1>1. i \in Ids /\ until[i] \in Nat
  BY OffsetsNat
<1>2. CASE i \in dirty
  <2>1. Tracked(i)
    BY <1>2, DirtyTracked
  <2>2. QED
    BY <1>1, <1>2, <2>1, CheckpointType DEF Ordered, InOrder, Between
<1>3. CASE i \notin dirty
  BY <1>1, <1>3, CheckpointType
<1>4. QED
  BY <1>2, <1>3

(* What a step does to a recorded offset: it grows, or is set to the end   *)
(* of its range, or the range itself is split.                             *)
LEMMA UntilGrows ==
  ASSUME TypeInv, Shape, Ranges, Ordered, [Next]_vars, NEW i \in Live
  PROVE  \/ last'[i] # last[i]
         \/ last'[i] = last[i] /\ (until[i] <= until'[i] \/ until'[i] = last[i] + 1)
<1>0. i \in Ids /\ until[i] \in Nat /\ until[i] <= until[i]
  BY OffsetsNat
<1>1. CASE Prepare
  <2>1. tempLen \in Nat
    BY DEF TypeInv, TypeOK, Offsets
  <2>2. \/ until' = until
        \/ until' = [until EXCEPT ![1] = tempLen] /\ tempLen > until[1]
    BY <1>1 DEF Prepare
  <2>3. until'[i] = until[i] \/ (i = 1 /\ until'[i] = tempLen /\ tempLen > until[i])
    BY <1>0, <2>2 DEF TypeInv, TypeOK
  <2>4. last' = last
    BY <1>1 DEF Prepare
  <2>5. QED
    BY <1>0, <2>1, <2>3, <2>4
<1>2. CASE CoStart
  <2>1. until'[i] = until[i] \/ until'[i] = last[i] + 1
    BY <1>0, <1>2 DEF CoStart
  <2>2. QED
    BY <1>0, <1>2, <2>1 DEF CoStart
<1>3. CASE CoCheckpoint \/ CoDrained
  <2>1. until' = Checkpointed /\ last' = last /\ phase # "published"
    BY <1>3 DEF CoCheckpoint, CoDrained
  <2>2. QED
    BY <2>1, CheckpointGrows
<1>4. CASE CoFinish
  <2>1. last' = last /\ phase # "published"
    BY <1>4 DEF CoFinish
  <2>2. until'[i] = Checkpointed[i] \/ until'[i] = last[i] + 1
    BY <1>0, <1>4 DEF CoFinish
  <2>3. QED
    BY <2>1, <2>2, CheckpointGrows
<1>5. ASSUME NEW j \in Ids, CoReceive(j)
      PROVE  last' = last /\ until[i] <= until'[i]
  <2>1. /\ chan[j] # <<>> /\ last' = last
        /\ \/ until' = [until EXCEPT ![j] = Head(chan[j]).at]
           \/ until' = until
    BY <1>5 DEF CoReceive
  <2>2. CASE i = j
    <3>1. Len(chan[i]) >= 1 /\ Len(chan[i]) \in Nat /\ Head(chan[i]) = chan[i][1]
      <4>1. chan[i] \in Seq(Messages) /\ chan[i] # <<>>
        BY <1>0, <2>1, <2>2 DEF TypeInv, TypeOK
      <4>2. QED
        BY <4>1
    <3>2. 1 \in 1 .. Len(chan[i])
      BY <3>1
    <3>3. until[i] <= Head(chan[i]).at
      BY <3>1, <3>2 DEF Ordered, InOrder, Sorted
    <3>4. QED
      BY <1>0, <2>1, <2>2, <3>3 DEF TypeInv, TypeOK
  <2>3. CASE i # j
    BY <1>0, <2>1, <2>3 DEF TypeInv, TypeOK
  <2>4. QED
    BY <2>2, <2>3
<1>6. ASSUME NEW j \in Ids, CoSplit(j)
      PROVE  last'[i] # last[i] \/ (last'[i] = last[i] /\ until'[i] = until[i])
  <2>1. PICK cut \in Nat : \A l \in Live : until'[l] = until[l]
    BY <1>6, SplitRanges
  <2>2. QED
    BY <2>1
<1>7. ASSUME NEW j \in Ids, CoJoinFailed(j)
      PROVE  last' = last /\ until[i] <= until'[i]
  <2>1. /\ phase = "run" /\ wpc[j] = "err" /\ last' = last
        /\ until' = [Checkpointed EXCEPT ![j] = off[j]]
    BY <1>7 DEF CoJoinFailed
  <2>2. until'[j] = off[j] /\ \A l \in Ids : l # j => until'[l] = Checkpointed[l]
    BY <2>1, CheckpointType
  <2>3. CASE i = j
    <3>1. until[i] <= dur[i] /\ dur[i] <= off[i]
      BY <2>1, <2>3 DEF Ordered, InOrder, Ahead
    <3>2. dur[i] \in Nat /\ off[i] \in Nat
      BY OffsetsNat
    <3>3. QED
      BY <1>0, <2>1, <2>2, <2>3, <3>1, <3>2
  <2>4. CASE i # j
    BY <1>0, <2>1, <2>2, <2>4, CheckpointGrows
  <2>5. QED
    BY <2>3, <2>4
<1>8. ASSUME NEW j \in Ids, CoJoin(j) \/ CoDrainJoin(j)
      PROVE  UNCHANGED <<last, until>>
  BY <1>8 DEF CoJoin, CoDrainJoin, rowVars
<1>9. ASSUME NEW j \in Ids, WorkerStep(j) PROVE UNCHANGED <<last, until>>
  BY <1>9 DEF WorkerStep, WorkerRequest, WorkerChunk, WorkerPublish, WorkerEnd, WorkerRetry,
              WorkerWake, WorkerFail, WorkerDiskError, WorkerFrame, rowVars
<1>10. CASE \/ CoSplitPublish \/ CoCancel \/ CoLoopEnd \/ CoComplete
            \/ Pause \/ Resume \/ Crash \/ UNCHANGED vars
  <2>1. UNCHANGED <<last, until>>
    BY <1>10 DEF CoSplitPublish, CoCancel, CoLoopEnd, CoComplete, Pause, Resume, Crash,
                 vars, rowVars
  <2>2. QED
    BY <1>0, <2>1
<1>11. QED
  BY <1>0, <1>1, <1>2, <1>3, <1>4, <1>5, <1>6, <1>7, <1>8, <1>9, <1>10
     DEF Next, CoordinatorStep

(* Recorded progress is not lost: no step of a run moves an offset back.   *)
THEOREM ProgressIsKeptAlways == Spec => ProgressIsKept
<1>1. ASSUME TypeInv, TypeInv', Shape, Ranges, Ordered, [Next]_vars, NEW i \in Live
      PROVE  Recorded(i)' >= Recorded(i) \/ last'[i] # last[i]
  <2>1. /\ i \in Ids /\ until[i] \in Nat /\ last[i] \in Nat
    BY <1>1, OffsetsNat
  <2>2. until'[i] \in Nat
    BY <1>1, <2>1 DEF TypeInv, TypeOK, Offsets
  <2>3. \/ last'[i] # last[i]
        \/ last'[i] = last[i] /\ (until[i] <= until'[i] \/ until'[i] = last[i] + 1)
    BY <1>1, UntilGrows
  <2>4. QED
    BY <2>1, <2>2, <2>3 DEF Recorded, Smaller
<1>2. TypeInv /\ TypeInv' /\ Shape /\ Ranges /\ Ordered /\ [Next]_vars
        => [\A i \in Live : Recorded(i)' >= Recorded(i) \/ last'[i] # last[i]]_vars
  BY <1>1
<1>3. QED
  BY <1>2, OrderInvariant, PTL DEF Spec, ProgressIsKept

(* A pause records everything that the workers which it stopped have made  *)
(* durable, but for a worker that failed while the pause drained.          *)
THEOREM PauseKeepsProgressAlways == Spec => PauseKeepsProgress
<1>1. ASSUME TypeInv, Shape, Ordered, [Next]_vars,
             phase = "drain", phase' = "idle", row' = "paused", NEW i \in Live,
             wpc[i] # "lost"
      PROVE  until'[i] >= dur[i]
  <2>1. i \in Ids /\ dur[i] \in Nat
    BY <1>1, OffsetsNat
  <2>2. CoDrained
    <3>1. ~Crash
      BY <1>1 DEF Crash
    <3>2. \A j \in Ids : ~WorkerStep(j)
      BY <1>1, WorkerMoves
    <3>3. \A j \in Ids : ~(CoReceive(j) \/ CoSplit(j) \/ CoJoin(j) \/ CoJoinFailed(j)
                           \/ CoDrainJoin(j))
      BY <1>1 DEF CoReceive, CoSplit, CoJoin, CoJoinFailed, CoDrainJoin
    <3>4. ~(Prepare \/ CoStart \/ CoCheckpoint \/ CoSplitPublish \/ CoCancel \/ CoLoopEnd
            \/ CoFinish \/ CoComplete \/ Pause \/ Resume \/ UNCHANGED vars)
      BY <1>1 DEF Prepare, CoStart, CoCheckpoint, CoSplitPublish, CoCancel, CoLoopEnd,
                  CoFinish, CoComplete, Pause, Resume, vars, coVars
    <3>5. QED
      BY <1>1, <3>1, <3>2, <3>3, <3>4 DEF Next, CoordinatorStep
  <2>3. chan[i] = <<>> /\ wpc[i] \in {"none", "pending"}
    <3>1. wpc[i] \in WorkerPcs /\ Running(wpc) = {}
      BY <2>1, <2>2, <1>1 DEF CoDrained, Quiet, TypeInv, TypeOK
    <3>2. QED
      BY <1>1, <2>1, <2>2, <3>1 DEF CoDrained, Quiet, Running, WorkerPcs
  <2>4. dur[i] <= Heard(i)
    BY <1>1, <2>3 DEF Ordered, InOrder, Reported
  <2>5. until'[i] = Checkpointed[i]
    BY <2>2 DEF CoDrained
  <2>6. until'[i] = Heard(i)
    BY <1>1, <2>1, <2>3, <2>5, CheckpointType DEF Heard
  <2>7. Heard(i) \in Nat
    BY <1>1, <2>1, HeardNat
  <2>8. QED
    BY <2>1, <2>4, <2>6, <2>7
<1>2. TypeInv /\ Shape /\ Ranges /\ Ordered /\ [Next]_vars
        => [phase = "drain" /\ phase' = "idle" /\ row' = "paused" =>
              \A i \in Live : wpc[i] # "lost" => until'[i] >= dur[i]]_vars
  BY <1>1
<1>3. QED
  BY <1>2, OrderInvariant, PTL DEF Spec, PauseKeepsProgress

-------------------------------------------------------------------------------
(* TaskFiles                                                               *)

\* A run past the dispatcher has a live row, and only a run that writes, or that
\* has stopped since, has a file operation under way.
RunsAreLive ==
    \A t \in FileTasks :
        /\ runPc[t] \notin {"none", "page"} => stateOf[t] = "live"
        /\ stateOf[t] = "unborn" => runPc[t] = "none"
        /\ t \in pending => runPc[t] \in {"write", "stopped"}

\* A run that was not disturbed works on the temp file of its row, which is
\* there when bytes are recorded and whole when it is about to be published.
CalmRun(t) ==
    /\ runPc[t] \in {"page", "prepare", "probe"} => runTemp[t] = tempOf[t]
    /\ runPc[t] = "probe" /\ progress[t] # "none" => temp[t][runTemp[t]] # "none"
    /\ runPc[t] = "write" \/ t \in pending => temp[t][runTemp[t]] # "none"
    /\ runPc[t] = "publish" => temp[t][runTemp[t]] = "whole"
    /\ \A n \in FileNames : temp[t][n] # "broken"

Calm == \A t \in FileTasks \ disturbed : CalmRun(t)

\* What was published is there, or somebody removed it.
Published ==
    \A t \in FileTasks :
        stateOf[t] = "completed" \/ runPc[t] \in {"persist", "complete"} =>
            owner[publishedAt[t]] = t \/ t \in gone

HolesAreDisturbed == \A n \in hollow : owner[n] \in disturbed

FilesRest == RunsAreLive /\ Calm /\ Published /\ HolesAreDisturbed

FilesInv == FilesTypeOK /\ FilesRest

----
LEMMA FilesInvInit == FilesInit => FilesInv
<1> SUFFICES ASSUME FilesInit PROVE FilesInv
  OBVIOUS
<1>1. (CHOOSE n \in FileNames : TRUE) \in FileNames
  BY TaskFilesAssumption
<1>2. FilesTypeOK
  BY <1>1 DEF FilesInit, FilesTypeOK, RowStatesOfFiles, Contents, RunPcs
<1>3. RunsAreLive /\ Calm /\ Published /\ HolesAreDisturbed
  BY DEF FilesInit, RunsAreLive, Calm, CalmRun, Published, HolesAreDisturbed
<1>4. QED
  BY <1>2, <1>3 DEF FilesInv, FilesRest

LEMMA FilesTypeStep == FilesTypeOK /\ [FilesNext]_taskFileVars => FilesTypeOK'
<1> SUFFICES ASSUME FilesTypeOK, [FilesNext]_taskFileVars PROVE FilesTypeOK'
  OBVIOUS
<1> USE DEF FilesTypeOK, RowStatesOfFiles, Contents, RunPcs,
            fileRowVars, diskVars, runFileVars, cleanVars, pastVars
<1>1. ASSUME NEW t \in FileTasks, NEW n \in FileNames, Create(t, n) PROVE FilesTypeOK'
  BY <1>1 DEF Create
<1>2. ASSUME NEW t \in FileTasks, NEW n \in FileNames, Retarget(t, n) PROVE FilesTypeOK'
  BY <1>2 DEF Retarget, CommandFrame, Act
<1>3. ASSUME NEW t \in FileTasks, ReadPage(t) PROVE FilesTypeOK'
  BY <1>3 DEF ReadPage, RunFrame, RunAt
<1>4. ASSUME NEW t \in FileTasks, Start(t) PROVE FilesTypeOK'
  BY <1>4 DEF Start, RunFrame, RunAt
<1>5. ASSUME NEW t \in FileTasks, PrepareFiles(t) PROVE FilesTypeOK'
  BY <1>5 DEF PrepareFiles, RunFrame, RunAt
<1>6. ASSUME NEW t \in FileTasks, OpenTemp(t) PROVE FilesTypeOK'
  BY <1>6 DEF OpenTemp, RunFrame, RunAt
<1>7. ASSUME NEW t \in FileTasks, Submit(t) PROVE FilesTypeOK'
  BY <1>7 DEF Submit, RunFrame, RunAt
<1>8. ASSUME NEW t \in FileTasks, Land(t) PROVE FilesTypeOK'
  BY <1>8 DEF Land, RunFrame, RunAt, Written
<1>9. ASSUME NEW t \in FileTasks, Finish(t) PROVE FilesTypeOK'
  BY <1>9 DEF Finish, RunFrame, RunAt
<1>10. ASSUME NEW t \in FileTasks, Publish(t) PROVE FilesTypeOK'
  BY <1>10 DEF Publish, PublishOver, RunFrame, RunAt
<1>11. ASSUME NEW t \in FileTasks, Persist(t) PROVE FilesTypeOK'
  BY <1>11 DEF Persist, RunFrame, RunAt
<1>12. ASSUME NEW t \in FileTasks, Complete(t) PROVE FilesTypeOK'
  BY <1>12 DEF Complete, RunFrame, RunAt
<1>13. ASSUME NEW t \in FileTasks, Cancel(t) PROVE FilesTypeOK'
  BY <1>13 DEF Cancel, StopAs, RunFrame, RunAt
<1>14. ASSUME NEW t \in FileTasks, Fail(t) PROVE FilesTypeOK'
  BY <1>14 DEF Fail, StopAs, RunFrame, RunAt
<1>15. ASSUME NEW t \in FileTasks, Converge(t) PROVE FilesTypeOK'
  BY <1>15 DEF Converge, ConvergeAtOnce, RunFrame, RunAt
<1>16. ASSUME NEW t \in FileTasks, Retry(t) PROVE FilesTypeOK'
  BY <1>16 DEF Retry, CommandFrame, Act
<1>17. ASSUME NEW t \in FileTasks, RestartTask(t) PROVE FilesTypeOK'
  BY <1>17 DEF RestartTask, CommandFrame, Act
<1>18. ASSUME NEW t \in FileTasks, CleanTask(t) PROVE FilesTypeOK'
  BY <1>18 DEF CleanTask, CommandFrame, Act
<1>19. ASSUME NEW t \in FileTasks, DeleteTask(t) PROVE FilesTypeOK'
  BY <1>19 DEF DeleteTask, CommandFrame, Act, Leaves
<1>20. CASE Restarted
  BY <1>20 DEF Restarted, Act
<1>21. CASE CleanScanRows
  BY <1>21 DEF CleanScanRows, CleanFrame, Act
<1>22. CASE CleanList
  BY <1>22 DEF CleanList, TempFiles, CleanFrame
<1>23. CASE CleanEnd
  BY <1>23 DEF CleanEnd, CleanFrame
<1>24. ASSUME NEW t \in FileTasks, NEW n \in FileNames, CleanDelete(t, n) PROVE FilesTypeOK'
  BY <1>24 DEF CleanDelete, CleanFrame
<1>25. ASSUME NEW n \in FileNames, UserPlaces(n) PROVE FilesTypeOK'
  BY <1>25 DEF UserPlaces, UserFrame, Act
<1>26. ASSUME NEW n \in FileNames, UserRemoves(n) PROVE FilesTypeOK'
  BY <1>26 DEF UserRemoves, UserFrame, Act, Leaves
<1>27. CASE UNCHANGED taskFileVars
  BY <1>27 DEF taskFileVars
<1>28. QED
  BY <1>1, <1>2, <1>3, <1>4, <1>5, <1>6, <1>7, <1>8, <1>9, <1>10, <1>11, <1>12, <1>13,
     <1>14, <1>15, <1>16, <1>17, <1>18, <1>19, <1>20, <1>21, <1>22, <1>23, <1>24, <1>25,
     <1>26, <1>27 DEF FilesNext

----
LEMMA FilesInvStep == FilesInv /\ [FilesNext]_taskFileVars => FilesInv'
<1> SUFFICES ASSUME FilesInv, [FilesNext]_taskFileVars PROVE FilesInv'
  OBVIOUS
<1>0. FilesTypeOK /\ FilesTypeOK'
  BY FilesTypeStep DEF FilesInv
<1> USE TaskFilesAssumption
        DEF FilesInv, FilesTypeOK, RowStatesOfFiles, Contents, RunPcs,
            FilesRest, RunsAreLive, Calm, CalmRun, Published, HolesAreDisturbed,
            fileRowVars, diskVars, runFileVars, cleanVars, pastVars
<1>1. ASSUME NEW t \in FileTasks, NEW n \in FileNames, Create(t, n) PROVE FilesRest'
  BY <1>0, <1>1 DEF Create
<1>2. ASSUME NEW t \in FileTasks, NEW n \in FileNames, Retarget(t, n) PROVE FilesRest'
  BY <1>0, <1>2 DEF Retarget, CommandFrame, Act, Exists
<1>3. ASSUME NEW t \in FileTasks, NEW n \in FileNames, CleanDelete(t, n) PROVE FilesRest'
  BY <1>0, <1>3 DEF CleanDelete, CleanFrame
<1>4. ASSUME NEW t \in FileTasks, ReadPage(t) PROVE FilesRest'
  BY <1>0, <1>4 DEF ReadPage, RunFrame, RunAt
<1>5. ASSUME NEW t \in FileTasks, Start(t) PROVE FilesRest'
  <2>1. RunsAreLive'
    BY <1>0, <1>5 DEF Start, RunFrame, RunAt
  <2>2. Calm'
    BY <1>0, <1>5 DEF Start, RunFrame, RunAt
  <2>3. Published'
    BY <1>0, <1>5 DEF Start, RunFrame, RunAt
  <2>4. HolesAreDisturbed'
    BY <1>0, <1>5 DEF Start, RunFrame, RunAt
  <2>5. QED
    BY <2>1, <2>2, <2>3, <2>4
<1>6. ASSUME NEW t \in FileTasks, PrepareFiles(t) PROVE FilesRest'
  BY <1>0, <1>6 DEF PrepareFiles, ProgressWithoutFile, RunFrame, RunAt
<1>7. ASSUME NEW t \in FileTasks, OpenTemp(t) PROVE FilesRest'
  BY <1>0, <1>7 DEF OpenTemp, RunFrame, RunAt
<1>8. ASSUME NEW t \in FileTasks, Submit(t) PROVE FilesRest'
  BY <1>0, <1>8 DEF Submit, RunFrame, RunAt
<1>9. ASSUME NEW t \in FileTasks, Land(t) PROVE FilesRest'
  BY <1>0, <1>9 DEF Land, RunFrame, RunAt, Written, Records
<1>10. ASSUME NEW t \in FileTasks, Finish(t) PROVE FilesRest'
  BY <1>0, <1>10 DEF Finish, RunFrame, RunAt
<1>11. ASSUME NEW t \in FileTasks, Publish(t) PROVE FilesRest'
  BY <1>0, <1>11 DEF Publish, PublishOver, RunFrame, RunAt
<1>12. ASSUME NEW t \in FileTasks, Persist(t) PROVE FilesRest'
  BY <1>0, <1>12 DEF Persist, RunFrame, RunAt
<1>13. ASSUME NEW t \in FileTasks, Complete(t) PROVE FilesRest'
  BY <1>0, <1>13 DEF Complete, RunFrame, RunAt
<1>14. ASSUME NEW t \in FileTasks, Cancel(t) PROVE FilesRest'
  BY <1>0, <1>14 DEF Cancel, StopAs, RunFrame, RunAt
<1>15. ASSUME NEW t \in FileTasks, Fail(t) PROVE FilesRest'
  BY <1>0, <1>15 DEF Fail, StopAs, RunFrame, RunAt
<1>16. ASSUME NEW t \in FileTasks, Converge(t) PROVE FilesRest'
  BY <1>0, <1>16 DEF Converge, ConvergeAtOnce, RunFrame, RunAt
<1>17. ASSUME NEW t \in FileTasks, Retry(t) PROVE FilesRest'
  BY <1>0, <1>17 DEF Retry, CommandFrame, Act
<1>18. ASSUME NEW t \in FileTasks, RestartTask(t) PROVE FilesRest'
  BY <1>0, <1>18 DEF RestartTask, CommandFrame, Act, Idle, Exists
<1>19. ASSUME NEW t \in FileTasks, CleanTask(t) PROVE FilesRest'
  <2>1. RunsAreLive'
    BY <1>0, <1>19 DEF CleanTask, CommandFrame, Act
  <2>2. Calm'
    <3>1. ASSUME NEW u \in FileTasks \ disturbed', u # t PROVE temp'[u] = temp[u]
      BY <1>0, <1>19, <3>1 DEF CleanTask
    <3>2. runPc[t] \in {"none", "page"} /\ t \notin pending
      BY <1>0, <1>19 DEF CleanTask
    <3>3. \A n \in FileNames : temp'[t][n] = temp[t][n] \/ temp'[t][n] = "none"
      BY <1>0, <1>19 DEF CleanTask
    <3>4. UNCHANGED <<runPc, runTemp, tempOf, progress, pending, disturbed>>
      BY <1>19 DEF CleanTask, CommandFrame, Act
    <3>5. t \notin disturbed => CalmRun(t)'
      <4>1. t \notin disturbed => CalmRun(t)
        OBVIOUS
      <4>2. CalmRun(t) => \A n \in FileNames : temp'[t][n] # "broken"
        BY <3>3
      <4>3. runPc'[t] = "page" /\ CalmRun(t) => runTemp'[t] = tempOf'[t]
        BY <3>4
      <4>4. runPc'[t] \in {"none", "page"} /\ t \notin pending'
        BY <3>2, <3>4
      <4>5. QED
        BY <4>1, <4>2, <4>3, <4>4
    <3>6. ASSUME NEW u \in FileTasks \ disturbed, u # t PROVE CalmRun(u)'
      BY <1>0, <3>1, <3>4, <3>6
    <3>7. QED
      BY <3>4, <3>5, <3>6
  <2>3. Published'
    BY <1>0, <1>19 DEF CleanTask, CommandFrame, Act
  <2>4. HolesAreDisturbed'
    BY <1>0, <1>19 DEF CleanTask, CommandFrame, Act
  <2>5. QED
    BY <2>1, <2>2, <2>3, <2>4
<1>20. ASSUME NEW t \in FileTasks, DeleteTask(t) PROVE FilesRest'
  BY <1>0, <1>20 DEF DeleteTask, CommandFrame, Act, Leaves, Idle, Exists
<1>21. ASSUME Restarted PROVE FilesRest'
  BY <1>0, <1>21 DEF Restarted, Act
<1>22. ASSUME CleanScanRows PROVE FilesRest'
  BY <1>0, <1>22 DEF CleanScanRows, CleanFrame, Act
<1>23. ASSUME CleanList PROVE FilesRest'
  BY <1>0, <1>23 DEF CleanList, CleanFrame
<1>24. ASSUME CleanEnd PROVE FilesRest'
  BY <1>0, <1>24 DEF CleanEnd, CleanFrame
<1>25. ASSUME NEW n \in FileNames, UserPlaces(n) PROVE FilesRest'
  BY <1>0, <1>25 DEF UserPlaces, UserFrame, Act
<1>26. ASSUME NEW n \in FileNames, UserRemoves(n) PROVE FilesRest'
  BY <1>0, <1>26 DEF UserRemoves, UserFrame, Act, Leaves
<1>27. ASSUME UNCHANGED taskFileVars PROVE FilesRest'
  BY <1>27 DEF taskFileVars
<1>28. QED
  BY <1>0, <1>1, <1>2, <1>3, <1>4, <1>5, <1>6, <1>7, <1>8, <1>9, <1>10, <1>11, <1>12,
     <1>13, <1>14, <1>15, <1>16, <1>17, <1>18, <1>19, <1>20, <1>21, <1>22, <1>23, <1>24,
     <1>25, <1>26, <1>27 DEF FilesNext
----
LEMMA FilesInvAlways == FilesSpec => []FilesInv
<1>1. QED
  BY FilesInvInit, FilesInvStep, PTL DEF FilesSpec

\* Every variable of TaskFiles stays in its type.
THEOREM FilesTypesCorrect == FilesSpec => []FilesTypeOK
<1>1. FilesInv => FilesTypeOK
  BY DEF FilesInv
<1>2. QED
  BY <1>1, FilesInvAlways, PTL

\* Only a disturbed run leaves a hole, and a completed task has its file until
\* somebody removes it.
THEOREM FilesAreSoundAlways == FilesSpec => []FilesAreSound
<1>1. FilesInv => FilesAreSound
  BY DEF FilesInv, FilesRest, Published, HolesAreDisturbed, FilesAreSound
<1>2. QED
  BY <1>1, FilesInvAlways, PTL

\* What WritesAreOwned says of one step.
OwnedStep ==
    /\ \A n \in FileNames, t \in FileTasks :
         temp[t][n] = "none" /\ temp'[t][n] # "none" => stateOf'[t] = "live" /\ runPc'[t] # "none"
    /\ \A n \in FileNames : owner[n] # NoFile => owner'[n] \in {owner[n], NoFile}

LEMMA OwnedStepHolds == FilesInv /\ [FilesNext]_taskFileVars => OwnedStep
<1> SUFFICES ASSUME FilesInv, [FilesNext]_taskFileVars PROVE OwnedStep
  OBVIOUS
<1>0. FilesTypeOK /\ RunsAreLive
  BY DEF FilesInv, FilesRest
<1> USE TaskFilesAssumption DEF FilesTypeOK, Contents, RunPcs, OwnedStep, diskVars
<1>1. ASSUME NEW t \in FileTasks, NEW n \in FileNames, Create(t, n) \/ Retarget(t, n)
      PROVE  OwnedStep
  BY <1>1 DEF Create, Retarget
<1>2. ASSUME NEW t \in FileTasks,
             \/ ReadPage(t) \/ Start(t) \/ PrepareFiles(t) \/ Submit(t) \/ Finish(t) \/ Persist(t)
             \/ Complete(t) \/ Cancel(t) \/ Fail(t) \/ Converge(t) \/ Retry(t)
      PROVE OwnedStep
  BY <1>2
     DEF ReadPage, Start, PrepareFiles, Submit, Finish, Persist, Complete, Cancel, Fail, StopAs,
         Converge, ConvergeAtOnce, Retry
<1>3. ASSUME CleanScanRows \/ CleanList \/ CleanEnd PROVE OwnedStep
  BY <1>3 DEF CleanScanRows, CleanList, CleanEnd, CleanFrame
<1>4. ASSUME NEW t \in FileTasks, NEW n \in FileNames, CleanDelete(t, n) PROVE OwnedStep
  BY <1>0, <1>4 DEF CleanDelete, CleanFrame
<1>5. ASSUME NEW t \in FileTasks, OpenTemp(t) PROVE OwnedStep
  <2>1. \A v \in FileTasks \ {t} : temp'[v] = temp[v]
    BY <1>0, <1>5 DEF OpenTemp
  <2>2. stateOf'[t] = "live" /\ runPc'[t] = "write"
    BY <1>0, <1>5 DEF OpenTemp, RunAt, RunsAreLive, fileRowVars
  <2>3. UNCHANGED owner
    BY <1>5 DEF OpenTemp
  <2>4. QED
    BY <2>1, <2>2, <2>3
<1>6. ASSUME NEW t \in FileTasks, Land(t) PROVE OwnedStep
  BY <1>0, <1>6 DEF Land, RunsAreLive
<1>7. ASSUME NEW t \in FileTasks, Publish(t) PROVE OwnedStep
  BY <1>0, <1>7 DEF Publish, PublishOver
<1>8. ASSUME NEW t \in FileTasks, RestartTask(t) PROVE OwnedStep
  BY <1>0, <1>8 DEF RestartTask
<1>9. ASSUME NEW t \in FileTasks, CleanTask(t) PROVE OwnedStep
  BY <1>0, <1>9 DEF CleanTask
<1>10. ASSUME NEW t \in FileTasks, DeleteTask(t) PROVE OwnedStep
  BY <1>0, <1>10 DEF DeleteTask, Leaves
<1>11. ASSUME Restarted PROVE OwnedStep
  BY <1>0, <1>11 DEF Restarted
<1>12. ASSUME NEW n \in FileNames, UserPlaces(n) PROVE OwnedStep
  BY <1>0, <1>12 DEF UserPlaces, UserFrame
<1>13. ASSUME NEW n \in FileNames, UserRemoves(n) PROVE OwnedStep
  BY <1>0, <1>13 DEF UserRemoves, UserFrame, Leaves
<1>14. ASSUME UNCHANGED taskFileVars PROVE OwnedStep
  BY <1>14 DEF taskFileVars
<1>15. QED
  BY <1>1, <1>2, <1>3, <1>4, <1>5, <1>6, <1>7, <1>8, <1>9, <1>10, <1>11, <1>12,
     <1>13, <1>14 DEF FilesNext

\* No temp file comes back behind a command's back, no published file is replaced.
THEOREM WritesAreOwnedAlways == FilesSpec => WritesAreOwned
<1>1. FilesInv /\ [FilesNext]_taskFileVars => [OwnedStep]_taskFileVars
  BY OwnedStepHolds
<1>2. QED
  BY <1>1, FilesInvAlways, PTL DEF FilesSpec, WritesAreOwned, OwnedStep

===============================================================================
