-------------------------- MODULE Frontend_proofs ---------------------------
(***************************************************************************)
(* Proofs about the list of tasks and the settings page, for every number  *)
(* of tasks, queries, toasts, slots, turns, fields and updates: UndoDelete *)
(* settles every deletion once, RowCommands refuses an offered command     *)
(* only while a run is stopping or when the row has changed since,         *)
(* PreviewBackend keeps its store, its progress timer and its duplicates   *)
(* in order, ListQuery implements NewestAnswer and selects what is on      *)
(* screen, SettingsForm neither forgets an edit silently nor saves what    *)
(* was not edited, and a draft of CaptureDraft that is not saved is about  *)
(* to be.                                                                  *)
(***************************************************************************)
EXTENDS ListQuery, UndoDelete, RowCommands, PreviewBackend, SettingsForm, CaptureDraft, Integers, SequenceTheorems, FiniteSetTheorems, TLAPS

(* What is left of `s` when its element `i` is taken out.                  *)
LEMMA RemoveAtElements ==
  ASSUME NEW S, NEW s \in Seq(S), NEW i \in 1 .. Len(s)
  PROVE  /\ RemoveAt(s, i) \in Seq(S) /\ Len(RemoveAt(s, i)) = Len(s) - 1
         /\ \A k \in 1 .. Len(RemoveAt(s, i)) :
               RemoveAt(s, i)[k] = IF k < i THEN s[k] ELSE s[k + 1]
<1> DEFINE before == SubSeq(s, 1, i - 1)
           after == SubSeq(s, i + 1, Len(s))
<1>1. before \in Seq(S) /\ Len(before) = i - 1 /\ \A k \in 1 .. i - 1 : before[k] = s[k]
  OBVIOUS
<1>2. /\ after \in Seq(S) /\ Len(after) = Len(s) - i
      /\ \A k \in 1 .. Len(s) - i : after[k] = s[i + k]
  OBVIOUS
<1>3. RemoveAt(s, i) = before \o after
  BY DEF RemoveAt
<1>4. Len(s) \in Nat /\ i \in Nat
  OBVIOUS
<1> HIDE DEF before, after
<1>5. before \o after \in Seq(S) /\ Len(before \o after) = Len(s) - 1
  <2>1. before \in Seq(S) /\ after \in Seq(S)
    BY <1>1, <1>2
  <2>2. before \o after \in Seq(S) /\ Len(before \o after) = Len(before) + Len(after)
    BY <2>1, ConcatProperties
  <2>3. QED
    BY <1>1, <1>2, <1>4, <2>2
<1>6. ASSUME NEW k \in 1 .. Len(s) - 1
      PROVE  (before \o after)[k] = IF k < i THEN s[k] ELSE s[k + 1]
  <2>1. CASE k < i
    BY <1>1, <1>2, <1>4, <2>1
  <2>2. CASE ~(k < i)
    <3>1. (before \o after)[k] = after[k - (i - 1)] /\ k - (i - 1) \in 1 .. Len(s) - i
      BY <1>1, <1>2, <1>4, <2>2
    <3>2. i + (k - (i - 1)) = k + 1
      BY <1>4
    <3>3. QED
      BY <1>2, <2>2, <3>1, <3>2
  <2>3. QED
    BY <2>1, <2>2
<1>7. QED
  BY <1>3, <1>5, <1>6

-------------------------------------------------------------------------------
(* UndoDelete                                                              *)

ToastItem == [key : {NoKey, BulkKey, ResultKey} \cup {SoftKey(t) : t \in UndoTasks},
              closure : Nat, timers : Int,
              paused : BOOLEAN, pointer : BOOLEAN, focus : BOOLEAN]
Closure == [ids : SUBSET UndoTasks, bulk : BOOLEAN, commits : Nat, undone : Nat]

(* The closures that a toast holds, on screen or waiting.                  *)
Held == ClosuresOf(toasts) \cup ClosuresOf(deferredToasts)

UndoTypeInv ==
    /\ toasts \in Seq(ToastItem) /\ deferredToasts \in Seq(ToastItem)
    /\ closures \in Seq(Closure)
    /\ Held \cup ghosts \cup deleteCalls \subseteq DOMAIN closures

HasPath(t, cls, deletes, held) ==
    \E c \in DOMAIN cls : /\ t \in cls[c].ids
                          /\ c \in deletes \/ (c \in held /\ cls[c].commits + cls[c].undone = 0)

PathInv == \A t \in pendingDeleteIds : HasPath(t, closures, deleteCalls, Held)

UndoInv == UndoTypeInv /\ SettledOnce /\ PathInv

-------------------------------------------------------------------------------
(* Two stacks one on the other hold the closures of both.                  *)
LEMMA HeldInTwo ==
  ASSUME NEW a \in Seq(ToastItem), NEW b \in Seq(ToastItem)
  PROVE  /\ a \o b \in Seq(ToastItem)
         /\ ClosuresOf(a \o b) = ClosuresOf(a) \cup ClosuresOf(b)
<1>1. /\ a \o b \in Seq(ToastItem) /\ Len(a \o b) = Len(a) + Len(b)
      /\ \A i \in 1 .. Len(a) + Len(b) : (a \o b)[i] = IF i <= Len(a) THEN a[i] ELSE b[i - Len(a)]
  BY ConcatProperties
<1>2. Len(a) \in Nat /\ Len(b) \in Nat
  OBVIOUS
<1> DEFINE ab == a \o b
<1>3. /\ Len(ab) = Len(a) + Len(b)
      /\ \A i \in 1 .. Len(a) + Len(b) : ab[i] = IF i <= Len(a) THEN a[i] ELSE b[i - Len(a)]
  BY <1>1
<1> HIDE DEF ab
<1>4. Stacked(ab) = Stacked(a) \cup Stacked(b)
  <2>1. ASSUME NEW x \in Stacked(ab) PROVE x \in Stacked(a) \cup Stacked(b)
    <3>1. PICK i \in 1 .. Len(a) + Len(b) : x = ab[i]
      BY <1>3 DEF Stacked
    <3>2. CASE i <= Len(a)
      BY <1>2, <1>3, <3>1, <3>2 DEF Stacked
    <3>3. CASE ~(i <= Len(a))
      <4>1. i - Len(a) \in 1 .. Len(b) /\ x = b[i - Len(a)]
        BY <1>2, <1>3, <3>1, <3>3
      <4>2. QED
        BY <4>1 DEF Stacked
    <3>4. QED
      BY <3>2, <3>3
  <2>2. ASSUME NEW x \in Stacked(a) PROVE x \in Stacked(ab)
    <3>1. PICK i \in 1 .. Len(a) : x = a[i]
      BY <2>2 DEF Stacked
    <3>2. i \in 1 .. Len(ab) /\ x = ab[i]
      BY <1>2, <1>3, <3>1
    <3>3. QED
      BY <3>2 DEF Stacked
  <2>3. ASSUME NEW x \in Stacked(b) PROVE x \in Stacked(ab)
    <3>1. PICK i \in 1 .. Len(b) : x = b[i]
      BY <2>3 DEF Stacked
    <3>2. /\ Len(a) + i \in 1 .. Len(ab) /\ ~(Len(a) + i <= Len(a)) /\ (Len(a) + i) - Len(a) = i
      BY <1>2, <1>3, <3>1
    <3>3. x = ab[Len(a) + i]
      BY <1>3, <3>1, <3>2
    <3>4. QED
      BY <3>2, <3>3 DEF Stacked
  <2>4. QED
    BY <2>1, <2>2, <2>3
<1>5. QED
  BY <1>1, <1>4 DEF ClosuresOf, ab

(* What the cap keeps and what it evicts are all there was.                *)
LEMMA CapSplits ==
  ASSUME NEW s \in Seq(ToastItem)
  PROVE  /\ Kept(s) \in Seq(ToastItem)
         /\ ClosuresOf(s) = ClosuresOf(Kept(s)) \cup Evicted(s)
<1>1. Len(s) \in Nat /\ StackLimit \in Nat /\ StackLimit > 0
  BY UndoDeleteAssumption
<1>2. PICK k : k = IF Len(s) < StackLimit THEN Len(s) ELSE StackLimit
  OBVIOUS
<1>3. k \in Nat /\ k <= Len(s)
  BY <1>1, <1>2
<1> DEFINE front == SubSeq(s, 1, k)
           back == SubSeq(s, StackLimit + 1, Len(s))
<1>4. front \in Seq(ToastItem) /\ Len(front) = k /\ \A i \in 1 .. k : front[i] = s[i]
  BY <1>3
<1>5. CASE Len(s) <= StackLimit
  <2>1. k = Len(s)
    BY <1>1, <1>2, <1>5
  <2>2. Len(back) = 0
    BY <1>1, <1>5
  <2> HIDE DEF front, back
  <2>3. Stacked(front) = Stacked(s) /\ Stacked(back) = {}
    BY <1>4, <2>1, <2>2 DEF Stacked
  <2>4. QED
    BY <1>2, <1>4, <2>3 DEF ClosuresOf, Kept, Evicted, front, back
<1>6. CASE Len(s) > StackLimit
  <2>1. k = StackLimit
    BY <1>1, <1>2, <1>6
  <2>2. /\ Len(back) = Len(s) - StackLimit
        /\ \A i \in 1 .. Len(s) - StackLimit : back[i] = s[StackLimit + i]
    BY <1>1, <1>6
  <2> HIDE DEF front, back
  <2>3. Stacked(s) = Stacked(front) \cup Stacked(back)
    <3>1. ASSUME NEW x \in Stacked(s) PROVE x \in Stacked(front) \cup Stacked(back)
      <4>1. PICK i \in 1 .. Len(s) : x = s[i]
        BY <3>1 DEF Stacked
      <4>2. CASE i <= StackLimit
        BY <1>1, <1>4, <2>1, <4>1, <4>2 DEF Stacked
      <4>3. CASE ~(i <= StackLimit)
        <5>1. i - StackLimit \in 1 .. Len(s) - StackLimit /\ StackLimit + (i - StackLimit) = i
          BY <1>1, <4>1, <4>3
        <5>2. x = back[i - StackLimit]
          BY <2>2, <4>1, <5>1
        <5>3. QED
          BY <2>2, <5>1, <5>2 DEF Stacked
      <4>4. QED
        BY <4>2, <4>3
    <3>2. ASSUME NEW x \in Stacked(front) PROVE x \in Stacked(s)
      <4>1. PICK i \in 1 .. StackLimit : x = s[i]
        BY <1>4, <2>1, <3>2 DEF Stacked
      <4>2. i \in 1 .. Len(s)
        BY <1>1, <1>6, <4>1
      <4>3. QED
        BY <4>1, <4>2 DEF Stacked
    <3>3. ASSUME NEW x \in Stacked(back) PROVE x \in Stacked(s)
      <4>1. PICK i \in 1 .. Len(s) - StackLimit : x = s[StackLimit + i]
        BY <2>2, <3>3 DEF Stacked
      <4>2. StackLimit + i \in 1 .. Len(s)
        BY <1>1, <1>6, <4>1
      <4>3. QED
        BY <4>1, <4>2 DEF Stacked
    <3>4. QED
      BY <3>1, <3>2, <3>3
  <2>4. QED
    BY <1>2, <1>4, <2>3 DEF ClosuresOf, Kept, Evicted, front, back
<1>7. QED
  BY <1>1, <1>5, <1>6

(* Turning the stack that waits around loses none of its closures.         *)
LEMMA ReverseHolds ==
  ASSUME NEW s \in Seq(ToastItem)
  PROVE  Reverse(s) \in Seq(ToastItem) /\ ClosuresOf(Reverse(s)) = ClosuresOf(s)
<1> DEFINE r == Reverse(s)
<1>1. Len(s) \in Nat
  OBVIOUS
<1>2. r = [i \in 1 .. Len(s) |-> s[Len(s) - i + 1]]
  BY DEF Reverse
<1>3. \A i \in 1 .. Len(s) : Len(s) - i + 1 \in 1 .. Len(s) /\ Len(s) - (Len(s) - i + 1) + 1 = i
  BY <1>1
<1>4. r \in Seq(ToastItem) /\ Len(r) = Len(s) /\ \A i \in 1 .. Len(s) : r[i] = s[Len(s) - i + 1]
  BY <1>1, <1>2, <1>3
<1> HIDE DEF r
<1>5. Stacked(r) = Stacked(s)
  <2>1. ASSUME NEW x \in Stacked(r) PROVE x \in Stacked(s)
    BY <1>3, <1>4, <2>1 DEF Stacked
  <2>2. ASSUME NEW x \in Stacked(s) PROVE x \in Stacked(r)
    <3>1. PICK i \in 1 .. Len(s) : x = s[i]
      BY <2>2 DEF Stacked
    <3>2. x = r[Len(s) - i + 1]
      BY <1>3, <1>4, <3>1
    <3>3. QED
      BY <1>3, <1>4, <3>1, <3>2 DEF Stacked
  <2>3. QED
    BY <2>1, <2>2
<1>6. QED
  BY <1>4, <1>5 DEF ClosuresOf, r

(* The stack without its item `i` holds all closures but perhaps that one. *)
LEMMA GoneHolds ==
  ASSUME NEW s \in Seq(ToastItem), NEW i \in 1 .. Len(s)
  PROVE  /\ RemoveAt(s, i) \in Seq(ToastItem)
         /\ ClosuresOf(RemoveAt(s, i)) \subseteq ClosuresOf(s)
         /\ ClosuresOf(s) \subseteq ClosuresOf(RemoveAt(s, i)) \cup {s[i].closure}
<1> DEFINE rest == RemoveAt(s, i)
<1>1. /\ rest \in Seq(ToastItem) /\ Len(rest) = Len(s) - 1
      /\ \A k \in 1 .. Len(rest) : rest[k] = IF k < i THEN s[k] ELSE s[k + 1]
  BY RemoveAtElements
<1>2. Len(s) \in Nat /\ i \in Nat
  OBVIOUS
<1> HIDE DEF rest
<1>3. ASSUME NEW x \in Stacked(rest) PROVE x \in Stacked(s)
  <2>1. PICK k \in 1 .. Len(s) - 1 : x = rest[k]
    BY <1>1, <1>3 DEF Stacked
  <2>2. CASE k < i
    <3>1. k \in 1 .. Len(s) /\ x = s[k]
      BY <1>1, <1>2, <2>1, <2>2
    <3>2. QED
      BY <3>1 DEF Stacked
  <2>3. CASE ~(k < i)
    <3>1. k + 1 \in 1 .. Len(s) /\ x = s[k + 1]
      BY <1>1, <1>2, <2>1, <2>3
    <3>2. QED
      BY <3>1 DEF Stacked
  <2>4. QED
    BY <2>2, <2>3
<1>4. ASSUME NEW x \in Stacked(s), x # s[i] PROVE x \in Stacked(rest)
  <2>1. PICK k \in 1 .. Len(s) : x = s[k] /\ k # i
    BY <1>4 DEF Stacked
  <2>2. CASE k < i
    <3>1. k \in 1 .. Len(rest) /\ x = rest[k]
      BY <1>1, <1>2, <2>1, <2>2
    <3>2. QED
      BY <3>1 DEF Stacked
  <2>3. CASE ~(k < i)
    <3>1. k - 1 \in 1 .. Len(rest) /\ ~(k - 1 < i) /\ (k - 1) + 1 = k
      BY <1>1, <1>2, <2>1, <2>3
    <3>2. x = rest[k - 1]
      BY <1>1, <2>1, <3>1
    <3>3. QED
      BY <3>1, <3>2 DEF Stacked
  <2>4. QED
    BY <2>2, <2>3
<1>5. QED
  BY <1>1, <1>3, <1>4 DEF ClosuresOf, rest

(* commit leaves every hidden task a way out, settles a closure once, and  *)
(* needs no closure any more that it was given.                            *)
LEMMA CommitKeeps ==
  ASSUME NEW cls \in Seq(Closure), NEW cs \in SUBSET DOMAIN cls, NEW deletes \in SUBSET DOMAIN cls,
         \A c \in DOMAIN cls : cls[c].commits + cls[c].undone <= 1,
         Commit(cls, cs, deletes)
  PROVE  /\ closures' \in Seq(Closure) /\ DOMAIN closures' = DOMAIN cls
         /\ deleteCalls' \in SUBSET DOMAIN cls
         /\ SettledOnce'
         /\ \A t, before, after : before \subseteq after \cup cs /\ HasPath(t, cls, deletes, before)
               => HasPath(t, closures', deleteCalls', after)
<1>1. PICK fresh : fresh = {c \in cs : cls[c].commits + cls[c].undone = 0}
  OBVIOUS
<1>2. /\ closures' = [c \in DOMAIN cls |->
                         IF c \in fresh THEN [cls[c] EXCEPT !.commits = 1] ELSE cls[c]]
      /\ deleteCalls' = deletes \cup fresh
  BY <1>1 DEF Commit
<1>3. ASSUME NEW c \in DOMAIN cls
      PROVE  /\ closures'[c] \in Closure /\ closures'[c].ids = cls[c].ids
             /\ closures'[c].commits + closures'[c].undone <= 1
             /\ c \notin fresh => closures'[c] = cls[c]
  <2>1. cls[c] \in Closure
    BY <1>3
  <2>2. CASE c \in fresh
    <3>1. cls[c].commits + cls[c].undone = 0 /\ cls[c].commits \in Nat /\ cls[c].undone \in Nat
      BY <1>1, <2>1, <2>2 DEF Closure
    <3>2. closures'[c] = [cls[c] EXCEPT !.commits = 1]
      BY <1>2, <2>2
    <3>3. /\ closures'[c] \in Closure /\ closures'[c].ids = cls[c].ids
          /\ closures'[c].commits = 1 /\ closures'[c].undone = cls[c].undone
      <4>1. PICK x \in Closure : x = cls[c]
        BY <2>1
      <4>2. /\ [x EXCEPT !.commits = 1].ids = x.ids
            /\ [x EXCEPT !.commits = 1].commits = 1
            /\ [x EXCEPT !.commits = 1].undone = x.undone
        BY <4>1 DEF Closure
      <4>3. [x EXCEPT !.commits = 1] \in Closure
        BY <4>1 DEF Closure
      <4>4. closures'[c] = [x EXCEPT !.commits = 1]
        BY <3>2, <4>1
      <4>5. QED
        BY <4>1, <4>2, <4>3, <4>4
    <3>4. QED
      BY <2>2, <3>1, <3>3
  <2>3. CASE c \notin fresh
    BY <1>2, <2>1, <2>3
  <2>4. QED
    BY <2>2, <2>3
<1>4. closures' \in Seq(Closure) /\ DOMAIN closures' = DOMAIN cls
  <2>1. Len(cls) \in Nat /\ DOMAIN cls = 1 .. Len(cls)
    OBVIOUS
  <2>2. DOMAIN closures' = 1 .. Len(cls)
    BY <1>2, <2>1
  <2>3. \A c \in 1 .. Len(cls) : closures'[c] \in Closure
    BY <1>3, <2>1
  <2>4. closures' = [c \in 1 .. Len(cls) |-> closures'[c]]
    BY <1>2, <2>1
  <2>5. QED
    BY <2>1, <2>2, <2>3, <2>4
<1>5. deleteCalls' \in SUBSET DOMAIN cls /\ SettledOnce'
  BY <1>1, <1>2, <1>3, <1>4 DEF SettledOnce
<1>6. ASSUME NEW t, NEW before, NEW after, before \subseteq after \cup cs, HasPath(t, cls, deletes, before)
      PROVE  HasPath(t, closures', deleteCalls', after)
  <2>1. PICK c \in DOMAIN cls : /\ t \in cls[c].ids
                                /\ c \in deletes \/ (c \in before /\ cls[c].commits + cls[c].undone = 0)
    BY <1>6 DEF HasPath
  <2>2. c \in deleteCalls' \/ (c \in after /\ closures'[c].commits + closures'[c].undone = 0)
    <3>1. CASE c \in deletes \cup fresh
      <4>1. c \in deleteCalls'
        BY <1>2, <3>1
      <4>2. QED
        BY <4>1
    <3>2. CASE c \notin deletes \cup fresh
      <4>1. closures'[c] = cls[c]
        BY <1>3, <3>2
      <4>2. c \in before /\ c \notin cs
        BY <1>1, <2>1, <3>2
      <4>3. QED
        BY <1>6, <2>1, <3>2, <4>1, <4>2
    <3>3. QED
      BY <3>1, <3>2
  <2>3. QED
    BY <1>3, <1>4, <2>1, <2>2 DEF HasPath
<1>7. QED
  BY <1>4, <1>5, <1>6

Keys == {NoKey, BulkKey, ResultKey} \cup {SoftKey(t) : t \in UndoTasks}

(* A toast on top of a stack.                                              *)
LEMMA PushHolds ==
  ASSUME NEW s \in Seq(ToastItem), NEW key \in Keys, NEW closure \in Nat
  PROVE  /\ <<Toast(key, closure)>> \o s \in Seq(ToastItem)
         /\ ClosuresOf(<<Toast(key, closure)>> \o s) = ClosuresOf(s) \cup ({closure} \ {NoClosure})
<1>1. PICK x : x = Toast(key, closure)
  OBVIOUS
<1>2. x \in ToastItem /\ x.closure = closure
  BY <1>1 DEF Toast, ToastItem, Keys
<1>3. <<x>> \in Seq(ToastItem) /\ Stacked(<<x>>) = {x}
  BY <1>2 DEF Stacked
<1>4. ClosuresOf(<<x>>) = {closure} \ {NoClosure}
  BY <1>2, <1>3 DEF ClosuresOf
<1>5. <<x>> \o s \in Seq(ToastItem) /\ ClosuresOf(<<x>> \o s) = ClosuresOf(<<x>>) \cup ClosuresOf(s)
  BY <1>3, HeldInTwo
<1>6. QED
  BY <1>1, <1>4, <1>5

(* A toast in the place of the one with its key.                           *)
InPlace(s, key, closure) ==
    [i \in 1 .. Len(s) |-> IF s[i].key = key THEN [s[i] EXCEPT !.closure = closure] ELSE s[i]]

(* Replacing keeps what the stack held, but for what was replaced.         *)
LEMMA ReplaceHolds ==
  ASSUME NEW s \in Seq(ToastItem), NEW key, NEW closure \in Nat, SameKey(s, key) # {}
  PROVE  /\ InPlace(s, key, closure) \in Seq(ToastItem)
         /\ ClosuresOf(InPlace(s, key, closure)) \subseteq ClosuresOf(s) \cup ({closure} \ {NoClosure})
         /\ ClosuresOf(s) \cup ({closure} \ {NoClosure})
               \subseteq ClosuresOf(InPlace(s, key, closure))
                             \cup ({x.closure : x \in SameKey(s, key)} \ {NoClosure})
<1> DEFINE r == InPlace(s, key, closure)
<1>0. r = [i \in 1 .. Len(s) |->
              IF s[i].key = key THEN [s[i] EXCEPT !.closure = closure] ELSE s[i]]
  BY DEF InPlace
<1> HIDE DEF r
<1>1. Len(s) \in Nat
  OBVIOUS
<1>2. ASSUME NEW i \in 1 .. Len(s)
      PROVE  /\ r[i] \in ToastItem
             /\ s[i].key = key => r[i].closure = closure
             /\ s[i].key # key => r[i] = s[i]
  <2>1. s[i] \in ToastItem
    OBVIOUS
  <2>2. /\ [s[i] EXCEPT !.closure = closure] \in ToastItem
        /\ [s[i] EXCEPT !.closure = closure].closure = closure
    BY <2>1 DEF ToastItem
  <2>3. QED
    BY <1>0, <2>1, <2>2
<1>3. r \in Seq(ToastItem) /\ Len(r) = Len(s)
  <2>1. \A i \in 1 .. Len(s) : r[i] \in ToastItem
    BY <1>2
  <2>2. DOMAIN r = 1 .. Len(s) /\ r = [i \in 1 .. Len(s) |-> r[i]]
    BY <1>0
  <2>3. QED
    BY <1>1, <2>1, <2>2
<1>4. \A c : c \in ClosuresOf(s) <=> c # NoClosure /\ \E i \in 1 .. Len(s) : c = s[i].closure
  BY DEF ClosuresOf, Stacked
<1>5. \A c : c \in ClosuresOf(r) <=> c # NoClosure /\ \E i \in 1 .. Len(s) : c = r[i].closure
  BY <1>3 DEF ClosuresOf, Stacked
<1>6. key # NoKey /\ \E i \in 1 .. Len(s) : s[i].key = key
  BY DEF SameKey, Stacked
<1>7. \A i \in 1 .. Len(s) : s[i].key = key => s[i] \in SameKey(s, key)
  BY <1>6 DEF SameKey, Stacked
<1>8. ClosuresOf(r) \subseteq ClosuresOf(s) \cup ({closure} \ {NoClosure})
  BY <1>2, <1>4, <1>5
<1>9. {closure} \ {NoClosure} \subseteq ClosuresOf(r)
  BY <1>2, <1>5, <1>6
<1>10. ClosuresOf(s) \subseteq ClosuresOf(r) \cup ({x.closure : x \in SameKey(s, key)} \ {NoClosure})
  <2>1. ASSUME NEW c \in ClosuresOf(s)
        PROVE  c \in ClosuresOf(r) \cup ({x.closure : x \in SameKey(s, key)} \ {NoClosure})
    <3>1. PICK i \in 1 .. Len(s) : c = s[i].closure /\ c # NoClosure
      BY <1>4
    <3>2. CASE s[i].key = key
      BY <1>7, <3>1, <3>2
    <3>3. CASE s[i].key # key
      BY <1>2, <1>5, <3>1, <3>3
    <3>4. QED
      BY <3>2, <3>3
  <2>2. QED
    BY <2>1
<1>11. QED
  BY <1>3, <1>8, <1>9, <1>10 DEF r

(* addToast loses no closure, whatever it replaces or evicts.              *)
LEMMA AddToastKeeps ==
  ASSUME UndoTypeInv,
         NEW cls \in Seq(Closure), DOMAIN closures \subseteq DOMAIN cls,
         \A c \in DOMAIN cls : cls[c].commits + cls[c].undone <= 1,
         NEW deletes \in SUBSET DOMAIN cls,
         NEW key \in Keys, NEW closure \in Nat, closure # NoClosure => closure \in DOMAIN cls,
         NEW defers, AddToast(key, closure, defers, cls, deletes)
  PROVE  /\ UndoTypeInv' /\ SettledOnce'
         /\ \A t : HasPath(t, cls, deletes, Held \cup ({closure} \ {NoClosure}))
                      => HasPath(t, closures', deleteCalls', Held')
<1> DEFINE new == {closure} \ {NoClosure}
           same(s) == {x.closure : x \in SameKey(s, key)} \ {NoClosure}
           replace(s) == InPlace(s, key, closure)
           push(s) == <<Toast(key, closure)>> \o s
<1>1. /\ toasts \in Seq(ToastItem) /\ deferredToasts \in Seq(ToastItem)
      /\ ClosuresOf(toasts) \cup ClosuresOf(deferredToasts) \cup ghosts \cup new \subseteq DOMAIN cls
  BY DEF UndoTypeInv, Held
<1>2. ASSUME NEW cs \in SUBSET DOMAIN cls, Commit(cls, cs, deletes),
             toasts' \in Seq(ToastItem), deferredToasts' \in Seq(ToastItem),
             Held' \cup ghosts' \subseteq DOMAIN cls,
             Held \cup new \subseteq Held' \cup cs
      PROVE  /\ UndoTypeInv' /\ SettledOnce'
             /\ \A t : HasPath(t, cls, deletes, Held \cup new) => HasPath(t, closures', deleteCalls', Held')
  <2>1. /\ closures' \in Seq(Closure) /\ DOMAIN closures' = DOMAIN cls
        /\ deleteCalls' \in SUBSET DOMAIN cls /\ SettledOnce'
        /\ \A t, before, after : before \subseteq after \cup cs /\ HasPath(t, cls, deletes, before)
               => HasPath(t, closures', deleteCalls', after)
    BY <1>2, CommitKeeps
  <2>2. UndoTypeInv'
    BY <1>2, <2>1 DEF UndoTypeInv
  <2>3. PICK before, after : before = Held \cup new /\ after = Held'
    OBVIOUS
  <2>4. QED
    BY <1>2, <2>1, <2>2, <2>3
<1>3. ASSUME NEW s \in Seq(ToastItem), SameKey(s, key) # {}
      PROVE  /\ replace(s) \in Seq(ToastItem) /\ same(s) \subseteq ClosuresOf(s)
             /\ ClosuresOf(replace(s)) \subseteq ClosuresOf(s) \cup new
             /\ ClosuresOf(s) \cup new \subseteq ClosuresOf(replace(s)) \cup same(s)
  <2>1. same(s) \subseteq ClosuresOf(s)
    BY DEF SameKey, ClosuresOf
  <2>2. QED
    BY <1>3, <2>1, ReplaceHolds
<1>4. ASSUME NEW s \in Seq(ToastItem)
      PROVE  /\ Kept(push(s)) \in Seq(ToastItem)
             /\ ClosuresOf(s) \cup new = ClosuresOf(Kept(push(s))) \cup Evicted(push(s))
  <2>1. push(s) \in Seq(ToastItem) /\ ClosuresOf(push(s)) = ClosuresOf(s) \cup new
    BY PushHolds
  <2> HIDE DEF push
  <2>2. QED
    BY <2>1, CapSplits
<1>5. CASE /\ SameKey(toasts, key) # {} /\ Commit(cls, Replaced(key), deletes)
           /\ toasts' = replace(toasts) /\ UNCHANGED <<deferredToasts, ghosts>>
  <2>1. PICK r : r = replace(toasts)
    OBVIOUS
  <2>2. /\ r \in Seq(ToastItem) /\ same(toasts) \subseteq ClosuresOf(toasts)
        /\ ClosuresOf(r) \subseteq ClosuresOf(toasts) \cup new
        /\ ClosuresOf(toasts) \cup new \subseteq ClosuresOf(r) \cup same(toasts)
    BY <1>1, <1>3, <1>5, <2>1
  <2>3. Replaced(key) = same(toasts)
    BY <1>5 DEF Replaced
  <2>4. toasts' = r /\ deferredToasts' = deferredToasts /\ ghosts' = ghosts
    BY <1>5, <2>1
  <2>5. Held' = ClosuresOf(r) \cup ClosuresOf(deferredToasts)
    BY <2>4 DEF Held
  <2> HIDE DEF new, same, replace, push
  <2>6. /\ Replaced(key) \in SUBSET DOMAIN cls
        /\ Held' \cup ghosts' \subseteq DOMAIN cls
        /\ Held \cup new \subseteq Held' \cup Replaced(key)
    BY <1>1, <2>2, <2>3, <2>4, <2>5 DEF Held
  <2>7. QED
    BY <1>1, <1>2, <1>5, <2>2, <2>4, <2>6 DEF new
<1>6. CASE /\ SameKey(toasts, key) = {} /\ SameKey(deferredToasts, key) # {}
           /\ Commit(cls, Replaced(key), deletes)
           /\ deferredToasts' = replace(deferredToasts) /\ UNCHANGED <<toasts, ghosts>>
  <2>1. PICK r : r = replace(deferredToasts)
    OBVIOUS
  <2>2. /\ r \in Seq(ToastItem) /\ same(deferredToasts) \subseteq ClosuresOf(deferredToasts)
        /\ ClosuresOf(r) \subseteq ClosuresOf(deferredToasts) \cup new
        /\ ClosuresOf(deferredToasts) \cup new \subseteq ClosuresOf(r) \cup same(deferredToasts)
    BY <1>1, <1>3, <1>6, <2>1
  <2>3. Replaced(key) = same(deferredToasts)
    BY <1>6 DEF Replaced
  <2>4. deferredToasts' = r /\ toasts' = toasts /\ ghosts' = ghosts
    BY <1>6, <2>1
  <2>5. Held' = ClosuresOf(toasts) \cup ClosuresOf(r)
    BY <2>4 DEF Held
  <2> HIDE DEF new, same, replace, push
  <2>6. /\ Replaced(key) \in SUBSET DOMAIN cls
        /\ Held' \cup ghosts' \subseteq DOMAIN cls
        /\ Held \cup new \subseteq Held' \cup Replaced(key)
    BY <1>1, <2>2, <2>3, <2>4, <2>5 DEF Held
  <2>7. QED
    BY <1>1, <1>2, <1>6, <2>2, <2>4, <2>6 DEF new
<1>7. CASE /\ Commit(cls, Evicted(push(deferredToasts)), deletes)
           /\ deferredToasts' = Kept(push(deferredToasts)) /\ UNCHANGED <<toasts, ghosts>>
  <2>1. PICK k, e : k = Kept(push(deferredToasts)) /\ e = Evicted(push(deferredToasts))
    OBVIOUS
  <2>2. k \in Seq(ToastItem) /\ ClosuresOf(deferredToasts) \cup new = ClosuresOf(k) \cup e
    BY <1>1, <1>4, <2>1
  <2>3. deferredToasts' = k /\ toasts' = toasts /\ ghosts' = ghosts /\ Commit(cls, e, deletes)
    BY <1>7, <2>1
  <2>4. Held' = ClosuresOf(toasts) \cup ClosuresOf(k)
    BY <2>3 DEF Held
  <2> HIDE DEF new, same, replace, push
  <2>5. /\ e \in SUBSET DOMAIN cls
        /\ Held' \cup ghosts' \subseteq DOMAIN cls
        /\ Held \cup new \subseteq Held' \cup e
    BY <1>1, <2>2, <2>3, <2>4 DEF Held
  <2>6. QED
    BY <1>1, <1>2, <2>2, <2>3, <2>5 DEF new
<1>8. CASE /\ Commit(cls, Evicted(push(toasts)), deletes)
           /\ toasts' = Kept(push(toasts)) /\ UNCHANGED deferredToasts
           /\ ghosts' = ghosts \cup (Evicted(push(toasts)) \cap ClosuresOf(toasts))
  <2>1. PICK k, e : k = Kept(push(toasts)) /\ e = Evicted(push(toasts))
    OBVIOUS
  <2>2. k \in Seq(ToastItem) /\ ClosuresOf(toasts) \cup new = ClosuresOf(k) \cup e
    BY <1>1, <1>4, <2>1
  <2>3. /\ toasts' = k /\ deferredToasts' = deferredToasts /\ Commit(cls, e, deletes)
        /\ ghosts' = ghosts \cup (e \cap ClosuresOf(toasts))
    BY <1>8, <2>1
  <2>4. Held' = ClosuresOf(k) \cup ClosuresOf(deferredToasts)
    BY <2>3 DEF Held
  <2> HIDE DEF new, same, replace, push
  <2>5. /\ e \in SUBSET DOMAIN cls
        /\ Held' \cup ghosts' \subseteq DOMAIN cls
        /\ Held \cup new \subseteq Held' \cup e
    BY <1>1, <2>2, <2>3, <2>4 DEF Held
  <2>6. QED
    BY <1>1, <1>2, <2>2, <2>3, <2>5 DEF new
<1>9. QED
  BY <1>5, <1>6, <1>7, <1>8 DEF AddToast, InPlace

-------------------------------------------------------------------------------
(* Steps that settle closures                                              *)

(* A step that commits the closures whose toasts it takes away.            *)
LEMMA CommitStep ==
  ASSUME UndoInv, NEW cs \in SUBSET DOMAIN closures, Commit(closures, cs, deleteCalls),
         toasts' \in Seq(ToastItem), deferredToasts' \in Seq(ToastItem),
         Held' \cup ghosts' \subseteq DOMAIN closures, Held \subseteq Held' \cup cs,
         pendingDeleteIds' = pendingDeleteIds
  PROVE  UndoInv'
<1>1. /\ closures \in Seq(Closure) /\ deleteCalls \in SUBSET DOMAIN closures
      /\ \A c \in DOMAIN closures : closures[c].commits + closures[c].undone <= 1
  BY DEF UndoInv, UndoTypeInv, SettledOnce
<1>2. /\ closures' \in Seq(Closure) /\ DOMAIN closures' = DOMAIN closures
      /\ deleteCalls' \in SUBSET DOMAIN closures /\ SettledOnce'
      /\ \A t, before, after : before \subseteq after \cup cs /\ HasPath(t, closures, deleteCalls, before)
             => HasPath(t, closures', deleteCalls', after)
  BY <1>1, CommitKeeps
<1>3. UndoTypeInv'
  BY <1>2 DEF UndoTypeInv
<1>4. PICK before, after : before = Held /\ after = Held'
  OBVIOUS
<1>5. PathInv'
  BY <1>2, <1>4 DEF UndoInv, PathInv
<1>6. QED
  BY <1>2, <1>3, <1>5 DEF UndoInv

(* A step that undoes the closure whose toast it takes away.               *)
LEMMA UndoStep ==
  ASSUME UndoInv, NEW c \in DOMAIN closures, UndoOf(c),
         toasts' \in Seq(ToastItem), deferredToasts' \in Seq(ToastItem),
         Held' \subseteq Held, ghosts' \subseteq ghosts, Held \subseteq Held' \cup {c},
         deleteCalls' = deleteCalls
  PROVE  UndoInv'
<1>1. /\ closures \in Seq(Closure) /\ Held \cup ghosts \cup deleteCalls \subseteq DOMAIN closures
      /\ \A d \in DOMAIN closures : closures[d].commits + closures[d].undone <= 1
      /\ \A t \in pendingDeleteIds : HasPath(t, closures, deleteCalls, Held)
  BY DEF UndoInv, UndoTypeInv, SettledOnce, PathInv
<1>2. /\ Len(closures) \in Nat /\ DOMAIN closures = 1 .. Len(closures) /\ c \in 1 .. Len(closures)
      /\ closures[c] \in Closure
  BY <1>1
<1>3. CASE c # NoClosure /\ closures[c].commits + closures[c].undone = 0
  <2>1. PICK x \in Closure : x = closures[c]
    BY <1>2
  <2>2. x.commits = 0 /\ x.undone = 0
    BY <1>3, <2>1 DEF Closure
  <2>3. /\ [x EXCEPT !.undone = 1].ids = x.ids
        /\ [x EXCEPT !.undone = 1].commits = 0
        /\ [x EXCEPT !.undone = 1].undone = 1
    BY <2>1, <2>2 DEF Closure
  <2>4. [x EXCEPT !.undone = 1] \in Closure
    BY <2>1 DEF Closure
  <2>5. PICK y \in Closure : y = [x EXCEPT !.undone = 1] /\ y.ids = x.ids /\ y.commits = 0 /\ y.undone = 1
    BY <2>3, <2>4
  <2>6. closures' = [closures EXCEPT ![c] = y] /\ pendingDeleteIds' = pendingDeleteIds \ x.ids
    BY <1>3, <2>1, <2>5 DEF UndoOf
  <2>7. /\ closures' \in Seq(Closure) /\ DOMAIN closures' = DOMAIN closures
        /\ closures'[c] = y /\ \A d \in DOMAIN closures : d # c => closures'[d] = closures[d]
    BY <1>1, <1>2, <2>5, <2>6
  <2>8. SettledOnce'
    <3>1. ASSUME NEW d \in DOMAIN closures PROVE closures'[d].commits + closures'[d].undone <= 1
      <4>1. CASE d = c
        <5>1. closures'[d].commits = 0 /\ closures'[d].undone = 1
          BY <2>5, <2>7, <4>1
        <5>2. QED
          BY <5>1
      <4>2. CASE d # c
        BY <1>1, <2>7, <4>2
      <4>3. QED
        BY <4>1, <4>2
    <3>2. QED
      BY <2>7, <3>1 DEF SettledOnce
  <2>9. ASSUME NEW t \in pendingDeleteIds' PROVE HasPath(t, closures', deleteCalls', Held')
    <3>1. HasPath(t, closures, deleteCalls, Held) /\ t \notin x.ids
      BY <1>1, <2>6, <2>9
    <3>2. PICK d \in DOMAIN closures :
             /\ t \in closures[d].ids
             /\ d \in deleteCalls \/ (d \in Held /\ closures[d].commits + closures[d].undone = 0)
      BY <3>1 DEF HasPath
    <3>3. d # c
      BY <2>1, <3>1, <3>2
    <3>4. d \in DOMAIN closures' /\ closures'[d] = closures[d] /\ (d \in Held => d \in Held')
      BY <2>7, <3>3
    <3>5. QED
      BY <3>2, <3>4 DEF HasPath
  <2>10. UndoTypeInv'
    BY <1>1, <2>7 DEF UndoTypeInv
  <2>11. QED
    BY <2>8, <2>9, <2>10 DEF UndoInv, PathInv
<1>4. CASE ~(c # NoClosure /\ closures[c].commits + closures[c].undone = 0)
  <2>1. closures' = closures /\ pendingDeleteIds' = pendingDeleteIds
    BY <1>4 DEF UndoOf
  <2>2. c # NoClosure
    BY <1>2 DEF NoClosure
  <2>3. ASSUME NEW t \in pendingDeleteIds PROVE HasPath(t, closures', deleteCalls', Held')
    <3>1. PICK d \in DOMAIN closures :
             /\ t \in closures[d].ids
             /\ d \in deleteCalls \/ (d \in Held /\ closures[d].commits + closures[d].undone = 0)
      BY <1>1, <2>3 DEF HasPath
    <3>2. d \in deleteCalls' \/ (d \in Held' /\ closures[d].commits + closures[d].undone = 0)
      BY <1>4, <2>2, <3>1
    <3>3. QED
      BY <2>1, <3>1, <3>2 DEF HasPath
  <2>4. UndoTypeInv' /\ SettledOnce'
    BY <1>1, <2>1 DEF UndoTypeInv, SettledOnce
  <2>5. QED
    BY <2>1, <2>3, <2>4 DEF UndoInv, PathInv
<1>5. QED
  BY <1>3, <1>4

(* softDelete and softDeleteBulk.                                          *)
LEMMA DeleteKeeps ==
  ASSUME UndoInv, NEW ids \in SUBSET UndoTasks, NEW key \in Keys, DeleteWithUndo(ids, key)
  PROVE  UndoInv'
<1>1. PICK fresh \in SUBSET UndoTasks : fresh = ids \ pendingDeleteIds
  OBVIOUS
<1>2. PICK bulk \in BOOLEAN : bulk = (key = BulkKey)
  OBVIOUS
<1>3. PICK x : x = [ids |-> fresh, bulk |-> bulk, commits |-> 0, undone |-> 0]
  OBVIOUS
<1>4. x \in Closure /\ x.ids = fresh /\ x.commits = 0 /\ x.undone = 0
  BY <1>3 DEF Closure
<1>5. PICK cls, new : cls = Append(closures, x) /\ new = Len(closures) + 1
  OBVIOUS
<1>6. /\ pendingDeleteIds' = pendingDeleteIds \cup fresh
      /\ AddToast(key, new, TRUE, cls, deleteCalls)
  BY <1>1, <1>2, <1>3, <1>5 DEF DeleteWithUndo
<1>7. /\ closures \in Seq(Closure) /\ Held \cup ghosts \cup deleteCalls \subseteq DOMAIN closures
      /\ \A d \in DOMAIN closures : closures[d].commits + closures[d].undone <= 1
      /\ \A t \in pendingDeleteIds : HasPath(t, closures, deleteCalls, Held)
  BY DEF UndoInv, UndoTypeInv, SettledOnce, PathInv
<1>8. Len(closures) \in Nat /\ DOMAIN closures = 1 .. Len(closures)
  BY <1>7
<1>9. cls \in Seq(Closure) /\ Len(cls) = Len(closures) + 1
  BY <1>4, <1>5, <1>7
<1>10. DOMAIN cls = 1 .. Len(closures) + 1 /\ new \in DOMAIN cls /\ new \in Nat /\ new # NoClosure
  BY <1>5, <1>8, <1>9 DEF NoClosure
<1>11. /\ \A d \in DOMAIN closures : d \in DOMAIN cls /\ cls[d] = closures[d]
       /\ cls[new] = x
  BY <1>4, <1>5, <1>7, <1>8, <1>10
<1>12. \A d \in DOMAIN cls : d = new \/ d \in DOMAIN closures
  BY <1>5, <1>8, <1>10
<1>13. \A d \in DOMAIN cls : cls[d].commits + cls[d].undone <= 1
  BY <1>4, <1>7, <1>11, <1>12
<1>14. /\ UndoTypeInv' /\ SettledOnce'
       /\ \A t : HasPath(t, cls, deleteCalls, Held \cup ({new} \ {NoClosure}))
                    => HasPath(t, closures', deleteCalls', Held')
  <2>1. UndoTypeInv /\ DOMAIN closures \subseteq DOMAIN cls /\ deleteCalls \in SUBSET DOMAIN cls
    BY <1>7, <1>11 DEF UndoInv
  <2>2. QED
    BY <1>6, <1>9, <1>10, <1>13, <2>1, AddToastKeeps
<1>15. ASSUME NEW t \in pendingDeleteIds
       PROVE  HasPath(t, cls, deleteCalls, Held \cup ({new} \ {NoClosure}))
  <2>1. PICK d \in DOMAIN closures :
           /\ t \in closures[d].ids
           /\ d \in deleteCalls \/ (d \in Held /\ closures[d].commits + closures[d].undone = 0)
    BY <1>7, <1>15 DEF HasPath
  <2>2. d \in DOMAIN cls /\ cls[d] = closures[d]
    BY <1>11
  <2>3. QED
    BY <2>1, <2>2 DEF HasPath
<1>16. ASSUME NEW t \in fresh
       PROVE  HasPath(t, cls, deleteCalls, Held \cup ({new} \ {NoClosure}))
  <2>1. t \in cls[new].ids /\ cls[new].commits + cls[new].undone = 0
    BY <1>4, <1>11, <1>16
  <2>2. QED
    BY <1>10, <2>1 DEF HasPath
<1>17. PathInv'
  BY <1>6, <1>14, <1>15, <1>16 DEF PathInv
<1>18. QED
  BY <1>14, <1>17 DEF UndoInv

(* A toast without a closure, after `deletes` lost the answered deletes.     *)
LEMMA MessageStep ==
  ASSUME UndoInv, NEW deletes \in SUBSET deleteCalls, NEW key \in Keys, NEW defers,
         AddToast(key, NoClosure, defers, closures, deletes),
         \A t \in pendingDeleteIds' : HasPath(t, closures, deletes, Held)
  PROVE  UndoInv'
<1>1. /\ closures \in Seq(Closure) /\ deletes \in SUBSET DOMAIN closures /\ UndoTypeInv
      /\ \A d \in DOMAIN closures : closures[d].commits + closures[d].undone <= 1
  BY DEF UndoInv, UndoTypeInv, SettledOnce
<1>2. NoClosure \in Nat /\ {NoClosure} \ {NoClosure} = {}
  BY DEF NoClosure
<1>3. /\ UndoTypeInv' /\ SettledOnce'
      /\ \A t : HasPath(t, closures, deletes, Held \cup ({NoClosure} \ {NoClosure}))
                   => HasPath(t, closures', deleteCalls', Held')
  BY <1>1, <1>2, AddToastKeeps
<1>4. Held \cup ({NoClosure} \ {NoClosure}) = Held
  OBVIOUS
<1>5. QED
  BY <1>3, <1>4 DEF UndoInv, PathInv

(* The hard delete is answered.                                            *)
LEMMA AnswerKeeps ==
  ASSUME UndoInv, NEW c \in DOMAIN closures, NEW ok \in BOOLEAN, HardDeleteAnswered(c, ok)
  PROVE  UndoInv'
<1>1. /\ UndoTypeInv /\ SettledOnce
      /\ \A t \in pendingDeleteIds : HasPath(t, closures, deleteCalls, Held)
  BY DEF UndoInv, PathInv
<1>2. PICK deletes \in SUBSET deleteCalls : deletes = deleteCalls \ {c}
  OBVIOUS
<1>3. pendingDeleteIds' = pendingDeleteIds \ closures[c].ids
  BY DEF HardDeleteAnswered
<1>4. ASSUME NEW t \in pendingDeleteIds' PROVE HasPath(t, closures, deletes, Held)
  <2>1. HasPath(t, closures, deleteCalls, Held) /\ t \notin closures[c].ids
    BY <1>1, <1>3
  <2>2. PICK d \in DOMAIN closures :
           /\ t \in closures[d].ids
           /\ d \in deleteCalls \/ (d \in Held /\ closures[d].commits + closures[d].undone = 0)
    BY <2>1 DEF HasPath
  <2>3. d \in deletes \/ (d \in Held /\ closures[d].commits + closures[d].undone = 0)
    BY <1>2, <2>1, <2>2
  <2>4. QED
    BY <2>2, <2>3 DEF HasPath
<1>5. CASE ok /\ ~closures[c].bulk
  <2>1. deleteCalls' = deletes /\ UNCHANGED <<toasts, deferredToasts, closures, ghosts>>
    BY <1>2, <1>5 DEF HardDeleteAnswered
  <2>2. Held' = Held
    BY <2>1 DEF Held
  <2>3. UndoTypeInv' /\ SettledOnce'
    BY <1>1, <1>2, <2>1, <2>2 DEF UndoTypeInv, SettledOnce
  <2>4. QED
    BY <1>4, <2>1, <2>2, <2>3 DEF UndoInv, PathInv
<1>6. CASE ~(ok /\ ~closures[c].bulk)
  <2>1. PICK key \in Keys : key = IF closures[c].bulk THEN ResultKey ELSE NoKey
    BY DEF Keys
  <2>2. AddToast(key, NoClosure, ok, closures, deletes)
    BY <1>2, <1>6, <2>1 DEF HardDeleteAnswered
  <2>3. QED
    BY <1>4, <2>2, MessageStep
<1>7. QED
  BY <1>5, <1>6

-------------------------------------------------------------------------------
(* Steps of the stack on screen                                            *)

(* A toast that leaves by its timer, its close button or its undo.         *)
LEMMA ItemLeaves ==
  ASSUME UndoInv, NEW i \in 1 .. StackLimit, TimerFires(i) \/ Dismiss(i) \/ SettleUndo(i)
  PROVE  UndoInv'
<1>1. /\ toasts \in Seq(ToastItem) /\ deferredToasts \in Seq(ToastItem)
      /\ Held \cup ghosts \subseteq DOMAIN closures
  BY DEF UndoInv, UndoTypeInv
<1>2. i <= Len(toasts) /\ Gone(i) /\ UNCHANGED <<deferredToasts, ghosts>>
  BY DEF TimerFires, Dismiss, SettleUndo, SettleCommit, ItemStep
<1>3. StackLimit \in Nat /\ Len(toasts) \in Nat
  BY <1>1, UndoDeleteAssumption
<1>4. i \in 1 .. Len(toasts)
  BY <1>2, <1>3
<1>5. PICK rest : rest = RemoveAt(toasts, i)
  OBVIOUS
<1>6. PICK c : c = toasts[i].closure
  OBVIOUS
<1>7. /\ rest \in Seq(ToastItem)
      /\ ClosuresOf(rest) \subseteq ClosuresOf(toasts)
      /\ ClosuresOf(toasts) \subseteq ClosuresOf(rest) \cup {c}
  BY <1>1, <1>4, <1>5, <1>6, GoneHolds
<1>8. toasts' = rest /\ deferredToasts' = deferredToasts /\ ghosts' = ghosts
  BY <1>2, <1>5 DEF Gone
<1>9. Held' = ClosuresOf(rest) \cup ClosuresOf(deferredToasts)
  BY <1>8 DEF Held
<1>10. c # NoClosure => c \in Held
  BY <1>4, <1>6 DEF Held, ClosuresOf, Stacked
<1>11. NoClosure \notin Held
  BY DEF Held, ClosuresOf
<1>12. CASE SettleCommit(i)
  <2>1. PICK cs : cs = {c} \ {NoClosure}
    OBVIOUS
  <2>2. Commit(closures, cs, deleteCalls) /\ pendingDeleteIds' = pendingDeleteIds
    BY <1>6, <1>12, <2>1 DEF SettleCommit, Item, ItemStep
  <2>3. cs \in SUBSET DOMAIN closures /\ Held \subseteq Held' \cup cs
    BY <1>1, <1>7, <1>9, <1>10, <1>11, <2>1 DEF Held
  <2>4. Held' \cup ghosts' \subseteq DOMAIN closures
    BY <1>1, <1>7, <1>8, <1>9 DEF Held
  <2>5. QED
    BY <1>1, <1>7, <1>8, <2>2, <2>3, <2>4, CommitStep
<1>13. CASE SettleUndo(i)
  <2>1. c # NoClosure /\ UndoOf(c) /\ deleteCalls' = deleteCalls
    BY <1>6, <1>13 DEF SettleUndo, Item
  <2>2. c \in DOMAIN closures /\ Held' \subseteq Held /\ Held \subseteq Held' \cup {c}
    BY <1>1, <1>7, <1>9, <1>10, <2>1 DEF Held
  <2>3. QED
    BY <1>1, <1>7, <1>8, <2>1, <2>2, UndoStep
<1>14. QED
  BY <1>12, <1>13 DEF TimerFires, Dismiss

(* The pointer or the focus comes in or leaves.                            *)
LEMMA PlaceKeeps ==
  ASSUME UndoInv, NEW i \in 1 .. StackLimit, NEW place \in {"pointer", "focus"},
         Inside(i, place) \/ Outside(i, place)
  PROVE  UndoInv'
<1>1. /\ toasts \in Seq(ToastItem) /\ deferredToasts \in Seq(ToastItem)
      /\ Held \cup ghosts \cup deleteCalls \subseteq DOMAIN closures
  BY DEF UndoInv, UndoTypeInv
<1>2. /\ i <= Len(toasts)
      /\ UNCHANGED <<deferredToasts, closures, ghosts, deleteCalls, pendingDeleteIds>>
  BY DEF Inside, Outside, ItemStep
<1>3. StackLimit \in Nat /\ Len(toasts) \in Nat
  BY <1>1, UndoDeleteAssumption
<1>4. i \in 1 .. Len(toasts)
  BY <1>2, <1>3
<1>5. PICK x \in ToastItem : x = toasts[i]
  BY <1>1, <1>4
<1>6. ASSUME NEW b \in BOOLEAN
      PROVE  /\ [x EXCEPT ![place] = b] \in ToastItem
             /\ [x EXCEPT ![place] = b].closure = x.closure
  <2>1. CASE place = "pointer"
    BY <1>5, <2>1 DEF ToastItem
  <2>2. CASE place = "focus"
    BY <1>5, <2>2 DEF ToastItem
  <2>3. QED
    BY <2>1, <2>2
<1>7. ASSUME NEW y \in ToastItem
      PROVE  /\ PauseTimer(y) \in ToastItem /\ PauseTimer(y).closure = y.closure
             /\ ResumeTimer(y) \in ToastItem /\ ResumeTimer(y).closure = y.closure
  <2>1. y.timers - 1 \in Int /\ y.timers + 1 \in Int
    BY DEF ToastItem
  <2>2. ASSUME NEW n \in Int, NEW b \in BOOLEAN
        PROVE  /\ [y EXCEPT !.timers = n, !.paused = b] \in ToastItem
               /\ [y EXCEPT !.timers = n, !.paused = b].closure = y.closure
    BY DEF ToastItem
  <2>3. PICK t \in BOOLEAN, f \in BOOLEAN : t = TRUE /\ f = FALSE
    OBVIOUS
  <2>4. QED
    BY <2>1, <2>2, <2>3 DEF PauseTimer, ResumeTimer
<1>8. PICK y \in ToastItem : toasts' = [toasts EXCEPT ![i] = y] /\ y.closure = x.closure
  <2>1. CASE Inside(i, place)
    <3>1. toasts' = [toasts EXCEPT ![i] = PauseTimer([x EXCEPT ![place] = TRUE])]
      BY <1>5, <2>1 DEF Inside
    <3>2. PICK z \in ToastItem : z = [x EXCEPT ![place] = TRUE] /\ z.closure = x.closure
      BY <1>6
    <3>3. QED
      BY <1>7, <3>1, <3>2
  <2>2. CASE Outside(i, place)
    <3>1. toasts' = [toasts EXCEPT ![i] = ResumeTimer([x EXCEPT ![place] = FALSE])]
      BY <1>5, <2>2 DEF Outside
    <3>2. PICK z \in ToastItem : z = [x EXCEPT ![place] = FALSE] /\ z.closure = x.closure
      BY <1>6
    <3>3. QED
      BY <1>7, <3>1, <3>2
  <2>3. QED
    BY <2>1, <2>2
<1>9. /\ toasts' \in Seq(ToastItem) /\ Len(toasts') = Len(toasts)
      /\ \A j \in 1 .. Len(toasts) : toasts'[j].closure = toasts[j].closure
  BY <1>1, <1>4, <1>5, <1>8
<1>10. ClosuresOf(toasts)' = ClosuresOf(toasts)
  <2>1. \A d : d \in ClosuresOf(toasts) <=> d # NoClosure /\ \E j \in 1 .. Len(toasts) : d = toasts[j].closure
    BY DEF ClosuresOf, Stacked
  <2>2. \A d : d \in ClosuresOf(toasts)'
              <=> d # NoClosure /\ \E j \in 1 .. Len(toasts) : d = toasts'[j].closure
    BY <1>9 DEF ClosuresOf, Stacked
  <2>3. PICK before, after : before = ClosuresOf(toasts) /\ after = ClosuresOf(toasts)'
    OBVIOUS
  <2>4. \A d : d \in before <=> d \in after
    <3>1. ASSUME NEW d, d \in before PROVE d \in after
      BY <1>9, <2>1, <2>2, <2>3, <3>1
    <3>2. ASSUME NEW d, d \in after PROVE d \in before
      BY <1>9, <2>1, <2>2, <2>3, <3>2
    <3>3. QED
      BY <3>1, <3>2
  <2>5. before = after
    <3>1. before \subseteq after /\ after \subseteq before
      BY <2>4
    <3>2. QED
      BY <3>1
  <2>6. QED
    BY <2>3, <2>5
<1>11. Held' = Held
  BY <1>2, <1>10 DEF Held
<1>12. QED
  BY <1>1, <1>2, <1>9, <1>11 DEF UndoInv, UndoTypeInv, SettledOnce, PathInv

(* "Clear all", the last dialog that closes, and an item that fades out.   *)
LEMMA StacksKeep ==
  ASSUME UndoInv, AcquireModalFocus \/ ReleaseModalFocus \/ ClearToasts
                  \/ \E c \in DOMAIN closures : GhostActs(c)
  PROVE  UndoInv'
<1>1. /\ toasts \in Seq(ToastItem) /\ deferredToasts \in Seq(ToastItem)
      /\ Held \cup ghosts \cup deleteCalls \subseteq DOMAIN closures
  BY DEF UndoInv, UndoTypeInv
<1>2. ASSUME UNCHANGED <<toasts, deferredToasts, closures, deleteCalls, pendingDeleteIds>>,
             ghosts' \subseteq ghosts
      PROVE  UndoInv'
  <2>1. Held' = Held
    BY <1>2 DEF Held
  <2>2. QED
    BY <1>1, <1>2, <2>1 DEF UndoInv, UndoTypeInv, SettledOnce, PathInv
<1>3. CASE AcquireModalFocus
  BY <1>2, <1>3 DEF AcquireModalFocus
<1>4. CASE ReleaseModalFocus
  <2>1. CASE modalDepth = 1
    <3>1. PICK r : r = Reverse(deferredToasts)
      OBVIOUS
    <3>2. r \in Seq(ToastItem) /\ ClosuresOf(r) = ClosuresOf(deferredToasts)
      BY <1>1, <3>1, ReverseHolds
    <3>3. PICK flushed : flushed = r \o toasts
      OBVIOUS
    <3>4. /\ flushed \in Seq(ToastItem)
          /\ ClosuresOf(flushed) = ClosuresOf(deferredToasts) \cup ClosuresOf(toasts)
      BY <1>1, <3>2, <3>3, HeldInTwo
    <3>5. PICK k, e : k = Kept(flushed) /\ e = Evicted(flushed)
      OBVIOUS
    <3>6. k \in Seq(ToastItem) /\ ClosuresOf(flushed) = ClosuresOf(k) \cup e
      BY <3>4, <3>5, CapSplits
    <3>7. /\ toasts' = k /\ deferredToasts' = << >> /\ Commit(closures, e, deleteCalls)
          /\ ghosts' = ghosts \cup (e \cap ClosuresOf(toasts))
          /\ pendingDeleteIds' = pendingDeleteIds
      BY <1>4, <2>1, <3>1, <3>3, <3>5 DEF ReleaseModalFocus
    <3>8. ClosuresOf(<< >>) = {}
      BY DEF ClosuresOf, Stacked
    <3>9. Held' = ClosuresOf(k)
      BY <3>7, <3>8 DEF Held
    <3>10. << >> \in Seq(ToastItem)
      OBVIOUS
    <3>11. /\ e \in SUBSET DOMAIN closures /\ Held \subseteq Held' \cup e
           /\ Held' \cup ghosts' \subseteq DOMAIN closures
      BY <1>1, <3>4, <3>6, <3>7, <3>9 DEF Held
    <3>12. QED
      BY <3>6, <3>7, <3>10, <3>11, CommitStep
  <2>2. CASE modalDepth # 1
    BY <1>2, <1>4, <2>2 DEF ReleaseModalFocus
  <2>3. QED
    BY <2>1, <2>2
<1>5. CASE ClearToasts
  <2>1. PICK cs : cs = ClosuresOf(toasts \o deferredToasts)
    OBVIOUS
  <2>2. cs = ClosuresOf(toasts) \cup ClosuresOf(deferredToasts)
    BY <1>1, <2>1, HeldInTwo
  <2>3. /\ toasts' = << >> /\ deferredToasts' = << >> /\ Commit(closures, cs, deleteCalls)
        /\ ghosts' = ghosts \cup ClosuresOf(toasts) /\ pendingDeleteIds' = pendingDeleteIds
    BY <1>5, <2>1 DEF ClearToasts
  <2>4. ClosuresOf(<< >>) = {} /\ << >> \in Seq(ToastItem)
    BY DEF ClosuresOf, Stacked
  <2>5. Held' = {}
    BY <2>3, <2>4 DEF Held
  <2>6. /\ cs \in SUBSET DOMAIN closures /\ Held \subseteq Held' \cup cs
        /\ Held' \cup ghosts' \subseteq DOMAIN closures
    BY <1>1, <2>2, <2>3, <2>5 DEF Held
  <2>7. QED
    BY <2>3, <2>4, <2>6, CommitStep
<1>6. ASSUME NEW c \in DOMAIN closures, GhostActs(c) PROVE UndoInv'
  <2>1. UNCHANGED <<toasts, deferredToasts>> /\ ghosts' \subseteq ghosts
    BY <1>6 DEF GhostActs
  <2>2. Held' = Held
    BY <2>1 DEF Held
  <2>3. CASE Commit(closures, {c}, deleteCalls) /\ UNCHANGED pendingDeleteIds
    <3>1. PICK cs \in SUBSET DOMAIN closures : cs = {c}
      OBVIOUS
    <3>2. QED
      BY <1>1, <2>1, <2>2, <2>3, <3>1, CommitStep
  <2>4. CASE UndoOf(c) /\ UNCHANGED deleteCalls
    BY <1>1, <2>1, <2>2, <2>4, UndoStep
  <2>5. CASE UNCHANGED <<closures, deleteCalls, pendingDeleteIds>>
    BY <1>2, <2>1, <2>5
  <2>6. QED
    BY <1>6, <2>3, <2>4, <2>5 DEF GhostActs
<1>7. QED
  BY <1>3, <1>4, <1>5, <1>6

-------------------------------------------------------------------------------
(* At first nothing is hidden.                                             *)
LEMMA UndoInvInit == UndoInit => UndoInv
<1> SUFFICES ASSUME UndoInit PROVE UndoInv
  OBVIOUS
<1>1. << >> \in Seq(ToastItem) /\ << >> \in Seq(Closure) /\ ClosuresOf(<< >>) = {}
  BY DEF ClosuresOf, Stacked
<1>2. DOMAIN closures = {} /\ Held = {} /\ ghosts = {} /\ deleteCalls = {} /\ pendingDeleteIds = {}
  BY <1>1 DEF UndoInit, Held
<1>3. QED
  BY <1>1, <1>2 DEF UndoInit, UndoInv, UndoTypeInv, SettledOnce, PathInv

(* Every step of the shell, of a dialog and of a toast keeps the           *)
(* invariant.                                                              *)
LEMMA UndoInvNext == UndoInv /\ [UndoNext]_undoVars => UndoInv'
<1> SUFFICES ASSUME UndoInv, [UndoNext]_undoVars PROVE UndoInv'
  OBVIOUS
<1>1. ASSUME NEW t \in UndoTasks, SoftDelete(t) PROVE UndoInv'
  <2>1. {t} \in SUBSET UndoTasks /\ SoftKey(t) \in Keys
    BY DEF Keys
  <2>2. QED
    BY <1>1, <2>1, DeleteKeeps DEF SoftDelete
<1>2. ASSUME NEW ids \in SUBSET UndoTasks, SoftDeleteBulk(ids) PROVE UndoInv'
  <2>1. BulkKey \in Keys
    BY DEF Keys
  <2>2. QED
    BY <1>2, <2>1, DeleteKeeps DEF SoftDeleteBulk
<1>3. ASSUME NEW defers \in BOOLEAN, Message(defers) PROVE UndoInv'
  <2>1. AddToast(NoKey, NoClosure, defers, closures, deleteCalls) /\ pendingDeleteIds' = pendingDeleteIds
    BY <1>3 DEF Message
  <2>2. NoKey \in Keys /\ \A t \in pendingDeleteIds : HasPath(t, closures, deleteCalls, Held)
    BY DEF Keys, UndoInv, PathInv
  <2>3. QED
    BY <2>1, <2>2, MessageStep
<1>4. CASE UNCHANGED undoVars
  <2>1. Held' = Held
    BY <1>4 DEF undoVars, Held
  <2>2. QED
    BY <1>4, <2>1 DEF undoVars, UndoInv, UndoTypeInv, SettledOnce, PathInv
<1>5. QED
  BY <1>1, <1>2, <1>3, <1>4, AnswerKeeps, ItemLeaves, PlaceKeeps, StacksKeep DEF UndoNext

(* The invariant that the settling of deletions follows from.              *)
THEOREM UndoInvAlways == UndoSpec => []UndoInv
<1>1. UndoInit => UndoInv
  BY UndoInvInit
<1>2. UndoInv /\ [UndoNext]_undoVars => UndoInv'
  BY UndoInvNext
<1>3. QED
  BY <1>1, <1>2, PTL DEF UndoSpec

(* Every hidden task comes out of hiding, and a closure is settled once:   *)
(* for every number of tasks, toasts and dialogs and every size of the     *)
(* stack (toast-store.ts:50-54, toast.tsx:110).                            *)
THEOREM DeletionIsSettledAlways == UndoSpec => []DeletionIsSettled
<1>1. UndoInv => DeletionIsSettled
  <2> SUFFICES ASSUME UndoInv PROVE DeletionIsSettled
    OBVIOUS
  <2>1. ClosuresOf(toasts \o deferredToasts) = Held
    BY HeldInTwo DEF UndoInv, UndoTypeInv, Held
  <2>2. PendingHasCommitPath
    <3> SUFFICES ASSUME NEW t \in pendingDeleteIds
                 PROVE  \E c \in DOMAIN closures :
                           /\ t \in closures[c].ids
                           /\ \/ c \in deleteCalls
                              \/ /\ c \in ClosuresOf(toasts \o deferredToasts)
                                 /\ closures[c].commits + closures[c].undone = 0
      BY DEF PendingHasCommitPath
    <3>1. HasPath(t, closures, deleteCalls, Held)
      BY DEF UndoInv, PathInv
    <3>2. QED
      BY <2>1, <3>1 DEF HasPath
  <2>3. QED
    BY <2>2 DEF UndoInv, DeletionIsSettled
<1>2. QED
  BY <1>1, UndoInvAlways, PTL

-------------------------------------------------------------------------------
(* RowCommands                                                             *)

(* The types of the rows of the back end, deleted ones included, of the    *)
(* calls and of the dialogs.                                               *)
TaskRow == [status : RowStates, bytes : BOOLEAN, resumes : BOOLEAN, code : Codes]
TaskRows == [RowTasks -> TaskRow]
Commands == Drains \cup Queues \cup {"redownload", "recheck"}
Origins == {"row", "bulk", "global"}
Phases == {"listed", "asked", "draining"}
CallRecord ==
    [id : Nat, command : Commands, tasks : Seq(RowTasks), seen : TaskRows, origin : Origins,
     answers : Seq([ok : BOOLEAN, row : TaskRow]), phase : Phases]
CallsInv == \A c \in calls : c \in CallRecord /\ c.tasks # << >>
Requests == [task : RowTasks, copy : TaskRow, action : Commands]

RowTypeInv ==
    /\ rowOf \in TaskRows /\ copyOf \in TaskRows
    /\ sent \in Nat
    /\ CallsInv
    /\ attentionRequest # NoRequest => attentionRequest \in Requests
    /\ picker # NoRequest => picker \in Requests

(* The codes, and what they say: only a retry or another place helps those *)
(* that need no restart.                                                   *)
LEMMA CodeTable ==
  /\ Codes = {"none", "timeout", "server_rate_limited", "remote_changed", "resume_unavailable",
              "resume_mismatch", "final_path_conflict", "disk_write_failed", "auth_headers_expired"}
  /\ \A c \in Codes : ToSet(RecoveryActionsForCode[c]) \subseteq
        Navigating \cup {"retry", "retry_later", "restart", "choose_another_name",
                         "choose_another_folder"}
  /\ \A c \in RestartRequiredOfBackEnd :
        ToSet(RecoveryActionsForCode[c]) = {"restart", "open_folder"}
<1>1. Codes = {"none", "timeout", "server_rate_limited", "remote_changed", "resume_unavailable",
               "resume_mismatch", "final_path_conflict", "disk_write_failed", "auth_headers_expired"}
  BY DEF Codes, RecoveryActionsForCode
<1>2. /\ ToSet(RecoveryActionsForCode["none"]) = {}
      /\ ToSet(RecoveryActionsForCode["timeout"]) = {"retry", "check_url"}
      /\ ToSet(RecoveryActionsForCode["server_rate_limited"]) = {"retry_later"}
      /\ ToSet(RecoveryActionsForCode["remote_changed"]) = {"restart", "open_folder"}
      /\ ToSet(RecoveryActionsForCode["resume_unavailable"]) = {"restart", "open_folder"}
      /\ ToSet(RecoveryActionsForCode["resume_mismatch"]) = {"restart", "open_folder"}
      /\ ToSet(RecoveryActionsForCode["final_path_conflict"]) =
            {"choose_another_name", "choose_another_folder", "retry"}
      /\ ToSet(RecoveryActionsForCode["disk_write_failed"]) =
            {"free_disk_space", "choose_another_folder", "retry"}
      /\ ToSet(RecoveryActionsForCode["auth_headers_expired"]) = {"check_url", "restart"}
  BY DEF ToSet, RecoveryActionsForCode
<1>3. QED
  BY <1>1, <1>2 DEF Navigating, RestartRequiredOfBackEnd

(* What is offered for a row is neither guarded nor illegal for that row   *)
(* once nothing runs for its task.                                         *)
LEMMA OfferedIsServed ==
  ASSUME NEW row \in TaskRow, NEW command \in Offers(row)
  PROVE  ~Guarded(row, FALSE, command) /\ ~Illegal(row, command)
<1>1. CASE command \in AllowedTransferActions(row)
  <2>1. row.status # "absent"
    BY <1>1 DEF AllowedTransferActions, ResumeVerdict, Pausable, Stopped, Stuck
  <2>2. row # Deleted
    BY <2>1 DEF Deleted
  <2>3. QED
    BY <1>1, <2>2 DEF AllowedTransferActions, Guarded, Illegal, ResumeVerdict, Pausable, Stopped,
       Stuck, CanTransition, RestartRequiredCodes, RestartRequiredOfBackEnd, Queues, TaskRow
<1>2. ASSUME NEW a \in InlineOffers(row) \ Navigating, command = CommandOf(a)
      PROVE  ~Guarded(row, FALSE, command) /\ ~Illegal(row, command)
  <2>1. row.status \in Stuck /\ row.code \in Codes /\ a \in ToSet(RecoveryActionsForCode[row.code])
    BY <1>2 DEF InlineOffers, HasInlineRecovery, InlineRecoveryActions, RecoveryActionsForTask, TaskRow
  <2>2. a \in {"retry", "retry_later", "restart", "choose_another_name", "choose_another_folder"}
    BY <2>1, <1>2, CodeTable
  <2>3. row.code \in RestartRequiredOfBackEnd => a = "restart"
    BY <2>1, <2>2, CodeTable
  <2>4. "queued" \in CanTransition[row.status] /\ row # Deleted
    BY <2>1 DEF Stuck, CanTransition, Deleted
  <2>5. command \in {"resolve_retry", "retry_later", "restart", "choose_another_name",
                     "choose_another_folder"}
    BY <1>2, <2>2 DEF CommandOf
  <2>6. row.code \in RestartRequiredOfBackEnd => command = "restart"
    BY <1>2, <2>3 DEF CommandOf
  <2>7. ~Guarded(row, FALSE, command)
    BY <2>4, <2>5, <2>6 DEF Guarded
  <2>8. QED
    BY <2>4, <2>5, <2>7 DEF Illegal
<1>3. CASE row.status = "completed" /\ command \in {"redownload", "recheck"}
  BY <1>3 DEF Guarded, Illegal, Deleted, Queues
<1>4. CASE command = "delete"
  BY <1>4 DEF Guarded, Illegal, Queues
<1>5. QED
  BY <1>1, <1>2, <1>3, <1>4 DEF Offers

(* The row after a step of its engine is a row.                            *)
LEMMA RowParts ==
  ASSUME NEW row \in TaskRow
  PROVE  /\ \A s \in RowStates : [row EXCEPT !.status = s] \in TaskRow
         /\ \A s \in RowStates, c \in Codes : [row EXCEPT !.status = s, !.code = c] \in TaskRow
         /\ \A c \in Codes : Fail(row, c) \in TaskRow
         /\ [row EXCEPT !.bytes = TRUE] \in TaskRow /\ [row EXCEPT !.resumes = FALSE] \in TaskRow
         /\ {"none", "timeout", "auth_headers_expired"} \subseteq Codes
         /\ {"queued", "downloading", "paused", "completed", "waiting_network", "failed", "absent"}
              \subseteq RowStates
         /\ Deleted \in TaskRow
<1>1. {"queued", "downloading", "paused", "completed", "waiting_network", "failed", "needs_attention",
       "absent"} \subseteq RowStates
  BY DEF RowStates, Statuses
<1>2. {"none", "timeout", "auth_headers_expired"} \subseteq Codes
  BY CodeTable
<1>3. \A c \in Codes : Fail(row, c) \in TaskRow
  BY <1>1 DEF Fail, TaskRow
<1>4. QED
  BY <1>1, <1>2, <1>3 DEF TaskRow, Deleted

(* What a command leaves of a task is a row.                               *)
LEMMA AfterKeepsRow ==
  ASSUME NEW row \in TaskRow, NEW command
  PROVE  After(row, command) \subseteq TaskRow /\ AfterFailure(row, command) \subseteq TaskRow
<1>1. \A r \in BOOLEAN :
         [status |-> "queued", bytes |-> FALSE, resumes |-> r, code |-> "none"] \in TaskRow
  BY RowParts DEF TaskRow
<1>2. After(row, command) \subseteq TaskRow
  <2>1. /\ Deleted \in TaskRow
        /\ \A s \in {"paused", "queued"} : [row EXCEPT !.status = s, !.code = "none"] \in TaskRow
    BY RowParts
  <2>2. [row EXCEPT !.status = IF command = "pause" THEN "paused" ELSE "queued", !.code = "none"]
          \in TaskRow
    BY <2>1
  <2>3. QED
    BY <1>1, <2>1, <2>2 DEF After
<1>3. AfterFailure(row, command) \subseteq TaskRow
  <2>1. CASE command # "delete" \/ row = Deleted
    BY <2>1 DEF AfterFailure
  <2>2. CASE command = "delete" /\ row # Deleted
    <3>1. [row EXCEPT !.status = "paused", !.code = "none"] \in TaskRow
      BY RowParts
    <3>2. AfterFailure(row, command) \subseteq {[row EXCEPT !.status = "paused", !.code = "none"], row}
      BY <2>2 DEF AfterFailure
    <3>3. QED
      BY <3>1, <3>2
  <2>3. QED
    BY <2>1, <2>2
<1>4. QED
  BY <1>2, <1>3

(* The orders of a set of tasks are sequences of tasks.                    *)
LEMMA OrdersAreSequences ==
  ASSUME NEW S \in SUBSET RowTasks, NEW order \in SetToSeqs(S)
  PROVE  order \in Seq(RowTasks)
<1>1. IsFiniteSet(S)
  BY RowCommandsAssumption, FS_Subset
<1>2. Cardinality(S) \in Nat
  BY <1>1, FS_CardinalityType
<1>3. order \in [1 .. Cardinality(S) -> RowTasks]
  BY DEF SetToSeqs
<1>4. QED
  BY <1>2, <1>3

(* The task of a call that is not finished is a task.                      *)
LEMMA CallsTask ==
  ASSUME NEW c \in CallRecord, Serving(c)
  PROVE  TaskOf(c) \in RowTasks
  BY DEF CallRecord, Serving, TaskOf

(* An answer leaves calls.                                                 *)
LEMMA AnsweredIsCall ==
  ASSUME CallsInv, NEW c \in calls, Serving(c), NEW ok \in BOOLEAN, NEW row \in TaskRow
  PROVE  \A d \in Answered(c, ok, row) : d \in CallRecord /\ d.tasks # << >>
<1>1. c \in CallRecord /\ c.tasks # << >> /\ TaskOf(c) \in RowTasks
  BY CallsTask DEF CallsInv
<1> DEFINE e == [c EXCEPT !.answers = Append(@, [ok |-> ok, row |-> row]),
                          !.phase = FirstPhase(c.origin), !.seen[TaskOf(c)] = row]
<1>2. Append(c.answers, [ok |-> ok, row |-> row]) \in Seq([ok : BOOLEAN, row : TaskRow])
  BY <1>1 DEF CallRecord
<1>3. [c.seen EXCEPT ![TaskOf(c)] = row] \in TaskRows
  BY <1>1 DEF CallRecord, TaskRows
<1>4. FirstPhase(c.origin) \in Phases
  BY DEF FirstPhase, Phases
<1>5. e \in CallRecord /\ e.tasks = c.tasks
  BY <1>1, <1>2, <1>3, <1>4 DEF CallRecord
<1> HIDE DEF e
<1>6. Answered(c, ok, row) = (calls \ {c}) \cup {e}
  BY DEF Answered, e
<1>7. QED
  BY <1>1, <1>5, <1>6 DEF CallsInv

(* What is sent is a call, about rows of their type.                       *)
LEMMA SendKeepsType ==
  ASSUME RowTypeInv, NEW command \in Commands, NEW list \in Seq(RowTasks), NEW seen \in TaskRows,
         NEW origin \in Origins, Send(command, list, seen, origin)
  PROVE  rowOf' \in TaskRows /\ copyOf' \in TaskRows /\ sent' \in Nat /\ CallsInv'
<1>1. Call(command, list, seen, origin) \in CallRecord
      /\ Call(command, list, seen, origin).tasks = list
  BY DEF RowTypeInv, Call, CallRecord, FirstPhase, Phases
<1>2. list # << >> /\ calls' = calls \cup {Call(command, list, seen, origin)}
  BY DEF Send
<1>3. CallsInv'
  BY <1>1, <1>2 DEF RowTypeInv, CallsInv
<1>4. QED
  BY <1>3 DEF RowTypeInv, Send

(* Every step keeps the types.                                             *)
LEMMA RowTypeInvNext == RowTypeInv /\ [RowCommandsNext]_rowCommandVars => RowTypeInv'
<1> SUFFICES ASSUME RowTypeInv, [RowCommandsNext]_rowCommandVars PROVE RowTypeInv'
  OBVIOUS
<1>1. ASSUME NEW t \in RowTasks, NEW row \in TaskRow, NEW state, Moves(t, row, state)
      PROVE  RowTypeInv'
  BY <1>1 DEF RowTypeInv, TaskRows, Moves, CallsInv, windowVars, dialogs
<1>2. ASSUME NEW t \in RowTasks,
             StartTask(t) \/ Progresses(t) \/ Settles(t) \/ ConvergeCanceled(t) \/ RunEnds(t)
      PROVE  RowTypeInv'
  <2>1. rowOf[t] \in TaskRow
    BY DEF RowTypeInv, TaskRows
  <2>2. CASE StartTask(t)
    BY <1>1, <2>1, <2>2, RowParts DEF StartTask
  <2>3. CASE Progresses(t)
    BY <1>1, <2>1, <2>3, RowParts DEF Progresses
  <2>4. CASE Settles(t)
    BY <1>1, <2>1, <2>4, RowParts DEF Settles
  <2>5. CASE ConvergeCanceled(t) \/ RunEnds(t)
    BY <1>1, <2>1, <2>5, RowParts DEF ConvergeCanceled, RunEnds
  <2>6. QED
    BY <1>2, <2>2, <2>3, <2>4, <2>5
<1>3. ASSUME NEW t \in RowTasks, ReceiveRow(t) PROVE RowTypeInv'
  BY <1>3 DEF ReceiveRow, RowTypeInv, TaskRows, CallsInv, dialogs
<1>4. ASSUME NEW t \in RowTasks, NEW command \in Commands, SendOne(command, t), UNCHANGED dialogs
      PROVE  RowTypeInv'
  <2>1. /\ Send(command, <<t>>, copyOf, "row")
        /\ <<t>> \in Seq(RowTasks) /\ copyOf \in TaskRows /\ "row" \in Origins
    BY <1>4 DEF SendOne, RowTypeInv, Origins
  <2>2. rowOf' \in TaskRows /\ copyOf' \in TaskRows /\ sent' \in Nat /\ CallsInv'
    BY <2>1, SendKeepsType
  <2>3. QED
    BY <1>4, <2>2 DEF RowTypeInv, dialogs
<1>5. ASSUME NEW t \in RowTasks, NEW a \in Commands PROVE OpenedOn(t, a) \in Requests
  BY DEF OpenedOn, Requests, RowTypeInv, TaskRows
<1>6. ASSUME NEW t \in RowTasks, NEW a \in Commands, Ask(t, a) PROVE RowTypeInv'
  BY <1>5, <1>6 DEF Ask, OnScreen, RowTypeInv, CallsInv
<1>7. ASSUME NEW t \in RowTasks,
             ToggleTransfer(t) \/ Retry(t) \/ DeleteFiles(t) \/ OfCompleted(t, "redownload")
               \/ OfCompleted(t, "recheck")
      PROVE  RowTypeInv'
  <2>1. CASE ToggleTransfer(t)
    <3>1. PICK a \in AllowedTransferActions(copyOf[t]) \ {"retry"} :
             Ask(t, "pause") \/ (SendOne(a, t) /\ UNCHANGED dialogs)
      BY <2>1 DEF ToggleTransfer
    <3>2. a \in Commands
      BY DEF AllowedTransferActions, Commands, Drains, Queues
    <3>3. QED
      BY <1>4, <1>6, <3>1, <3>2 DEF Commands, Drains
  <2>2. CASE ~ToggleTransfer(t)
    BY <1>4, <1>7, <2>2 DEF Retry, DeleteFiles, OfCompleted, Commands, Drains
  <2>3. QED
    BY <2>1, <2>2
<1>8. ASSUME NEW t \in RowTasks, NEW a, ResolveAttention(t, a) PROVE RowTypeInv'
  <2>1. CASE a \in {"choose_another_name", "restart"} /\ Ask(t, a)
    BY <1>6, <2>1 DEF Commands, Drains, Queues
  <2>2. CASE /\ a = "choose_another_folder" /\ picker' = OpenedOn(t, a)
             /\ OnScreen /\ UNCHANGED attentionRequest
    <3>1. OpenedOn(t, a) \in Requests
      BY <1>5, <2>2 DEF Commands, Queues
    <3>2. QED
      BY <2>2, <3>1 DEF OnScreen, RowTypeInv, CallsInv
  <2>3. CASE a \in {"retry", "retry_later"} /\ SendOne(CommandOf(a), t) /\ UNCHANGED dialogs
    BY <1>4, <2>3 DEF CommandOf, Commands, Queues
  <2>4. QED
    BY <1>8, <2>1, <2>2, <2>3 DEF ResolveAttention
<1>9. ASSUME NEW request \in Requests, NEW yes \in BOOLEAN, Decide(request, yes)
      PROVE  rowOf' \in TaskRows /\ copyOf' \in TaskRows /\ sent' \in Nat /\ CallsInv'
  <2>1. CASE yes
    <3>1. request.task \in RowTasks /\ request.copy \in TaskRow /\ request.action \in Commands
      BY DEF Requests
    <3>2. <<request.task>> \in Seq(RowTasks)
          /\ [copyOf EXCEPT ![request.task] = request.copy] \in TaskRows
      BY <3>1 DEF RowTypeInv, TaskRows
    <3>3. Send(request.action, <<request.task>>, [copyOf EXCEPT ![request.task] = request.copy], "row")
      BY <1>9, <2>1 DEF Decide
    <3>4. QED
      BY <3>1, <3>2, <3>3, SendKeepsType DEF Origins
  <2>2. CASE ~yes
    BY <1>9, <2>2 DEF Decide, OnScreen, RowTypeInv, CallsInv
  <2>3. QED
    BY <2>1, <2>2
<1>10. ASSUME NEW yes \in BOOLEAN, LeaveDialog(yes) \/ LeavePicker(yes) PROVE RowTypeInv'
  <2>1. CASE LeaveDialog(yes)
    BY <1>9, <2>1 DEF LeaveDialog, RowTypeInv
  <2>2. CASE LeavePicker(yes)
    BY <1>9, <2>2 DEF LeavePicker, RowTypeInv
  <2>3. QED
    BY <1>10, <2>1, <2>2
<1>11. ASSUME NEW S \in SUBSET RowTasks, NEW order \in SetToSeqs(S), NEW a \in Commands,
              NEW origin \in Origins, Send(a, order, copyOf, origin), UNCHANGED dialogs
       PROVE  RowTypeInv'
  <2>1. order \in Seq(RowTasks) /\ copyOf \in TaskRows
    BY OrdersAreSequences DEF RowTypeInv
  <2>2. rowOf' \in TaskRows /\ copyOf' \in TaskRows /\ sent' \in Nat /\ CallsInv'
    BY <1>11, <2>1, SendKeepsType
  <2>3. QED
    BY <1>11, <2>2 DEF RowTypeInv, dialogs
<1>12. ASSUME NEW ticked \in SUBSET RowTasks, BulkDeleteFiles(ticked) PROVE RowTypeInv'
  <2> DEFINE S == {t \in ticked : copyOf[t] # Deleted}
  <2>1. S \in SUBSET RowTasks
    OBVIOUS
  <2>2. PICK order \in SetToSeqs(S) : Send("delete", order, copyOf, "bulk")
    BY <1>12 DEF BulkDeleteFiles
  <2>3. UNCHANGED dialogs
    BY <1>12 DEF BulkDeleteFiles
  <2> HIDE DEF S
  <2>4. QED
    BY <1>11, <2>1, <2>2, <2>3 DEF Commands, Drains, Queues, Origins
<1>13. ASSUME NEW ticked \in SUBSET RowTasks, NEW a \in {"pause", "resume", "retry"},
              BulkTransfer(a, ticked)
       PROVE  RowTypeInv'
  <2> DEFINE S == {t \in ticked : /\ a \in AllowedTransferActions(copyOf[t])
                                  /\ ~(a = "pause" /\ PauseWouldDiscardProgress(copyOf[t]))}
  <2>1. S \in SUBSET RowTasks
    OBVIOUS
  <2>2. PICK order \in SetToSeqs(S) : Send(a, order, copyOf, "bulk")
    BY <1>13 DEF BulkTransfer
  <2>3. UNCHANGED dialogs
    BY <1>13 DEF BulkTransfer
  <2> HIDE DEF S
  <2>4. QED
    BY <1>11, <2>1, <2>2, <2>3 DEF Commands, Drains, Queues, Origins
<1>14. ASSUME NEW a \in {"pause", "resume"}, TransferAll(a) PROVE RowTypeInv'
  <2> DEFINE S == {t \in RowTasks : Eligible(rowOf[t], a)}
  <2>1. S \in SUBSET RowTasks
    OBVIOUS
  <2>2. PICK order \in SetToSeqs(S) : Send(a, order, copyOf, "global")
    BY <1>14 DEF TransferAll
  <2>3. UNCHANGED dialogs
    BY <1>14 DEF TransferAll
  <2> HIDE DEF S
  <2>4. QED
    BY <1>11, <2>1, <2>2, <2>3 DEF Commands, Drains, Queues, Origins
<1>15. ASSUME NEW c \in calls, NEW phase \in Phases, NEW seen \in TaskRows,
              calls' = (calls \ {c}) \cup {[c EXCEPT !.phase = phase, !.seen = seen]}
       PROVE  CallsInv'
  <2>1. [c EXCEPT !.phase = phase, !.seen = seen] \in CallRecord
        /\ [c EXCEPT !.phase = phase, !.seen = seen].tasks = c.tasks
    BY DEF RowTypeInv, CallsInv, CallRecord
  <2>2. QED
    BY <1>15, <2>1 DEF RowTypeInv, CallsInv
<1>16. ASSUME NEW c \in calls, Serving(c)
       PROVE  rowOf[TaskOf(c)] \in TaskRow /\ TaskOf(c) \in RowTasks
  BY <1>16, CallsTask DEF RowTypeInv, CallsInv, TaskRows
<1>17. ASSUME NEW c \in calls, CheckListed(c) PROVE RowTypeInv'
  <2>1. Serving(c) /\ UNCHANGED <<rowOf, windowVars>>
    BY <1>17 DEF CheckListed
  <2>2. calls' = (calls \ {c}) \cup {[c EXCEPT !.phase = "asked", !.seen = rowOf]}
        \/ calls' = Answered(c, FALSE, rowOf[TaskOf(c)])
    BY <1>17 DEF CheckListed
  <2>3. CallsInv'
    <3>1. CASE calls' = (calls \ {c}) \cup {[c EXCEPT !.phase = "asked", !.seen = rowOf]}
      BY <1>15, <3>1 DEF RowTypeInv, Phases
    <3>2. CASE calls' = Answered(c, FALSE, rowOf[TaskOf(c)])
      BY <1>16, <2>1, <3>2, AnsweredIsCall DEF RowTypeInv, CallsInv
    <3>3. QED
      BY <2>2, <3>1, <3>2
  <2>4. QED
    BY <2>1, <2>3 DEF RowTypeInv, windowVars, dialogs
<1>18. ASSUME NEW c \in calls, Refuse(c) PROVE RowTypeInv'
  <2>1. Serving(c) /\ UNCHANGED <<rowOf, windowVars>> /\ calls' = Answered(c, FALSE, rowOf[TaskOf(c)])
    BY <1>18 DEF Refuse, HasTurn
  <2>2. CallsInv'
    BY <1>16, <2>1, AnsweredIsCall DEF RowTypeInv, CallsInv
  <2>3. QED
    BY <2>1, <2>2 DEF RowTypeInv, windowVars, dialogs
<1>19. ASSUME NEW c \in calls, StopRun(c) PROVE RowTypeInv'
  <2>1. [c EXCEPT !.phase = "draining"] \in CallRecord
        /\ [c EXCEPT !.phase = "draining"].tasks = c.tasks
    BY DEF RowTypeInv, CallsInv, CallRecord, Phases
  <2>2. calls' = (calls \ {c}) \cup {[c EXCEPT !.phase = "draining"]} /\ UNCHANGED <<rowOf, windowVars>>
    BY <1>19 DEF StopRun
  <2>3. CallsInv'
    BY <2>1, <2>2 DEF RowTypeInv, CallsInv
  <2>4. QED
    BY <2>2, <2>3 DEF RowTypeInv, windowVars, dialogs
<1>20. ASSUME NEW c \in calls, Perform(c) PROVE RowTypeInv'
  <2>1. Serving(c) /\ UNCHANGED windowVars
    BY <1>20 DEF Perform, HasTurn
  <2>2. rowOf[TaskOf(c)] \in TaskRow /\ TaskOf(c) \in RowTasks
    BY <1>16, <2>1
  <2>3. PICK ok \in BOOLEAN, row \in After(rowOf[TaskOf(c)], c.command)
                                     \cup AfterFailure(rowOf[TaskOf(c)], c.command) :
           rowOf' = [rowOf EXCEPT ![TaskOf(c)] = row] /\ calls' = Answered(c, ok, row)
    BY <1>20 DEF Perform
  <2>4. row \in TaskRow
    BY <2>2, <2>3, AfterKeepsRow
  <2>5. CallsInv'
    BY <2>1, <2>3, <2>4, AnsweredIsCall DEF RowTypeInv, CallsInv
  <2>6. QED
    BY <2>1, <2>2, <2>3, <2>4, <2>5 DEF RowTypeInv, TaskRows, windowVars, dialogs
<1>21. ASSUME NEW c \in calls, TakeAnswer(c) PROVE RowTypeInv'
  <2>1. c.answers[1].row \in TaskRow
    <3>1. c.tasks \in Seq(RowTasks) /\ c.tasks # << >>
          /\ c.answers \in Seq([ok : BOOLEAN, row : TaskRow])
      BY DEF RowTypeInv, CallsInv, CallRecord
    <3>2. ~(Len(c.answers) < Len(c.tasks))
      BY <1>21 DEF TakeAnswer, Serving
    <3>3. Len(c.tasks) \in Nat \ {0} /\ Len(c.answers) \in Nat
      BY <3>1
    <3>4. 1 \in 1 .. Len(c.answers)
      BY <3>2, <3>3
    <3>5. c.answers[1] \in [ok : BOOLEAN, row : TaskRow]
      BY <3>1, <3>4, ElementOfSeq
    <3>6. QED
      BY <3>5
  <2>2. \A u \in RowTasks : copyOf'[u] \in {rowOf[u], Deleted, c.answers[1].row, copyOf[u]}
    BY <1>21 DEF TakeAnswer
  <2>3. \A u \in RowTasks : copyOf'[u] \in TaskRow
    BY <2>1, <2>2, RowParts DEF RowTypeInv, TaskRows
  <2>4. copyOf' = [u \in RowTasks |-> copyOf'[u]]
    BY <1>21 DEF TakeAnswer
  <2>5. copyOf' \in TaskRows
    BY <2>3, <2>4 DEF TaskRows
  <2>6. calls' = calls \ {c} /\ UNCHANGED <<rowOf, sent, attentionRequest, picker>>
    BY <1>21 DEF TakeAnswer, dialogs
  <2>7. QED
    BY <2>5, <2>6 DEF RowTypeInv, CallsInv
<1>22. CASE UNCHANGED rowCommandVars
  BY <1>22 DEF rowCommandVars, RowTypeInv, CallsInv, dialogs
<1>23. QED
  BY <1>2, <1>3, <1>7, <1>8, <1>10, <1>12, <1>13, <1>14, <1>17, <1>18, <1>19, <1>20, <1>21, <1>22
     DEF RowCommandsNext

(* Rows, their copies, what waits in a dialog and every call under way     *)
(* speak of a task and of rows with a status and a code of the tables.     *)
THEOREM RowTypeAlways == RowCommandsSpec => []RowTypeInv
<1>1. RowCommandsInit => RowTypeInv
  <2>1. \A r \in BOOLEAN : NewRow(r) \in TaskRow
    BY CodeTable DEF NewRow, TaskRow, RowStates, Statuses
  <2>2. QED
    BY <2>1 DEF RowCommandsInit, RowTypeInv, TaskRows, CallsInv
<1>2. QED
  BY <1>1, RowTypeInvNext, PTL DEF RowCommandsSpec

(* A command that the copy on screen offered is refused only while its run *)
(* stops, or because the row has changed and does not offer it any more.   *)
THEOREM RefusalIsExplainedAlways == RowCommandsSpec => []RefusalIsExplained
<1>1. RowTypeInv => RefusalIsExplained
  <2> SUFFICES ASSUME RowTypeInv, NEW c \in calls, HasTurn(c), Refuses(c),
                      c.command \in Offers(c.seen[TaskOf(c)]), run[TaskOf(c)] # "stopping"
               PROVE  rowOf[TaskOf(c)] # c.seen[TaskOf(c)] /\ c.command \notin Offers(rowOf[TaskOf(c)])
    BY DEF RefusalIsExplained
  <2>1. rowOf[TaskOf(c)] \in TaskRow
    BY CallsTask DEF HasTurn, RowTypeInv, CallsInv, TaskRows
  <2>2. Guarded(rowOf[TaskOf(c)], FALSE, c.command) \/ Illegal(rowOf[TaskOf(c)], c.command)
    BY DEF Refuses, Passes
  <2>3. c.command \notin Offers(rowOf[TaskOf(c)])
    BY <2>1, <2>2, OfferedIsServed
  <2>4. QED
    BY <2>3
<1>2. QED
  BY <1>1, RowTypeAlways, PTL

-------------------------------------------------------------------------------
(* PreviewBackend                                                          *)

TaskRecord == [url : Urls, left : Nat, sized : BOOLEAN, allowed : BOOLEAN,
               status : {"queued", "downloading", "retrying", "paused", "completed", "failed",
                         "needs_attention", "waiting_network"}]
ProbeWait == [url : Urls, startPaused : BOOLEAN, sized : BOOLEAN, allowed : BOOLEAN]

PreviewTypeInv ==
    /\ tasks \in Seq(TaskRecord)
    /\ progressListeners \in Nat
    /\ creating \subseteq ProbeWait
    /\ importing = NoImport \/ importing.rest \in Seq(Urls) \ {<< >>}

PreviewInv == PreviewTypeInv /\ stored = tasks /\ PreviewIsSound

(* No two elements of `ts` have a url that the later was not allowed.      *)
Distinguished(ts) == \A i, j \in 1 .. Len(ts) : i < j /\ ts[i].url = ts[j].url => ts[i].allowed

-------------------------------------------------------------------------------
(* scheduleBrowserQueue starts queued tasks and touches nothing else.      *)
LEMMA ScheduledKeeps ==
  ASSUME NEW ts \in Seq(TaskRecord), NEW slots
  PROVE  LET after == Scheduled(ts, slots)
         IN  /\ after \in Seq(TaskRecord) /\ Len(after) = Len(ts)
             /\ \A i \in 1 .. Len(ts) : /\ after[i].url = ts[i].url /\ after[i].left = ts[i].left
                                        /\ after[i].allowed = ts[i].allowed
                                        /\ i \in Starts(ts, slots) \/ after[i] = ts[i]
             /\ HasActive(after) => HasActive(ts) \/ Starts(ts, slots) # {}
             /\ Distinguished(ts) => Distinguished(after)
<1> DEFINE after == Scheduled(ts, slots)
<1>1. \A i \in 1 .. Len(ts) :
         LET t == [ts[i] EXCEPT !.status = "downloading"]
         IN  t \in TaskRecord /\ t.url = ts[i].url /\ t.left = ts[i].left /\ t.allowed = ts[i].allowed
  <2>1. \A r \in TaskRecord : [r EXCEPT !.status = "downloading"] \in TaskRecord
    BY DEF TaskRecord
  <2>2. \A r \in TaskRecord : LET t == [r EXCEPT !.status = "downloading"]
                               IN  t.url = r.url /\ t.left = r.left /\ t.allowed = r.allowed
    BY DEF TaskRecord
  <2>3. \A i \in 1 .. Len(ts) : ts[i] \in TaskRecord
    OBVIOUS
  <2>4. QED
    BY <2>1, <2>2, <2>3
<1>2. after = [i \in 1 .. Len(ts) |-> IF i \in Starts(ts, slots)
                                      THEN [ts[i] EXCEPT !.status = "downloading"] ELSE ts[i]]
  BY DEF Scheduled, Indices
<1> HIDE DEF after
<1>3. \A i \in 1 .. Len(ts) : /\ after[i] \in TaskRecord
                              /\ after[i].url = ts[i].url /\ after[i].left = ts[i].left
                              /\ after[i].allowed = ts[i].allowed
                              /\ i \in Starts(ts, slots) \/ after[i] = ts[i]
  BY <1>1, <1>2
<1>4. after \in Seq(TaskRecord) /\ Len(after) = Len(ts)
  BY <1>2, <1>3
<1>5. HasActive(after) => HasActive(ts) \/ Starts(ts, slots) # {}
  BY <1>3, <1>4 DEF HasActive, Indices
<1>6. Distinguished(ts) => Distinguished(after)
  BY <1>3, <1>4 DEF Distinguished
<1>7. QED
  BY <1>3, <1>4, <1>5, <1>6 DEF after

(* A command that leaves the array `ts`, in which nothing new is active.   *)
LEMMA ScheduleStep ==
  ASSUME PreviewInv, NEW ts \in Seq(TaskRecord), NEW slots, Distinguished(ts),
         HasActive(ts) => HasActive(tasks), ScheduleBrowserQueue(ts, slots),
         progressListeners' = progressListeners, creating' \subseteq ProbeWait,
         importing' = NoImport \/ importing'.rest \in Seq(Urls) \ {<< >>}
  PROVE  PreviewInv'
<1> USE DEF PreviewInv, PreviewIsSound
<1>1. /\ tasks' = Scheduled(ts, slots) /\ stored' = tasks'
      /\ progressTimer' = (progressTimer \/ Starts(ts, slots) # {})
  BY DEF ScheduleBrowserQueue
<1>2. /\ tasks' \in Seq(TaskRecord) /\ Distinguished(tasks')
      /\ HasActive(tasks') => HasActive(tasks) \/ Starts(ts, slots) # {}
  BY <1>1, ScheduledKeeps
<1>3. ActiveIsDriven'
  BY <1>1, <1>2 DEF ActiveIsDriven
<1>4. DuplicatesAreAllowed'
  BY <1>2 DEF DuplicatesAreAllowed, Distinguished, Indices
<1>5. PreviewTypeInv'
  BY <1>2 DEF PreviewTypeInv
<1>6. QED
  BY <1>1, <1>3, <1>4, <1>5

(* The array of before with some of its tasks changed.                     *)
LEMMA ChangedTasks ==
  ASSUME PreviewInv, NEW ts \in Seq(TaskRecord), Len(ts) = Len(tasks),
         \A i \in 1 .. Len(tasks) : ts[i].url = tasks[i].url /\ ts[i].allowed = tasks[i].allowed
  PROVE  Distinguished(ts)
BY DEF PreviewInv, PreviewIsSound, DuplicatesAreAllowed, Distinguished, Indices

(* The first tasks of the preview have their urls on purpose.              *)
LEMMA SeedTasksKeep == /\ SeedTasks \in Seq(TaskRecord) /\ Distinguished(SeedTasks)
<1> DEFINE u == CHOOSE x \in Urls : TRUE
           first == Task(u, "downloading", FullSize, TRUE, TRUE)
           second == Task(u, "failed", 1, TRUE, TRUE)
<1>1. u \in Urls /\ FullSize \in Nat
  BY PreviewAssumption
<1>2. first \in TaskRecord /\ second \in TaskRecord /\ first.allowed
  BY <1>1 DEF Task, TaskRecord
<1>3. SeedTasks = <<first, second>>
  BY DEF SeedTasks
<1> HIDE DEF first, second
<1>4. QED
  BY <1>2, <1>3 DEF Distinguished

(* A task that is created is new to the list, or was allowed to be there   *)
(* twice.                                                                  *)
LEMMA CreatedKeeps ==
  ASSUME PreviewInv, NEW call \in ProbeWait, call.allowed \/ ~Duplicate(call.url)
  PROVE  /\ Created(call) \in Seq(TaskRecord) /\ Distinguished(Created(call))
         /\ HasActive(Created(call)) => HasActive(tasks)
<1> USE DEF PreviewInv
<1>1. tasks \in Seq(TaskRecord) /\ FullSize \in Nat
  BY PreviewAssumption DEF PreviewTypeInv
<1>2. PICK new \in TaskRecord : /\ Created(call) = <<new>> \o tasks
                               /\ new.url = call.url /\ new.allowed = call.allowed
                               /\ new.status \in {"queued", "paused"}
  <2> DEFINE status == IF call.startPaused THEN "paused" ELSE "queued"
             left == IF call.sized THEN FullSize ELSE 0
             new == [url |-> call.url, status |-> status, left |-> left, sized |-> call.sized,
                     allowed |-> call.allowed]
  <2>1. status \in {"queued", "paused"} /\ left \in Nat
    BY <1>1
  <2>2. call.url \in Urls /\ call.sized \in BOOLEAN /\ call.allowed \in BOOLEAN
    BY DEF ProbeWait
  <2>3. Created(call) = <<new>> \o tasks
    BY DEF Created, Task
  <2> HIDE DEF status, left
  <2>4. new \in TaskRecord
    BY <2>1, <2>2 DEF TaskRecord
  <2>5. QED
    BY <2>1, <2>3, <2>4
<1>3. /\ Created(call) \in Seq(TaskRecord) /\ Len(Created(call)) = Len(tasks) + 1
      /\ Created(call)[1] = new
      /\ \A i \in 2 .. Len(tasks) + 1 : Created(call)[i] = tasks[i - 1] /\ i - 1 \in 1 .. Len(tasks)
  BY <1>1, <1>2
<1>4. HasActive(Created(call)) => HasActive(tasks)
  <2> SUFFICES ASSUME NEW i \in 1 .. Len(tasks) + 1, Created(call)[i].status \in Active,
                      Created(call)[i].left > 0
               PROVE  HasActive(tasks)
    BY <1>3 DEF HasActive, Indices
  <2>1. i # 1
    BY <1>2, <1>3 DEF Active
  <2>2. i \in 2 .. Len(tasks) + 1
    BY <1>1, <2>1
  <2>3. QED
    BY <1>3, <2>2 DEF HasActive, Indices
<1>5. Distinguished(Created(call))
  <2> SUFFICES ASSUME NEW i \in 1 .. Len(tasks) + 1, NEW j \in 1 .. Len(tasks) + 1, i < j,
                      Created(call)[i].url = Created(call)[j].url
               PROVE  Created(call)[i].allowed
    BY <1>3 DEF Distinguished
  <2>1. j \in 2 .. Len(tasks) + 1
    BY <1>1
  <2>2. Created(call)[j] = tasks[j - 1] /\ j - 1 \in 1 .. Len(tasks)
    BY <1>3, <2>1
  <2>3. CASE i = 1
    <3>1. Duplicate(call.url)
      BY <1>2, <1>3, <2>2, <2>3 DEF Duplicate, Indices
    <3>2. QED
      BY <1>2, <1>3, <2>3, <3>1
  <2>4. CASE i # 1
    <3>1. i \in 2 .. Len(tasks) + 1
      BY <1>1, <2>4
    <3>2. Created(call)[i] = tasks[i - 1] /\ i - 1 \in 1 .. Len(tasks) /\ i - 1 < j - 1
      BY <1>1, <1>3, <3>1
    <3>3. QED
      BY <2>2, <3>2 DEF PreviewIsSound, DuplicatesAreAllowed, Indices
  <2>5. QED
    BY <2>3, <2>4
<1>6. QED
  BY <1>3, <1>4, <1>5

-------------------------------------------------------------------------------
(* A probe is asked for.                                                   *)
LEMMA CreateTaskKeeps ==
  ASSUME PreviewInv, NEW call \in ProbeWait, CreateTask(call)
  PROVE  PreviewInv'
<1>1. /\ creating' = creating \cup {call}
      /\ UNCHANGED <<tasks, stored, progressTimer, progressListeners, importing>>
  BY DEF CreateTask
<1>2. QED
  BY <1>1 DEF PreviewInv, PreviewTypeInv, PreviewIsSound, ActiveIsDriven, DuplicatesAreAllowed, Indices

(* The progress timer.                                                     *)
LEMMA TickKeeps ==
  ASSUME PreviewInv, Tick
  PROVE  PreviewInv'
<1> USE DEF PreviewInv
<1> DEFINE ts == [i \in 1 .. Len(tasks) |-> Advanced(tasks[i])]
<1>1. tasks \in Seq(TaskRecord) /\ UNCHANGED <<progressListeners, creating, importing>> /\ progressTimer
  BY DEF Tick, PreviewTypeInv
<1>2. CASE ScheduleBrowserQueue(ts, maxActiveTasks)
  <2>1. \A r \in TaskRecord : /\ Advanced(r) \in TaskRecord
                              /\ Advanced(r).url = r.url /\ Advanced(r).allowed = r.allowed
    <3> SUFFICES ASSUME NEW r \in TaskRecord
                 PROVE  /\ Advanced(r) \in TaskRecord
                        /\ Advanced(r).url = r.url /\ Advanced(r).allowed = r.allowed
      OBVIOUS
    <3>1. /\ [r EXCEPT !.left = 0, !.status = "completed"] \in TaskRecord
          /\ [r EXCEPT !.left = 0, !.status = "completed"].url = r.url
          /\ [r EXCEPT !.left = 0, !.status = "completed"].allowed = r.allowed
      BY DEF TaskRecord
    <3>2. r.left > 1 => /\ [r EXCEPT !.left = r.left - 1] \in TaskRecord
                        /\ [r EXCEPT !.left = r.left - 1].url = r.url
                        /\ [r EXCEPT !.left = r.left - 1].allowed = r.allowed
      BY DEF TaskRecord
    <3>3. r.left \in Nat
      BY DEF TaskRecord
    <3>4. QED
      BY <3>1, <3>2, <3>3 DEF Advanced
  <2>2. /\ ts \in Seq(TaskRecord) /\ Len(ts) = Len(tasks)
        /\ \A i \in 1 .. Len(tasks) : ts[i].url = tasks[i].url /\ ts[i].allowed = tasks[i].allowed
    BY <1>1, <2>1
  <2> HIDE DEF ts
  <2>3. Distinguished(ts)
    BY <2>2, ChangedTasks
  <2>4. tasks' \in Seq(TaskRecord) /\ Distinguished(tasks') /\ stored' = tasks' /\ progressTimer'
    BY <1>1, <1>2, <2>2, <2>3, ScheduledKeeps DEF ScheduleBrowserQueue
  <2>5. QED
    BY <1>1, <2>4 DEF PreviewTypeInv, PreviewIsSound, ActiveIsDriven, DuplicatesAreAllowed,
       Distinguished, Indices
<1>3. CASE UNCHANGED <<tasks, stored, progressTimer>>
  BY <1>1, <1>3 DEF PreviewTypeInv, PreviewIsSound, ActiveIsDriven, DuplicatesAreAllowed, Indices
<1>4. QED
  BY <1>2, <1>3 DEF Tick, Indices

(* Lists, subscriptions and the reload of the page.                        *)
LEMMA ListsKeep ==
  ASSUME PreviewInv, ListTasks \/ ListenProgress \/ UnlistenProgress \/ SeedMockTasks \/ Reload
  PROVE  PreviewInv'
<1> USE DEF PreviewInv
<1>1. Distinguished(tasks) /\ tasks \in Seq(TaskRecord)
  BY DEF PreviewIsSound, DuplicatesAreAllowed, Distinguished, PreviewTypeInv, Indices
<1>2. CASE progressTimer' /\ UNCHANGED <<creating, importing>>
           /\ tasks' \in {tasks, SeedTasks, Scheduled(SeedTasks, maxActiveTasks)} /\ stored' = tasks'
           /\ progressListeners' \in Nat
  <2>1. tasks' \in Seq(TaskRecord) /\ Distinguished(tasks')
    BY <1>1, <1>2, SeedTasksKeep, ScheduledKeeps
  <2>2. QED
    BY <1>2, <2>1 DEF PreviewTypeInv, PreviewIsSound, ActiveIsDriven, DuplicatesAreAllowed,
       Distinguished, Indices
<1>3. CASE UnlistenProgress
  <2>1. /\ UNCHANGED <<tasks, stored, creating, importing>>
        /\ HasActive(tasks) /\ progressTimer => progressTimer'
    BY <1>3 DEF UnlistenProgress
  <2>2. progressListeners' \in Nat
    <3>1. progressListeners \in Nat /\ progressListeners > 0 /\ progressListeners' = progressListeners - 1
      BY <1>3 DEF UnlistenProgress, PreviewTypeInv
    <3>2. QED
      BY <3>1
  <2>3. ActiveIsDriven'
    <3>1. progressListeners > 0
      BY <1>3 DEF UnlistenProgress
    <3>2. HasActive(tasks)' => HasActive(tasks)
      BY <2>1 DEF HasActive, Indices
    <3>3. HasActive(tasks) => progressTimer
      BY <3>1, Zenon DEF PreviewIsSound, ActiveIsDriven
    <3>4. QED
      BY <2>1, <3>2, <3>3, Zenon DEF ActiveIsDriven
  <2>4. QED
    BY <2>1, <2>2, <2>3 DEF PreviewTypeInv, PreviewIsSound, DuplicatesAreAllowed, Indices
<1>4. CASE Reload
  <2>1. /\ importing' = NoImport /\ creating' = {} /\ progressListeners' = 0
        /\ tasks' = tasks /\ stored' = tasks'
    BY <1>4 DEF Reload
  <2>2. QED
    BY <1>1, <2>1 DEF PreviewTypeInv, PreviewIsSound, ActiveIsDriven, DuplicatesAreAllowed, Indices
<1>5. QED
  <2>1. progressListeners \in Nat
    BY DEF PreviewTypeInv
  <2>2. CASE ListTasks
    BY <1>2, <2>1, <2>2 DEF ListTasks
  <2>3. CASE ListenProgress
    BY <1>2, <2>1, <2>3 DEF ListenProgress
  <2>4. CASE SeedMockTasks
    BY <1>2, <2>1, <2>4 DEF SeedMockTasks, CommandRest
  <2>5. QED
    BY <1>3, <1>4, <2>2, <2>3, <2>4

(* Commands that change one task and then look at the queue.               *)
LEMMA WithKeeps ==
  ASSUME PreviewInv, NEW i \in 1 .. Len(tasks), NEW r \in TaskRecord,
         r.url = tasks[i].url, r.allowed = tasks[i].allowed, r.status \notin Active
  PROVE  /\ With(i, r) \in Seq(TaskRecord) /\ Distinguished(With(i, r))
         /\ HasActive(With(i, r)) => HasActive(tasks)
<1>1. tasks \in Seq(TaskRecord)
  BY DEF PreviewInv, PreviewTypeInv
<1>2. /\ With(i, r) \in Seq(TaskRecord) /\ Len(With(i, r)) = Len(tasks)
      /\ \A k \in 1 .. Len(tasks) : With(i, r)[k] = IF k = i THEN r ELSE tasks[k]
  BY <1>1 DEF With
<1>3. Distinguished(With(i, r))
  BY <1>2, ChangedTasks
<1>4. HasActive(With(i, r)) => HasActive(tasks)
  BY <1>2 DEF HasActive, Indices
<1>5. QED
  BY <1>2, <1>3, <1>4

(* Pause, resume, retry, delete and download again.                        *)
LEMMA CommandsKeep ==
  ASSUME PreviewInv, NEW i \in 1 .. Len(tasks),
         PauseTask(i) \/ (\E restart \in BOOLEAN : Requeue(i, restart)) \/ DeleteFromArray(i)
         \/ RedownloadTask(i)
  PROVE  PreviewInv'
<1>1. /\ tasks \in Seq(TaskRecord) /\ tasks[i] \in TaskRecord /\ FullSize \in Nat
      /\ importing = NoImport \/ importing.rest \in Seq(Urls) \ {<< >>}
      /\ creating \subseteq ProbeWait /\ progressListeners \in Nat /\ stored = tasks
      /\ Distinguished(tasks) /\ ActiveIsDriven
  BY PreviewAssumption DEF PreviewInv, PreviewTypeInv, PreviewIsSound, DuplicatesAreAllowed,
     Distinguished, Indices
<1>2. ASSUME NEW r \in TaskRecord, r.url = tasks[i].url, r.allowed = tasks[i].allowed,
             r.status \notin Active, ScheduleBrowserQueue(With(i, r), maxActiveTasks), CommandRest
      PROVE  PreviewInv'
  <2>1. UNCHANGED <<progressListeners, creating, importing>>
    BY <1>2 DEF CommandRest
  <2>2. /\ With(i, r) \in Seq(TaskRecord) /\ Distinguished(With(i, r))
        /\ HasActive(With(i, r)) => HasActive(tasks)
    BY <1>2, WithKeeps
  <2>3. QED
    BY <1>1, <1>2, <2>1, <2>2, ScheduleStep
<1>3. CASE PauseTask(i)
  <2> DEFINE r == [tasks[i] EXCEPT !.status = "paused"]
  <2>1. r \in TaskRecord /\ r.url = tasks[i].url /\ r.allowed = tasks[i].allowed /\ r.status = "paused"
    BY <1>1 DEF TaskRecord
  <2>2. ScheduleBrowserQueue(With(i, r), maxActiveTasks) /\ CommandRest
    BY <1>3 DEF PauseTask
  <2> HIDE DEF r
  <2>3. QED
    BY <1>2, <2>1, <2>2 DEF Active
<1>4. ASSUME NEW restart \in BOOLEAN, Requeue(i, restart) PROVE PreviewInv'
  <2> DEFINE left == IF restart /\ tasks[i].sized THEN FullSize ELSE tasks[i].left
             r == [tasks[i] EXCEPT !.status = "queued", !.left = left]
  <2>1. left \in Nat
    BY <1>1 DEF TaskRecord
  <2>2. ScheduleBrowserQueue(With(i, r), maxActiveTasks) /\ CommandRest
    BY <1>4 DEF Requeue
  <2> HIDE DEF left
  <2>3. r \in TaskRecord /\ r.url = tasks[i].url /\ r.allowed = tasks[i].allowed /\ r.status = "queued"
    BY <1>1, <2>1 DEF TaskRecord
  <2> HIDE DEF r
  <2>4. QED
    BY <1>2, <2>2, <2>3 DEF Active
<1>5. CASE DeleteFromArray(i)
  <2> DEFINE rest == RemoveAt(tasks, i)
  <2>1. /\ rest \in Seq(TaskRecord) /\ Len(rest) = Len(tasks) - 1
        /\ \A k \in 1 .. Len(rest) : rest[k] = IF k < i THEN tasks[k] ELSE tasks[k + 1]
    BY <1>1, RemoveAtElements
  <2>2. /\ tasks' = Scheduled(rest, maxActiveTasks) /\ stored' = tasks'
        /\ progressTimer' = ((progressTimer \/ Starts(rest, maxActiveTasks) # {}) /\ HasActive(tasks'))
        /\ UNCHANGED <<progressListeners, creating, importing>>
    BY <1>5 DEF DeleteFromArray, CommandRest
  <2> HIDE DEF rest
  <2>3. Len(tasks) \in Nat /\ i \in Nat
    BY <1>1
  <2>4. Distinguished(rest)
    <3> SUFFICES ASSUME NEW j \in 1 .. Len(rest), NEW k \in 1 .. Len(rest), j < k,
                        rest[j].url = rest[k].url
                 PROVE  rest[j].allowed
      BY DEF Distinguished
    <3> DEFINE place(n) == IF n < i THEN n ELSE n + 1
    <3>1. ASSUME NEW n \in 1 .. Len(rest) PROVE place(n) \in 1 .. Len(tasks) /\ rest[n] = tasks[place(n)]
      <4>1. CASE n < i
        <5>1. n \in 1 .. Len(tasks) /\ rest[n] = tasks[n]
          BY <2>1, <2>3, <4>1
        <5>2. QED
          BY <4>1, <5>1
      <4>2. CASE ~(n < i)
        <5>1. n + 1 \in 1 .. Len(tasks) /\ rest[n] = tasks[n + 1]
          BY <2>1, <2>3, <4>2
        <5>2. QED
          BY <4>2, <5>1
      <4>3. QED
        BY <4>1, <4>2
    <3>2. PICK l \in 1 .. Len(tasks) : l = place(j) /\ rest[j] = tasks[l]
      BY <3>1
    <3>3. PICK m \in 1 .. Len(tasks) : m = place(k) /\ rest[k] = tasks[m]
      BY <3>1
    <3>4. l < m
      BY <2>1, <2>3, <3>2, <3>3
    <3>5. QED
      BY <1>1, <3>2, <3>3, <3>4 DEF Distinguished
  <2>5. HasActive(rest) => HasActive(tasks)
    <3> SUFFICES ASSUME NEW k \in 1 .. Len(rest), rest[k].status \in Active, rest[k].left > 0
                 PROVE  HasActive(tasks)
      BY DEF HasActive, Indices
    <3>1. PICK l \in 1 .. Len(tasks) : rest[k] = tasks[l]
      <4>1. CASE k < i
        BY <2>1, <2>3, <4>1
      <4>2. CASE ~(k < i)
        <5>1. k + 1 \in 1 .. Len(tasks) /\ rest[k] = tasks[k + 1]
          BY <2>1, <2>3, <4>2
        <5>2. QED
          BY <5>1
      <4>3. QED
        BY <4>1, <4>2
    <3>2. QED
      BY <3>1 DEF HasActive, Indices
  <2>6. /\ tasks' \in Seq(TaskRecord) /\ Distinguished(tasks')
        /\ HasActive(tasks') => HasActive(tasks) \/ Starts(rest, maxActiveTasks) # {}
    BY <2>1, <2>2, <2>4, <2>5, ScheduledKeeps
  <2>7. ActiveIsDriven'
    BY <1>1, <2>2, <2>6 DEF ActiveIsDriven
  <2>8. QED
    BY <1>1, <2>2, <2>6, <2>7 DEF PreviewInv, PreviewTypeInv, PreviewIsSound, DuplicatesAreAllowed,
       Distinguished, Indices
<1>6. CASE RedownloadTask(i)
  <2>1. PICK call \in ProbeWait : CreateTask(call)
    <3>1. CreateCall(tasks[i].url, FALSE, tasks[i].sized, TRUE) \in ProbeWait
      BY <1>1 DEF CreateCall, ProbeWait, TaskRecord
    <3>2. QED
      BY <1>6, <3>1 DEF RedownloadTask
  <2>2. QED
    BY <2>1, CreateTaskKeeps
<1>7. QED
  BY <1>3, <1>4, <1>5, <1>6

(* Resolving the attention of many tasks in one call.                      *)
LEMMA BulkKeeps ==
  ASSUME PreviewInv, NEW ids, BulkResolveAttention(ids)
  PROVE  PreviewInv'
<1>1. /\ tasks \in Seq(TaskRecord) /\ ActiveIsDriven
      /\ UNCHANGED <<progressTimer, progressListeners, creating, importing>> /\ stored' = tasks'
  BY DEF PreviewInv, PreviewTypeInv, PreviewIsSound, BulkResolveAttention, CommandRest
<1>2. \A r \in TaskRecord : [r EXCEPT !.status = "queued"] \in TaskRecord
  BY DEF TaskRecord
<1>3. \A r \in TaskRecord : LET t == [r EXCEPT !.status = "queued"]
                           IN  t.url = r.url /\ t.allowed = r.allowed /\ t.status = "queued"
  BY DEF TaskRecord
<1>4. PICK taken \in SUBSET ids :
         tasks' = [i \in 1 .. Len(tasks) |-> IF i \in taken THEN [tasks[i] EXCEPT !.status = "queued"]
                                             ELSE tasks[i]]
  BY DEF BulkResolveAttention, Indices
<1>5. tasks' \in Seq(TaskRecord) /\ Len(tasks') = Len(tasks)
  BY <1>1, <1>2, <1>4
<1>6. \A i \in 1 .. Len(tasks) : /\ tasks'[i].url = tasks[i].url
                                 /\ tasks'[i].allowed = tasks[i].allowed
                                 /\ tasks'[i] = tasks[i] \/ tasks'[i].status = "queued"
  BY <1>1, <1>3, <1>4
<1>7. PICK ts : ts = tasks'
  OBVIOUS
<1>8. Distinguished(ts)
  BY <1>5, <1>6, <1>7, ChangedTasks
<1>9. HasActive(ts) => HasActive(tasks)
  BY <1>5, <1>6, <1>7 DEF HasActive, Indices, Active
<1>10. ActiveIsDriven'
  BY <1>1, <1>7, <1>9 DEF ActiveIsDriven
<1>11. DuplicatesAreAllowed'
  BY <1>7, <1>8 DEF DuplicatesAreAllowed, Distinguished, Indices
<1>12. QED
  BY <1>1, <1>5, <1>10, <1>11 DEF PreviewInv, PreviewTypeInv, PreviewIsSound

(* A new number of slots looks at the queue again.                         *)
LEMMA SettingsKeep ==
  ASSUME PreviewInv, NEW n, UpdateSettings(n)
  PROVE  PreviewInv'
<1>1. /\ tasks \in Seq(TaskRecord) /\ Distinguished(tasks)
      /\ importing = NoImport \/ importing.rest \in Seq(Urls) \ {<< >>}
      /\ creating \subseteq ProbeWait
  BY DEF PreviewInv, PreviewTypeInv, PreviewIsSound, DuplicatesAreAllowed, Distinguished, Indices
<1>2. PICK slots : slots = maxActiveTasks'
  OBVIOUS
<1>3. ScheduleBrowserQueue(tasks, slots) /\ UNCHANGED <<progressListeners, creating, importing>>
  BY <1>2 DEF UpdateSettings
<1>4. QED
  BY <1>1, <1>3, ScheduleStep

(* The probe of a new task is answered.                                    *)
LEMMA CreateAnsweredKeeps ==
  ASSUME PreviewInv, NEW call \in creating, NEW ok \in BOOLEAN, CreateAnswered(call, ok)
  PROVE  PreviewInv'
<1>1. /\ importing = NoImport \/ importing.rest \in Seq(Urls) \ {<< >>}
      /\ creating \subseteq ProbeWait /\ call \in ProbeWait
  BY DEF PreviewInv, PreviewTypeInv
<1>2. creating' = creating \ {call} /\ UNCHANGED <<progressListeners, importing>>
  BY DEF CreateAnswered
<1>3. CASE ok /\ (call.allowed \/ ~Duplicate(call.url))
  <2>1. ScheduleBrowserQueue(Created(call), maxActiveTasks)
    BY <1>3 DEF CreateAnswered
  <2>2. /\ Created(call) \in Seq(TaskRecord) /\ Distinguished(Created(call))
        /\ HasActive(Created(call)) => HasActive(tasks)
    BY <1>1, <1>3, CreatedKeeps
  <2>3. QED
    BY <1>1, <1>2, <2>1, <2>2, ScheduleStep
<1>4. CASE ~(ok /\ (call.allowed \/ ~Duplicate(call.url)))
  <2>1. UNCHANGED <<tasks, stored, progressTimer>>
    BY <1>4 DEF CreateAnswered
  <2>2. QED
    BY <1>1, <1>2, <2>1 DEF PreviewInv, PreviewTypeInv, PreviewIsSound, ActiveIsDriven,
       DuplicatesAreAllowed, Indices
<1>5. QED
  BY <1>3, <1>4

(* One line after the other.                                               *)
LEMMA ImportKeeps ==
  ASSUME PreviewInv,
         (\E u, v \in Urls : ImportUrls(<<u, v>>)) \/ \E ok \in BOOLEAN : ImportLine(ok)
  PROVE  PreviewInv'
<1>1. importing = NoImport \/ importing.rest \in Seq(Urls) \ {<< >>}
  BY DEF PreviewInv, PreviewTypeInv
<1>2. ASSUME NEW u \in Urls, NEW v \in Urls, ImportUrls(<<u, v>>) PROVE PreviewInv'
  <2>1. importing'.rest = <<u, v>>
    BY <1>2 DEF ImportUrls
  <2>2. <<u, v>> \in Seq(Urls) \ {<< >>}
    OBVIOUS
  <2>3. UNCHANGED <<tasks, stored, progressTimer, progressListeners, creating>>
    BY <1>2 DEF ImportUrls
  <2>4. QED
    BY <2>1, <2>2, <2>3 DEF PreviewInv, PreviewTypeInv, PreviewIsSound, ActiveIsDriven,
       DuplicatesAreAllowed, Indices
<1>3. ASSUME NEW ok \in BOOLEAN, ImportLine(ok) PROVE PreviewInv'
  <2>1. PICK rest, url : rest \in Seq(Urls) \ {<< >>} /\ importing.rest = rest /\ url = Head(rest)
    BY <1>1, <1>3 DEF ImportLine
  <2>2. /\ url \in Urls
        /\ Len(rest) # 1 => Tail(rest) \in Seq(Urls) \ {<< >>}
    <3>1. rest \in Seq(Urls) /\ rest # << >> /\ Len(rest) \in Nat /\ Len(rest) # 0
      BY <2>1
    <3>2. Head(rest) \in Urls /\ Tail(rest) \in Seq(Urls) /\ Len(Tail(rest)) = Len(rest) - 1
      BY <3>1, HeadTailProperties
    <3>3. Len(rest) # 1 => Len(Tail(rest)) # 0
      BY <3>1, <3>2
    <3>4. QED
      BY <2>1, <3>2, <3>3
  <2>3. importing' = NoImport \/ importing'.rest \in Seq(Urls) \ {<< >>}
    BY <1>3, <2>1, <2>2 DEF ImportLine
  <2>4. UNCHANGED <<progressListeners, creating>> /\ creating \subseteq ProbeWait
    BY <1>3 DEF ImportLine, PreviewInv, PreviewTypeInv
  <2>5. CASE UNCHANGED <<tasks, stored, progressTimer>>
    BY <2>3, <2>4, <2>5 DEF PreviewInv, PreviewTypeInv, PreviewIsSound, ActiveIsDriven,
       DuplicatesAreAllowed, Indices
  <2>6. CASE ~Duplicate(url)
             /\ ScheduleBrowserQueue(Created(CreateCall(url, FALSE, TRUE, FALSE)), maxActiveTasks)
    <3>1. PICK call \in ProbeWait : call = CreateCall(url, FALSE, TRUE, FALSE) /\ call.url = url
      <4>1. /\ CreateCall(url, FALSE, TRUE, FALSE).url = url
            /\ CreateCall(url, FALSE, TRUE, FALSE) \in ProbeWait
        BY <2>2, Zenon DEF CreateCall, ProbeWait
      <4>2. QED
        BY <4>1
    <3>2. ScheduleBrowserQueue(Created(call), maxActiveTasks)
      BY <2>6, <3>1
    <3>3. /\ Created(call) \in Seq(TaskRecord) /\ Distinguished(Created(call))
          /\ HasActive(Created(call)) => HasActive(tasks)
      BY <2>6, <3>1, CreatedKeeps
    <3>4. QED
      BY <2>3, <2>4, <3>2, <3>3, ScheduleStep
  <2>7. QED
    BY <1>3, <2>1, <2>5, <2>6 DEF ImportLine
<1>4. QED
  BY <1>2, <1>3

(* The page opens with the first tasks.                                    *)
LEMMA PreviewInvInit == PreviewInit => PreviewInv
<1> SUFFICES ASSUME PreviewInit PROVE PreviewInv
  OBVIOUS
<1>1. /\ tasks \in Seq(TaskRecord) /\ Distinguished(tasks) /\ stored = tasks
      /\ progressListeners = 0 /\ creating = {} /\ importing = NoImport
  BY SeedTasksKeep DEF PreviewInit
<1>2. QED
  BY <1>1 DEF PreviewInv, PreviewTypeInv, PreviewIsSound, ActiveIsDriven, DuplicatesAreAllowed,
     Distinguished, Indices

(* Every command and every tick keeps the invariant.                       *)
LEMMA PreviewInvNext == PreviewInv /\ [PreviewNext]_previewVars => PreviewInv'
<1> SUFFICES ASSUME PreviewInv, [PreviewNext]_previewVars PROVE PreviewInv'
  OBVIOUS
<1>1. CASE UNCHANGED previewVars
  BY <1>1 DEF previewVars, PreviewInv, PreviewTypeInv, PreviewIsSound, ActiveIsDriven,
     DuplicatesAreAllowed, Indices, HasActive
<1>2. ASSUME NEW url \in Urls, NEW startPaused \in BOOLEAN, NEW sized \in BOOLEAN, NEW allow \in BOOLEAN,
             CreateTask(CreateCall(url, startPaused, sized, allow))
      PROVE  PreviewInv'
  <2>1. CreateCall(url, startPaused, sized, allow) \in ProbeWait
    BY DEF CreateCall, ProbeWait
  <2>2. QED
    BY <1>2, <2>1, CreateTaskKeeps
<1>3. QED
  BY <1>1, <1>2, TickKeeps, ListsKeep, CommandsKeep, BulkKeeps, SettingsKeep, CreateAnsweredKeeps,
     ImportKeeps DEF PreviewNext, Indices

(* The invariant that the soundness of the preview follows from.           *)
THEOREM PreviewInvAlways == PreviewSpec => []PreviewInv
BY PreviewInvInit, PreviewInvNext, PTL DEF PreviewSpec

(* Active downloads are driven while the window listens, what is mirrored  *)
(* is what is shown, and no duplicate slips in between two awaits.         *)
THEOREM PreviewIsSoundAlways == PreviewSpec => []PreviewIsSound
<1>1. PreviewInv => PreviewIsSound
  BY DEF PreviewInv
<1>2. QED
  BY <1>1, PreviewInvAlways, PTL

-------------------------------------------------------------------------------
(* ListQuery                                                               *)

USE DEF flightVars, selectVars

(* What a query that was sent carries.                                     *)
Request == [from : Senders, epoch : Nat, query : Query, page : Pages]
Chain == [on : {TRUE}, epoch : Nat, query : Query, ids : SUBSET (Query \X Pages), page : Pages]

TypeInv ==
    /\ listQueryEpoch \in Nat /\ shownEpoch \in Nat
    /\ nav \in Navs /\ search \in Searches
    /\ requests \subseteq Request
    /\ view \in Seq(Query \X Pages)
    /\ nextCursor \in 0 .. (LastPage - 1)
    /\ chain \in Chain \cup {NoChain}

(* No query is from the future, and the epoch of the chain is its own: no  *)
(* replacing query has it.                                                 *)
EpochInv ==
    /\ \A r \in requests : r.epoch <= listQueryEpoch
    /\ chain.on => /\ chain.epoch <= listQueryEpoch
                   /\ \A r \in requests : r.from # "append" => r.epoch # chain.epoch

(* An append that is not stale asks for the query on screen.               *)
AppendInv ==
    \A r \in requests : r.from = "append" /\ r.epoch = listQueryEpoch => r.query = <<nav, search>>

(* While the chain is not stale, what it lacks of the screen are pages     *)
(* that it has still to load; so are the pages that appends ask for.       *)
ChainPages == {<<chain.query, p>> : p \in chain.page .. LastPage}
Current == chain.on /\ chain.epoch = listQueryEpoch
ChainInv ==
    Current =>
        /\ chain.query = <<nav, search>>
        /\ chain.ids \subseteq Rows(view)
        /\ Rows(view) \subseteq chain.ids \cup ChainPages
        /\ nextCursor = 0 \/ nextCursor + 1 >= chain.page
        /\ \A r \in requests : r.from = "append" /\ r.epoch = listQueryEpoch => r.page >= chain.page

ListInv == TypeInv /\ EpochInv /\ AppendInv /\ ChainInv

-------------------------------------------------------------------------------
(* Pages on screen.                                                        *)

(* Appending adds one row to the rows of a view.                           *)
LEMMA RowsAppend ==
  ASSUME NEW S, NEW v \in Seq(S), NEW x \in S
  PROVE  Append(v, x) \in Seq(S) /\ Rows(Append(v, x)) = Rows(v) \cup {x}
<1>1. /\ Append(v, x) \in Seq(S)
      /\ Len(Append(v, x)) = Len(v) + 1 /\ Len(v) \in Nat
      /\ \A i \in 1 .. Len(v) : Append(v, x)[i] = v[i]
      /\ Append(v, x)[Len(v) + 1] = x
  OBVIOUS
<1>2. 1 .. Len(Append(v, x)) = (1 .. Len(v)) \cup {Len(v) + 1}
  BY <1>1
<1>3. QED
  BY <1>1, <1>2 DEF Rows

(* The view of a single page.                                              *)
LEMMA RowsSingle ==
  ASSUME NEW S, NEW x \in S
  PROVE  <<x>> \in Seq(S) /\ Rows(<<x>>) = {x}
<1>1. <<x>> \in Seq(S) /\ Len(<<x>>) = 1 /\ <<x>>[1] = x
  OBVIOUS
<1>2. QED
  BY <1>1 DEF Rows

(* The cursor of a page is the page itself, or 0 for the last one.         *)
LEMMA CursorRange ==
  ASSUME NEW p \in Pages
  PROVE  /\ CursorAfter(p) \in 0 .. (LastPage - 1)
         /\ CursorAfter(p) = 0 \/ CursorAfter(p) = p
BY ListQueryAssumption DEF CursorAfter, Pages

(* What ShowPage leaves on screen.                                         *)
LEMMA Shown ==
  ASSUME TypeInv, NEW row \in Query \X Pages, NEW append \in BOOLEAN, ShowPage(row, append)
  PROVE  /\ view' \in Seq(Query \X Pages)
         /\ nextCursor' \in 0 .. (LastPage - 1)
         /\ nextCursor' = 0 \/ nextCursor' = row[2]
         /\ append => Rows(view') = Rows(view) \cup {row}
<1>1. nextCursor' \in 0 .. (LastPage - 1) /\ (nextCursor' = 0 \/ nextCursor' = row[2])
  BY CursorRange DEF ShowPage
<1>2. CASE ~append
  BY <1>1, <1>2, RowsSingle DEF ShowPage
<1>3. CASE append /\ row \in Rows(view)
  BY <1>1, <1>3 DEF ShowPage, TypeInv
<1>4. CASE append /\ row \notin Rows(view)
  <2>1. view' = Append(view, row)
    BY <1>4 DEF ShowPage
  <2>2. QED
    BY <1>1, <1>4, <2>1, RowsAppend DEF TypeInv
<1>5. QED
  BY <1>2, <1>3, <1>4

(* A running chain has its fields.                                         *)
LEMMA Running ==
  ASSUME TypeInv, chain.on
  PROVE  /\ chain.epoch \in Nat /\ chain.query \in Query /\ chain.page \in Pages
         /\ chain.ids \subseteq Query \X Pages
<1>1. NoChain.on = FALSE
  BY DEF NoChain
<1>2. chain \in Chain
  BY <1>1 DEF TypeInv
<1>3. QED
  BY <1>2 DEF Chain

-------------------------------------------------------------------------------
(* Two shapes of steps.                                                    *)

(* A step that bumps the epoch makes the chain stale and sends, if at all, *)
(* replacing queries of new epochs.                                        *)
LEMMA Bumped ==
  ASSUME ListInv, listQueryEpoch' \in Nat, listQueryEpoch' > listQueryEpoch, chain' = chain,
         \A r \in requests' :
            \/ r \in requests
            \/ r \in Request /\ r.from # "append" /\ r.epoch > listQueryEpoch /\ r.epoch <= listQueryEpoch'
  PROVE  requests' \subseteq Request /\ EpochInv' /\ AppendInv' /\ ChainInv'
<1> USE DEF ListInv, TypeInv, EpochInv
<1>1. \A r \in requests : r \in Request /\ r.epoch \in Nat
  BY DEF Request
<1>2. \A r \in requests' : r \in Request /\ r.epoch \in Nat
  BY <1>1 DEF Request
<1>3. chain.on => chain.epoch \in Nat
  BY Running
<1>4. EpochInv'
  BY <1>1, <1>2, <1>3
<1>5. AppendInv'
  BY <1>1, <1>2 DEF AppendInv
<1>6. ~Current'
  BY <1>3 DEF Current
<1>7. QED
  BY <1>2, <1>4, <1>5, <1>6 DEF ChainInv

(* A step that sends nothing and leaves the epoch, the query, the chain    *)
(* and the screen alone.                                                   *)
LEMMA Stays ==
  ASSUME ListInv, requests' \subseteq requests,
         UNCHANGED <<listQueryEpoch, nav, search, chain, view, nextCursor>>
  PROVE  requests' \subseteq Request /\ EpochInv' /\ AppendInv' /\ ChainInv'
BY DEF ListInv, TypeInv, EpochInv, AppendInv, ChainInv, Current, ChainPages

(* BeginReplace bumps the epoch and sends one replacing query at most.     *)
LEMMA Begun ==
  ASSUME ListInv, NEW q \in Query, NEW times \in {1, 2}, NEW inFlight,
         NEW outstanding, outstanding \subseteq requests,
         BeginReplace(q, times, inFlight, outstanding), chain' = chain
  PROVE  /\ listQueryEpoch' \in Nat
         /\ requests' \subseteq Request /\ EpochInv' /\ AppendInv' /\ ChainInv'
<1>1. listQueryEpoch \in Nat /\ 1 \in Pages
  BY ListQueryAssumption DEF ListInv, TypeInv, Pages
<1>2. listQueryEpoch' \in Nat /\ listQueryEpoch' >= listQueryEpoch + 1
  BY <1>1 DEF BeginReplace
<1>3. Sent("replace", listQueryEpoch + 1, q, 1) \in Request
  BY <1>1 DEF Sent, Request, Senders
<1>4. \A r \in requests' : r \in requests \/ r = Sent("replace", listQueryEpoch + 1, q, 1)
  BY DEF BeginReplace
<1>5. \A r \in requests' :
         \/ r \in requests
         \/ r \in Request /\ r.from # "append" /\ r.epoch > listQueryEpoch /\ r.epoch <= listQueryEpoch'
  BY <1>1, <1>2, <1>3, <1>4 DEF Sent
<1>6. QED
  BY <1>1, <1>2, <1>5, Bumped

-------------------------------------------------------------------------------
(* One lemma per action.                                                   *)

(* Another query.                                                          *)
LEMMA SetQueryKeeps ==
  ASSUME ListInv, NEW n \in Navs, NEW s \in Searches, SetQuery(n, s)
  PROVE  ListInv'
<1>1. <<n, s>> \in Query /\ EffectCalls \in {1, 2}
  BY DEF Query, EffectCalls
<1>2. QED
  BY <1>1, Begun DEF SetQuery, ListInv, TypeInv

(* A saved view.                                                           *)
LEMMA ApplySavedViewKeeps ==
  ASSUME ListInv, NEW n \in Navs, NEW s \in Searches, ApplySavedView(n, s)
  PROVE  ListInv'
<1>1. listQueryEpoch \in Nat /\ EffectCalls \in {1, 2} /\ 1 \in Pages
  BY ListQueryAssumption DEF ListInv, TypeInv, EffectCalls, Pages
<1>2. Sent("replace", listQueryEpoch + 2, <<n, s>>, 1) \in Request
  BY <1>1 DEF Sent, Request, Senders, Query
<1>3. /\ listQueryEpoch' \in Nat /\ listQueryEpoch' >= listQueryEpoch + 2
      /\ chain' = chain
      /\ \A r \in requests' : r \in requests \/ r = Sent("replace", listQueryEpoch + 2, <<n, s>>, 1)
  BY <1>1 DEF ApplySavedView
<1>4. \A r \in requests' :
         \/ r \in requests
         \/ r \in Request /\ r.from # "append" /\ r.epoch > listQueryEpoch /\ r.epoch <= listQueryEpoch'
  BY <1>1, <1>2, <1>3 DEF Sent
<1>5. requests' \subseteq Request /\ EpochInv' /\ AppendInv' /\ ChainInv'
  BY <1>1, <1>3, <1>4, Bumped
<1>6. QED
  BY <1>3, <1>5 DEF ApplySavedView, ListInv, TypeInv

(* A reload that is asked for.                                             *)
LEMMA RequestViewReloadKeeps ==
  ASSUME ListInv, RequestViewReload
  PROVE  ListInv'
<1>1. <<nav, search>> \in Query
  BY DEF ListInv, TypeInv, Query
<1>2. QED
  BY <1>1, Begun DEF RequestViewReload, ListInv, TypeInv

(* A refresh that is sent.                                                 *)
LEMMA BeginRefreshKeeps ==
  ASSUME ListInv, NEW from \in {"refresh", "event"}, BeginRefresh(from)
  PROVE  ListInv'
<1>1. listQueryEpoch \in Nat /\ 1 \in Pages /\ <<nav, search>> \in Query
  BY ListQueryAssumption DEF ListInv, TypeInv, Pages, Query
<1>2. Sent(from, listQueryEpoch + 1, <<nav, search>>, 1) \in Request
  BY <1>1 DEF Sent, Request, Senders
<1>3. /\ listQueryEpoch' = listQueryEpoch + 1 /\ chain' = chain
      /\ requests' = requests \cup {Sent(from, listQueryEpoch + 1, <<nav, search>>, 1)}
  BY DEF BeginRefresh
<1>4. requests' \subseteq Request /\ EpochInv' /\ AppendInv' /\ ChainInv'
  BY <1>1, <1>2, <1>3, Bumped DEF Sent
<1>5. QED
  BY <1>1, <1>3, <1>4 DEF BeginRefresh, ListInv, TypeInv

(* An append asks for the page after the last one on screen.               *)
LEMMA BeginAppendKeeps ==
  ASSUME ListInv, BeginAppend
  PROVE  ListInv'
<1> DEFINE asked == Sent("append", listQueryEpoch, <<nav, search>>, nextCursor + 1)
<1>1. /\ listQueryEpoch \in Nat /\ nextCursor \in 0 .. (LastPage - 1) /\ LastPage \in Nat
      /\ <<nav, search>> \in Query /\ nextCursor # 0
  BY ListQueryAssumption DEF ListInv, TypeInv, Query, BeginAppend
<1>2. asked \in Request
  BY <1>1 DEF Sent, Request, Senders, Pages
<1>3. /\ requests' = requests \cup {asked}
      /\ UNCHANGED <<listQueryEpoch, nav, search, chain, view, nextCursor, shownEpoch>>
  BY DEF BeginAppend
<1>4. asked.from = "append" /\ asked.epoch = listQueryEpoch /\ asked.query = <<nav, search>>
         /\ asked.page = nextCursor + 1
  BY DEF Sent
<1> HIDE DEF asked
<1>5. TypeInv'
  BY <1>2, <1>3 DEF ListInv, TypeInv
<1>6. EpochInv'
  BY <1>1, <1>3, <1>4 DEF ListInv, EpochInv
<1>7. AppendInv'
  BY <1>3, <1>4 DEF ListInv, AppendInv
<1>8. ChainInv'
  BY <1>1, <1>3, <1>4 DEF ListInv, ChainInv, Current, ChainPages
<1>9. QED
  BY <1>5, <1>6, <1>7, <1>8 DEF ListInv

-------------------------------------------------------------------------------
(* Answers.                                                                *)

(* An answer to an append that is shown brings a page of the query on      *)
(* screen; an answer to a replacing query has not the epoch of the chain.  *)
LEMMA ShownKeeps ==
  ASSUME ListInv, NEW r \in requests, IsCurrent(r.epoch),
         ShowPage(<<r.query, r.page>>, r.from = "append"), requests' \subseteq requests,
         UNCHANGED <<listQueryEpoch, nav, search, chain>>
  PROVE  EpochInv' /\ AppendInv' /\ ChainInv'
<1>1. /\ r \in Request /\ r.epoch = listQueryEpoch /\ r.query \in Query /\ r.page \in Pages
      /\ <<r.query, r.page>> \in Query \X Pages /\ TypeInv
  BY DEF ListInv, TypeInv, Request, IsCurrent
<1>2. EpochInv' /\ AppendInv'
  BY DEF ListInv, EpochInv, AppendInv
<1>3. SUFFICES ASSUME Current' PROVE ChainInv'
  BY <1>2 DEF ChainInv
<1>4. chain.on /\ chain.epoch = listQueryEpoch /\ Current
  BY <1>3 DEF Current
<1>5. r.from = "append"
  BY <1>1, <1>4 DEF ListInv, EpochInv
<1>6. r.query = chain.query /\ r.page >= chain.page /\ chain.page \in Pages
  BY <1>1, <1>4, <1>5, Running DEF ListInv, AppendInv, ChainInv
<1>7. /\ Rows(view') = Rows(view) \cup {<<r.query, r.page>>}
      /\ nextCursor' = 0 \/ nextCursor' = r.page
  BY <1>1, <1>5, Shown
<1>8. <<r.query, r.page>> \in ChainPages
  BY <1>1, <1>6 DEF ChainPages, Pages
<1>9. /\ chain'.query = <<nav', search'>>
      /\ chain'.ids \subseteq Rows(view')
      /\ Rows(view') \subseteq chain'.ids \cup ChainPages'
  BY <1>4, <1>7, <1>8 DEF ListInv, ChainInv, ChainPages
<1>10. nextCursor' = 0 \/ nextCursor' + 1 >= chain'.page
  BY <1>1, <1>6, <1>7, ListQueryAssumption DEF Pages
<1>11. QED
  BY <1>4, <1>9, <1>10 DEF ListInv, ChainInv

(* The answer to a refresh.                                                *)
LEMMA AnswerRefreshKeeps ==
  ASSUME ListInv, NEW r \in requests, NEW ok \in BOOLEAN, AnswerRefresh(r, ok)
  PROVE  ListInv'
<1>1. /\ r.from \in {"refresh", "event"} /\ requests' = requests \ {r}
      /\ UNCHANGED <<listQueryEpoch, nav, search, chain>>
  BY DEF AnswerRefresh
<1>2. CASE ok /\ IsCurrent(r.epoch)
  <2>1. ShowPage(<<r.query, r.page>>, FALSE) /\ shownEpoch' = r.epoch
    BY <1>2 DEF AnswerRefresh
  <2>2. r \in Request /\ r.epoch \in Nat /\ <<r.query, r.page>> \in Query \X Pages /\ TypeInv
    BY DEF ListInv, TypeInv, Request
  <2>3. ShowPage(<<r.query, r.page>>, r.from = "append")
    BY <1>1, <2>1
  <2>4. EpochInv' /\ AppendInv' /\ ChainInv'
    BY <1>1, <1>2, <2>3, ShownKeeps
  <2>5. view' \in Seq(Query \X Pages) /\ nextCursor' \in 0 .. (LastPage - 1)
    BY <2>1, <2>2, Shown
  <2>6. QED
    BY <1>1, <2>1, <2>2, <2>4, <2>5 DEF ListInv, TypeInv
<1>3. CASE ~(ok /\ IsCurrent(r.epoch))
  <2>1. UNCHANGED <<view, nextCursor, shownEpoch>>
    BY <1>3 DEF AnswerRefresh, KeepPage
  <2>2. QED
    BY <1>1, <2>1, Stays DEF ListInv, TypeInv
<1>4. QED
  BY <1>2, <1>3

(* The answer to a load of the next page.                                  *)
LEMMA AnswerLoadKeeps ==
  ASSUME ListInv, NEW r \in requests, NEW ok \in BOOLEAN, AnswerLoad(r, ok)
  PROVE  ListInv'
<1> DEFINE append == r.from = "append"
           shows == ok /\ IsCurrent(r.epoch)
           due == EndListLoad(append /\ replaceInFlight, ~append /\ appendInFlight)
<1>1. /\ r \in Request /\ r.epoch \in Nat /\ <<r.query, r.page>> \in Query \X Pages
      /\ <<nav, r.query[2]>> \in Query /\ TypeInv
  BY DEF ListInv, TypeInv, Request, Query
<1>2. /\ IF shows THEN ShowPage(<<r.query, r.page>>, append) ELSE KeepPage
      /\ shownEpoch' = IF shows /\ ~append THEN r.epoch ELSE shownEpoch
      /\ UNCHANGED <<nav, search, chain>>
  BY DEF AnswerLoad
<1>3. /\ view' \in Seq(Query \X Pages) /\ nextCursor' \in 0 .. (LastPage - 1)
      /\ shownEpoch' \in Nat
  <2>1. CASE shows
    BY <1>1, <1>2, <2>1, Shown DEF TypeInv
  <2>2. CASE ~shows
    BY <1>1, <1>2, <2>2 DEF KeepPage, TypeInv
  <2>3. QED
    BY <2>1, <2>2
<1>4. CASE due
  <2>1. BeginReplace(<<nav, r.query[2]>>, 1, FALSE, requests \ {r})
    BY <1>4 DEF AnswerLoad
  <2>2. listQueryEpoch' \in Nat /\ requests' \subseteq Request /\ EpochInv' /\ AppendInv' /\ ChainInv'
    BY <1>1, <1>2, <2>1, Begun
  <2>3. QED
    BY <1>1, <1>2, <1>3, <2>2 DEF ListInv, TypeInv
<1>5. CASE ~due
  <2>1. requests' = requests \ {r} /\ listQueryEpoch' = listQueryEpoch
    BY <1>5 DEF AnswerLoad
  <2>2. CASE shows
    <3>1. ShowPage(<<r.query, r.page>>, r.from = "append") /\ IsCurrent(r.epoch)
      BY <1>2, <2>2
    <3>2. EpochInv' /\ AppendInv' /\ ChainInv'
      BY <1>2, <2>1, <3>1, ShownKeeps
    <3>3. QED
      BY <1>1, <1>2, <1>3, <2>1, <3>2 DEF ListInv, TypeInv
  <2>3. CASE ~shows
    <3>1. UNCHANGED <<view, nextCursor>>
      BY <1>2, <2>3 DEF KeepPage
    <3>2. EpochInv' /\ AppendInv' /\ ChainInv'
      BY <1>2, <2>1, <3>1, Stays
    <3>3. QED
      BY <1>1, <1>2, <1>3, <2>1, <3>2 DEF ListInv, TypeInv
  <2>4. QED
    BY <2>2, <2>3
<1>6. QED
  BY <1>4, <1>5

-------------------------------------------------------------------------------
(* The chain.                                                              *)

(* A step of the chain takes a new epoch, which no query has yet.          *)
LEMMA ChainStep ==
  ASSUME ListInv, listQueryEpoch' = listQueryEpoch + 1, requests' = requests,
         chain' \in Chain, chain'.epoch = listQueryEpoch'
  PROVE  EpochInv' /\ AppendInv'
<1>1. \A r \in requests : r.epoch \in Nat /\ r.epoch <= listQueryEpoch
  BY DEF ListInv, TypeInv, EpochInv, Request
<1>2. listQueryEpoch \in Nat
  BY DEF ListInv, TypeInv
<1>3. QED
  BY <1>1, <1>2 DEF EpochInv, AppendInv

(* "Select all" begins its chain.                                          *)
LEMMA SelectAllKeeps ==
  ASSUME ListInv, SelectAll
  PROVE  ListInv'
<1>1. /\ listQueryEpoch \in Nat /\ listQueryEpoch' = listQueryEpoch + 1
      /\ UNCHANGED <<nav, search, requests, view, nextCursor, shownEpoch>>
      /\ nextCursor \in 0 .. (LastPage - 1) /\ LastPage \in Nat
  BY ListQueryAssumption DEF SelectAll, ListInv, TypeInv
<1>2. \A r \in requests : r.epoch \in Nat /\ r.epoch <= listQueryEpoch
  BY DEF ListInv, TypeInv, EpochInv, Request
<1>3. CASE nextCursor = 0
  <2>1. chain' = NoChain /\ ~chain'.on
    BY <1>3 DEF SelectAll, NoChain
  <2>2. EpochInv' /\ AppendInv' /\ ChainInv'
    BY <1>1, <1>2, <2>1 DEF EpochInv, AppendInv, ChainInv, Current
  <2>3. QED
    BY <1>1, <2>1, <2>2 DEF ListInv, TypeInv
<1>4. CASE nextCursor # 0
  <2>1. chain' = [on |-> TRUE, epoch |-> listQueryEpoch + 1, query |-> <<nav, search>>,
                  ids |-> Rows(view), page |-> nextCursor + 1]
    BY <1>4 DEF SelectAll
  <2>2. Rows(view) \subseteq Query \X Pages /\ <<nav, search>> \in Query
    BY DEF ListInv, TypeInv, Rows, Query
  <2>3. chain' \in Chain
    BY <1>1, <1>4, <2>1, <2>2 DEF Chain, Pages
  <2>4. EpochInv' /\ AppendInv'
    BY <1>1, <2>1, <2>3, ChainStep
  <2>5. ChainInv'
    <3>1. /\ chain'.query = <<nav', search'>> /\ chain'.ids = Rows(view')
          /\ chain'.page = nextCursor' + 1
      BY <1>1, <2>1 DEF Rows
    <3>2. \A r \in requests' : r.epoch # listQueryEpoch'
      BY <1>1, <1>2
    <3>3. nextCursor' + 1 >= chain'.page
      BY <1>1, <3>1
    <3>4. QED
      BY <3>1, <3>2, <3>3 DEF ChainInv
  <2>6. QED
    BY <1>1, <2>3, <2>4, <2>5 DEF ListInv, TypeInv
<1>5. QED
  BY <1>3, <1>4

(* What a page of the chain finds and leaves.                              *)
LEMMA ChainPageStep ==
  ASSUME ListInv, ChainPage
  PROVE  /\ chain \in Chain /\ chain.page \in Pages
         /\ view' \in Seq(Query \X Pages)
         /\ Rows(view') = Rows(view) \cup {<<chain.query, chain.page>>}
         /\ Rows(view') \subseteq (chain.ids \cup {<<chain.query, chain.page>>})
                                    \cup {<<chain.query, p>> : p \in (chain.page + 1) .. LastPage}
         /\ chain.ids \cup {<<chain.query, chain.page>>} \subseteq Rows(view')
<1> DEFINE row == <<chain.query, chain.page>>
<1>1. chain.on /\ Current /\ TypeInv
  BY DEF ChainPage, ChainCurrent, IsCurrent, Current, ListInv
<1>2. /\ chain.query \in Query /\ chain.page \in Pages /\ row \in Query \X Pages
      /\ chain \in Chain
  <2>1. NoChain.on = FALSE
    BY DEF NoChain
  <2>2. QED
    BY <1>1, <2>1, Running DEF TypeInv
<1>3. view' = IF row \in Rows(view) THEN view ELSE Append(view, row)
  BY DEF ChainPage
<1>4. view' \in Seq(Query \X Pages) /\ Rows(view') = Rows(view) \cup {row}
  <2>1. CASE row \in Rows(view)
    BY <1>1, <1>3, <2>1 DEF TypeInv
  <2>2. CASE row \notin Rows(view)
    <3>1. view \in Seq(Query \X Pages) /\ view' = Append(view, row)
      BY <1>1, <1>3, <2>2 DEF TypeInv
    <3> HIDE DEF row
    <3>2. QED
      BY <1>2, <3>1, RowsAppend
  <2>3. QED
    BY <2>1, <2>2
<1>5. chain.ids \subseteq Rows(view) /\ Rows(view) \subseteq chain.ids \cup ChainPages
  BY <1>1 DEF ListInv, ChainInv
<1>6. \A p \in chain.page .. LastPage : p = chain.page \/ p \in (chain.page + 1) .. LastPage
  BY <1>2, ListQueryAssumption DEF Pages
<1>7. ChainPages \subseteq {row} \cup {<<chain.query, p>> : p \in (chain.page + 1) .. LastPage}
  BY <1>6 DEF ChainPages
<1>8. QED
  BY <1>2, <1>4, <1>5, <1>7

(* A page of the chain.                                                    *)
LEMMA ChainPageKeeps ==
  ASSUME ListInv, ChainPage
  PROVE  ListInv'
<1> DEFINE row == <<chain.query, chain.page>>
<1>1. /\ listQueryEpoch \in Nat /\ listQueryEpoch' = listQueryEpoch + 1
      /\ UNCHANGED <<nav, search, requests, shownEpoch>>
      /\ nextCursor' = CursorAfter(chain.page) /\ LastPage \in Nat
      /\ chain.query = <<nav, search>>
  BY ListQueryAssumption DEF ChainPage, ChainCurrent, ListInv, TypeInv
<1>2. \A r \in requests : r.epoch \in Nat /\ r.epoch <= listQueryEpoch
  BY DEF ListInv, TypeInv, EpochInv, Request
<1>3. chain \in Chain /\ chain.page \in Pages /\ view' \in Seq(Query \X Pages)
  BY ChainPageStep
<1>4. nextCursor' \in 0 .. (LastPage - 1) /\ (nextCursor' = 0 \/ nextCursor' = chain.page)
  BY <1>1, <1>3, CursorRange
<1>5. CASE chain.page = LastPage
  <2>1. chain' = NoChain /\ ~chain'.on
    BY <1>5 DEF ChainPage, NoChain
  <2>2. EpochInv' /\ AppendInv' /\ ChainInv'
    BY <1>1, <1>2, <2>1 DEF EpochInv, AppendInv, ChainInv, Current
  <2>3. QED
    BY <1>1, <1>3, <1>4, <2>1, <2>2 DEF ListInv, TypeInv
<1>6. CASE chain.page # LastPage
  <2>1. chain' = [chain EXCEPT !.epoch = listQueryEpoch + 1, !.ids = chain.ids \cup {row},
                               !.page = chain.page + 1]
    BY <1>6 DEF ChainPage
  <2>2. /\ chain' \in Chain /\ chain'.epoch = listQueryEpoch + 1 /\ chain'.query = chain.query
        /\ chain'.ids = chain.ids \cup {row} /\ chain'.page = chain.page + 1
    <3>1. /\ listQueryEpoch + 1 \in Nat /\ chain.page + 1 \in Pages
          /\ chain.ids \cup {row} \in SUBSET (Query \X Pages)
      BY <1>1, <1>3, <1>6 DEF Chain, Pages
    <3> HIDE DEF row
    <3>2. QED
      BY <1>3, <2>1, <3>1 DEF Chain
  <2>3. EpochInv' /\ AppendInv'
    BY <1>1, <2>2, ChainStep
  <2>4. ChainInv'
    <3>1. chain'.query = <<nav', search'>>
      BY <1>1, <2>2
    <3>2. chain'.ids \subseteq Rows(view') /\ Rows(view') \subseteq chain'.ids \cup ChainPages'
      BY <2>2, ChainPageStep DEF ChainPages
    <3>3. nextCursor' = 0 \/ nextCursor' + 1 >= chain'.page
      BY <1>3, <1>4, <2>2 DEF Pages
    <3>4. \A r \in requests' : r.epoch # listQueryEpoch'
      BY <1>1, <1>2
    <3>5. QED
      BY <3>1, <3>2, <3>3, <3>4 DEF ChainInv
  <2>5. QED
    BY <1>1, <1>3, <1>4, <2>2, <2>3, <2>4 DEF ListInv, TypeInv
<1>7. QED
  BY <1>5, <1>6

(* The chain ends.                                                         *)
LEMMA ChainEndsKeeps ==
  ASSUME ListInv, ChainEnds
  PROVE  ListInv'
<1>1. /\ chain' = NoChain /\ ~chain'.on
      /\ UNCHANGED <<listQueryEpoch, nav, search, requests, view, nextCursor, shownEpoch>>
  BY DEF ChainEnds, NoChain
<1>2. QED
  BY <1>1 DEF ListInv, TypeInv, EpochInv, AppendInv, ChainInv, Current

-------------------------------------------------------------------------------
(* The invariant, and what follows from it.                                *)

(* The list opens with no answer under way.                                *)
LEMMA ListInvInit == ListInit => ListInv
<1> SUFFICES ASSUME ListInit PROVE ListInv
  OBVIOUS
<1>1. chain = NoChain /\ ~chain.on /\ ~Current
  BY DEF ListInit, NoChain, Current
<1>2. /\ listQueryEpoch = 1 /\ <<nav, search>> \in Query /\ 1 \in Pages
      /\ requests = {[from |-> "replace", epoch |-> 1, query |-> <<nav, search>>, page |-> 1]}
  BY ListQueryAssumption DEF ListInit, Query, Pages
<1>3. requests \subseteq Request
  BY <1>2 DEF Request, Senders
<1>4. TypeInv
  BY <1>1, <1>2, <1>3, ListQueryAssumption DEF ListInit, TypeInv
<1>5. EpochInv /\ AppendInv /\ ChainInv
  BY <1>1, <1>2 DEF EpochInv, AppendInv, ChainInv
<1>6. QED
  BY <1>4, <1>5 DEF ListInv

(* Every query, answer and page of the chain keeps the invariant.          *)
LEMMA ListInvNext == ListInv /\ [ListNext]_listVars => ListInv'
<1> SUFFICES ASSUME ListInv, [ListNext]_listVars PROVE ListInv'
  OBVIOUS
<1>1. CASE \E n \in Navs, s \in Searches : SetQuery(n, s) \/ ApplySavedView(n, s)
  BY <1>1, SetQueryKeeps, ApplySavedViewKeeps
<1>2. CASE RequestViewReload \/ BeginAppend
  BY <1>2, RequestViewReloadKeeps, BeginAppendKeeps
<1>3. CASE \E from \in {"refresh", "event"} : BeginRefresh(from)
  BY <1>3, BeginRefreshKeeps
<1>4. CASE \E from \in Senders : AnswerOf(from)
  BY <1>4, AnswerLoadKeeps, AnswerRefreshKeeps DEF AnswerOf
<1>5. CASE SelectAll \/ ChainPage \/ ChainEnds
  BY <1>5, SelectAllKeeps, ChainPageKeeps, ChainEndsKeeps
<1>6. CASE UNCHANGED listVars
  BY <1>6 DEF listVars, ListInv, TypeInv, EpochInv, AppendInv, ChainInv, Current, ChainPages
<1>7. QED
  BY <1>1, <1>2, <1>3, <1>4, <1>5, <1>6 DEF ListNext

(* The invariant holds for all sets of queries and every number of pages.  *)
THEOREM ListInvAlways == ListSpec => []ListInv
<1>1. QED
  BY ListInvInit, ListInvNext, PTL DEF ListSpec

(* Every step of the list is one of NewestAnswer: an answer that is put on *)
(* screen has the newest epoch, or the epoch does not change at all.       *)
LEMMA StepOfNewest == ListInv /\ ListInv' /\ [ListNext]_listVars => [Newest!Next]_(Newest!vars)
<1> SUFFICES ASSUME ListInv, ListInv', [ListNext]_listVars PROVE [Newest!Next]_(Newest!vars)
  OBVIOUS
<1>1. listQueryEpoch \in Nat /\ listQueryEpoch' \in Nat
  BY DEF ListInv, TypeInv
<1>2. SUFFICES listQueryEpoch' >= listQueryEpoch /\ shownEpoch' \in {shownEpoch, listQueryEpoch}
  BY <1>1 DEF Newest!Next
<1>3. CASE \E n \in Navs, s \in Searches : SetQuery(n, s) \/ ApplySavedView(n, s)
  BY <1>1, <1>3 DEF SetQuery, ApplySavedView, BeginReplace, EffectCalls
<1>4. CASE RequestViewReload \/ BeginAppend
  BY <1>1, <1>4 DEF RequestViewReload, BeginAppend, BeginReplace
<1>5. CASE \E from \in {"refresh", "event"} : BeginRefresh(from)
  BY <1>1, <1>5 DEF BeginRefresh
<1>6. CASE \E from \in Senders : AnswerOf(from)
  <2>1. PICK r \in requests, ok \in BOOLEAN : AnswerLoad(r, ok) \/ AnswerRefresh(r, ok)
    BY <1>6 DEF AnswerOf
  <2>2. CASE AnswerLoad(r, ok)
    <3>1. shownEpoch' \in {shownEpoch, listQueryEpoch}
      BY <2>2 DEF AnswerLoad, IsCurrent
    <3>2. listQueryEpoch' = listQueryEpoch \/ listQueryEpoch' = listQueryEpoch + 1
      BY <2>2 DEF AnswerLoad, BeginReplace
    <3>3. QED
      BY <1>1, <3>1, <3>2
  <2>3. CASE AnswerRefresh(r, ok)
    <3>1. shownEpoch' \in {shownEpoch, listQueryEpoch} /\ listQueryEpoch' = listQueryEpoch
      BY <2>3 DEF AnswerRefresh, IsCurrent
    <3>2. QED
      BY <1>1, <3>1
  <2>4. QED
    BY <2>1, <2>2, <2>3
<1>7. CASE SelectAll \/ ChainPage \/ ChainEnds
  BY <1>1, <1>7 DEF SelectAll, ChainPage, ChainEnds
<1>8. CASE UNCHANGED listVars
  BY <1>1, <1>8 DEF listVars
<1>9. QED
  BY <1>3, <1>4, <1>5, <1>6, <1>7, <1>8 DEF ListNext

(* The queries of the list implement NewestAnswer: after a newer replacing *)
(* query was asked, no answer of an older one overwrites the list          *)
(* (list-query-epoch.ts:1-5).                                              *)
THEOREM ShowsNewestAnswerAlways == ListSpec => ShowsNewestAnswer
<1>1. ListInit => Newest!Init
  BY DEF ListInit, Newest!Init
<1>2. QED
  BY <1>1, ListInvAlways, StepOfNewest, PTL DEF ListSpec, ShowsNewestAnswer, Newest!Spec

(* When "select all" ends with a selection, what is selected is what is on *)
(* screen, and the screen holds the last page (collectAllMatchingTaskIds): *)
(* appends of the virtualizer that ran beside the chain loaded no page     *)
(* that the chain did not load too.                                        *)
THEOREM SelectsWhatIsShownAlways == ListSpec => SelectsWhatIsShown
<1> DEFINE Selects == chain.on /\ ~chain'.on /\ selectedIds' # selectedIds
                        => selectedIds' = Rows(view') /\ nextCursor' = 0
<1>1. ListInv /\ [ListNext]_listVars => [Selects]_listVars
  <2> SUFFICES ASSUME ListInv, ListNext, chain.on, ~chain'.on, selectedIds' # selectedIds
               PROVE  selectedIds' = Rows(view') /\ nextCursor' = 0
    OBVIOUS
  <2>1. CASE SelectAll
    <3>1. nextCursor = 0
      BY <2>1 DEF SelectAll
    <3>2. QED
      BY <2>1, <3>1 DEF SelectAll, Rows
  <2>2. CASE ChainPage
    <3>1. chain.page = LastPage
      <4>1. SUFFICES ASSUME chain.page # LastPage PROVE chain'.on
        OBVIOUS
      <4>2. chain' = [chain EXCEPT !.epoch = listQueryEpoch + 1,
                                   !.ids = chain.ids \cup {<<chain.query, chain.page>>},
                                   !.page = chain.page + 1]
        BY <2>2, <4>1 DEF ChainPage
      <4>3. chain \in Chain
        BY <2>2, ChainPageStep
      <4>4. QED
        BY <4>2, <4>3 DEF Chain
    <3>2. /\ selectedIds' = chain.ids \cup {<<chain.query, chain.page>>}
          /\ nextCursor' = CursorAfter(chain.page)
      BY <2>2, <3>1 DEF ChainPage
    <3>3. (chain.page + 1) .. LastPage = {}
      BY <3>1, ListQueryAssumption
    <3>4. selectedIds' = Rows(view')
      BY <2>2, <3>2, <3>3, ChainPageStep
    <3>5. nextCursor' = 0
      BY <3>1, <3>2, ListQueryAssumption DEF CursorAfter
    <3>6. QED
      BY <3>4, <3>5
  <2>3. CASE ChainEnds
    BY <2>3 DEF ChainEnds
  <2>4. chain' # chain
    OBVIOUS
  <2>5. CASE ~(SelectAll \/ ChainPage \/ ChainEnds)
    BY <2>4, <2>5 DEF ListNext, SetQuery, ApplySavedView, RequestViewReload, BeginAppend, BeginRefresh,
                      AnswerOf, AnswerLoad, AnswerRefresh
  <2>6. QED
    BY <2>1, <2>2, <2>3, <2>5
<1>2. QED
  BY <1>1, ListInvAlways, PTL DEF ListSpec, SelectsWhatIsShown

-------------------------------------------------------------------------------
(* SettingsForm                                                            *)

(* The types, variable by variable.                                        *)
FormTypeInv ==
    /\ pageOpen \in BOOLEAN /\ saveTimer \in BOOLEAN /\ saveError \in BOOLEAN
    /\ pageForm \in [SettingFields -> Typeable]
    /\ settings \in SettingRows /\ settingsRow \in SettingRows
    /\ updates \in [SettingCalls -> Updates \cup {NoUpdate}]
    /\ reads \in [SettingReads -> Reads \cup {NoRead}]
    /\ typed \subseteq SettingFields /\ settingsChanges \in Nat /\ settingEdits \in Nat

(* The newest save of this page, which will be heard of.                   *)
IsNewestSave(c) == updates[c].kind = "save" /\ updates[c].own /\ updates[c].newest

SettingsInv == FormTypeInv /\ AutosaveIsSound

-------------------------------------------------------------------------------
(* Values and rows.                                                        *)

(* What is stored of a typeable value is storable.                         *)
LEMMA NormalRange ==
  ASSUME NEW v \in Typeable
  PROVE  NormalSetting(v) \in Storable
BY DEF NormalSetting, Typeable, Storable

(* A patch says something typeable about some of the fields.               *)
LEMMA PatchRange ==
  ASSUME NEW patch \in Patches
  PROVE  /\ DOMAIN patch \subseteq SettingFields
         /\ \A f \in DOMAIN patch : patch[f] \in Typeable
<1>1. PICK S \in SUBSET SettingFields : patch \in [S -> Typeable]
  BY DEF Patches
<1>2. QED
  BY <1>1

(* Merging a patch into the row yields a row.                              *)
LEMMA MergedRange ==
  ASSUME FormTypeInv, NEW patch \in Patches
  PROVE  MergedPatch(patch) \in SettingRows
<1>1. ASSUME NEW f \in SettingFields
      PROVE  (IF f \in DOMAIN patch THEN NormalSetting(patch[f]) ELSE settingsRow[f]) \in Storable
  BY <1>1, PatchRange, NormalRange DEF FormTypeInv, SettingRows
<1>2. QED
  BY <1>1 DEF MergedPatch, SettingRows

(* The defaults are a row, and a row is a form and a patch.                *)
LEMMA RowsAreForms ==
  /\ DefaultSettings \in SettingRows
  /\ SettingRows \subseteq [SettingFields -> Typeable]
  /\ SettingRows \subseteq Patches
<1>1. DefaultSettings \in SettingRows
  BY DEF DefaultSettings, SettingRows, Storable
<1>2. SettingRows \subseteq [SettingFields -> Typeable]
  BY DEF SettingRows, Storable, Typeable
<1>3. [SettingFields -> Typeable] \subseteq Patches
  BY DEF Patches
<1>4. QED
  BY <1>1, <1>2, <1>3

(* What a save and what the status bar send are patches.                   *)
LEMMA SentPatches ==
  ASSUME FormTypeInv
  PROVE  /\ SettingsPatch \in Patches
         /\ \A f \in SetElsewhere, v \in Storable : [g \in {f} |-> v] \in Patches
<1>1. SettingsPatch \in [Differing -> Typeable] /\ Differing \in SUBSET SettingFields
  BY DEF SettingsPatch, Differing, FormTypeInv
<1>2. ASSUME NEW f \in SetElsewhere, NEW v \in Storable
      PROVE  [g \in {f} |-> v] \in Patches
  <2>1. {f} \in SUBSET SettingFields /\ v \in Typeable
    BY SettingsFormAssumption DEF Storable, Typeable
  <2>2. [g \in {f} |-> v] \in [{f} -> Typeable]
    BY <2>1
  <2>3. QED
    BY <2>1, <2>2 DEF Patches
<1>3. SettingsPatch \in Patches
  BY <1>1 DEF Patches
<1>4. QED
  BY <1>2, <1>3

(* An update under way is no longer the placeholder, and has its fields.   *)
LEMMA UnderWay ==
  ASSUME FormTypeInv, NEW c \in SettingCalls, updates[c] # NoUpdate
  PROVE  /\ updates[c] \in Updates
         /\ updates[c].patch \in Patches /\ updates[c].answer \in SettingRows
         /\ updates[c].newest \in BOOLEAN /\ updates[c].own \in BOOLEAN
BY DEF FormTypeInv, Updates

(* A save is an update under way.                                          *)
LEMMA SaveIsUnderWay ==
  ASSUME FormTypeInv, NEW c \in SettingCalls, updates[c].kind = "save"
  PROVE  updates[c] # NoUpdate
BY DEF NoUpdate

-------------------------------------------------------------------------------
(* The steps that several actions share.                                   *)

(* Copying the store over the form leaves nothing to save.                 *)
LEMMA Taken ==
  ASSUME FormTypeInv, NEW s \in SettingRows, TakeSettings(s)
  PROVE  /\ settings' \in SettingRows /\ pageForm' = settings'
         /\ pageForm' \in [SettingFields -> Typeable]
         /\ typed' = {} /\ saveTimer' \in BOOLEAN
<1>1. pageForm' = s /\ settings' = s /\ typed' = {}
  BY DEF TakeSettings, Copied
<1>2. s \in [SettingFields -> Typeable]
  BY RowsAreForms
<1>3. saveTimer' \in BOOLEAN
  BY DEF TakeSettings, FormTypeInv
<1>4. QED
  BY <1>1, <1>2, <1>3

(* Without a difference there is nothing pending and nothing to send.      *)
LEMMA NothingToSave ==
  ASSUME pageForm' = settings'
  PROVE  AutosaveIsSound'
BY DEF AutosaveIsSound, UnsavedIsPending, OnlyEditsAreSent, Differing

(* An update that is sent takes a free name and leaves the others alone.   *)
LEMMA SentFields ==
  ASSUME FormTypeInv, NEW c \in SettingCalls, NEW patch \in Patches,
         NEW kind \in {"save", "limit", "reset"},
         NEW rs \in [SettingCalls -> Updates \cup {NoUpdate}],
         SendUpdate(c, kind, patch, rs)
  PROVE  /\ updates' \in [SettingCalls -> Updates \cup {NoUpdate}]
         /\ updates'[c].kind = kind /\ updates'[c].newest /\ updates'[c].own = (kind = "save")
         /\ \A d \in SettingCalls \ {c} : updates'[d] = rs[d]
         /\ updates[c] = NoUpdate
<1> DEFINE u == [kind |-> kind, patch |-> patch, newest |-> TRUE, own |-> kind = "save",
                 state |-> "sent", answer |-> settingsRow]
<1>1. updates' = [rs EXCEPT ![c] = u] /\ updates[c] = NoUpdate
  BY DEF SendUpdate
<1>2. u \in Updates
  BY DEF Updates, FormTypeInv
<1>3. updates' \in [SettingCalls -> Updates \cup {NoUpdate}] /\ updates'[c] = u
  BY <1>1, <1>2
<1>4. \A d \in SettingCalls \ {c} : updates'[d] = rs[d]
  BY <1>1
<1>5. QED
  BY <1>1, <1>3, <1>4

(* A page without a new difference is as sound as before, as long as the   *)
(* newest save is not forgotten.                                           *)
LEMMA StillPending ==
  ASSUME AutosaveIsSound,
         UNCHANGED <<pageOpen, pageForm, settings, saveTimer, typed>>,
         saveError => saveError',
         \A c \in SettingCalls : IsNewestSave(c) => saveError' \/ IsNewestSave(c)'
  PROVE  AutosaveIsSound'
<1>1. UnsavedIsPending'
  BY DEF AutosaveIsSound, UnsavedIsPending, IsNewestSave
<1>2. OnlyEditsAreSent'
  BY DEF AutosaveIsSound, OnlyEditsAreSent, Differing
<1>3. QED
  BY <1>1, <1>2 DEF AutosaveIsSound

-------------------------------------------------------------------------------
(* The invariant.                                                          *)

(* Nothing is typed and nothing is under way when the settings are loaded. *)
LEMMA SettingsInvInit == SettingsInit => SettingsInv
<1> SUFFICES ASSUME SettingsInit PROVE SettingsInv
  OBVIOUS
<1>1. FormTypeInv
  <2>1. pageForm \in [SettingFields -> Typeable] /\ settings \in SettingRows /\ settingsRow \in SettingRows
    BY RowsAreForms DEF SettingsInit
  <2>2. /\ updates \in [SettingCalls -> Updates \cup {NoUpdate}]
        /\ reads \in [SettingReads -> Reads \cup {NoRead}]
    BY DEF SettingsInit
  <2>3. QED
    BY <2>1, <2>2 DEF SettingsInit, FormTypeInv
<1>2. AutosaveIsSound
  BY DEF SettingsInit, AutosaveIsSound, UnsavedIsPending, OnlyEditsAreSent, Differing
<1>3. QED
  BY <1>1, <1>2 DEF SettingsInv

(* An edit starts the timer.                                               *)
LEMMA EditFieldStep ==
  ASSUME SettingsInv, NEW f \in SettingFields, NEW v \in Typeable, EditField(f, v)
  PROVE  SettingsInv'
<1>1. FormTypeInv'
  BY DEF SettingsInv, FormTypeInv, EditField, EditBudget
<1>2. UnsavedIsPending'
  BY DEF EditField, UnsavedIsPending
<1>3. OnlyEditsAreSent'
  <2>1. \A g \in SettingFields \ {f} : pageForm'[g] = pageForm[g]
    BY DEF EditField, SettingsInv, FormTypeInv
  <2>2. settings' = settings /\ typed' = typed \cup {f}
    BY DEF EditField
  <2>3. QED
    BY <2>1, <2>2 DEF SettingsInv, AutosaveIsSound, OnlyEditsAreSent, Differing
<1>4. QED
  BY <1>1, <1>2, <1>3 DEF SettingsInv, AutosaveIsSound

(* The save that takes the place of the timer is the newest.               *)
LEMMA SaveSettingsStep ==
  ASSUME SettingsInv, NEW c \in SettingCalls, SaveSettings(c)
  PROVE  SettingsInv'
<1> DEFINE rs == OutdatedBySave(updates)
<1>1. rs \in [SettingCalls -> Updates \cup {NoUpdate}]
  <2>1. ASSUME NEW d \in SettingCalls, updates[d] # NoUpdate
        PROVE  [updates[d] EXCEPT !.newest = FALSE] \in Updates
    BY <2>1, UnderWay DEF SettingsInv, Updates
  <2>2. QED
    BY <2>1 DEF OutdatedBySave, SettingsInv, FormTypeInv
<1>2. SendUpdate(c, "save", SettingsPatch, rs)
  BY DEF SaveSettings
<1>3. /\ updates' \in [SettingCalls -> Updates \cup {NoUpdate}]
      /\ IsNewestSave(c)'
  BY <1>1, <1>2, SentFields, SentPatches DEF SettingsInv, IsNewestSave
<1>4. FormTypeInv'
  BY <1>3 DEF SaveSettings, SettingsInv, FormTypeInv
<1>5. UnsavedIsPending'
  BY <1>3 DEF UnsavedIsPending, IsNewestSave
<1>6. OnlyEditsAreSent'
  BY DEF SaveSettings, SettingsInv, AutosaveIsSound, OnlyEditsAreSent, Differing
<1>7. QED
  BY <1>4, <1>5, <1>6 DEF SettingsInv, AutosaveIsSound

(* Updates that are no saves of this page do not touch it.                 *)
LEMMA OtherUpdateStep ==
  ASSUME SettingsInv, NEW c \in SettingCalls, NEW kind \in {"limit", "reset"},
         NEW patch \in Patches, SendUpdate(c, kind, patch, updates), EditBudget,
         UNCHANGED <<pageOpen, pageForm, settings, settingsRow, saveTimer, saveError, reads,
                     settingsChanges, typed>>
  PROVE  SettingsInv'
<1>1. /\ updates' \in [SettingCalls -> Updates \cup {NoUpdate}]
      /\ \A d \in SettingCalls \ {c} : updates'[d] = updates[d]
      /\ updates[c] = NoUpdate
  BY SentFields DEF SettingsInv, FormTypeInv
<1>2. FormTypeInv'
  BY <1>1 DEF EditBudget, SettingsInv, FormTypeInv
<1>3. \A d \in SettingCalls : IsNewestSave(d) => IsNewestSave(d)'
  BY <1>1, SaveIsUnderWay DEF IsNewestSave, SettingsInv
<1>4. QED
  BY <1>2, <1>3, StillPending DEF SettingsInv

(* What the back end does with an update does not make it older.           *)
LEMMA ServedStep ==
  ASSUME SettingsInv, NEW c \in SettingCalls, StoreUpdate(c) \/ RefuseUpdate(c)
  PROVE  SettingsInv'
<1>1. updates[c] \in Updates /\ updates[c] # NoUpdate /\ MergedPatch(updates[c].patch) \in SettingRows
  BY UnderWay, MergedRange DEF StoreUpdate, RefuseUpdate, SettingsInv
<1>2. settingsRow' \in SettingRows
  BY <1>1 DEF StoreUpdate, RefuseUpdate, SettingsInv, FormTypeInv
<1>3. PICK q \in Updates : /\ updates' = [updates EXCEPT ![c] = q]
                           /\ q.kind = updates[c].kind /\ q.own = updates[c].own
                           /\ q.newest = updates[c].newest
  <2>1. CASE StoreUpdate(c)
    <3> DEFINE q == [updates[c] EXCEPT !.state = "done", !.answer = settingsRow']
    <3>1. q \in Updates
      BY <1>1, <1>2 DEF Updates
    <3>2. updates' = [updates EXCEPT ![c] = q]
      BY <1>1, <2>1 DEF StoreUpdate, SettingsInv, FormTypeInv
    <3>3. q.kind = updates[c].kind /\ q.own = updates[c].own /\ q.newest = updates[c].newest
      BY <1>1 DEF Updates
    <3>4. QED
      BY <3>1, <3>2, <3>3
  <2>2. CASE RefuseUpdate(c)
    <3> DEFINE q == [updates[c] EXCEPT !.state = "failed"]
    <3>1. q \in Updates
      BY <1>1 DEF Updates
    <3>2. updates' = [updates EXCEPT ![c] = q]
      BY <1>1, <2>2 DEF RefuseUpdate, SettingsInv, FormTypeInv
    <3>3. q.kind = updates[c].kind /\ q.own = updates[c].own /\ q.newest = updates[c].newest
      BY <1>1 DEF Updates
    <3>4. QED
      BY <3>1, <3>2, <3>3
  <2>3. QED
    BY <2>1, <2>2
<1>4. UNCHANGED <<pageOpen, pageForm, settings, saveTimer, saveError, typed, reads, settingEdits>>
  BY DEF StoreUpdate, RefuseUpdate
<1>5. settingsChanges' \in Nat
  BY DEF StoreUpdate, RefuseUpdate, SettingsInv, FormTypeInv
<1>6. FormTypeInv'
  BY <1>2, <1>3, <1>4, <1>5 DEF SettingsInv, FormTypeInv
<1>7. \A d \in SettingCalls : IsNewestSave(d) => IsNewestSave(d)'
  BY <1>3 DEF IsNewestSave, SettingsInv, FormTypeInv
<1>8. QED
  BY <1>4, <1>6, <1>7, StillPending DEF SettingsInv

(* The newest save ends with the store on the page or with an error; any   *)
(* other answer leaves the newest save under way.                          *)
LEMMA UpdateAnsweredStep ==
  ASSUME SettingsInv, NEW c \in SettingCalls, UpdateAnswered(c)
  PROVE  SettingsInv'
<1> DEFINE q == updates[c]
<1>1. q # NoUpdate /\ q \in Updates /\ q.answer \in SettingRows /\ q.newest \in BOOLEAN
  BY UnderWay DEF UpdateAnswered, SettingsInv
<1>2. /\ updates' = [updates EXCEPT ![c] = NoUpdate]
      /\ UNCHANGED <<pageOpen, settingsRow, reads, settingsChanges, settingEdits>>
  BY DEF UpdateAnswered
<1>3. updates' \in [SettingCalls -> Updates \cup {NoUpdate}]
  BY <1>2 DEF SettingsInv, FormTypeInv
<1>4. CASE q.state = "done" /\ q.newest
  <2>1. TakeSettings(q.answer) /\ UNCHANGED saveError
    BY <1>4 DEF UpdateAnswered
  <2>2. FormTypeInv'
    BY <1>1, <1>2, <1>3, <2>1, Taken DEF SettingsInv, FormTypeInv
  <2>3. QED
    BY <1>1, <2>1, <2>2, Taken, NothingToSave DEF SettingsInv
<1>5. CASE ~(q.state = "done" /\ q.newest)
  <2>1. /\ saveError' = (saveError \/ FailureIsShown(q))
        /\ UNCHANGED <<settings, pageForm, typed, saveTimer>>
        /\ q.state # "sent"
    BY <1>5 DEF UpdateAnswered
  <2>2. FormTypeInv'
    BY <1>2, <1>3, <2>1 DEF SettingsInv, FormTypeInv
  <2>3. ASSUME NEW d \in SettingCalls, IsNewestSave(d)
        PROVE  saveError' \/ IsNewestSave(d)'
    <3>1. CASE d = c
      BY <1>5, <2>1, <2>3, <3>1 DEF IsNewestSave, FailureIsShown
    <3>2. CASE d # c
      BY <1>2, <2>3, <3>2 DEF IsNewestSave, SettingsInv, FormTypeInv
    <3>3. QED
      BY <3>1, <3>2
  <2>4. QED
    BY <1>2, <2>1, <2>2, <2>3, StillPending DEF SettingsInv
<1>6. QED
  BY <1>4, <1>5

(* A refresh copies what it read, or shows that it failed.                 *)
LEMMA RefreshStep ==
  ASSUME SettingsInv, NEW r \in SettingReads,
         ChangeDelivered(r) \/ GetSettings(r) \/ Refreshed(r)
  PROVE  SettingsInv'
<1>1. CASE ChangeDelivered(r)
  <2>1. [state |-> "asked", answer |-> settingsRow] \in Reads
    BY DEF Reads, SettingsInv, FormTypeInv
  <2>2. FormTypeInv'
    BY <1>1, <2>1 DEF ChangeDelivered, SettingsInv, FormTypeInv
  <2>3. QED
    BY <1>1, <2>2, StillPending DEF ChangeDelivered, SettingsInv, IsNewestSave
<1>2. CASE GetSettings(r)
  <2>1. \A outcome \in {"done", "failed"} : [state |-> outcome, answer |-> settingsRow] \in Reads
    BY DEF Reads, SettingsInv, FormTypeInv
  <2>2. FormTypeInv'
    BY <1>2, <2>1 DEF GetSettings, SettingsInv, FormTypeInv
  <2>3. QED
    BY <1>2, <2>2, StillPending DEF GetSettings, SettingsInv, IsNewestSave
<1>3. CASE Refreshed(r)
  <2>1. /\ reads' = [reads EXCEPT ![r] = NoRead] /\ reads[r] # NoRead
        /\ saveError' = (reads[r].state = "failed")
        /\ UNCHANGED <<pageOpen, settingsRow, updates, settingsChanges, settingEdits>>
    BY <1>3 DEF Refreshed, NoRead
  <2>2. reads[r] \in Reads
    BY <2>1 DEF SettingsInv, FormTypeInv
  <2>3. CASE reads[r].state = "done"
    <3>1. TakeSettings(reads[r].answer) /\ reads[r].answer \in SettingRows
      BY <1>3, <2>2, <2>3 DEF Refreshed, Reads
    <3>2. FormTypeInv'
      BY <2>1, <3>1, Taken DEF SettingsInv, FormTypeInv
    <3>3. QED
      BY <3>1, <3>2, Taken, NothingToSave DEF SettingsInv
  <2>4. CASE reads[r].state # "done"
    <3>1. saveError' /\ UNCHANGED <<settings, pageForm, typed, saveTimer>>
      BY <1>3, <2>1, <2>4 DEF Refreshed
    <3>2. FormTypeInv'
      BY <2>1, <3>1 DEF SettingsInv, FormTypeInv
    <3>3. QED
      BY <2>1, <3>1, <3>2, StillPending DEF SettingsInv
  <2>5. QED
    BY <2>3, <2>4
<1>4. QED
  BY <1>1, <1>2, <1>3

(* Opening and leaving the page take the form from the store.              *)
LEMMA PageStep ==
  ASSUME SettingsInv, OpenPage \/ ClosePage
  PROVE  SettingsInv'
<1>1. /\ pageForm' = settings' /\ settings' = settings /\ typed' \subseteq typed
      /\ saveTimer' \in BOOLEAN /\ pageOpen' \in BOOLEAN
      /\ UNCHANGED <<settingsRow, saveError, reads, settingsChanges, settingEdits>>
  BY DEF OpenPage, ClosePage, SettingsInv, FormTypeInv
<1>2. pageForm' \in [SettingFields -> Typeable]
  BY <1>1, RowsAreForms DEF SettingsInv, FormTypeInv
<1>3. updates' \in [SettingCalls -> Updates \cup {NoUpdate}]
  <2>1. CASE OpenPage
    BY <2>1 DEF OpenPage, SettingsInv, FormTypeInv
  <2>2. CASE ClosePage
    <3>1. ASSUME NEW d \in SettingCalls, updates[d] # NoUpdate
          PROVE  [updates[d] EXCEPT !.own = FALSE] \in Updates
      BY <3>1, UnderWay DEF SettingsInv, Updates
    <3>2. QED
      BY <2>2, <3>1 DEF ClosePage
  <2>3. QED
    BY <2>1, <2>2
<1>4. FormTypeInv'
  BY <1>1, <1>2, <1>3 DEF SettingsInv, FormTypeInv
<1>5. QED
  BY <1>1, <1>4, NothingToSave DEF SettingsInv

(* Every step keeps the invariant.                                         *)
LEMMA SettingsInvNext == SettingsInv /\ [SettingsNext]_settingsVars => SettingsInv'
<1> SUFFICES ASSUME SettingsInv, [SettingsNext]_settingsVars PROVE SettingsInv'
  OBVIOUS
<1>1. CASE UNCHANGED settingsVars
  <2>1. FormTypeInv'
    BY <1>1 DEF settingsVars, SettingsInv, FormTypeInv
  <2>2. QED
    BY <1>1, <2>1, StillPending DEF settingsVars, SettingsInv, IsNewestSave
<1>2. ASSUME NEW f \in SettingFields, NEW v \in Typeable, EditField(f, v) PROVE SettingsInv'
  BY <1>2, EditFieldStep
<1>3. ASSUME NEW c \in SettingCalls, SaveSettings(c) PROVE SettingsInv'
  BY <1>3, SaveSettingsStep
<1>4. ASSUME NEW c \in SettingCalls, ResetDefaults(c) PROVE SettingsInv'
  BY <1>4, OtherUpdateStep, RowsAreForms DEF ResetDefaults
<1>5. ASSUME NEW c \in SettingCalls, NEW f \in SetElsewhere, NEW v \in Storable, ApplyLimit(c, f, v)
      PROVE  SettingsInv'
  BY <1>5, OtherUpdateStep, SentPatches DEF ApplyLimit, SettingsInv
<1>6. ASSUME NEW c \in SettingCalls, StoreUpdate(c) \/ RefuseUpdate(c) PROVE SettingsInv'
  BY <1>6, ServedStep
<1>7. ASSUME NEW c \in SettingCalls, UpdateAnswered(c) PROVE SettingsInv'
  BY <1>7, UpdateAnsweredStep
<1>8. ASSUME NEW r \in SettingReads, ChangeDelivered(r) \/ GetSettings(r) \/ Refreshed(r)
      PROVE  SettingsInv'
  BY <1>8, RefreshStep
<1>9. CASE OpenPage \/ ClosePage
  BY <1>9, PageStep
<1>10. QED
  BY <1>1, <1>2, <1>3, <1>4, <1>5, <1>6, <1>7, <1>8, <1>9 DEF SettingsNext

(* The strengthening: with the types, AutosaveIsSound is inductive.        *)
THEOREM SettingsInvAlways == SettingsSpec => []SettingsInv
BY SettingsInvInit, SettingsInvNext, PTL DEF SettingsSpec

(* Every variable of the settings page stays in its type.                  *)
THEOREM SettingsTypeAlways == SettingsSpec => []SettingsTypeOK
<1>1. SettingsInv => SettingsTypeOK
  BY DEF SettingsInv, FormTypeInv, SettingsTypeOK
<1>2. QED
  BY <1>1, SettingsInvAlways, PTL

(* What the page shows and the store lacks is always on its way or shown   *)
(* as an error, and only what was edited is ever sent.                     *)
THEOREM AutosaveIsSoundAlways == SettingsSpec => []AutosaveIsSound
<1>1. SettingsInv => AutosaveIsSound
  BY DEF SettingsInv
<1>2. QED
  BY <1>1, SettingsInvAlways, PTL

-------------------------------------------------------------------------------
(* CaptureDraft                                                            *)

(* The types; a pause or a save means that a draft was read.               *)
CaptureInv ==
    /\ draft \in Enterable \cup {Unread} /\ capture \in {0, 1, Unread}
    /\ captureTimer \in BOOLEAN /\ captureFailed \in BOOLEAN
    /\ saves \in [CaptureCalls -> Saves \cup {NoSave}]
    /\ captureStored \in 0 .. 1
    /\ statusReads \in [CaptureReads -> StatusReads \cup {NoStatusRead}]
    /\ captureTimer => draft # Unread
    /\ \A c \in CaptureCalls : saves[c] # NoSave => draft # Unread
    /\ DraftIsPending

(* The save whose answer will be heard.                                    *)
IsNewestDraft(c) == saves[c] # NoSave /\ saves[c].newest

(* A name in use belongs to a save with all its fields.                    *)
LEMMA SaveFields ==
  ASSUME CaptureInv, NEW c \in CaptureCalls, saves[c] # NoSave
  PROVE  saves[c] \in Saves /\ saves[c].newest \in BOOLEAN /\ saves[c].snapshot \in Enterable
BY DEF CaptureInv, Saves

(* A state other than that of the placeholder means a save under way.      *)
LEMMA SaveInUse ==
  ASSUME NEW c, saves[c].state # "none"
  PROVE  saves[c] # NoSave
BY DEF NoSave

(* A step that keeps the draft, its pause and the newest save is harmless. *)
LEMMA DraftStillPending ==
  ASSUME CaptureInv,
         UNCHANGED <<draft, capture, captureTimer>>,
         captureStored' \in 0 .. 1,
         statusReads' \in [CaptureReads -> StatusReads \cup {NoStatusRead}],
         captureFailed' \in BOOLEAN, captureFailed => captureFailed',
         saves' \in [CaptureCalls -> Saves \cup {NoSave}],
         \A c \in CaptureCalls : saves[c] = NoSave => saves'[c] = NoSave,
         \A c \in CaptureCalls : IsNewestDraft(c) => captureFailed' \/ IsNewestDraft(c)'
  PROVE  CaptureInv'
<1>1. DraftIsPending'
  BY DEF CaptureInv, DraftIsPending, IsNewestDraft
<1>2. QED
  BY <1>1 DEF CaptureInv

(* Nothing differs before the first answer.                                *)
LEMMA CaptureInvInit == CaptureInit => CaptureInv
<1> SUFFICES ASSUME CaptureInit PROVE CaptureInv
  OBVIOUS
<1>1. PICK first \in CaptureReads :
        statusReads = [r \in CaptureReads |-> IF r = first THEN [state |-> "asked", answer |-> 0]
                                              ELSE NoStatusRead]
  BY DEF CaptureInit
<1>2. statusReads \in [CaptureReads -> StatusReads \cup {NoStatusRead}]
  BY <1>1 DEF StatusReads
<1>3. saves \in [CaptureCalls -> Saves \cup {NoSave}] /\ \A c \in CaptureCalls : saves[c] = NoSave
  BY DEF CaptureInit
<1>4. /\ draft = Unread /\ capture = Unread /\ captureStored = 0
      /\ captureTimer = FALSE /\ captureFailed = FALSE
  BY DEF CaptureInit
<1>5. DraftIsPending
  BY <1>4 DEF DraftIsPending
<1>6. captureTimer \in BOOLEAN /\ captureFailed \in BOOLEAN /\ ~captureTimer
  BY <1>4
<1>7. draft \in Enterable \cup {Unread} /\ capture \in {0, 1, Unread} /\ captureStored \in 0 .. 1
  BY <1>4
<1>8. QED
  BY <1>2, <1>3, <1>5, <1>6, <1>7 DEF CaptureInv

(* The save that takes the place of the pause is the newest.               *)
LEMMA PersistDraftStep ==
  ASSUME CaptureInv, NEW c \in CaptureCalls, PersistDraft(c)
  PROVE  CaptureInv'
<1> DEFINE s == [snapshot |-> draft, newest |-> TRUE, state |-> "sent"]
           older(d) == IF saves[d] = NoSave THEN NoSave ELSE [saves[d] EXCEPT !.newest = FALSE]
<1>1. saves' = [d \in CaptureCalls |-> IF d = c THEN s ELSE older(d)]
  BY DEF PersistDraft
<1>2. draft \in Enterable
  BY DEF PersistDraft, CaptureInv
<1>3. s \in Saves /\ s # NoSave /\ s.newest
  BY <1>2 DEF Saves, NoSave
<1>4. \A d \in CaptureCalls : older(d) \in Saves \cup {NoSave}
  <2>1. ASSUME NEW d \in CaptureCalls, saves[d] # NoSave
        PROVE  [saves[d] EXCEPT !.newest = FALSE] \in Saves
    BY <2>1, SaveFields DEF Saves
  <2>2. QED
    BY <2>1
<1>5. saves' \in [CaptureCalls -> Saves \cup {NoSave}] /\ saves'[c] = s
  BY <1>1, <1>3, <1>4
<1>6. DraftIsPending'
  BY <1>3, <1>5 DEF DraftIsPending
<1>7. /\ captureTimer' = FALSE /\ captureFailed' = FALSE
      /\ UNCHANGED <<draft, capture, captureStored, statusReads>>
  BY DEF PersistDraft
<1>8. draft # Unread
  BY <1>2 DEF Enterable, Unread
<1>9. QED
  BY <1>5, <1>6, <1>7, <1>8 DEF CaptureInv

(* What the back end does with a save does not make it older.              *)
LEMMA SaveServedStep ==
  ASSUME CaptureInv, NEW c \in CaptureCalls, StoreCapture(c) \/ RefuseCapture(c)
  PROVE  CaptureInv'
<1>1. saves[c] # NoSave /\ saves[c] \in Saves
  BY SaveFields DEF StoreCapture, RefuseCapture, NoSave
<1>2. PICK state \in {"done", "failed"} : saves' = [saves EXCEPT ![c].state = state]
  BY DEF StoreCapture, RefuseCapture
<1> DEFINE q == [saves[c] EXCEPT !.state = state]
<1>3. q \in Saves /\ q.newest = saves[c].newest /\ q # NoSave
  BY <1>1 DEF Saves, NoSave
<1>4. saves' = [saves EXCEPT ![c] = q]
  BY <1>2
<1>5. saves' \in [CaptureCalls -> Saves \cup {NoSave}]
  BY <1>3, <1>4 DEF CaptureInv
<1>6. \A d \in CaptureCalls : IsNewestDraft(d) => IsNewestDraft(d)'
  BY <1>3, <1>4 DEF IsNewestDraft, CaptureInv
<1>7. \A d \in CaptureCalls : saves[d] = NoSave => saves'[d] = NoSave
  BY <1>1, <1>4 DEF CaptureInv
<1>8. UNCHANGED <<draft, capture, captureTimer, captureFailed, statusReads>>
  BY DEF StoreCapture, RefuseCapture
<1>9. captureStored' \in 0 .. 1
  BY <1>1 DEF StoreCapture, RefuseCapture, Saves, NormalCapture, Enterable, CaptureInv
<1>10. QED
  BY <1>5, <1>6, <1>7, <1>8, <1>9, DraftStillPending DEF CaptureInv

(* The newest answer compares anew; an older one changes nothing.          *)
LEMMA SaveAnsweredStep ==
  ASSUME CaptureInv, NEW c \in CaptureCalls, SaveAnswered(c)
  PROVE  CaptureInv'
<1> DEFINE q == saves[c]
           answer == NormalCapture(q.snapshot)
<1>1. q # NoSave /\ q.newest \in BOOLEAN /\ q.snapshot \in Enterable /\ draft # Unread
  BY SaveFields DEF SaveAnswered, NoSave, CaptureInv
<1>2. answer \in {0, 1} /\ answer \in Enterable /\ answer # Unread
  BY <1>1 DEF NormalCapture, Enterable, Unread
<1>3. saves' = [saves EXCEPT ![c] = NoSave] /\ UNCHANGED <<captureStored, statusReads>>
  BY DEF SaveAnswered
<1>4. saves' \in [CaptureCalls -> Saves \cup {NoSave}]
  BY <1>3 DEF CaptureInv
<1>5. CASE q.newest /\ q.state = "done"
  <2>1. /\ capture' = answer /\ draft' = Resolved(draft, q.snapshot, answer)
        /\ captureTimer' = PausesAfter(draft', answer) /\ captureFailed' = captureFailed
    BY <1>5 DEF SaveAnswered
  <2>2. draft' \in Enterable /\ draft' # Unread
    BY <1>1, <1>2, <2>1 DEF Resolved, CaptureInv, Enterable, Unread
  <2>3. captureTimer' = (draft' # capture')
    BY <2>1 DEF PausesAfter
  <2>4. DraftIsPending'
    BY <2>3 DEF DraftIsPending
  <2>5. QED
    BY <1>2, <1>3, <1>4, <2>1, <2>2, <2>3, <2>4 DEF CaptureInv
<1>6. CASE ~(q.newest /\ q.state = "done")
  <2>1. /\ captureFailed' = (captureFailed \/ q.newest)
        /\ UNCHANGED <<draft, capture, captureTimer>>
    BY <1>6 DEF SaveAnswered
  <2>2. \A d \in CaptureCalls : IsNewestDraft(d) => captureFailed' \/ IsNewestDraft(d)'
    BY <1>3, <2>1 DEF IsNewestDraft, CaptureInv
  <2>3. \A d \in CaptureCalls : saves[d] = NoSave => saves'[d] = NoSave
    BY <1>3 DEF CaptureInv
  <2>4. captureFailed' \in BOOLEAN /\ (captureFailed => captureFailed')
    BY <1>1, <2>1 DEF CaptureInv
  <2>5. QED
    BY <1>3, <1>4, <2>1, <2>2, <2>3, <2>4, DraftStillPending DEF CaptureInv
<1>7. QED
  BY <1>5, <1>6

(* Refreshes carry what is stored, and their answer is draft and saved.    *)
LEMMA StatusStep ==
  ASSUME CaptureInv, NEW r \in CaptureReads,
         IntegrationChanged(r) \/ ReadStatus(r) \/ StatusAnswered(r)
  PROVE  CaptureInv'
<1>1. CASE IntegrationChanged(r) \/ ReadStatus(r)
  <2>1. \A state \in {"asked", "done", "failed"} :
          [state |-> state, answer |-> captureStored] \in StatusReads
    BY DEF StatusReads, CaptureInv
  <2>2. statusReads' \in [CaptureReads -> StatusReads \cup {NoStatusRead}]
    BY <1>1, <2>1 DEF IntegrationChanged, ReadStatus, CaptureInv
  <2>3. UNCHANGED <<draft, capture, captureStored, captureTimer, saves, captureFailed>>
    BY <1>1 DEF IntegrationChanged, ReadStatus
  <2>4. QED
    BY <2>2, <2>3, DraftStillPending DEF CaptureInv, IsNewestDraft
<1>2. CASE StatusAnswered(r)
  <2>1. statusReads' \in [CaptureReads -> StatusReads \cup {NoStatusRead}]
    BY <1>2 DEF StatusAnswered, CaptureInv
  <2>2. UNCHANGED <<captureStored, saves, captureFailed>>
    BY <1>2 DEF StatusAnswered
  <2>3. CASE statusReads[r].state = "done"
    <3>1. statusReads[r] # NoStatusRead
      BY <2>3 DEF NoStatusRead
    <3>2. statusReads[r].answer \in 0 .. 1
      BY <3>1 DEF StatusReads, CaptureInv
    <3>3. /\ capture' = statusReads[r].answer /\ draft' = statusReads[r].answer
          /\ captureTimer' = FALSE
      BY <1>2, <2>3 DEF StatusAnswered
    <3>4. draft' \in Enterable /\ draft' # Unread /\ capture' \in {0, 1, Unread}
      BY <3>2, <3>3 DEF Enterable, Unread
    <3>5. DraftIsPending'
      BY <3>3 DEF DraftIsPending
    <3>6. QED
      BY <2>1, <2>2, <3>3, <3>4, <3>5 DEF CaptureInv
  <2>4. CASE statusReads[r].state # "done"
    <3>1. UNCHANGED <<draft, capture, captureTimer>>
      BY <1>2, <2>4 DEF StatusAnswered
    <3>2. QED
      BY <2>1, <2>2, <3>1, DraftStillPending DEF CaptureInv, IsNewestDraft
  <2>5. QED
    BY <2>3, <2>4
<1>3. QED
  BY <1>1, <1>2

(* Every step keeps the invariant.                                         *)
LEMMA CaptureInvNext == CaptureInv /\ [CaptureNext]_captureVars => CaptureInv'
<1> SUFFICES ASSUME CaptureInv, [CaptureNext]_captureVars PROVE CaptureInv'
  OBVIOUS
<1>1. CASE UNCHANGED captureVars
  BY <1>1 DEF captureVars, CaptureInv, DraftIsPending
<1>2. ASSUME NEW v \in Enterable, EnterCapture(v) PROVE CaptureInv'
  <2>1. DraftIsPending'
    BY <1>2 DEF EnterCapture, DraftIsPending
  <2>2. v # Unread
    BY DEF Enterable, Unread
  <2>3. QED
    BY <1>2, <2>1, <2>2 DEF EnterCapture, CaptureInv
<1>3. ASSUME NEW c \in CaptureCalls, PersistDraft(c) PROVE CaptureInv'
  BY <1>3, PersistDraftStep
<1>4. ASSUME NEW c \in CaptureCalls, StoreCapture(c) \/ RefuseCapture(c) PROVE CaptureInv'
  BY <1>4, SaveServedStep
<1>5. ASSUME NEW c \in CaptureCalls, SaveAnswered(c) PROVE CaptureInv'
  BY <1>5, SaveAnsweredStep
<1>6. ASSUME NEW v \in 0 .. 1, IntegrationChanges \/ PopupStores(v) PROVE CaptureInv'
  <2>1. /\ UNCHANGED <<draft, capture, captureTimer, saves, statusReads, captureFailed>>
        /\ captureStored' \in 0 .. 1
    BY <1>6 DEF IntegrationChanges, PopupStores, CaptureInv
  <2>2. QED
    BY <2>1, DraftStillPending DEF CaptureInv, IsNewestDraft
<1>7. ASSUME NEW r \in CaptureReads, IntegrationChanged(r) \/ ReadStatus(r) \/ StatusAnswered(r)
      PROVE  CaptureInv'
  BY <1>7, StatusStep
<1>8. CASE IntegrationChanges
  BY <1>6, <1>8
<1>9. QED
  BY <1>1, <1>2, <1>3, <1>4, <1>5, <1>6, <1>7, <1>8 DEF CaptureNext

(* A draft that differs from what is saved has a pause, a newest save      *)
(* under way, or a failure that a toast told.                              *)
THEOREM DraftIsPendingAlways == CaptureSpec => []DraftIsPending
<1>1. CaptureInv => DraftIsPending
  BY DEF CaptureInv
<1>2. QED
  BY <1>1, CaptureInvInit, CaptureInvNext, PTL DEF CaptureSpec

===============================================================================
