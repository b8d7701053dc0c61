---------------------------- MODULE StoreProofs ----------------------------
(***************************************************************************)
(* The store implements AtomicStore, for any number of calls, any updates  *)
(* and any history of failures, crashes and restarts.                      *)
(***************************************************************************)
EXTENDS SnapshotStore, TLAPS

-----------------------------------------------------------------------------
(***************************************************************************)
(* The inductive invariant: memory is what is on disk, except for the      *)
(* moment between the rename and the swap, and what an update writes and   *)
(* renames is the memory it found with its own change appended.            *)
(***************************************************************************)

\* A call that holds the lock.
Inside == {"cloned", "writing", "written", "renamed"}

Contents == Seq(Updates)

Typed ==
    /\ running \in BOOLEAN
    /\ memory \in Contents
    /\ disk \in Contents
    /\ writer \in Calls \cup {Nobody}
    /\ step \in [Calls -> Unfinished \cup {"idle", "ok", "failed", "lost"}]
    /\ draft \in [Calls -> Contents]
    /\ request \in [Calls -> Updates \cup {NoUpdate}]
    /\ seen \in [Calls -> Contents]

\* Whoever is inside holds the lock, in a process that is running.
Exclusive ==
    /\ \A c \in Calls : step[c] \in Inside => running /\ writer = c
    /\ \A c \in Calls : step[c] \in Unfinished => running /\ request[c] \in Updates

Drafted ==
    \A c \in Calls :
        /\ step[c] \in Inside => draft[c] = Append(memory, request[c])
        /\ step[c] = "written" => tmp = draft[c]
        /\ step[c] = "renamed" => disk = draft[c]

Mirrored == running /\ (\A c \in Calls : step[c] # "renamed") => memory = disk

StoreInv == Typed /\ Exclusive /\ Drafted /\ Mirrored

LEMMA Initially == StoreInit => StoreInv
<1> SUFFICES ASSUME StoreInit PROVE StoreInv
  OBVIOUS
<1> USE DEF StoreInit
<1>1. Typed
  BY LoadedAssumption DEF Typed, Contents, Unfinished
<1>2. Exclusive /\ Drafted /\ Mirrored
  BY DEF Exclusive, Drafted, Mirrored, Inside, Unfinished
<1>3. QED
  BY <1>1, <1>2 DEF StoreInv

LEMMA StepType ==
    ASSUME StoreInv, StoreNext
    PROVE  Typed'
<1> USE DEF StoreInv, Typed, Contents, Unfinished
<1>1. ASSUME NEW c \in Calls, Read(c) PROVE Typed'
  BY <1>1 DEF Read
<1>2. ASSUME NEW c \in Calls, NEW u \in Updates, BeginUpdate(c, u) PROVE Typed'
  BY <1>2 DEF BeginUpdate, MoveTo
<1>3. ASSUME NEW c \in Calls, LockAndChange(c) PROVE Typed'
  <2>1. request[c] \in Updates
    BY <1>3 DEF LockAndChange, At, Exclusive
  <2>2. Append(memory, request[c]) \in Seq(Updates)
    BY <2>1
  <2>3. QED
    BY <1>3, <2>2 DEF LockAndChange, MoveTo
<1>4. ASSUME NEW c \in Calls, UpdateStep(c) PROVE Typed'
  <2>1. ASSUME OpenTmp(c) \/ WriteTmp(c) PROVE Typed'
    BY <2>1 DEF OpenTmp, WriteTmp, MoveTo
  <2>2. ASSUME Rename(c) PROVE Typed'
    <3>1. tmp = draft[c]
      BY <2>2 DEF Rename, At, Drafted
    <3>2. QED
      BY <2>2, <3>1 DEF Rename, MoveTo
  <2>3. ASSUME FailUpdate(c) \/ SwapAndUnlock(c) PROVE Typed'
    BY <2>3 DEF FailUpdate, SwapAndUnlock, MoveTo
  <2>4. QED
    BY <1>4, <2>1, <2>2, <2>3 DEF UpdateStep
<1>5. ASSUME StoreCrash PROVE Typed'
  <2>1. step' \in [Calls -> Unfinished \cup {"idle", "ok", "failed", "lost"}]
    BY <1>5 DEF StoreCrash
  <2>2. memory' \in Seq(Updates)
    BY <1>5 DEF StoreCrash
  <2>3. QED
    BY <1>5, <2>1, <2>2 DEF StoreCrash
<1>6. ASSUME StoreRestart PROVE Typed'
  BY <1>6 DEF StoreRestart
<1>7. QED
  BY StoreNext, <1>1, <1>2, <1>3, <1>4, <1>5, <1>6 DEF StoreNext

\* Nobody else is inside when a call takes the lock, or while it holds it.
LEMMA OnlyOneInside ==
    ASSUME StoreInv, NEW c \in Calls, writer = Nobody \/ step[c] \in Inside
    PROVE  \A d \in Calls \ {c} : step[d] \notin Inside
BY NobodyAssumption DEF StoreInv, Exclusive

LEMMA StepKeeps ==
    ASSUME StoreInv, StoreNext
    PROVE  Exclusive' /\ Drafted' /\ Mirrored'
<1> USE DEF StoreInv, Typed, Exclusive, Drafted, Mirrored, Inside, Unfinished, At, MoveTo
<1>1. ASSUME NEW c \in Calls, Read(c) PROVE Exclusive' /\ Drafted' /\ Mirrored'
  BY <1>1 DEF Read
<1>2. ASSUME NEW c \in Calls, NEW u \in Updates, BeginUpdate(c, u)
      PROVE  Exclusive' /\ Drafted' /\ Mirrored'
  BY <1>2 DEF BeginUpdate
<1>3. ASSUME NEW c \in Calls, LockAndChange(c) PROVE Exclusive' /\ Drafted' /\ Mirrored'
  <2>1. \A d \in Calls \ {c} : step[d] \notin Inside
    BY <1>3, OnlyOneInside DEF LockAndChange
  <2>2. QED
    BY <1>3, <2>1 DEF LockAndChange
<1>4. ASSUME NEW c \in Calls, UpdateStep(c) PROVE Exclusive' /\ Drafted' /\ Mirrored'
  <2>0. step[c] \in Inside
    BY <1>4 DEF UpdateStep, OpenTmp, WriteTmp, Rename, FailUpdate, SwapAndUnlock
  <2>1. \A d \in Calls \ {c} : step[d] \notin Inside
    BY <2>0, OnlyOneInside
  <2>2. CASE OpenTmp(c)
    BY <2>1, <2>2 DEF OpenTmp
  <2>3. CASE WriteTmp(c)
    BY <2>1, <2>3 DEF WriteTmp
  <2>4. CASE Rename(c)
    BY <2>1, <2>4 DEF Rename
  <2>5. CASE FailUpdate(c)
    BY <2>1, <2>5 DEF FailUpdate
  <2>6. CASE SwapAndUnlock(c)
    BY <2>1, <2>6 DEF SwapAndUnlock
  <2>7. QED
    BY <1>4, <2>2, <2>3, <2>4, <2>5, <2>6 DEF UpdateStep
<1>5. ASSUME StoreCrash PROVE Exclusive' /\ Drafted' /\ Mirrored'
  BY <1>5 DEF StoreCrash
<1>6. ASSUME StoreRestart PROVE Exclusive' /\ Drafted' /\ Mirrored'
  BY <1>6 DEF StoreRestart
<1>7. QED
  BY StoreNext, <1>1, <1>2, <1>3, <1>4, <1>5, <1>6 DEF StoreNext

LEMMA Inductive == StoreInv /\ [StoreNext]_storeVars => StoreInv'
<1> SUFFICES ASSUME StoreInv, [StoreNext]_storeVars PROVE StoreInv'
  OBVIOUS
<1>1. CASE StoreNext
  BY <1>1, StepType, StepKeeps DEF StoreInv
<1>2. CASE UNCHANGED storeVars
  BY <1>2 DEF storeVars, StoreInv, Typed, Exclusive, Drafted, Mirrored
<1>3. QED
  BY <1>1, <1>2

-----------------------------------------------------------------------------
(***************************************************************************)
(* The refinement                                                          *)
(***************************************************************************)

\* What is renamed is what was on disk and the call's own change.
LEMMA RenameAppends ==
    ASSUME StoreInv, NEW c \in Calls, Rename(c)
    PROVE  disk' = Append(disk, request[c])
<1>1. \A d \in Calls : step[d] # "renamed"
  BY OnlyOneInside DEF Rename, At, Inside
<1>2. QED
  BY <1>1 DEF Rename, At, StoreInv, Exclusive, Drafted, Mirrored, Inside

\* A move of one call is a move of its abstract status, or none.
LEMMA MoveMaps ==
    ASSUME step \in [Calls -> Unfinished \cup {"idle", "ok", "failed", "lost"}],
           NEW c \in Calls, NEW s, MoveTo(c, s)
    PROVE  [d \in Calls |-> AbstractStatus(step'[d])]
              = [[d \in Calls |-> AbstractStatus(step[d])] EXCEPT ![c] = AbstractStatus(s)]
BY DEF MoveTo

LEMMA StepMaps ==
    ASSUME StoreInv, [StoreNext]_storeVars
    PROVE  [Promise!Next]_(Promise!vars)
<1> DEFINE status == [c \in Calls |-> AbstractStatus(step[c])]
<1> USE DEF StoreInv, Typed, At
<1>1. ASSUME NEW c \in Calls, Read(c) PROVE Promise!Read(c)
  <2>1. memory = disk
    BY <1>1, NobodyAssumption DEF Read, Exclusive, Mirrored, Inside
  <2>2. status' = status
    BY <1>1 DEF Read
  <2>3. QED
    BY <1>1, <2>1, <2>2 DEF Read, Promise!Read
<1>2. ASSUME NEW c \in Calls, NEW u \in Updates, BeginUpdate(c, u) PROVE Promise!Ask(c, u)
  <2>1. status' = [status EXCEPT ![c] = "open"]
    BY <1>2, MoveMaps DEF BeginUpdate, AbstractStatus
  <2>2. status[c] = "idle"
    BY <1>2 DEF BeginUpdate, AbstractStatus
  <2>3. QED
    BY <1>2, <2>1, <2>2 DEF BeginUpdate, Promise!Ask
<1>3. ASSUME NEW c \in Calls, LockAndChange(c) \/ OpenTmp(c) \/ WriteTmp(c)
      PROVE  UNCHANGED Promise!vars
  <2>1. status' = status
    BY <1>3 DEF LockAndChange, OpenTmp, WriteTmp, MoveTo, AbstractStatus
  <2>2. QED
    BY <1>3, <2>1 DEF LockAndChange, OpenTmp, WriteTmp, Promise!vars
<1>4. ASSUME NEW c \in Calls, Rename(c) PROVE Promise!Commit(c)
  <2>1. status' = [status EXCEPT ![c] = "made"]
    BY <1>4, MoveMaps DEF Rename, AbstractStatus
  <2>2. status[c] = "open"
    BY <1>4 DEF Rename, AbstractStatus
  <2>3. QED
    BY <1>4, <2>1, <2>2, RenameAppends DEF Rename, Promise!Commit
<1>5. ASSUME NEW c \in Calls, FailUpdate(c) PROVE Promise!Answer(c)
  <2>1. status' = [status EXCEPT ![c] = "failed"]
    BY <1>5, MoveMaps DEF FailUpdate, AbstractStatus
  <2>2. status[c] = "open"
    BY <1>5 DEF FailUpdate, AbstractStatus
  <2>3. QED
    BY <1>5, <2>1, <2>2 DEF FailUpdate, Promise!Answer
<1>6. ASSUME NEW c \in Calls, SwapAndUnlock(c) PROVE Promise!Answer(c)
  <2>1. status' = [status EXCEPT ![c] = "ok"]
    BY <1>6, MoveMaps DEF SwapAndUnlock, AbstractStatus
  <2>2. status[c] = "made"
    BY <1>6 DEF SwapAndUnlock, AbstractStatus
  <2>3. QED
    BY <1>6, <2>1, <2>2 DEF SwapAndUnlock, Promise!Answer
<1>7. ASSUME StoreCrash PROVE Promise!Crash
  <2>1. status' = [c \in Calls |-> IF status[c] \in {"open", "made"} THEN "lost" ELSE status[c]]
    BY <1>7 DEF StoreCrash, AbstractStatus, Unfinished
  <2>2. QED
    BY <1>7, <2>1 DEF StoreCrash, Promise!Crash
<1>8. ASSUME StoreRestart \/ UNCHANGED storeVars PROVE UNCHANGED Promise!vars
  BY <1>8 DEF StoreRestart, storeVars, Promise!vars
<1>9. QED
  BY <1>1, <1>2, <1>3, <1>4, <1>5, <1>6, <1>7, <1>8 DEF StoreNext, UpdateStep, Promise!Next

LEMMA InitMaps == StoreInit => Promise!Init
BY DEF StoreInit, Promise!Init, AbstractStatus

\* Handlers that share the store, its failures and its crashes included, see it
\* change in whole updates that stay (store.go:121, update).
THEOREM StoreIsAtomic == StoreSpec => AtomicUpdates
<1>1. StoreSpec => []StoreInv
  BY Initially, Inductive, PTL DEF StoreSpec
<1>2. QED
  BY <1>1, InitMaps, StepMaps, PTL DEF StoreSpec, AtomicUpdates, Promise!Spec
=============================================================================
