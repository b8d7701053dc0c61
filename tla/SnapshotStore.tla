--------------------------- MODULE SnapshotStore ---------------------------
(***************************************************************************)
(* internal/store/store.go with the lock, the temporary file and the       *)
(* rename behind every update, in a process that may die between any two   *)
(* steps and be started again on what is on disk.                          *)
(*                                                                         *)
(* The contents of the database are the sequence of updates that led to    *)
(* it; an update appends itself, whatever maps it writes. A call makes at  *)
(* most one update, as every handler does.                                 *)
(***************************************************************************)
EXTENDS Sequences

CONSTANTS
    Calls,      \* calls of handlers, each on a goroutine of its own
    Updates,    \* what an update may write
    NoUpdate,
    Loaded,     \* what an earlier process may have left on disk
    Nobody,
    Torn        \* a file that is not a whole snapshot

ASSUME LoadedAssumption == Loaded \subseteq Seq(Updates)
ASSUME NobodyAssumption == Nobody \notin Calls
ASSUME TornAssumption == Torn \notin Seq(Updates)

VARIABLES
    running,    \* the process is up
    memory,     \* Store.data
    disk,       \* snapshot.json, missing and empty taken together
    tmp,        \* snapshot.tmp
    writer,     \* who holds Store.mu for writing
    step,       \* where each call is inside update
    draft,      \* update's local "next"
    request,    \* the update each call asks for
    seen        \* what each call read last

storeVars == <<running, memory, disk, tmp, writer, step, draft, request, seen>>

Unfinished == {"waiting", "cloned", "writing", "written", "renamed"}

StoreInit ==
    /\ running = TRUE
    /\ disk \in Loaded
    /\ memory = disk
    /\ tmp = Torn
    /\ writer = Nobody
    /\ step = [c \in Calls |-> "idle"]
    /\ draft = [c \in Calls |-> << >>]
    /\ request = [c \in Calls |-> NoUpdate]
    /\ seen = [c \in Calls |-> << >>]

-----------------------------------------------------------------------------
(***************************************************************************)
(* Reading: a lookup copies what it needs under the read lock.             *)
(***************************************************************************)

Read(c) ==
    /\ running
    /\ writer = Nobody
    /\ seen' = [seen EXCEPT ![c] = memory]
    /\ UNCHANGED <<running, memory, disk, tmp, writer, step, draft, request>>

-----------------------------------------------------------------------------
(***************************************************************************)
(* Store.update, one action per step that another goroutine or a crash can *)
(* tell apart.                                                             *)
(***************************************************************************)

At(c, s) == running /\ step[c] = s

MoveTo(c, s) == step' = [step EXCEPT ![c] = s]

\* The call reaches s.mu.Lock().
BeginUpdate(c, u) ==
    /\ At(c, "idle")
    /\ MoveTo(c, "waiting")
    /\ request' = [request EXCEPT ![c] = u]
    /\ UNCHANGED <<running, memory, disk, tmp, writer, draft, seen>>

\* The lock is taken, the data cloned, changed and cloned again.
LockAndChange(c) ==
    /\ At(c, "waiting")
    /\ writer = Nobody
    /\ writer' = c
    /\ draft' = [draft EXCEPT ![c] = Append(memory, request[c])]
    /\ MoveTo(c, "cloned")
    /\ UNCHANGED <<running, memory, disk, tmp, request, seen>>

\* os.WriteFile truncates the temporary file, then fills it.
OpenTmp(c) ==
    /\ At(c, "cloned")
    /\ tmp' = Torn
    /\ MoveTo(c, "writing")
    /\ UNCHANGED <<running, memory, disk, writer, draft, request, seen>>

WriteTmp(c) ==
    /\ At(c, "writing")
    /\ tmp' = draft[c]
    /\ MoveTo(c, "written")
    /\ UNCHANGED <<running, memory, disk, writer, draft, request, seen>>

Rename(c) ==
    /\ At(c, "written")
    /\ disk' = tmp
    /\ tmp' = Torn
    /\ MoveTo(c, "renamed")
    /\ UNCHANGED <<running, memory, writer, draft, request, seen>>

\* Slip: the memory has been changed before the file is written.
FailAfterSwap(c) ==
    /\ At(c, "cloned") \/ At(c, "writing") \/ At(c, "written")
    /\ writer' = Nobody
    /\ memory' = draft[c]
    /\ MoveTo(c, "failed")
    /\ UNCHANGED <<running, disk, tmp, draft, request, seen>>

\* Slip: the lock is released on the way out of a good update only.
FailLocked(c) ==
    /\ At(c, "cloned") \/ At(c, "writing") \/ At(c, "written")
    /\ MoveTo(c, "failed")
    /\ UNCHANGED <<running, memory, disk, tmp, writer, draft, request, seen>>

\* Writing or renaming fails: update returns before it swaps.
FailUpdate(c) ==
    /\ At(c, "cloned") \/ At(c, "writing") \/ At(c, "written")
    /\ writer' = Nobody
    /\ MoveTo(c, "failed")
    /\ UNCHANGED <<running, memory, disk, tmp, draft, request, seen>>

\* s.data = next, and the deferred unlock.
SwapAndUnlock(c) ==
    /\ At(c, "renamed")
    /\ memory' = draft[c]
    /\ writer' = Nobody
    /\ MoveTo(c, "ok")
    /\ UNCHANGED <<running, disk, tmp, draft, request, seen>>

UpdateStep(c) ==
    \/ OpenTmp(c)
    \/ WriteTmp(c)
    \/ Rename(c)
    \/ FailUpdate(c)
    \/ SwapAndUnlock(c)

-----------------------------------------------------------------------------
(***************************************************************************)
(* The process dies, and is started again by store.New.                    *)
(***************************************************************************)

StoreCrash ==
    /\ running
    /\ running' = FALSE
    /\ memory' = << >>
    /\ writer' = Nobody
    /\ step' = [c \in Calls |-> IF step[c] \in Unfinished THEN "lost" ELSE step[c]]
    /\ UNCHANGED <<disk, tmp, draft, request, seen>>

StoreRestart ==
    /\ ~running
    /\ disk # Torn
    /\ running' = TRUE
    /\ memory' = disk
    /\ UNCHANGED <<disk, tmp, writer, step, draft, request, seen>>

StoreNext ==
    \/ \E c \in Calls :
        \/ Read(c)
        \/ \E u \in Updates : BeginUpdate(c, u)
        \/ LockAndChange(c)
        \/ UpdateStep(c)
    \/ StoreCrash
    \/ StoreRestart

StoreSpec == StoreInit /\ [][StoreNext]_storeVars

-----------------------------------------------------------------------------
(***************************************************************************)
(* The store implements AtomicStore: an update happens when the temporary  *)
(* file is renamed.                                                        *)
(***************************************************************************)

AbstractStatus(s) ==
    IF s \in {"waiting", "cloned", "writing", "written"} THEN "open"
    ELSE IF s = "renamed" THEN "made" ELSE s

Promise == INSTANCE AtomicStore
    WITH data <- disk, status <- [c \in Calls |-> AbstractStatus(step[c])]

\* Handlers that share the store, its failures and its crashes included, see
\* it change in whole updates that stay: what a lookup returned, in memory, is
\* what a restart would load.
AtomicUpdates == Promise!Spec
=============================================================================
