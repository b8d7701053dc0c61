------------------------- MODULE ConcurrentService -------------------------
(***************************************************************************)
(* The handlers as goroutines that interleave: each finds out which core's *)
(* mutex it needs, takes it, looks its records up one after the other, and *)
(* decides and writes on what it has read. The two reading calls,          *)
(* Available and GetPrecheck, take no mutex. Every lookup and every update *)
(* of the store is one step, as SnapshotStore shows it to be.              *)
(***************************************************************************)
EXTENDS SerialService, FiniteSets

CONSTANT Nobody

ASSUME NobodyAssumption == Nobody \notin Calls

VARIABLES
    at,         \* the step each goroutine makes next
    holder,     \* who holds the mutex of each core
    found,      \* the core named by the case's first lookup, or the snapshot
                \* GetPrecheck was asked about
    read,       \* what the handler has read since
    stored,     \* history: the snapshots the prechecks of a case have saved, if
                \* anybody asks about them
    truths      \* history: the answers that were true at some moment of a
                \* reading call

threadVars == <<at, holder, found, read, stored, truths>>
allVars == <<vars, threadVars>>

\* The lookups each handler makes, in its order. (The snapshot a case carries is
\* part of its record here. Reading it, and reading the case once more under the
\* same mutex, as snapshotValidity does, are left out.)
NextLookup(kind, lookup) ==
    CASE lookup = "none" -> IF kind \in OnCase THEN "case" ELSE "core"
      [] lookup = "case" -> IF kind \in {"create", "revise", "return"} THEN "over" ELSE "core"
      [] lookup = "core" -> IF kind = "create" THEN "case"
                            ELSE IF kind \in {"execute", "freeze"} THEN "over" ELSE "cases"
      [] lookup = "cases" -> "over"

\* Slip: the mutex is taken for the update only.
LockToSave(kind, step) ==
    LET lookup == NextLookup(kind, IF step \in {"begin", "lookup"} THEN "none" ELSE step)
    IN CASE step = "begin" /\ kind \in OnCase \ Reading -> "lookup"
         [] step = "lock" -> "decide"
         [] OTHER -> IF lookup # "over" THEN lookup ELSE IF kind \in Reading THEN "answer" ELSE "lock"

\* The step that follows a step. A handler that changes state makes its lookups
\* under the mutex of a core, named by the request or by an earlier lookup of
\* the case.
Following(kind, step) ==
    LET lookup == NextLookup(kind, IF step \in {"begin", "lock"} THEN "none" ELSE step)
    IN CASE step = "begin" /\ kind \notin Reading -> IF kind \in OnCase THEN "lookup" ELSE "lock"
         [] step = "lookup" -> "lock"
         [] OTHER -> IF lookup # "over" THEN lookup ELSE IF kind \in Reading THEN "answer" ELSE "decide"

Nothing == [case |-> None, core |-> None, cases |-> None]

Active(k, all) == {c \in Cases : all[c] # None /\ all[c].core = k /\ all[c].status # "Frozen"}

\* What a reading call says on such records: the mass budget of Available (with
\* a reserve of 0 and a sum that stays positive), or whether snapshot p is valid.
View(q, rec, core, all, p) ==
    IF q.kind = "available" THEN [budget |-> core.mass - Cardinality(Active(q.core, all))]
    ELSE [valid |-> p = Snapshot(rec, core, Rivals(q.case, rec.core, all))]

\* ... and what it would say if the present were all it looked at.
Truth(t, q) ==
    IF q.kind = "available" THEN View(q, None, cores[q.core], cases, None)
    ELSE View(q, cases[q.case], cores[cases[q.case].core], cases, found[t])

Asking(t) == call[t] # None /\ call[t].kind \in Reading

-----------------------------------------------------------------------------

CInit ==
    /\ Init
    /\ at = [t \in Calls |-> "idle"]
    /\ holder = [k \in Cores |-> Nobody]
    /\ found = [t \in Calls |-> None]
    /\ read = [t \in Calls |-> Nothing]
    /\ stored = [c \in Cases |-> {}]
    /\ truths = [t \in Calls |-> {}]

\* A request arrives. GetPrecheck is asked about any snapshot a precheck of its
\* case has ever saved, the one the case carries or an older one. (A digest that
\* is not stored, or is another case's, is answered "not found": left out.)
Begin(t, q) ==
    /\ Ask(t, q)
    /\ at' = [at EXCEPT ![t] = Following(q.kind, "begin")]
    /\ \E p \in (IF q.kind = "validity" THEN stored[q.case] ELSE {None}) : found' = [found EXCEPT ![t] = p]
    /\ truths' = [truths EXCEPT ![t] = IF q.kind \in Reading THEN {Truth(t, q)'} ELSE {}]
    /\ UNCHANGED <<holder, read, stored>>

At(t, step) == at[t] = step

Advance(t) == at' = [at EXCEPT ![t] = Following(call[t].kind, @)]

\* The call is over: its mutex is unlocked, its variables are gone.
Return(t) ==
    /\ call' = [call EXCEPT ![t] = None]
    /\ at' = [at EXCEPT ![t] = "idle"]
    /\ holder' = [k \in Cores |-> IF holder[k] = t THEN Nobody ELSE holder[k]]
    /\ found' = [found EXCEPT ![t] = None]
    /\ read' = [read EXCEPT ![t] = Nothing]

\* The first st.Case(id).
Lookup(t) ==
    /\ At(t, "lookup")
    /\ cases[call[t].case] # None
    /\ found' = [found EXCEPT ![t] = cases[call[t].case].core]
    /\ Advance(t)
    /\ UNCHANGED <<vars, holder, read, stored, truths>>

NotFound(t) ==
    /\ At(t, "lookup")
    /\ cases[call[t].case] = None
    /\ Return(t)
    /\ UNCHANGED <<records, stored, truths>>

CoreToLock(t) == IF call[t].core # None THEN call[t].core ELSE found[t]

\* Slip: a mutex nobody else knows.
PassLock(t) ==
    /\ At(t, "lock")
    /\ Advance(t)
    /\ UNCHANGED <<vars, holder, found, read, stored, truths>>

Lock(t) ==
    /\ At(t, "lock")
    /\ holder[CoreToLock(t)] = Nobody
    /\ holder' = [holder EXCEPT ![CoreToLock(t)] = t]
    /\ Advance(t)
    /\ UNCHANGED <<vars, found, read, stored, truths>>

Keep(t, seen) ==
    /\ read' = [read EXCEPT ![t] = seen]
    /\ Advance(t)
    /\ UNCHANGED <<vars, holder, found, stored, truths>>

ReadCase(t) == At(t, "case") /\ Keep(t, [read[t] EXCEPT !.case = cases[call[t].case]])

\* The core a call is about: named in the request, or by the case as last read.
CoreRead(t) == IF call[t].core # None THEN call[t].core ELSE read[t].case.core

ReadCore(t) == At(t, "core") /\ Keep(t, [read[t] EXCEPT !.core = cores[CoreRead(t)]])

ReadCases(t) == At(t, "cases") /\ Keep(t, [read[t] EXCEPT !.cases = cases])

AskedAbout == {q.case : q \in {r \in Requests : r.kind = "validity"}}

\* SavePrecheck keeps the snapshot beside the case record.
Store(q, p) ==
    stored' = IF q.kind = "precheck" /\ q.case \in AskedAbout
              THEN [stored EXCEPT ![q.case] = @ \cup {p}] ELSE stored

\* The handler judges what it has read, saves what it makes of it, or not.
Decide(t) ==
    LET q      == call[t]
        rec    == read[t].case
        k      == CoreRead(t)
        rivals == Rivals(q.case, k, read[t].cases)
    IN /\ At(t, "decide")
       /\ IF Accepts(q, rec, read[t].core, rivals)
          THEN Write(q, k, rec, read[t].core, rivals) /\ Store(q, Snapshot(rec, read[t].core, rivals))
          ELSE UNCHANGED <<records, stored>>
       /\ Return(t)
       /\ truths' = [u \in Calls |-> truths[u] \cup IF Asking(u) THEN {Truth(u, call[u])'} ELSE {}]

\* Available and GetPrecheck put together what they have read.
Told(t) == View(call[t], read[t].case, read[t].core, read[t].cases, found[t])

AnswerReader(t) ==
    /\ At(t, "answer")
    /\ Return(t)
    /\ UNCHANGED <<records, stored, truths>>

CNext ==
    \E t \in Calls :
        \/ \E q \in Requests : Begin(t, q)
        \/ Lookup(t) \/ NotFound(t) \/ Lock(t)
        \/ ReadCase(t) \/ ReadCore(t) \/ ReadCases(t)
        \/ Decide(t) \/ AnswerReader(t)

CSpec == CInit /\ [][CNext]_allVars

-----------------------------------------------------------------------------

\* The creations of a case id name one core.
OneCoreEach ==
    \A q, r \in Requests :
        q.kind = "create" /\ r.kind = "create" /\ q.case = r.case => q.core = r.core

\* Whatever a handler has read under its mutex is still so when it decides:
\* its case, its core and the rivals of its case. This is what lets
\* SamplingWorkflow treat a call as one step. It rests on OneCoreEach.
SeenStillHolds ==
    \A t \in Calls : At(t, "decide") =>
        /\ call[t].case # None => read[t].case = cases[call[t].case]
        /\ read[t].core # None => read[t].core = cores[CoreRead(t)]
        /\ read[t].cases # None =>
              Rivals(call[t].case, CoreRead(t), read[t].cases) = Rivals(call[t].case, CoreRead(t), cases)

\* The concurrent handlers have the effect of some order of whole calls, each
\* made between its request and its return.
Serializable == Spec

\* A "no longer valid" from GetPrecheck is true when it is given, although it
\* is put together from four lookups: what was stale at any of them still is.
StaleAnswersAreTrue ==
    \A t \in Calls :
        At(t, "answer") /\ Told(t) = [valid |-> FALSE] => Truth(t, call[t]) = [valid |-> FALSE]

-----------------------------------------------------------------------------

\* The handler that creates a case refuses an id that exists: no case is ever
\* replaced by a new one. (service.go:166, "CASE_EXISTS".)
CasesAreCreatedOnce ==
    [][\A c \in Cases : cases[c] # None => cases'[c] # None /\ cases'[c].core = cases[c].core]_cases

\* What a reading call answers was true at some moment of the call.
AnswersWereTrue == \A t \in Calls : At(t, "answer") => Told(t) \in truths[t]
=============================================================================
