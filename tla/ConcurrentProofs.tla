-------------------------- MODULE ConcurrentProofs --------------------------
(***************************************************************************)
(* The concurrent handlers implement the serial ones, for any number of    *)
(* goroutines, cores and cases, as long as no case id is created on two    *)
(* cores. The inductive invariant says, step by step of a handler, what it *)
(* has read and which mutex protects it.                                   *)
(***************************************************************************)
EXTENDS ConcurrentService, TLAPS

-----------------------------------------------------------------------------
(***************************************************************************)
(* The steps of each kind of request, and what has been read before each.  *)
(***************************************************************************)

Kinds == OnCase \cup OnCore \cup {"create"}

\* The kinds that judge the rivals of a case, or revise a core.
Judging == {"precheck", "submit", "authorize", "reviseCore"}

Steps == {"idle", "lookup", "lock", "case", "core", "cases", "decide", "answer"}

StepsOf(kind) ==
    CASE kind = "create" -> {"lock", "core", "case", "decide"}
      [] kind = "reviseCore" -> {"lock", "core", "cases", "decide"}
      [] kind = "available" -> {"core", "cases", "answer"}
      [] kind = "validity" -> {"case", "core", "cases", "answer"}
      [] kind \in {"precheck", "submit", "authorize"} ->
            {"lookup", "lock", "case", "core", "cases", "decide"}
      [] kind \in {"revise", "return"} -> {"lookup", "lock", "case", "decide"}
      [] kind \in {"execute", "freeze"} -> {"lookup", "lock", "case", "core", "decide"}

CaseSeen(kind, step) ==
    IF kind = "create" THEN step = "decide"
    ELSE kind \in OnCase /\ step \in {"core", "cases", "decide", "answer"}

CoreSeen(kind, step) ==
    \/ step = "cases"
    \/ step = "case" /\ kind = "create"
    \/ step = "decide" /\ kind \notin {"revise", "return"}

CasesSeen(kind, step) == step = "decide" /\ kind \in Judging

USE DEF Reading

\* What a request names.
LEMMA RequestParts ==
    ASSUME NEW q \in Request
    PROVE  /\ q.kind \in Kinds
           /\ q.kind = "create" => q.case \in Cases /\ q.core \in Cores
           /\ q.kind \in OnCase => q.case \in Cases /\ q.core = None
           /\ q.kind \in OnCore => q.case = None /\ q.core \in Cores
BY DEF Request, Kinds, OnCase, OnCore

\* The step after each step.
LEMMA FirstStep ==
    ASSUME NEW kind \in Kinds
    PROVE  /\ Following(kind, "begin") \in StepsOf(kind)
           /\ Following(kind, "begin") \in {"lookup", "lock"} <=> kind \notin Reading
           /\ kind \in OnCase \ Reading => Following(kind, "begin") = "lookup"
           /\ kind = "available" => Following(kind, "begin") = "core"
           /\ kind = "validity" => Following(kind, "begin") = "case"
BY DEF Kinds, OnCase, OnCore, Following, NextLookup, StepsOf

LEMMA AfterLookup ==
    ASSUME NEW kind \in Kinds, "lookup" \in StepsOf(kind)
    PROVE  /\ kind \in OnCase \ Reading
           /\ Following(kind, "lookup") = "lock"
           /\ "lock" \in StepsOf(kind)
BY DEF Kinds, OnCase, OnCore, Following, NextLookup, StepsOf

LEMMA AfterLock ==
    ASSUME NEW kind \in Kinds, "lock" \in StepsOf(kind)
    PROVE  /\ kind \notin Reading
           /\ Following(kind, "lock") = IF kind \in OnCase THEN "case" ELSE "core"
           /\ Following(kind, "lock") \in StepsOf(kind)
BY DEF Kinds, OnCase, OnCore, Following, NextLookup, StepsOf

LEMMA AfterCase ==
    ASSUME NEW kind \in Kinds, "case" \in StepsOf(kind)
    PROVE  /\ kind = "create" \/ kind \in OnCase
           /\ Following(kind, "case") = IF kind \in {"create", "revise", "return"} THEN "decide" ELSE "core"
           /\ Following(kind, "case") \in StepsOf(kind)
BY DEF Kinds, OnCase, OnCore, Following, NextLookup, StepsOf

LEMMA AfterCore ==
    ASSUME NEW kind \in Kinds, "core" \in StepsOf(kind)
    PROVE  /\ kind \notin {"revise", "return"}
           /\ Following(kind, "core") = IF kind = "create" THEN "case"
                                       ELSE IF kind \in {"execute", "freeze"} THEN "decide" ELSE "cases"
           /\ Following(kind, "core") \in StepsOf(kind)
BY DEF Kinds, OnCase, OnCore, Following, NextLookup, StepsOf

LEMMA AfterCases ==
    ASSUME NEW kind \in Kinds, "cases" \in StepsOf(kind)
    PROVE  /\ kind \in Judging \cup Reading
           /\ Following(kind, "cases") = IF kind \in Reading THEN "answer" ELSE "decide"
           /\ Following(kind, "cases") \in StepsOf(kind)
BY DEF Kinds, OnCase, OnCore, Following, NextLookup, StepsOf, Judging

LEMMA LastSteps ==
    ASSUME NEW kind \in Kinds
    PROVE  /\ "decide" \in StepsOf(kind) => kind \notin Reading
           /\ "answer" \in StepsOf(kind) => kind \in Reading
           /\ "idle" \notin StepsOf(kind)
           /\ StepsOf(kind) \subseteq Steps
BY DEF Kinds, OnCase, OnCore, StepsOf, Steps

-----------------------------------------------------------------------------
(***************************************************************************)
(* The invariant.                                                          *)
(***************************************************************************)

CaseOrNone == CaseRecord \cup {None}

Typed ==
    /\ cores \in [Cores -> CoreRecord]
    /\ cases \in [Cases -> CaseOrNone]
    /\ call \in [Calls -> Requests \cup {None}]
    /\ at \in [Calls -> Steps]
    /\ holder \in [Cores -> Calls \cup {Nobody}]
    /\ found \in [Calls -> Cores \cup SnapshotRecord \cup {None}]
    /\ read \in [Calls -> [case : CaseOrNone,
                           core : CoreRecord \cup {None},
                           cases : [Cases -> CaseOrNone] \cup {None}]]
    /\ stored \in [Cases -> SUBSET SnapshotRecord]

\* Every case is on the core it was created on.
CreatedAsAsked ==
    \A c \in Cases : cases[c] # None =>
        \E q \in Requests : q.kind = "create" /\ q.case = c /\ q.core = cases[c].core

\* The snapshots that are stored are those of cases there are.
StoredOfCases == \A c \in Cases : stored[c] # {} => cases[c] # None

\* A goroutine is at one of the steps of its request, or idle.
Placed(t) ==
    IF call[t] = None THEN at[t] = "idle" /\ read[t] = Nothing
    ELSE at[t] \in StepsOf(call[t].kind)

\* A handler that got past the first lookup has a case, and a case keeps its core.
Found(t) ==
    LET q == call[t] IN
    (q # None /\ q.kind \in OnCase /\ at[t] # "lookup") =>
        /\ cases[q.case] # None
        /\ q.kind \notin Reading => found[t] = cases[q.case].core
        /\ q.kind \in Reading /\ CaseSeen(q.kind, at[t]) => read[t].case # None

Past(t) == call[t] # None /\ call[t].kind \notin Reading /\ at[t] \notin {"lookup", "lock"}

\* Past its lock, it holds the mutex ...
Locked(t) == Past(t) => holder[CoreToLock(t)] = t

\* ... and what it has read is still so.
CaseKnown(t) ==
    (call[t] # None /\ call[t].kind \notin Reading) =>
        read[t].case = IF CaseSeen(call[t].kind, at[t]) THEN cases[call[t].case] ELSE None

CoreKnown(t) ==
    (call[t] # None /\ call[t].kind \notin Reading) =>
        read[t].core = IF CoreSeen(call[t].kind, at[t]) THEN cores[CoreToLock(t)] ELSE None

RivalsKnown(t) ==
    (call[t] # None /\ call[t].kind \notin Reading) =>
        IF CasesSeen(call[t].kind, at[t])
        THEN Rivals(call[t].case, CoreToLock(t), read[t].cases)
                = Rivals(call[t].case, CoreToLock(t), cases)
        ELSE read[t].cases = None

Known(t) == CaseKnown(t) /\ CoreKnown(t) /\ RivalsKnown(t)

OnCourse(t) == Placed(t) /\ Found(t) /\ Locked(t) /\ Known(t)

CInv == Typed /\ CreatedAsAsked /\ StoredOfCases /\ \A t \in Calls : OnCourse(t)

\* At first nobody is asked anything.
LEMMA Initially == CInit => CInv
<1> SUFFICES ASSUME CInit PROVE CInv
  OBVIOUS
<1> USE DEF CInit, Init
<1>1. Typed
  <2>1. [revision |-> 1, mass |-> Mass] \in CoreRecord
    BY MassAssumption DEF CoreRecord
  <2>2. Nothing \in [case : CaseOrNone, core : CoreRecord \cup {None},
                     cases : [Cases -> CaseOrNone] \cup {None}]
    BY DEF Nothing, CaseOrNone
  <2>3. read \in [Calls -> [case : CaseOrNone, core : CoreRecord \cup {None},
                            cases : [Cases -> CaseOrNone] \cup {None}]]
    BY <2>2
  <2> QED
    BY <2>1, <2>3 DEF Typed, CaseOrNone, Steps
<1>2. CreatedAsAsked /\ StoredOfCases
  BY DEF CreatedAsAsked, StoredOfCases
<1>3. ASSUME NEW t \in Calls PROVE OnCourse(t)
  BY DEF OnCourse, Placed, Found, Locked, Past, Known, CaseKnown, CoreKnown, RivalsKnown
<1> QED
  BY <1>1, <1>2, <1>3 DEF CInv

\* What a goroutine's request names.
LEMMA CallParts ==
    ASSUME Typed, NEW t \in Calls, call[t] # None
    PROVE  /\ call[t] \in Requests /\ call[t] \in Request
           /\ call[t].kind \in Kinds
           /\ call[t].kind = "create" => call[t].case \in Cases /\ call[t].core \in Cores
           /\ call[t].kind \in OnCase => call[t].case \in Cases /\ call[t].core = None
           /\ call[t].kind \in OnCore => call[t].case = None /\ call[t].core \in Cores
<1>1. call[t] \in Request
  BY RequestsAssumption DEF Typed
<1> QED
  BY <1>1, RequestParts DEF Typed

\* The mutex of a handler is that of a core; of its case's core, if it has one.
LEMMA LockParts ==
    ASSUME Typed, NEW t \in Calls, OnCourse(t),
           call[t] # None, call[t].kind \notin Reading, at[t] # "lookup"
    PROVE  /\ CoreToLock(t) \in Cores
           /\ call[t].core # None => CoreToLock(t) = call[t].core
           /\ call[t].kind \in OnCase =>
                 /\ call[t].core = None
                 /\ call[t].case \in Cases
                 /\ cases[call[t].case] \in CaseRecord
                 /\ CoreToLock(t) = cases[call[t].case].core
           /\ call[t].kind \notin OnCase => call[t].core \in Cores /\ call[t].core # None
<1>1. call[t].kind \in OnCase => cases[call[t].case] \in CaseRecord
  BY CallParts DEF OnCourse, Found, Typed, CaseOrNone
<1>2. ASSUME call[t].kind \in OnCase PROVE CoreToLock(t) = cases[call[t].case].core
  BY <1>2, CallParts DEF OnCourse, Found, CoreToLock
<1>3. call[t].kind \in OnCase => cases[call[t].case].core \in Cores
  BY <1>1 DEF CaseRecord
<1>4. call[t].kind \notin OnCase => call[t].core \in Cores
  BY CallParts DEF Kinds
<1> QED
  BY <1>1, <1>2, <1>3, <1>4, CallParts, NoneAssumption DEF CoreToLock

\* A goroutine stays on course while others step, if they leave what it has
\* read under its mutex as it is, and every case on its core.
LEMMA Undisturbed ==
    ASSUME CInv, NEW u \in Calls,
           call'[u] = call[u], at'[u] = at[u], found'[u] = found[u], read'[u] = read[u],
           \A k \in Cores : holder[k] = u => holder'[k] = u,
           \A c \in Cases : cases[c] # None => cases'[c] # None /\ cases'[c].core = cases[c].core,
           Past(u) =>
              /\ call[u].case \in Cases => cases'[call[u].case] = cases[call[u].case]
              /\ cores'[CoreToLock(u)] = cores[CoreToLock(u)]
              /\ Rivals(call[u].case, CoreToLock(u), cases') = Rivals(call[u].case, CoreToLock(u), cases)
    PROVE  OnCourse(u)'
<1>0. Typed /\ OnCourse(u)
  BY DEF CInv
<1>1. Placed(u)'
  BY <1>0 DEF OnCourse, Placed
<1>2. Found(u)'
  BY <1>0, CallParts DEF OnCourse, Found
<1>3. CoreToLock(u)' = CoreToLock(u) /\ Past(u)' = Past(u)
  BY DEF CoreToLock, Past
<1>4. Locked(u)'
  <2> SUFFICES ASSUME Past(u) PROVE holder'[CoreToLock(u)] = u
    BY <1>3 DEF Locked
  <2>1. CoreToLock(u) \in Cores
    BY <1>0, LockParts DEF Past
  <2> QED
    BY <2>1, <1>0 DEF OnCourse, Locked
<1>5. ASSUME call[u] # None, call[u].kind \notin Reading, ~Past(u)
      PROVE  Known(u)'
  <2>1. at[u] \in {"lookup", "lock"}
    BY <1>5 DEF Past
  <2> QED
    BY <2>1, <1>0, <1>5 DEF OnCourse, Known, CaseKnown, CoreKnown, RivalsKnown, CaseSeen, CoreSeen, CasesSeen
<1>6. ASSUME call[u] # None, call[u].kind \notin Reading, Past(u)
      PROVE  Known(u)'
  <2>1. CaseSeen(call[u].kind, at[u]) => call[u].case \in Cases
    BY <1>0, <1>6, CallParts DEF CaseSeen
  <2>2. CaseKnown(u)'
    BY <2>1, <1>0, <1>6 DEF OnCourse, Known, CaseKnown
  <2>3. CoreKnown(u)'
    BY <1>0, <1>3, <1>6 DEF OnCourse, Known, CoreKnown
  <2>4. RivalsKnown(u)'
    BY <1>0, <1>3, <1>6 DEF OnCourse, Known, RivalsKnown
  <2> QED
    BY <2>2, <2>3, <2>4 DEF Known
<1>7. Known(u)'
  BY <1>5, <1>6 DEF Known, CaseKnown, CoreKnown, RivalsKnown
<1> QED
  BY <1>1, <1>2, <1>4, <1>7 DEF OnCourse

\* A step that writes nothing and disturbs nobody's mutex.
LEMMA QuietStep ==
    ASSUME CInv, NEW t \in Calls, Typed', UNCHANGED <<records, stored>>, OnCourse(t)',
           \A u \in Calls \ {t} :
              /\ call'[u] = call[u] /\ at'[u] = at[u] /\ found'[u] = found[u] /\ read'[u] = read[u]
              /\ \A k \in Cores : holder[k] = u => holder'[k] = u
    PROVE  CInv'
<1>1. CreatedAsAsked' /\ StoredOfCases'
  BY DEF CInv, CreatedAsAsked, StoredOfCases, records
<1>2. ASSUME NEW u \in Calls, u # t PROVE OnCourse(u)'
  BY <1>2, Undisturbed DEF records
<1> QED
  BY <1>1, <1>2 DEF CInv

-----------------------------------------------------------------------------
(***************************************************************************)
(* Every step that writes nothing keeps the invariant.                     *)
(***************************************************************************)

LEMMA BeginKeeps ==
    ASSUME CInv, NEW t \in Calls, NEW q \in Requests, Begin(t, q)
    PROVE  CInv'
<1> USE DEF Begin, Ask
<1>1. q \in Request /\ q \in Requests /\ q # None /\ q.kind \in Kinds
  BY RequestsAssumption, RequestParts, NoneAssumption
<1>2. Typed /\ StoredOfCases /\ OnCourse(t) /\ at[t] = "idle" /\ read[t] = Nothing
  BY DEF CInv, OnCourse, Placed
<1>3. call'[t] = q /\ at'[t] = Following(q.kind, "begin") /\ read'[t] = Nothing
  BY <1>2 DEF Typed
<1>4. Following(q.kind, "begin") \in StepsOf(q.kind) \cap Steps
  BY <1>1, FirstStep, LastSteps
<1>8. q.kind = "validity" => q.case \in Cases /\ stored[q.case] # {} /\ cases[q.case] # None
  <2>1. q.kind = "validity" => q.case \in Cases
    BY <1>1, RequestParts DEF OnCase
  <2> QED
    BY <2>1, <1>2 DEF StoredOfCases
<1>5. Typed'
  <2>0. PICK p \in (IF q.kind = "validity" THEN stored[q.case] ELSE {None}) :
           found' = [found EXCEPT ![t] = p]
    OBVIOUS
  <2>1. p \in SnapshotRecord \cup {None}
    BY <2>0, <1>2, <1>8 DEF Typed
  <2>2. found' \in [Calls -> Cores \cup SnapshotRecord \cup {None}]
    BY <2>0, <2>1, <1>2 DEF Typed
  <2>3. at' \in [Calls -> Steps] /\ call' \in [Calls -> Requests \cup {None}]
    BY <1>2, <1>4 DEF Typed
  <2> QED
    BY <1>2, <2>2, <2>3 DEF Typed, records
<1>6. OnCourse(t)'
  <2>1. Placed(t)'
    BY <1>1, <1>3, <1>4 DEF Placed
  <2>2. CASE q.kind \notin Reading
    <3>1. at'[t] \in {"lookup", "lock"} /\ (q.kind \in OnCase => at'[t] = "lookup")
      BY <1>1, <1>3, <2>2, FirstStep
    <3>2. Found(t)' /\ Locked(t)'
      BY <1>3, <3>1, <2>2 DEF Found, Locked, Past
    <3>3. Known(t)'
      BY <1>3, <3>1 DEF Known, CaseKnown, CoreKnown, RivalsKnown, CaseSeen, CoreSeen, CasesSeen, Nothing
    <3> QED
      BY <2>1, <3>2, <3>3 DEF OnCourse
  <2>3. CASE q.kind \in Reading
    <3>1. Locked(t)' /\ Known(t)'
      BY <1>3, <2>3 DEF Locked, Past, Known, CaseKnown, CoreKnown, RivalsKnown
    <3>2. q.kind \in OnCase => q.kind = "validity" /\ at'[t] = "case"
      BY <1>1, <1>3, <2>3, FirstStep DEF OnCase
    <3>3. Found(t)'
      BY <1>3, <1>8, <2>3, <3>2 DEF Found, CaseSeen, records
    <3> QED
      BY <2>1, <3>1, <3>3 DEF OnCourse
  <2> QED
    BY <2>2, <2>3
<1>7. ASSUME NEW u \in Calls \ {t}
      PROVE  call'[u] = call[u] /\ at'[u] = at[u] /\ found'[u] = found[u] /\ read'[u] = read[u]
  BY <1>2 DEF Typed
<1> QED
  BY <1>5, <1>6, <1>7, QuietStep

LEMMA LookupKeeps ==
    ASSUME CInv, NEW t \in Calls, Lookup(t)
    PROVE  CInv'
<1> USE DEF Lookup, At, Advance
<1>1. Typed /\ OnCourse(t)
  BY DEF CInv
<1>2. call[t] # None /\ "lookup" \in StepsOf(call[t].kind)
  BY <1>1 DEF OnCourse, Placed
<1>3. /\ call[t].kind \in Kinds /\ call[t].kind \in OnCase \ Reading
      /\ call[t].case \in Cases
      /\ Following(call[t].kind, "lookup") = "lock"
      /\ "lock" \in StepsOf(call[t].kind)
  BY <1>1, <1>2, CallParts, AfterLookup
<1>4. at'[t] = "lock" /\ found'[t] = cases[call[t].case].core
  BY <1>1, <1>3 DEF Typed
<1>5. Typed'
  <2>1. cases[call[t].case].core \in Cores
    BY <1>1, <1>3 DEF Typed, CaseOrNone, CaseRecord
  <2>2. found' \in [Calls -> Cores \cup SnapshotRecord \cup {None}]
    BY <2>1, <1>1 DEF Typed
  <2>3. at' \in [Calls -> Steps]
    BY <1>1, <1>3 DEF Typed, Steps
  <2> QED
    BY <1>1, <2>2, <2>3 DEF Typed, vars, records
<1>6. OnCourse(t)'
  <2>1. Placed(t)' /\ Locked(t)'
    BY <1>2, <1>3, <1>4 DEF Placed, Locked, Past, vars
  <2>2. Found(t)'
    BY <1>3, <1>4 DEF Found, vars, records
  <2>3. Known(t)'
    BY <1>1, <1>2, <1>3, <1>4
       DEF OnCourse, Known, CaseKnown, CoreKnown, RivalsKnown, CaseSeen, CoreSeen, CasesSeen, vars
  <2> QED
    BY <2>1, <2>2, <2>3 DEF OnCourse
<1>7. ASSUME NEW u \in Calls \ {t}
      PROVE  call'[u] = call[u] /\ at'[u] = at[u] /\ found'[u] = found[u] /\ read'[u] = read[u]
  BY <1>1 DEF Typed, vars
<1>8. UNCHANGED <<records, stored, holder>>
  BY DEF vars
<1> QED
  BY <1>5, <1>6, <1>7, <1>8, QuietStep

\* A call that returns leaves its goroutine idle and only its own mutex free.
LEMMA ReturnParts ==
    ASSUME CInv, NEW t \in Calls, Return(t)
    PROVE  /\ OnCourse(t)'
           /\ call' \in [Calls -> Requests \cup {None}]
           /\ at' \in [Calls -> Steps]
           /\ holder' \in [Cores -> Calls \cup {Nobody}]
           /\ found' \in [Calls -> Cores \cup SnapshotRecord \cup {None}]
           /\ read' \in [Calls -> [case : CaseOrNone, core : CoreRecord \cup {None},
                                   cases : [Cases -> CaseOrNone] \cup {None}]]
           /\ \A u \in Calls \ {t} :
                /\ call'[u] = call[u] /\ at'[u] = at[u] /\ found'[u] = found[u] /\ read'[u] = read[u]
                /\ \A k \in Cores : holder[k] = u => holder'[k] = u
<1> USE DEF Return
<1>1. Typed
  BY DEF CInv
<1>2. call'[t] = None /\ at'[t] = "idle" /\ read'[t] = Nothing
  BY <1>1 DEF Typed
<1>3. OnCourse(t)'
  BY <1>2 DEF OnCourse, Placed, Found, Locked, Past, Known, CaseKnown, CoreKnown, RivalsKnown
<1>4. Nothing \in [case : CaseOrNone, core : CoreRecord \cup {None},
                   cases : [Cases -> CaseOrNone] \cup {None}]
  BY DEF Nothing, CaseOrNone
<1>5. read' \in [Calls -> [case : CaseOrNone, core : CoreRecord \cup {None},
                           cases : [Cases -> CaseOrNone] \cup {None}]]
  BY <1>1, <1>4 DEF Typed
<1>6. /\ call' \in [Calls -> Requests \cup {None}]
      /\ at' \in [Calls -> Steps]
      /\ holder' \in [Cores -> Calls \cup {Nobody}]
      /\ found' \in [Calls -> Cores \cup SnapshotRecord \cup {None}]
  BY <1>1 DEF Typed, Steps
<1>7. ASSUME NEW u \in Calls \ {t}
      PROVE  /\ call'[u] = call[u] /\ at'[u] = at[u] /\ found'[u] = found[u] /\ read'[u] = read[u]
             /\ \A k \in Cores : holder[k] = u => holder'[k] = u
  BY <1>1 DEF Typed
<1> QED
  BY <1>3, <1>5, <1>6, <1>7

LEMMA QuietReturn ==
    ASSUME CInv, NEW t \in Calls, Return(t), UNCHANGED <<records, stored>>
    PROVE  CInv'
<1>1. Typed'
  BY ReturnParts DEF CInv, Typed, records
<1> QED
  BY <1>1, ReturnParts, QuietStep

LEMMA LockKeeps ==
    ASSUME CInv, NEW t \in Calls, Lock(t)
    PROVE  CInv'
<1> USE DEF Lock, At, Advance
<1>1. Typed /\ OnCourse(t)
  BY DEF CInv
<1>2. call[t] # None /\ "lock" \in StepsOf(call[t].kind) /\ call[t].kind \in Kinds
  BY <1>1, CallParts DEF OnCourse, Placed
<1>3. /\ call[t].kind \notin Reading
      /\ Following(call[t].kind, "lock") \in StepsOf(call[t].kind) \cap Steps
      /\ Following(call[t].kind, "lock") = IF call[t].kind \in OnCase THEN "case" ELSE "core"
  BY <1>2, AfterLock, LastSteps
<1>4. CoreToLock(t) \in Cores
  BY <1>1, <1>2, <1>3, LockParts
<1>5. /\ at'[t] = Following(call[t].kind, "lock")
      /\ holder'[CoreToLock(t)] = t
      /\ CoreToLock(t)' = CoreToLock(t)
      /\ UNCHANGED <<cores, cases, call, found, read>>
  BY <1>1, <1>4 DEF Typed, vars, records, CoreToLock
<1>6. Typed'
  BY <1>1, <1>3, <1>5 DEF Typed
<1>7. OnCourse(t)'
  <2>1. Placed(t)' /\ Locked(t)'
    BY <1>2, <1>3, <1>5 DEF Placed, Locked
  <2>2. Found(t)'
    BY <1>1, <1>2, <1>3, <1>5 DEF OnCourse, Found
  <2>3. /\ ~CaseSeen(call[t].kind, at[t]) /\ ~CaseSeen(call[t].kind, at'[t])
        /\ ~CoreSeen(call[t].kind, at[t]) /\ ~CoreSeen(call[t].kind, at'[t])
        /\ ~CasesSeen(call[t].kind, at[t]) /\ ~CasesSeen(call[t].kind, at'[t])
    BY <1>2, <1>3, <1>5 DEF CaseSeen, CoreSeen, CasesSeen, OnCase
  <2>4. Known(t)'
    BY <2>3, <1>1, <1>2, <1>3, <1>5 DEF OnCourse, Known, CaseKnown, CoreKnown, RivalsKnown
  <2> QED
    BY <2>1, <2>2, <2>4 DEF OnCourse
<1>8. ASSUME NEW u \in Calls \ {t}
      PROVE  /\ call'[u] = call[u] /\ at'[u] = at[u] /\ found'[u] = found[u] /\ read'[u] = read[u]
             /\ \A k \in Cores : holder[k] = u => holder'[k] = u
  BY <1>1, <1>5, NobodyAssumption DEF Typed
<1> QED
  BY <1>6, <1>7, <1>8, QuietStep DEF vars

\* A lookup under the mutex, or by a reading call, of anything it may be.
LEMMA LookupParts ==
    ASSUME CInv, NEW t \in Calls, NEW step \in {"case", "core", "cases"}, at[t] = step,
           UNCHANGED <<cores, cases, call, holder, found, stored>>,
           at' = [at EXCEPT ![t] = Following(call[t].kind, step)],
           NEW r \in [case : CaseOrNone, core : CoreRecord \cup {None},
                      cases : [Cases -> CaseOrNone] \cup {None}],
           read' = [read EXCEPT ![t] = r]
    PROVE  /\ Typed' /\ Placed(t)' /\ Locked(t)'
           /\ CoreToLock(t)' = CoreToLock(t)
           /\ call[t] # None /\ call[t].kind \in Kinds /\ step \in StepsOf(call[t].kind)
           /\ at'[t] = Following(call[t].kind, step) /\ read'[t] = r
           /\ call[t].kind \in OnCase => call[t].case \in Cases /\ cases[call[t].case] \in CaseRecord
           /\ call[t].kind \in OnCase \ Reading => found[t] = cases[call[t].case].core
           /\ OnCourse(t)' => CInv'
<1>1. Typed /\ OnCourse(t)
  BY DEF CInv
<1>2. call[t] # None /\ step \in StepsOf(call[t].kind) /\ call[t].kind \in Kinds
  BY <1>1, CallParts DEF OnCourse, Placed
<1>3. /\ Following(call[t].kind, step) \in StepsOf(call[t].kind)
      /\ Following(call[t].kind, step) \in Steps
  BY <1>2, AfterCase, AfterCore, AfterCases, LastSteps
<1>4. at'[t] = Following(call[t].kind, step) /\ read'[t] = r
  BY <1>1 DEF Typed
<1>5. Typed'
  BY <1>1, <1>3 DEF Typed
<1>6. CoreToLock(t)' = CoreToLock(t)
  BY DEF CoreToLock
<1>7. Placed(t)'
  BY <1>2, <1>3, <1>4 DEF Placed
<1>8. Locked(t)'
  BY <1>1, <1>2, <1>6 DEF OnCourse, Locked, Past
<1>9. ASSUME call[t].kind \in OnCase
      PROVE  /\ call[t].case \in Cases /\ cases[call[t].case] \in CaseRecord
             /\ call[t].kind \notin Reading => found[t] = cases[call[t].case].core
  BY <1>1, <1>2, <1>9, CallParts DEF OnCourse, Found, Typed, CaseOrNone
<1>10. ASSUME NEW u \in Calls \ {t}
       PROVE  call'[u] = call[u] /\ at'[u] = at[u] /\ found'[u] = found[u] /\ read'[u] = read[u]
  BY <1>1 DEF Typed
<1>11. OnCourse(t)' => CInv'
  BY <1>5, <1>10, QuietStep DEF records
<1> QED
  BY <1>2, <1>4, <1>5, <1>6, <1>7, <1>8, <1>9, <1>11

LEMMA ReadCaseKeeps ==
    ASSUME CInv, NEW t \in Calls, ReadCase(t)
    PROVE  CInv'
<1> DEFINE q == call[t]
           r == [read[t] EXCEPT !.case = cases[q.case]]
<1>1. Typed /\ OnCourse(t)
  BY DEF CInv
<1>2. q # None /\ q.kind \in Kinds /\ "case" \in StepsOf(q.kind)
  BY <1>1, CallParts DEF OnCourse, Placed, ReadCase, At
<1>3. q.case \in Cases
  BY <1>1, <1>2, CallParts, AfterCase
<1>4. r \in [case : CaseOrNone, core : CoreRecord \cup {None},
             cases : [Cases -> CaseOrNone] \cup {None}]
  BY <1>1, <1>3 DEF Typed
<1>5. read' = [read EXCEPT ![t] = r]
  BY DEF ReadCase, Keep
<1>6. /\ at[t] = "case" /\ at' = [at EXCEPT ![t] = Following(q.kind, "case")]
      /\ UNCHANGED <<cores, cases, call, holder, found, stored>>
  BY DEF ReadCase, Keep, At, Advance, vars, records
<1>r. r.core = read[t].core /\ r.cases = read[t].cases /\ r.case = cases[q.case]
  BY <1>1 DEF Typed
<1> HIDE DEF r
<1>7. /\ Placed(t)' /\ Locked(t)' /\ CoreToLock(t)' = CoreToLock(t)
      /\ at'[t] = Following(q.kind, "case") /\ read'[t] = r
      /\ q.kind \in OnCase => cases[q.case] \in CaseRecord
      /\ q.kind \in OnCase \ Reading => found[t] = cases[q.case].core
      /\ OnCourse(t)' => CInv'
  BY <1>4, <1>5, <1>6, LookupParts
<1>8. Found(t)'
  BY <1>6, <1>7, <1>r, NoRecordAssumption DEF Found
<1>9. ASSUME q.kind \notin Reading PROVE Known(t)'
  <2>1. /\ CaseSeen(q.kind, at'[t])
        /\ CoreSeen(q.kind, at'[t]) = CoreSeen(q.kind, at[t])
        /\ ~CasesSeen(q.kind, at[t]) /\ ~CasesSeen(q.kind, at'[t])
    BY <1>2, <1>6, <1>7, AfterCase DEF CaseSeen, CoreSeen, CasesSeen, Judging, OnCase
  <2>3. CaseKnown(t)'
    BY <1>6, <1>7, <2>1, <1>r DEF CaseKnown
  <2>4. CoreKnown(t)'
    BY <1>1, <1>2, <1>6, <1>7, <1>9, <2>1, <1>r DEF OnCourse, Known, CoreKnown
  <2>5. RivalsKnown(t)'
    BY <1>1, <1>2, <1>6, <1>7, <1>9, <2>1, <1>r DEF OnCourse, Known, RivalsKnown
  <2> QED
    BY <2>3, <2>4, <2>5 DEF Known
<1>10. Known(t)'
  BY <1>6, <1>9 DEF Known, CaseKnown, CoreKnown, RivalsKnown
<1> QED
  BY <1>7, <1>8, <1>10 DEF OnCourse

\* The core that is looked up is the one whose mutex is held.
LEMMA CoreReadIsLocked ==
    ASSUME CInv, NEW t \in Calls, call[t] # None, call[t].kind \notin Reading,
           call[t].kind \in OnCase => CaseSeen(call[t].kind, at[t])
    PROVE  /\ CoreRead(t) = CoreToLock(t)
           /\ CoreToLock(t) \in Cores
           /\ call[t].core # None => CoreToLock(t) = call[t].core
           /\ call[t].kind \in OnCase => CoreToLock(t) = cases[call[t].case].core
<1>1. Typed /\ OnCourse(t)
  BY DEF CInv
<1>2. at[t] # "lookup"
  BY <1>1, CallParts, AfterLookup DEF CaseSeen, OnCourse, Placed
<1>3. /\ CoreToLock(t) \in Cores
      /\ call[t].core # None => CoreToLock(t) = call[t].core
      /\ call[t].kind \in OnCase => call[t].core = None /\ CoreToLock(t) = cases[call[t].case].core
      /\ call[t].kind \notin OnCase => call[t].core # None
  BY <1>1, <1>2, LockParts
<1>4. call[t].kind \in OnCase => read[t].case = cases[call[t].case]
  BY <1>1 DEF OnCourse, Known, CaseKnown
<1> QED
  BY <1>3, <1>4 DEF CoreRead

LEMMA ReadCoreKeeps ==
    ASSUME CInv, NEW t \in Calls, ReadCore(t)
    PROVE  CInv'
<1> DEFINE q == call[t]
           r == [read[t] EXCEPT !.core = cores[CoreRead(t)]]
<1>1. Typed /\ OnCourse(t)
  BY DEF CInv
<1>2. q # None /\ q.kind \in Kinds /\ "core" \in StepsOf(q.kind) /\ at[t] = "core"
  BY <1>1, CallParts DEF OnCourse, Placed, ReadCore, At
<1>3. q.kind \in OnCase => CaseSeen(q.kind, at[t])
  BY <1>2 DEF CaseSeen, OnCase
<1>4. CoreRead(t) \in Cores
  <2>1. CASE q.kind \notin Reading
    BY <2>1, <1>2, <1>3, CoreReadIsLocked
  <2>2. CASE q.kind = "available"
    BY <2>2, <1>1, <1>2, CallParts, NoneAssumption DEF CoreRead, OnCore
  <2>3. CASE q.kind = "validity"
    <3>1. read[t].case # None /\ q.core = None
      BY <2>3, <1>1, <1>2, <1>3, CallParts DEF OnCourse, Found, OnCase
    <3>2. read[t].case \in CaseRecord
      BY <3>1, <1>1 DEF Typed, CaseOrNone
    <3> QED
      BY <3>1, <3>2 DEF CoreRead, CaseRecord
  <2> QED
    BY <2>1, <2>2, <2>3
<1>5. r \in [case : CaseOrNone, core : CoreRecord \cup {None},
             cases : [Cases -> CaseOrNone] \cup {None}]
  BY <1>1, <1>4 DEF Typed
<1>6. read' = [read EXCEPT ![t] = r]
  BY DEF ReadCore, Keep
<1>7. /\ at' = [at EXCEPT ![t] = Following(q.kind, "core")]
      /\ UNCHANGED <<cores, cases, call, holder, found, stored>>
  BY <1>2 DEF ReadCore, Keep, Advance, vars, records
<1>8. r.core = cores[CoreRead(t)] /\ r.cases = read[t].cases /\ r.case = read[t].case
  BY <1>1 DEF Typed
<1> HIDE DEF r
<1>9. /\ Placed(t)' /\ Locked(t)' /\ CoreToLock(t)' = CoreToLock(t)
      /\ at'[t] = Following(q.kind, "core") /\ read'[t] = r
      /\ q.kind \in OnCase => cases[q.case] \in CaseRecord
      /\ q.kind \in OnCase \ Reading => found[t] = cases[q.case].core
      /\ OnCourse(t)' => CInv'
  BY <1>2, <1>5, <1>6, <1>7, LookupParts
<1>10. Found(t)'
  BY <1>1, <1>2, <1>3, <1>7, <1>8, <1>9, NoRecordAssumption DEF OnCourse, Found
<1>11. ASSUME q.kind \notin Reading PROVE Known(t)'
  <2>1. /\ CaseSeen(q.kind, at'[t]) = CaseSeen(q.kind, at[t])
        /\ CoreSeen(q.kind, at'[t])
        /\ ~CasesSeen(q.kind, at[t]) /\ ~CasesSeen(q.kind, at'[t])
    BY <1>2, <1>9, <1>11, AfterCore DEF CaseSeen, CoreSeen, CasesSeen, Judging, OnCase, Kinds, OnCore, StepsOf
  <2>2. CoreRead(t) = CoreToLock(t)
    BY <1>2, <1>3, <1>11, CoreReadIsLocked
  <2>3. CaseKnown(t)'
    BY <1>1, <1>2, <1>7, <1>8, <1>9, <1>11, <2>1 DEF OnCourse, Known, CaseKnown
  <2>4. CoreKnown(t)'
    BY <1>7, <1>8, <1>9, <2>1, <2>2 DEF CoreKnown
  <2>5. RivalsKnown(t)'
    BY <1>1, <1>2, <1>7, <1>8, <1>9, <1>11, <2>1 DEF OnCourse, Known, RivalsKnown
  <2> QED
    BY <2>3, <2>4, <2>5 DEF Known
<1>12. Known(t)'
  BY <1>7, <1>11 DEF Known, CaseKnown, CoreKnown, RivalsKnown
<1> QED
  BY <1>9, <1>10, <1>12 DEF OnCourse

LEMMA ReadCasesKeeps ==
    ASSUME CInv, NEW t \in Calls, ReadCases(t)
    PROVE  CInv'
<1> DEFINE q == call[t]
           r == [read[t] EXCEPT !.cases = cases]
<1>1. Typed /\ OnCourse(t)
  BY DEF CInv
<1>2. q # None /\ q.kind \in Kinds /\ "cases" \in StepsOf(q.kind) /\ at[t] = "cases"
  BY <1>1, CallParts DEF OnCourse, Placed, ReadCases, At
<1>3. r \in [case : CaseOrNone, core : CoreRecord \cup {None},
             cases : [Cases -> CaseOrNone] \cup {None}]
  BY <1>1 DEF Typed
<1>4. read' = [read EXCEPT ![t] = r]
  BY DEF ReadCases, Keep
<1>5. /\ at' = [at EXCEPT ![t] = Following(q.kind, "cases")]
      /\ UNCHANGED <<cores, cases, call, holder, found, stored>>
  BY <1>2 DEF ReadCases, Keep, Advance, vars, records
<1>6. r.core = read[t].core /\ r.cases = cases /\ r.case = read[t].case
  BY <1>1 DEF Typed
<1> HIDE DEF r
<1>7. /\ Placed(t)' /\ Locked(t)' /\ CoreToLock(t)' = CoreToLock(t)
      /\ at'[t] = Following(q.kind, "cases") /\ read'[t] = r
      /\ q.kind \in OnCase => cases[q.case] \in CaseRecord
      /\ q.kind \in OnCase \ Reading => found[t] = cases[q.case].core
      /\ OnCourse(t)' => CInv'
  BY <1>2, <1>3, <1>4, <1>5, LookupParts
<1>8. CaseSeen(q.kind, at'[t]) = CaseSeen(q.kind, at[t])
  BY <1>2, <1>7, AfterCases DEF CaseSeen, Judging, OnCase
<1>9. Found(t)'
  BY <1>1, <1>2, <1>5, <1>6, <1>7, <1>8, NoRecordAssumption DEF OnCourse, Found
<1>10. ASSUME q.kind \notin Reading PROVE Known(t)'
  <2>1. /\ CoreSeen(q.kind, at'[t]) /\ CoreSeen(q.kind, at[t])
        /\ CasesSeen(q.kind, at'[t])
    BY <1>2, <1>7, <1>10, AfterCases DEF CoreSeen, CasesSeen, Judging
  <2>2. CaseKnown(t)'
    BY <1>1, <1>2, <1>5, <1>6, <1>7, <1>8, <1>10 DEF OnCourse, Known, CaseKnown
  <2>3. CoreKnown(t)'
    BY <1>1, <1>2, <1>5, <1>6, <1>7, <1>10, <2>1 DEF OnCourse, Known, CoreKnown
  <2>4. RivalsKnown(t)'
    BY <1>5, <1>6, <1>7, <2>1 DEF RivalsKnown
  <2> QED
    BY <2>2, <2>3, <2>4 DEF Known
<1>11. Known(t)'
  BY <1>5, <1>10 DEF Known, CaseKnown, CoreKnown, RivalsKnown
<1> QED
  BY <1>7, <1>9, <1>11 DEF OnCourse

-----------------------------------------------------------------------------
(***************************************************************************)
(* A handler decides on the present records, and disturbs nobody else.     *)
(***************************************************************************)

\* Whatever a handler has read under its mutex is still so when it decides.
LEMMA DecidesOnThePresent ==
    ASSUME CInv, NEW t \in Calls, At(t, "decide")
    PROVE  /\ call[t] # None
           /\ call[t].kind \in Kinds \ Reading
           /\ CoreRead(t) = CoreToLock(t)
           /\ CoreToLock(t) \in Cores
           /\ holder[CoreToLock(t)] = t
           /\ call[t].kind # "reviseCore" =>
                 call[t].case \in Cases /\ read[t].case = cases[call[t].case]
           /\ read[t].core = IF call[t].kind \in {"revise", "return"} THEN None
                             ELSE cores[CoreToLock(t)]
           /\ IF call[t].kind \in Judging
              THEN Rivals(call[t].case, CoreToLock(t), read[t].cases)
                      = Rivals(call[t].case, CoreToLock(t), cases)
              ELSE read[t].cases = None
           /\ call[t].kind \in OnCase =>
                 cases[call[t].case] \in CaseRecord /\ CoreToLock(t) = cases[call[t].case].core
           /\ call[t].kind \notin OnCase => CoreToLock(t) = call[t].core
<1> USE DEF At
<1>1. Typed /\ OnCourse(t)
  BY DEF CInv
<1>2. call[t] # None /\ "decide" \in StepsOf(call[t].kind)
  BY <1>1 DEF OnCourse, Placed
<1>3. call[t].kind \in Kinds \ Reading
  BY <1>1, <1>2, CallParts, LastSteps
<1>4. /\ CaseSeen(call[t].kind, at[t]) <=> (call[t].kind # "reviseCore")
      /\ CoreSeen(call[t].kind, at[t]) <=> (call[t].kind \notin {"revise", "return"})
      /\ CasesSeen(call[t].kind, at[t]) <=> (call[t].kind \in Judging)
  BY <1>3 DEF CaseSeen, CoreSeen, CasesSeen, Kinds, OnCase, OnCore
<1>5. /\ CoreToLock(t) \in Cores
      /\ call[t].core # None => CoreToLock(t) = call[t].core
      /\ call[t].kind \in OnCase =>
            /\ cases[call[t].case] \in CaseRecord
            /\ CoreToLock(t) = cases[call[t].case].core
      /\ call[t].kind \notin OnCase => call[t].core # None
  BY <1>1, <1>2, <1>3, LockParts
<1>6. CoreRead(t) = CoreToLock(t)
  BY <1>2, <1>3, <1>4, CoreReadIsLocked DEF OnCase
<1>7. holder[CoreToLock(t)] = t
  BY <1>1, <1>2, <1>3 DEF OnCourse, Locked, Past
<1>8. call[t].kind # "reviseCore" => call[t].case \in Cases
  BY <1>1, <1>2, <1>3, CallParts DEF Kinds, OnCore
<1>9. Known(t)
  BY <1>1 DEF OnCourse
<1>10. call[t].kind # "reviseCore" => read[t].case = cases[call[t].case]
  BY <1>2, <1>3, <1>4, <1>9 DEF Known, CaseKnown
<1>11. read[t].core = IF call[t].kind \in {"revise", "return"} THEN None ELSE cores[CoreToLock(t)]
  BY <1>2, <1>3, <1>4, <1>9 DEF Known, CoreKnown
<1>12. IF call[t].kind \in Judging
       THEN Rivals(call[t].case, CoreToLock(t), read[t].cases)
               = Rivals(call[t].case, CoreToLock(t), cases)
       ELSE read[t].cases = None
  BY <1>2, <1>3, <1>4, <1>9 DEF Known, RivalsKnown
<1> QED
  BY <1>2, <1>3, <1>5, <1>6, <1>7, <1>8, <1>10, <1>11, <1>12

\* What a handler decides and writes depends on what its kind looks up only.
LEMMA JudgesWhatItReads ==
    ASSUME NEW q, q.kind \in Kinds \ Reading, NEW k,
           NEW rec, NEW core, NEW rivals, NEW rec2, NEW core2, NEW rivals2,
           q.kind # "reviseCore" => rec = rec2,
           q.kind \notin {"revise", "return"} => core = core2,
           q.kind \in Judging => rivals = rivals2
    PROVE  /\ Accepts(q, rec, core, rivals) <=> Accepts(q, rec2, core2, rivals2)
           /\ Write(q, k, rec, core, rivals) <=> Write(q, k, rec2, core2, rivals2)
<1> USE DEF Kinds, Judging, OnCase, OnCore
<1>1. CASE q.kind \in {"create", "revise", "return"}
  BY <1>1 DEF Accepts, Write, CaseAfter
<1>2. CASE q.kind = "reviseCore"
  BY <1>2 DEF Accepts, Write, CoreAfter
<1>3. CASE q.kind \in {"precheck", "submit", "authorize"}
  BY <1>3
<1>4. CASE q.kind \in {"execute", "freeze"}
  BY <1>4 DEF Accepts, Write, CaseAfter
<1> QED
  BY <1>1, <1>2, <1>3, <1>4

LEMMA RivalsTyped ==
    ASSUME NEW all \in [Cases -> CaseOrNone], NEW c, NEW k
    PROVE  Rivals(c, k, all) \in SUBSET Rival
BY DEF Rivals, Rival, CaseOrNone, CaseRecord

\* A case keeps its core.
LEMMA CaseAfterParts ==
    ASSUME NEW q \in Request, q.kind \in OnCase \ Reading,
           NEW rec \in CaseRecord, NEW core \in CoreRecord, NEW rivals \in SUBSET Rival
    PROVE  CaseAfter(q, rec, core, rivals) \in CaseRecord
           /\ CaseAfter(q, rec, core, rivals).core = rec.core
<1> USE DEF OnCase, CaseAfter, CaseRecord, Status
<1>0. rec.revision \in Nat /\ rec.revision + 1 \in Nat /\ rec.status \in Status /\ rec.core \in Cores
  OBVIOUS
<1>1. CASE q.kind = "precheck"
  <2>1. Snapshot(rec, core, rivals) \in SnapshotRecord
    BY DEF Snapshot, SnapshotRecord, CoreRecord
  <2> QED
    BY <1>1, <2>1
<1>2. CASE q.kind = "revise"
  BY <1>0, <1>2
<1>3. CASE q.kind = "return"
  BY <1>0, <1>3
<1>4. CASE q.kind = "submit"
  BY <1>4
<1>5. CASE q.kind = "authorize"
  BY <1>5
<1>6. CASE q.kind = "execute"
  BY <1>0, <1>6
<1>7. CASE q.kind = "freeze"
  BY <1>0, <1>7
<1> QED
  BY <1>1, <1>2, <1>3, <1>4, <1>5, <1>6, <1>7

\* The rivals on another core are not disturbed.
LEMMA RivalsElsewhere ==
    ASSUME NEW all, NEW all2, NEW c, NEW k, NEW k2, k # k2,
           \A d \in Cases : all2[d] # all[d] =>
              all2[d].core = k /\ (all[d] = None \/ all[d].core = k)
    PROVE  Rivals(c, k2, all2) = Rivals(c, k2, all)
BY DEF Rivals

\* What an accepted request changes: at most the case it names, which stays on
\* core k or is created there, and core k itself.
LEMMA WriteParts ==
    ASSUME Typed, NEW q \in Request, q.kind \in Kinds \ Reading, NEW k \in Cores,
           q.kind # "reviseCore" => q.case \in Cases,
           q.kind \in OnCase => cases[q.case] \in CaseRecord /\ k = cases[q.case].core,
           q.kind \notin OnCase => k = q.core,
           NEW rivals \in SUBSET Rival,
           Accepts(q, cases[q.case], cores[k], rivals),
           Write(q, k, cases[q.case], cores[k], rivals)
    PROVE  /\ cores' \in [Cores -> CoreRecord]
           /\ cases' \in [Cases -> CaseOrNone]
           /\ \A k2 \in Cores : k2 # k => cores'[k2] = cores[k2]
           /\ \A c \in Cases : cases'[c] # cases[c] =>
                 /\ c = q.case
                 /\ cases'[c] \in CaseRecord
                 /\ cases'[c].core = k
                 /\ \/ cases[c] = None /\ q.kind = "create"
                    \/ cases[c] \in CaseRecord /\ cases[c].core = k
<1>1. cores' \in [Cores -> CoreRecord] /\ \A k2 \in Cores : k2 # k => cores'[k2] = cores[k2]
  <2>1. CoreAfter(q, cores[k]) \in CoreRecord
    <3>1. cores[k].revision \in Nat /\ cores[k].mass \in Int
      BY DEF Typed, CoreRecord
    <3>2. cores[k].revision + 1 \in Nat /\ cores[k].mass - 1 \in Int
      BY <3>1
    <3> QED
      BY <3>1, <3>2 DEF CoreAfter, CoreRecord
  <2> QED
    BY <2>1 DEF Typed, Write
<1>2. CASE q.kind = "reviseCore"
  <2>1. cases' = cases
    BY <1>2 DEF Write, OnCore
  <2> QED
    BY <1>1, <2>1 DEF Typed
<1>3. CASE q.kind \in OnCase
  <2> DEFINE rec == CaseAfter(q, cases[q.case], cores[k], rivals)
  <2>1. rec \in CaseRecord /\ rec.core = k
    BY <1>3, CaseAfterParts DEF Typed
  <2>2. cases' = [cases EXCEPT ![q.case] = rec] /\ q.case \in Cases
    BY <1>3 DEF Write, OnCase, OnCore
  <2> HIDE DEF rec
  <2> QED
    BY <1>1, <1>3, <2>1, <2>2 DEF Typed, CaseOrNone
<1>4. CASE q.kind = "create"
  <2> DEFINE rec == [core |-> q.core, status |-> "Draft", revision |-> 1, precheck |-> None]
  <2>1. rec \in CaseRecord /\ rec.core = k
    BY <1>4 DEF CaseRecord, Status, OnCase
  <2>2. cases' = [cases EXCEPT ![q.case] = rec] /\ q.case \in Cases
    BY <1>4 DEF Write, OnCore, CaseAfter
  <2>3. ASSUME NEW old, NEW core, Accepts(q, old, core, rivals) PROVE old = None
    BY <1>4, <2>3 DEF Accepts, OnCase, OnCore
  <2>4. cases[q.case] = None
    BY <2>3
  <2> HIDE DEF rec
  <2> QED
    BY <1>1, <1>4, <2>1, <2>2, <2>4 DEF Typed, CaseOrNone
<1> QED
  BY <1>2, <1>3, <1>4 DEF Kinds, OnCore

\* The request, the core and the rivals a handler decides on, in present terms.
Settles(t) ==
    LET q == call[t]
        k == CoreToLock(t)
    IN /\ Accepts(q, cases[q.case], cores[k], Rivals(q.case, k, cases))
       /\ Write(q, k, cases[q.case], cores[k], Rivals(q.case, k, cases))
       /\ Store(q, Snapshot(cases[q.case], cores[k], Rivals(q.case, k, cases)))

\* A decision is the one the serial handler would make.
LEMMA DecideIsSerial ==
    ASSUME CInv, NEW t \in Calls, Decide(t)
    PROVE  /\ Return(t)
           /\ Settles(t) \/ UNCHANGED <<records, stored>>
           /\ Serve(t)
<1> DEFINE q == call[t]
           k == CoreToLock(t)
           rivals == Rivals(q.case, k, cases)
           seen == Rivals(q.case, k, read[t].cases)
<1>1. /\ At(t, "decide") /\ Return(t)
      /\ IF Accepts(q, read[t].case, read[t].core, Rivals(q.case, CoreRead(t), read[t].cases))
         THEN /\ Write(q, CoreRead(t), read[t].case, read[t].core, Rivals(q.case, CoreRead(t), read[t].cases))
              /\ Store(q, Snapshot(read[t].case, read[t].core, Rivals(q.case, CoreRead(t), read[t].cases)))
         ELSE UNCHANGED <<records, stored>>
  BY DEF Decide
<1>2. /\ q # None /\ q.kind \in Kinds \ Reading
      /\ CoreRead(t) = k /\ k \in Cores
      /\ q.kind # "reviseCore" => read[t].case = cases[q.case]
      /\ q.kind \notin {"revise", "return"} => read[t].core = cores[k]
      /\ q.kind \in Judging => seen = rivals
      /\ q.kind \in OnCase => k = cases[q.case].core
      /\ q.kind \notin OnCase => k = q.core
  BY <1>1, DecidesOnThePresent
<1>3. IF Accepts(q, read[t].case, read[t].core, seen)
      THEN /\ Write(q, k, read[t].case, read[t].core, seen)
           /\ Store(q, Snapshot(read[t].case, read[t].core, seen))
      ELSE UNCHANGED <<records, stored>>
  BY <1>1, <1>2
<1> HIDE DEF rivals, seen
<1>4. /\ Accepts(q, read[t].case, read[t].core, seen) <=> Accepts(q, cases[q.case], cores[k], rivals)
      /\ Write(q, k, read[t].case, read[t].core, seen) <=> Write(q, k, cases[q.case], cores[k], rivals)
  BY <1>2, JudgesWhatItReads
<1>10. Store(q, Snapshot(read[t].case, read[t].core, seen))
          <=> Store(q, Snapshot(cases[q.case], cores[k], rivals))
  BY <1>2 DEF Store, Judging
<1>5. IF Accepts(q, cases[q.case], cores[k], rivals)
      THEN /\ Write(q, k, cases[q.case], cores[k], rivals)
           /\ Store(q, Snapshot(cases[q.case], cores[k], rivals))
      ELSE UNCHANGED <<records, stored>>
  BY <1>3, <1>4, <1>10
<1>6. Settles(t) \/ UNCHANGED <<records, stored>>
  BY <1>5 DEF Settles, rivals
<1>7. k = IF q.core # None THEN q.core ELSE cases[q.case].core
  <2>1. Typed
    BY DEF CInv
  <2> QED
    BY <2>1, <1>2, CallParts, NoneAssumption
<1>8. call' = [call EXCEPT ![t] = None]
  BY <1>1 DEF Return
<1>9. Serve(t)
  BY <1>2, <1>5, <1>7, <1>8 DEF Serve, rivals
<1> QED
  BY <1>1, <1>6, <1>9

\* The snapshot of the moment.
LEMMA FreshSnapshot ==
    ASSUME Typed, NEW c \in Cases, cases[c] # None
    PROVE  LET k == cases[c].core
               p == Snapshot(cases[c], cores[k], Rivals(c, k, cases))
           IN /\ p \in SnapshotRecord
              /\ p.caseRevision = cases[c].revision /\ p.coreRevision = cores[k].revision
              /\ p.rivals = Rivals(c, k, cases)
<1> DEFINE k == cases[c].core
<1>1. cases[c] \in CaseRecord /\ k \in Cores /\ cores[k] \in CoreRecord
  BY DEF Typed, CaseOrNone, CaseRecord
<1>2. Rivals(c, k, cases) \in SUBSET Rival
  BY RivalsTyped DEF Typed
<1>3. cases[c].revision \in Nat /\ cores[k].revision \in Nat
  BY <1>1 DEF CaseRecord, CoreRecord
<1> QED
  BY <1>2, <1>3 DEF Snapshot, SnapshotRecord

\* Nobody else is disturbed: two handlers past their locks are on different
\* cores, so on different cases, as no id is created on two cores.
LEMMA SettleKeeps ==
    ASSUME OneCoreEach, CInv, NEW t \in Calls, At(t, "decide"), Return(t), Settles(t)
    PROVE  CInv'
<1> DEFINE q == call[t]
           k == CoreToLock(t)
<1>1. Typed /\ CreatedAsAsked
  BY DEF CInv
<1>2. /\ q # None /\ q.kind \in Kinds \ Reading
      /\ k \in Cores /\ holder[k] = t
      /\ q.kind # "reviseCore" => q.case \in Cases
      /\ q.kind \in OnCase => cases[q.case] \in CaseRecord /\ k = cases[q.case].core
      /\ q.kind \notin OnCase => k = q.core
  BY DecidesOnThePresent
<1>3. q \in Request /\ q \in Requests
  BY <1>1, <1>2, CallParts
<1>4. Rivals(q.case, k, cases) \in SUBSET Rival
  BY <1>1, RivalsTyped DEF Typed
<1>5. /\ cores' \in [Cores -> CoreRecord]
      /\ cases' \in [Cases -> CaseOrNone]
      /\ \A k2 \in Cores : k2 # k => cores'[k2] = cores[k2]
      /\ \A c \in Cases : cases'[c] # cases[c] =>
            /\ c = q.case
            /\ cases'[c] \in CaseRecord
            /\ cases'[c].core = k
            /\ \/ cases[c] = None /\ q.kind = "create"
               \/ cases[c] \in CaseRecord /\ cases[c].core = k
  BY <1>1, <1>2, <1>3, <1>4, WriteParts DEF Settles
<1> HIDE DEF k
<1>11. /\ stored' \in [Cases -> SUBSET SnapshotRecord]
       /\ \A c \in Cases : stored'[c] = stored[c] \/ (c = q.case /\ cases[c] # None)
  <2> DEFINE p == Snapshot(cases[q.case], cores[k], Rivals(q.case, k, cases))
  <2>1. Store(q, p)
    BY DEF Settles, k
  <2>2. CASE q.kind = "precheck"
    <3>1. q.case \in Cases /\ cases[q.case] # None /\ k = cases[q.case].core
      BY <1>2, <2>2, NoRecordAssumption DEF OnCase
    <3>2. p \in SnapshotRecord
      BY <1>1, <3>1, FreshSnapshot
    <3> HIDE DEF p
    <3> QED
      BY <1>1, <2>1, <3>1, <3>2 DEF Store, Typed
  <2>3. CASE q.kind # "precheck"
    BY <1>1, <2>1, <2>3 DEF Store, Typed
  <2> QED
    BY <2>2, <2>3
<1>6. Typed'
  BY <1>5, <1>11, ReturnParts DEF Typed
<1>7. CreatedAsAsked'
  <2> SUFFICES ASSUME NEW c \in Cases, cases'[c] # None
               PROVE  \E r \in Requests : r.kind = "create" /\ r.case = c /\ r.core = cases'[c].core
    BY DEF CreatedAsAsked
  <2>1. CASE cases'[c] = cases[c]
    BY <2>1, <1>1 DEF CreatedAsAsked
  <2>2. CASE cases'[c] # cases[c] /\ cases[c] = None /\ q.kind = "create"
    BY <2>2, <1>2, <1>3, <1>5 DEF OnCase
  <2>3. CASE cases'[c] # cases[c] /\ cases[c] \in CaseRecord /\ cases[c].core = k
    BY <2>3, <1>1, <1>5, NoRecordAssumption DEF CreatedAsAsked
  <2> QED
    BY <1>5, <2>1, <2>2, <2>3
<1>8. ASSUME NEW c \in Cases, cases[c] # None
      PROVE  cases'[c] # None /\ cases'[c].core = cases[c].core
  BY <1>5, <1>8, NoRecordAssumption
<1>12. StoredOfCases'
  BY <1>8, <1>11 DEF CInv, StoredOfCases
<1>9. ASSUME NEW u \in Calls \ {t} PROVE OnCourse(u)'
  <2> DEFINE r == call[u]
             k2 == CoreToLock(u)
  <2>1. OnCourse(u)
    BY DEF CInv
  <2>2. /\ call'[u] = call[u] /\ at'[u] = at[u] /\ found'[u] = found[u] /\ read'[u] = read[u]
        /\ \A k3 \in Cores : holder[k3] = u => holder'[k3] = u
    BY ReturnParts
  <2>3. ASSUME Past(u)
        PROVE  /\ r.case \in Cases => cases'[r.case] = cases[r.case]
               /\ cores'[k2] = cores[k2]
               /\ Rivals(r.case, k2, cases') = Rivals(r.case, k2, cases)
    <3>1. /\ r # None /\ r \in Requests /\ r.kind \in Kinds \ Reading
          /\ k2 \in Cores
          /\ r.kind \in OnCase => cases[r.case] \in CaseRecord /\ k2 = cases[r.case].core
          /\ r.kind = "create" => r.core = k2
          /\ r.kind = "reviseCore" => r.case \notin Cases
      BY <1>1, <2>1, <2>3, CallParts, LockParts, NoneAssumption DEF Past, OnCase, OnCore
    <3>2. k2 # k
      BY <1>2, <2>1, <2>3, <3>1 DEF OnCourse, Locked
    <3> HIDE DEF k2
    <3>3. cores'[k2] = cores[k2]
      BY <1>5, <3>1, <3>2
    <3>4. Rivals(r.case, k2, cases') = Rivals(r.case, k2, cases)
      BY <1>5, <3>2, RivalsElsewhere
    <3>5. ASSUME r.case \in Cases, cases'[r.case] # cases[r.case] PROVE FALSE
      <4>1. /\ r.case = q.case
            /\ \/ cases[r.case] = None /\ q.kind = "create"
               \/ cases[r.case] \in CaseRecord /\ cases[r.case].core = k
        BY <1>5, <3>5
      <4>2. r.kind = "create"
        BY <3>1, <3>2, <3>5, <4>1, NoRecordAssumption DEF Kinds, OnCore
      <4>3. CASE cases[r.case] = None /\ q.kind = "create"
        <5>1. q.core = r.core
          BY <1>3, <3>1, <4>1, <4>2, <4>3 DEF OneCoreEach
        <5> QED
          BY <5>1, <1>2, <3>1, <3>2, <4>2, <4>3 DEF OnCase
      <4>4. CASE cases[r.case] \in CaseRecord /\ cases[r.case].core = k
        <5>1. PICK s \in Requests : s.kind = "create" /\ s.case = r.case /\ s.core = k
          BY <1>1, <3>5, <4>4, NoRecordAssumption DEF CreatedAsAsked
        <5>2. s.core = r.core
          BY <3>1, <4>2, <5>1 DEF OneCoreEach
        <5> QED
          BY <5>1, <5>2, <3>1, <3>2, <4>2
      <4> QED
        BY <4>1, <4>3, <4>4
    <3> QED
      BY <3>3, <3>4, <3>5
  <2> QED
    BY <2>2, <2>3, <1>8, Undisturbed
<1>10. OnCourse(t)'
  BY ReturnParts
<1> QED
  BY <1>6, <1>7, <1>9, <1>10, <1>12 DEF CInv

-----------------------------------------------------------------------------
(***************************************************************************)
(* The theorems.                                                           *)
(***************************************************************************)

LEMMA StepKeeps ==
    ASSUME OneCoreEach, CInv, [CNext]_allVars
    PROVE  CInv'
<1>1. ASSUME NEW t \in Calls, NEW q \in Requests, Begin(t, q) PROVE CInv'
  BY <1>1, BeginKeeps
<1>2. ASSUME NEW t \in Calls, Lookup(t) PROVE CInv'
  BY <1>2, LookupKeeps
<1>3. ASSUME NEW t \in Calls, NotFound(t) PROVE CInv'
  BY <1>3, QuietReturn DEF NotFound
<1>4. ASSUME NEW t \in Calls, Lock(t) PROVE CInv'
  BY <1>4, LockKeeps
<1>5. ASSUME NEW t \in Calls, ReadCase(t) PROVE CInv'
  BY <1>5, ReadCaseKeeps
<1>6. ASSUME NEW t \in Calls, ReadCore(t) PROVE CInv'
  BY <1>6, ReadCoreKeeps
<1>7. ASSUME NEW t \in Calls, ReadCases(t) PROVE CInv'
  BY <1>7, ReadCasesKeeps
<1>8. ASSUME NEW t \in Calls, Decide(t) PROVE CInv'
  <2>1. Return(t) /\ At(t, "decide") /\ (Settles(t) \/ UNCHANGED <<records, stored>>)
    BY <1>8, DecideIsSerial DEF Decide
  <2> QED
    BY <2>1, SettleKeeps, QuietReturn
<1>9. ASSUME NEW t \in Calls, AnswerReader(t) PROVE CInv'
  BY <1>9, QuietReturn DEF AnswerReader
<1>10. ASSUME UNCHANGED allVars PROVE CInv'
  BY <1>10 DEF allVars, threadVars, vars, records, CInv, Typed, CreatedAsAsked, StoredOfCases,
               OnCourse, Placed, Found, Locked, Past, CoreToLock, Known, CaseKnown, CoreKnown, RivalsKnown
<1> QED
  BY <1>1, <1>2, <1>3, <1>4, <1>5, <1>6, <1>7, <1>8, <1>9, <1>10 DEF CNext

\* Under the mutex of its core, a handler decides on records that are still as
\* it has read them: the calls may be treated as one step each, as
\* SamplingWorkflow does, if every creation of an id names the same core.
THEOREM SeenHolds ==
    ASSUME OneCoreEach
    PROVE  CSpec => []SeenStillHolds
<1>1. CInv => SeenStillHolds
  <2> SUFFICES ASSUME CInv, NEW t \in Calls, At(t, "decide")
               PROVE  /\ call[t].case # None => read[t].case = cases[call[t].case]
                      /\ read[t].core # None => read[t].core = cores[CoreRead(t)]
                      /\ read[t].cases # None =>
                            Rivals(call[t].case, CoreRead(t), read[t].cases)
                               = Rivals(call[t].case, CoreRead(t), cases)
    BY DEF SeenStillHolds
  <2>1. Typed
    BY DEF CInv
  <2>2. call[t].case # None => call[t].kind # "reviseCore"
    BY <2>1, DecidesOnThePresent, CallParts DEF OnCore
  <2> QED
    BY <2>2, DecidesOnThePresent
<1> QED
  BY <1>1, Initially, StepKeeps, PTL DEF CSpec

\* The concurrent handlers have the effect of whole calls in some order, each
\* between its request and its return.
THEOREM CallsAreSerial ==
    ASSUME OneCoreEach
    PROVE  CSpec => Serializable
<1>1. ASSUME CInv, [CNext]_allVars PROVE [Next]_vars
  <2>1. ASSUME NEW t \in Calls, NEW q \in Requests, Begin(t, q) PROVE Next
    BY <2>1 DEF Begin, Next
  <2>2. ASSUME NEW t \in Calls, Decide(t) PROVE Next
    BY <2>2, <1>1, DecideIsSerial DEF Next
  <2>3. ASSUME NEW t \in Calls, NotFound(t) PROVE Next
    <3>1. Typed /\ OnCourse(t)
      BY <1>1 DEF CInv
    <3>2. call[t] # None /\ call[t].kind \in OnCase \ Reading
      BY <2>3, <3>1, CallParts, AfterLookup DEF NotFound, At, OnCourse, Placed
    <3>3. cases[call[t].case] = None /\ UNCHANGED records /\ call' = [call EXCEPT ![t] = None]
      BY <2>3 DEF NotFound, Return
    <3>4. ASSUME NEW core, NEW rivals PROVE ~Accepts(call[t], None, core, rivals)
      BY <3>2 DEF Accepts, OnCase
    <3>5. Serve(t)
      BY <3>2, <3>3, <3>4 DEF Serve
    <3> QED
      BY <3>5 DEF Next
  <2>4. ASSUME NEW t \in Calls, AnswerReader(t) PROVE Next
    <3>1. Typed /\ OnCourse(t)
      BY <1>1 DEF CInv
    <3>2. call[t] # None /\ call[t].kind \in Reading
      BY <2>4, <3>1, CallParts, LastSteps DEF AnswerReader, At, OnCourse, Placed
    <3>3. UNCHANGED records /\ call' = [call EXCEPT ![t] = None]
      BY <2>4 DEF AnswerReader, Return
    <3>4. ASSUME NEW k, NEW rec, NEW core, NEW rivals PROVE Write(call[t], k, rec, core, rivals)
      BY <3>2, <3>3 DEF Write, records
    <3>5. Serve(t)
      BY <3>2, <3>3, <3>4 DEF Serve
    <3> QED
      BY <3>5 DEF Next
  <2>5. ASSUME NEW t \in Calls,
               Lookup(t) \/ Lock(t) \/ ReadCase(t) \/ ReadCore(t) \/ ReadCases(t)
        PROVE  UNCHANGED vars
    BY <2>5 DEF Lookup, Lock, ReadCase, ReadCore, ReadCases, Keep
  <2>6. ASSUME UNCHANGED allVars PROVE UNCHANGED vars
    BY <2>6 DEF allVars
  <2> QED
    BY <1>1, <2>1, <2>2, <2>3, <2>4, <2>5, <2>6 DEF CNext
<1>2. CInit => Init
  BY DEF CInit
<1> QED
  BY <1>1, <1>2, Initially, StepKeeps, PTL DEF CSpec, Serializable, Spec
-----------------------------------------------------------------------------
(***************************************************************************)
(* Answers without a mutex                                                 *)
(*                                                                         *)
(* GetPrecheck looks up the case, its core and the rivals one after the    *)
(* other, while handlers write between the lookups. Each of the three only *)
(* grows: the revisions, and for a rival the revision and the status read  *)
(* as one number. So what it read lies between the snapshot and the        *)
(* present, and is the present if the present is the snapshot.             *)
(***************************************************************************)

Rank(s) == IF s = "Authorized" THEN 2 ELSE IF s = "Submitted" THEN 1 ELSE 0

\* Of a case record, or of the summary a snapshot keeps of one.
Age(r) == 3 * r.revision + Rank(r.status)

\* old is what new was, at some earlier moment or now.
Before(old, new) ==
    old # None =>
        /\ new # None /\ new.core = old.core
        /\ Age(old) < Age(new) \/ (new.status = old.status /\ new.revision = old.revision)

\* Nothing snapshot p speaks of was further then than it is here.
NotAhead(p, rec, core, all) ==
    /\ p.caseRevision <= rec.revision
    /\ p.coreRevision <= core.revision
    /\ \A a \in p.rivals : all[a.case] # None /\ Age(a) <= Age(all[a.case])

\* A freeze between the lookup of the core and the present has left its mark
\* on the core.
FreezesSeen(all, core, k) ==
    \A d \in Cases :
        /\ all[d] # None /\ all[d].core = k /\ all[d].status # "Frozen"
        /\ cases[d].status = "Frozen"
        => core.revision < cores[k].revision

StoredNotAhead ==
    \A c \in Cases : \A p \in stored[c] : NotAhead(p, cases[c], cores[cases[c].core], cases)

\* What GetPrecheck has read so far lies between the snapshot and the present.
Between(t) ==
    LET q    == call[t]
        p    == found[t]
        rec  == cases[q.case]
        seen == read[t]
    IN q # None /\ q.kind = "validity" =>
        /\ p \in SnapshotRecord
        /\ NotAhead(p, rec, cores[rec.core], cases)
        /\ at[t] # "case" =>
              /\ seen.case \in CaseRecord /\ seen.case.core = rec.core
              /\ p.caseRevision <= seen.case.revision /\ seen.case.revision <= rec.revision
        /\ at[t] \in {"cases", "answer"} =>
              /\ seen.core \in CoreRecord
              /\ p.coreRevision <= seen.core.revision
              /\ seen.core.revision <= cores[rec.core].revision
        /\ at[t] = "answer" =>
              /\ seen.cases \in [Cases -> CaseOrNone]
              /\ \A a \in p.rivals :
                    seen.cases[a.case] # None /\ Age(a) <= Age(seen.cases[a.case])
              /\ \A d \in Cases : Before(seen.cases[d], cases[d])
              /\ FreezesSeen(seen.cases, seen.core, rec.core)

WatchInv == StoredNotAhead /\ \A t \in Calls : Between(t)

LEMMA AgeType ==
    ASSUME NEW r \in CaseRecord \cup Rival
    PROVE  /\ r.revision \in Nat /\ Rank(r.status) \in 0..2
           /\ Age(r) = 3 * r.revision + Rank(r.status) /\ Age(r) \in Int
BY DEF CaseRecord, Rival, Age, Rank

LEMMA BeforeMeans ==
    ASSUME NEW old \in CaseRecord, NEW new \in CaseRecord, Before(old, new)
    PROVE  new.core = old.core /\ old.revision <= new.revision /\ Age(old) <= Age(new)
<1>1. /\ new.core = old.core
      /\ Age(old) < Age(new) \/ (new.status = old.status /\ new.revision = old.revision)
  BY NoRecordAssumption DEF Before
<1> QED
  BY <1>1, AgeType DEF Age

LEMMA BeforeTransitive ==
    ASSUME NEW old \in CaseOrNone, NEW mid \in CaseOrNone, NEW new \in CaseOrNone,
           Before(old, mid), Before(mid, new)
    PROVE  Before(old, new)
<1> SUFFICES ASSUME old # None PROVE Before(old, new)
  BY DEF Before
<1>1. old \in CaseRecord /\ mid \in CaseRecord /\ new \in CaseRecord
  BY DEF Before, CaseOrNone
<1>2. Age(old) \in Int /\ Age(mid) \in Int /\ Age(new) \in Int
  BY <1>1, AgeType
<1>3. mid.status = old.status /\ mid.revision = old.revision => Age(mid) = Age(old)
  BY DEF Age
<1>4. new.status = mid.status /\ new.revision = mid.revision => Age(new) = Age(mid)
  BY DEF Age
<1> QED
  BY <1>2, <1>3, <1>4, NoRecordAssumption, <1>1 DEF Before

\* What a step of the records may do.
Grows ==
    /\ \A c \in Cases : Before(cases[c], cases'[c])
    /\ \A k \in Cores : cores[k].revision <= cores'[k].revision
    /\ \A c \in Cases :
          cases[c] # None /\ cases[c].status # "Frozen" /\ cases'[c].status = "Frozen"
             => cores[cases[c].core].revision < cores'[cases[c].core].revision
    /\ \A c \in Cases : \A p \in stored'[c] \ stored[c] :
          /\ cases[c] # None
          /\ p = Snapshot(cases[c], cores[cases[c].core], Rivals(c, cases[c].core, cases))

LEMMA QuietGrows ==
    ASSUME Typed, UNCHANGED <<records, stored>>
    PROVE  Grows
<1>1. cases' = cases /\ cores' = cores /\ stored' = stored
  BY DEF records
<1>2. \A k \in Cores : cores[k].revision \in Nat
  BY DEF Typed, CoreRecord
<1> QED
  BY <1>1, <1>2 DEF Grows, Before

\* An accepted request moves its case on.
LEMMA CaseAfterGrows ==
    ASSUME NEW q \in Request, q.kind \in OnCase \ Reading,
           NEW rec \in CaseRecord, NEW core \in CoreRecord, NEW rivals \in SUBSET Rival,
           Accepts(q, rec, core, rivals)
    PROVE  /\ Before(rec, CaseAfter(q, rec, core, rivals))
           /\ rec.status # "Frozen" /\ CaseAfter(q, rec, core, rivals).status = "Frozen"
                 => q.kind = "freeze"
<1> DEFINE new == CaseAfter(q, rec, core, rivals)
<1>0. rec.revision \in Nat /\ rec.status \in Status /\ rec.core \in Cores /\ rec # None
  BY NoRecordAssumption DEF CaseRecord
<1>1. new \in CaseRecord /\ new # None /\ new.core = rec.core
  BY CaseAfterParts, NoRecordAssumption
<1>2. CASE q.kind = "precheck"
  <2>1. new = [rec EXCEPT !.precheck = Snapshot(rec, core, rivals)]
    BY <1>2 DEF CaseAfter
  <2>2. new.status = rec.status /\ new.revision = rec.revision
    BY <2>1 DEF CaseRecord
  <2> HIDE DEF new
  <2> QED
    BY <1>1, <2>2 DEF Before, new
<1>3. CASE q.kind = "revise"
  <2>1. new = [rec EXCEPT !.revision = @ + 1, !.precheck = None]
    BY <1>3 DEF CaseAfter
  <2>2. new.status = rec.status /\ new.revision = rec.revision + 1
    BY <2>1 DEF CaseRecord
  <2> HIDE DEF new
  <2>3. Age(rec) < Age(new)
    BY <1>1, <2>2, AgeType DEF Age
  <2> QED
    BY <1>1, <2>2, <2>3 DEF Before, new
<1>4. CASE q.kind = "return"
  <2>1. new = [rec EXCEPT !.revision = @ + 1, !.precheck = None, !.status = "Returned"]
    BY <1>4 DEF CaseAfter
  <2>2. new.status = "Returned" /\ new.revision = rec.revision + 1
    BY <2>1 DEF CaseRecord
  <2> HIDE DEF new
  <2>3. Age(rec) < Age(new)
    BY <1>1, <2>2, AgeType
  <2> QED
    BY <1>1, <2>2, <2>3 DEF Before, new
<1>5. CASE q.kind = "submit"
  <2>1. new = [rec EXCEPT !.status = "Submitted"]
    BY <1>5 DEF CaseAfter
  <2>2. new.status = "Submitted" /\ new.revision = rec.revision
    BY <2>1 DEF CaseRecord
  <2>3. rec.status \in {"Draft", "Returned"}
    BY <1>5 DEF Accepts, OnCase
  <2> HIDE DEF new
  <2>4. Age(rec) < Age(new)
    BY <1>0, <2>2, <2>3 DEF Age, Rank
  <2> QED
    BY <1>1, <2>2, <2>4 DEF Before, new
<1>6. CASE q.kind = "authorize"
  <2>1. new = [rec EXCEPT !.status = "Authorized"]
    BY <1>6 DEF CaseAfter
  <2>2. new.status = "Authorized" /\ new.revision = rec.revision
    BY <2>1 DEF CaseRecord
  <2>3. rec.status = "Submitted"
    BY <1>6 DEF Accepts, OnCase
  <2> HIDE DEF new
  <2>4. Age(rec) < Age(new)
    BY <1>0, <2>2, <2>3 DEF Age, Rank
  <2> QED
    BY <1>1, <2>2, <2>4 DEF Before, new
<1>7. CASE q.kind = "execute"
  <2>1. new = [rec EXCEPT !.status = "Executed", !.revision = @ + 1]
    BY <1>7 DEF CaseAfter
  <2>2. new.status = "Executed" /\ new.revision = rec.revision + 1
    BY <2>1 DEF CaseRecord
  <2> HIDE DEF new
  <2>3. Age(rec) < Age(new)
    BY <1>1, <2>2, AgeType
  <2> QED
    BY <1>1, <2>2, <2>3 DEF Before, new
<1>8. CASE q.kind = "freeze"
  <2>1. new = [rec EXCEPT !.status = "Frozen", !.revision = @ + 1]
    BY <1>8 DEF CaseAfter
  <2>2. new.status = "Frozen" /\ new.revision = rec.revision + 1
    BY <2>1 DEF CaseRecord
  <2> HIDE DEF new
  <2>3. Age(rec) < Age(new)
    BY <1>1, <2>2, AgeType
  <2> QED
    BY <1>1, <1>8, <2>2, <2>3 DEF Before, new
<1> QED
  BY <1>2, <1>3, <1>4, <1>5, <1>6, <1>7, <1>8 DEF OnCase

LEMMA SettleGrows ==
    ASSUME CInv, NEW t \in Calls, At(t, "decide"), Settles(t)
    PROVE  Grows
<1> DEFINE q == call[t]
           k == CoreToLock(t)
           rivals == Rivals(q.case, k, cases)
<1>1. Typed
  BY DEF CInv
<1>2. /\ q # None /\ q.kind \in Kinds \ Reading
      /\ k \in Cores
      /\ q.kind # "reviseCore" => q.case \in Cases
      /\ q.kind \in OnCase => cases[q.case] \in CaseRecord /\ k = cases[q.case].core
      /\ q.kind \notin OnCase => k = q.core
  BY DecidesOnThePresent
<1>3. q \in Request
  BY <1>1, <1>2, CallParts
<1>4. rivals \in SUBSET Rival
  BY <1>1, RivalsTyped DEF Typed
<1>5. /\ Accepts(q, cases[q.case], cores[k], rivals)
      /\ Write(q, k, cases[q.case], cores[k], rivals)
  BY DEF Settles
<1>6. cores[k] \in CoreRecord /\ \A j \in Cores : cores[j].revision \in Nat
  BY <1>1, <1>2 DEF Typed, CoreRecord
<1>11. ASSUME NEW c \in Cases, NEW p \in stored'[c] \ stored[c]
       PROVE  /\ cases[c] # None
              /\ p = Snapshot(cases[c], cores[cases[c].core], Rivals(c, cases[c].core, cases))
  <2>1. Store(q, Snapshot(cases[q.case], cores[k], rivals))
    BY DEF Settles
  <2>2. /\ q.kind = "precheck"
        /\ stored' = [stored EXCEPT ![q.case] = @ \cup {Snapshot(cases[q.case], cores[k], rivals)}]
    BY <1>11, <2>1 DEF Store
  <2>3. q.case \in Cases /\ cases[q.case] # None /\ k = cases[q.case].core
    BY <1>2, <2>2, NoRecordAssumption DEF OnCase
  <2>4. c = q.case /\ p = Snapshot(cases[q.case], cores[k], rivals)
    BY <1>1, <1>11, <2>2, <2>3 DEF Typed
  <2> QED
    BY <2>3, <2>4
<1> HIDE DEF k, rivals
<1>7. /\ \A j \in Cores : cores[j].revision <= cores'[j].revision
      /\ q.kind = "freeze" => cores[k].revision < cores'[k].revision
  <2>1. CoreAfter(q, cores[k]).revision = cores[k].revision + 1
    BY DEF CoreAfter
  <2>2. cores' = IF q.kind \in {"freeze", "reviseCore"}
                 THEN [cores EXCEPT ![k] = CoreAfter(q, cores[k])] ELSE cores
    BY <1>5 DEF Write
  <2> QED
    BY <1>1, <1>2, <1>6, <2>1, <2>2 DEF Typed
<1>8. CASE q.kind = "reviseCore"
  <2>1. cases' = cases
    BY <1>5, <1>8 DEF Write, OnCore
  <2> QED
    BY <1>7, <1>11, <2>1 DEF Grows, Before
<1>9. CASE q.kind = "create"
  <2> DEFINE new == [core |-> q.core, status |-> "Draft", revision |-> 1, precheck |-> None]
  <2>1. cases' = [cases EXCEPT ![q.case] = new]
    BY <1>5, <1>9 DEF Write, OnCore, CaseAfter
  <2>2. ASSUME NEW old, Accepts(q, old, cores[k], rivals) PROVE old = None
    BY <1>9, <2>2 DEF Accepts, OnCase, OnCore
  <2>3. cases[q.case] = None
    BY <1>5, <2>2
  <2> HIDE DEF new
  <2>5. /\ cases'[q.case] = new
        /\ \A c \in Cases \ {q.case} : cases'[c] = cases[c]
    BY <1>1, <1>2, <1>9, <2>1 DEF Typed
  <2> QED
    BY <1>7, <1>11, <2>3, <2>5 DEF Grows, Before
<1>10. CASE q.kind \in OnCase
  <2> DEFINE rec == cases[q.case]
             new == CaseAfter(q, rec, cores[k], rivals)
  <2>1. cases' = [cases EXCEPT ![q.case] = new] /\ q.case \in Cases
    BY <1>2, <1>5, <1>10 DEF Write, OnCase, OnCore
  <2>2. /\ Before(rec, new)
        /\ rec.status # "Frozen" /\ new.status = "Frozen" => q.kind = "freeze"
    BY <1>2, <1>3, <1>4, <1>5, <1>6, <1>10, CaseAfterGrows
  <2> HIDE DEF new
  <2>3. /\ cases'[q.case] = new
        /\ \A c \in Cases \ {q.case} : cases'[c] = cases[c]
    BY <1>1, <2>1 DEF Typed
  <2>4. rec # None /\ k = rec.core
    BY <1>2, <1>10, NoRecordAssumption
  <2>5. \A c \in Cases : Before(cases[c], cases'[c])
    BY <2>2, <2>3 DEF Before
  <2> QED
    BY <1>7, <1>11, <2>2, <2>3, <2>4, <2>5 DEF Grows
<1> QED
  BY <1>2, <1>8, <1>9, <1>10 DEF Kinds, OnCore

\* A snapshot that was not ahead is not ahead after a step.
LEMMA NotAheadKept ==
    ASSUME Typed, Typed', Grows, NEW p \in SnapshotRecord, NEW c \in Cases, cases[c] # None,
           NotAhead(p, cases[c], cores[cases[c].core], cases)
    PROVE  NotAhead(p, cases'[c], cores'[cases'[c].core], cases')
<1> DEFINE k == cases[c].core
<1>1. /\ cases[c] \in CaseRecord /\ cases'[c] \in CaseRecord /\ k \in Cores
      /\ cores[k] \in CoreRecord /\ cores'[k] \in CoreRecord
      /\ p.caseRevision \in Nat /\ p.coreRevision \in Nat
  BY DEF Typed, CaseOrNone, CaseRecord, Grows, Before, SnapshotRecord
<1>2. cases'[c].core = k /\ cases[c].revision <= cases'[c].revision
  BY <1>1, BeforeMeans DEF Grows
<1>3. p.caseRevision <= cases'[c].revision
  BY <1>1, <1>2, AgeType DEF NotAhead
<1>4. p.coreRevision <= cores'[k].revision
  BY <1>1 DEF NotAhead, Grows, CoreRecord
<1>5. ASSUME NEW a \in p.rivals
      PROVE  cases'[a.case] # None /\ Age(a) <= Age(cases'[a.case])
  <2>1. a \in Rival /\ a.case \in Cases
    BY DEF SnapshotRecord, Rival
  <2>2. cases[a.case] # None /\ Age(a) <= Age(cases[a.case])
    BY DEF NotAhead
  <2>3. cases[a.case] \in CaseRecord /\ cases'[a.case] # None /\ cases'[a.case] \in CaseRecord
    BY <2>1, <2>2 DEF Typed, CaseOrNone, Grows, Before
  <2>4. Age(cases[a.case]) <= Age(cases'[a.case])
    BY <2>1, <2>3, BeforeMeans DEF Grows
  <2>5. Age(a) \in Int /\ Age(cases[a.case]) \in Int /\ Age(cases'[a.case]) \in Int
    BY <2>1, <2>3, AgeType
  <2> QED
    BY <2>2, <2>3, <2>4, <2>5
<1> QED
  BY <1>2, <1>3, <1>4, <1>5 DEF NotAhead

\* Neither is the snapshot of the moment.
LEMMA FreshNotAhead ==
    ASSUME Typed, NEW c \in Cases, cases[c] # None
    PROVE  LET k == cases[c].core
               p == Snapshot(cases[c], cores[k], Rivals(c, k, cases))
           IN p \in SnapshotRecord /\ NotAhead(p, cases[c], cores[k], cases)
<1> DEFINE k == cases[c].core
           p == Snapshot(cases[c], cores[k], Rivals(c, k, cases))
<1>1. cases[c] \in CaseRecord /\ k \in Cores /\ cores[k] \in CoreRecord
  BY DEF Typed, CaseOrNone, CaseRecord
<1>3. cases[c].revision \in Nat /\ cores[k].revision \in Nat
  BY <1>1 DEF CaseRecord, CoreRecord
<1>4. /\ p \in SnapshotRecord
      /\ p.caseRevision = cases[c].revision /\ p.coreRevision = cores[k].revision
      /\ p.rivals = Rivals(c, k, cases)
  BY FreshSnapshot
<1>5. ASSUME NEW a \in Rivals(c, k, cases)
      PROVE  cases[a.case] # None /\ Age(a) <= Age(cases[a.case])
  <2>1. PICK d \in Cases : /\ cases[d] # None
                           /\ a = [case |-> d, status |-> cases[d].status,
                                   revision |-> cases[d].revision]
    BY <1>5 DEF Rivals
  <2>2. /\ a.case = d /\ a.status = cases[d].status /\ a.revision = cases[d].revision
        /\ cases[d] \in CaseRecord
    BY <2>1 DEF Typed, CaseOrNone
  <2>3. Age(a) = Age(cases[d]) /\ Age(cases[d]) \in Int
    BY <2>2, AgeType DEF Age
  <2> QED
    BY <2>1, <2>2, <2>3
<1> HIDE DEF p
<1>6. NotAhead(p, cases[c], cores[k], cases)
  BY <1>3, <1>4, <1>5 DEF NotAhead
<1> QED
  BY <1>4, <1>6 DEF p

LEMMA StoredKept ==
    ASSUME Typed, Typed', StoredOfCases, Grows, StoredNotAhead
    PROVE  StoredNotAhead'
<1> SUFFICES ASSUME NEW c \in Cases, NEW p \in stored'[c]
             PROVE  NotAhead(p, cases'[c], cores'[cases'[c].core], cases')
  BY DEF StoredNotAhead
<1>1. /\ cases[c] # None
      /\ \/ p \in stored[c]
         \/ p = Snapshot(cases[c], cores[cases[c].core], Rivals(c, cases[c].core, cases))
  BY DEF Grows, StoredOfCases
<1>2. p \in SnapshotRecord
  BY DEF Typed
<1>3. NotAhead(p, cases[c], cores[cases[c].core], cases)
  BY <1>1, FreshNotAhead DEF StoredNotAhead
<1> QED
  BY <1>1, <1>2, <1>3, NotAheadKept

\* What GetPrecheck asks about exists while it does.
LEMMA WatchedParts ==
    ASSUME CInv, NEW t \in Calls, call[t] # None, call[t].kind = "validity"
    PROVE  /\ call[t].case \in Cases /\ call[t].core = None
           /\ cases[call[t].case] # None /\ cases[call[t].case] \in CaseRecord
           /\ cases[call[t].case].core \in Cores
           /\ at[t] \in {"case", "core", "cases", "answer"}
<1>1. Typed /\ OnCourse(t)
  BY DEF CInv
<1>2. call[t].kind \in OnCase
  BY DEF OnCase
<1>3. call[t].case \in Cases /\ call[t].core = None
  BY <1>1, <1>2, CallParts
<1>4. at[t] \in {"case", "core", "cases", "answer"}
  BY <1>1 DEF OnCourse, Placed, StepsOf
<1>5. cases[call[t].case] # None
  BY <1>1, <1>2, <1>4 DEF OnCourse, Found
<1> QED
  BY <1>1, <1>3, <1>4, <1>5 DEF Typed, CaseOrNone, CaseRecord

\* Steps of others leave what was read between the snapshot and the present.
LEMMA BetweenKept ==
    ASSUME CInv, Typed', Grows, NEW u \in Calls, Between(u),
           call'[u] = call[u], at'[u] = at[u], found'[u] = found[u], read'[u] = read[u]
    PROVE  Between(u)'
<1> SUFFICES ASSUME call[u] # None, call[u].kind = "validity"
             PROVE  Between(u)'
  BY DEF Between
<1> DEFINE c    == call[u].case
           k    == cases[c].core
           p    == found[u]
           seen == read[u]
<1>1. Typed /\ c \in Cases /\ cases[c] # None /\ cases[c] \in CaseRecord /\ k \in Cores
  BY WatchedParts DEF CInv
<1>2. cases'[c] \in CaseRecord
  BY <1>1 DEF Typed, CaseOrNone, Grows, Before
<1>3. /\ cases'[c].core = k /\ cases[c].revision <= cases'[c].revision
      /\ cores[k].revision <= cores'[k].revision
      /\ cases[c].revision \in Nat /\ cases'[c].revision \in Nat
      /\ cores[k].revision \in Nat /\ cores'[k].revision \in Nat
  BY <1>1, <1>2, BeforeMeans, AgeType DEF Grows, Typed, CoreRecord
<1>4. p \in SnapshotRecord /\ NotAhead(p, cases[c], cores[k], cases)
  BY DEF Between
<1>5. NotAhead(p, cases'[c], cores'[cases'[c].core], cases')
  BY <1>1, <1>4, NotAheadKept
<1>6. ASSUME at[u] # "case"
      PROVE  /\ seen.case \in CaseRecord /\ seen.case.core = k
             /\ p.caseRevision <= seen.case.revision
             /\ seen.case.revision <= cases'[c].revision
  <2>1. /\ seen.case \in CaseRecord /\ seen.case.core = k
        /\ p.caseRevision <= seen.case.revision /\ seen.case.revision <= cases[c].revision
    BY <1>6 DEF Between
  <2>2. seen.case.revision \in Nat
    BY <2>1, AgeType
  <2> QED
    BY <1>3, <2>1, <2>2
<1>7. ASSUME at[u] \in {"cases", "answer"}
      PROVE  /\ seen.core \in CoreRecord
             /\ p.coreRevision <= seen.core.revision
             /\ seen.core.revision <= cores'[k].revision
  <2>1. /\ seen.core \in CoreRecord
        /\ p.coreRevision <= seen.core.revision /\ seen.core.revision <= cores[k].revision
    BY <1>7 DEF Between
  <2>2. seen.core.revision \in Nat
    BY <2>1 DEF CoreRecord
  <2> QED
    BY <1>3, <2>1, <2>2
<1>8. ASSUME at[u] = "answer"
      PROVE  /\ seen.cases \in [Cases -> CaseOrNone]
             /\ \A a \in p.rivals :
                   seen.cases[a.case] # None /\ Age(a) <= Age(seen.cases[a.case])
             /\ \A d \in Cases : Before(seen.cases[d], cases'[d])
             /\ FreezesSeen(seen.cases, seen.core, k)'
  <2>1. /\ seen.cases \in [Cases -> CaseOrNone]
        /\ \A a \in p.rivals :
              seen.cases[a.case] # None /\ Age(a) <= Age(seen.cases[a.case])
        /\ \A d \in Cases : Before(seen.cases[d], cases[d])
        /\ FreezesSeen(seen.cases, seen.core, k)
        /\ seen.core \in CoreRecord /\ seen.core.revision <= cores[k].revision
    BY <1>8 DEF Between
  <2>2. seen.core.revision \in Nat
    BY <2>1 DEF CoreRecord
  <2>3. ASSUME NEW d \in Cases PROVE Before(seen.cases[d], cases'[d])
    <3>1. seen.cases[d] \in CaseOrNone /\ cases[d] \in CaseOrNone /\ cases'[d] \in CaseOrNone
      BY <1>1, <2>1 DEF Typed
    <3> QED
      BY <2>1, <3>1, BeforeTransitive DEF Grows
  <2> HIDE DEF k, seen
  <2>4. ASSUME NEW d \in Cases,
               seen.cases[d] # None, seen.cases[d].core = k, seen.cases[d].status # "Frozen",
               cases'[d].status = "Frozen"
        PROVE  seen.core.revision < cores'[k].revision
    <3>1. cases[d] # None /\ cases[d].core = k
      BY <2>1, <2>4 DEF Before
    <3>2. CASE cases[d].status = "Frozen"
      BY <1>3, <2>1, <2>2, <2>4, <3>2 DEF FreezesSeen
    <3>3. CASE cases[d].status # "Frozen"
      BY <1>3, <2>1, <2>2, <2>4, <3>1, <3>3 DEF Grows
    <3> QED
      BY <3>2, <3>3
  <2>5. FreezesSeen(seen.cases, seen.core, k)'
    <3>1. seen' = seen /\ k' = k
      BY <1>3 DEF seen, k
    <3> QED
      BY <2>4, <3>1 DEF FreezesSeen
  <2> QED
    BY <2>1, <2>3, <2>5
<1> QED
  BY <1>3, <1>4, <1>5, <1>6, <1>7, <1>8 DEF Between

LEMMA WatchKept ==
    ASSUME CInv, CInv', WatchInv, Grows, NEW t \in Calls, Between(t)',
           \A u \in Calls \ {t} :
              call'[u] = call[u] /\ at'[u] = at[u] /\ found'[u] = found[u] /\ read'[u] = read[u]
    PROVE  WatchInv'
<1>1. Typed /\ Typed' /\ StoredOfCases
  BY DEF CInv
<1>2. StoredNotAhead'
  BY <1>1, StoredKept DEF WatchInv
<1>3. ASSUME NEW u \in Calls, u # t PROVE Between(u)'
  <2>1. Between(u)
    BY DEF WatchInv
  <2> QED
    BY <1>1, <1>3, <2>1, BetweenKept
<1> QED
  BY <1>2, <1>3 DEF WatchInv

\* Whoever asks has been told of a snapshot that is stored.
LEMMA BeginWatched ==
    ASSUME CInv, StoredNotAhead, NEW t \in Calls, NEW q \in Requests, Begin(t, q)
    PROVE  Between(t)'
<1>1. Typed /\ q \in Request
  BY RequestsAssumption DEF CInv
<1>2. /\ call'[t] = q /\ cases' = cases /\ cores' = cores
      /\ at'[t] = Following(q.kind, "begin")
      /\ q.kind = "validity" => found'[t] \in stored[q.case]
  BY <1>1 DEF Begin, Ask, Typed, records
<1> SUFFICES ASSUME q.kind = "validity" PROVE Between(t)'
  BY <1>2 DEF Between
<1> DEFINE rec == cases[q.case]
           p == found'[t]
<1>3. q.case \in Cases /\ q.kind \in Kinds
  BY <1>1, RequestParts DEF OnCase
<1>4. at'[t] = "case"
  BY <1>2, <1>3, FirstStep
<1>5. p \in stored[q.case]
  BY <1>2
<1>6. p \in SnapshotRecord
  BY <1>1, <1>3, <1>5 DEF Typed
<1>7. NotAhead(p, rec, cores[rec.core], cases)
  BY <1>3, <1>5 DEF StoredNotAhead
<1> QED
  BY <1>2, <1>4, <1>6, <1>7 DEF Between

\* Each lookup of GetPrecheck reads the present.
LEMMA LookupWatched ==
    ASSUME CInv, WatchInv, NEW t \in Calls, ReadCase(t) \/ ReadCore(t) \/ ReadCases(t)
    PROVE  Between(t)'
<1>1. Typed /\ Between(t) /\ OnCourse(t)
  BY DEF CInv, WatchInv
<1>2. call' = call /\ cases' = cases /\ cores' = cores /\ found' = found
  BY DEF ReadCase, ReadCore, ReadCases, Keep, vars, records
<1> SUFFICES ASSUME call[t] # None, call[t].kind = "validity" PROVE Between(t)'
  BY <1>2 DEF Between
<1> DEFINE c    == call[t].case
           rec  == cases[c]
           core == cores[rec.core]
           p    == found[t]
           seen == read[t]
<1>3. /\ c \in Cases /\ call[t].core = None
      /\ rec # None /\ rec \in CaseRecord /\ rec.core \in Cores
  BY WatchedParts
<1>4. /\ rec.revision \in Nat /\ core \in CoreRecord /\ core.revision \in Nat
  BY <1>1, <1>3 DEF Typed, CaseRecord, CoreRecord
<1>5. /\ p \in SnapshotRecord /\ NotAhead(p, rec, core, cases)
  BY <1>1 DEF Between
<1>6. at'[t] = Following("validity", at[t])
  BY <1>1 DEF ReadCase, ReadCore, ReadCases, Keep, Advance, Typed
<1>7. "validity" \in Kinds
  BY DEF Kinds, OnCase
<1>8. seen \in [case : CaseOrNone, core : CoreRecord \cup {None}, cases : [Cases -> CaseOrNone] \cup {None}]
  BY <1>1 DEF Typed
<1>9. CASE ReadCase(t)
  <2>1. at'[t] = "core"
    BY <1>6, <1>9 DEF ReadCase, At, Following, NextLookup
  <2>2. read'[t].case = rec
    BY <1>1, <1>8, <1>9 DEF ReadCase, Keep, Typed
  <2>3. /\ read'[t].case \in CaseRecord /\ read'[t].case.core = rec.core
        /\ p.caseRevision <= read'[t].case.revision /\ read'[t].case.revision <= rec.revision
    BY <1>3, <1>4, <1>5, <2>2 DEF NotAhead
  <2> QED
    BY <1>2, <1>5, <2>1, <2>3 DEF Between
<1>10. CASE ReadCore(t)
  <2>0. at[t] = "core"
    BY <1>10 DEF ReadCore, At
  <2>1. at'[t] = "cases"
    BY <1>6, <2>0 DEF Following, NextLookup
  <2>2. /\ seen.case \in CaseRecord /\ seen.case.core = rec.core
        /\ p.caseRevision <= seen.case.revision /\ seen.case.revision <= rec.revision
    BY <1>1, <2>0 DEF Between
  <2>3. CoreRead(t) = rec.core
    BY <1>3, <2>2 DEF CoreRead
  <2>4. read'[t].core = core /\ read'[t].case = seen.case
    BY <1>1, <1>8, <1>10, <2>3 DEF ReadCore, Keep, Typed
  <2>5. p.coreRevision <= core.revision
    BY <1>5 DEF NotAhead
  <2> QED
    BY <1>2, <1>4, <1>5, <2>1, <2>2, <2>4, <2>5 DEF Between
<1>11. CASE ReadCases(t)
  <2>0. at[t] = "cases"
    BY <1>11 DEF ReadCases, At
  <2>1. at'[t] = "answer"
    BY <1>6, <2>0 DEF Following, NextLookup
  <2>2. /\ seen.case \in CaseRecord /\ seen.case.core = rec.core
        /\ p.caseRevision <= seen.case.revision /\ seen.case.revision <= rec.revision
        /\ seen.core \in CoreRecord
        /\ p.coreRevision <= seen.core.revision /\ seen.core.revision <= core.revision
    BY <1>1, <2>0 DEF Between
  <2>3. read'[t].cases = cases /\ read'[t].core = seen.core /\ read'[t].case = seen.case
    BY <1>1, <1>8, <1>11 DEF ReadCases, Keep, Typed
  <2>4. cases \in [Cases -> CaseOrNone]
    BY <1>1 DEF Typed
  <2>5. \A a \in p.rivals : cases[a.case] # None /\ Age(a) <= Age(cases[a.case])
    BY <1>5 DEF NotAhead
  <2>6. \A d \in Cases : Before(cases[d], cases[d])
    BY DEF Before
  <2>8. FreezesSeen(seen.cases, seen.core, rec.core)'
    BY <1>2, <2>3 DEF FreezesSeen
  <2> QED
    BY <1>2, <1>5, <2>1, <2>2, <2>3, <2>4, <2>5, <2>6, <2>8 DEF Between
<1> QED
  BY <1>9, <1>10, <1>11

\* A first lookup and a mutex are for the handlers that write.
LEMMA LockWatched ==
    ASSUME CInv, NEW t \in Calls, Lookup(t) \/ Lock(t)
    PROVE  Between(t)'
<1>1. call' = call /\ at[t] \in {"lookup", "lock"}
  BY DEF Lookup, Lock, At, vars
<1>2. ~(call[t] # None /\ call[t].kind = "validity")
  BY <1>1, WatchedParts
<1> QED
  BY <1>1, <1>2 DEF Between

LEMMA ReturnWatched ==
    ASSUME CInv, NEW t \in Calls, Return(t)
    PROVE  Between(t)'
<1>1. call'[t] = None
  BY DEF CInv, Typed, Return
<1> QED
  BY <1>1 DEF Between

LEMMA WatchStarts == CInit => WatchInv
BY DEF CInit, Init, WatchInv, StoredNotAhead, Between

LEMMA WatchKeeps ==
    ASSUME CInv, CInv', WatchInv, [CNext]_allVars
    PROVE  WatchInv'
<1>1. Typed /\ Typed'
  BY DEF CInv
<1>2. ASSUME NEW t \in Calls, NEW q \in Requests, Begin(t, q) PROVE WatchInv'
  <2>1. UNCHANGED <<records, stored>>
    BY <1>2 DEF Begin, Ask
  <2>2. Between(t)'
    BY <1>2, BeginWatched DEF WatchInv
  <2>3. \A u \in Calls \ {t} :
           call'[u] = call[u] /\ at'[u] = at[u] /\ found'[u] = found[u] /\ read'[u] = read[u]
    BY <1>1, <1>2 DEF Begin, Ask, Typed
  <2> QED
    BY <1>1, <2>1, <2>2, <2>3, QuietGrows, WatchKept
<1>3. ASSUME NEW t \in Calls,
             Lookup(t) \/ Lock(t) \/ ReadCase(t) \/ ReadCore(t) \/ ReadCases(t)
      PROVE  WatchInv'
  <2>1. UNCHANGED <<records, stored>>
    BY <1>3 DEF Lookup, Lock, ReadCase, ReadCore, ReadCases, Keep, vars
  <2>2. Between(t)'
    BY <1>3, LockWatched, LookupWatched
  <2>3. \A u \in Calls \ {t} :
           call'[u] = call[u] /\ at'[u] = at[u] /\ found'[u] = found[u] /\ read'[u] = read[u]
    BY <1>1, <1>3 DEF Lookup, Lock, ReadCase, ReadCore, ReadCases, Keep, Advance, vars, Typed
  <2> QED
    BY <1>1, <2>1, <2>2, <2>3, QuietGrows, WatchKept
<1>4. ASSUME NEW t \in Calls, Return(t), Grows PROVE WatchInv'
  <2>1. Between(t)'
    BY <1>4, ReturnWatched
  <2> QED
    BY <1>4, <2>1, ReturnParts, WatchKept
<1>5. ASSUME NEW t \in Calls, NotFound(t) \/ AnswerReader(t) PROVE WatchInv'
  BY <1>1, <1>4, <1>5, QuietGrows DEF NotFound, AnswerReader
<1>6. ASSUME NEW t \in Calls, Decide(t) PROVE WatchInv'
  <2>1. Return(t) /\ At(t, "decide") /\ (Settles(t) \/ UNCHANGED <<records, stored>>)
    BY <1>6, DecideIsSerial DEF Decide
  <2> QED
    BY <1>1, <1>4, <2>1, SettleGrows, QuietGrows
<1>7. ASSUME UNCHANGED allVars PROVE WatchInv'
  BY <1>7 DEF allVars, threadVars, vars, records, WatchInv, StoredNotAhead, Between, FreezesSeen
<1> QED
  BY <1>2, <1>3, <1>5, <1>6, <1>7 DEF CNext

\* If the present is what the snapshot says, so are the rivals that were read.
LEMMA RivalsSqueezed ==
    ASSUME NEW old \in [Cases -> CaseOrNone], NEW new \in [Cases -> CaseOrNone],
           NEW c \in Cases, NEW k \in Cores,
           \A d \in Cases : Before(old[d], new[d]),
           \A a \in Rivals(c, k, new) : old[a.case] # None /\ Age(a) <= Age(old[a.case]),
           \A d \in Cases : old[d] # None /\ old[d].core = k /\ old[d].status # "Frozen"
              => new[d].status # "Frozen"
    PROVE  Rivals(c, k, old) = Rivals(c, k, new)
<1> DEFINE Of(all, d) == [case |-> d, status |-> all[d].status, revision |-> all[d].revision]
           OnSame(all) ==
              {d \in Cases \ {c} : all[d] # None /\ all[d].core = k /\ all[d].status # "Frozen"}
<1>1. ASSUME NEW d \in OnSame(new)
      PROVE  /\ d \in OnSame(old) /\ Of(old, d) = Of(new, d)
  <2>1. new[d] \in CaseRecord /\ d \in Cases \ {c}
    BY DEF CaseOrNone
  <2>2. Of(new, d) \in Rivals(c, k, new)
    BY DEF Rivals
  <2>3. old[d] # None /\ Age(Of(new, d)) <= Age(old[d])
    BY <2>2
  <2>4. Age(Of(new, d)) = Age(new[d])
    BY DEF Age
  <2>5. old[d] \in CaseRecord
    BY <2>1, <2>3 DEF CaseOrNone
  <2>6. Age(old[d]) \in Int /\ Age(new[d]) \in Int
    BY <2>1, <2>5, AgeType
  <2>7. /\ new[d].core = old[d].core
        /\ Age(old[d]) < Age(new[d]) \/ (new[d].status = old[d].status /\ new[d].revision = old[d].revision)
    BY <2>1, <2>3 DEF Before
  <2>8. new[d].status = old[d].status /\ new[d].revision = old[d].revision
    BY <2>3, <2>4, <2>6, <2>7
  <2> QED
    BY <2>1, <2>3, <2>7, <2>8
<1>2. OnSame(old) \subseteq OnSame(new)
  BY DEF Before
<1>3. /\ Rivals(c, k, old) = {Of(old, d) : d \in OnSame(old)}
      /\ Rivals(c, k, new) = {Of(new, d) : d \in OnSame(new)}
  BY DEF Rivals
<1>4. OnSame(old) = OnSame(new) /\ \A d \in OnSame(new) : Of(old, d) = Of(new, d)
  BY <1>1, <1>2
<1> HIDE DEF OnSame, Of
<1> QED
  BY <1>3, <1>4

\* A "no longer valid" from GetPrecheck is true when it is given, for any
\* number of handlers that write between its lookups: a snapshot that was
\* stale at one of them stays so.
THEOREM StaleAnswersTrue ==
    ASSUME OneCoreEach
    PROVE  CSpec => []StaleAnswersAreTrue
<1>1. ASSUME CInv, WatchInv PROVE StaleAnswersAreTrue
  <2> SUFFICES ASSUME NEW t \in Calls, at[t] = "answer", Told(t) = [valid |-> FALSE]
               PROVE  Truth(t, call[t]) = [valid |-> FALSE]
    BY DEF StaleAnswersAreTrue, At
  <2> DEFINE q    == call[t]
             rec  == cases[q.case]
             k    == rec.core
             p    == found[t]
             seen == read[t]
  <2>1. Typed /\ Between(t) /\ OnCourse(t)
    BY <1>1 DEF CInv, WatchInv
  <2>2. q # None /\ q.kind \in Reading
    BY <2>1, CallParts, LastSteps DEF OnCourse, Placed
  <2>3. q.kind = "validity"
    <3> SUFFICES ASSUME q.kind = "available" PROVE FALSE
      BY <2>2
    <3> DEFINE b == seen.core.mass - Cardinality(Active(q.core, seen.cases))
    <3>1. Told(t) = [budget |-> b]
      BY DEF Told, View
    <3> HIDE DEF b
    <3>2. DOMAIN [budget |-> b] = {"budget"} /\ DOMAIN [valid |-> FALSE] = {"valid"}
      OBVIOUS
    <3> QED
      BY <3>1, <3>2
  <2>4. /\ q.case \in Cases /\ rec \in CaseRecord /\ k \in Cores
    BY <1>1, <2>2, <2>3, WatchedParts
  <2>5. /\ p \in SnapshotRecord
        /\ seen.case \in CaseRecord /\ seen.case.core = k
        /\ p.caseRevision <= seen.case.revision /\ seen.case.revision <= rec.revision
        /\ seen.core \in CoreRecord
        /\ p.coreRevision <= seen.core.revision /\ seen.core.revision <= cores[k].revision
        /\ seen.cases \in [Cases -> CaseOrNone]
        /\ \A a \in p.rivals : seen.cases[a.case] # None /\ Age(a) <= Age(seen.cases[a.case])
        /\ \A d \in Cases : Before(seen.cases[d], cases[d])
        /\ FreezesSeen(seen.cases, seen.core, k)
    BY <2>1, <2>2, <2>3 DEF Between
  <2> DEFINE then == Snapshot(seen.case, seen.core, Rivals(q.case, k, seen.cases))
             now  == Snapshot(rec, cores[k], Rivals(q.case, k, cases))
  <2>6. Told(t) = [valid |-> p = then] /\ Truth(t, q) = [valid |-> p = now]
    BY <2>3, <2>5 DEF Told, Truth, View
  <2>7. ASSUME p = now PROVE then = now
    <3>1. /\ p.caseRevision = rec.revision /\ p.coreRevision = cores[k].revision
          /\ p.rivals = Rivals(q.case, k, cases)
      BY <2>7 DEF Snapshot
    <3>2. /\ seen.case.revision \in Nat /\ rec.revision \in Nat
          /\ seen.core.revision \in Nat /\ cores[k].revision \in Nat
      BY <2>1, <2>4, <2>5 DEF Typed, CaseRecord, CoreRecord
    <3>3. seen.case.revision = rec.revision /\ seen.core.revision = cores[k].revision
      BY <2>5, <3>1, <3>2
    <3>4. ASSUME NEW d \in Cases, seen.cases[d] # None, seen.cases[d].core = k,
                 seen.cases[d].status # "Frozen"
          PROVE  cases[d].status # "Frozen"
      BY <2>5, <3>2, <3>3, <3>4 DEF FreezesSeen
    <3>5. cases \in [Cases -> CaseOrNone]
      BY <2>1 DEF Typed
    <3> HIDE DEF seen, k
    <3>6. Rivals(q.case, k, seen.cases) = Rivals(q.case, k, cases)
      BY <2>4, <2>5, <3>1, <3>4, <3>5, RivalsSqueezed
    <3> QED
      BY <3>3, <3>6 DEF Snapshot
  <2> HIDE DEF then, now
  <2>8. p # then
    <3> DEFINE v == p = then
    <3>1. [valid |-> v] = [valid |-> FALSE]
      BY <2>6
    <3> HIDE DEF v
    <3>2. [valid |-> v].valid = v /\ [valid |-> FALSE].valid = FALSE
      OBVIOUS
    <3>3. v = FALSE
      BY <3>1, <3>2
    <3> QED
      BY <3>3 DEF v
  <2>9. p # now
    BY <2>7, <2>8
  <2> QED
    BY <2>6, <2>9
<1>2. CInit => CInv /\ WatchInv
  BY Initially, WatchStarts
<1>3. CInv /\ WatchInv /\ [CNext]_allVars => (CInv /\ WatchInv)'
  BY StepKeeps, WatchKeeps
<1>4. CInv /\ WatchInv => StaleAnswersAreTrue
  BY <1>1
<1> QED
  BY <1>2, <1>3, <1>4, PTL DEF CSpec

====
