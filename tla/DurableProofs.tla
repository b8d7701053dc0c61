--------------------------- MODULE DurableProofs ---------------------------
(***************************************************************************)
(* Repeated, overlapping and interrupted calls have one effect per key,    *)
(* and answers that stay, for any number of requests, cases and crashes.   *)
(***************************************************************************)
EXTENDS DurableService, StoreProofs

-----------------------------------------------------------------------------
(***************************************************************************)
(* A handler looks at the records of one case only.                        *)
(***************************************************************************)

OfCase(core, contents) == {r \in ToSet(contents) : r.core = core}

\* The results a success for body b may name.
Matching(b, contents) ==
    {r \in ToSet(contents) :
        /\ r.core = b.core /\ r.key = b.key /\ r.payload = b.payload
        /\ r.outcome = "cut" <=> b.kind = "execute"}

LEMMA AppendToSet ==
    ASSUME NEW contents \in Seq(Updates), NEW u \in Updates
    PROVE  ToSet(Append(contents, u)) = ToSet(contents) \cup {u}
<1> DEFINE longer == Append(contents, u)
<1>1. longer \in Seq(Updates) /\ Len(longer) = Len(contents) + 1 /\ longer[Len(longer)] = u
  OBVIOUS
<1>2. \A i \in 1..Len(contents) : longer[i] = contents[i]
  OBVIOUS
<1>3. DOMAIN contents = 1..Len(contents) /\ DOMAIN longer = 1..Len(longer) /\ Len(contents) \in Nat
  BY <1>1
<1> HIDE DEF longer
<1>4. QED
  BY <1>1, <1>2, <1>3 DEF ToSet, longer

LEMMA DecidedByOwnCase ==
    ASSUME NEW b, NEW s, NEW t, OfCase(b.core, s) = OfCase(b.core, t)
    PROVE  /\ Stored(b, s) = Stored(b, t)
           /\ OnRecord(b, s) <=> OnRecord(b, t)
           /\ ReadyFor(b, s) <=> ReadyFor(b, t)
           /\ Matching(b, s) = Matching(b, t)
<1>1. Stored(b, s) = Stored(b, t)
  BY DEF Stored, OfCase
<1>2. Matching(b, s) = Matching(b, t)
  BY DEF Matching, OfCase
<1>3. StatusOf(b.core, s) = StatusOf(b.core, t)
  BY DEF StatusOf, OfCase
<1>4. QED
  BY <1>1, <1>2, <1>3 DEF OnRecord, ReadyFor

-----------------------------------------------------------------------------
(***************************************************************************)
(* The inductive invariant                                                 *)
(***************************************************************************)

Answers == [code : {"success", "conflict", "state", "invalid"}, records : SUBSET Updates]

Busy == {"looking", "deciding", "storing"}

\* Before its update is on disk, and after.
Pending == {"waiting", "cloned", "writing", "written"}

Landed == {"renamed", "ok"}

ServiceTyped ==
    /\ body \in [Calls -> Bodies \cup {NoBody}]
    /\ stage \in [Calls -> Busy \cup {"unsent", "queued", "answered", "lost"}]
    /\ answer \in [Calls -> Answers \cup {NoAnswer}]
    /\ holder \in [Cores -> Calls \cup {Nobody}]
    /\ known \in [Calls -> BOOLEAN]

\* A handler holds the mutex of its core from the lookup of its key on.
Placed(c) ==
    /\ stage[c] \in Busy \cup {"queued", "answered"} => body[c] \in Bodies
    /\ stage[c] \in Busy => holder[body[c].core] = c
    /\ step[c] \in Unfinished => stage[c] = "storing"
    /\ answer[c] # NoAnswer => stage[c] = "answered"

\* What it has seen of its case is still so ...
Informed(c) ==
    stage[c] = "deciding" => OfCase(body[c].core, seen[c]) = OfCase(body[c].core, disk)

\* ... and so is what it decided to store.
Decided(c) ==
    stage[c] = "storing" =>
        /\ \E v \in Verdicts(body[c]) \ {"refused"} : request[c] = Record(body[c], v)
        /\ step[c] \in Pending => Stored(body[c], disk) = {} /\ ReadyFor(body[c], disk)
        /\ step[c] \in Landed => request[c] \in ToSet(disk)

\* A retry finds the result it is a retry of.
Repeated(c) ==
    /\ known[c] /\ stage[c] \in {"queued", "looking", "deciding"} => OnRecord(body[c], disk)
    /\ known[c] => stage[c] \notin {"unsent", "storing"}
    /\ known[c] /\ answer[c] # NoAnswer => answer[c].code = "success"

\* A success names what is on disk.
Truthful(c) ==
    answer[c] # NoAnswer /\ answer[c].code = "success" =>
        answer[c].records # {} /\ answer[c].records = Matching(body[c], disk)

OnCourse(c) == Placed(c) /\ Informed(c) /\ Decided(c) /\ Repeated(c) /\ Truthful(c)

DurableInv ==
    /\ StoreInv
    /\ ServiceTyped
    /\ Consistent(disk)
    /\ \A c \in Calls : OnCourse(c)

LEMMA ServiceInitially == Init => DurableInv
<1> SUFFICES ASSUME Init PROVE DurableInv
  OBVIOUS
<1>1. StoreInv
  BY Initially DEF Init
<1>2. ServiceTyped
  BY DEF Init, ServiceTyped
<1>3. Consistent(disk)
  BY HistoriesAssumption DEF Init, StoreInit
<1>4. ASSUME NEW c \in Calls PROVE OnCourse(c)
  BY DEF Init, StoreInit, OnCourse, Placed, Informed, Decided, Repeated, Truthful, Busy, Unfinished
<1>5. QED
  BY <1>1, <1>2, <1>3, <1>4 DEF DurableInv

\* Every step of the service is a step of its store.
LEMMA StoreSteps ==
    ASSUME DurableInv, [Next]_vars
    PROVE  [StoreNext]_storeVars
<1>1. ASSUME NEW c \in Calls, NEW b \in Bodies, Send(c, b) PROVE UNCHANGED storeVars
  BY <1>1 DEF Send
<1>2. ASSUME NEW c \in Calls, LockCore(c) PROVE UNCHANGED storeVars
  BY <1>2 DEF LockCore
<1>3. ASSUME NEW c \in Calls, UpdateLock(c) PROVE StoreNext
  BY <1>3 DEF UpdateLock, StoreNext
<1>4. ASSUME NEW c \in Calls, Look(c) PROVE StoreNext
  BY <1>4 DEF Look, StoreNext
<1>5. ASSUME NEW c \in Calls, Handler(c) PROVE [StoreNext]_storeVars
  <2>1. ASSUME Commit(c) PROVE StoreNext
    <3>1. body[c] \in Bodies
      BY <2>1 DEF Commit, DurableInv, OnCourse, Placed, Busy
    <3>2. PICK v \in Verdicts(body[c]) \ {"refused"} : BeginUpdate(c, Record(body[c], v))
      BY <2>1 DEF Commit
    <3>3. Record(body[c], v) \in Updates
      BY <3>1, BodiesAssumption
    <3>4. QED
      BY <3>2, <3>3 DEF StoreNext
  <2>2. ASSUME UpdateStep(c) PROVE StoreNext
    BY <2>2 DEF StoreNext
  <2>3. ASSUME ~Commit(c), ~UpdateStep(c) PROVE UNCHANGED storeVars
    BY <1>5, <2>3 DEF Handler, Replay, Conflict, RefuseState, RefuseRules, Committed, CommitFailed, Reply
  <2>4. QED
    BY <2>1, <2>2, <2>3
<1>6. ASSUME Crash \/ Restart PROVE StoreNext
  BY <1>6 DEF Crash, Restart, StoreNext
<1>7. ASSUME UNCHANGED vars PROVE UNCHANGED storeVars
  BY <1>7 DEF vars
<1>8. QED
  BY <1>1, <1>2, <1>3, <1>4, <1>5, <1>6, <1>7 DEF Next

-----------------------------------------------------------------------------
(***************************************************************************)
(* Steps that leave the disk alone                                         *)
(***************************************************************************)

\* What a call is on course by.
Own(c) == <<body[c], stage[c], step[c], seen[c], request[c], answer[c], known[c]>>

LEMMA OthersStay ==
    ASSUME NEW c \in Calls, OnCourse(c), Own(c)' = Own(c), disk' = disk,
           stage[c] \in Busy => holder'[body[c].core] = c
    PROVE  OnCourse(c)'
<1> USE DEF Own
<1>1. Placed(c)'
  BY DEF OnCourse, Placed
<1>2. Informed(c)' /\ Decided(c)'
  BY DEF OnCourse, Informed, Decided
<1>3. Repeated(c)' /\ Truthful(c)'
  BY DEF OnCourse, Repeated, Truthful
<1>4. QED
  BY <1>1, <1>2, <1>3 DEF OnCourse

LEMMA SendKeeps ==
    ASSUME DurableInv, NEW c \in Calls, NEW b \in Bodies, Send(c, b)
    PROVE  ServiceTyped' /\ \A e \in Calls : OnCourse(e)'
<1> USE DEF DurableInv, ServiceTyped, Send, storeVars
<1>1. ServiceTyped'
  <2>1. OnRecord(b, disk) \in BOOLEAN
    BY DEF OnRecord
  <2>2. QED
    BY <2>1
<1>2. OnCourse(c)'
  <2>1. OnCourse(c)
    OBVIOUS
  <2>2. known'[c] <=> OnRecord(b, disk)
    OBVIOUS
  <2>3. QED
    BY <2>1, <2>2 DEF OnCourse, Placed, Informed, Decided, Repeated, Truthful, Busy
<1>3. ASSUME NEW e \in Calls \ {c} PROVE OnCourse(e)'
  <2>1. Own(e)' = Own(e) /\ disk' = disk
    BY DEF Own
  <2>2. OnCourse(e) /\ holder' = holder
    OBVIOUS
  <2>3. QED
    BY <2>1, <2>2, OthersStay DEF OnCourse, Placed
<1>4. QED
  BY <1>1, <1>2, <1>3

LEMMA LockKeeps ==
    ASSUME DurableInv, NEW c \in Calls, LockCore(c)
    PROVE  ServiceTyped' /\ \A e \in Calls : OnCourse(e)'
<1> USE DEF DurableInv, ServiceTyped, LockCore, storeVars
<1>1. body[c] \in Bodies /\ body[c].core \in Cores
  BY BodiesAssumption DEF OnCourse, Placed
<1>2. ServiceTyped'
  BY <1>1 DEF Busy
<1>3. OnCourse(c)'
  BY <1>1 DEF OnCourse, Placed, Informed, Decided, Repeated, Truthful, Busy
<1>4. ASSUME NEW e \in Calls \ {c} PROVE OnCourse(e)'
  <2>1. Own(e)' = Own(e) /\ disk' = disk
    BY DEF Own
  <2>2. stage[e] \in Busy => holder'[body[e].core] = e
    BY <1>1, BodiesAssumption, NobodyAssumption DEF OnCourse, Placed
  <2>3. QED
    BY <2>1, <2>2, OthersStay
<1>5. QED
  BY <1>2, <1>3, <1>4

LEMMA LookKeeps ==
    ASSUME DurableInv, NEW c \in Calls, Look(c)
    PROVE  ServiceTyped' /\ \A e \in Calls : OnCourse(e)'
<1> USE DEF DurableInv, ServiceTyped, Look, Read
<1>1. ServiceTyped'
  BY DEF Busy
<1>2. memory = disk
  BY NobodyAssumption DEF StoreInv, Exclusive, Mirrored, Inside
<1>3. seen'[c] = disk
  BY <1>2 DEF StoreInv, Typed
<1>4. OnCourse(c)'
  BY <1>3 DEF OnCourse, Placed, Informed, Decided, Repeated, Truthful, Busy
<1>5. ASSUME NEW e \in Calls \ {c} PROVE OnCourse(e)'
  <2>1. Own(e)' = Own(e) /\ disk' = disk
    BY DEF Own, StoreInv, Typed
  <2>2. OnCourse(e) /\ holder' = holder
    OBVIOUS
  <2>3. QED
    BY <2>1, <2>2, OthersStay DEF OnCourse, Placed
<1>6. QED
  BY <1>1, <1>4, <1>5

\* A reply is good if a retry is told of success, and success names what is kept.
LEMMA ReplyKeeps ==
    ASSUME DurableInv, NEW c \in Calls, stage[c] \in Busy, step[c] \notin Unfinished,
           NEW code \in {"success", "conflict", "state", "invalid"}, NEW records \in SUBSET Updates,
           Reply(c, code, records),
           known[c] => code = "success",
           code = "success" => records # {} /\ records = Matching(body[c], disk)
    PROVE  ServiceTyped' /\ \A e \in Calls : OnCourse(e)'
<1> USE DEF DurableInv, ServiceTyped, Reply, storeVars
<1>1. body[c] \in Bodies /\ body[c].core \in Cores
  BY BodiesAssumption DEF OnCourse, Placed
<1> DEFINE reply == [code |-> code, records |-> records]
<1>2. reply \in Answers /\ reply.code = code /\ reply.records = records
  BY DEF Answers
<1>3. answer' = [answer EXCEPT ![c] = reply]
  OBVIOUS
<1> HIDE DEF reply
<1>4. ServiceTyped'
  BY <1>1, <1>2, <1>3 DEF Busy
<1>5. OnCourse(c)'
  BY <1>1, <1>2, <1>3 DEF OnCourse, Placed, Informed, Decided, Repeated, Truthful, Busy
<1>6. ASSUME NEW e \in Calls \ {c} PROVE OnCourse(e)'
  <2>1. Own(e)' = Own(e) /\ disk' = disk
    BY <1>3 DEF Own
  <2>2. stage[e] \in Busy => holder'[body[e].core] = e
    BY <1>1, BodiesAssumption DEF OnCourse, Placed
  <2>3. QED
    BY <2>1, <2>2, OthersStay
<1>7. QED
  BY <1>4, <1>5, <1>6

\* What is stored under a key is one result.
LEMMA OneResult ==
    ASSUME NEW contents \in Seq(Updates), Consistent(contents),
           NEW r \in ToSet(contents), NEW q \in ToSet(contents), SameKey(r, q)
    PROVE  r = q
<1>1. PICK i \in DOMAIN contents : contents[i] = r
  BY DEF ToSet
<1>2. PICK j \in DOMAIN contents : contents[j] = q
  BY DEF ToSet
<1>3. i \in Nat /\ j \in Nat /\ i >= 1 /\ j >= 1
  OBVIOUS
<1>4. CASE i < j
  BY <1>1, <1>2, <1>3, <1>4 DEF Consistent, SameKey
<1>5. CASE j < i
  BY <1>1, <1>2, <1>3, <1>5 DEF Consistent, SameKey
<1>6. QED
  BY <1>1, <1>2, <1>3, <1>4, <1>5

\* A body's own kind of result, told by whether it is a cut.
LEMMA KindOfResult ==
    ASSUME NEW b \in Bodies, NEW u \in Updates
    PROVE  u.outcome \in OfKind(b.kind) <=> (u.outcome = "cut" <=> b.kind = "execute")
BY BodiesAssumption, UpdatesAssumption DEF OfKind

LEMMA StoredIsMatching ==
    ASSUME NEW b \in Bodies, NEW contents \in Seq(Updates), Consistent(contents), OnRecord(b, contents)
    PROVE  Stored(b, contents) # {} /\ Stored(b, contents) = Matching(b, contents)
<1>0. ToSet(contents) \subseteq Updates
  BY DEF ToSet
<1>1. PICK r \in Stored(b, contents) : r.payload = b.payload
  BY DEF OnRecord
<1>2. ASSUME NEW q \in Stored(b, contents) PROVE q = r
  BY <1>0, <1>1, OneResult, UpdatesAssumption, BodiesAssumption DEF Stored, SameKey, OfKind
<1>3. QED
  BY <1>0, <1>1, <1>2, KindOfResult DEF Stored, Matching

LEMMA EarlyRepliesKeep ==
    ASSUME DurableInv, NEW c \in Calls,
           Replay(c) \/ Conflict(c) \/ RefuseState(c) \/ RefuseRules(c)
    PROVE  ServiceTyped' /\ \A e \in Calls : OnCourse(e)'
<1>1. stage[c] = "deciding" /\ OnCourse(c) /\ body[c] \in Bodies /\ step[c] \notin Unfinished
  BY DEF Replay, Conflict, RefuseState, RefuseRules, DurableInv, OnCourse, Placed, Busy
<1>2. OfCase(body[c].core, seen[c]) = OfCase(body[c].core, disk)
  BY <1>1 DEF OnCourse, Informed
<1>3. /\ Stored(body[c], seen[c]) = Stored(body[c], disk)
      /\ OnRecord(body[c], seen[c]) <=> OnRecord(body[c], disk)
  BY <1>2, DecidedByOwnCase
<1>4. disk \in Seq(Updates) /\ Consistent(disk)
  BY DEF DurableInv, StoreInv, Typed, Contents
<1>5. Stored(body[c], disk) \subseteq Updates
  BY <1>4 DEF Stored, ToSet
<1>6. known[c] => OnRecord(body[c], disk)
  BY <1>1 DEF OnCourse, Repeated
<1>7. CASE Replay(c)
  <2>1. OnRecord(body[c], disk) /\ Reply(c, "success", Stored(body[c], disk))
    BY <1>3, <1>7 DEF Replay
  <2>2. Stored(body[c], disk) # {} /\ Stored(body[c], disk) = Matching(body[c], disk)
    BY <1>1, <1>4, <2>1, StoredIsMatching
  <2>3. QED
    BY <1>1, <1>5, <2>1, <2>2, ReplyKeeps DEF Busy
<1>8. CASE Conflict(c) \/ RefuseState(c) \/ RefuseRules(c)
  <2>1. ~OnRecord(body[c], disk)
    BY <1>3, <1>8 DEF Conflict, RefuseState, RefuseRules, OnRecord
  <2>2. PICK code \in {"conflict", "state", "invalid"} : Reply(c, code, {})
    BY <1>8 DEF Conflict, RefuseState, RefuseRules
  <2>3. ~known[c] /\ code # "success"
    BY <1>6, <2>1
  <2>4. QED
    BY <1>1, <2>2, <2>3, ReplyKeeps DEF Busy
<1>9. QED
  BY <1>7, <1>8

\* What a body's own update writes.
LEMMA OwnResult ==
    ASSUME NEW b \in Bodies, NEW v \in Verdicts(b) \ {"refused"}
    PROVE  LET u == Record(b, v)
           IN /\ u \in Updates
              /\ u.core = b.core /\ u.key = b.key /\ u.payload = b.payload /\ u.outcome = v
              /\ v \in {"cut", "rejected", "passed"}
              /\ v = "cut" <=> b.kind = "execute"
<1>1. Record(b, v) \in Updates
  BY BodiesAssumption
<1>2. v \in {"cut", "rejected", "passed"} /\ (v = "cut" <=> b.kind = "execute")
  BY BodiesAssumption DEF Verdicts
<1>3. QED
  BY <1>1, <1>2 DEF Record

LEMMA LateRepliesKeep ==
    ASSUME DurableInv, NEW c \in Calls, Committed(c) \/ CommitFailed(c)
    PROVE  ServiceTyped' /\ \A e \in Calls : OnCourse(e)'
<1>1. stage[c] = "storing" /\ OnCourse(c) /\ body[c] \in Bodies /\ ~known[c]
  BY DEF Committed, CommitFailed, DurableInv, OnCourse, Placed, Repeated, Busy
<1>2. step[c] \notin Unfinished
  BY DEF Committed, CommitFailed, Unfinished
<1>3. CASE Committed(c)
  <2>1. PICK v \in Verdicts(body[c]) \ {"refused"} : request[c] = Record(body[c], v)
    BY <1>1 DEF OnCourse, Decided
  <2>2. request[c] \in ToSet(disk) /\ request[c] \in Updates
    BY <1>1, <1>3, <2>1, OwnResult DEF Committed, OnCourse, Decided, Landed
  <2>3. disk \in Seq(Updates) /\ Consistent(disk)
    BY DEF DurableInv, StoreInv, Typed, Contents
  <2>4. request[c] \in Matching(body[c], disk)
    BY <1>1, <2>1, <2>2, OwnResult DEF Matching
  <2>5. ASSUME NEW r \in Matching(body[c], disk) PROVE r = request[c]
    <3>1. r \in ToSet(disk) /\ SameKey(r, request[c])
      BY <2>4, <2>5 DEF Matching, SameKey
    <3>2. QED
      BY <2>2, <2>3, <3>1, OneResult
  <2>6. {request[c]} = Matching(body[c], disk)
    BY <2>4, <2>5
  <2>7. Reply(c, "success", {request[c]}) /\ {request[c]} # {} /\ {request[c]} \in SUBSET Updates
    BY <1>3, <2>2 DEF Committed
  <2>8. QED
    BY <1>1, <1>2, <2>6, <2>7, ReplyKeeps DEF Busy
<1>4. CASE CommitFailed(c)
  <2>1. Reply(c, "invalid", {})
    BY <1>4 DEF CommitFailed
  <2>2. QED
    BY <1>1, <1>2, <2>1, ReplyKeeps DEF Busy
<1>5. QED
  BY <1>3, <1>4

LEMMA CommitKeeps ==
    ASSUME DurableInv, NEW c \in Calls, Commit(c)
    PROVE  ServiceTyped' /\ \A e \in Calls : OnCourse(e)'
<1>1. stage[c] = "deciding" /\ OnCourse(c) /\ body[c] \in Bodies
  BY DEF Commit, DurableInv, OnCourse, Placed, Busy
<1>2. PICK v \in Verdicts(body[c]) \ {"refused"} : BeginUpdate(c, Record(body[c], v))
  BY DEF Commit
<1>3. Stored(body[c], disk) = {} /\ ReadyFor(body[c], disk)
  BY <1>1, DecidedByOwnCase DEF Commit, OnCourse, Informed
<1>4. ~known[c]
  BY <1>1, <1>3 DEF OnCourse, Repeated, OnRecord
<1> DEFINE u == Record(body[c], v)
<1>5. step' = [step EXCEPT ![c] = "waiting"] /\ request' = [request EXCEPT ![c] = u]
  BY <1>2 DEF BeginUpdate, MoveTo
<1>6. disk' = disk /\ seen' = seen
  BY <1>2 DEF BeginUpdate
<1>7. stage' = [stage EXCEPT ![c] = "storing"] /\ UNCHANGED <<body, answer, holder, known>>
  BY DEF Commit
<1>8. u = Record(body[c], v)
  OBVIOUS
<1> HIDE DEF u
<1> USE DEF DurableInv, ServiceTyped, StoreInv, Typed
<1>9. ServiceTyped'
  BY <1>7 DEF Busy
<1>10. step'[c] = "waiting" /\ request'[c] = u /\ stage'[c] = "storing"
  BY <1>5, <1>7
<1>11. OnCourse(c)'
  <2>1. Placed(c)' /\ Informed(c)'
    BY <1>1, <1>7, <1>10 DEF OnCourse, Placed, Informed, Busy, Unfinished
  <2>2. Decided(c)'
    BY <1>3, <1>6, <1>7, <1>8, <1>10 DEF Decided, Landed
  <2>3. Repeated(c)' /\ Truthful(c)'
    BY <1>1, <1>4, <1>6, <1>7, <1>10 DEF OnCourse, Repeated, Truthful, Placed
  <2>4. QED
    BY <2>1, <2>2, <2>3 DEF OnCourse
<1>12. ASSUME NEW e \in Calls \ {c} PROVE OnCourse(e)'
  <2>1. Own(e)' = Own(e)
    BY <1>5, <1>6, <1>7 DEF Own
  <2>2. OnCourse(e) /\ holder' = holder
    BY <1>7
  <2>3. QED
    BY <1>6, <2>1, <2>2, OthersStay DEF OnCourse, Placed
<1>13. QED
  BY <1>9, <1>11, <1>12

\* The steps of an update other than the rename.
LEMMA MoveKeeps ==
    ASSUME DurableInv, NEW c \in Calls, NEW s, MoveTo(c, s),
           step[c] \in Unfinished,
           UNCHANGED <<serviceVars, disk, request, seen>>,
           s \in Pending => step[c] \in Pending,
           s \in Landed => step[c] \in Landed
    PROVE  ServiceTyped' /\ \A e \in Calls : OnCourse(e)'
<1> USE DEF DurableInv, StoreInv, Typed, serviceVars
<1>1. step' = [step EXCEPT ![c] = s] /\ step'[c] = s
  BY DEF MoveTo
<1>2. ServiceTyped'
  BY DEF ServiceTyped
<1>3. OnCourse(c)'
  <2>1. OnCourse(c) /\ stage[c] = "storing"
    BY DEF OnCourse, Placed
  <2>2. Placed(c)' /\ Informed(c)'
    BY <2>1 DEF OnCourse, Placed, Informed
  <2>3. Decided(c)'
    BY <1>1, <2>1 DEF OnCourse, Decided
  <2>4. Repeated(c)' /\ Truthful(c)'
    BY <2>1 DEF OnCourse, Repeated, Truthful
  <2>5. QED
    BY <2>2, <2>3, <2>4 DEF OnCourse
<1>4. ASSUME NEW e \in Calls \ {c} PROVE OnCourse(e)'
  <2>1. Own(e)' = Own(e)
    BY <1>1 DEF Own
  <2>2. OnCourse(e) /\ holder' = holder
    OBVIOUS
  <2>3. QED
    BY <2>1, <2>2, OthersStay DEF OnCourse, Placed
<1>5. QED
  BY <1>2, <1>3, <1>4

LEMMA UpdateKeeps ==
    ASSUME DurableInv, NEW c \in Calls, UNCHANGED serviceVars,
           LockAndChange(c) \/ OpenTmp(c) \/ WriteTmp(c) \/ FailUpdate(c) \/ SwapAndUnlock(c)
    PROVE  ServiceTyped' /\ \A e \in Calls : OnCourse(e)'
<1> USE DEF At, Unfinished, Pending, Landed
<1>1. UNCHANGED <<disk, request, seen>>
  BY DEF LockAndChange, OpenTmp, WriteTmp, FailUpdate, SwapAndUnlock
<1>2. PICK s : /\ MoveTo(c, s) /\ step[c] \in Unfinished
               /\ s \in Pending => step[c] \in Pending
               /\ s \in Landed => step[c] \in Landed
  BY DEF LockAndChange, OpenTmp, WriteTmp, FailUpdate, SwapAndUnlock
<1>3. QED
  BY <1>1, <1>2, MoveKeeps

LEMMA CrashKeeps ==
    ASSUME DurableInv, Crash \/ Restart
    PROVE  ServiceTyped' /\ \A e \in Calls : OnCourse(e)'
<1> USE DEF DurableInv, StoreInv, Typed
<1>1. CASE Crash
  <2>1. ServiceTyped'
    BY <1>1 DEF Crash, ServiceTyped
  <2>2. ASSUME NEW e \in Calls PROVE OnCourse(e)'
    <3>1. /\ stage'[e] \in {"unsent", "answered", "lost"} /\ step'[e] \notin Unfinished
          /\ stage'[e] \in {"unsent", "answered"} => stage'[e] = stage[e]
          /\ stage[e] \in {"unsent", "answered"} => stage'[e] = stage[e]
      BY <1>1 DEF Crash, StoreCrash, Unfinished
    <3>2. disk' = disk /\ UNCHANGED <<body, answer, known>> /\ OnCourse(e)
      BY <1>1 DEF Crash, StoreCrash
    <3>3. Placed(e)' /\ Informed(e)' /\ Decided(e)'
      BY <3>1, <3>2 DEF OnCourse, Placed, Informed, Decided, Busy
    <3>4. Repeated(e)' /\ Truthful(e)'
      BY <3>1, <3>2 DEF OnCourse, Repeated, Truthful
    <3>5. QED
      BY <3>3, <3>4 DEF OnCourse
  <2>3. QED
    BY <2>1, <2>2
<1>2. CASE Restart
  <2>1. ServiceTyped' /\ disk' = disk /\ holder' = holder
    BY <1>2 DEF Restart, StoreRestart, ServiceTyped, serviceVars
  <2>2. ASSUME NEW e \in Calls PROVE OnCourse(e)'
    <3>1. Own(e)' = Own(e) /\ OnCourse(e)
      BY <1>2 DEF Restart, StoreRestart, serviceVars, Own
    <3>2. QED
      BY <2>1, <3>1, OthersStay DEF OnCourse, Placed
  <2>3. QED
    BY <2>1, <2>2
<1>3. QED
  BY <1>1, <1>2

-----------------------------------------------------------------------------
(***************************************************************************)
(* The rename: a result joins those on disk.                               *)
(***************************************************************************)

\* The case of a body that is ready to be stored, and whose key is free, has
\* no result that the new one would contradict.
LEMMA AppendConsistent ==
    ASSUME NEW contents \in Seq(Updates), Consistent(contents),
           NEW b \in Bodies, NEW v \in Verdicts(b) \ {"refused"},
           Stored(b, contents) = {}, ReadyFor(b, contents)
    PROVE  Consistent(Append(contents, Record(b, v)))
<1> DEFINE u == Record(b, v)
           longer == Append(contents, u)
           n == Len(contents)
<1>1. /\ u \in Updates /\ u.core = b.core /\ u.key = b.key /\ u.outcome = v
      /\ v \in {"cut", "rejected", "passed"} /\ (v = "cut" <=> b.kind = "execute")
  BY OwnResult
<1> HIDE DEF u
<1>2. /\ n \in Nat /\ DOMAIN contents = 1..n /\ DOMAIN longer = 1..(n + 1)
      /\ longer[n + 1] = u /\ \A i \in 1..n : longer[i] = contents[i]
  BY <1>1
<1> HIDE DEF longer, n
<1>3. \A i \in 1..n : contents[i] \in ToSet(contents) /\ contents[i] \in Updates
  BY <1>2 DEF ToSet
<1>4. \A i \in 1..n : contents[i].core = b.core => contents[i].outcome # "passed"
  BY <1>3, BodiesAssumption DEF ReadyFor, StatusOf
<1>5. v # "cut" => \E i \in 1..n : contents[i].core = b.core /\ contents[i].outcome = "cut"
  <2>1. ASSUME v # "cut" PROVE \E r \in ToSet(contents) : r.core = b.core /\ r.outcome = "cut"
    BY <1>1, <2>1 DEF ReadyFor, StatusOf
  <2>2. QED
    BY <1>2, <2>1 DEF ToSet
<1>6. v = "cut" => \A i \in 1..n : contents[i].core # b.core
  <2>1. ASSUME v = "cut" PROVE \A i \in 1..n : contents[i].core = b.core => contents[i].outcome # "cut"
    BY <1>1, <1>3, <2>1 DEF ReadyFor, StatusOf
  <2>2. QED
    BY <1>2, <2>1 DEF Consistent
<1>7. \A i \in 1..n : contents[i].core = u.core => ~SameKey(contents[i], u)
  BY <1>1, <1>3, KindOfResult DEF Stored, SameKey
<1>8. ASSUME NEW j \in 1..n
      PROVE  /\ longer[j].outcome # "cut" =>
                  \E i \in 1..(j - 1) : longer[i].core = longer[j].core /\ longer[i].outcome = "cut"
             /\ \A i \in 1..(j - 1) : longer[i].core = longer[j].core =>
                  ~SameKey(longer[i], longer[j]) /\ longer[j].outcome # "cut" /\ longer[i].outcome # "passed"
  <2>1. \A i \in 1..(j - 1) : i \in 1..n
    BY <1>2
  <2>2. QED
    BY <1>2, <2>1 DEF Consistent
<1>9. /\ u.outcome # "cut" => \E i \in 1..n : longer[i].core = u.core /\ longer[i].outcome = "cut"
      /\ \A i \in 1..n : longer[i].core = u.core =>
            ~SameKey(longer[i], u) /\ u.outcome # "cut" /\ longer[i].outcome # "passed"
  BY <1>1, <1>2, <1>4, <1>5, <1>6, <1>7
<1>10. Consistent(longer)
  <2>1. ASSUME NEW j \in DOMAIN longer
        PROVE  j \in 1..n \/ (j = n + 1 /\ longer[j] = u /\ 1..(j - 1) = 1..n)
    BY <1>2
  <2>2. QED
    BY <1>8, <1>9, <2>1 DEF Consistent
<1>11. QED
  BY <1>10 DEF longer, u

LEMMA RenameKeeps ==
    ASSUME DurableInv, NEW c \in Calls, UNCHANGED serviceVars, Rename(c)
    PROVE  ServiceTyped' /\ Consistent(disk)' /\ \A e \in Calls : OnCourse(e)'
<1> DEFINE u == request[c]
           b == body[c]
<1>1. disk' = Append(disk, u)
  BY RenameAppends DEF DurableInv
<1>2. /\ stage[c] = "storing" /\ b \in Bodies /\ holder[b.core] = c /\ ~known[c]
      /\ Stored(b, disk) = {} /\ ReadyFor(b, disk)
      /\ \E v \in Verdicts(b) \ {"refused"} : u = Record(b, v)
  BY DEF Rename, At, DurableInv, OnCourse, Placed, Decided, Repeated, Pending, Unfinished, Busy
<1>3. PICK v \in Verdicts(b) \ {"refused"} : u = Record(b, v)
  BY <1>2
<1>4. /\ u \in Updates /\ u.core = b.core /\ u.key = b.key /\ u.outcome = v
      /\ v = "cut" <=> b.kind = "execute"
  BY <1>2, <1>3, OwnResult
<1>5. disk \in Seq(Updates) /\ Consistent(disk) /\ step \in [Calls -> Unfinished \cup {"idle", "ok", "failed", "lost"}]
  BY DEF DurableInv, StoreInv, Typed, Contents
<1>6. ToSet(disk') = ToSet(disk) \cup {u}
  BY <1>1, <1>4, <1>5, AppendToSet
<1>7. Consistent(disk)'
  BY <1>1, <1>2, <1>3, <1>5, AppendConsistent
<1>8. ServiceTyped'
  BY DEF DurableInv, ServiceTyped, serviceVars
<1>9. step' = [step EXCEPT ![c] = "renamed"] /\ UNCHANGED <<request, seen>>
  BY DEF Rename, MoveTo
<1>10. UNCHANGED <<body, stage, answer, holder, known>>
  BY DEF serviceVars
<1> HIDE DEF u, b
<1>11. \A k : k # b.core => OfCase(k, disk') = OfCase(k, disk)
  BY <1>4, <1>6 DEF OfCase
<1>12. ASSUME NEW e \in Calls, OnRecord(body[e], disk) PROVE OnRecord(body[e], disk')
  BY <1>6, <1>12 DEF OnRecord, Stored
<1>13. ASSUME NEW e \in Calls PROVE Truthful(e)' /\ Repeated(e)'
  <2>1. Truthful(e) /\ Repeated(e) /\ Placed(e)
    BY DEF DurableInv, OnCourse
  <2>2. Repeated(e)'
    BY <1>10, <1>12, <2>1 DEF Repeated
  <2>3. ASSUME answer[e] # NoAnswer, answer[e].code = "success"
        PROVE  Matching(body[e], disk') = Matching(body[e], disk)
    <3>1. PICK r \in Matching(body[e], disk) : TRUE
      BY <2>1, <2>3 DEF Truthful
    <3>2. r \in ToSet(disk) /\ r \in Updates
      BY <1>5 DEF Matching, ToSet
    <3>3. ASSUME u \in Matching(body[e], disk') PROVE FALSE
      <4>1. r.core = b.core /\ r.key = b.key /\ (r.outcome = "cut" <=> b.kind = "execute")
        BY <1>4, <3>3 DEF Matching
      <4>2. r \in Stored(b, disk)
        BY <1>2, <3>2, <4>1, KindOfResult DEF Stored
      <4>3. QED
        BY <1>2, <4>2
    <3>4. QED
      BY <1>6, <3>3 DEF Matching
  <2>4. QED
    BY <1>10, <2>1, <2>2, <2>3 DEF Truthful
<1>14. OnCourse(c)'
  <2>1. OnCourse(c)
    BY DEF DurableInv
  <2>2. step'[c] = "renamed"
    BY <1>5, <1>9
  <2>3. Placed(c)' /\ Informed(c)'
    BY <1>2, <1>10, <2>1, <2>2 DEF OnCourse, Placed, Informed
  <2>4. Decided(c)'
    BY <1>2, <1>6, <1>9, <1>10, <2>1, <2>2 DEF OnCourse, Decided, Pending, u, b
  <2>5. QED
    BY <1>13, <2>3, <2>4 DEF OnCourse
<1>15. ASSUME NEW e \in Calls \ {c} PROVE OnCourse(e)'
  <2>1. OnCourse(e) /\ step'[e] = step[e]
    BY <1>5, <1>9 DEF DurableInv
  <2>2. Placed(e)'
    BY <1>10, <2>1 DEF OnCourse, Placed
  <2>3. stage[e] \in Busy => OfCase(body[e].core, disk') = OfCase(body[e].core, disk)
    BY <1>2, <1>11, <2>1 DEF OnCourse, Placed, b
  <2>4. Informed(e)'
    BY <1>9, <1>10, <2>1, <2>3 DEF OnCourse, Informed, Busy
  <2>5. stage[e] = "storing" => /\ Stored(body[e], disk') = Stored(body[e], disk)
                                /\ ReadyFor(body[e], disk') <=> ReadyFor(body[e], disk)
    BY <2>3, DecidedByOwnCase DEF Busy
  <2>6. Decided(e)'
    BY <1>6, <1>9, <1>10, <2>1, <2>5 DEF OnCourse, Decided
  <2>7. QED
    BY <1>13, <2>2, <2>4, <2>6 DEF OnCourse
<1>16. QED
  BY <1>7, <1>8, <1>14, <1>15

-----------------------------------------------------------------------------
(***************************************************************************)
(* The theorems                                                            *)
(***************************************************************************)

LEMMA DiskStays ==
    ASSUME NEW c \in Calls,
           \/ \E b \in Bodies : Send(c, b)
           \/ LockCore(c) \/ UpdateLock(c) \/ Look(c)
           \/ Replay(c) \/ Conflict(c) \/ RefuseState(c) \/ RefuseRules(c)
           \/ Commit(c) \/ Committed(c) \/ CommitFailed(c)
           \/ OpenTmp(c) \/ WriteTmp(c) \/ FailUpdate(c) \/ SwapAndUnlock(c)
    PROVE  disk' = disk
BY DEF Send, LockCore, UpdateLock, LockAndChange, Look, Read, Replay, Conflict, RefuseState,
       RefuseRules, Commit, BeginUpdate, Committed, CommitFailed, Reply, OpenTmp, WriteTmp,
       FailUpdate, SwapAndUnlock, storeVars

LEMMA ServiceStep ==
    ASSUME DurableInv, Next
    PROVE  ServiceTyped' /\ Consistent(disk)' /\ \A e \in Calls : OnCourse(e)'
<1> DEFINE Goal == ServiceTyped' /\ Consistent(disk)' /\ \A e \in Calls : OnCourse(e)'
<1>0. disk' = disk => Consistent(disk)'
  BY DEF DurableInv
<1>1. ASSUME NEW c \in Calls, NEW b \in Bodies, Send(c, b) PROVE Goal
  BY <1>0, <1>1, DiskStays, SendKeeps
<1>2. ASSUME NEW c \in Calls, LockCore(c) PROVE Goal
  BY <1>0, <1>2, DiskStays, LockKeeps
<1>3. ASSUME NEW c \in Calls, UpdateLock(c) PROVE Goal
  BY <1>0, <1>3, DiskStays, UpdateKeeps DEF UpdateLock
<1>4. ASSUME NEW c \in Calls, Look(c) PROVE Goal
  BY <1>0, <1>4, DiskStays, LookKeeps
<1>5. ASSUME NEW c \in Calls, Handler(c) PROVE Goal
  <2>1. CASE Replay(c) \/ Conflict(c) \/ RefuseState(c) \/ RefuseRules(c)
    BY <1>0, <2>1, DiskStays, EarlyRepliesKeep
  <2>2. CASE Commit(c)
    BY <1>0, <2>2, DiskStays, CommitKeeps
  <2>3. CASE Committed(c) \/ CommitFailed(c)
    BY <1>0, <2>3, DiskStays, LateRepliesKeep
  <2>4. CASE UpdateStep(c) /\ UNCHANGED serviceVars
    <3>1. CASE Rename(c)
      BY <2>4, <3>1, RenameKeeps
    <3>2. CASE OpenTmp(c) \/ WriteTmp(c) \/ FailUpdate(c) \/ SwapAndUnlock(c)
      BY <1>0, <2>4, <3>2, DiskStays, UpdateKeeps
    <3>3. QED
      BY <2>4, <3>1, <3>2 DEF UpdateStep
  <2>5. QED
    BY <1>5, <2>1, <2>2, <2>3, <2>4 DEF Handler
<1>6. ASSUME Crash \/ Restart PROVE Goal
  <2>1. disk' = disk
    BY <1>6 DEF Crash, StoreCrash, Restart, StoreRestart
  <2>2. QED
    BY <1>0, <1>6, <2>1, CrashKeeps
<1>7. QED
  BY <1>1, <1>2, <1>3, <1>4, <1>5, <1>6 DEF Next

LEMMA DurableInductive == DurableInv /\ [Next]_vars => DurableInv'
<1> SUFFICES ASSUME DurableInv, [Next]_vars PROVE DurableInv'
  OBVIOUS
<1>1. StoreInv'
  BY StoreSteps, Inductive DEF DurableInv
<1>2. CASE Next
  BY <1>1, <1>2, ServiceStep DEF DurableInv
<1>3. CASE UNCHANGED vars
  <2>1. UNCHANGED <<body, stage, answer, holder, known, step, seen, request, disk>>
    BY <1>3 DEF vars, storeVars, serviceVars
  <2>2. ServiceTyped' /\ Consistent(disk)'
    BY <2>1 DEF DurableInv, ServiceTyped
  <2>3. ASSUME NEW e \in Calls PROVE OnCourse(e)'
    BY <2>1, OthersStay DEF DurableInv, OnCourse, Placed, Own
  <2>4. QED
    BY <1>1, <2>2, <2>3 DEF DurableInv
<1>4. QED
  BY <1>2, <1>3

LEMMA DurableAlways == Spec => []DurableInv
BY ServiceInitially, DurableInductive, PTL DEF Spec

\* A key has one effect and a case is cut and frozen once, in this order
\* (workflow.go:86 and 173, under the mutex of the core).
THEOREM KeysHaveOneEffect == Spec => []OneEffectPerKey
<1>1. DurableInv => OneEffectPerKey
  BY DEF DurableInv, OneEffectPerKey
<1>2. QED
  BY <1>1, DurableAlways, PTL

\* A success that a client has heard of stays true, through crashes too
\* (CommitExecution, CommitFreeze and the replays).
THEOREM AnswersStay == Spec => []AnswersAreKept
<1>1. DurableInv => AnswersAreKept
  BY DEF DurableInv, OnCourse, Truthful, Matching, AnswersAreKept
<1>2. QED
  BY <1>1, DurableAlways, PTL

\* A retry of what was done is told so (the early returns of ExecuteReceipt
\* and VerifyAndFreeze stand before every other refusal).
THEOREM RetriesSucceed == Spec => []RepeatSucceeds
<1>1. DurableInv => RepeatSucceeds
  BY DEF DurableInv, OnCourse, Repeated, RepeatSucceeds
<1>2. QED
  BY <1>1, DurableAlways, PTL

\* The two handlers see an atomic store too (store.go:121).
THEOREM ServiceStoreIsAtomic == Spec => AtomicUpdates
<1>1. DurableInv => StoreInv
  BY DEF DurableInv
<1>2. ASSUME DurableInv, [Next]_vars PROVE [Promise!Next]_(Promise!vars)
  BY <1>1, <1>2, StoreSteps, StepMaps
<1>3. Init => Promise!Init
  BY InitMaps DEF Init
<1>4. QED
  BY <1>2, <1>3, DurableAlways, PTL DEF Spec, AtomicUpdates, Promise!Spec
=============================================================================
