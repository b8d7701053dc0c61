--------------------------- MODULE DurableService ---------------------------
(***************************************************************************)
(* The two calls a client may safely repeat, ExecuteReceipt and            *)
(* VerifyAndFreeze, over a store that crashes and whose disk fails: the    *)
(* key is looked up, the case judged and the result stored under the mutex *)
(* of the core. There is one authorized case on every core.                *)
(*                                                                         *)
(* A client that has lost its reply sends its body again. So a retry is    *)
(* another request with the same body, at any time: after the reply, after *)
(* a crash, or while the first attempt is still running (the handler goes  *)
(* on when the server's write timeout has cut off its reply).              *)
(***************************************************************************)
EXTENDS SnapshotStore, FiniteSets, SequencesExt

CONSTANTS
    Cores,      \* and with each of them its one case
    Bodies,     \* [core, kind, key, payload, good] a client may send
    NoBody,
    NoAnswer

VARIABLES
    body,       \* what each request carries
    stage,      \* where its handler is
    answer,     \* what the handler replied
    holder,     \* who holds the mutex of each core
    known       \* was the request's own result on disk when it was sent?

serviceVars == <<body, stage, answer, holder, known>>
vars == <<storeVars, serviceVars>>

\* What the three updates write: a cut with its receipt, an attempt that was
\* rejected, a freeze with the attempt that passed. Each has its body's digest.
Record(b, outcome) == [core |-> b.core, key |-> b.key, payload |-> b.payload, outcome |-> outcome]

OfKind(kind) == IF kind = "execute" THEN {"cut"} ELSE {"rejected", "passed"}

\* Slip: results of all cases share one name space.
StoredAnywhere(b, contents) ==
    {r \in ToSet(contents) : r.key = b.key /\ r.outcome \in OfKind(b.kind)}

\* The result stored under a body's key: receiptKey joins case and key, and
\* executions and verifications have a map each.
Stored(b, contents) ==
    {r \in ToSet(contents) : r.core = b.core /\ r.key = b.key /\ r.outcome \in OfKind(b.kind)}

OnRecord(b, contents) == \E r \in Stored(b, contents) : r.payload = b.payload

StatusOf(core, contents) ==
    LET happened == {r.outcome : r \in {q \in ToSet(contents) : q.core = core}}
    IN IF "passed" \in happened THEN "Frozen"
       ELSE IF "cut" \in happened THEN "Executed" ELSE "Authorized"

ReadyFor(b, contents) ==
    StatusOf(b.core, contents) = IF b.kind = "execute" THEN "Authorized" ELSE "Executed"

\* What the rules may decide: a body with a flaw of its own is turned down,
\* and so may a good one be, since the core's mass and reserve change with
\* other cases and with revisions.
Verdicts(b) ==
    CASE b.kind = "execute" -> IF b.good THEN {"cut", "refused"} ELSE {"refused"}
      [] OTHER -> IF b.good THEN {"passed", "rejected"} ELSE {"rejected"}

SameKey(r, q) == r.core = q.core /\ r.key = q.key /\ (r.outcome = "cut" <=> q.outcome = "cut")

\* One effect of each key, and for each case its cut first and no more after
\* its freeze.
Consistent(contents) ==
    \A j \in DOMAIN contents :
        /\ contents[j].outcome # "cut" =>
              \E i \in 1..(j - 1) : contents[i].core = contents[j].core /\ contents[i].outcome = "cut"
        /\ \A i \in 1..(j - 1) :
              contents[i].core = contents[j].core =>
                  /\ ~SameKey(contents[i], contents[j])
                  /\ contents[j].outcome # "cut"
                  /\ contents[i].outcome # "passed"

ASSUME BodiesAssumption ==
    \A b \in Bodies :
        /\ b.core \in Cores /\ b.kind \in {"execute", "verify"}
        /\ \A v \in Verdicts(b) \ {"refused"} : Record(b, v) \in Updates
ASSUME UpdatesAssumption == \A u \in Updates : u.outcome \in {"cut", "rejected", "passed"}
ASSUME HistoriesAssumption == \A contents \in Loaded : Consistent(contents)

-----------------------------------------------------------------------------

Init ==
    /\ StoreInit
    /\ body = [c \in Calls |-> NoBody]
    /\ stage = [c \in Calls |-> "unsent"]
    /\ answer = [c \in Calls |-> NoAnswer]
    /\ holder = [k \in Cores |-> Nobody]
    /\ known = [c \in Calls |-> FALSE]

\* The server accepts a request and starts its goroutine, which looks up the
\* case and reaches the mutex of its core.
Send(c, b) ==
    /\ running
    /\ stage[c] = "unsent"
    /\ body' = [body EXCEPT ![c] = b]
    /\ known' = [known EXCEPT ![c] = OnRecord(b, disk)]
    /\ stage' = [stage EXCEPT ![c] = "queued"]
    /\ UNCHANGED <<storeVars, answer, holder>>

\* Slip: the core is not locked.
EnterUnlocked(c) ==
    /\ running
    /\ stage[c] = "queued"
    /\ stage' = [stage EXCEPT ![c] = "looking"]
    /\ UNCHANGED <<storeVars, body, answer, holder, known>>

LockCore(c) ==
    /\ running
    /\ stage[c] = "queued"
    /\ holder[body[c].core] = Nobody
    /\ holder' = [holder EXCEPT ![body[c].core] = c]
    /\ stage' = [stage EXCEPT ![c] = "looking"]
    /\ UNCHANGED <<storeVars, body, answer, known>>

\* ExecutionReceipt or VerificationByKey, and the second read of the case:
\* no update of this case can come between them.
Look(c) ==
    /\ stage[c] = "looking"
    /\ Read(c)
    /\ stage' = [stage EXCEPT ![c] = "deciding"]
    /\ UNCHANGED <<body, answer, holder, known>>

\* The handler returns: its reply is sent and the mutex unlocked.
Reply(c, code, records) ==
    /\ running
    /\ answer' = [answer EXCEPT ![c] = [code |-> code, records |-> records]]
    /\ stage' = [stage EXCEPT ![c] = "answered"]
    /\ holder' = [holder EXCEPT ![body[c].core] = Nobody]
    /\ UNCHANGED <<storeVars, body, known>>

\* Slip: the state of the case is judged before the key is looked up.
JudgeFirst(c) ==
    /\ stage[c] = "deciding"
    /\ ~ReadyFor(body[c], seen[c])
    /\ Reply(c, "state", {})

Replay(c) ==
    /\ stage[c] = "deciding"
    /\ OnRecord(body[c], seen[c])
    /\ Reply(c, "success", Stored(body[c], seen[c]))

\* 409: the key was used with another payload.
Conflict(c) ==
    /\ stage[c] = "deciding"
    /\ Stored(body[c], seen[c]) # {}
    /\ ~OnRecord(body[c], seen[c])
    /\ Reply(c, "conflict", {})

\* 422: the case is not in the state the call wants.
RefuseState(c) ==
    /\ stage[c] = "deciding"
    /\ Stored(body[c], seen[c]) = {}
    /\ ~ReadyFor(body[c], seen[c])
    /\ Reply(c, "state", {})

\* 400: a cut outside its authorization or against the mass rules. Nothing is
\* stored, and the key stays free.
RefuseRules(c) ==
    /\ stage[c] = "deciding"
    /\ Stored(body[c], seen[c]) = {}
    /\ ReadyFor(body[c], seen[c])
    /\ "refused" \in Verdicts(body[c])
    /\ Reply(c, "invalid", {})

\* CommitExecution, SaveRejectedVerification or CommitFreeze.
Commit(c) ==
    /\ stage[c] = "deciding"
    /\ Stored(body[c], seen[c]) = {}
    /\ ReadyFor(body[c], seen[c])
    /\ \E v \in Verdicts(body[c]) \ {"refused"} : BeginUpdate(c, Record(body[c], v))
    /\ stage' = [stage EXCEPT ![c] = "storing"]
    /\ UNCHANGED <<body, answer, holder, known>>

Committed(c) ==
    /\ stage[c] = "storing"
    /\ step[c] = "ok"
    /\ Reply(c, "success", {request[c]})

\* An error of the disk is no error of the domain: fail() answers 400.
CommitFailed(c) ==
    /\ stage[c] = "storing"
    /\ step[c] = "failed"
    /\ Reply(c, "invalid", {})

\* The goroutines, the mutexes and the memory die with the process.
Crash ==
    /\ StoreCrash
    /\ stage' = [c \in Calls |->
                    IF stage[c] \in {"unsent", "answered"} THEN stage[c] ELSE "lost"]
    /\ holder' = [k \in Cores |-> Nobody]
    /\ UNCHANGED <<body, answer, known>>

Restart == StoreRestart /\ UNCHANGED serviceVars

UpdateLock(c) == LockAndChange(c) /\ UNCHANGED serviceVars

Handler(c) ==
    \/ Replay(c) \/ Conflict(c) \/ RefuseState(c) \/ RefuseRules(c)
    \/ Commit(c) \/ Committed(c) \/ CommitFailed(c)
    \/ UpdateStep(c) /\ UNCHANGED serviceVars

Next ==
    \/ \E c \in Calls :
        \/ \E b \in Bodies : Send(c, b)
        \/ LockCore(c)
        \/ UpdateLock(c)
        \/ Look(c)
        \/ Handler(c)
    \/ Crash
    \/ Restart

\* A goroutine that can run does. One that waits for a mutex gets it if the
\* mutex is free again and again: sync.Mutex hands itself to the first in its
\* queue once that one has waited for a millisecond, and sync.RWMutex lets the
\* waiting readers in after each writer. Nobody has to restart the process.
Fairness ==
    \A c \in Calls :
        /\ WF_vars(Handler(c))
        /\ SF_vars(LockCore(c))
        /\ SF_vars(UpdateLock(c))
        /\ SF_vars(Look(c))

Spec == Init /\ [][Next]_vars /\ Fairness

-----------------------------------------------------------------------------

\* One key has one effect and a case is cut and frozen once, in this order,
\* whatever requests overlap, are repeated or were interrupted by a crash.
OneEffectPerKey == Consistent(disk)

\* A success names the one result kept under the call's case, key and kind, on
\* disk: two attempts never hear two stories, and neither hears one that the
\* next crash takes back or one that belongs to another case.
AnswersAreKept ==
    \A c \in Calls :
        answer[c] # NoAnswer /\ answer[c].code = "success" =>
            answer[c].records =
                {r \in ToSet(disk) :
                    /\ r.core = body[c].core /\ r.key = body[c].key
                    /\ r.payload = body[c].payload
                    /\ r.outcome = "cut" <=> body[c].kind = "execute"}

\* A body sent again once its result is on disk is answered by that result,
\* not by an error, even if the process was restarted or the case frozen since.
RepeatSucceeds ==
    \A c \in Calls : known[c] /\ answer[c] # NoAnswer => answer[c].code = "success"

\* Every request is answered, or interrupted by a crash: no failure of the
\* disk leaves a mutex locked.
EveryCallReturns ==
    \A c \in Calls : stage[c] = "queued" ~> stage[c] \in {"answered", "lost"}
=============================================================================
