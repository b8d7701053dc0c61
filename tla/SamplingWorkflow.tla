-------------------------- MODULE SamplingWorkflow --------------------------
(***************************************************************************)
(* The application service of the core preservation server                 *)
(* (internal/application, with the rules of internal/analysis and          *)
(* internal/domain): cores are registered and their constraints revised,   *)
(* sampling cases go from Draft to Frozen, and every step leaves evidence  *)
(* that is never rewritten.                                                *)
(*                                                                         *)
(* One action is one successful call of one handler. A handler holds its   *)
(* core's mutex from its second read of the case to its single store       *)
(* update, so calls about one core are atomic with respect to each other;  *)
(* a call that is refused changes nothing and is a stuttering step. Where a*)
(* call looks at a core whose mutex it does not hold (see                  *)
(* RequireCurrentPrecheck), whatever it may find there is allowed.         *)
(*                                                                         *)
(* A SHA-256 digest is modelled by the record it is computed from (it is   *)
(* taken to be collision free), a generated id by the record it names, and *)
(* a list by the set of its members. Clock readings and free text (purpose,*)
(* method, notes, people, places) are left out.                            *)
(*                                                                         *)
(* A definition introduced by "Slip:" is a mistaken version of the one that*)
(* follows it. No action uses it: it is there to show which property would *)
(* notice the mistake.                                                     *)
(***************************************************************************)
EXTENDS Geometry, Sequences

CONSTANTS
    Cores,              \* core ids
    Cases,              \* case ids
    Keys,               \* idempotency keys and verification keys
    Issues,             \* what a reviewer can object to: [code, ref]
    Registrations,      \* bodies of RegisterCore
    Constraints,        \* bodies of ReviseCore: [reserve, protected]
    Plans,              \* what a case asks for: [requested, estimated]
    Cuts,               \* reports of a cut: [actual, before, sample, after]
    Measurements,       \* reports of a verification: [remaining, complete]
    MaxCoreRevision,    \* bound: no ReviseCore beyond this core revision
    MaxCaseRevision,    \* bound: no revision or return beyond this case revision
    None                \* an absent record, an empty digest

VARIABLES
    cores,              \* the current record of every core
    coreVersions,       \* every version of it, oldest first
    cases,              \* the current record of every case
    caseVersions,       \* every revision of it, oldest first
    findingEvents,      \* the opening and closing of review findings
    prechecks,          \* every precheck snapshot ever stored
    manifests,          \* the authorization manifest of a case
    executions,         \* the cut recorded for a case
    receipts,           \* the cut recorded under an idempotency key
    attempts,           \* the verification attempts of a case, oldest first
    credentials         \* every credential issued

coreVars == <<cores, coreVersions>>
caseVars == <<cases, caseVersions>>
vars == <<cores, coreVersions, cases, caseVersions, findingEvents, prechecks,
          manifests, executions, receipts, attempts, credentials>>

-----------------------------------------------------------------------------
(***************************************************************************)
(* Records                                                                 *)
(***************************************************************************)

Status == {"Draft", "Returned", "Submitted", "Authorized", "Executed", "Frozen"}

\* Slip: an authorized case no longer counts against its rivals.
TerminalOnceAuthorized == {"Authorized", "Executed", "Frozen"}
Terminal == {"Frozen"}

\* Slip: the author may still revise what has been authorized.
EditableUntilCut == {"Draft", "Returned", "Authorized"}
Editable == {"Draft", "Returned"}

\* Slip: an authorized case may still be sent back.
ReturnableUntilCut == {"Submitted", "Draft", "Authorized"}
Returnable == {"Submitted", "Draft"}

Segments == SUBSET Interval
Revision == Nat \ {0}

Registration == [depth : Interval, initial : Int, available : Int,
                 reserve : Int, protected : Segments]
Constraint == [reserve : Int, protected : Segments]
Plan == [requested : Segments, estimated : Int]
Cut == [actual : Segments, before : Int, sample : Int, after : Int]
Measurement == [remaining : Int, complete : BOOLEAN]
Issue == [code : STRING, ref : Interval \cup {None}]

CoreRecord == [depth : Interval, initial : Int, available : Int, reserve : Int,
               protected : Segments, revision : Revision]

\* What a snapshot remembers of another case of the same core.
ActiveCaseSummary == [case : Cases, status : Status, revision : Revision,
                      requested : Segments, estimated : Int]

Snapshot == [case : Cases, caseRevision : Revision, coreId : Cores,
             core : CoreRecord, requested : Segments, estimated : Int,
             active : SUBSET ActiveCaseSummary]

Manifest == [case : Cases, caseRevision : Revision, precheck : Snapshot,
             requested : Segments, estimated : Int, tolerance : Nat]

Finding == [issue : Issues, opened : Revision, status : {"Open", "Closed"},
            closed : Revision \cup {None}]

FindingEvent == [type : {"Opened", "Closed"}, issue : Issues,
                 opened : Revision, caseRevision : Revision]

Execution == [key : Keys, authorization : Manifest, actual : Segments,
              before : Int, sample : Int, after : Int]

Attempt == [key : Keys, caseRevision : Revision, remaining : Int,
            complete : BOOLEAN, verdict : {"Rejected", "Passed"}]

Credential == [case : Cases, core : Cores, frozenRevision : Revision,
               segments : Segments, execution : Execution,
               verification : Attempt, remaining : Int]

CaseRecord == [core : Cores, requested : Segments, estimated : Int,
               status : Status, revision : Revision,
               precheck : Snapshot \cup {None},
               authorization : Manifest \cup {None},
               findings : SUBSET Finding,
               execution : Execution \cup {None},
               credential : Credential \cup {None}]

\* What the properties read of the full copy a case version keeps.
CaseVersion == [revision : Revision, status : Status, requested : Segments,
                estimated : Int]

ASSUME InputAssumption ==
    /\ Registrations \subseteq Registration
    /\ Constraints \subseteq Constraint
    /\ Plans \subseteq Plan
    /\ Cuts \subseteq Cut
    /\ Measurements \subseteq Measurement
    /\ Issues \subseteq Issue

ASSUME BoundAssumption == MaxCoreRevision \in Nat /\ MaxCaseRevision \in Nat

ASSUME NoneAssumption ==
    None \notin CoreRecord \cup CaseRecord \cup Snapshot \cup Manifest \cup Execution \cup Revision

-----------------------------------------------------------------------------
(***************************************************************************)
(* The rules of internal/domain and internal/analysis                      *)
(***************************************************************************)

InStatus(S) == {c \in Cases : cases[c] # None /\ cases[c].status \in S}

ValidCore(core) ==
    /\ core.depth.end > core.depth.start
    /\ core.initial >= 0 /\ core.available >= 0 /\ core.reserve >= 0
    /\ core.available <= core.initial
    /\ \A p \in core.protected : Valid(p) /\ Inside(p, core.depth)

ValidCaseBody(plan) == plan.estimated > 0 /\ ValidSegments(plan.requested)

ActiveSummaries(c) ==
    {[case |-> d, status |-> cases[d].status, revision |-> cases[d].revision,
      requested |-> cases[d].requested, estimated |-> cases[d].estimated] :
        d \in {d \in InStatus(Status \ Terminal) :
                  d # c /\ cases[d].core = cases[c].core}}

\* What the precheck of case c would store now.
PrecheckSnapshot(c) ==
    [case |-> c, caseRevision |-> cases[c].revision, coreId |-> cases[c].core,
     core |-> cores[cases[c].core], requested |-> cases[c].requested,
     estimated |-> cases[c].estimated, active |-> ActiveSummaries(c)]

\* The snapshot's list of findings is empty.
Passes(p) ==
    /\ p.estimated > 0
    /\ ValidSegments(p.requested)
    /\ \A s \in p.requested : Inside(s, p.core.depth)
    /\ Apart(p.requested, p.core.protected)
    /\ \A a \in p.active : Apart(p.requested, a.requested)
    /\ p.core.available - p.estimated >= p.core.reserve

\* Slip: only the cases are compared with the snapshot, not the core.
CaseChangeSources(p) ==
    LET now == PrecheckSnapshot(p.case)
    IN {s \in {"caseRevision", "activeCases"} :
           \/ s = "caseRevision" /\ now.caseRevision # p.caseRevision
           \/ s = "activeCases" /\ now.active # p.active}

\* What has changed since snapshot p was taken; {} is "still valid".
ChangeSources(p) ==
    LET now   == PrecheckSnapshot(p.case)
        named == {s \in {"caseRevision", "coreRevision", "activeCases"} :
                    \/ s = "caseRevision" /\ now.caseRevision # p.caseRevision
                    \/ s = "coreRevision" /\ now.core.revision # p.core.revision
                    \/ s = "activeCases" /\ now.active # p.active}
    IN IF named = {} /\ now # p THEN {"caseInputs"} ELSE named

\* Slip: the snapshot is current, whatever its verdict.
RequireFreshPrecheck(c) ==
    LET p == cases[c].precheck
    IN p \in prechecks /\ (p.coreId = cases[c].core => ChangeSources(p) = {})

\* The snapshot is judged by the case it was taken of, which is another one if
\* the digest was copied. On the same core that is done under the core's mutex,
\* at one moment. On another core the lookups of case, core and rivals mingle
\* with calls about that core, and may find valid what is not: then any verdict
\* is possible.
RequireCurrentPrecheck(c) ==
    LET p == cases[c].precheck
    IN /\ p \in prechecks
       /\ Passes(p)
       /\ p.coreId = cases[c].core => ChangeSources(p) = {}

\* Slip: a finding may have been closed against an earlier revision.
FindingsClosed(c) == \A f \in cases[c].findings : f.status = "Closed"

FindingsClosedForCurrent(c) ==
    \A f \in cases[c].findings :
        f.status = "Closed" /\ f.closed = cases[c].revision

ValidMassTriplet(before, sample, after) ==
    /\ before >= 0 /\ sample >= 0 /\ after >= 0
    /\ before - sample = after

\* ExecutionViolations reports nothing.
ExecutionAllowed(m, core, cut) ==
    /\ \A s \in cut.actual : Inside(s, core.depth)
    /\ \A s \in cut.actual : \E r \in m.requested : WithinTolerance(s, r, m.tolerance)
    /\ cut.sample <= m.estimated
    /\ cut.before = core.available
    /\ ValidMassTriplet(cut.before, cut.sample, cut.after)
    /\ cut.after >= core.reserve

\* Slip: the reserve was checked when the cut was recorded.
RecordedMassConfirmed(x, core, seen) ==
    seen.remaining = x.after /\ seen.complete

\* VerificationReasons reports nothing.
VerificationPasses(x, core, seen) ==
    /\ ValidMassTriplet(x.before, x.sample, x.after)
    /\ seen.remaining = x.after
    /\ seen.remaining >= core.reserve
    /\ seen.complete

-----------------------------------------------------------------------------
(***************************************************************************)
(* Store updates                                                           *)
(***************************************************************************)

Version(rec) == [revision |-> rec.revision, status |-> rec.status,
                 requested |-> rec.requested, estimated |-> rec.estimated]

SaveCoreVersion(k, rec) ==
    /\ cores' = [cores EXCEPT ![k] = rec]
    /\ coreVersions' = [coreVersions EXCEPT ![k] = Append(@, rec)]

SaveCase(c, rec) == cases' = [cases EXCEPT ![c] = rec]

\* Slip: the record is saved, its version is not.
SaveCaseOnly(c, rec) == SaveCase(c, rec) /\ UNCHANGED caseVersions

SaveCaseVersion(c, rec) ==
    /\ SaveCase(c, rec)
    /\ caseVersions' = [caseVersions EXCEPT ![c] = Append(@, Version(rec))]

-----------------------------------------------------------------------------
(***************************************************************************)
(* Cores                                                                   *)
(***************************************************************************)

RegisterCore(k, reg) ==
    /\ cores[k] = None
    /\ ValidCore(reg)
    /\ SaveCoreVersion(k, [depth |-> reg.depth, initial |-> reg.initial,
                           available |-> reg.available, reserve |-> reg.reserve,
                           protected |-> Normalize(reg.protected), revision |-> 1])
    /\ UNCHANGED <<caseVars, findingEvents, prechecks, manifests, executions,
                   receipts, attempts, credentials>>

\* Only a cut that is already frozen, or a reserve the core no longer holds,
\* blocks a revision; the cases still open are merely reported.
ReviseCore(k, form) ==
    LET next == [cores[k] EXCEPT !.reserve = form.reserve,
                                 !.protected = Normalize(form.protected)]
    IN /\ cores[k] # None
       /\ cores[k].revision < MaxCoreRevision
       /\ ValidCore(next)
       /\ next.reserve <= cores[k].available
       /\ \A c \in InStatus({"Frozen"}) :
             cases[c].core = k => Apart(cases[c].execution.actual, next.protected)
       /\ SaveCoreVersion(k, [next EXCEPT !.revision = @ + 1])
       /\ UNCHANGED <<caseVars, findingEvents, prechecks, manifests, executions,
                      receipts, attempts, credentials>>

-----------------------------------------------------------------------------
(***************************************************************************)
(* Drafting and review                                                     *)
(***************************************************************************)

\* What the body of a new case may have for a precheck digest: nothing, or a
\* digest copied from an answer about another case. (An unknown one is as good
\* as none.)
Digests == prechecks \cup {None}

\* The body a client sends is stored with the fields below overwritten, and the
\* precheck digest is not one of them.
CreateCase(c, k, plan, digest) ==
    /\ ValidCaseBody(plan)
    /\ cores[k] # None
    /\ cases[c] = None
    /\ SaveCaseVersion(c, [core |-> k, requested |-> plan.requested,
                           estimated |-> plan.estimated, status |-> "Draft",
                           revision |-> 1, precheck |-> digest,
                           authorization |-> None, findings |-> {},
                           execution |-> None, credential |-> None])
    /\ UNCHANGED <<coreVars, findingEvents, prechecks, manifests, executions,
                   receipts, attempts, credentials>>

\* Slip: the request is rewritten under the same revision.
ReviseCaseInPlace(c, plan) ==
    /\ c \in InStatus(Editable)
    /\ ValidCaseBody(plan)
    /\ SaveCase(c, [cases[c] EXCEPT !.requested = plan.requested,
                                    !.estimated = plan.estimated,
                                    !.precheck = None])
    /\ UNCHANGED <<coreVars, caseVersions, findingEvents, prechecks, manifests,
                   executions, receipts, attempts, credentials>>

ReviseCase(c, plan) ==
    /\ c \in InStatus(Editable)
    /\ cases[c].revision < MaxCaseRevision
    /\ ValidCaseBody(plan)
    /\ SaveCaseVersion(c, [cases[c] EXCEPT !.requested = plan.requested,
                                           !.estimated = plan.estimated,
                                           !.precheck = None,
                                           !.authorization = None,
                                           !.revision = @ + 1])
    /\ UNCHANGED <<coreVars, findingEvents, prechecks, manifests, executions,
                   receipts, attempts, credentials>>

\* A snapshot with the same inputs is stored once and answered again.
Precheck(c) ==
    /\ c \in InStatus(Editable)
    /\ prechecks' = prechecks \cup {PrecheckSnapshot(c)}
    /\ SaveCase(c, [cases[c] EXCEPT !.precheck = PrecheckSnapshot(c)])
    /\ UNCHANGED <<coreVars, caseVersions, findingEvents, manifests, executions,
                   receipts, attempts, credentials>>

ReturnCaseIssues(c, issues) ==
    LET rec == cases[c] IN
    /\ c \in InStatus(Returnable)
    /\ rec.revision < MaxCaseRevision
    /\ issues # {}
    /\ \A x \in issues :
          /\ x.ref # None =>
                Valid(x.ref) /\ \E t \in rec.requested : Inside(x.ref, t)
          /\ \A f \in rec.findings :
                ~(f.issue = x /\ f.status = "Open" /\ f.opened = rec.revision)
    /\ SaveCaseVersion(c,
          [rec EXCEPT !.revision = @ + 1, !.status = "Returned",
                      !.precheck = None, !.authorization = None,
                      !.findings = @ \cup
                          {[issue |-> x, opened |-> rec.revision,
                            status |-> "Open", closed |-> None] : x \in issues}])
    /\ findingEvents' = [findingEvents EXCEPT ![c] = @ \cup
          {[type |-> "Opened", issue |-> x, opened |-> rec.revision,
            caseRevision |-> rec.revision] : x \in issues}]
    /\ UNCHANGED <<coreVars, prechecks, manifests, executions, receipts, attempts,
                   credentials>>

CloseFinding(c, f) ==
    LET rec == cases[c] IN
    /\ c \in InStatus({"Returned"})
    /\ f \in rec.findings
    /\ f.status # "Closed"
    /\ SaveCase(c, [rec EXCEPT !.findings = (@ \ {f}) \cup
                      {[f EXCEPT !.status = "Closed", !.closed = rec.revision]}])
    /\ findingEvents' = [findingEvents EXCEPT ![c] = @ \cup
          {[type |-> "Closed", issue |-> f.issue, opened |-> f.opened,
            caseRevision |-> rec.revision]}]
    /\ UNCHANGED <<coreVars, caseVersions, prechecks, manifests, executions,
                   receipts, attempts, credentials>>

SubmitCase(c) ==
    /\ c \in InStatus(Editable)
    /\ FindingsClosedForCurrent(c)
    /\ RequireCurrentPrecheck(c)
    /\ SaveCase(c, [cases[c] EXCEPT !.status = "Submitted"])
    /\ UNCHANGED <<coreVars, caseVersions, findingEvents, prechecks, manifests,
                   executions, receipts, attempts, credentials>>

-----------------------------------------------------------------------------
(***************************************************************************)
(* Authorization, cut and verification                                     *)
(***************************************************************************)

DepthToleranceMm == 2

Authorize(c) ==
    LET rec == cases[c]
        m   == [case |-> c, caseRevision |-> rec.revision,
                precheck |-> rec.precheck, requested |-> rec.requested,
                estimated |-> rec.estimated, tolerance |-> DepthToleranceMm]
    IN /\ c \in InStatus({"Submitted"})
       /\ FindingsClosedForCurrent(c)
       /\ RequireCurrentPrecheck(c)
       /\ SaveCase(c, [rec EXCEPT !.authorization = m, !.status = "Authorized"])
       /\ manifests' = [manifests EXCEPT ![c] = m]
       /\ UNCHANGED <<coreVars, caseVersions, findingEvents, prechecks, executions,
                      receipts, attempts, credentials>>

\* The call quotes the digest of a manifest and a key no cut of the case has
\* used; with a used key the handler answers from the receipt.
ExecuteReceipt(c, key, cut) ==
    LET rec == cases[c]
        m   == manifests[c]
        x   == [key |-> key, authorization |-> m, actual |-> cut.actual,
                before |-> cut.before, sample |-> cut.sample, after |-> cut.after]
    IN /\ c \in InStatus({"Authorized"})
       /\ receipts[<<c, key>>] = None
       /\ m # None
       /\ rec.authorization = m
       /\ rec.revision = m.caseRevision
       /\ ValidSegments(cut.actual)
       /\ ExecutionAllowed(m, cores[rec.core], cut)
       /\ SaveCaseVersion(c, [rec EXCEPT !.execution = x, !.status = "Executed",
                                         !.revision = @ + 1])
       /\ executions' = [executions EXCEPT ![c] = x]
       /\ receipts' = [receipts EXCEPT ![<<c, key>>] = x]
       /\ UNCHANGED <<coreVars, findingEvents, prechecks, manifests, attempts,
                      credentials>>

\* Slip: only a passed attempt uses its key up.
PassedKeys(c) ==
    {attempts[c][i].key : i \in {i \in DOMAIN attempts[c] : attempts[c][i].verdict = "Passed"}}

\* The keys of the attempts on record: a call that reuses one is answered with
\* the attempt it names.
UsedKeys(c) == {attempts[c][i].key : i \in DOMAIN attempts[c]}

\* Slip: the verdict is never filled in.
VerificationUndecided(c, key, seen, verdict) ==
    [key |-> key, caseRevision |-> cases[c].revision, remaining |-> seen.remaining,
     complete |-> seen.complete, verdict |-> ""]

Verification(c, key, seen, verdict) ==
    [key |-> key, caseRevision |-> cases[c].revision, remaining |-> seen.remaining,
     complete |-> seen.complete, verdict |-> verdict]

\* Slip: the credential is made out before the revision is raised.
CredentialBeforeFreeze(c, a) ==
    [case |-> c, core |-> cases[c].core, frozenRevision |-> cases[c].revision,
     segments |-> cases[c].execution.actual, execution |-> cases[c].execution,
     verification |-> a, remaining |-> a.remaining]

CredentialFor(c, a) ==
    [case |-> c, core |-> cases[c].core, frozenRevision |-> cases[c].revision + 1,
     segments |-> cases[c].execution.actual, execution |-> cases[c].execution,
     verification |-> a, remaining |-> a.remaining]

RejectVerification(c, key, seen) ==
    /\ c \in InStatus({"Executed"})
    /\ cases[c].execution # None
    /\ key \notin UsedKeys(c)
    /\ ~VerificationPasses(cases[c].execution, cores[cases[c].core], seen)
    /\ attempts' = [attempts EXCEPT ![c] = Append(@, Verification(c, key, seen, "Rejected"))]
    /\ UNCHANGED <<coreVars, caseVars, findingEvents, prechecks, manifests,
                   executions, receipts, credentials>>

VerifyAndFreeze(c, key, seen) ==
    LET rec  == cases[c]
        core == cores[rec.core]
        a    == Verification(c, key, seen, "Passed")
        cred == CredentialFor(c, a)
    IN /\ c \in InStatus({"Executed"})
       /\ rec.execution # None
       /\ key \notin UsedKeys(c)
       /\ VerificationPasses(rec.execution, core, seen)
       /\ SaveCaseVersion(c, [rec EXCEPT !.status = "Frozen", !.revision = @ + 1,
                                         !.credential = cred])
       /\ SaveCoreVersion(rec.core, [core EXCEPT !.available = seen.remaining,
                                                 !.revision = @ + 1])
       /\ attempts' = [attempts EXCEPT ![c] = Append(@, a)]
       /\ credentials' = credentials \cup {cred}
       /\ UNCHANGED <<findingEvents, prechecks, manifests, executions, receipts>>

-----------------------------------------------------------------------------

Init ==
    /\ cores = [k \in Cores |-> None]
    /\ coreVersions = [k \in Cores |-> <<>>]
    /\ cases = [c \in Cases |-> None]
    /\ caseVersions = [c \in Cases |-> <<>>]
    /\ findingEvents = [c \in Cases |-> {}]
    /\ prechecks = {}
    /\ manifests = [c \in Cases |-> None]
    /\ executions = [c \in Cases |-> None]
    /\ receipts = [ck \in Cases \X Keys |-> None]
    /\ attempts = [c \in Cases |-> <<>>]
    /\ credentials = {}

CoreStep ==
    \/ \E k \in Cores, reg \in Registrations : RegisterCore(k, reg)
    \/ \E k \in Cores, form \in Constraints : ReviseCore(k, form)

DraftStep ==
    \/ \E c \in Cases, k \in Cores, plan \in Plans, digest \in Digests :
          CreateCase(c, k, plan, digest)
    \/ \E c \in InStatus(Editable), plan \in Plans : ReviseCase(c, plan)
    \/ \E c \in InStatus(Editable) : Precheck(c) \/ SubmitCase(c)

ReviewStep ==
    \/ \E c \in InStatus(Returnable), issues \in SUBSET Issues :
          ReturnCaseIssues(c, issues)
    \/ \E c \in InStatus({"Returned"}) : \E f \in cases[c].findings : CloseFinding(c, f)
    \/ \E c \in InStatus({"Submitted"}) : Authorize(c)

CutStep ==
    \/ \E c \in InStatus({"Authorized"}), key \in Keys, cut \in Cuts :
          ExecuteReceipt(c, key, cut)
    \/ \E c \in InStatus({"Executed"}), key \in Keys, seen \in Measurements :
          RejectVerification(c, key, seen) \/ VerifyAndFreeze(c, key, seen)

Next == CoreStep \/ DraftStep \/ ReviewStep \/ CutStep

Spec == Init /\ [][Next]_vars
=============================================================================
