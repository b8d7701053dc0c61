--------------------------- MODULE EvidenceProofs ---------------------------
(***************************************************************************)
(* The evidence a sampling case leaves: theorems about the histories, the  *)
(* manifest, the cut and its receipt, the verification ledger, the         *)
(* credentials, the review findings and the lifecycle of a case.           *)
(***************************************************************************)
EXTENDS SamplingProofs, SequenceTheorems

-----------------------------------------------------------------------------
(***************************************************************************)
(* Steps, case by case                                                     *)
(*                                                                         *)
(* Every variable but prechecks, credentials and the cores is a function   *)
(* of the case. A step touches one case at most, so a promise made of      *)
(* every case for itself is kept if each action keeps it for its own case. *)
(***************************************************************************)

\* The step leaves c and everything recorded under c alone.
Untouched(c) ==
    /\ cases'[c] = cases[c] /\ caseVersions'[c] = caseVersions[c]
    /\ findingEvents'[c] = findingEvents[c]
    /\ manifests'[c] = manifests[c] /\ executions'[c] = executions[c]
    /\ \A key \in Keys : receipts'[<<c, key>>] = receipts[<<c, key>>]
    /\ attempts'[c] = attempts[c]

\* The step is a handler's call about c.
ActsOn(c) ==
    \/ \E k \in Cores, plan \in Plans, digest \in Digests : CreateCase(c, k, plan, digest)
    \/ \E plan \in Plans : ReviseCase(c, plan)
    \/ Precheck(c)
    \/ SubmitCase(c)
    \/ \E issues \in SUBSET Issues : ReturnCaseIssues(c, issues)
    \/ \E f \in cases[c].findings : CloseFinding(c, f)
    \/ Authorize(c)
    \/ \E key \in Keys, cut \in Cuts : ExecuteReceipt(c, key, cut)
    \/ \E key \in Keys, seen \in Measurements : RejectVerification(c, key, seen)
    \/ \E key \in Keys, seen \in Measurements : VerifyAndFreeze(c, key, seen)

LEMMA UntouchedByAll ==
    ASSUME UNCHANGED <<caseVars, findingEvents, manifests, executions, receipts, attempts>>,
           NEW c \in Cases
    PROVE  Untouched(c)
  BY DEF Untouched, caseVars

LEMMA OthersUntouched ==
    ASSUME TypeInv, NEW c \in Cases, ActsOn(c), NEW d \in Cases \ {c}
    PROVE  Untouched(d)
<1> USE DEF Untouched, SaveCaseVersion, SaveCase, TypeInv, TypeOK
<1>1. CASE \E k \in Cores, plan \in Plans, digest \in Digests : CreateCase(c, k, plan, digest)
  BY <1>1 DEF CreateCase
<1>2. CASE \E plan \in Plans : ReviseCase(c, plan)
  BY <1>2 DEF ReviseCase
<1>3. CASE Precheck(c)
  BY <1>3 DEF Precheck
<1>4. CASE SubmitCase(c)
  BY <1>4 DEF SubmitCase
<1>5. CASE \E issues \in SUBSET Issues : ReturnCaseIssues(c, issues)
  BY <1>5 DEF ReturnCaseIssues
<1>6. CASE \E f \in cases[c].findings : CloseFinding(c, f)
  BY <1>6 DEF CloseFinding
<1>7. CASE Authorize(c)
  BY <1>7 DEF Authorize
<1>8. CASE \E key \in Keys, cut \in Cuts : ExecuteReceipt(c, key, cut)
  BY <1>8 DEF ExecuteReceipt
<1>9. CASE \E key \in Keys, seen \in Measurements : RejectVerification(c, key, seen)
  BY <1>9 DEF RejectVerification, caseVars
<1>10. CASE \E key \in Keys, seen \in Measurements : VerifyAndFreeze(c, key, seen)
  BY <1>10 DEF VerifyAndFreeze
<1>11. QED
  BY <1>1, <1>2, <1>3, <1>4, <1>5, <1>6, <1>7, <1>8, <1>9, <1>10 DEF ActsOn

\* A step leaves a case alone or is a call about it.
LEMMA StepOfCase ==
    ASSUME TypeInv, [Next]_vars, NEW c \in Cases
    PROVE  Untouched(c) \/ ActsOn(c)
<1>1. CASE UNCHANGED vars
  BY <1>1, UntouchedByAll DEF vars, caseVars
<1>2. CASE CoreStep
  BY <1>2, UntouchedByAll DEF CoreStep, RegisterCore, ReviseCore
<1>3. CASE \E d \in Cases : ActsOn(d)
  <2>1. PICK d \in Cases : ActsOn(d)
    BY <1>3
  <2>2. QED
    BY <2>1, OthersUntouched
<1>4. CASE DraftStep
  <2>1. \E d \in Cases : ActsOn(d)
    BY <1>4 DEF DraftStep, ActsOn, InStatus
  <2>2. QED
    BY <2>1, <1>3
<1>5. CASE ReviewStep
  <2>1. \E d \in Cases : ActsOn(d)
    BY <1>5 DEF ReviewStep, ActsOn, InStatus
  <2>2. QED
    BY <2>1, <1>3
<1>6. CASE CutStep
  <2>1. \E d \in Cases : ActsOn(d)
    BY <1>6 DEF CutStep, ActsOn, InStatus
  <2>2. QED
    BY <2>1, <1>3
<1>7. QED
  BY <1>1, <1>2, <1>4, <1>5, <1>6 DEF Next

-----------------------------------------------------------------------------
(***************************************************************************)
(* What each call does to the record of its case                           *)
(***************************************************************************)

\* The fields that no call rewrites once the case exists.
SameCase(c) ==
    /\ cases[c] \in CaseRecord /\ cases[c] # None
    /\ cases'[c] \in CaseRecord /\ cases'[c] # None
    /\ cases'[c].core = cases[c].core

LEMMA RecordSaved ==
    ASSUME TypeInv, NEW c \in Cases, NEW rec \in CaseRecord, SaveCase(c, rec)
    PROVE  cases'[c] = rec /\ rec # None
  BY NoneAssumption DEF SaveCase, TypeInv, TypeOK

LEMMA VersionSaved ==
    ASSUME TypeInv, NEW c \in Cases, NEW rec, SaveCaseVersion(c, rec)
    PROVE  caseVersions'[c] = Append(caseVersions[c], Version(rec))
  BY DEF SaveCaseVersion, TypeInv, TypeOK

LEMMA CreateCaseEffect ==
    ASSUME TypeInv, NEW c \in Cases, NEW k \in Cores, NEW plan \in Plans,
           NEW digest \in Digests, CreateCase(c, k, plan, digest)
    PROVE  /\ cases[c] = None
           /\ cases'[c] \in CaseRecord /\ cases'[c] # None
           /\ cases'[c].core = k /\ cores[k] # None
           /\ cases'[c].status = "Draft" /\ cases'[c].revision = 1
           /\ cases'[c].requested = plan.requested
           /\ cases'[c].estimated = plan.estimated
           /\ cases'[c].precheck = digest /\ cases'[c].findings = {}
           /\ caseVersions'[c] = Append(caseVersions[c], Version(cases'[c]))
<1> DEFINE rec == [core |-> k, requested |-> plan.requested,
                   estimated |-> plan.estimated, status |-> "Draft",
                   revision |-> 1, precheck |-> digest,
                   authorization |-> None, findings |-> {},
                   execution |-> None, credential |-> None]
<1>1. plan \in Plan /\ digest \in Snapshot \cup {None}
  BY InputAssumption DEF Digests, TypeInv, TypeOK
<1>2. rec \in CaseRecord
  BY <1>1 DEF Plan, CaseRecord, Revision, Status
<1>3. SaveCaseVersion(c, rec)
  BY DEF CreateCase
<1>4. cases'[c] = rec /\ rec # None
  BY <1>2, <1>3, RecordSaved DEF SaveCaseVersion
<1>5. QED
  BY <1>2, <1>3, <1>4, VersionSaved DEF CreateCase

LEMMA ReviseCaseEffect ==
    ASSUME TypeInv, NEW c \in Cases, NEW plan \in Plans, ReviseCase(c, plan)
    PROVE  /\ SameCase(c)
           /\ cases[c].status \in Editable /\ cases'[c].status = cases[c].status
           /\ cases'[c].revision = cases[c].revision + 1
           /\ cases'[c].requested = plan.requested
           /\ cases'[c].estimated = plan.estimated
           /\ cases'[c].precheck = None /\ cases'[c].findings = cases[c].findings
           /\ caseVersions'[c] = Append(caseVersions[c], Version(cases'[c]))
<1> DEFINE rec == [cases[c] EXCEPT !.requested = plan.requested,
                                   !.estimated = plan.estimated,
                                   !.precheck = None,
                                   !.authorization = None,
                                   !.revision = @ + 1]
<1>1. plan \in Plan
  BY InputAssumption
<1>2. cases[c] \in CaseRecord /\ cases[c] # None /\ cases[c].status \in Editable
  BY CaseType DEF ReviseCase, TypeInv, InStatus
<1>3. rec \in CaseRecord
  <2>1. cases[c].revision + 1 \in Revision
    BY <1>2 DEF CaseRecord, Revision
  <2>2. plan.requested \in Segments /\ plan.estimated \in Int
    BY <1>1 DEF Plan
  <2>3. QED
    BY <1>2, <2>1, <2>2 DEF CaseRecord
<1>4. SaveCaseVersion(c, rec)
  BY DEF ReviseCase
<1>5. cases'[c] = rec /\ rec # None
  BY <1>3, <1>4, RecordSaved DEF SaveCaseVersion
<1>6. /\ rec.core = cases[c].core /\ rec.status = cases[c].status
      /\ rec.revision = cases[c].revision + 1 /\ rec.requested = plan.requested
      /\ rec.estimated = plan.estimated /\ rec.precheck = None
      /\ rec.findings = cases[c].findings
  BY <1>2 DEF CaseRecord
<1> HIDE DEF rec
<1>7. QED
  BY <1>2, <1>3, <1>4, <1>5, <1>6, VersionSaved DEF SameCase

LEMMA PrecheckEffect ==
    ASSUME TypeInv, NEW c \in Cases, Precheck(c)
    PROVE  /\ SameCase(c)
           /\ cases[c].status \in Editable /\ cases'[c].status = cases[c].status
           /\ cases'[c].revision = cases[c].revision
           /\ cases'[c].requested = cases[c].requested
           /\ cases'[c].estimated = cases[c].estimated
           /\ cases'[c].precheck = PrecheckSnapshot(c)
           /\ cases'[c].findings = cases[c].findings
<1> DEFINE rec == [cases[c] EXCEPT !.precheck = PrecheckSnapshot(c)]
<1>1. /\ cases[c] \in CaseRecord /\ cases[c] # None /\ c \in InStatus(Status)
      /\ cases[c].status \in Editable
  BY CaseType DEF Precheck, TypeInv, InStatus
<1>2. PrecheckSnapshot(c) \in Snapshot
  BY <1>1, SnapshotType
<1>3. rec \in CaseRecord
  BY <1>1, <1>2 DEF CaseRecord
<1>4. SaveCase(c, rec)
  BY DEF Precheck
<1>5. cases'[c] = rec /\ rec # None
  BY <1>3, <1>4, RecordSaved
<1>6. /\ rec.core = cases[c].core /\ rec.status = cases[c].status
      /\ rec.revision = cases[c].revision /\ rec.requested = cases[c].requested
      /\ rec.estimated = cases[c].estimated /\ rec.precheck = PrecheckSnapshot(c)
      /\ rec.findings = cases[c].findings
  BY <1>1 DEF CaseRecord
<1> HIDE DEF rec
<1>7. QED
  BY <1>1, <1>3, <1>5, <1>6 DEF SameCase

LEMMA ReturnCaseIssuesEffect ==
    ASSUME TypeInv, NEW c \in Cases, NEW issues \in SUBSET Issues,
           ReturnCaseIssues(c, issues)
    PROVE  /\ SameCase(c)
           /\ cases[c].status \in Returnable /\ cases'[c].status = "Returned"
           /\ cases'[c].revision = cases[c].revision + 1
           /\ cases'[c].requested = cases[c].requested
           /\ cases'[c].estimated = cases[c].estimated
           /\ cases'[c].precheck = None
           /\ cases'[c].findings = cases[c].findings \cup
                  {[issue |-> x, opened |-> cases[c].revision,
                    status |-> "Open", closed |-> None] : x \in issues}
           /\ findingEvents'[c] = findingEvents[c] \cup
                  {[type |-> "Opened", issue |-> x, opened |-> cases[c].revision,
                    caseRevision |-> cases[c].revision] : x \in issues}
           /\ caseVersions'[c] = Append(caseVersions[c], Version(cases'[c]))
<1> DEFINE raised == {[issue |-> x, opened |-> cases[c].revision,
                       status |-> "Open", closed |-> None] : x \in issues}
           events == {[type |-> "Opened", issue |-> x, opened |-> cases[c].revision,
                       caseRevision |-> cases[c].revision] : x \in issues}
           rec    == [cases[c] EXCEPT !.revision = @ + 1, !.status = "Returned",
                                      !.precheck = None, !.authorization = None,
                                      !.findings = @ \cup raised]
<1>1. cases[c] \in CaseRecord /\ cases[c] # None /\ cases[c].status \in Returnable
  BY CaseType DEF ReturnCaseIssues, TypeInv, InStatus
<1>2. raised \in SUBSET Finding
  BY <1>1 DEF CaseRecord, Finding
<1>3. SaveCaseVersion(c, rec) /\ findingEvents' = [findingEvents EXCEPT ![c] = @ \cup events]
  BY DEF ReturnCaseIssues
<1> HIDE DEF raised, events
<1>4. rec \in CaseRecord
  <2>1. cases[c].revision + 1 \in Revision
    BY <1>1 DEF CaseRecord, Revision
  <2>2. cases[c].findings \cup raised \in SUBSET Finding
    BY <1>1, <1>2 DEF CaseRecord
  <2>3. QED
    BY <1>1, <2>1, <2>2 DEF CaseRecord, Status
<1>5. cases'[c] = rec /\ rec # None
  BY <1>3, <1>4, RecordSaved DEF SaveCaseVersion
<1>6. /\ rec.core = cases[c].core /\ rec.status = "Returned"
      /\ rec.revision = cases[c].revision + 1 /\ rec.requested = cases[c].requested
      /\ rec.estimated = cases[c].estimated /\ rec.precheck = None
      /\ rec.findings = cases[c].findings \cup raised
  BY <1>1 DEF CaseRecord
<1>7. findingEvents'[c] = findingEvents[c] \cup events
  BY <1>3 DEF TypeInv, TypeOK
<1> HIDE DEF rec
<1>8. caseVersions'[c] = Append(caseVersions[c], Version(cases'[c]))
  BY <1>3, <1>5, VersionSaved
<1>9. SameCase(c)
  BY <1>1, <1>4, <1>5, <1>6 DEF SameCase
<1>10. QED
  BY <1>1, <1>5, <1>6, <1>7, <1>8, <1>9 DEF raised, events

LEMMA CloseFindingEffect ==
    ASSUME TypeInv, NEW c \in Cases, NEW f \in cases[c].findings, CloseFinding(c, f)
    PROVE  /\ SameCase(c)
           /\ cases[c].status = "Returned" /\ cases'[c].status = "Returned"
           /\ cases'[c].revision = cases[c].revision
           /\ cases'[c].requested = cases[c].requested
           /\ cases'[c].estimated = cases[c].estimated
           /\ cases'[c].precheck = cases[c].precheck
           /\ f \in Finding /\ f.status = "Open"
           /\ \E g \in Finding :
                 /\ g.issue = f.issue /\ g.opened = f.opened
                 /\ g.status = "Closed" /\ g.closed = cases[c].revision
                 /\ cases'[c].findings = (cases[c].findings \ {f}) \cup {g}
           /\ findingEvents'[c] = findingEvents[c] \cup
                  {[type |-> "Closed", issue |-> f.issue, opened |-> f.opened,
                    caseRevision |-> cases[c].revision]}
<1> DEFINE g      == [f EXCEPT !.status = "Closed", !.closed = cases[c].revision]
           event  == [type |-> "Closed", issue |-> f.issue, opened |-> f.opened,
                      caseRevision |-> cases[c].revision]
           left   == (cases[c].findings \ {f}) \cup {g}
           rec    == [cases[c] EXCEPT !.findings = left]
<1>1. cases[c] \in CaseRecord /\ cases[c] # None /\ cases[c].status = "Returned"
  BY CaseType DEF CloseFinding, TypeInv, InStatus
<1>2. f \in Finding /\ f.status = "Open"
  BY <1>1 DEF CloseFinding, CaseRecord, Finding
<1>3. /\ g \in Finding
      /\ g.issue = f.issue /\ g.opened = f.opened
      /\ g.status = "Closed" /\ g.closed = cases[c].revision
  BY <1>1, <1>2 DEF CaseRecord, Finding
<1>4. SaveCase(c, rec) /\ findingEvents' = [findingEvents EXCEPT ![c] = @ \cup {event}]
  BY DEF CloseFinding
<1> HIDE DEF event, g
<1>5. left \in SUBSET Finding
  BY <1>1, <1>3 DEF CaseRecord
<1> HIDE DEF left
<1>6. rec \in CaseRecord
  BY <1>1, <1>5 DEF CaseRecord
<1>7. cases'[c] = rec /\ rec # None
  BY <1>4, <1>6, RecordSaved
<1>8. /\ rec.core = cases[c].core /\ rec.status = cases[c].status
      /\ rec.revision = cases[c].revision /\ rec.requested = cases[c].requested
      /\ rec.estimated = cases[c].estimated /\ rec.precheck = cases[c].precheck
      /\ rec.findings = left
  BY <1>1 DEF CaseRecord
<1>9. findingEvents'[c] = findingEvents[c] \cup {event}
  BY <1>4 DEF TypeInv, TypeOK
<1> HIDE DEF rec
<1>10. \E h \in Finding :
          /\ h.issue = f.issue /\ h.opened = f.opened
          /\ h.status = "Closed" /\ h.closed = cases[c].revision
          /\ cases'[c].findings = (cases[c].findings \ {f}) \cup {h}
  BY <1>3, <1>7, <1>8 DEF left
<1>11. SameCase(c)
  BY <1>1, <1>6, <1>7, <1>8 DEF SameCase
<1>12. QED
  BY <1>1, <1>2, <1>7, <1>8, <1>9, <1>10, <1>11 DEF event

LEMMA SubmitCaseEffect ==
    ASSUME TypeInv, NEW c \in Cases, SubmitCase(c)
    PROVE  /\ SameCase(c)
           /\ cases[c].status \in Editable /\ cases'[c].status = "Submitted"
           /\ cases'[c].revision = cases[c].revision
           /\ cases'[c].requested = cases[c].requested
           /\ cases'[c].estimated = cases[c].estimated
           /\ cases'[c].precheck = cases[c].precheck
           /\ cases'[c].findings = cases[c].findings
           /\ FindingsClosedForCurrent(c)
<1> DEFINE rec == [cases[c] EXCEPT !.status = "Submitted"]
<1>1. cases[c] \in CaseRecord /\ cases[c] # None /\ cases[c].status \in Editable
  BY CaseType DEF SubmitCase, TypeInv, InStatus
<1>2. rec \in CaseRecord
  BY <1>1 DEF CaseRecord, Status
<1>3. SaveCase(c, rec) /\ FindingsClosedForCurrent(c)
  BY DEF SubmitCase
<1>4. cases'[c] = rec /\ rec # None
  BY <1>2, <1>3, RecordSaved
<1>5. /\ rec.core = cases[c].core /\ rec.status = "Submitted"
      /\ rec.revision = cases[c].revision /\ rec.requested = cases[c].requested
      /\ rec.estimated = cases[c].estimated /\ rec.precheck = cases[c].precheck
      /\ rec.findings = cases[c].findings
  BY <1>1 DEF CaseRecord
<1> HIDE DEF rec
<1>6. QED
  BY <1>1, <1>2, <1>3, <1>4, <1>5 DEF SameCase

LEMMA AuthorizeEffect ==
    ASSUME TypeInv, NEW c \in Cases, Authorize(c)
    PROVE  /\ SameCase(c)
           /\ cases[c].status = "Submitted" /\ cases'[c].status = "Authorized"
           /\ cases'[c].revision = cases[c].revision
           /\ cases'[c].requested = cases[c].requested
           /\ cases'[c].estimated = cases[c].estimated
           /\ cases'[c].precheck = cases[c].precheck
           /\ cases'[c].findings = cases[c].findings
           /\ cases'[c].authorization = manifests'[c]
           /\ manifests'[c] \in Manifest
           /\ manifests'[c].caseRevision = cases[c].revision
           /\ manifests'[c].precheck = cases[c].precheck
           /\ manifests'[c].requested = cases[c].requested
           /\ manifests'[c].estimated = cases[c].estimated
           /\ manifests'[c].tolerance = DepthToleranceMm
           /\ FindingsClosedForCurrent(c)
<1> DEFINE m   == [case |-> c, caseRevision |-> cases[c].revision,
                   precheck |-> cases[c].precheck, requested |-> cases[c].requested,
                   estimated |-> cases[c].estimated, tolerance |-> DepthToleranceMm]
           rec == [cases[c] EXCEPT !.authorization = m, !.status = "Authorized"]
<1>1. cases[c] \in CaseRecord /\ cases[c] # None /\ cases[c].status = "Submitted"
  BY CaseType DEF Authorize, TypeInv, InStatus
<1>2. cases[c].precheck \in Snapshot
  BY DEF Authorize, RequireCurrentPrecheck, TypeInv, TypeOK
<1>3. m \in Manifest
  BY <1>1, <1>2 DEF CaseRecord, Manifest, DepthToleranceMm
<1>4. SaveCase(c, rec) /\ manifests' = [manifests EXCEPT ![c] = m]
  BY DEF Authorize
<1>5. /\ m.caseRevision = cases[c].revision /\ m.precheck = cases[c].precheck
      /\ m.requested = cases[c].requested /\ m.estimated = cases[c].estimated
      /\ m.tolerance = DepthToleranceMm
  OBVIOUS
<1> HIDE DEF m
<1>6. rec \in CaseRecord
  BY <1>1, <1>3 DEF CaseRecord, Status
<1>7. cases'[c] = rec /\ rec # None
  BY <1>4, <1>6, RecordSaved
<1>8. /\ rec.core = cases[c].core /\ rec.status = "Authorized"
      /\ rec.revision = cases[c].revision /\ rec.requested = cases[c].requested
      /\ rec.estimated = cases[c].estimated /\ rec.precheck = cases[c].precheck
      /\ rec.findings = cases[c].findings /\ rec.authorization = m
  BY <1>1 DEF CaseRecord
<1>9. manifests'[c] = m
  BY <1>4 DEF TypeInv, TypeOK
<1> HIDE DEF rec
<1>10. SameCase(c)
  BY <1>1, <1>6, <1>7, <1>8 DEF SameCase
<1>11. FindingsClosedForCurrent(c)
  BY DEF Authorize
<1>12. QED
  BY <1>1, <1>3, <1>5, <1>7, <1>8, <1>9, <1>10, <1>11

LEMMA ExecuteReceiptEffect ==
    ASSUME TypeInv, NEW c \in Cases, NEW key \in Keys, NEW cut \in Cuts,
           ExecuteReceipt(c, key, cut)
    PROVE  /\ SameCase(c)
           /\ cases[c].status = "Authorized" /\ cases'[c].status = "Executed"
           /\ cases'[c].revision = cases[c].revision + 1
           /\ cases'[c].requested = cases[c].requested
           /\ cases'[c].estimated = cases[c].estimated
           /\ cases'[c].precheck = cases[c].precheck
           /\ cases'[c].findings = cases[c].findings
           /\ cases'[c].authorization = cases[c].authorization
           /\ cases'[c].execution = executions'[c]
           /\ executions'[c] \in Execution
           /\ executions'[c].key = key
           /\ executions'[c].authorization = manifests[c]
           /\ executions'[c].actual = cut.actual
           /\ \A j \in Keys : receipts'[<<c, j>>] =
                  IF j = key THEN executions'[c] ELSE receipts[<<c, j>>]
           /\ caseVersions'[c] = Append(caseVersions[c], Version(cases'[c]))
<1> DEFINE x   == [key |-> key, authorization |-> manifests[c], actual |-> cut.actual,
                   before |-> cut.before, sample |-> cut.sample, after |-> cut.after]
           rec == [cases[c] EXCEPT !.execution = x, !.status = "Executed",
                                   !.revision = @ + 1]
<1>1. cases[c] \in CaseRecord /\ cases[c] # None /\ cases[c].status = "Authorized"
  BY CaseType DEF ExecuteReceipt, TypeInv, InStatus
<1>2. cut \in Cut /\ manifests[c] \in Manifest
  BY InputAssumption DEF ExecuteReceipt, TypeInv, TypeOK
<1>3. x \in Execution
  BY <1>2 DEF Cut, Execution
<1>4. /\ SaveCaseVersion(c, rec)
      /\ executions' = [executions EXCEPT ![c] = x]
      /\ receipts' = [receipts EXCEPT ![<<c, key>>] = x]
  BY DEF ExecuteReceipt
<1>5. x.key = key /\ x.authorization = manifests[c] /\ x.actual = cut.actual
  OBVIOUS
<1> HIDE DEF x
<1>6. rec \in CaseRecord
  <2>1. cases[c].revision + 1 \in Revision
    BY <1>1 DEF CaseRecord, Revision
  <2>2. QED
    BY <1>1, <1>3, <2>1 DEF CaseRecord, Status
<1>7. cases'[c] = rec /\ rec # None
  BY <1>4, <1>6, RecordSaved DEF SaveCaseVersion
<1>8. /\ rec.core = cases[c].core /\ rec.status = "Executed"
      /\ rec.revision = cases[c].revision + 1 /\ rec.requested = cases[c].requested
      /\ rec.estimated = cases[c].estimated /\ rec.precheck = cases[c].precheck
      /\ rec.findings = cases[c].findings
      /\ rec.authorization = cases[c].authorization /\ rec.execution = x
  BY <1>1 DEF CaseRecord
<1>9. executions'[c] = x
  BY <1>4 DEF TypeInv, TypeOK
<1>10. \A j \in Keys : receipts'[<<c, j>>] = IF j = key THEN x ELSE receipts[<<c, j>>]
  BY <1>4 DEF TypeInv, TypeOK
<1> HIDE DEF rec
<1>11. SameCase(c)
  BY <1>1, <1>6, <1>7, <1>8 DEF SameCase
<1>12. caseVersions'[c] = Append(caseVersions[c], Version(cases'[c]))
  BY <1>4, <1>7, VersionSaved
<1>13. QED
  BY <1>1, <1>3, <1>5, <1>7, <1>8, <1>9, <1>10, <1>11, <1>12

\* A call that verifies appends one attempt under a key not yet in the ledger.
Verified(c, key, verdict) ==
    /\ key \notin UsedKeys(c)
    /\ \E a \in Attempt :
          /\ a.key = key /\ a.verdict = verdict
          /\ attempts'[c] = Append(attempts[c], a)

LEMMA RejectVerificationEffect ==
    ASSUME TypeInv, NEW c \in Cases, NEW key \in Keys, NEW seen \in Measurements,
           RejectVerification(c, key, seen)
    PROVE  /\ SameCase(c) /\ cases'[c] = cases[c]
           /\ cases[c].status = "Executed"
           /\ Verified(c, key, "Rejected")
<1> DEFINE a == Verification(c, key, seen, "Rejected")
<1>1. cases[c] \in CaseRecord /\ cases[c] # None /\ cases[c].status = "Executed"
  BY CaseType DEF RejectVerification, TypeInv, InStatus
<1>2. cases'[c] = cases[c] /\ key \notin UsedKeys(c)
      /\ attempts' = [attempts EXCEPT ![c] = Append(@, a)]
  BY DEF RejectVerification, caseVars
<1>3. a \in Attempt
  BY <1>1, VerificationType
<1>4. a.key = key /\ a.verdict = "Rejected"
  BY DEF Verification
<1> HIDE DEF a
<1>5. attempts'[c] = Append(attempts[c], a)
  BY <1>2 DEF TypeInv, TypeOK
<1>6. QED
  BY <1>1, <1>2, <1>3, <1>4, <1>5 DEF SameCase, Verified

LEMMA VerifyAndFreezeEffect ==
    ASSUME TypeInv, NEW c \in Cases, NEW key \in Keys, NEW seen \in Measurements,
           VerifyAndFreeze(c, key, seen)
    PROVE  /\ SameCase(c)
           /\ cases[c].status = "Executed" /\ cases'[c].status = "Frozen"
           /\ cases'[c].revision = cases[c].revision + 1
           /\ cases'[c].requested = cases[c].requested
           /\ cases'[c].estimated = cases[c].estimated
           /\ cases'[c].precheck = cases[c].precheck
           /\ cases'[c].findings = cases[c].findings
           /\ cases'[c].authorization = cases[c].authorization
           /\ cases'[c].execution = cases[c].execution
           /\ cases[c].execution \in Execution
           /\ Verified(c, key, "Passed")
           /\ caseVersions'[c] = Append(caseVersions[c], Version(cases'[c]))
           /\ \E cred \in Credential :
                 /\ cred.case = c /\ cred.core = cases[c].core
                 /\ cred.frozenRevision = cases'[c].revision
                 /\ cred.segments = cases[c].execution.actual
                 /\ cred.execution = cases[c].execution
                 /\ attempts'[c] = Append(attempts[c], cred.verification)
                 /\ cred.remaining = cases[c].execution.after
                 /\ cases'[c].credential = cred
                 /\ credentials' = credentials \cup {cred}
<1> DEFINE a    == Verification(c, key, seen, "Passed")
           cred == CredentialFor(c, a)
           rec  == [cases[c] EXCEPT !.status = "Frozen", !.revision = @ + 1,
                                    !.credential = cred]
<1>1. /\ cases[c] \in CaseRecord /\ cases[c] # None /\ c \in InStatus(Status)
      /\ cases[c].status = "Executed"
  BY CaseType DEF VerifyAndFreeze, TypeInv, InStatus
<1>2. cases[c].core \in Cores /\ cases[c].execution \in Execution
  BY <1>1 DEF VerifyAndFreeze, CaseRecord
<1>3. a \in Attempt /\ seen.remaining \in Int
  BY <1>1, VerificationType, InputAssumption DEF Measurement
<1>4. cases[c].revision + 1 \in Revision
  BY <1>1 DEF CaseRecord, Revision
<1>5. a.key = key /\ a.verdict = "Passed" /\ a.remaining = seen.remaining
  BY DEF Verification
<1>6. /\ SaveCaseVersion(c, rec)
      /\ key \notin UsedKeys(c)
      /\ seen.remaining = cases[c].execution.after
      /\ attempts' = [attempts EXCEPT ![c] = Append(@, a)]
      /\ credentials' = credentials \cup {cred}
  BY DEF VerifyAndFreeze, VerificationPasses
<1> HIDE DEF a
<1>7. /\ cred.case = c /\ cred.core = cases[c].core
      /\ cred.frozenRevision = cases[c].revision + 1
      /\ cred.segments = cases[c].execution.actual
      /\ cred.execution = cases[c].execution
      /\ cred.verification = a /\ cred.remaining = a.remaining
  BY DEF CredentialFor
<1>8. cred \in Credential
  <2>1. cases[c].execution.actual \in Segments
    BY <1>2 DEF Execution
  <2>2. QED
    BY <1>2, <1>3, <1>4, <1>5, <2>1 DEF CredentialFor, Credential
<1> HIDE DEF cred
<1>9. rec \in CaseRecord
  BY <1>1, <1>4, <1>8 DEF CaseRecord, Status
<1>10. cases'[c] = rec /\ rec # None
  BY <1>6, <1>9, RecordSaved DEF SaveCaseVersion
<1>11. /\ rec.core = cases[c].core /\ rec.status = "Frozen"
       /\ rec.revision = cases[c].revision + 1 /\ rec.requested = cases[c].requested
       /\ rec.estimated = cases[c].estimated /\ rec.precheck = cases[c].precheck
       /\ rec.findings = cases[c].findings
       /\ rec.authorization = cases[c].authorization
       /\ rec.execution = cases[c].execution /\ rec.credential = cred
  BY <1>1 DEF CaseRecord
<1>12. attempts'[c] = Append(attempts[c], a)
  BY <1>6 DEF TypeInv, TypeOK
<1> HIDE DEF rec
<1>13. SameCase(c)
  BY <1>1, <1>9, <1>10, <1>11 DEF SameCase
<1>14. Verified(c, key, "Passed")
  BY <1>3, <1>5, <1>6, <1>12 DEF Verified
<1>15. caseVersions'[c] = Append(caseVersions[c], Version(cases'[c]))
  BY <1>6, <1>10, VersionSaved
<1>16. \E k \in Credential :
          /\ k.case = c /\ k.core = cases[c].core
          /\ k.frozenRevision = cases'[c].revision
          /\ k.segments = cases[c].execution.actual
          /\ k.execution = cases[c].execution
          /\ attempts'[c] = Append(attempts[c], k.verification)
          /\ k.remaining = cases[c].execution.after
          /\ cases'[c].credential = k
          /\ credentials' = credentials \cup {k}
  BY <1>5, <1>6, <1>7, <1>8, <1>10, <1>11, <1>12
<1>17. QED
  BY <1>1, <1>2, <1>10, <1>11, <1>13, <1>14, <1>15, <1>16

-----------------------------------------------------------------------------
(***************************************************************************)
(* Cores: the histories and the reserves                                   *)
(***************************************************************************)

\* The step writes a new version of core k, with the next revision. Unless it
\* registers the core, it leaves what it holds no less than its reserve.
Advances(k) ==
    /\ cores'[k] \in CoreRecord /\ cores'[k] # None
    /\ coreVersions'[k] = Append(coreVersions[k], cores'[k])
    /\ cores'[k].revision = IF cores[k] = None THEN 1 ELSE cores[k].revision + 1
    /\ cores[k] # None => cores'[k].reserve <= cores'[k].available

CoreUntouched(k) == cores'[k] = cores[k] /\ coreVersions'[k] = coreVersions[k]

LEMMA CoreSaved ==
    ASSUME TypeInv, NEW k \in Cores, NEW rec \in CoreRecord, SaveCoreVersion(k, rec)
    PROVE  /\ cores'[k] = rec /\ rec # None
           /\ coreVersions'[k] = Append(coreVersions[k], rec)
           /\ \A j \in Cores \ {k} : CoreUntouched(j)
  BY NoneAssumption DEF SaveCoreVersion, CoreUntouched, TypeInv, TypeOK

LEMMA RegisterCoreEffect ==
    ASSUME TypeInv, NEW k \in Cores, NEW reg \in Registrations, RegisterCore(k, reg)
    PROVE  Advances(k) /\ \A j \in Cores \ {k} : CoreUntouched(j)
<1> DEFINE rec == [depth |-> reg.depth, initial |-> reg.initial,
                   available |-> reg.available, reserve |-> reg.reserve,
                   protected |-> Normalize(reg.protected), revision |-> 1]
<1>1. reg \in Registration
  BY InputAssumption
<1>2. Normalize(reg.protected) \in Segments
  BY <1>1, NormalizeType DEF Registration
<1>3. rec \in CoreRecord
  BY <1>1, <1>2 DEF Registration, CoreRecord, Revision
<1>4. SaveCoreVersion(k, rec) /\ cores[k] = None /\ rec.revision = 1
  BY DEF RegisterCore
<1> HIDE DEF rec
<1>5. QED
  BY <1>3, <1>4, CoreSaved DEF Advances

LEMMA ReviseCoreEffect ==
    ASSUME TypeInv, NEW k \in Cores, NEW form \in Constraints, ReviseCore(k, form)
    PROVE  Advances(k) /\ \A j \in Cores \ {k} : CoreUntouched(j)
<1> DEFINE next == [cores[k] EXCEPT !.reserve = form.reserve,
                                    !.protected = Normalize(form.protected)]
           rec  == [next EXCEPT !.revision = @ + 1]
<1>1. form \in Constraint
  BY InputAssumption
<1>2. Normalize(form.protected) \in Segments
  BY <1>1, NormalizeType DEF Constraint
<1>3. cores[k] \in CoreRecord /\ cores[k] # None
  BY DEF ReviseCore, TypeInv, TypeOK
<1>4. SaveCoreVersion(k, rec) /\ next.reserve <= cores[k].available
  BY DEF ReviseCore
<1>5. next \in CoreRecord /\ next.revision = cores[k].revision
      /\ next.available = cores[k].available
  BY <1>1, <1>2, <1>3 DEF Constraint, CoreRecord
<1> HIDE DEF next
<1>6. /\ rec \in CoreRecord /\ rec.revision = next.revision + 1
      /\ rec.available = next.available /\ rec.reserve = next.reserve
  <2>1. next.revision + 1 \in Revision
    BY <1>5 DEF CoreRecord, Revision
  <2>2. QED
    BY <1>5, <2>1 DEF CoreRecord
<1> HIDE DEF rec
<1>7. QED
  BY <1>3, <1>4, <1>5, <1>6, CoreSaved DEF Advances

LEMMA FreezeCoreEffect ==
    ASSUME TypeInv, NEW c \in Cases, NEW key \in Keys, NEW seen \in Measurements,
           VerifyAndFreeze(c, key, seen)
    PROVE  /\ cases[c].core \in Cores /\ Advances(cases[c].core)
           /\ \A j \in Cores \ {cases[c].core} : CoreUntouched(j)
<1> DEFINE k   == cases[c].core
           rec == [cores[k] EXCEPT !.available = seen.remaining, !.revision = @ + 1]
<1>1. c \in InStatus(Status)
  BY CaseType DEF VerifyAndFreeze, TypeInv
<1>2. k \in Cores /\ cores[k] \in CoreRecord /\ cores[k] # None
  BY <1>1, CoreType, NoneAssumption
<1>3. seen.remaining \in Int
  BY InputAssumption DEF Measurement
<1>4. SaveCoreVersion(k, rec) /\ seen.remaining >= cores[k].reserve
  BY DEF VerifyAndFreeze, VerificationPasses
<1> HIDE DEF k
<1>5. /\ rec \in CoreRecord /\ rec.revision = cores[k].revision + 1
      /\ rec.available = seen.remaining /\ rec.reserve = cores[k].reserve
  <2>1. cores[k].revision + 1 \in Revision
    BY <1>2 DEF CoreRecord, Revision
  <2>2. QED
    BY <1>2, <1>3, <2>1 DEF CoreRecord
<1> HIDE DEF rec
<1>6. Advances(k) /\ \A j \in Cores \ {k} : CoreUntouched(j)
  <2>1. cores[k].reserve \in Int
    BY <1>2 DEF CoreRecord
  <2>2. QED
    BY <1>2, <1>3, <1>4, <1>5, <2>1, CoreSaved DEF Advances
<1>7. QED
  BY <1>2, <1>6 DEF k

\* Only registrations, revisions and freezes write a core, one version each.
LEMMA StepOfCore ==
    ASSUME TypeInv, [Next]_vars, NEW k \in Cores
    PROVE  CoreUntouched(k) \/ Advances(k)
<1>1. ASSUME UNCHANGED coreVars PROVE CoreUntouched(k)
  BY <1>1 DEF coreVars, CoreUntouched
<1>2. CASE CoreStep
  BY <1>2, RegisterCoreEffect, ReviseCoreEffect DEF CoreStep
<1>3. CASE DraftStep
  BY <1>1, <1>3 DEF DraftStep, CreateCase, ReviseCase, Precheck, SubmitCase
<1>4. CASE ReviewStep
  BY <1>1, <1>4 DEF ReviewStep, ReturnCaseIssues, CloseFinding, Authorize
<1>5. CASE CutStep
  <2>1. ASSUME NEW c \in InStatus({"Executed"}), NEW key \in Keys,
               NEW seen \in Measurements, VerifyAndFreeze(c, key, seen)
        PROVE  CoreUntouched(k) \/ Advances(k)
    BY <2>1, FreezeCoreEffect DEF InStatus
  <2>2. QED
    BY <1>1, <1>5, <2>1 DEF CutStep, ExecuteReceipt, RejectVerification
<1>6. CASE UNCHANGED vars
  BY <1>1, <1>6 DEF vars, coreVars
<1>7. QED
  BY <1>2, <1>3, <1>4, <1>5, <1>6 DEF Next

\* A core keeps its reserve after it was registered: for any constraints,
\* cuts and measurements, in any order.
THEOREM ReservesKept == Spec => []ReserveKept
<1>1. Init => ReserveKept
  BY DEF Init, ReserveKept
<1>2. TypeInv /\ ReserveKept /\ [Next]_vars => ReserveKept'
  <2>1. SUFFICES ASSUME TypeInv, ReserveKept, [Next]_vars, NEW k \in Cores,
                        cores'[k] # None, cores'[k].revision > 1
                 PROVE  cores'[k].reserve <= cores'[k].available
    BY DEF ReserveKept
  <2>2. CASE CoreUntouched(k)
    BY <2>1, <2>2 DEF ReserveKept, CoreUntouched
  <2>3. CASE Advances(k)
    BY <2>1, <2>3 DEF Advances
  <2>4. QED
    BY <2>1, <2>2, <2>3, StepOfCore
<1>3. QED
  BY <1>1, <1>2, TypeInvariant, PTL DEF Spec

-----------------------------------------------------------------------------
(***************************************************************************)
(* Histories                                                               *)
(***************************************************************************)

\* The history of core k, and that of case c.
CoreGapless(k) ==
    /\ \A i \in DOMAIN coreVersions[k] : coreVersions[k][i].revision = i
    /\ cores[k] = (IF coreVersions[k] = <<>> THEN None
                   ELSE coreVersions[k][Len(coreVersions[k])])

CaseGapless(c) ==
    /\ \A i \in DOMAIN caseVersions[c] : caseVersions[c][i].revision = i
    /\ Len(caseVersions[c]) = cases[c].revision
    /\ caseVersions[c][cases[c].revision].requested = cases[c].requested
    /\ caseVersions[c][cases[c].revision].estimated = cases[c].estimated
    /\ IF cases[c].status \in Unversioned
       THEN caseVersions[c][cases[c].revision].status \in Editable
       ELSE caseVersions[c][cases[c].revision].status = cases[c].status

Histories ==
    /\ \A k \in Cores : CoreGapless(k)
    /\ \A c \in Cases : IF cases[c] = None THEN caseVersions[c] = <<>> ELSE CaseGapless(c)

LEMMA AppendAt ==
    ASSUME NEW S, NEW s \in Seq(S), NEW x \in S
    PROVE  /\ Append(s, x) \in Seq(S)
           /\ Len(Append(s, x)) = Len(s) + 1
           /\ DOMAIN Append(s, x) = 1..(Len(s) + 1) /\ DOMAIN s = 1..Len(s)
           /\ \A i \in 1..Len(s) : Append(s, x)[i] = s[i]
           /\ Append(s, x)[Len(s) + 1] = x
           /\ Len(s) \in Nat /\ Append(s, x) # <<>>
  OBVIOUS

LEMMA LastOfHistory ==
    ASSUME TypeInv, NEW k \in Cores, CoreGapless(k), cores[k] # None
    PROVE  /\ cores[k].revision = Len(coreVersions[k])
           /\ cores[k].revision \in DOMAIN coreVersions[k]
           /\ coreVersions[k][cores[k].revision] = cores[k]
<1>1. coreVersions[k] \in Seq(CoreRecord) /\ coreVersions[k] # <<>>
  BY DEF TypeInv, TypeOK, CoreGapless
<1>2. Len(coreVersions[k]) \in DOMAIN coreVersions[k]
  BY <1>1
<1>3. QED
  BY <1>2 DEF CoreGapless

LEMMA CoreHistoryStep ==
    ASSUME TypeInv, [Next]_vars, NEW k \in Cores, CoreGapless(k)
    PROVE  CoreGapless(k)'
<1>1. CASE CoreUntouched(k)
  BY <1>1 DEF CoreGapless, CoreUntouched
<1>2. CASE Advances(k)
  <2> DEFINE s == coreVersions[k]
             x == cores'[k]
  <2>1. s \in Seq(CoreRecord) /\ x \in CoreRecord /\ coreVersions'[k] = Append(s, x)
    BY <1>2 DEF Advances, TypeInv, TypeOK
  <2>2. x.revision = Len(s) + 1
    <3>1. CASE cores[k] = None
      <4>1. s = <<>>
        <5>1. s # <<>> => s[Len(s)] \in CoreRecord
          BY <2>1
        <5>2. QED
          BY <3>1, <5>1, NoneAssumption DEF CoreGapless
      <4>2. QED
        BY <1>2, <3>1, <4>1 DEF Advances
    <3>2. CASE cores[k] # None
      BY <1>2, <3>2, LastOfHistory DEF Advances
    <3>3. QED
      BY <3>1, <3>2
  <2> HIDE DEF s, x
  <2>3. \A i \in DOMAIN Append(s, x) : Append(s, x)[i].revision = i
    <3>1. \A i \in DOMAIN s : s[i].revision = i
      BY DEF CoreGapless, s
    <3>2. QED
      BY <2>1, <2>2, <3>1, AppendAt
  <2>4. Append(s, x)[Len(Append(s, x))] = x /\ Append(s, x) # <<>>
    BY <2>1, AppendAt
  <2>5. QED
    BY <2>1, <2>3, <2>4 DEF CoreGapless, x
<1>3. QED
  BY <1>1, <1>2, StepOfCore

\* A new version of the record continues the history.
LEMMA VersionContinues ==
    ASSUME TypeInv, NEW c \in Cases, cases'[c] \in CaseRecord,
           cases'[c].status \notin Unversioned,
           caseVersions'[c] = Append(caseVersions[c], Version(cases'[c])),
           \A i \in DOMAIN caseVersions[c] : caseVersions[c][i].revision = i,
           cases'[c].revision = Len(caseVersions[c]) + 1
    PROVE  CaseGapless(c)'
<1> DEFINE s == caseVersions[c]
           x == Version(cases'[c])
<1>1. s \in Seq(CaseVersion) /\ x \in CaseVersion
  BY VersionType DEF TypeInv, TypeOK
<1>2. /\ x.revision = cases'[c].revision /\ x.requested = cases'[c].requested
      /\ x.estimated = cases'[c].estimated /\ x.status = cases'[c].status
  BY DEF Version
<1> HIDE DEF s, x
<1>3. \A i \in DOMAIN s : s[i].revision = i
  BY DEF s
<1>4. caseVersions'[c] = Append(s, x) /\ cases'[c].revision = Len(s) + 1
  BY DEF s, x
<1>5. \A i \in DOMAIN Append(s, x) : Append(s, x)[i].revision = i
  BY <1>1, <1>2, <1>3, <1>4, AppendAt
<1>6. /\ Len(Append(s, x)) = cases'[c].revision
      /\ Append(s, x)[cases'[c].revision] = x
  BY <1>1, <1>4, AppendAt
<1>7. QED
  BY <1>2, <1>4, <1>5, <1>6 DEF CaseGapless

\* An action that leaves no version keeps the revision and the request.
LEMMA VersionStays ==
    ASSUME NEW c \in Cases, CaseGapless(c), caseVersions'[c] = caseVersions[c],
           cases'[c].revision = cases[c].revision,
           cases'[c].requested = cases[c].requested,
           cases'[c].estimated = cases[c].estimated,
           \/ cases'[c].status = cases[c].status
           \/ cases[c].status \in Editable /\ cases'[c].status = "Submitted"
           \/ cases[c].status = "Submitted" /\ cases'[c].status = "Authorized"
    PROVE  CaseGapless(c)'
  BY DEF CaseGapless, Editable, Unversioned

LEMMA CaseHistoryStep ==
    ASSUME TypeInv, Histories, NEW c \in Cases, ActsOn(c)
    PROVE  cases'[c] # None /\ CaseGapless(c)'
<1>1. ASSUME cases[c] # None, cases'[c] \in CaseRecord,
             cases'[c].status \notin Unversioned,
             cases'[c].revision = cases[c].revision + 1,
             caseVersions'[c] = Append(caseVersions[c], Version(cases'[c]))
      PROVE  CaseGapless(c)'
  BY <1>1, VersionContinues DEF Histories, CaseGapless
<1>2. cases[c] # None => CaseGapless(c)
  BY DEF Histories
<1>3. ASSUME NEW k \in Cores, NEW plan \in Plans, NEW digest \in Digests,
             CreateCase(c, k, plan, digest)
      PROVE  cases'[c] # None /\ CaseGapless(c)'
  <2>1. caseVersions[c] = <<>>
    BY <1>3, CreateCaseEffect DEF Histories
  <2>2. QED
    BY <1>3, <2>1, CreateCaseEffect, VersionContinues DEF Unversioned
<1>4. ASSUME NEW plan \in Plans, ReviseCase(c, plan)
      PROVE  cases'[c] # None /\ CaseGapless(c)'
  BY <1>1, <1>4, ReviseCaseEffect DEF SameCase, Editable, Unversioned
<1>5. CASE Precheck(c)
  <2>1. caseVersions'[c] = caseVersions[c]
    BY <1>5 DEF Precheck
  <2>2. QED
    BY <1>2, <1>5, <2>1, PrecheckEffect, VersionStays DEF SameCase
<1>6. CASE SubmitCase(c)
  <2>1. caseVersions'[c] = caseVersions[c]
    BY <1>6 DEF SubmitCase
  <2>2. QED
    BY <1>2, <1>6, <2>1, SubmitCaseEffect, VersionStays DEF SameCase
<1>7. ASSUME NEW issues \in SUBSET Issues, ReturnCaseIssues(c, issues)
      PROVE  cases'[c] # None /\ CaseGapless(c)'
  BY <1>1, <1>7, ReturnCaseIssuesEffect DEF SameCase, Unversioned
<1>8. ASSUME NEW f \in cases[c].findings, CloseFinding(c, f)
      PROVE  cases'[c] # None /\ CaseGapless(c)'
  <2>1. caseVersions'[c] = caseVersions[c]
    BY <1>8 DEF CloseFinding
  <2>2. QED
    BY <1>2, <1>8, <2>1, CloseFindingEffect, VersionStays DEF SameCase
<1>9. CASE Authorize(c)
  <2>1. caseVersions'[c] = caseVersions[c]
    BY <1>9 DEF Authorize
  <2>2. QED
    BY <1>2, <1>9, <2>1, AuthorizeEffect, VersionStays DEF SameCase
<1>10. ASSUME NEW key \in Keys, NEW cut \in Cuts, ExecuteReceipt(c, key, cut)
       PROVE  cases'[c] # None /\ CaseGapless(c)'
  BY <1>1, <1>10, ExecuteReceiptEffect DEF SameCase, Unversioned
<1>11. ASSUME NEW key \in Keys, NEW seen \in Measurements, RejectVerification(c, key, seen)
       PROVE  cases'[c] # None /\ CaseGapless(c)'
  <2>1. caseVersions'[c] = caseVersions[c]
    BY <1>11 DEF RejectVerification, caseVars
  <2>2. QED
    BY <1>2, <1>11, <2>1, RejectVerificationEffect, VersionStays DEF SameCase
<1>12. ASSUME NEW key \in Keys, NEW seen \in Measurements, VerifyAndFreeze(c, key, seen)
       PROVE  cases'[c] # None /\ CaseGapless(c)'
  BY <1>1, <1>12, VerifyAndFreezeEffect DEF SameCase, Unversioned
<1>13. QED
  BY <1>3, <1>4, <1>5, <1>6, <1>7, <1>8, <1>9, <1>10, <1>11, <1>12 DEF ActsOn

LEMMA HistoriesStep ==
    ASSUME TypeInv, Histories, [Next]_vars
    PROVE  Histories'
<1>1. \A k \in Cores : CoreGapless(k)'
  BY CoreHistoryStep DEF Histories
<1>2. ASSUME NEW c \in Cases
      PROVE  IF cases'[c] = None THEN caseVersions'[c] = <<>> ELSE CaseGapless(c)'
  <2>1. CASE Untouched(c)
    BY <2>1 DEF Untouched, Histories, CaseGapless
  <2>2. CASE ActsOn(c)
    BY <2>2, CaseHistoryStep
  <2>3. QED
    BY <2>1, <2>2, StepOfCase
<1>3. QED
  BY <1>1, <1>2 DEF Histories

LEMMA HistoriesInvariant == Spec => []Histories
<1>1. Init => Histories
  BY DEF Init, Histories, CoreGapless
<1>2. TypeInv /\ Histories /\ [Next]_vars => Histories'
  BY HistoriesStep
<1>3. QED
  BY <1>1, <1>2, TypeInvariant, PTL DEF Spec

\* One version per revision, in order and without a gap, and the newest one
\* is the record in force: whatever a revision, a return, a cut or a freeze
\* wrote can be found again under its number.
THEOREM HistoriesGapless == Spec => []HistoryGapless
<1>1. TypeInv /\ Histories => HistoryGapless
  <2>1. SUFFICES ASSUME TypeInv, Histories PROVE HistoryGapless
    OBVIOUS
  <2>2. \A c \in InStatus(Status) : CaseGapless(c) /\ Len(caseVersions[c]) = cases[c].revision
    BY <2>1 DEF Histories, InStatus, CaseGapless
  <2>3. \A k \in Cores : CoreGapless(k)
    BY <2>1 DEF Histories
  <2>4. QED
    BY <2>2, <2>3 DEF HistoryGapless, CoreGapless, CaseGapless
<1>2. QED
  BY <1>1, TypeInvariant, HistoriesInvariant, PTL

-----------------------------------------------------------------------------
(***************************************************************************)
(* The chain from the manifest to the receipt                              *)
(*                                                                         *)
(* That an authorized case's manifest, cut and receipt fit together rests  *)
(* on there being nothing of the kind before: a case is authorized once,   *)
(* because nothing returns it to its author afterwards.                    *)
(***************************************************************************)

Unauthorized == {"Draft", "Returned", "Submitted"}

\* c has yet to be authorized before the step, and after it, and none of its
\* evidence but its history and its findings is written.
Drafting(c) ==
    /\ cases[c] = None \/ cases[c].status \in Unauthorized
    /\ cases'[c] # None /\ cases'[c].status \in Unauthorized
    /\ manifests'[c] = manifests[c] /\ executions'[c] = executions[c]
    /\ \A key \in Keys : receipts'[<<c, key>>] = receipts[<<c, key>>]
    /\ attempts'[c] = attempts[c]
    /\ credentials' = credentials

LEMMA Phases ==
    ASSUME TypeInv, NEW c \in Cases, ActsOn(c)
    PROVE  \/ Drafting(c)
           \/ Authorize(c)
           \/ \E key \in Keys, cut \in Cuts : ExecuteReceipt(c, key, cut)
           \/ \E key \in Keys, seen \in Measurements : RejectVerification(c, key, seen)
           \/ \E key \in Keys, seen \in Measurements : VerifyAndFreeze(c, key, seen)
<1> USE DEF Unauthorized, Editable, Returnable, SameCase
<1>1. ASSUME UNCHANGED <<manifests, executions, receipts, attempts, credentials>>,
             cases[c] = None \/ cases[c].status \in Unauthorized,
             cases'[c] # None, cases'[c].status \in Unauthorized
      PROVE  Drafting(c)
  BY <1>1 DEF Drafting
<1>2. ASSUME NEW k \in Cores, NEW plan \in Plans, NEW digest \in Digests,
             CreateCase(c, k, plan, digest)
      PROVE  Drafting(c)
  BY <1>1, <1>2, CreateCaseEffect DEF CreateCase
<1>3. ASSUME NEW plan \in Plans, ReviseCase(c, plan)
      PROVE  Drafting(c)
  BY <1>1, <1>3, ReviseCaseEffect DEF ReviseCase
<1>4. CASE Precheck(c)
  BY <1>1, <1>4, PrecheckEffect DEF Precheck
<1>5. CASE SubmitCase(c)
  BY <1>1, <1>5, SubmitCaseEffect DEF SubmitCase
<1>6. ASSUME NEW issues \in SUBSET Issues, ReturnCaseIssues(c, issues)
      PROVE  Drafting(c)
  BY <1>1, <1>6, ReturnCaseIssuesEffect DEF ReturnCaseIssues
<1>7. ASSUME NEW f \in cases[c].findings, CloseFinding(c, f)
      PROVE  Drafting(c)
  BY <1>1, <1>7, CloseFindingEffect DEF CloseFinding
<1>8. QED
  BY <1>2, <1>3, <1>4, <1>5, <1>6, <1>7 DEF ActsOn

Blank(c) ==
    /\ manifests[c] = None /\ executions[c] = None
    /\ \A key \in Keys : receipts[<<c, key>>] = None

\* The case rests on its manifest, n revisions later.
ManifestLink(c, n) ==
    LET m == manifests[c]
    IN /\ m # None
       /\ cases[c].authorization = m
       /\ cases[c].revision = m.caseRevision + n
       /\ m.precheck = cases[c].precheck
       /\ m.requested = cases[c].requested /\ m.estimated = cases[c].estimated

\* The cut follows the manifest, and has the one receipt there is.
CutLink(c) ==
    LET x == executions[c]
    IN /\ x # None
       /\ x = cases[c].execution
       /\ x.authorization = manifests[c]
       /\ \A key \in Keys : receipts[<<c, key>>] = IF x.key = key THEN x ELSE None

ChainOf(c) ==
    /\ cases[c] = None \/ cases[c].status \in Unauthorized => Blank(c)
    /\ cases[c] # None =>
          /\ cases[c].status = "Authorized" =>
                /\ ManifestLink(c, 0)
                /\ executions[c] = None
                /\ \A key \in Keys : receipts[<<c, key>>] = None
          /\ cases[c].status = "Executed" => ManifestLink(c, 1) /\ CutLink(c)
          /\ cases[c].status = "Frozen" => ManifestLink(c, 2) /\ CutLink(c)

Chains == \A c \in Cases : ChainOf(c)

LEMMA ChainStep ==
    ASSUME TypeInv, NEW c \in Cases, ChainOf(c), ActsOn(c)
    PROVE  ChainOf(c)'
<1>1. CASE Drafting(c)
  BY <1>1 DEF Drafting, ChainOf, Blank, Unauthorized
<1>2. CASE Authorize(c)
  <2>1. Blank(c)
    BY <1>2, AuthorizeEffect DEF ChainOf, Unauthorized, SameCase
  <2>2. executions' = executions /\ receipts' = receipts
    BY <1>2 DEF Authorize
  <2>3. manifests'[c] # None /\ cases[c].revision \in Nat
    BY <1>2, AuthorizeEffect, NoneAssumption DEF SameCase, CaseRecord, Revision
  <2>4. ManifestLink(c, 0)'
    BY <1>2, <2>3, AuthorizeEffect DEF ManifestLink
  <2>5. cases'[c] # None /\ cases'[c].status = "Authorized"
    BY <1>2, AuthorizeEffect DEF SameCase
  <2>6. QED
    BY <2>1, <2>2, <2>4, <2>5 DEF ChainOf, Blank, Unauthorized
<1>3. ASSUME NEW key \in Keys, NEW cut \in Cuts, ExecuteReceipt(c, key, cut)
      PROVE  ChainOf(c)'
  <2>1. /\ ManifestLink(c, 0) /\ executions[c] = None
        /\ \A j \in Keys : receipts[<<c, j>>] = None
    BY <1>3, ExecuteReceiptEffect DEF ChainOf, SameCase
  <2>2. manifests' = manifests /\ manifests[c] \in Manifest
    BY <1>3, <2>1 DEF ExecuteReceipt, ManifestLink, TypeInv, TypeOK
  <2>3. manifests[c].caseRevision \in Nat
    BY <2>2 DEF Manifest, Revision
  <2>4. ManifestLink(c, 1)'
    BY <1>3, <2>1, <2>2, <2>3, ExecuteReceiptEffect DEF ManifestLink
  <2>5. executions'[c] # None
    BY <1>3, ExecuteReceiptEffect, NoneAssumption
  <2>6. CutLink(c)'
    BY <1>3, <2>1, <2>2, <2>5, ExecuteReceiptEffect DEF CutLink
  <2>7. cases'[c] # None /\ cases'[c].status = "Executed"
    BY <1>3, ExecuteReceiptEffect DEF SameCase
  <2>8. QED
    BY <2>4, <2>6, <2>7 DEF ChainOf, Unauthorized
<1>4. ASSUME NEW key \in Keys, NEW seen \in Measurements, RejectVerification(c, key, seen)
      PROVE  ChainOf(c)'
  BY <1>4 DEF RejectVerification, caseVars, ChainOf, Blank, ManifestLink, CutLink
<1>5. ASSUME NEW key \in Keys, NEW seen \in Measurements, VerifyAndFreeze(c, key, seen)
      PROVE  ChainOf(c)'
  <2>1. ManifestLink(c, 1) /\ CutLink(c)
    BY <1>5, VerifyAndFreezeEffect DEF ChainOf, SameCase
  <2>2. UNCHANGED <<manifests, executions, receipts>> /\ manifests[c] \in Manifest
    BY <1>5, <2>1 DEF VerifyAndFreeze, ManifestLink, TypeInv, TypeOK
  <2>3. manifests[c].caseRevision \in Nat
    BY <2>2 DEF Manifest, Revision
  <2>4. ManifestLink(c, 2)'
    BY <1>5, <2>1, <2>2, <2>3, VerifyAndFreezeEffect DEF ManifestLink
  <2>5. CutLink(c)'
    BY <1>5, <2>1, <2>2, VerifyAndFreezeEffect DEF CutLink
  <2>6. cases'[c] # None /\ cases'[c].status = "Frozen"
    BY <1>5, VerifyAndFreezeEffect DEF SameCase
  <2>7. QED
    BY <2>4, <2>5, <2>6 DEF ChainOf, Unauthorized
<1>6. QED
  BY <1>1, <1>2, <1>3, <1>4, <1>5, Phases

LEMMA ChainsInvariant == Spec => []Chains
<1>1. Init => Chains
  BY DEF Init, Chains, ChainOf, Blank
<1>2. TypeInv /\ Chains /\ [Next]_vars => Chains'
  <2>1. SUFFICES ASSUME TypeInv, Chains, [Next]_vars, NEW c \in Cases
                 PROVE  ChainOf(c)'
    BY DEF Chains
  <2>2. CASE Untouched(c)
    BY <2>1, <2>2 DEF Untouched, Chains, ChainOf, Blank, ManifestLink, CutLink
  <2>3. CASE ActsOn(c)
    BY <2>1, <2>3, ChainStep DEF Chains
  <2>4. QED
    BY <2>1, <2>2, <2>3, StepOfCase
<1>3. QED
  BY <1>1, <1>2, TypeInvariant, PTL DEF Spec

\* From the authorization on, a case, its manifest, its cut and the receipt
\* of that cut stay tied to each other and to the precheck that passed: the
\* refusal AUTHORIZATION_INVALID of ExecuteReceipt is never met.
THEOREM ChainUnbroken == Spec => []AuthorizationChain
<1>1. TypeInv /\ Chains => AuthorizationChain
  <2>1. SUFFICES ASSUME TypeInv, Chains PROVE AuthorizationChain
    OBVIOUS
  <2>2. ASSUME NEW c \in InStatus({"Authorized", "Executed", "Frozen"})
        PROVE  LET m     == manifests[c]
                   steps == CASE cases[c].status = "Authorized" -> 0
                              [] cases[c].status = "Executed"   -> 1
                              [] cases[c].status = "Frozen"     -> 2
               IN /\ m # None
                  /\ cases[c].authorization = m
                  /\ cases[c].revision = m.caseRevision + steps
                  /\ m.precheck = cases[c].precheck
                  /\ m.requested = cases[c].requested
                  /\ m.estimated = cases[c].estimated
                  /\ IF steps = 0 THEN executions[c] = None
                     ELSE /\ executions[c] = cases[c].execution
                          /\ executions[c].authorization = m
                  /\ \A key \in Keys :
                        receipts[<<c, key>>] =
                            IF executions[c] # None /\ executions[c].key = key
                            THEN executions[c] ELSE None
    <3>1. ChainOf(c) /\ cases[c] # None
      BY <2>1 DEF Chains, InStatus
    <3>2. CASE cases[c].status = "Authorized"
      BY <3>1, <3>2 DEF ChainOf, ManifestLink
    <3>3. CASE cases[c].status = "Executed"
      BY <3>1, <3>3 DEF ChainOf, ManifestLink, CutLink
    <3>4. CASE cases[c].status = "Frozen"
      BY <3>1, <3>4 DEF ChainOf, ManifestLink, CutLink
    <3>5. QED
      BY <3>2, <3>3, <3>4 DEF InStatus
  <2>3. QED
    BY <2>2 DEF AuthorizationChain
<1>2. QED
  BY <1>1, TypeInvariant, ChainsInvariant, PTL

-----------------------------------------------------------------------------
(***************************************************************************)
(* The verification ledger                                                 *)
(***************************************************************************)

LedgerOf(c) ==
    LET ledger == attempts[c]
        frozen == cases[c] # None /\ cases[c].status = "Frozen"
    IN /\ \A i \in DOMAIN ledger :
             ledger[i].verdict = "Passed" <=> frozen /\ i = Len(ledger)
       /\ frozen => ledger # <<>>
       /\ \A i, j \in DOMAIN ledger : i # j => ledger[i].key # ledger[j].key
       /\ ledger # <<>> =>
             cases[c] # None /\ cases[c].status \in {"Executed", "Frozen"}

Ledgers == \A c \in Cases : LedgerOf(c)

\* An attempt under a new key keeps the keys apart.
LEMMA KeysStayApart ==
    ASSUME TypeInv, NEW c \in Cases, NEW key \in Keys, NEW a \in Attempt,
           key \notin UsedKeys(c), a.key = key,
           \A i, j \in DOMAIN attempts[c] : i # j => attempts[c][i].key # attempts[c][j].key,
           NEW s, s = Append(attempts[c], a)
    PROVE  \A i, j \in DOMAIN s : i # j => s[i].key # s[j].key
<1>1. attempts[c] \in Seq(Attempt)
  BY DEF TypeInv, TypeOK
<1>2. \A i \in DOMAIN attempts[c] : attempts[c][i].key # key
  BY DEF UsedKeys
<1>3. QED
  BY <1>1, <1>2, AppendAt

LEMMA LedgerStep ==
    ASSUME TypeInv, NEW c \in Cases, LedgerOf(c), ActsOn(c)
    PROVE  LedgerOf(c)'
<1>1. CASE Drafting(c)
  BY <1>1 DEF Drafting, LedgerOf, Unauthorized
<1>2. CASE Authorize(c)
  <2>1. attempts' = attempts
    BY <1>2 DEF Authorize
  <2>2. QED
    BY <1>2, <2>1, AuthorizeEffect DEF LedgerOf, SameCase
<1>3. ASSUME NEW key \in Keys, NEW cut \in Cuts, ExecuteReceipt(c, key, cut)
      PROVE  LedgerOf(c)'
  <2>1. attempts' = attempts
    BY <1>3 DEF ExecuteReceipt
  <2>2. QED
    BY <1>3, <2>1, ExecuteReceiptEffect DEF LedgerOf, SameCase
<1>4. ASSUME NEW key \in Keys, NEW verdict \in {"Rejected", "Passed"},
             Verified(c, key, verdict),
             SameCase(c), cases[c].status = "Executed",
             cases'[c].status = IF verdict = "Passed" THEN "Frozen" ELSE "Executed"
      PROVE  LedgerOf(c)'
  <2>1. PICK a \in Attempt : /\ a.key = key /\ a.verdict = verdict
                             /\ attempts'[c] = Append(attempts[c], a)
    BY <1>4 DEF Verified
  <2>2. attempts[c] \in Seq(Attempt)
    BY DEF TypeInv, TypeOK
  <2>3. \A i \in DOMAIN attempts[c] : attempts[c][i].verdict # "Passed"
    BY <1>4 DEF LedgerOf
  <2>4. \A i \in DOMAIN attempts'[c] :
            attempts'[c][i].verdict = "Passed"
                <=> verdict = "Passed" /\ i = Len(attempts'[c])
    BY <2>1, <2>2, <2>3, AppendAt
  <2>5. \A i, j \in DOMAIN attempts'[c] :
            i # j => attempts'[c][i].key # attempts'[c][j].key
    BY <1>4, <2>1, KeysStayApart DEF LedgerOf, Verified
  <2>6. attempts'[c] # <<>>
    BY <2>1, <2>2, AppendAt
  <2>7. QED
    BY <1>4, <2>4, <2>5, <2>6 DEF LedgerOf, SameCase
<1>5. ASSUME NEW key \in Keys, NEW seen \in Measurements, RejectVerification(c, key, seen)
      PROVE  LedgerOf(c)'
  BY <1>4, <1>5, RejectVerificationEffect
<1>6. ASSUME NEW key \in Keys, NEW seen \in Measurements, VerifyAndFreeze(c, key, seen)
      PROVE  LedgerOf(c)'
  BY <1>4, <1>6, VerifyAndFreezeEffect
<1>7. QED
  BY <1>1, <1>2, <1>3, <1>5, <1>6, Phases

LEMMA LedgersInvariant == Spec => []Ledgers
<1>1. Init => Ledgers
  BY DEF Init, Ledgers, LedgerOf
<1>2. TypeInv /\ Ledgers /\ [Next]_vars => Ledgers'
  <2>1. SUFFICES ASSUME TypeInv, Ledgers, [Next]_vars, NEW c \in Cases
                 PROVE  LedgerOf(c)'
    BY DEF Ledgers
  <2>2. CASE Untouched(c)
    BY <2>1, <2>2 DEF Untouched, Ledgers, LedgerOf
  <2>3. CASE ActsOn(c)
    BY <2>1, <2>3, LedgerStep DEF Ledgers
  <2>4. QED
    BY <2>1, <2>2, <2>3, StepOfCase
<1>3. QED
  BY <1>1, <1>2, TypeInvariant, PTL DEF Spec

\* A case is frozen exactly when its ledger ends with a passed attempt, no
\* earlier attempt passed, and no key stands for two attempts, whatever keys
\* the verifiers send in whatever order.
THEOREM LedgerMatches == Spec => []LedgerMatchesStatus
<1>1. TypeInv /\ Ledgers => LedgerMatchesStatus
  <2>1. SUFFICES ASSUME TypeInv, Ledgers, NEW c \in Cases
                 PROVE  LET ledger == attempts[c]
                            passed == {i \in DOMAIN ledger : ledger[i].verdict = "Passed"}
                        IN /\ passed = IF c \in InStatus({"Frozen"}) THEN {Len(ledger)} ELSE {}
                           /\ \A i, j \in DOMAIN ledger :
                                 i # j => ledger[i].key # ledger[j].key
                           /\ ledger # <<>> => c \in InStatus({"Executed", "Frozen"})
    BY DEF LedgerMatchesStatus
  <2>2. LedgerOf(c)
    BY <2>1 DEF Ledgers
  <2>3. attempts[c] # <<>> => Len(attempts[c]) \in DOMAIN attempts[c]
    <3>1. attempts[c] \in Seq(Attempt)
      BY <2>1 DEF TypeInv, TypeOK
    <3>2. QED
      BY <3>1
  <2>4. CASE c \in InStatus({"Frozen"})
    BY <2>2, <2>3, <2>4 DEF LedgerOf, InStatus
  <2>5. CASE c \notin InStatus({"Frozen"})
    BY <2>1, <2>2, <2>5 DEF LedgerOf, InStatus
  <2>6. QED
    BY <2>4, <2>5
<1>2. QED
  BY <1>1, TypeInvariant, LedgersInvariant, PTL

-----------------------------------------------------------------------------
(***************************************************************************)
(* Credentials                                                             *)
(***************************************************************************)

\* What a credential attests is its case's, frozen for good.
Attests(cred) ==
    LET c == cred.case
    IN /\ cases[c] # None /\ cases[c].status = "Frozen"
       /\ cases[c].credential = cred
       /\ cases[c].core = cred.core
       /\ cases[c].revision = cred.frozenRevision
       /\ cred.segments = cases[c].execution.actual
       /\ cred.execution = cases[c].execution
       /\ cred.verification = attempts[c][Len(attempts[c])]
       /\ cred.remaining = cred.execution.after

CredentialsAttest ==
    /\ \A cred \in credentials : Attests(cred)
    /\ \A c \in InStatus({"Frozen"}) : cases[c].credential \in credentials

\* No handler acts on a frozen case.
LEMMA FrozenIsFinal ==
    ASSUME TypeInv, [Next]_vars, NEW c \in Cases, cases[c] # None,
           cases[c].status = "Frozen"
    PROVE  Untouched(c)
<1>1. ~ActsOn(c)
  <2>1. ASSUME ActsOn(c) PROVE FALSE
    BY <2>1, Phases, AuthorizeEffect, ExecuteReceiptEffect, RejectVerificationEffect,
       VerifyAndFreezeEffect DEF Drafting, Unauthorized
  <2>2. QED
    BY <2>1
<1>2. QED
  BY <1>1, StepOfCase

\* Only a freeze issues a credential, one that attests its case.
LEMMA NewCredential ==
    ASSUME TypeInv, [Next]_vars, NEW cred \in credentials' \ credentials
    PROVE  Attests(cred)'
<1>1. ASSUME UNCHANGED credentials PROVE FALSE
  BY <1>1
<1>2. CASE CoreStep
  BY <1>1, <1>2 DEF CoreStep, RegisterCore, ReviseCore
<1>3. CASE DraftStep
  BY <1>1, <1>3 DEF DraftStep, CreateCase, ReviseCase, Precheck, SubmitCase
<1>4. CASE ReviewStep
  BY <1>1, <1>4 DEF ReviewStep, ReturnCaseIssues, CloseFinding, Authorize
<1>5. ASSUME NEW c \in Cases, NEW key \in Keys, NEW seen \in Measurements,
             VerifyAndFreeze(c, key, seen)
      PROVE  Attests(cred)'
  <2>1. PICK k \in Credential :
            /\ k.case = c /\ k.core = cases[c].core
            /\ k.frozenRevision = cases'[c].revision
            /\ k.segments = cases[c].execution.actual
            /\ k.execution = cases[c].execution
            /\ attempts'[c] = Append(attempts[c], k.verification)
            /\ k.remaining = cases[c].execution.after
            /\ cases'[c].credential = k
            /\ credentials' = credentials \cup {k}
    BY <1>5, VerifyAndFreezeEffect
  <2>2. cred = k
    BY <2>1
  <2>3. attempts'[c][Len(attempts'[c])] = k.verification
    <3>1. attempts[c] \in Seq(Attempt) /\ k.verification \in Attempt
      BY DEF TypeInv, TypeOK, Credential
    <3>2. QED
      BY <2>1, <3>1, AppendAt
  <2>4. QED
    BY <1>5, <2>1, <2>2, <2>3, VerifyAndFreezeEffect DEF Attests, SameCase
<1>6. CASE CutStep
  BY <1>1, <1>5, <1>6 DEF CutStep, ExecuteReceipt, RejectVerification, InStatus
<1>7. CASE UNCHANGED vars
  BY <1>1, <1>7 DEF vars
<1>8. QED
  BY <1>2, <1>3, <1>4, <1>6, <1>7 DEF Next

LEMMA CredentialsKept ==
    ASSUME [Next]_vars
    PROVE  credentials \subseteq credentials'
<1>1. CASE CoreStep
  BY <1>1 DEF CoreStep, RegisterCore, ReviseCore
<1>2. CASE DraftStep
  BY <1>2 DEF DraftStep, CreateCase, ReviseCase, Precheck, SubmitCase
<1>3. CASE ReviewStep
  BY <1>3 DEF ReviewStep, ReturnCaseIssues, CloseFinding, Authorize
<1>4. CASE CutStep
  BY <1>4 DEF CutStep, ExecuteReceipt, RejectVerification, VerifyAndFreeze
<1>5. QED
  BY <1>1, <1>2, <1>3, <1>4 DEF Next, vars

LEMMA CredentialsAttestInvariant == Spec => []CredentialsAttest
<1>1. Init => CredentialsAttest
  BY DEF Init, CredentialsAttest, InStatus
<1>2. TypeInv /\ CredentialsAttest /\ [Next]_vars => CredentialsAttest'
  <2>1. SUFFICES ASSUME TypeInv, CredentialsAttest, [Next]_vars
                 PROVE  CredentialsAttest'
    OBVIOUS
  <2>2. ASSUME NEW cred \in credentials', cred \in credentials
        PROVE  Attests(cred)'
    <3>1. Attests(cred) /\ cred.case \in Cases
      BY <2>1, <2>2 DEF CredentialsAttest, TypeInv, TypeOK, Credential
    <3>2. Untouched(cred.case)
      BY <2>1, <3>1, FrozenIsFinal DEF Attests
    <3>3. QED
      BY <3>1, <3>2 DEF Attests, Untouched
  <2>3. ASSUME NEW c \in Cases, cases'[c] # None, cases'[c].status = "Frozen"
        PROVE  cases'[c].credential \in credentials'
    <3>1. CASE Untouched(c)
      <4>1. c \in InStatus({"Frozen"}) /\ cases'[c] = cases[c]
        BY <2>3, <3>1 DEF Untouched, InStatus
      <4>2. QED
        BY <2>1, <4>1, CredentialsKept DEF CredentialsAttest
    <3>2. CASE ActsOn(c)
      BY <2>1, <2>3, <3>2, Phases, AuthorizeEffect, ExecuteReceiptEffect,
         RejectVerificationEffect, VerifyAndFreezeEffect DEF Drafting, Unauthorized
    <3>3. QED
      BY <2>1, <3>1, <3>2, StepOfCase
  <2>4. QED
    BY <2>1, <2>2, <2>3, NewCredential DEF CredentialsAttest, InStatus
<1>3. QED
  BY <1>1, <1>2, TypeInvariant, PTL DEF Spec

\* A credential verifies for ever after it was issued: VerifyCredential never
\* finds a mismatch, and what it attests is the last measurement on record. And
\* no freeze forgets to issue one.
THEOREM CredentialsHold == Spec => []CredentialsVerify
<1>1. TypeInv /\ Chains /\ CredentialsAttest => CredentialsVerify
  <2>1. SUFFICES ASSUME TypeInv, Chains, CredentialsAttest, NEW cred \in credentials
                 PROVE  /\ Mismatches(cred) = {}
                        /\ cred.verification = attempts[cred.case][Len(attempts[cred.case])]
                        /\ cred.remaining = cred.execution.after
    BY DEF CredentialsVerify, CredentialsAttest
  <2>2. Attests(cred) /\ cred.case \in Cases
    BY <2>1 DEF CredentialsAttest, TypeInv, TypeOK, Credential
  <2>3. executions[cred.case] # None /\ executions[cred.case] = cases[cred.case].execution
    BY <2>1, <2>2 DEF Chains, ChainOf, CutLink, Attests
  <2>4. Mismatches(cred) = {}
    BY <2>2, <2>3 DEF Mismatches, Attests
  <2>5. QED
    BY <2>2, <2>4 DEF Attests
<1>2. QED
  BY <1>1, TypeInvariant, ChainsInvariant, CredentialsAttestInvariant, PTL

-----------------------------------------------------------------------------
(***************************************************************************)
(* Evidence is only added                                                  *)
(***************************************************************************)

LEMMA SequenceExtendsItself ==
    ASSUME NEW S, NEW s \in Seq(S)
    PROVE  Extends(s, s)
  BY SubSeqFull DEF Extends

LEMMA AppendExtends ==
    ASSUME NEW S, NEW s \in Seq(S), NEW x \in S
    PROVE  Extends(s, Append(s, x))
<1> DEFINE t == SubSeq(Append(s, x), 1, Len(s))
<1>1. Len(s) \in Nat /\ \A i \in 1..Len(s) : Append(s, x)[i] = s[i] /\ s[i] \in S
  BY AppendAt
<1>2. \A i \in 1..Len(s) : Append(s, x)[i] \in S
  BY <1>1
<1>3. /\ t \in Seq(S)
      /\ Len(t) = IF 1 <= Len(s) THEN Len(s) - 1 + 1 ELSE 0
      /\ \A i \in 1..(Len(s) - 1 + 1) : t[i] = Append(s, x)[1 + i - 1]
  BY <1>1, <1>2, SubSeqProperties
<1>4. Len(t) = Len(s)
  BY <1>1, <1>3
<1>5. \A i \in 1..Len(t) : t[i] = s[i]
  BY <1>1, <1>3, <1>4
<1>6. t = s
  BY <1>3, <1>4, <1>5, SeqEqual
<1>7. Len(s) <= Len(Append(s, x))
  BY <1>1, AppendAt
<1>8. QED
  BY <1>6, <1>7 DEF Extends

LEMMA CoreHistoryExtends ==
    ASSUME TypeInv, [Next]_vars, NEW k \in Cores
    PROVE  Extends(coreVersions[k], coreVersions'[k])
<1>1. coreVersions[k] \in Seq(CoreRecord)
  BY DEF TypeInv, TypeOK
<1>2. CASE CoreUntouched(k)
  BY <1>1, <1>2, SequenceExtendsItself DEF CoreUntouched
<1>3. CASE Advances(k)
  BY <1>1, <1>3, AppendExtends DEF Advances
<1>4. QED
  BY <1>2, <1>3, StepOfCore

\* What is on record for a case stays on record.
EvidenceKept(c) ==
    /\ Extends(caseVersions[c], caseVersions'[c])
    /\ Extends(attempts[c], attempts'[c])
    /\ findingEvents[c] \subseteq findingEvents'[c]
    /\ manifests[c] \in {None, manifests'[c]}
    /\ executions[c] \in {None, executions'[c]}
    /\ \A key \in Keys : receipts[<<c, key>>] \in {None, receipts'[<<c, key>>]}

LEMMA CaseHistoryExtends ==
    ASSUME TypeInv, NEW c \in Cases, ActsOn(c)
    PROVE  Extends(caseVersions[c], caseVersions'[c])
<1>1. caseVersions[c] \in Seq(CaseVersion)
  BY DEF TypeInv, TypeOK
<1>2. ASSUME caseVersions'[c] = caseVersions[c]
      PROVE  Extends(caseVersions[c], caseVersions'[c])
  BY <1>1, <1>2, SequenceExtendsItself
<1>3. ASSUME cases'[c] \in CaseRecord,
             caseVersions'[c] = Append(caseVersions[c], Version(cases'[c]))
      PROVE  Extends(caseVersions[c], caseVersions'[c])
  BY <1>1, <1>3, VersionType, AppendExtends
<1>4. CASE Precheck(c) \/ SubmitCase(c) \/ Authorize(c)
  BY <1>2, <1>4 DEF Precheck, SubmitCase, Authorize
<1>5. CASE \E f \in cases[c].findings : CloseFinding(c, f)
  BY <1>2, <1>5 DEF CloseFinding
<1>6. CASE \E key \in Keys, seen \in Measurements : RejectVerification(c, key, seen)
  BY <1>2, <1>6 DEF RejectVerification, caseVars
<1>7. CASE \E k \in Cores, plan \in Plans, digest \in Digests : CreateCase(c, k, plan, digest)
  BY <1>3, <1>7, CreateCaseEffect
<1>8. CASE \E plan \in Plans : ReviseCase(c, plan)
  BY <1>3, <1>8, ReviseCaseEffect DEF SameCase
<1>9. CASE \E issues \in SUBSET Issues : ReturnCaseIssues(c, issues)
  BY <1>3, <1>9, ReturnCaseIssuesEffect DEF SameCase
<1>10. CASE \E key \in Keys, cut \in Cuts : ExecuteReceipt(c, key, cut)
  BY <1>3, <1>10, ExecuteReceiptEffect DEF SameCase
<1>11. CASE \E key \in Keys, seen \in Measurements : VerifyAndFreeze(c, key, seen)
  BY <1>3, <1>11, VerifyAndFreezeEffect DEF SameCase
<1>12. QED
  BY <1>4, <1>5, <1>6, <1>7, <1>8, <1>9, <1>10, <1>11 DEF ActsOn

LEMMA EventsKept ==
    ASSUME TypeInv, NEW c \in Cases, ActsOn(c)
    PROVE  findingEvents[c] \subseteq findingEvents'[c]
<1>1. CASE \E issues \in SUBSET Issues : ReturnCaseIssues(c, issues)
  BY <1>1, ReturnCaseIssuesEffect
<1>2. CASE \E f \in cases[c].findings : CloseFinding(c, f)
  BY <1>2, CloseFindingEffect
<1>3. findingEvents' = findingEvents => findingEvents[c] \subseteq findingEvents'[c]
  OBVIOUS
<1>4. QED
  BY <1>1, <1>2, <1>3 DEF ActsOn, CreateCase, ReviseCase, Precheck, SubmitCase,
     Authorize, ExecuteReceipt, RejectVerification, VerifyAndFreeze

LEMMA AttemptsExtend ==
    ASSUME TypeInv, NEW c \in Cases, ActsOn(c)
    PROVE  Extends(attempts[c], attempts'[c])
<1>1. attempts[c] \in Seq(Attempt)
  BY DEF TypeInv, TypeOK
<1>2. attempts'[c] = attempts[c] => Extends(attempts[c], attempts'[c])
  BY <1>1, SequenceExtendsItself
<1>3. ASSUME NEW key \in Keys, NEW verdict, Verified(c, key, verdict)
      PROVE  Extends(attempts[c], attempts'[c])
  BY <1>1, <1>3, AppendExtends DEF Verified
<1>4. CASE Drafting(c)
  BY <1>2, <1>4 DEF Drafting
<1>5. CASE Authorize(c)
  BY <1>2, <1>5 DEF Authorize
<1>6. CASE \E key \in Keys, cut \in Cuts : ExecuteReceipt(c, key, cut)
  BY <1>2, <1>6 DEF ExecuteReceipt
<1>7. CASE \E key \in Keys, seen \in Measurements : RejectVerification(c, key, seen)
  BY <1>3, <1>7, RejectVerificationEffect
<1>8. CASE \E key \in Keys, seen \in Measurements : VerifyAndFreeze(c, key, seen)
  BY <1>3, <1>8, VerifyAndFreezeEffect
<1>9. QED
  BY <1>4, <1>5, <1>6, <1>7, <1>8, Phases

\* A manifest, a cut and a receipt are written where there was none.
LEMMA WrittenOnce ==
    ASSUME TypeInv, NEW c \in Cases, ChainOf(c), ActsOn(c)
    PROVE  /\ manifests[c] \in {None, manifests'[c]}
           /\ executions[c] \in {None, executions'[c]}
           /\ \A key \in Keys : receipts[<<c, key>>] \in {None, receipts'[<<c, key>>]}
<1>1. CASE Drafting(c)
  BY <1>1 DEF Drafting
<1>2. CASE Authorize(c)
  <2>1. manifests[c] = None
    BY <1>2, AuthorizeEffect DEF ChainOf, Blank, Unauthorized, SameCase
  <2>2. QED
    BY <1>2, <2>1 DEF Authorize
<1>3. CASE \E key \in Keys, cut \in Cuts : ExecuteReceipt(c, key, cut)
  <2>1. PICK key \in Keys, cut \in Cuts : ExecuteReceipt(c, key, cut)
    BY <1>3
  <2>2. executions[c] = None /\ \A j \in Keys : receipts[<<c, j>>] = None
    BY <2>1, ExecuteReceiptEffect DEF ChainOf, SameCase
  <2>3. manifests' = manifests
    BY <2>1 DEF ExecuteReceipt
  <2>4. QED
    BY <2>2, <2>3
<1>4. CASE \E key \in Keys, seen \in Measurements : RejectVerification(c, key, seen)
  BY <1>4 DEF RejectVerification
<1>5. CASE \E key \in Keys, seen \in Measurements : VerifyAndFreeze(c, key, seen)
  BY <1>5 DEF VerifyAndFreeze
<1>6. QED
  BY <1>1, <1>2, <1>3, <1>4, <1>5, Phases

LEMMA EvidenceStep ==
    ASSUME TypeInv, Chains, [Next]_vars, NEW c \in Cases
    PROVE  EvidenceKept(c)
<1>1. CASE Untouched(c)
  <2>1. caseVersions[c] \in Seq(CaseVersion) /\ attempts[c] \in Seq(Attempt)
    BY DEF TypeInv, TypeOK
  <2>2. QED
    BY <1>1, <2>1, SequenceExtendsItself DEF Untouched, EvidenceKept
<1>2. CASE ActsOn(c)
  BY <1>2, CaseHistoryExtends, EventsKept, AttemptsExtend, WrittenOnce
     DEF Chains, EvidenceKept
<1>3. QED
  BY <1>1, <1>2, StepOfCase

\* No step rewrites evidence: histories, snapshots, attempts, events and
\* credentials only grow, a manifest, a cut or a receipt is written once, and a
\* frozen case stays as it is.
THEOREM EvidenceStays == Spec => EvidenceImmutable
<1> DEFINE Step ==
        /\ prechecks \subseteq prechecks' /\ credentials \subseteq credentials'
        /\ \A k \in Cores : Extends(coreVersions[k], coreVersions'[k])
        /\ \A c \in InStatus({"Frozen"}) : cases'[c] = cases[c]
        /\ \A c \in Cases :
              /\ Extends(caseVersions[c], caseVersions'[c])
              /\ Extends(attempts[c], attempts'[c])
              /\ findingEvents[c] \subseteq findingEvents'[c]
              /\ manifests[c] \in {None, manifests'[c]}
              /\ executions[c] \in {None, executions'[c]}
              /\ \A key \in Keys : receipts[<<c, key>>] \in {None, receipts'[<<c, key>>]}
<1>1. TypeInv /\ Chains /\ [Next]_vars => [Step]_vars
  <2>1. SUFFICES ASSUME TypeInv, Chains, [Next]_vars PROVE Step
    OBVIOUS
  <2>2. \A c \in InStatus({"Frozen"}) : cases'[c] = cases[c]
    BY <2>1, FrozenIsFinal DEF InStatus, Untouched
  <2>3. QED
    BY <2>1, <2>2, PrechecksKept, CredentialsKept, CoreHistoryExtends, EvidenceStep
       DEF EvidenceKept
<1>2. QED
  BY <1>1, TypeInvariant, ChainsInvariant, PTL DEF Spec, EvidenceImmutable

-----------------------------------------------------------------------------
(***************************************************************************)
(* Review findings                                                         *)
(*                                                                         *)
(* The events tell an open finding from a closed one because an open one   *)
(* has no closing revision yet, which no event can name.                   *)
(***************************************************************************)

ClosedBy(e, f) ==
    /\ e.type = "Closed" /\ e.issue = f.issue /\ e.opened = f.opened
    /\ e.caseRevision = f.closed

\* Finding f of case c is told by the event trail.
Told(c, f) ==
    /\ f.opened < cases[c].revision
    /\ \E e \in findingEvents[c] :
          e.type = "Opened" /\ e.issue = f.issue /\ e.opened = f.opened
    /\ f.status = "Closed" <=> \E e \in findingEvents[c] : ClosedBy(e, f)
    /\ f.status = "Open" => f.closed = None

TrailOf(c) == cases[c] # None => \A f \in cases[c].findings : Told(c, f)

GateOf(c) ==
    cases[c] # None =>
        /\ cases[c].status \in UnderReview => FindingsClosedForCurrent(c)
        /\ cases[c].status = "Draft" => cases[c].findings = {}

Trails == \A c \in Cases : TrailOf(c) /\ GateOf(c)

\* Only ReturnCaseIssues and CloseFinding touch findings and events.
Quiet(c) ==
    /\ cases'[c].findings = cases[c].findings
    /\ findingEvents'[c] = findingEvents[c]
    /\ cases'[c].revision \in {cases[c].revision, cases[c].revision + 1}

LEMMA QuietTrail ==
    ASSUME TypeInv, NEW c \in Cases, TrailOf(c), SameCase(c), Quiet(c)
    PROVE  TrailOf(c)'
<1>1. SUFFICES ASSUME NEW f \in cases[c].findings PROVE Told(c, f)'
  BY DEF TrailOf, Quiet
<1>2. Told(c, f) /\ f \in Finding
  BY DEF TrailOf, SameCase, CaseRecord
<1>3. f.opened < cases'[c].revision
  BY <1>2 DEF Told, Quiet, SameCase, CaseRecord, Finding, Revision
<1>4. QED
  BY <1>2, <1>3 DEF Told, Quiet

LEMMA CreateCaseTrail ==
    ASSUME TypeInv, NEW c \in Cases, NEW k \in Cores, NEW plan \in Plans,
           NEW digest \in Digests, CreateCase(c, k, plan, digest)
    PROVE  TrailOf(c)' /\ GateOf(c)'
  BY CreateCaseEffect DEF TrailOf, GateOf, FindingsClosedForCurrent

LEMMA ReturnCaseIssuesTrail ==
    ASSUME TypeInv, NEW c \in Cases, TrailOf(c), NEW issues \in SUBSET Issues,
           ReturnCaseIssues(c, issues)
    PROVE  TrailOf(c)'
<1> DEFINE r      == cases[c].revision
           raised == {[issue |-> x, opened |-> r, status |-> "Open",
                       closed |-> None] : x \in issues}
           events == {[type |-> "Opened", issue |-> x, opened |-> r,
                       caseRevision |-> r] : x \in issues}
<1>1. /\ SameCase(c) /\ cases'[c].revision = r + 1 /\ r \in Nat
      /\ cases'[c].findings = cases[c].findings \cup raised
      /\ findingEvents'[c] = findingEvents[c] \cup events
  BY ReturnCaseIssuesEffect DEF SameCase, CaseRecord, Revision
<1>2. \A e \in findingEvents[c] : e.caseRevision # None
  BY NoneAssumption DEF TypeInv, TypeOK, FindingEvent
<1>3. \A e \in events : e.type = "Opened"
  OBVIOUS
<1>4. ASSUME NEW f \in cases[c].findings PROVE Told(c, f)'
  <2>1. Told(c, f) /\ f \in Finding
    BY <1>1 DEF TrailOf, SameCase, CaseRecord
  <2>2. f.opened < cases'[c].revision
    BY <1>1, <2>1 DEF Told, Finding, Revision
  <2>3. (\E e \in findingEvents[c] : ClosedBy(e, f))
            <=> (\E e \in findingEvents'[c] : ClosedBy(e, f))
    BY <1>1, <1>3 DEF ClosedBy
  <2> HIDE DEF events
  <2>4. QED
    BY <1>1, <2>1, <2>2, <2>3 DEF Told
<1>5. ASSUME NEW f \in raised PROVE Told(c, f)'
  <2>1. PICK x \in issues : f = [issue |-> x, opened |-> r, status |-> "Open",
                                 closed |-> None]
    BY <1>5
  <2>2. f.issue = x /\ f.opened = r /\ f.status = "Open" /\ f.closed = None
    BY <2>1
  <2>3. \E e \in findingEvents'[c] :
            e.type = "Opened" /\ e.issue = f.issue /\ e.opened = f.opened
    <3> DEFINE e == [type |-> "Opened", issue |-> x, opened |-> r, caseRevision |-> r]
    <3>1. e \in findingEvents'[c]
      BY <1>1
    <3>2. e.type = "Opened" /\ e.issue = f.issue /\ e.opened = f.opened
      BY <2>2
    <3> HIDE DEF e
    <3>3. QED
      BY <3>1, <3>2
  <2>4. \A e \in findingEvents'[c] : ~ClosedBy(e, f)
    BY <1>1, <1>2, <1>3, <2>2 DEF ClosedBy
  <2>5. QED
    BY <1>1, <2>2, <2>3, <2>4 DEF Told
<1> HIDE DEF raised
<1>6. QED
  BY <1>1, <1>4, <1>5 DEF TrailOf

LEMMA CloseFindingTrail ==
    ASSUME TypeInv, NEW c \in Cases, TrailOf(c), NEW f \in cases[c].findings,
           CloseFinding(c, f)
    PROVE  TrailOf(c)'
<1> DEFINE event == [type |-> "Closed", issue |-> f.issue, opened |-> f.opened,
                     caseRevision |-> cases[c].revision]
<1>1. PICK g \in Finding :
          /\ g.issue = f.issue /\ g.opened = f.opened
          /\ g.status = "Closed" /\ g.closed = cases[c].revision
          /\ cases'[c].findings = (cases[c].findings \ {f}) \cup {g}
  BY CloseFindingEffect
<1>2. /\ SameCase(c) /\ cases'[c].revision = cases[c].revision
      /\ findingEvents'[c] = findingEvents[c] \cup {event}
  BY CloseFindingEffect
<1>3. /\ event.type = "Closed" /\ event.issue = f.issue /\ event.opened = f.opened
      /\ event.caseRevision = cases[c].revision
  OBVIOUS
<1>4. Told(c, f)
  BY <1>2 DEF TrailOf, SameCase
<1>5. cases[c].revision # None
  BY <1>2, NoneAssumption DEF SameCase, CaseRecord
<1> HIDE DEF event
<1>6. Told(c, g)'
  <2>1. g.opened < cases'[c].revision
    BY <1>1, <1>2, <1>4 DEF Told
  <2>2. ClosedBy(event, g)
    BY <1>1, <1>3 DEF ClosedBy
  <2>3. \E e \in findingEvents'[c] :
            e.type = "Opened" /\ e.issue = g.issue /\ e.opened = g.opened
    BY <1>1, <1>2, <1>4 DEF Told
  <2>4. QED
    BY <1>1, <1>2, <2>1, <2>2, <2>3 DEF Told
<1>7. ASSUME NEW h \in cases[c].findings PROVE Told(c, h)'
  <2>1. Told(c, h) /\ h \in Finding
    BY <1>2 DEF TrailOf, SameCase, CaseRecord
  <2>2. ClosedBy(event, h) => h.status = "Closed"
    BY <1>3, <1>5, <2>1 DEF ClosedBy, Told, Finding
  <2>3. QED
    BY <1>2, <2>1, <2>2 DEF Told
<1>8. QED
  BY <1>1, <1>6, <1>7 DEF TrailOf

LEMMA TrailStep ==
    ASSUME TypeInv, NEW c \in Cases, TrailOf(c), GateOf(c), ActsOn(c)
    PROVE  TrailOf(c)' /\ GateOf(c)'
<1>1. ASSUME SameCase(c), Quiet(c), cases'[c].status \notin UnderReview \cup {"Draft"}
      PROVE  TrailOf(c)' /\ GateOf(c)'
  BY <1>1, QuietTrail DEF GateOf, SameCase
<1>2. ASSUME SameCase(c), Quiet(c), cases'[c].status \in UnderReview,
             FindingsClosedForCurrent(c), cases'[c].revision = cases[c].revision
      PROVE  TrailOf(c)' /\ GateOf(c)'
  BY <1>2, QuietTrail DEF GateOf, FindingsClosedForCurrent, Quiet, SameCase, UnderReview
<1>3. ASSUME SameCase(c), Quiet(c), cases[c].status \in Editable,
             cases'[c].status = cases[c].status
      PROVE  TrailOf(c)' /\ GateOf(c)'
  BY <1>3, QuietTrail DEF GateOf, Quiet, SameCase, Editable, UnderReview
<1>4. CASE \E k \in Cores, plan \in Plans, digest \in Digests : CreateCase(c, k, plan, digest)
  BY <1>4, CreateCaseTrail
<1>5. ASSUME NEW plan \in Plans, ReviseCase(c, plan)
      PROVE  TrailOf(c)' /\ GateOf(c)'
  <2>1. UNCHANGED findingEvents
    BY <1>5 DEF ReviseCase
  <2>2. Quiet(c)
    BY <1>5, <2>1, ReviseCaseEffect DEF Quiet
  <2>3. QED
    BY <1>3, <1>5, <2>2, ReviseCaseEffect
<1>6. CASE Precheck(c)
  <2>1. UNCHANGED findingEvents
    BY <1>6 DEF Precheck
  <2>2. Quiet(c)
    BY <1>6, <2>1, PrecheckEffect DEF Quiet
  <2>3. QED
    BY <1>3, <1>6, <2>2, PrecheckEffect
<1>7. CASE SubmitCase(c)
  <2>1. UNCHANGED findingEvents
    BY <1>7 DEF SubmitCase
  <2>2. Quiet(c)
    BY <1>7, <2>1, SubmitCaseEffect DEF Quiet
  <2>3. QED
    BY <1>2, <1>7, <2>2, SubmitCaseEffect DEF UnderReview
<1>8. CASE \E issues \in SUBSET Issues : ReturnCaseIssues(c, issues)
  BY <1>8, ReturnCaseIssuesEffect, ReturnCaseIssuesTrail DEF GateOf, UnderReview
<1>9. CASE \E f \in cases[c].findings : CloseFinding(c, f)
  BY <1>9, CloseFindingEffect, CloseFindingTrail DEF GateOf, UnderReview
<1>10. CASE Authorize(c)
  <2>1. UNCHANGED findingEvents
    BY <1>10 DEF Authorize
  <2>2. Quiet(c)
    BY <1>10, <2>1, AuthorizeEffect DEF Quiet
  <2>3. QED
    BY <1>2, <1>10, <2>2, AuthorizeEffect DEF UnderReview
<1>11. ASSUME NEW key \in Keys, NEW cut \in Cuts, ExecuteReceipt(c, key, cut)
       PROVE  TrailOf(c)' /\ GateOf(c)'
  <2>1. UNCHANGED findingEvents
    BY <1>11 DEF ExecuteReceipt
  <2>2. Quiet(c)
    BY <1>11, <2>1, ExecuteReceiptEffect DEF Quiet
  <2>3. QED
    BY <1>1, <1>11, <2>2, ExecuteReceiptEffect DEF UnderReview
<1>12. ASSUME NEW key \in Keys, NEW seen \in Measurements, RejectVerification(c, key, seen)
       PROVE  TrailOf(c)' /\ GateOf(c)'
  <2>1. UNCHANGED findingEvents
    BY <1>12 DEF RejectVerification
  <2>2. Quiet(c)
    BY <1>12, <2>1, RejectVerificationEffect DEF Quiet
  <2>3. QED
    BY <1>1, <1>12, <2>2, RejectVerificationEffect DEF UnderReview
<1>13. ASSUME NEW key \in Keys, NEW seen \in Measurements, VerifyAndFreeze(c, key, seen)
       PROVE  TrailOf(c)' /\ GateOf(c)'
  <2>1. UNCHANGED findingEvents
    BY <1>13 DEF VerifyAndFreeze
  <2>2. Quiet(c)
    BY <1>13, <2>1, VerifyAndFreezeEffect DEF Quiet
  <2>3. QED
    BY <1>1, <1>13, <2>2, VerifyAndFreezeEffect DEF UnderReview
<1>14. QED
  BY <1>4, <1>5, <1>6, <1>7, <1>8, <1>9, <1>10, <1>11, <1>12, <1>13 DEF ActsOn

LEMMA TrailsInvariant == Spec => []Trails
<1>1. Init => Trails
  BY DEF Init, Trails, TrailOf, GateOf
<1>2. TypeInv /\ Trails /\ [Next]_vars => Trails'
  <2>1. SUFFICES ASSUME TypeInv, Trails, [Next]_vars, NEW c \in Cases
                 PROVE  TrailOf(c)' /\ GateOf(c)'
    BY DEF Trails
  <2>2. CASE Untouched(c)
    BY <2>1, <2>2 DEF Untouched, Trails, TrailOf, GateOf, Told, FindingsClosedForCurrent
  <2>3. CASE ActsOn(c)
    BY <2>1, <2>3, TrailStep DEF Trails
  <2>4. QED
    BY <2>1, <2>2, <2>3, StepOfCase
<1>3. QED
  BY <1>1, <1>2, TypeInvariant, PTL DEF Spec

\* A case passes its review only with every finding closed against the
\* revision under review, a draft has none, and the event trail tells which
\* are open: for any issues raised, in any order of returns and closures.
THEOREM FindingsGateHolds == Spec => []FindingsGate
<1>1. TypeInv /\ Trails => FindingsGate
  <2>1. SUFFICES ASSUME TypeInv, Trails PROVE FindingsGate
    OBVIOUS
  <2>2. \A c \in InStatus(Status) : cases[c] # None /\ TrailOf(c) /\ GateOf(c)
    BY <2>1 DEF Trails, InStatus
  <2>3. QED
    BY <2>2 DEF FindingsGate, TrailOf, GateOf, Told, ClosedBy, UnderReview,
       FindingsClosedForCurrent
<1>2. QED
  BY <1>1, TypeInvariant, TrailsInvariant, PTL

-----------------------------------------------------------------------------
(***************************************************************************)
(* The lifecycle                                                           *)
(***************************************************************************)

StatusOf(c) == IF cases[c] = None THEN None ELSE cases[c].status

OpenOf(c) == /\ cases[c] # None
             /\ \E f \in cases[c].findings : f.status # "Closed"

statuses == [c \in Cases |-> StatusOf(c)]
opens == [c \in Cases |-> OpenOf(c)]

\* A call about c makes one move of the lifecycle of c, or none.
Moves(c) ==
    \/ StatusOf(c) = None /\ StatusOf(c)' = "Draft" /\ (OpenOf(c)' <=> OpenOf(c))
    \/ \E next \in Status :
          /\ Lifecycle!Allowed(StatusOf(c), next)
          /\ next = "Authorized" => ~OpenOf(c)
          /\ StatusOf(c)' = next
          /\ OpenOf(c)' <=> OpenOf(c) \/ next = "Returned"
    \/ /\ StatusOf(c) = "Returned" /\ StatusOf(c)' = "Returned"
       /\ OpenOf(c) /\ ~OpenOf(c)'
    \/ StatusOf(c)' = StatusOf(c) /\ (OpenOf(c)' <=> OpenOf(c))

LEMMA CallMoves ==
    ASSUME TypeInv, NEW c \in Cases, TrailOf(c), GateOf(c), ActsOn(c)
    PROVE  Moves(c)
<1> USE DEF SameCase, StatusOf, OpenOf
<1>1. ASSUME NEW k \in Cores, NEW plan \in Plans, NEW digest \in Digests,
             CreateCase(c, k, plan, digest)
      PROVE  Moves(c)
  BY <1>1, CreateCaseEffect DEF Moves
<1>2. ASSUME NEW plan \in Plans, ReviseCase(c, plan) PROVE Moves(c)
  BY <1>2, ReviseCaseEffect DEF Moves
<1>3. CASE Precheck(c)
  BY <1>3, PrecheckEffect DEF Moves
<1>4. CASE SubmitCase(c)
  BY <1>4, SubmitCaseEffect DEF Moves, Lifecycle!Allowed, Editable, Status
<1>5. ASSUME NEW issues \in SUBSET Issues, ReturnCaseIssues(c, issues) PROVE Moves(c)
  <2>1. PICK x \in issues : TRUE
    BY <1>5 DEF ReturnCaseIssues
  <2> DEFINE f == [issue |-> x, opened |-> cases[c].revision, status |-> "Open",
                   closed |-> None]
  <2>2. f \in cases'[c].findings /\ f.status # "Closed"
    BY <1>5, ReturnCaseIssuesEffect
  <2> HIDE DEF f
  <2>3. /\ SameCase(c) /\ cases[c].status \in Returnable
        /\ cases'[c].status = "Returned"
    BY <1>5, ReturnCaseIssuesEffect
  <2>4. QED
    BY <2>2, <2>3 DEF Moves, Lifecycle!Allowed, Returnable, Status
<1>6. ASSUME NEW f \in cases[c].findings, CloseFinding(c, f) PROVE Moves(c)
  <2>1. /\ SameCase(c) /\ f.status = "Open"
        /\ cases[c].status = "Returned" /\ cases'[c].status = "Returned"
    BY <1>6, CloseFindingEffect
  <2>2. OpenOf(c)
    BY <2>1
  <2>3. QED
    BY <2>1, <2>2 DEF Moves
<1>7. CASE Authorize(c)
  <2>1. ~OpenOf(c)
    BY <1>7, AuthorizeEffect DEF FindingsClosedForCurrent
  <2>2. QED
    BY <1>7, <2>1, AuthorizeEffect DEF Moves, Lifecycle!Allowed, Status
<1>8. ASSUME NEW key \in Keys, NEW cut \in Cuts, ExecuteReceipt(c, key, cut)
      PROVE  Moves(c)
  BY <1>8, ExecuteReceiptEffect DEF Moves, Lifecycle!Allowed, Status
<1>9. ASSUME NEW key \in Keys, NEW seen \in Measurements, RejectVerification(c, key, seen)
      PROVE  Moves(c)
  BY <1>9, RejectVerificationEffect DEF Moves
<1>10. ASSUME NEW key \in Keys, NEW seen \in Measurements, VerifyAndFreeze(c, key, seen)
       PROVE  Moves(c)
  BY <1>10, VerifyAndFreezeEffect DEF Moves, Lifecycle!Allowed, Status
<1>11. QED
  BY <1>1, <1>2, <1>3, <1>4, <1>5, <1>6, <1>7, <1>8, <1>9, <1>10 DEF ActsOn

\* What happens to one case only happens to the mapped functions there only.
LEMMA MovesMap ==
    ASSUME NEW c \in Cases, Moves(c),
           \A d \in Cases \ {c} : Untouched(d)
    PROVE  [Lifecycle!Next]_(Lifecycle!vars)
<1>1. \A d \in Cases \ {c} : StatusOf(d)' = StatusOf(d) /\ (OpenOf(d)' = OpenOf(d))
  BY DEF Untouched, StatusOf, OpenOf
<1>2. \A d \in Cases : /\ statuses[d] = StatusOf(d) /\ opens[d] = OpenOf(d)
                       /\ statuses'[d] = StatusOf(d)' /\ opens'[d] = OpenOf(d)'
  BY DEF statuses, opens
<1>3. ASSUME NEW s, StatusOf(c)' = s
      PROVE  statuses' = [statuses EXCEPT ![c] = s]
  BY <1>1, <1>3 DEF statuses
<1>4. ASSUME NEW b \in BOOLEAN, OpenOf(c)' <=> b
      PROVE  opens' = [opens EXCEPT ![c] = b]
  <2>1. OpenOf(c)' \in BOOLEAN
    BY DEF OpenOf
  <2>2. OpenOf(c)' = b
    BY <1>4, <2>1
  <2>3. QED
    BY <1>1, <2>2 DEF opens
<1>5. opens[c] \in BOOLEAN
  BY DEF opens, OpenOf
<1>6. ASSUME OpenOf(c)' <=> OpenOf(c)
      PROVE  opens' = opens
  <2>1. OpenOf(c)' = OpenOf(c)
    BY <1>6 DEF OpenOf
  <2>2. QED
    BY <1>1, <2>1 DEF opens
<1>7. CASE StatusOf(c) = None /\ StatusOf(c)' = "Draft" /\ (OpenOf(c)' <=> OpenOf(c))
  <2>1. statuses' = [statuses EXCEPT ![c] = "Draft"]
    BY <1>3, <1>7
  <2>2. opens' = opens /\ statuses[c] = None
    BY <1>2, <1>6, <1>7
  <2>3. Lifecycle!Create(c)
    BY <2>1, <2>2 DEF Lifecycle!Create, statuses, opens, StatusOf, OpenOf
  <2>4. QED
    BY <2>3 DEF Lifecycle!Next
<1>8. ASSUME NEW next \in Status,
             Lifecycle!Allowed(StatusOf(c), next),
             next = "Authorized" => ~OpenOf(c),
             StatusOf(c)' = next,
             OpenOf(c)' <=> OpenOf(c) \/ next = "Returned"
      PROVE  Lifecycle!Transition(c, next)
  <2>1. statuses' = [statuses EXCEPT ![c] = next]
    BY <1>3, <1>8
  <2>2. opens' = [opens EXCEPT ![c] = opens[c] \/ next = "Returned"]
    BY <1>2, <1>4, <1>8
  <2>3. Lifecycle!Allowed(statuses[c], next) /\ (next = "Authorized" => ~opens[c])
    BY <1>2, <1>8
  <2>4. QED
    BY <2>1, <2>2, <2>3 DEF Lifecycle!Transition, statuses, opens, StatusOf, OpenOf
<1>9. CASE /\ StatusOf(c) = "Returned" /\ StatusOf(c)' = "Returned"
           /\ OpenOf(c) /\ ~OpenOf(c)'
  <2>1. opens' = [opens EXCEPT ![c] = FALSE]
    BY <1>4, <1>9
  <2>2. statuses' = statuses
    BY <1>1, <1>9 DEF statuses
  <2>3. statuses[c] = "Returned" /\ opens[c]
    BY <1>2, <1>9
  <2>4. Lifecycle!CloseFindings(c)
    BY <2>1, <2>2, <2>3 DEF Lifecycle!CloseFindings, statuses, opens, StatusOf, OpenOf
  <2>5. QED
    BY <2>4 DEF Lifecycle!Next
<1>10. CASE StatusOf(c)' = StatusOf(c) /\ (OpenOf(c)' <=> OpenOf(c))
  <2>1. statuses' = statuses /\ opens' = opens
    BY <1>1, <1>6, <1>10 DEF statuses
  <2>2. QED
    BY <2>1 DEF Lifecycle!vars, statuses, opens, StatusOf, OpenOf
<1>11. QED
  BY <1>7, <1>8, <1>9, <1>10 DEF Moves, Lifecycle!Next, Lifecycle!Status, Status

LEMMA LifecycleStep ==
    ASSUME TypeInv, Trails, [Next]_vars
    PROVE  [Lifecycle!Next]_(Lifecycle!vars)
<1>1. CASE \A c \in Cases : Untouched(c)
  <2>1. statuses' = statuses /\ opens' = opens
    BY <1>1 DEF Untouched, statuses, opens, StatusOf, OpenOf
  <2>2. QED
    BY <2>1 DEF Lifecycle!vars, statuses, opens, StatusOf, OpenOf
<1>2. ASSUME NEW c \in Cases, ~Untouched(c)
      PROVE  [Lifecycle!Next]_(Lifecycle!vars)
  <2>1. ActsOn(c)
    BY <1>2, StepOfCase
  <2>2. QED
    BY <2>1, OthersUntouched, CallMoves, MovesMap DEF Trails
<1>3. QED
  BY <1>1, <1>2

\* The handlers' own guards make every case follow the transition table that
\* SamplingCase.ValidateTransition states and no handler consults, with no
\* authorization while a finding is open.
THEOREM LifecycleFollowed == Spec => LifecycleSpec
<1>1. Init => Lifecycle!Init
  BY DEF Init, Lifecycle!Init
<1>2. TypeInv /\ Trails /\ [Next]_vars => [Lifecycle!Next]_(Lifecycle!vars)
  BY LifecycleStep
<1>3. QED
  BY <1>1, <1>2, TypeInvariant, TrailsInvariant, PTL DEF Spec, LifecycleSpec, Lifecycle!Spec
=============================================================================
