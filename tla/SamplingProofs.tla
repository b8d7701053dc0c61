--------------------------- MODULE SamplingProofs ---------------------------
(***************************************************************************)
(* Theorems about the sampling workflow, for any number of cores and cases *)
(* and any requests, cuts and measurements.                                *)
(***************************************************************************)
EXTENDS SamplingProperties, TLAPS

-----------------------------------------------------------------------------
(***************************************************************************)
(* Type correctness                                                        *)
(*                                                                         *)
(* A snapshot copies the record of the case's core, so that the variables  *)
(* keep their types rests on every case naming a registered core.          *)
(***************************************************************************)

CasesOnCores == \A c \in InStatus(Status) : cores[cases[c].core] # None

TypeInv == TypeOK /\ CasesOnCores

\* Merging intervals of the code's kind yields intervals of that kind.
LEMMA NormalizeType ==
    ASSUME NEW S \in Segments
    PROVE  Normalize(S) \in Segments
<1>1. {i.start : i \in S} \subseteq Int /\ {i.end : i \in S} \subseteq Int
  BY DEF Segments, Interval
<1>2. QED
  BY <1>1 DEF Normalize, Segments, Interval

\* A case in some status is a case record.
LEMMA CaseType ==
    ASSUME TypeOK, NEW S, NEW c \in InStatus(S)
    PROVE  /\ c \in Cases
           /\ cases[c] \in CaseRecord
           /\ cases[c].status \in S
           /\ c \in InStatus(Status)
<1>1. c \in Cases /\ cases[c] # None /\ cases[c].status \in S
  BY DEF InStatus
<1>2. cases[c] \in CaseRecord
  BY <1>1 DEF TypeOK
<1>3. cases[c].status \in Status
  BY <1>2 DEF CaseRecord
<1>4. QED
  BY <1>1, <1>2, <1>3 DEF InStatus

\* The core of such a case is a core record.
LEMMA CoreType ==
    ASSUME TypeInv, NEW c \in InStatus(Status)
    PROVE  cases[c].core \in Cores /\ cores[cases[c].core] \in CoreRecord
<1>1. cases[c] \in CaseRecord
  BY CaseType DEF TypeInv
<1>2. cases[c].core \in Cores
  BY <1>1 DEF CaseRecord
<1>3. QED
  BY <1>2 DEF TypeInv, CasesOnCores, TypeOK

\* What Precheck stores is a snapshot.
LEMMA SnapshotType ==
    ASSUME TypeInv, NEW c \in InStatus(Status)
    PROVE  PrecheckSnapshot(c) \in Snapshot
<1>1. cases[c] \in CaseRecord /\ c \in Cases
  BY CaseType DEF TypeInv
<1>2. cores[cases[c].core] \in CoreRecord
  BY CoreType
<1>3. ActiveSummaries(c) \in SUBSET ActiveCaseSummary
  <2>1. SUFFICES ASSUME NEW d \in InStatus(Status \ Terminal)
                 PROVE  [case |-> d, status |-> cases[d].status,
                         revision |-> cases[d].revision,
                         requested |-> cases[d].requested,
                         estimated |-> cases[d].estimated] \in ActiveCaseSummary
    BY DEF ActiveSummaries
  <2>2. d \in Cases /\ cases[d] \in CaseRecord
    BY CaseType DEF TypeInv
  <2>3. QED
    BY <2>2 DEF CaseRecord, ActiveCaseSummary
<1>4. QED
  BY <1>1, <1>2, <1>3 DEF PrecheckSnapshot, Snapshot, CaseRecord

\* Saving a case keeps the types, and the cores the cases name.
LEMMA SaveCaseType ==
    ASSUME TypeInv, NEW c \in Cases, NEW rec \in CaseRecord, SaveCase(c, rec)
    PROVE  cases' \in [Cases -> CaseRecord \cup {None}]
  BY DEF SaveCase, TypeInv, TypeOK

LEMMA VersionType ==
    ASSUME NEW rec \in CaseRecord
    PROVE  Version(rec) \in CaseVersion
  BY DEF Version, CaseVersion, CaseRecord

LEMMA SaveCaseVersionType ==
    ASSUME TypeInv, NEW c \in Cases, NEW rec \in CaseRecord, SaveCaseVersion(c, rec)
    PROVE  /\ cases' \in [Cases -> CaseRecord \cup {None}]
           /\ caseVersions' \in [Cases -> Seq(CaseVersion)]
<1>1. cases' \in [Cases -> CaseRecord \cup {None}]
  BY SaveCaseType DEF SaveCaseVersion
<1>2. Version(rec) \in CaseVersion
  BY VersionType
<1>3. caseVersions[c] \in Seq(CaseVersion)
  BY DEF TypeInv, TypeOK
<1>4. Append(caseVersions[c], Version(rec)) \in Seq(CaseVersion)
  BY <1>2, <1>3
<1>5. QED
  BY <1>1, <1>4 DEF SaveCaseVersion, TypeInv, TypeOK

LEMMA SaveCoreVersionType ==
    ASSUME TypeInv, NEW k \in Cores, NEW rec \in CoreRecord, SaveCoreVersion(k, rec)
    PROVE  /\ cores' \in [Cores -> CoreRecord \cup {None}]
           /\ coreVersions' \in [Cores -> Seq(CoreRecord)]
<1>1. cores' \in [Cores -> CoreRecord \cup {None}]
  BY DEF SaveCoreVersion, TypeInv, TypeOK
<1>2. coreVersions[k] \in Seq(CoreRecord)
  BY DEF TypeInv, TypeOK
<1>3. Append(coreVersions[k], rec) \in Seq(CoreRecord)
  BY <1>2
<1>4. QED
  BY <1>1, <1>3 DEF SaveCoreVersion, TypeInv, TypeOK

\* Cases stay on registered cores: no step removes a core or moves a case.
LEMMA CasesOnCoresKept ==
    ASSUME TypeInv,
           \A k \in Cores : cores[k] # None => cores'[k] # None,
           \A c \in Cases : cases'[c] # None =>
               \/ cases[c] # None /\ cases'[c].core = cases[c].core
               \/ cores'[cases'[c].core] # None
    PROVE  CasesOnCores'
<1>1. SUFFICES ASSUME NEW c \in Cases, cases'[c] # None
               PROVE  cores'[cases'[c].core] # None
  BY DEF CasesOnCores, InStatus
<1>2. CASE cases[c] # None /\ cases'[c].core = cases[c].core
  <2>1. cases[c] \in CaseRecord
    BY <1>2 DEF TypeInv, TypeOK
  <2>2. cases[c].status \in Status /\ cases[c].core \in Cores
    BY <2>1 DEF CaseRecord
  <2>3. cores[cases[c].core] # None
    BY <1>2, <2>2 DEF TypeInv, CasesOnCores, InStatus
  <2>4. QED
    BY <1>2, <2>2, <2>3
<1>3. QED
  BY <1>1, <1>2

\* Rewriting one existing case, on its core, is enough for that.
LEMMA SavedCaseOnCore ==
    ASSUME TypeInv, NEW c \in Cases, NEW rec, SaveCase(c, rec),
           cases[c] # None, rec.core = cases[c].core,
           \A k \in Cores : cores[k] # None => cores'[k] # None
    PROVE  CasesOnCores'
<1>1. \A d \in Cases : cases'[d] # None => cases[d] # None /\ cases'[d].core = cases[d].core
  BY DEF SaveCase, TypeInv, TypeOK
<1>2. QED
  BY <1>1, CasesOnCoresKept

LEMMA RegisterCoreTyped ==
    ASSUME TypeInv, NEW k \in Cores, NEW reg \in Registrations, RegisterCore(k, reg)
    PROVE  TypeInv'
<1> DEFINE rec == [depth |-> reg.depth, initial |-> reg.initial,
                   available |-> reg.available, reserve |-> reg.reserve,
                   protected |-> Normalize(reg.protected), revision |-> 1]
<1>1. reg \in Registration
  BY InputAssumption
<1>2. Normalize(reg.protected) \in Segments
  BY <1>1, NormalizeType DEF Registration
<1>3. rec \in CoreRecord
  BY <1>1, <1>2 DEF Registration, CoreRecord, Revision
<1>4. SaveCoreVersion(k, rec)
  BY DEF RegisterCore
<1>5. TypeOK'
  BY <1>3, <1>4, SaveCoreVersionType DEF RegisterCore, TypeInv, TypeOK, caseVars
<1>6. \A j \in Cores : cores[j] # None => cores'[j] # None
  BY <1>3, <1>4, NoneAssumption DEF SaveCoreVersion, TypeInv, TypeOK
<1>7. CasesOnCores'
  BY <1>6, CasesOnCoresKept DEF RegisterCore, caseVars
<1>8. QED
  BY <1>5, <1>7 DEF TypeInv

LEMMA ReviseCoreTyped ==
    ASSUME TypeInv, NEW k \in Cores, NEW form \in Constraints, ReviseCore(k, form)
    PROVE  TypeInv'
<1> DEFINE next == [cores[k] EXCEPT !.reserve = form.reserve,
                                    !.protected = Normalize(form.protected)]
           rec  == [next EXCEPT !.revision = @ + 1]
<1>1. form \in Constraint
  BY InputAssumption
<1>2. Normalize(form.protected) \in Segments
  BY <1>1, NormalizeType DEF Constraint
<1>3. cores[k] \in CoreRecord
  BY DEF ReviseCore, TypeInv, TypeOK
<1>4. next \in CoreRecord
  BY <1>1, <1>2, <1>3 DEF Constraint, CoreRecord
<1>5. rec \in CoreRecord
  <2> HIDE DEF next
  <2>1. next.revision + 1 \in Revision
    BY <1>4 DEF CoreRecord, Revision
  <2>2. QED
    BY <1>4, <2>1 DEF CoreRecord
<1>6. SaveCoreVersion(k, rec)
  BY DEF ReviseCore
<1>7. TypeOK'
  BY <1>5, <1>6, SaveCoreVersionType DEF ReviseCore, TypeInv, TypeOK, caseVars
<1>8. \A j \in Cores : cores[j] # None => cores'[j] # None
  BY <1>5, <1>6, NoneAssumption DEF SaveCoreVersion, TypeInv, TypeOK
<1>9. CasesOnCores'
  BY <1>8, CasesOnCoresKept DEF ReviseCore, caseVars
<1>10. QED
  BY <1>7, <1>9 DEF TypeInv

LEMMA CreateCaseTyped ==
    ASSUME TypeInv, NEW c \in Cases, NEW k \in Cores, NEW plan \in Plans,
           NEW digest \in Digests, CreateCase(c, k, plan, digest)
    PROVE  TypeInv'
<1> DEFINE rec == [core |-> k, requested |-> plan.requested,
                   estimated |-> plan.estimated, status |-> "Draft",
                   revision |-> 1, precheck |-> digest,
                   authorization |-> None, findings |-> {},
                   execution |-> None, credential |-> None]
<1>1. plan \in Plan
  BY InputAssumption
<1>2. digest \in Snapshot \cup {None}
  BY DEF Digests, TypeInv, TypeOK
<1>3. rec \in CaseRecord
  BY <1>1, <1>2 DEF Plan, CaseRecord, Revision, Status
<1>4. SaveCaseVersion(c, rec)
  BY DEF CreateCase
<1>5. TypeOK'
  BY <1>3, <1>4, SaveCaseVersionType DEF CreateCase, TypeInv, TypeOK, coreVars
<1>6. \A d \in Cases : cases'[d] # None =>
          \/ cases[d] # None /\ cases'[d].core = cases[d].core
          \/ cores'[cases'[d].core] # None
  BY <1>4 DEF SaveCaseVersion, SaveCase, CreateCase, coreVars, TypeInv, TypeOK
<1>7. CasesOnCores'
  BY <1>6, CasesOnCoresKept DEF CreateCase, coreVars
<1>8. QED
  BY <1>5, <1>7 DEF TypeInv

LEMMA ReviseCaseTyped ==
    ASSUME TypeInv, NEW c \in Cases, NEW plan \in Plans, ReviseCase(c, plan)
    PROVE  TypeInv'
<1> DEFINE rec == [cases[c] EXCEPT !.requested = plan.requested,
                                   !.estimated = plan.estimated,
                                   !.precheck = None,
                                   !.authorization = None,
                                   !.revision = @ + 1]
<1>1. plan \in Plan
  BY InputAssumption
<1>2. cases[c] \in CaseRecord /\ cases[c] # None
  BY CaseType DEF ReviseCase, TypeInv, InStatus
<1>3. rec \in CaseRecord /\ rec.core = cases[c].core
  <2>1. cases[c].revision + 1 \in Revision
    BY <1>2 DEF CaseRecord, Revision
  <2>2. plan.requested \in Segments /\ plan.estimated \in Int
    BY <1>1 DEF Plan
  <2>3. QED
    BY <1>2, <2>1, <2>2 DEF CaseRecord
<1>4. SaveCaseVersion(c, rec)
  BY DEF ReviseCase
<1>5. TypeOK'
  BY <1>3, <1>4, SaveCaseVersionType DEF ReviseCase, TypeInv, TypeOK, coreVars
<1>6. CasesOnCores'
  BY <1>2, <1>3, <1>4, SavedCaseOnCore DEF ReviseCase, SaveCaseVersion, coreVars
<1>7. QED
  BY <1>5, <1>6 DEF TypeInv

LEMMA PrecheckTyped ==
    ASSUME TypeInv, NEW c \in Cases, Precheck(c)
    PROVE  TypeInv'
<1> DEFINE rec == [cases[c] EXCEPT !.precheck = PrecheckSnapshot(c)]
<1>1. cases[c] \in CaseRecord /\ cases[c] # None /\ c \in InStatus(Status)
  BY CaseType DEF Precheck, TypeInv, InStatus
<1>2. PrecheckSnapshot(c) \in Snapshot
  BY <1>1, SnapshotType
<1>3. rec \in CaseRecord /\ rec.core = cases[c].core
  BY <1>1, <1>2 DEF CaseRecord
<1>4. SaveCase(c, rec)
  BY DEF Precheck
<1>5. TypeOK'
  BY <1>2, <1>3, <1>4, SaveCaseType DEF Precheck, TypeInv, TypeOK, coreVars
<1>6. CasesOnCores'
  BY <1>1, <1>3, <1>4, SavedCaseOnCore DEF Precheck, coreVars
<1>7. QED
  BY <1>5, <1>6 DEF TypeInv

LEMMA ReturnCaseIssuesTyped ==
    ASSUME TypeInv, NEW c \in Cases, NEW issues \in SUBSET Issues,
           ReturnCaseIssues(c, issues)
    PROVE  TypeInv'
<1> DEFINE raised == {[issue |-> x, opened |-> cases[c].revision,
                       status |-> "Open", closed |-> None] : x \in issues}
           events == {[type |-> "Opened", issue |-> x, opened |-> cases[c].revision,
                       caseRevision |-> cases[c].revision] : x \in issues}
           rec    == [cases[c] EXCEPT !.revision = @ + 1, !.status = "Returned",
                                      !.precheck = None, !.authorization = None,
                                      !.findings = @ \cup raised]
<1>1. cases[c] \in CaseRecord /\ cases[c] # None
  BY CaseType DEF ReturnCaseIssues, TypeInv, InStatus
<1>2. raised \in SUBSET Finding /\ events \in SUBSET FindingEvent
  BY <1>1 DEF CaseRecord, Finding, FindingEvent
<1>3. rec \in CaseRecord /\ rec.core = cases[c].core
  <2> HIDE DEF raised
  <2>1. cases[c].revision + 1 \in Revision
    BY <1>1 DEF CaseRecord, Revision
  <2>2. cases[c].findings \cup raised \in SUBSET Finding
    BY <1>1, <1>2 DEF CaseRecord
  <2>3. QED
    BY <1>1, <2>1, <2>2 DEF CaseRecord, Status
<1>4. SaveCaseVersion(c, rec)
  BY DEF ReturnCaseIssues
<1>5. findingEvents' \in [Cases -> SUBSET FindingEvent]
  <2>1. findingEvents' = [findingEvents EXCEPT ![c] = @ \cup events]
    BY DEF ReturnCaseIssues
  <2> HIDE DEF events
  <2>2. QED
    BY <1>2, <2>1 DEF TypeInv, TypeOK
<1>6. TypeOK'
  BY <1>3, <1>4, <1>5, SaveCaseVersionType DEF ReturnCaseIssues, TypeInv, TypeOK, coreVars
<1>7. CasesOnCores'
  BY <1>1, <1>3, <1>4, SavedCaseOnCore DEF ReturnCaseIssues, SaveCaseVersion, coreVars
<1>8. QED
  BY <1>6, <1>7 DEF TypeInv

LEMMA CloseFindingTyped ==
    ASSUME TypeInv, NEW c \in Cases, NEW f, CloseFinding(c, f)
    PROVE  TypeInv'
<1> DEFINE closed == [f EXCEPT !.status = "Closed", !.closed = cases[c].revision]
           event  == [type |-> "Closed", issue |-> f.issue, opened |-> f.opened,
                      caseRevision |-> cases[c].revision]
           rec    == [cases[c] EXCEPT !.findings = (@ \ {f}) \cup {closed}]
<1>1. cases[c] \in CaseRecord /\ cases[c] # None
  BY CaseType DEF CloseFinding, TypeInv, InStatus
<1>2. f \in Finding
  BY <1>1 DEF CloseFinding, CaseRecord
<1>3. closed \in Finding /\ event \in FindingEvent
  BY <1>1, <1>2 DEF CaseRecord, Finding, FindingEvent
<1>4. rec \in CaseRecord /\ rec.core = cases[c].core
  <2> HIDE DEF closed
  <2>1. (cases[c].findings \ {f}) \cup {closed} \in SUBSET Finding
    BY <1>1, <1>3 DEF CaseRecord
  <2>2. QED
    BY <1>1, <2>1 DEF CaseRecord
<1>5. SaveCase(c, rec)
  BY DEF CloseFinding
<1>6. findingEvents' \in [Cases -> SUBSET FindingEvent]
  <2>1. findingEvents' = [findingEvents EXCEPT ![c] = @ \cup {event}]
    BY DEF CloseFinding
  <2> HIDE DEF event
  <2>2. QED
    BY <1>3, <2>1 DEF TypeInv, TypeOK
<1>7. TypeOK'
  BY <1>4, <1>5, <1>6, SaveCaseType DEF CloseFinding, TypeInv, TypeOK, coreVars
<1>8. CasesOnCores'
  BY <1>1, <1>4, <1>5, SavedCaseOnCore DEF CloseFinding, coreVars
<1>9. QED
  BY <1>7, <1>8 DEF TypeInv

LEMMA SubmitCaseTyped ==
    ASSUME TypeInv, NEW c \in Cases, SubmitCase(c)
    PROVE  TypeInv'
<1> DEFINE rec == [cases[c] EXCEPT !.status = "Submitted"]
<1>1. cases[c] \in CaseRecord /\ cases[c] # None
  BY CaseType DEF SubmitCase, TypeInv, InStatus
<1>2. rec \in CaseRecord /\ rec.core = cases[c].core
  BY <1>1 DEF CaseRecord, Status
<1>3. SaveCase(c, rec)
  BY DEF SubmitCase
<1>4. TypeOK'
  BY <1>2, <1>3, SaveCaseType DEF SubmitCase, TypeInv, TypeOK, coreVars
<1>5. CasesOnCores'
  BY <1>1, <1>2, <1>3, SavedCaseOnCore DEF SubmitCase, coreVars
<1>6. QED
  BY <1>4, <1>5 DEF TypeInv

LEMMA AuthorizeTyped ==
    ASSUME TypeInv, NEW c \in Cases, Authorize(c)
    PROVE  TypeInv'
<1> DEFINE m   == [case |-> c, caseRevision |-> cases[c].revision,
                   precheck |-> cases[c].precheck, requested |-> cases[c].requested,
                   estimated |-> cases[c].estimated, tolerance |-> DepthToleranceMm]
           rec == [cases[c] EXCEPT !.authorization = m, !.status = "Authorized"]
<1>1. cases[c] \in CaseRecord /\ cases[c] # None
  BY CaseType DEF Authorize, TypeInv, InStatus
<1>2. cases[c].precheck \in Snapshot
  BY DEF Authorize, RequireCurrentPrecheck, TypeInv, TypeOK
<1>3. m \in Manifest
  BY <1>1, <1>2 DEF CaseRecord, Manifest, DepthToleranceMm
<1>4. rec \in CaseRecord /\ rec.core = cases[c].core
  <2> HIDE DEF m
  <2>1. QED
    BY <1>1, <1>3 DEF CaseRecord, Status
<1>5. SaveCase(c, rec) /\ manifests' = [manifests EXCEPT ![c] = m]
  BY DEF Authorize
<1>6. manifests' \in [Cases -> Manifest \cup {None}]
  <2> HIDE DEF m
  <2>1. QED
    BY <1>3, <1>5 DEF TypeInv, TypeOK
<1>7. TypeOK'
  BY <1>4, <1>5, <1>6, SaveCaseType DEF Authorize, TypeInv, TypeOK, coreVars
<1>8. CasesOnCores'
  BY <1>1, <1>4, <1>5, SavedCaseOnCore DEF Authorize, coreVars
<1>9. QED
  BY <1>7, <1>8 DEF TypeInv

LEMMA ExecuteReceiptTyped ==
    ASSUME TypeInv, NEW c \in Cases, NEW key \in Keys, NEW cut \in Cuts,
           ExecuteReceipt(c, key, cut)
    PROVE  TypeInv'
<1> DEFINE x   == [key |-> key, authorization |-> manifests[c], actual |-> cut.actual,
                   before |-> cut.before, sample |-> cut.sample, after |-> cut.after]
           rec == [cases[c] EXCEPT !.execution = x, !.status = "Executed",
                                   !.revision = @ + 1]
<1>1. cases[c] \in CaseRecord /\ cases[c] # None
  BY CaseType DEF ExecuteReceipt, TypeInv, InStatus
<1>2. cut \in Cut
  BY InputAssumption
<1>3. manifests[c] \in Manifest
  BY DEF ExecuteReceipt, TypeInv, TypeOK
<1>4. x \in Execution
  BY <1>2, <1>3 DEF Cut, Execution
<1>5. rec \in CaseRecord /\ rec.core = cases[c].core
  <2> HIDE DEF x
  <2>1. cases[c].revision + 1 \in Revision
    BY <1>1 DEF CaseRecord, Revision
  <2>2. QED
    BY <1>1, <1>4, <2>1 DEF CaseRecord, Status
<1>6. /\ SaveCaseVersion(c, rec)
      /\ executions' = [executions EXCEPT ![c] = x]
      /\ receipts' = [receipts EXCEPT ![<<c, key>>] = x]
  BY DEF ExecuteReceipt
<1>7. /\ executions' \in [Cases -> Execution \cup {None}]
      /\ receipts' \in [Cases \X Keys -> Execution \cup {None}]
  <2> HIDE DEF x
  <2>1. executions' \in [Cases -> Execution \cup {None}]
    BY <1>4, <1>6 DEF TypeInv, TypeOK
  <2>2. receipts' \in [Cases \X Keys -> Execution \cup {None}]
    BY <1>4, <1>6 DEF TypeInv, TypeOK
  <2>3. QED
    BY <2>1, <2>2
<1>8. TypeOK'
  BY <1>5, <1>6, <1>7, SaveCaseVersionType DEF ExecuteReceipt, TypeInv, TypeOK, coreVars
<1>9. CasesOnCores'
  BY <1>1, <1>5, <1>6, SavedCaseOnCore DEF ExecuteReceipt, SaveCaseVersion, coreVars
<1>10. QED
  BY <1>8, <1>9 DEF TypeInv

LEMMA VerificationType ==
    ASSUME TypeInv, NEW c \in Cases, cases[c] # None, NEW key \in Keys,
           NEW seen \in Measurements, NEW verdict \in {"Rejected", "Passed"}
    PROVE  /\ Verification(c, key, seen, verdict) \in Attempt
           /\ Append(attempts[c], Verification(c, key, seen, verdict)) \in Seq(Attempt)
<1>1. cases[c] \in CaseRecord /\ seen \in Measurement
  BY InputAssumption DEF TypeInv, TypeOK
<1>2. Verification(c, key, seen, verdict) \in Attempt
  BY <1>1 DEF Verification, Attempt, CaseRecord, Measurement
<1>3. attempts[c] \in Seq(Attempt)
  BY DEF TypeInv, TypeOK
<1>4. QED
  BY <1>2, <1>3

LEMMA RejectVerificationTyped ==
    ASSUME TypeInv, NEW c \in Cases, NEW key \in Keys, NEW seen \in Measurements,
           RejectVerification(c, key, seen)
    PROVE  TypeInv'
<1>1. cases[c] # None
  BY DEF RejectVerification, InStatus
<1>2. attempts' \in [Cases -> Seq(Attempt)]
  BY <1>1, VerificationType DEF RejectVerification, TypeInv, TypeOK
<1>3. TypeOK'
  BY <1>2 DEF RejectVerification, TypeInv, TypeOK, coreVars, caseVars
<1>4. CasesOnCores'
  BY DEF RejectVerification, TypeInv, CasesOnCores, InStatus, coreVars, caseVars
<1>5. QED
  BY <1>3, <1>4 DEF TypeInv

LEMMA VerifyAndFreezeTyped ==
    ASSUME TypeInv, NEW c \in Cases, NEW key \in Keys, NEW seen \in Measurements,
           VerifyAndFreeze(c, key, seen)
    PROVE  TypeInv'
<1> DEFINE a    == Verification(c, key, seen, "Passed")
           cred == CredentialFor(c, a)
           rec  == [cases[c] EXCEPT !.status = "Frozen", !.revision = @ + 1,
                                    !.credential = cred]
           k    == cases[c].core
           core == [cores[k] EXCEPT !.available = seen.remaining, !.revision = @ + 1]
<1>1. cases[c] \in CaseRecord /\ cases[c] # None /\ c \in InStatus(Status)
  BY CaseType DEF VerifyAndFreeze, TypeInv, InStatus
<1>2. k \in Cores /\ cores[k] \in CoreRecord
  BY <1>1, CoreType
<1>3. cases[c].execution \in Execution
  BY <1>1 DEF VerifyAndFreeze, CaseRecord
<1>4. a \in Attempt /\ Append(attempts[c], a) \in Seq(Attempt)
  BY <1>1, VerificationType
<1>5. cases[c].revision + 1 \in Revision
  BY <1>1 DEF CaseRecord, Revision
<1>6. cred \in Credential
  <2> HIDE DEF a
  <2>1. cases[c].execution.actual \in Segments /\ a.remaining \in Int
    BY <1>3, <1>4 DEF Execution, Attempt
  <2>2. QED
    BY <1>2, <1>3, <1>4, <1>5, <2>1 DEF CredentialFor, Credential
<1>7. rec \in CaseRecord /\ rec.core = cases[c].core
  <2> HIDE DEF cred
  <2>1. QED
    BY <1>1, <1>5, <1>6 DEF CaseRecord, Status
<1>8. core \in CoreRecord
  <2>1. seen.remaining \in Int
    BY InputAssumption DEF Measurement
  <2>2. cores[k].revision + 1 \in Revision
    BY <1>2 DEF CoreRecord, Revision
  <2> HIDE DEF k
  <2>3. QED
    BY <1>2, <2>1, <2>2 DEF CoreRecord
<1>9. /\ SaveCaseVersion(c, rec) /\ SaveCoreVersion(k, core)
      /\ attempts' = [attempts EXCEPT ![c] = Append(@, a)]
      /\ credentials' = credentials \cup {cred}
      /\ UNCHANGED <<findingEvents, prechecks, manifests, executions, receipts>>
  BY DEF VerifyAndFreeze
<1> HIDE DEF a, cred, rec, k, core
<1>10. attempts' \in [Cases -> Seq(Attempt)]
  BY <1>4, <1>9 DEF TypeInv, TypeOK
<1>11. TypeOK'
  BY <1>2, <1>6, <1>7, <1>8, <1>9, <1>10, SaveCaseVersionType, SaveCoreVersionType
     DEF TypeInv, TypeOK
<1>12. \A j \in Cores : cores[j] # None => cores'[j] # None
  BY <1>8, <1>9, NoneAssumption DEF SaveCoreVersion, TypeInv, TypeOK
<1>13. CasesOnCores'
  BY <1>1, <1>7, <1>9, <1>12, SavedCaseOnCore DEF SaveCaseVersion
<1>14. QED
  BY <1>11, <1>13 DEF TypeInv

-----------------------------------------------------------------------------

LEMMA InitTyped == Init => TypeInv
<1>1. SUFFICES ASSUME Init PROVE TypeInv
  OBVIOUS
<1>2. TypeOK
  <2>1. /\ <<>> \in Seq(CoreRecord) /\ <<>> \in Seq(CaseVersion)
        /\ <<>> \in Seq(Attempt)
    OBVIOUS
  <2>2. /\ coreVersions \in [Cores -> Seq(CoreRecord)]
        /\ caseVersions \in [Cases -> Seq(CaseVersion)]
        /\ attempts \in [Cases -> Seq(Attempt)]
    BY <1>1, <2>1 DEF Init
  <2>3. receipts \in [Cases \X Keys -> Execution \cup {None}]
    BY <1>1 DEF Init
  <2>4. QED
    BY <1>1, <2>2, <2>3 DEF Init, TypeOK
<1>3. InStatus(Status) = {}
  <2>1. \A c \in Cases : cases[c] = None
    BY <1>1 DEF Init
  <2>2. QED
    BY <2>1 DEF InStatus
<1>4. QED
  BY <1>2, <1>3 DEF TypeInv, CasesOnCores

\* The step lemmas above, gathered: the types survive every step.
LEMMA NextTyped == TypeInv /\ [Next]_vars => TypeInv'
<1>1. SUFFICES ASSUME TypeInv, [Next]_vars PROVE TypeInv'
  OBVIOUS
<1>2. CASE CoreStep
  BY <1>1, <1>2, RegisterCoreTyped, ReviseCoreTyped DEF CoreStep
<1>3. CASE DraftStep
  BY <1>1, <1>3, CreateCaseTyped, ReviseCaseTyped, PrecheckTyped, SubmitCaseTyped
     DEF DraftStep, InStatus
<1>4. CASE ReviewStep
  BY <1>1, <1>4, ReturnCaseIssuesTyped, CloseFindingTyped, AuthorizeTyped
     DEF ReviewStep, InStatus
<1>5. CASE CutStep
  BY <1>1, <1>5, ExecuteReceiptTyped, RejectVerificationTyped, VerifyAndFreezeTyped
     DEF CutStep, InStatus
<1>6. CASE UNCHANGED vars
  BY <1>1, <1>6 DEF vars, TypeInv, TypeOK, CasesOnCores, InStatus
<1>7. QED
  BY <1>1, <1>2, <1>3, <1>4, <1>5, <1>6 DEF Next

LEMMA TypeInvariant == Spec => []TypeInv
  BY InitTyped, NextTyped, PTL DEF Spec

\* Type correctness: the service stores records of the kinds its store
\* declares, whatever is registered, asked for, cut and measured, and whatever
\* digest a client carries over into a new case.
THEOREM TypeCorrect == Spec => []TypeOK
<1>1. TypeInv => TypeOK
  BY DEF TypeInv
<1>2. QED
  BY <1>1, TypeInvariant, PTL

-----------------------------------------------------------------------------

UnderReview == {"Submitted", "Authorized"}

\* No step forgets a snapshot.
LEMMA PrechecksKept ==
    ASSUME [Next]_vars
    PROVE  prechecks \subseteq prechecks'
<1>1. CASE CoreStep
  BY <1>1 DEF CoreStep, RegisterCore, ReviseCore
<1>2. CASE DraftStep
  BY <1>2 DEF DraftStep, CreateCase, ReviseCase, Precheck, SubmitCase
<1>3. CASE ReviewStep
  BY <1>3 DEF ReviewStep, ReturnCaseIssues, CloseFinding, Authorize
<1>4. CASE CutStep
  BY <1>4 DEF CutStep, ExecuteReceipt, RejectVerification, VerifyAndFreeze
<1>5. QED
  BY <1>1, <1>2, <1>3, <1>4 DEF Next, vars
=============================================================================
