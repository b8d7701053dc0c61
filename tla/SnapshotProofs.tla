--------------------------- MODULE SnapshotProofs ---------------------------
(***************************************************************************)
(* Precheck snapshots: theorems about what the histories still know of the *)
(* inputs of a snapshot, about what is submitted and authorized on one, and*)
(* that one gone stale is never valid again.                               *)
(***************************************************************************)
EXTENDS EvidenceProofs

-----------------------------------------------------------------------------
(***************************************************************************)
(* How far a case has come                                                 *)
(*                                                                         *)
(* A rival's summary is its status, its revision and its request. It can   *)
(* come back to what it was in none of them: every call that changes the   *)
(* summary raises the revision, or moves the case one status on towards    *)
(* the cut, and the two are read as one number.                            *)
(***************************************************************************)

Rank(s) == IF s = "Authorized" THEN 2 ELSE IF s = "Submitted" THEN 1 ELSE 0

\* Of a case record, or of the summary a snapshot keeps of one.
Age(r) == 3 * r.revision + Rank(r.status)

SameSummary(c) ==
    /\ cases'[c].status = cases[c].status /\ cases'[c].revision = cases[c].revision
    /\ cases'[c].requested = cases[c].requested
    /\ cases'[c].estimated = cases[c].estimated

\* What a call about c does to the summary others keep of c.
Progress(c) ==
    \/ cases[c] = None /\ cases'[c] # None
    \/ SameCase(c) /\ SameSummary(c)
    \/ SameCase(c) /\ Age(cases[c]) < Age(cases'[c]) /\ cases'[c].status \notin Terminal
    \/ SameCase(c) /\ Age(cases[c]) < Age(cases'[c]) /\ Advances(cases[c].core)

LEMMA CallProgress ==
    ASSUME TypeInv, NEW c \in Cases, ActsOn(c)
    PROVE  Progress(c)
<1>1. ASSUME NEW k \in Cores, NEW plan \in Plans, NEW digest \in Digests,
             CreateCase(c, k, plan, digest)
      PROVE  Progress(c)
  BY <1>1, CreateCaseEffect DEF Progress
<1>2. ASSUME SameCase(c)
      PROVE  /\ cases[c].revision \in Int /\ cases'[c].revision \in Int
             /\ Rank(cases[c].status) \in 0..2
             /\ cases[c].status \in Editable => Rank(cases[c].status) = 0
             /\ cases[c].status # "Frozen" => cases[c].status \notin Terminal
             /\ cases'[c].status # "Frozen" => cases'[c].status \notin Terminal
             /\ Rank(cases'[c].status) \in 0..2
             /\ cases'[c].status = cases[c].status
                   => Rank(cases'[c].status) = Rank(cases[c].status)
  BY <1>2 DEF SameCase, CaseRecord, Revision, Rank, Editable, Terminal
<1>3. ASSUME NEW plan \in Plans, ReviseCase(c, plan) PROVE Progress(c)
  <2>1. /\ SameCase(c) /\ cases[c].status # "Frozen"
        /\ cases'[c].status = cases[c].status
        /\ cases'[c].revision = cases[c].revision + 1
    BY <1>3, ReviseCaseEffect DEF Editable
  <2>2. QED
    BY <1>2, <2>1 DEF Progress, Age
<1>4. CASE Precheck(c)
  BY <1>4, PrecheckEffect DEF Progress, SameSummary
<1>5. CASE SubmitCase(c)
  BY <1>2, <1>5, SubmitCaseEffect DEF Progress, Age, Rank, Editable, Terminal
<1>6. ASSUME NEW issues \in SUBSET Issues, ReturnCaseIssues(c, issues) PROVE Progress(c)
  <2>1. /\ SameCase(c) /\ cases'[c].status = "Returned"
        /\ cases'[c].revision = cases[c].revision + 1
    BY <1>6, ReturnCaseIssuesEffect
  <2>2. QED
    BY <1>2, <2>1 DEF Progress, Age
<1>7. ASSUME NEW f \in cases[c].findings, CloseFinding(c, f) PROVE Progress(c)
  BY <1>7, CloseFindingEffect DEF Progress, SameSummary
<1>8. CASE Authorize(c)
  BY <1>2, <1>8, AuthorizeEffect DEF Progress, Age, Rank, Terminal
<1>9. ASSUME NEW key \in Keys, NEW cut \in Cuts, ExecuteReceipt(c, key, cut)
      PROVE  Progress(c)
  BY <1>2, <1>9, ExecuteReceiptEffect DEF Progress, Age, Rank, Terminal
<1>10. ASSUME NEW key \in Keys, NEW seen \in Measurements, RejectVerification(c, key, seen)
       PROVE  Progress(c)
  BY <1>10, RejectVerificationEffect DEF Progress, SameSummary
<1>11. ASSUME NEW key \in Keys, NEW seen \in Measurements, VerifyAndFreeze(c, key, seen)
       PROVE  Progress(c)
  <2>1. Advances(cases[c].core)
    BY <1>11, FreezeCoreEffect
  <2>2. Age(cases[c]) < Age(cases'[c]) /\ SameCase(c)
    BY <1>2, <1>11, VerifyAndFreezeEffect DEF Age, Rank
  <2>3. QED
    BY <2>1, <2>2 DEF Progress
<1>12. QED
  BY <1>1, <1>3, <1>4, <1>5, <1>6, <1>7, <1>8, <1>9, <1>10, <1>11 DEF ActsOn

\* A case stays, on its core, and its revision and its age never fall.
LEMMA CaseStays ==
    ASSUME TypeInv, [Next]_vars, NEW c \in Cases, cases[c] # None
    PROVE  /\ cases'[c] # None /\ cases'[c].core = cases[c].core
           /\ Age(cases[c]) <= Age(cases'[c])
<1>1. cases[c].revision \in Int
  BY DEF TypeInv, TypeOK, CaseRecord, Revision
<1>2. CASE Untouched(c)
  BY <1>1, <1>2 DEF Untouched, Age, Rank
<1>3. CASE ActsOn(c)
  <2>1. SameCase(c)
    BY <1>3, CallProgress DEF Progress
  <2>2. cases'[c].revision \in Int
    BY <2>1 DEF SameCase, CaseRecord, Revision
  <2>3. Age(cases[c]) <= Age(cases'[c])
    BY <1>1, <1>3, <2>2, CallProgress DEF Progress, SameSummary, Age, Rank
  <2>4. QED
    BY <2>1, <2>3 DEF SameCase
<1>4. QED
  BY <1>2, <1>3, StepOfCase

-----------------------------------------------------------------------------
(***************************************************************************)
(* What a snapshot was computed from                                       *)
(***************************************************************************)

\* What is listed of rival d in a snapshot of c.
Summary(d) ==
    [case |-> d, status |-> cases[d].status, revision |-> cases[d].revision,
     requested |-> cases[d].requested, estimated |-> cases[d].estimated]

\* Summary a of a rival tells what the rival's history tells of the revision a
\* names, as far as a version is left, and a rival further than it is now is not
\* on any list.
Listed(a) ==
    /\ cases[a.case] # None /\ Age(a) <= Age(cases[a.case])
    /\ a.revision \in DOMAIN caseVersions[a.case]
    /\ caseVersions[a.case][a.revision].requested = a.requested
    /\ caseVersions[a.case][a.revision].estimated = a.estimated
    /\ IF a.status \in Unversioned
       THEN caseVersions[a.case][a.revision].status \in Editable
       ELSE caseVersions[a.case][a.revision].status = a.status

\* What snapshot p says of its case, its core and the rivals it lists stands in
\* the histories under the revisions p names.
Known(p) ==
    /\ cases[p.case] # None /\ cases[p.case].core = p.coreId
    /\ p.core.revision \in DOMAIN coreVersions[p.coreId]
    /\ coreVersions[p.coreId][p.core.revision] = p.core
    /\ p.caseRevision \in DOMAIN caseVersions[p.case]
    /\ caseVersions[p.case][p.caseRevision].requested = p.requested
    /\ caseVersions[p.case][p.caseRevision].estimated = p.estimated
    /\ \A a \in p.active : Listed(a)

SnapshotsKnown == \A p \in prechecks : Known(p)

LEMMA ExtendsKeeps ==
    ASSUME NEW S, NEW s \in Seq(S), NEW t \in Seq(S), Extends(s, t), NEW i \in DOMAIN s
    PROVE  i \in DOMAIN t /\ t[i] = s[i]
<1> DEFINE u == SubSeq(t, 1, Len(s))
<1>1. Len(s) \in Nat /\ Len(t) \in Nat /\ Len(s) <= Len(t) /\ i \in 1..Len(s)
  BY DEF Extends
<1>2. i \in DOMAIN t /\ \A j \in 1..Len(s) : t[j] \in S
  BY <1>1
<1>3. \A j \in 1..(Len(s) - 1 + 1) : u[j] = t[1 + j - 1]
  BY <1>1, <1>2, SubSeqProperties
<1>4. u = s
  BY DEF Extends
<1>5. QED
  BY <1>1, <1>2, <1>3, <1>4

LEMMA LastOfCaseHistory ==
    ASSUME TypeInv, Histories, NEW c \in Cases, cases[c] # None
    PROVE  cases[c].revision \in DOMAIN caseVersions[c]
<1>1. CaseGapless(c)
  BY DEF Histories
<1>2. caseVersions[c] \in Seq(CaseVersion) /\ cases[c].revision \in Revision
  BY DEF TypeInv, TypeOK, CaseRecord
<1>3. QED
  BY <1>1, <1>2 DEF CaseGapless, Revision

\* What Precheck stores is known when it is stored.
LEMMA FreshIsKnown ==
    ASSUME TypeInv, Histories, NEW c \in InStatus(Status)
    PROVE  Known(PrecheckSnapshot(c))
<1> DEFINE p == PrecheckSnapshot(c)
           k == cases[c].core
<1>1. c \in Cases /\ cases[c] # None /\ cases[c] \in CaseRecord
  BY CaseType DEF TypeInv, InStatus
<1>2. k \in Cores /\ cores[k] \in CoreRecord /\ cores[k] # None
  BY CoreType, NoneAssumption
<1>3. /\ cores[k].revision \in DOMAIN coreVersions[k]
      /\ coreVersions[k][cores[k].revision] = cores[k]
  BY <1>2, LastOfHistory DEF Histories
<1>4. CaseGapless(c)
  BY <1>1 DEF Histories
<1>5. cases[c].revision \in DOMAIN caseVersions[c]
  BY <1>1, LastOfCaseHistory
<1>6. ASSUME NEW a \in p.active
      PROVE  Listed(a)
  <2>1. PICK d \in InStatus(Status \ Terminal) :
            a = [case |-> d, status |-> cases[d].status, revision |-> cases[d].revision,
                 requested |-> cases[d].requested, estimated |-> cases[d].estimated]
    BY <1>6 DEF PrecheckSnapshot, ActiveSummaries
  <2>2. /\ a.case = d /\ a.status = cases[d].status /\ a.revision = cases[d].revision
        /\ a.requested = cases[d].requested /\ a.estimated = cases[d].estimated
        /\ d \in Cases /\ cases[d] # None /\ cases[d] \in CaseRecord
    BY <2>1, CaseType DEF TypeInv, InStatus
  <2>3. cases[d].revision \in Int
    BY <2>2 DEF CaseRecord, Revision
  <2>4. Age(a) <= Age(cases[a.case])
    BY <2>2, <2>3 DEF Age, Rank
  <2>5. CaseGapless(d) /\ cases[d].revision \in DOMAIN caseVersions[d]
    BY <2>2, LastOfCaseHistory DEF Histories
  <2>6. QED
    BY <2>2, <2>4, <2>5 DEF Listed, CaseGapless
<1>7. /\ p.case = c /\ p.caseRevision = cases[c].revision /\ p.coreId = k
      /\ p.core = cores[k] /\ p.requested = cases[c].requested
      /\ p.estimated = cases[c].estimated
  BY DEF PrecheckSnapshot
<1> HIDE DEF p, k
<1>8. Known(p)
  BY <1>1, <1>3, <1>4, <1>5, <1>6, <1>7 DEF Known, CaseGapless, k
<1>9. QED
  BY <1>8 DEF p

LEMMA KnownStays ==
    ASSUME TypeInv, TypeInv', Chains, [Next]_vars, NEW p \in Snapshot, Known(p)
    PROVE  Known(p)'
<1>1. p.case \in Cases /\ p.coreId \in Cores /\ p.active \in SUBSET ActiveCaseSummary
  BY DEF Snapshot
<1>2. /\ coreVersions[p.coreId] \in Seq(CoreRecord)
      /\ coreVersions'[p.coreId] \in Seq(CoreRecord)
      /\ caseVersions[p.case] \in Seq(CaseVersion)
      /\ caseVersions'[p.case] \in Seq(CaseVersion)
  BY <1>1 DEF TypeInv, TypeOK
<1>3. /\ p.core.revision \in DOMAIN coreVersions'[p.coreId]
      /\ coreVersions'[p.coreId][p.core.revision] = p.core
  BY <1>1, <1>2, CoreHistoryExtends, ExtendsKeeps DEF Known
<1>4. /\ p.caseRevision \in DOMAIN caseVersions'[p.case]
      /\ caseVersions'[p.case][p.caseRevision] = caseVersions[p.case][p.caseRevision]
  BY <1>1, <1>2, EvidenceStep, ExtendsKeeps DEF Known, EvidenceKept
<1>5. cases'[p.case] # None /\ cases'[p.case].core = p.coreId
  BY <1>1, CaseStays DEF Known
<1>6. ASSUME NEW a \in p.active
      PROVE  Listed(a)'
  <2>1. a.case \in Cases /\ a.revision \in Int
    BY <1>1 DEF ActiveCaseSummary, Revision
  <2>2. cases[a.case] # None /\ Age(a) <= Age(cases[a.case]) /\ Listed(a)
    BY DEF Known, Listed
  <2>3. cases'[a.case] # None /\ Age(cases[a.case]) <= Age(cases'[a.case])
    BY <2>1, <2>2, CaseStays
  <2>4. cases[a.case].revision \in Int /\ cases'[a.case].revision \in Int
    BY <2>1, <2>2, <2>3 DEF TypeInv, TypeOK, CaseRecord, Revision
  <2>5. Age(a) \in Int /\ Age(cases[a.case]) \in Int /\ Age(cases'[a.case]) \in Int
    BY <2>1, <2>4 DEF Age, Rank
  <2>6. Age(a) <= Age(cases'[a.case])
    BY <2>2, <2>3, <2>5
  <2>7. /\ caseVersions[a.case] \in Seq(CaseVersion)
        /\ caseVersions'[a.case] \in Seq(CaseVersion)
        /\ Extends(caseVersions[a.case], caseVersions'[a.case])
    BY <2>1, EvidenceStep DEF TypeInv, TypeOK, EvidenceKept
  <2>8. /\ a.revision \in DOMAIN caseVersions'[a.case]
        /\ caseVersions'[a.case][a.revision] = caseVersions[a.case][a.revision]
    BY <2>2, <2>7, ExtendsKeeps DEF Listed
  <2>9. QED
    BY <2>2, <2>3, <2>6, <2>8 DEF Listed
<1>7. QED
  BY <1>3, <1>4, <1>5, <1>6 DEF Known

\* Only Precheck stores a snapshot, and it stores the one of the moment.
LEMMA NewSnapshot ==
    ASSUME [Next]_vars, NEW p \in prechecks', p \notin prechecks
    PROVE  \E c \in InStatus(Editable) : p = PrecheckSnapshot(c)
<1>1. CASE UNCHANGED prechecks
  BY <1>1
<1>2. CASE CoreStep
  BY <1>1, <1>2 DEF CoreStep, RegisterCore, ReviseCore
<1>3. CASE DraftStep
  BY <1>1, <1>3 DEF DraftStep, CreateCase, ReviseCase, Precheck, SubmitCase
<1>4. CASE ReviewStep
  BY <1>1, <1>4 DEF ReviewStep, ReturnCaseIssues, CloseFinding, Authorize
<1>5. CASE CutStep
  BY <1>1, <1>5 DEF CutStep, ExecuteReceipt, RejectVerification, VerifyAndFreeze
<1>6. QED
  BY <1>1, <1>2, <1>3, <1>4, <1>5 DEF Next, vars

LEMMA KnownStep ==
    ASSUME TypeInv, TypeInv', Chains, Histories, SnapshotsKnown, [Next]_vars
    PROVE  SnapshotsKnown'
<1>1. SUFFICES ASSUME NEW p \in prechecks' PROVE Known(p)'
  BY DEF SnapshotsKnown
<1>2. p \in Snapshot
  BY DEF TypeInv, TypeOK
<1>3. Known(p)
  <2>1. CASE p \in prechecks
    BY <2>1 DEF SnapshotsKnown
  <2>2. CASE p \notin prechecks
    <3>1. PICK c \in InStatus(Editable) : p = PrecheckSnapshot(c)
      BY <2>2, NewSnapshot
    <3>2. c \in InStatus(Status)
      BY CaseType DEF TypeInv
    <3>3. QED
      BY <3>1, <3>2, FreshIsKnown
  <2>3. QED
    BY <2>1, <2>2
<1>4. QED
  BY <1>2, <1>3, KnownStays

LEMMA KnownInvariant == Spec => []SnapshotsKnown
<1>1. Init => SnapshotsKnown
  BY DEF Init, SnapshotsKnown
<1>2. /\ TypeInv /\ TypeInv' /\ Chains /\ Histories /\ SnapshotsKnown /\ [Next]_vars
      => SnapshotsKnown'
  BY KnownStep
<1>3. QED
  BY <1>1, <1>2, TypeInvariant, ChainsInvariant, HistoriesInvariant, PTL DEF Spec

\* Two snapshots with the same inputs are one.
LEMMA SameInputs ==
    ASSUME NEW p \in Snapshot, NEW q \in Snapshot,
           p.case = q.case, p.caseRevision = q.caseRevision, p.coreId = q.coreId,
           p.core = q.core, p.requested = q.requested, p.estimated = q.estimated,
           p.active = q.active
    PROVE  p = q
  BY DEF Snapshot

\* As long as case and core keep the revisions a snapshot names, they keep
\* everything the snapshot was computed from.
LEMMA RevisionsTell ==
    ASSUME TypeInv, Histories, NEW p \in Snapshot, Known(p),
           cases[p.case].revision = p.caseRevision
    PROVE  /\ cases[p.case].requested = p.requested
           /\ cases[p.case].estimated = p.estimated
           /\ cores[p.coreId].revision = p.core.revision => cores[p.coreId] = p.core
           /\ p.case \in InStatus(Status) /\ cores[p.coreId] # None
<1>1. p.case \in Cases /\ p.coreId \in Cores
  BY DEF Snapshot
<1>2. CaseGapless(p.case)
  BY <1>1 DEF Known, Histories
<1>3. cases[p.case].status \in Status
  BY <1>1 DEF Known, TypeInv, TypeOK, CaseRecord
<1>4. p.case \in InStatus(Status) /\ cores[p.coreId] # None
  BY <1>1, <1>3 DEF Known, InStatus, TypeInv, CasesOnCores
<1>5. coreVersions[p.coreId][cores[p.coreId].revision] = cores[p.coreId]
  BY <1>1, <1>4, LastOfHistory DEF Histories
<1>6. QED
  BY <1>2, <1>4, <1>5 DEF Known, CaseGapless

\* What a snapshot says of its core, of its own case and of every rival it lists
\* can be looked up in the histories, but for a rival's submission and
\* authorization, which leave no version; and its inputs never differ from the
\* records in force without a revision or an active case that says why.
THEOREM PrechecksTraceable == Spec => []SnapshotsTraceable
<1>1. ASSUME TypeInv, Histories, SnapshotsKnown, NEW p \in prechecks
      PROVE  ChangeSources(p) # {"caseInputs"}
  <2> DEFINE now == PrecheckSnapshot(p.case)
  <2>1. p \in Snapshot /\ Known(p)
    BY <1>1 DEF TypeInv, TypeOK, SnapshotsKnown
  <2>2. /\ now.case = p.case /\ now.coreId = cases[p.case].core
        /\ now.caseRevision = cases[p.case].revision
        /\ now.core = cores[cases[p.case].core]
        /\ now.requested = cases[p.case].requested
        /\ now.estimated = cases[p.case].estimated
    BY DEF PrecheckSnapshot
  <2> HIDE DEF now
  <2>3. ASSUME now.caseRevision = p.caseRevision,
               now.core.revision = p.core.revision,
               now.active = p.active
        PROVE  now = p
    <3>1. cases[p.case].core = p.coreId
      BY <2>1 DEF Known
    <3>2. /\ now.requested = p.requested /\ now.estimated = p.estimated
          /\ now.core = p.core /\ p.case \in InStatus(Status)
      BY <1>1, <2>1, <2>2, <2>3, <3>1, RevisionsTell
    <3>3. now \in Snapshot
      BY <1>1, <3>2, SnapshotType DEF now
    <3>4. QED
      BY <2>1, <2>2, <2>3, <3>1, <3>2, <3>3, SameInputs
  <2>4. QED
    BY <2>3 DEF ChangeSources, now
<1>2. TypeInv /\ Histories /\ SnapshotsKnown => SnapshotsTraceable
  BY <1>1 DEF SnapshotsKnown, Known, Listed, SnapshotsTraceable
<1>3. QED
  BY <1>2, TypeInvariant, HistoriesInvariant, KnownInvariant, PTL

-----------------------------------------------------------------------------
(***************************************************************************)
(* Competing cases                                                         *)
(*                                                                         *)
(* SubmitCase and Authorize trust the snapshot whose digest the case       *)
(* carries. On the core of the case the snapshot speaks for now, because   *)
(* one without change sources equals the one Precheck would take at this   *)
(* moment; and it speaks for the case, because a snapshot brought along    *)
(* from another case of the core does not list the newcomer among its      *)
(* rivals, as it would have to in order to be current.                     *)
(***************************************************************************)

\* The digest c carries is that of a stored snapshot, taken of c itself or
\* before there was such a case.
CarriedBy(c) ==
    cases[c] # None /\ cases[c].precheck # None =>
        /\ cases[c].precheck \in prechecks
        /\ \/ cases[c].precheck.case = c
           \/ \A a \in cases[c].precheck.active : a.case # c

DigestsCarried == \A c \in Cases : CarriedBy(c)

LEMMA CarriedStep ==
    ASSUME TypeInv, SnapshotsKnown, NEW c \in Cases, CarriedBy(c), [Next]_vars
    PROVE  CarriedBy(c)'
<1>1. ASSUME cases'[c].precheck = cases[c].precheck, cases[c] # None
      PROVE  CarriedBy(c)'
  BY <1>1, PrechecksKept DEF CarriedBy
<1>2. ASSUME cases'[c].precheck = None
      PROVE  CarriedBy(c)'
  BY <1>2 DEF CarriedBy
<1>3. ASSUME NEW k \in Cores, NEW plan \in Plans, NEW digest \in Digests,
             CreateCase(c, k, plan, digest)
      PROVE  CarriedBy(c)'
  <2>1. cases[c] = None /\ cases'[c].precheck = digest /\ prechecks' = prechecks
    BY <1>3, CreateCaseEffect DEF CreateCase
  <2>2. CASE digest \in prechecks
    <3>1. Known(digest)
      BY <2>2 DEF SnapshotsKnown
    <3>2. \A a \in digest.active : a.case # c
      BY <2>1, <3>1 DEF Known, Listed
    <3>3. QED
      BY <2>1, <2>2, <3>2 DEF CarriedBy
  <2>3. QED
    BY <1>2, <2>1, <2>2 DEF Digests
<1>4. CASE Precheck(c)
  <2>1. cases'[c].precheck = PrecheckSnapshot(c) /\ PrecheckSnapshot(c) \in prechecks'
    BY <1>4, PrecheckEffect DEF Precheck
  <2>2. PrecheckSnapshot(c).case = c
    BY DEF PrecheckSnapshot
  <2>3. QED
    BY <2>1, <2>2 DEF CarriedBy
<1>5. CASE ActsOn(c)
  BY <1>1, <1>2, <1>3, <1>4, <1>5, ReviseCaseEffect, SubmitCaseEffect,
     ReturnCaseIssuesEffect, CloseFindingEffect, AuthorizeEffect, ExecuteReceiptEffect,
     RejectVerificationEffect, VerifyAndFreezeEffect DEF ActsOn, SameCase
<1>6. CASE Untouched(c)
  BY <1>6, PrechecksKept DEF Untouched, CarriedBy
<1>7. QED
  BY <1>5, <1>6, StepOfCase

LEMMA CarriedInvariant == Spec => []DigestsCarried
<1>1. Init => DigestsCarried
  BY DEF Init, DigestsCarried, CarriedBy
<1>2. TypeInv /\ SnapshotsKnown /\ DigestsCarried /\ [Next]_vars => DigestsCarried'
  BY CarriedStep DEF DigestsCarried
<1>3. QED
  BY <1>1, <1>2, TypeInvariant, KnownInvariant, PTL DEF Spec

\* What a case is submitted or authorized on, if it is of the case's own core,
\* is what Precheck would store at this moment.
LEMMA CurrentIsOwn ==
    ASSUME TypeInv, SnapshotsKnown, DigestsCarried, NEW c \in InStatus(Status \ Terminal),
           RequireCurrentPrecheck(c), OnItsCore(c)
    PROVE  cases[c].precheck = PrecheckSnapshot(c)
<1> DEFINE p == cases[c].precheck
<1>1. /\ p \in prechecks /\ ChangeSources(p) = {} /\ p.coreId = cases[c].core
      /\ c \in Cases /\ cases[c] # None
  BY DEF RequireCurrentPrecheck, OnItsCore, InStatus
<1>2. PrecheckSnapshot(p.case) = p
  BY <1>1 DEF ChangeSources
<1>3. CASE p.case = c
  BY <1>2, <1>3
<1>4. CASE p.case # c
  <2>1. cases[p.case].core = cases[c].core
    BY <1>1 DEF SnapshotsKnown, Known
  <2>2. Summary(c) \in ActiveSummaries(p.case) /\ Summary(c).case = c
    BY <1>4, <2>1 DEF ActiveSummaries, Summary
  <2>3. Summary(c) \in p.active
    BY <1>2, <2>2 DEF PrecheckSnapshot
  <2>4. p # None
    BY <1>1, NoneAssumption DEF TypeInv, TypeOK
  <2>5. QED
    BY <1>1, <1>4, <2>2, <2>3, <2>4 DEF DigestsCarried, CarriedBy
<1>5. QED
  BY <1>3, <1>4

\* c was past its review before the step, on the same precheck and with the
\* same request.
Settled(c) ==
    /\ c \in InStatus(Committed)
    /\ cases'[c].core = cases[c].core /\ cases'[c].requested = cases[c].requested
    /\ cases'[c].precheck = cases[c].precheck
    /\ cases'[c].status \in UnderReview =>
          /\ cases[c].status \in UnderReview
          /\ cases'[c].revision = cases[c].revision
          /\ cases'[c].estimated = cases[c].estimated

\* Only a submission adds a case to those past their review.
LEMMA OnlySubmitCommits ==
    ASSUME TypeInv, [Next]_vars, NEW c \in InStatus(Committed)'
    PROVE  Settled(c) \/ SubmitCase(c)
<1> USE DEF Committed, UnderReview, Editable, Returnable
<1>1. c \in Cases /\ cases'[c] # None /\ cases'[c].status \in Committed
  BY DEF InStatus
<1>2. CASE Untouched(c)
  BY <1>1, <1>2 DEF Untouched, Settled, InStatus
<1>3. CASE ActsOn(c)
  <2>1. ASSUME Authorize(c) PROVE Settled(c)
    BY <1>1, <2>1, AuthorizeEffect DEF Settled, InStatus, SameCase
  <2>2. ASSUME NEW key \in Keys, NEW cut \in Cuts, ExecuteReceipt(c, key, cut)
        PROVE  Settled(c)
    BY <1>1, <2>2, ExecuteReceiptEffect DEF Settled, InStatus, SameCase
  <2>3. ASSUME NEW key \in Keys, NEW seen \in Measurements,
               RejectVerification(c, key, seen)
        PROVE  Settled(c)
    BY <1>1, <2>3, RejectVerificationEffect DEF Settled, InStatus, SameCase
  <2>4. QED
    BY <1>1, <1>3, <2>1, <2>2, <2>3, CreateCaseEffect, ReviseCaseEffect, PrecheckEffect,
       ReturnCaseIssuesEffect, CloseFindingEffect, VerifyAndFreezeEffect DEF ActsOn
<1>4. QED
  BY <1>1, <1>2, <1>3, StepOfCase

\* A case that is submitted on a snapshot of its core asks for no depth that
\* another case of the core, past its own review, asks for: the snapshot lists it.
LEMMA SubmittedApart ==
    ASSUME TypeInv, SnapshotsKnown, DigestsCarried, NEW c \in Cases, SubmitCase(c),
           OnItsCore(c), NEW d \in InStatus(Committed), d # c,
           cases[d].core = cases[c].core
    PROVE  /\ Apart(cases[c].requested, cases[d].requested)
           /\ Apart(cases[d].requested, cases[c].requested)
<1> DEFINE p == cases[c].precheck
<1>1. c \in InStatus(Status \ Terminal)
  BY DEF SubmitCase, InStatus, Editable, Status, Terminal
<1>2. RequireCurrentPrecheck(c)
  BY DEF SubmitCase
<1>3. p = PrecheckSnapshot(c)
  BY <1>1, <1>2, CurrentIsOwn
<1>4. p.requested = cases[c].requested /\ p.active = ActiveSummaries(c)
  BY <1>3 DEF PrecheckSnapshot
<1>5. Summary(d) \in ActiveSummaries(c) /\ Summary(d).requested = cases[d].requested
  BY DEF ActiveSummaries, Summary, InStatus, Committed, Status, Terminal
<1>6. Apart(p.requested, Summary(d).requested)
  BY <1>2, <1>4, <1>5 DEF RequireCurrentPrecheck, Passes
<1>7. Apart(cases[c].requested, cases[d].requested)
  BY <1>4, <1>5, <1>6
<1>8. QED
  BY <1>7 DEF Apart, Overlap

LEMMA DisjointStep ==
    ASSUME TypeInv, SnapshotsKnown, DigestsCarried, SubmittedRequestsDisjoint, [Next]_vars
    PROVE  SubmittedRequestsDisjoint'
<1>1. SUFFICES ASSUME NEW c \in InStatus(Committed)', NEW d \in InStatus(Committed)',
                      c # d, cases'[c].core = cases'[d].core, OnItsCore(c)', OnItsCore(d)'
               PROVE  Apart(cases'[c].requested, cases'[d].requested)
  BY DEF SubmittedRequestsDisjoint
<1>2. c \in Cases /\ d \in Cases
  BY DEF InStatus
<1>3. CASE Settled(c) /\ Settled(d)
  BY <1>1, <1>3 DEF Settled, OnItsCore, SubmittedRequestsDisjoint
<1>4. ASSUME NEW s \in {c, d}, SubmitCase(s), NEW e \in {c, d} \ {s}
      PROVE  /\ Apart(cases'[s].requested, cases'[e].requested)
             /\ Apart(cases'[e].requested, cases'[s].requested)
  <2>1. ActsOn(s) /\ s \in Cases /\ e \in Cases
    BY <1>2, <1>4 DEF ActsOn
  <2>2. /\ cases'[s].core = cases[s].core /\ cases'[s].requested = cases[s].requested
        /\ cases'[s].precheck = cases[s].precheck
    BY <1>4, <2>1, SubmitCaseEffect DEF SameCase
  <2>3. cases'[e] = cases[e]
    BY <1>4, <2>1, OthersUntouched DEF Untouched
  <2>4. OnItsCore(s) /\ e \in InStatus(Committed) /\ cases[e].core = cases[s].core
    BY <1>1, <1>4, <2>2, <2>3 DEF OnItsCore, InStatus
  <2>5. QED
    BY <1>4, <2>1, <2>2, <2>3, <2>4, SubmittedApart
<1>5. QED
  BY <1>1, <1>3, <1>4, OnlySubmitCommits

\* No two cases of a core that are past their review and not yet frozen, each on
\* a snapshot of that core, ask for the same depth: however many cases compete,
\* in whatever order they are drafted, prechecked, revised, returned and
\* submitted, and whatever digests new cases bring along.
THEOREM RequestsDisjoint == Spec => []SubmittedRequestsDisjoint
<1>1. Init => SubmittedRequestsDisjoint
  BY DEF Init, SubmittedRequestsDisjoint, InStatus
<1>2. /\ TypeInv /\ SnapshotsKnown /\ DigestsCarried /\ SubmittedRequestsDisjoint
      /\ [Next]_vars
      => SubmittedRequestsDisjoint'
  BY DisjointStep
<1>3. QED
  BY <1>1, <1>2, TypeInvariant, KnownInvariant, CarriedInvariant, PTL DEF Spec

\* c goes by a stored, passing snapshot, and if that is one of its core, by one
\* of itself as it is.
Reviewed(c) ==
    LET p == cases[c].precheck
    IN /\ p \in prechecks
       /\ Passes(p)
       /\ OnItsCore(c) =>
             /\ p.case = c /\ p.caseRevision = cases[c].revision
             /\ p.requested = cases[c].requested /\ p.estimated = cases[c].estimated

LEMMA ReviewedStep ==
    ASSUME TypeInv, SnapshotsKnown, DigestsCarried, ReviewedAsPrechecked, [Next]_vars
    PROVE  ReviewedAsPrechecked'
<1>1. SUFFICES ASSUME NEW c \in InStatus(UnderReview)' PROVE Reviewed(c)'
  BY DEF ReviewedAsPrechecked, Reviewed, UnderReview, Passes, OnItsCore
<1>2. c \in Cases /\ cases'[c].status \in UnderReview /\ c \in InStatus(Committed)'
  BY DEF InStatus, UnderReview, Committed
<1>3. CASE Settled(c)
  <2>1. c \in InStatus(UnderReview)
    BY <1>2, <1>3 DEF Settled, InStatus
  <2>2. Reviewed(c)
    BY <2>1 DEF ReviewedAsPrechecked, Reviewed, UnderReview
  <2>3. QED
    BY <1>2, <1>3, <2>2, PrechecksKept DEF Settled, Reviewed, OnItsCore, Passes
<1>4. CASE SubmitCase(c)
  <2>1. /\ RequireCurrentPrecheck(c) /\ prechecks' = prechecks
        /\ c \in InStatus(Status \ Terminal)
    BY <1>4 DEF SubmitCase, InStatus, Editable, Status, Terminal
  <2>2. /\ cases'[c].core = cases[c].core /\ cases'[c].requested = cases[c].requested
        /\ cases'[c].precheck = cases[c].precheck
        /\ cases'[c].revision = cases[c].revision /\ cases'[c].estimated = cases[c].estimated
    BY <1>2, <1>4, SubmitCaseEffect DEF SameCase
  <2>3. OnItsCore(c) => cases[c].precheck = PrecheckSnapshot(c)
    BY <2>1, CurrentIsOwn
  <2>4. Reviewed(c)
    BY <2>1, <2>3 DEF Reviewed, RequireCurrentPrecheck, PrecheckSnapshot
  <2>5. QED
    BY <2>1, <2>2, <2>4 DEF Reviewed, OnItsCore, Passes
<1>5. QED
  BY <1>2, <1>3, <1>4, OnlySubmitCommits

\* Whatever reaches the reviewer or the saw carries a stored snapshot with a
\* passing verdict; and one of its own core was taken of this very case at its
\* present revision, though a new case may bring the digest of another along.
THEOREM ReviewRestsOnPrecheck == Spec => []ReviewedAsPrechecked
<1>1. Init => ReviewedAsPrechecked
  BY DEF Init, ReviewedAsPrechecked, InStatus
<1>2. /\ TypeInv /\ SnapshotsKnown /\ DigestsCarried /\ ReviewedAsPrechecked /\ [Next]_vars
      => ReviewedAsPrechecked'
  BY ReviewedStep
<1>3. QED
  BY <1>1, <1>2, TypeInvariant, KnownInvariant, CarriedInvariant, PTL DEF Spec

\* No submission and no authorization on a snapshot of the case's core overlooks
\* what has been protected, requested or taken since: a precheck at that very
\* moment would pass.
THEOREM ApprovalsArePresent == Spec => ApprovedOnThePresent
<1>1. ASSUME TypeInv, SnapshotsKnown, DigestsCarried, [Next]_vars, NEW c \in InStatus(Status),
             cases'[c].status \in {"Submitted", "Authorized"} \ {cases[c].status},
             OnItsCore(c)
      PROVE  Passes(PrecheckSnapshot(c))
  <2>1. c \in Cases /\ cases[c] # None
    BY DEF InStatus
  <2>2. ActsOn(c)
    BY <1>1, <2>1, StepOfCase DEF Untouched
  <2>3. SubmitCase(c) \/ Authorize(c)
    BY <1>1, <2>1, <2>2, CreateCaseEffect, ReviseCaseEffect, PrecheckEffect,
       ReturnCaseIssuesEffect, CloseFindingEffect, ExecuteReceiptEffect,
       RejectVerificationEffect, VerifyAndFreezeEffect DEF ActsOn
  <2>4. RequireCurrentPrecheck(c) /\ c \in InStatus(Status \ Terminal)
    BY <2>3 DEF SubmitCase, Authorize, InStatus, Editable, Status, Terminal
  <2>5. cases[c].precheck = PrecheckSnapshot(c)
    BY <1>1, <2>4, CurrentIsOwn
  <2>6. QED
    BY <2>4, <2>5 DEF RequireCurrentPrecheck
<1>2. TypeInv /\ SnapshotsKnown /\ DigestsCarried /\ [Next]_vars
      => [\A c \in InStatus(Status) :
             cases'[c].status \in {"Submitted", "Authorized"} \ {cases[c].status} =>
                 (OnItsCore(c) => Passes(PrecheckSnapshot(c)))]_vars
  BY <1>1
<1>3. QED
  BY <1>2, TypeInvariant, KnownInvariant, CarriedInvariant, PTL
     DEF Spec, ApprovedOnThePresent

-----------------------------------------------------------------------------
(***************************************************************************)
(* Stale for ever                                                          *)
(***************************************************************************)

Rival(d, c) == /\ cases[d] # None /\ cases[d].status \in Status \ Terminal
               /\ d # c /\ cases[d].core = cases[c].core

LEMMA ActiveMeans ==
    ASSUME NEW c, NEW a
    PROVE  a \in ActiveSummaries(c) <=> \E d \in Cases : Rival(d, c) /\ a = Summary(d)
  BY DEF ActiveSummaries, Rival, Summary, InStatus

\* If no rival comes, goes or changes, neither does the list.
LEMMA ActiveStays ==
    ASSUME NEW c \in Cases,
           \A d \in Cases \ {c} : /\ Rival(d, c)' <=> Rival(d, c)
                                  /\ Rival(d, c) => Summary(d)' = Summary(d)
    PROVE  ActiveSummaries(c)' = ActiveSummaries(c)
<1>1. ASSUME NEW a
      PROVE  a \in ActiveSummaries(c)' <=> \E d \in Cases : Rival(d, c)' /\ a = Summary(d)'
  BY DEF ActiveSummaries, Rival, Summary, InStatus
<1>2. \A d \in Cases : (Rival(d, c) \/ Rival(d, c)') => d # c
  BY DEF Rival
<1>3. \A a : a \in ActiveSummaries(c)' <=> a \in ActiveSummaries(c)
  BY <1>1, <1>2, ActiveMeans
<1>4. QED
  BY <1>3 DEF ActiveSummaries

\* A call about another case that leaves snapshot p with the core and the
\* rivals it lists has left the rivals as they were: a new rival, or one that
\* came further, is not on the list of p, and a freeze writes the core.
LEMMA RivalsOfCurrent ==
    ASSUME TypeInv, NEW p \in Snapshot, Known(p), NEW e \in Cases \ {p.case}, ActsOn(e),
           CoreUntouched(p.coreId),
           ActiveSummaries(p.case)' = p.active
    PROVE  ActiveSummaries(p.case)' = ActiveSummaries(p.case)
<1> DEFINE c == p.case
           k == p.coreId
<1>1. c \in Cases /\ k \in Cores /\ p.active \in SUBSET ActiveCaseSummary
  BY DEF Snapshot
<1>2. /\ \A d \in Cases \ {e} : cases'[d] = cases[d]
      /\ cases[c].core = k /\ cases'[c].core = k
  BY <1>1, OthersUntouched DEF Untouched, Known
<1>3. ASSUME NEW d \in Cases \ {c, e}
      PROVE  /\ Rival(d, c)' <=> Rival(d, c)
             /\ Rival(d, c) => Summary(d)' = Summary(d)
  BY <1>2, <1>3 DEF Rival, Summary
<1>4. ASSUME Rival(e, c)'
      PROVE  cases[e] # None /\ Age(cases'[e]) <= Age(cases[e])
  <2>1. Summary(e)' \in p.active
    <3>1. Summary(e)' \in ActiveSummaries(c)'
      BY <1>4 DEF ActiveSummaries, Rival, Summary, InStatus
    <3>2. QED
      BY <3>1
  <2>2. /\ Summary(e)'.case = e /\ Summary(e)'.status = cases'[e].status
        /\ Summary(e)'.revision = cases'[e].revision
    BY DEF Summary
  <2>3. cases[e] # None /\ Age(Summary(e)') <= Age(cases[e])
    BY <2>1, <2>2 DEF Known, Listed
  <2>4. Age(Summary(e)') = Age(cases'[e])
    BY <2>2 DEF Age
  <2>5. QED
    BY <2>3, <2>4
<1>5. /\ Rival(e, c)' <=> Rival(e, c)
      /\ Rival(e, c) => Summary(e)' = Summary(e)
  <2>1. CASE cases[e] = None /\ cases'[e] # None
    BY <1>4, <2>1 DEF Rival
  <2>2. CASE SameCase(e) /\ SameSummary(e)
    BY <1>2, <2>2 DEF SameCase, SameSummary, Rival, Summary
  <2>3. CASE SameCase(e) /\ Age(cases[e]) < Age(cases'[e])
    <3>1. Age(cases[e]) \in Int /\ Age(cases'[e]) \in Int
      BY <2>3 DEF SameCase, CaseRecord, Revision, Age, Rank
    <3>2. ~Rival(e, c)'
      BY <1>4, <2>3, <3>1
    <3>3. CASE cases'[e].status \notin Terminal
      <4>1. cases'[e].status \in Status /\ cases'[e].core = cases[e].core /\ cases'[e] # None
        BY <2>3 DEF SameCase, CaseRecord
      <4>2. QED
        BY <1>2, <3>2, <3>3, <4>1 DEF Rival
    <3>4. CASE Advances(cases[e].core)
      <4>1. ASSUME cases[e].core = k PROVE FALSE
        <5>1. cores[k] # None => cores[k].revision \in Int
          BY <1>1 DEF TypeInv, TypeOK, CoreRecord, Revision
        <5>2. QED
          BY <3>4, <4>1, <5>1 DEF Advances, CoreUntouched
      <4>2. QED
        BY <1>2, <3>2, <4>1 DEF Rival
    <3>5. QED
      BY <2>1, <2>2, <2>3, <3>3, <3>4, CallProgress DEF Progress
  <2>4. QED
    BY <2>1, <2>2, <2>3, CallProgress DEF Progress
<1>6. \A d \in Cases \ {c} : /\ Rival(d, c)' <=> Rival(d, c)
                             /\ Rival(d, c) => Summary(d)' = Summary(d)
  BY <1>3, <1>5
<1>7. QED
  BY <1>1, <1>6, ActiveStays

\* A snapshot that is current after a step was current before it.
LEMMA CurrentBefore ==
    ASSUME TypeInv, TypeInv', Chains, Histories, Histories', SnapshotsKnown, [Next]_vars,
           NEW p \in prechecks, PrecheckSnapshot(p.case)' = p
    PROVE  PrecheckSnapshot(p.case) = p
<1> DEFINE c == p.case
           k == p.coreId
<1>1. p \in Snapshot /\ Known(p)
  BY DEF TypeInv, TypeOK, SnapshotsKnown
<1>2. c \in Cases /\ k \in Cores
  BY <1>1 DEF Snapshot
<1>3. /\ cases'[c].revision = p.caseRevision /\ cases'[c].core = k
      /\ cores'[k] = p.core /\ ActiveSummaries(c)' = p.active
  BY DEF PrecheckSnapshot
<1>4. cases[c] # None /\ cases[c].core = k /\ cases'[c] # None
  BY <1>1, <1>2, CaseStays DEF Known
<1>5. cases[c].revision = p.caseRevision
  <2>1. CaseGapless(c) /\ CaseGapless(c)'
    BY <1>2, <1>4 DEF Histories
  <2>2. Len(caseVersions[c]) <= Len(caseVersions'[c])
    BY <1>2, EvidenceStep DEF EvidenceKept, Extends
  <2>3. caseVersions[c] \in Seq(CaseVersion) /\ caseVersions'[c] \in Seq(CaseVersion)
    BY <1>2 DEF TypeInv, TypeOK
  <2>4. p.caseRevision <= Len(caseVersions[c]) /\ p.caseRevision \in Nat
    BY <1>1, <2>3 DEF Known
  <2>5. QED
    BY <1>3, <2>1, <2>2, <2>3, <2>4 DEF CaseGapless
<1>6. /\ cases[c].requested = p.requested /\ cases[c].estimated = p.estimated
      /\ cores[k].revision = p.core.revision => cores[k] = p.core
      /\ c \in InStatus(Status) /\ cores[k] # None
  BY <1>1, <1>5, RevisionsTell
<1>7. CoreUntouched(k)
  <2>1. CASE Advances(k)
    <3>1. cores[k].revision = Len(coreVersions[k])
      BY <1>2, <1>6, LastOfHistory DEF Histories
    <3>2. coreVersions[k] \in Seq(CoreRecord)
      BY <1>2 DEF TypeInv, TypeOK
    <3>3. p.core.revision <= Len(coreVersions[k]) /\ Len(coreVersions[k]) \in Nat
      BY <1>1, <3>2 DEF Known
    <3>4. p.core.revision = cores[k].revision + 1
      BY <1>3, <1>6, <2>1 DEF Advances
    <3>5. QED
      BY <3>1, <3>3, <3>4
  <2>2. QED
    BY <1>2, <2>1, StepOfCore
<1>8. ActiveSummaries(c) = p.active
  <2>1. CASE \A d \in Cases \ {c} : Untouched(d)
    <3>1. \A d \in Cases \ {c} : /\ Rival(d, c)' <=> Rival(d, c)
                                 /\ Rival(d, c) => Summary(d)' = Summary(d)
      BY <1>3, <1>4, <2>1 DEF Untouched, Rival, Summary
    <3>2. QED
      BY <1>2, <1>3, <3>1, ActiveStays
  <2>2. ASSUME NEW e \in Cases \ {c}, ~Untouched(e)
        PROVE  ActiveSummaries(c) = p.active
    <3>1. ActsOn(e)
      BY <2>2, StepOfCase
    <3>2. QED
      BY <1>1, <1>3, <1>7, <3>1, RivalsOfCurrent
  <2>3. QED
    BY <2>1, <2>2
<1>9. cores[k] = p.core
  BY <1>3, <1>7 DEF CoreUntouched
<1>10. PrecheckSnapshot(c) \in Snapshot
  BY <1>6, SnapshotType
<1> DEFINE now == PrecheckSnapshot(c)
<1>11. /\ now.case = c /\ now.caseRevision = p.caseRevision /\ now.coreId = k
       /\ now.core = p.core /\ now.requested = p.requested
       /\ now.estimated = p.estimated /\ now.active = p.active
  BY <1>4, <1>5, <1>6, <1>8, <1>9 DEF PrecheckSnapshot
<1> HIDE DEF now
<1>12. now = p
  BY <1>1, <1>10, <1>11, SameInputs DEF now
<1>13. QED
  BY <1>12 DEF now

\* A snapshot found stale is stale for good: no order of creations, reviews,
\* cuts, freezes and revisions of the core brings its inputs back.
THEOREM StaleStays == Spec => StaleForever
<1>1. ASSUME TypeInv, TypeInv', Chains, Histories, Histories', SnapshotsKnown, [Next]_vars,
             NEW p \in prechecks, ChangeSources(p)' = {}
      PROVE  ChangeSources(p) = {}
  <2>1. PrecheckSnapshot(p.case)' = p
    BY <1>1 DEF ChangeSources
  <2>2. PrecheckSnapshot(p.case) = p
    BY <1>1, <2>1, CurrentBefore
  <2>3. QED
    BY <2>2 DEF ChangeSources
<1>2. /\ TypeInv /\ TypeInv' /\ Chains /\ Histories /\ Histories' /\ SnapshotsKnown
      /\ [Next]_vars
      => [\A p \in prechecks : ChangeSources(p) # {} => ChangeSources(p)' # {}]_vars
  BY <1>1
<1>3. QED
  BY <1>2, TypeInvariant, ChainsInvariant, HistoriesInvariant, KnownInvariant, PTL
     DEF Spec, StaleForever
=============================================================================
