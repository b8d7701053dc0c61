------------------------- MODULE SamplingProperties -------------------------
(***************************************************************************)
(* What the sampling workflow promises. Invariants first, then what no     *)
(* step may do, then the lifecycle it implements, and at the end promises  *)
(* made by the repository's text that the code does not keep.              *)
(***************************************************************************)
EXTENDS SamplingWorkflow, FiniteSetsExt

\* Every variable holds records of the kinds the code stores.
TypeOK ==
    /\ cores \in [Cores -> CoreRecord \cup {None}]
    /\ coreVersions \in [Cores -> Seq(CoreRecord)]
    /\ cases \in [Cases -> CaseRecord \cup {None}]
    /\ caseVersions \in [Cases -> Seq(CaseVersion)]
    /\ findingEvents \in [Cases -> SUBSET FindingEvent]
    /\ prechecks \in SUBSET Snapshot
    /\ manifests \in [Cases -> Manifest \cup {None}]
    /\ executions \in [Cases -> Execution \cup {None}]
    /\ receipts \in [Cases \X Keys -> Execution \cup {None}]
    /\ attempts \in [Cases -> Seq(Attempt)]
    /\ credentials \in SUBSET Credential

-----------------------------------------------------------------------------
(***************************************************************************)
(* Competing cases                                                         *)
(***************************************************************************)

Committed == {"Submitted", "Authorized", "Executed"}

\* The case goes by a snapshot of its own core. Once it has been prechecked
\* itself it does; with a digest that came along in its body it may not.
OnItsCore(c) == cases[c].precheck.coreId = cases[c].core

\* Two cases of one core that are past their review and not yet frozen never
\* ask for the same depth, provided each goes by a snapshot of that core.
\* SubmitCase and Authorize only look at the snapshot Precheck stored earlier,
\* and drafts may overlap freely, so this rests on the snapshot's validity
\* check seeing every rival. (CommittedRequestsApart is without the proviso.)
SubmittedRequestsDisjoint ==
    \A c, d \in InStatus(Committed) :
        c # d /\ cases[c].core = cases[d].core /\ OnItsCore(c) /\ OnItsCore(d)
            => Apart(cases[c].requested, cases[d].requested)

\* A case under review or authorized carries the digest of a stored snapshot
\* with a passing verdict, and if that is one of its own core, it was taken of
\* this very case at its present revision: a copied digest is of no use on the
\* core it comes from, because the case that brings it along is a rival the
\* snapshot does not list.
ReviewedAsPrechecked ==
    \A c \in InStatus({"Submitted", "Authorized"}) :
        LET p == cases[c].precheck
        IN /\ p \in prechecks
           /\ Passes(p)
           /\ OnItsCore(c) =>
                 /\ p.case = c /\ p.caseRevision = cases[c].revision
                 /\ p.requested = cases[c].requested /\ p.estimated = cases[c].estimated

-----------------------------------------------------------------------------
(***************************************************************************)
(* Evidence                                                                *)
(***************************************************************************)

\* A submission and an authorization leave no version of the case.
Unversioned == {"Submitted", "Authorized"}

\* What a snapshot says of its core, of its own case and of the request of every
\* rival it lists is found again in the version histories, under the revisions it
\* names; so is a rival's status, unless it is one of the two that leave no
\* version, and then the version under review is found. (Which cases of the
\* core were active at that moment is in no history.) And the inputs never
\* change without the revision of the case, the revision of the core or the
\* active cases giving the reason: GetPrecheck never has to answer "caseInputs".
SnapshotsTraceable ==
    \A p \in prechecks :
        /\ p.core.revision \in DOMAIN coreVersions[p.coreId]
        /\ coreVersions[p.coreId][p.core.revision] = p.core
        /\ p.caseRevision \in DOMAIN caseVersions[p.case]
        /\ LET v == caseVersions[p.case][p.caseRevision]
           IN v.requested = p.requested /\ v.estimated = p.estimated
        /\ \A a \in p.active :
              /\ a.revision \in DOMAIN caseVersions[a.case]
              /\ LET v == caseVersions[a.case][a.revision]
                 IN /\ v.requested = a.requested /\ v.estimated = a.estimated
                    /\ IF a.status \in Unversioned THEN v.status \in Editable
                       ELSE v.status = a.status
        /\ ChangeSources(p) # {"caseInputs"}

\* The histories have one version per revision, and the newest one is the
\* record in force. A submission and an authorization leave no version: they
\* keep the revision.
HistoryGapless ==
    /\ \A k \in Cores :
          /\ \A i \in DOMAIN coreVersions[k] : coreVersions[k][i].revision = i
          /\ cores[k] = (IF coreVersions[k] = <<>> THEN None
                         ELSE coreVersions[k][Len(coreVersions[k])])
    /\ \A c \in InStatus(Status) :
          /\ \A i \in DOMAIN caseVersions[c] : caseVersions[c][i].revision = i
          /\ LET last == caseVersions[c][Len(caseVersions[c])]
             IN /\ Len(caseVersions[c]) = cases[c].revision
                /\ last.requested = cases[c].requested
                /\ last.estimated = cases[c].estimated

\* From the authorization on, a case, its manifest, its recorded cut and the
\* receipt of that cut stay tied to each other and to the precheck that passed,
\* so the refusal AUTHORIZATION_INVALID of ExecuteReceipt is never met.
AuthorizationChain ==
    \A c \in InStatus({"Authorized", "Executed", "Frozen"}) :
        LET m     == manifests[c]
            steps == CASE cases[c].status = "Authorized" -> 0
                       [] cases[c].status = "Executed"   -> 1
                       [] cases[c].status = "Frozen"     -> 2
        IN /\ m # None
           /\ cases[c].authorization = m
           /\ cases[c].revision = m.caseRevision + steps
           /\ m.precheck = cases[c].precheck
           /\ m.requested = cases[c].requested /\ m.estimated = cases[c].estimated
           /\ IF steps = 0 THEN executions[c] = None
              ELSE /\ executions[c] = cases[c].execution
                   /\ executions[c].authorization = m
           /\ \A key \in Keys :
                 receipts[<<c, key>>] = IF executions[c] # None /\ executions[c].key = key
                                    THEN executions[c] ELSE None

\* A case is frozen exactly when its ledger ends with a passed attempt, and no
\* attempt before that one passed.
LedgerMatchesStatus ==
    \A c \in Cases :
        LET ledger == attempts[c]
            passed == {i \in DOMAIN ledger : ledger[i].verdict = "Passed"}
        IN /\ passed = IF c \in InStatus({"Frozen"}) THEN {Len(ledger)} ELSE {}
           /\ \A i, j \in DOMAIN ledger : i # j => ledger[i].key # ledger[j].key
           /\ ledger # <<>> => c \in InStatus({"Executed", "Frozen"})

\* The mismatches VerifyCredential reports for a credential. (With an id that
\* is the record itself, "verificationDigest" and "digest" could only differ in
\* a record altered behind the server's back.)
Mismatches(cred) ==
    LET rec == cases[cred.case]
        x   == executions[cred.case]
    IN IF rec = None THEN {"caseId"}
       ELSE {m \in {"coreId", "frozenRevision", "credentialId", "execution",
                    "segmentDigest", "executionDigest"} :
                \/ m = "coreId" /\ rec.core # cred.core
                \/ m = "frozenRevision" /\ rec.revision # cred.frozenRevision
                \/ m = "credentialId" /\ rec.credential # cred
                \/ m = "execution" /\ x = None
                \/ m = "segmentDigest" /\ x # None /\ x.actual # cred.segments
                \/ m = "executionDigest" /\ x # None /\ x # cred.execution}

\* A credential verifies for ever after it was issued, and attests the last
\* measurement of its case's ledger; and no case is frozen without one.
CredentialsVerify ==
    /\ \A cred \in credentials :
          /\ Mismatches(cred) = {}
          /\ cred.verification = attempts[cred.case][Len(attempts[cred.case])]
          /\ cred.remaining = cred.execution.after
    /\ \A c \in InStatus({"Frozen"}) : cases[c].credential \in credentials

-----------------------------------------------------------------------------
(***************************************************************************)
(* Findings and reserves                                                   *)
(***************************************************************************)

\* A case passes the review only with every finding closed against the
\* revision under review; a draft has none yet; the event trail tells the
\* same story as the findings themselves.
FindingsGate ==
    \A c \in InStatus(Status) :
        /\ cases[c].status \in {"Submitted", "Authorized"} =>
              \A f \in cases[c].findings :
                  f.status = "Closed" /\ f.closed = cases[c].revision
        /\ cases[c].status = "Draft" => cases[c].findings = {}
        /\ \A f \in cases[c].findings :
              /\ f.opened < cases[c].revision
              /\ \E e \in findingEvents[c] :
                    e.type = "Opened" /\ e.issue = f.issue /\ e.opened = f.opened
              /\ f.status = "Closed" <=>
                    \E e \in findingEvents[c] :
                        /\ e.type = "Closed" /\ e.issue = f.issue /\ e.opened = f.opened
                        /\ e.caseRevision = f.closed

\* Once a core has been revised or cut, what it holds never falls below its
\* reserve: a cut is measured against the reserve in force when it is
\* recorded and again, after revisions, when it is frozen. (RegisterCore
\* alone accepts a core that starts below its reserve.)
ReserveKept ==
    \A k \in Cores : cores[k] # None /\ cores[k].revision > 1
        => cores[k].reserve <= cores[k].available

-----------------------------------------------------------------------------
(***************************************************************************)
(* What no step may do                                                     *)
(***************************************************************************)

\* A snapshot that has gone stale never becomes valid again, whatever is
\* created, revised or frozen around it: its rivals may come and go, but not
\* without a revision that stays.
StaleForever ==
    [][\A p \in prechecks : ChangeSources(p) # {} => ChangeSources(p)' # {}]_vars

\* Whatever is submitted or authorized on a snapshot of its core would pass a
\* precheck at that very moment: no interval protected, no rival come, no mass
\* taken and no reserve raised since the snapshot is overlooked. (What comes
\* after the authorization is: a revision of the core merely reports the open
\* cases it affects.)
ApprovedOnThePresent ==
    [][\A c \in InStatus(Status) :
          cases'[c].status \in {"Submitted", "Authorized"} \ {cases[c].status} =>
              (OnItsCore(c) => Passes(PrecheckSnapshot(c)))]_vars

Extends(old, new) == Len(old) <= Len(new) /\ SubSeq(new, 1, Len(old)) = old

\* Evidence is only ever added: versions, snapshots, attempts, events and
\* credentials are kept, a manifest, a cut or a receipt is written once, and a
\* frozen case is never touched again. So it does not matter to a
\* VerifyCredential that its lookups of credential, case and execution are made
\* one after the other while the server goes on.
EvidenceImmutable ==
    [][/\ prechecks \subseteq prechecks' /\ credentials \subseteq credentials'
       /\ \A k \in Cores : Extends(coreVersions[k], coreVersions'[k])
       /\ \A c \in InStatus({"Frozen"}) : cases'[c] = cases[c]
       /\ \A c \in Cases :
             /\ Extends(caseVersions[c], caseVersions'[c])
             /\ Extends(attempts[c], attempts'[c])
             /\ findingEvents[c] \subseteq findingEvents'[c]
             /\ manifests[c] \in {None, manifests'[c]}
             /\ executions[c] \in {None, executions'[c]}
             /\ \A key \in Keys : receipts[<<c, key>>] \in {None, receipts'[<<c, key>>]}]_vars

-----------------------------------------------------------------------------
(***************************************************************************)
(* The lifecycle                                                           *)
(***************************************************************************)

Lifecycle == INSTANCE CaseLifecycle WITH
    status <- [c \in Cases |-> IF cases[c] = None THEN None ELSE cases[c].status],
    open <- [c \in Cases |-> /\ cases[c] # None
                             /\ \E f \in cases[c].findings : f.status # "Closed"]

\* The handlers implement the transition table no handler consults.
LifecycleSpec == Lifecycle!Spec

-----------------------------------------------------------------------------
(***************************************************************************)
(* Promises of the repository's text that the code does not keep           *)
(***************************************************************************)

FrozenOn(k) == {c \in InStatus({"Frozen"}) : cases[c].core = k}

\* What is left of a core is what it weighed when it was registered less every
\* sample frozen since. (Two cases authorized together are both cut against
\* the same available mass, and the second freeze overwrites the first.)
MassConserved ==
    \A k \in Cores : cores[k] # None =>
        cores[k].available = coreVersions[k][1].available
            - MapThenSumSet(LAMBDA c : cases[c].execution.sample, FrozenOn(k))

\* No depth of a core is cut and frozen twice. (A precheck looks at the cases
\* that are not frozen yet, so what is frozen is free to be requested again.)
FrozenCutsDisjoint ==
    \A k \in Cores : \A c, d \in FrozenOn(k) :
        c # d => Apart(cases[c].execution.actual, cases[d].execution.actual)

\* Two cases of one core that are past their review never ask for the same
\* depth, whatever snapshots they go by. (A case whose body brought the digest of
\* another core's snapshot along is submitted and authorized on that one.)
CommittedRequestsApart ==
    \A c, d \in InStatus(Committed) :
        c # d /\ cases[c].core = cases[d].core
            => Apart(cases[c].requested, cases[d].requested)

\* While a case is with its author, a closed finding is closed against the
\* present revision. (The next revision leaves it closed against the previous
\* one: SubmitCase refuses it and CloseFinding cannot close it again.)
ClosuresCurrent ==
    \A c \in InStatus({"Returned"}) : \A f \in cases[c].findings :
        f.status = "Closed" => f.closed = cases[c].revision
=============================================================================
