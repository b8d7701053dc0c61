--------------------------- MODULE InformedClient ---------------------------
(***************************************************************************)
(* A client of the sampling workflow and what it has been shown. Calls     *)
(* that replace a case's request, close a finding, replace a core's        *)
(* constraints or record a cut quote what the client believes to be the    *)
(* present: the revision of the case or core, or the digest of the         *)
(* manifest. Everybody else acts as SamplingWorkflow lets them, so in this *)
(* client's absence anything may have happened.                            *)
(***************************************************************************)
EXTENDS SamplingWorkflow

VARIABLES
    shownCase,      \* each case as the client was shown it last, or None
    shownCore       \* each core

clientVars == <<shownCase, shownCore>>
allVars == <<vars, clientVars>>

ClientInit ==
    /\ Init
    /\ shownCase = [c \in Cases |-> None]
    /\ shownCore = [k \in Cores |-> None]

\* GET, or the reply to a call.
ShowCase(c) ==
    /\ cases[c] # None
    /\ shownCase' = [shownCase EXCEPT ![c] = cases[c]]
    /\ UNCHANGED <<vars, shownCore>>

ShowCore(k) ==
    /\ cores[k] # None
    /\ shownCore' = [shownCore EXCEPT ![k] = cores[k]]
    /\ UNCHANGED <<vars, shownCase>>

\* Slip: any revision will do.
QuotesAnyRevision(shown, present) == shown # None

\* expectedRevision, caseRevision: REVISION_CONFLICT and CLOSURE_REVISION_STALE
\* otherwise.
QuotesRevision(shown, present) == shown # None /\ shown.revision = present.revision

\* Slip: that there is a manifest is enough.
QuotesAnyManifest(shown, c) == shown # None

\* AUTHORIZATION_DIGEST_MISMATCH otherwise; ExecuteReceipt compares the case's
\* own digest with the manifest's.
QuotesManifest(shown, c) == shown # None /\ shown.authorization = manifests[c]

\* The reply has the revised case in it, or the case with the finding closed.
Revise(c, plan) ==
    /\ QuotesRevision(shownCase[c], cases[c])
    /\ ReviseCase(c, plan)
    /\ shownCase' = [shownCase EXCEPT ![c] = cases'[c]]
    /\ UNCHANGED shownCore

\* A finding is named by its id, which a closure does not change.
Close(c, shown) ==
    /\ QuotesRevision(shownCase[c], cases[c])
    /\ \E f \in cases[c].findings :
          /\ f.issue = shown.issue /\ f.opened = shown.opened
          /\ CloseFinding(c, f)
    /\ shownCase' = [shownCase EXCEPT ![c] = cases'[c]]
    /\ UNCHANGED shownCore

Constrain(k, form) ==
    /\ QuotesRevision(shownCore[k], cores[k])
    /\ ReviseCore(k, form)
    /\ shownCore' = [shownCore EXCEPT ![k] = cores'[k]]
    /\ UNCHANGED shownCase

RecordCut(c, key, cut) ==
    /\ QuotesManifest(shownCase[c], c)
    /\ ExecuteReceipt(c, key, cut)
    /\ UNCHANGED clientVars

EditsCase(c) ==
    \/ c \in InStatus(Editable) /\ \E plan \in Plans : Revise(c, plan)
    \/ shownCase[c] # None /\ \E f \in shownCase[c].findings : Close(c, f)

ClientStep ==
    \/ \E c \in Cases :
        \/ ShowCase(c) \/ EditsCase(c)
        \/ c \in InStatus({"Authorized"}) /\ \E key \in Keys, cut \in Cuts : RecordCut(c, key, cut)
    \/ \E k \in Cores : ShowCore(k) \/ \E form \in Constraints : Constrain(k, form)

ClientNext == ClientStep \/ (Next /\ UNCHANGED clientVars)

ClientSpec == ClientInit /\ [][ClientNext]_allVars

-----------------------------------------------------------------------------

Raised(rec) == {[issue |-> f.issue, opened |-> f.opened] : f \in rec.findings}

\* An edit replaces what its author was shown, not what somebody else has
\* written since: the request and the findings raised against it are those the
\* client saw, and a core's constraints, mass included, are. Only the revision
\* is compared, so everything worth seeing must come with a new one.
EditsReplaceWhatWasShown ==
    [][/\ \A c \in Cases :
            EditsCase(c)
                => /\ cases[c].requested = shownCase[c].requested
                   /\ cases[c].estimated = shownCase[c].estimated
                   /\ Raised(cases[c]) = Raised(shownCase[c])
       /\ \A k \in Cores :
            (\E form \in Constraints : Constrain(k, form)) => cores[k] = shownCore[k]]_allVars

\* A recorded cut is within the tolerance of the request that was shown as
\* authorized to whoever records it, and of no other.
CutsFollowWhatWasShown ==
    [][\A c \in Cases : (\E key \in Keys, cut \in Cuts : RecordCut(c, key, cut))
          => \A s \in cases'[c].execution.actual : \E r \in shownCase[c].requested :
                WithinTolerance(s, r, DepthToleranceMm)]_allVars
=============================================================================
