---------------------------- MODULE ClientProofs ----------------------------
(***************************************************************************)
(* What a revision or a digest quoted by a client proves it has seen:      *)
(* theorems for any client that quotes what it was shown, and any others   *)
(* acting meanwhile.                                                       *)
(***************************************************************************)
EXTENDS InformedClient, EvidenceProofs

-----------------------------------------------------------------------------
(***************************************************************************)
(* The client is one of those the service serves                           *)
(***************************************************************************)

\* The client's own calls are calls the service would take from anybody.
LEMMA ServedLikeAnyone == ASSUME [ClientNext]_allVars PROVE [Next]_vars
<1>1. CASE UNCHANGED allVars \/ (Next /\ UNCHANGED clientVars)
  BY <1>1 DEF allVars
<1>2. CASE \E c \in Cases : ShowCase(c)
  BY <1>2 DEF ShowCase
<1>3. CASE \E c \in Cases : c \in InStatus(Editable) /\ \E plan \in Plans : Revise(c, plan)
  <2>1. \E c \in InStatus(Editable), plan \in Plans : ReviseCase(c, plan)
    BY <1>3 DEF Revise
  <2>2. QED
    BY <2>1 DEF DraftStep, Next
<1>4. CASE \E c \in Cases : \E f \in shownCase[c].findings : Close(c, f)
  <2>1. PICK c \in Cases : \E f \in cases[c].findings : CloseFinding(c, f)
    BY <1>4 DEF Close
  <2>2. c \in InStatus({"Returned"})
    BY <2>1 DEF CloseFinding
  <2>3. QED
    BY <2>1, <2>2 DEF ReviewStep, Next
<1>5. CASE \E c \in Cases : /\ c \in InStatus({"Authorized"})
                            /\ \E key \in Keys, cut \in Cuts : RecordCut(c, key, cut)
  <2>1. \E c \in InStatus({"Authorized"}), key \in Keys, cut \in Cuts :
           ExecuteReceipt(c, key, cut)
    BY <1>5 DEF RecordCut
  <2>2. QED
    BY <2>1 DEF CutStep, Next
<1>6. CASE \E k \in Cores : ShowCore(k)
  BY <1>6 DEF ShowCore
<1>7. CASE \E k \in Cores : \E form \in Constraints : Constrain(k, form)
  <2>1. \E k \in Cores, form \in Constraints : ReviseCore(k, form)
    BY <1>7 DEF Constrain
  <2>2. QED
    BY <2>1 DEF CoreStep, Next
<1>8. QED
  BY <1>1, <1>2, <1>3, <1>4, <1>5, <1>6, <1>7 DEF ClientNext, ClientStep, EditsCase

LEMMA ClientKeepsTypes == ClientSpec => []TypeInv
<1>1. ClientInit => TypeInv
  BY InitTyped DEF ClientInit
<1>2. TypeInv /\ [ClientNext]_allVars => TypeInv'
  BY ServedLikeAnyone, NextTyped
<1>3. QED
  BY <1>1, <1>2, PTL DEF ClientSpec

-----------------------------------------------------------------------------
(***************************************************************************)
(* What can change under one revision                                      *)
(***************************************************************************)

\* The request, and the findings raised against it, of two records of a case.
SameToEdit(r, s) ==
    r.requested = s.requested /\ r.estimated = s.estimated /\ Raised(r) = Raised(s)

\* A finding closed is the finding that was raised.
LEMMA ClosingRaisesNothing ==
    ASSUME NEW r, NEW s, NEW f \in r.findings, NEW g,
           g.issue = f.issue, g.opened = f.opened,
           s.findings = (r.findings \ {f}) \cup {g}
    PROVE  Raised(s) = Raised(r)
<1>1. ASSUME NEW x \in Raised(s) PROVE x \in Raised(r)
  <2>1. PICK h \in s.findings : x = [issue |-> h.issue, opened |-> h.opened]
    BY <1>1 DEF Raised
  <2>2. CASE h = g
    BY <2>1, <2>2 DEF Raised
  <2>3. CASE h \in r.findings
    BY <2>1, <2>3 DEF Raised
  <2>4. QED
    BY <2>1, <2>2, <2>3
<1>2. ASSUME NEW x \in Raised(r) PROVE x \in Raised(s)
  <2>1. PICK h \in r.findings : x = [issue |-> h.issue, opened |-> h.opened]
    BY <1>2 DEF Raised
  <2>2. CASE h = f
    <3>1. x = [issue |-> g.issue, opened |-> g.opened] /\ g \in s.findings
      BY <2>1, <2>2
    <3>2. QED
      BY <3>1 DEF Raised
  <2>3. CASE h # f
    BY <2>1, <2>3 DEF Raised
  <2>4. QED
    BY <2>2, <2>3
<1>3. QED
  BY <1>1, <1>2

\* A call raises the revision of its case, or leaves what there is to edit.
LEMMA CallKeepsOrRaises ==
    ASSUME TypeInv, NEW c \in Cases, ActsOn(c), cases[c] # None
    PROVE  /\ SameCase(c)
           /\ \/ cases'[c].revision = cases[c].revision + 1
              \/ cases'[c].revision = cases[c].revision /\ SameToEdit(cases[c], cases'[c])
<1> DEFINE Kept == /\ cases'[c].revision = cases[c].revision
                   /\ SameToEdit(cases[c], cases'[c])
<1>1. ASSUME cases'[c].revision = cases[c].revision,
             cases'[c].requested = cases[c].requested,
             cases'[c].estimated = cases[c].estimated,
             cases'[c].findings = cases[c].findings
      PROVE  Kept
  BY <1>1 DEF SameToEdit, Raised
<1>2. ASSUME NEW k \in Cores, NEW plan \in Plans, NEW digest \in Digests,
             CreateCase(c, k, plan, digest)
      PROVE  FALSE
  BY <1>2 DEF CreateCase
<1>3. ASSUME NEW plan \in Plans, ReviseCase(c, plan)
      PROVE  SameCase(c) /\ cases'[c].revision = cases[c].revision + 1
  BY <1>3, ReviseCaseEffect
<1>4. CASE Precheck(c)
  BY <1>1, <1>4, PrecheckEffect
<1>5. CASE SubmitCase(c)
  BY <1>1, <1>5, SubmitCaseEffect
<1>6. ASSUME NEW issues \in SUBSET Issues, ReturnCaseIssues(c, issues)
      PROVE  SameCase(c) /\ cases'[c].revision = cases[c].revision + 1
  BY <1>6, ReturnCaseIssuesEffect
<1>7. ASSUME NEW f \in cases[c].findings, CloseFinding(c, f)
      PROVE  SameCase(c) /\ Kept
  <2>1. PICK g \in Finding :
              /\ g.issue = f.issue /\ g.opened = f.opened
              /\ cases'[c].findings = (cases[c].findings \ {f}) \cup {g}
    BY <1>7, CloseFindingEffect
  <2>2. Raised(cases'[c]) = Raised(cases[c])
    BY <2>1, ClosingRaisesNothing
  <2>3. QED
    BY <1>7, <2>2, CloseFindingEffect DEF SameToEdit
<1>8. CASE Authorize(c)
  BY <1>1, <1>8, AuthorizeEffect
<1>9. ASSUME NEW key \in Keys, NEW cut \in Cuts, ExecuteReceipt(c, key, cut)
      PROVE  SameCase(c) /\ cases'[c].revision = cases[c].revision + 1
  BY <1>9, ExecuteReceiptEffect
<1>10. ASSUME NEW key \in Keys, NEW seen \in Measurements, RejectVerification(c, key, seen)
       PROVE  SameCase(c) /\ Kept
  BY <1>1, <1>10, RejectVerificationEffect
<1>11. ASSUME NEW key \in Keys, NEW seen \in Measurements, VerifyAndFreeze(c, key, seen)
       PROVE  SameCase(c) /\ cases'[c].revision = cases[c].revision + 1
  BY <1>11, VerifyAndFreezeEffect
<1>12. QED
  BY <1>2, <1>3, <1>4, <1>5, <1>6, <1>7, <1>8, <1>9, <1>10, <1>11 DEF ActsOn

-----------------------------------------------------------------------------
(***************************************************************************)
(* What the client was shown                                               *)
(*                                                                         *)
(* The service keeps no trace of what it has shown to whom. What makes a   *)
(* quoted revision enough is that the record shown is never ahead of the   *)
(* record kept, and that one with the same revision is, for those who edit *)
(* it, the same.                                                           *)
(***************************************************************************)

CaseSeen(c) ==
    shownCase[c] # None =>
        /\ cases[c] # None
        /\ shownCase[c].revision <= cases[c].revision
        /\ shownCase[c].revision = cases[c].revision => SameToEdit(shownCase[c], cases[c])

CoreSeen(k) ==
    shownCore[k] # None =>
        /\ cores[k] # None
        /\ shownCore[k].revision <= cores[k].revision
        /\ shownCore[k].revision = cores[k].revision => shownCore[k] = cores[k]

\* A manifest a case has was made out for the request the case has.
ManifestFits(rec) ==
    rec # None /\ rec.authorization # None =>
        /\ rec.authorization.requested = rec.requested
        /\ rec.authorization.tolerance = DepthToleranceMm

ClientInv ==
    /\ shownCase \in [Cases -> CaseRecord \cup {None}]
    /\ shownCore \in [Cores -> CoreRecord \cup {None}]
    /\ \A c \in Cases : /\ CaseSeen(c)
                        /\ ManifestFits(cases[c]) /\ ManifestFits(shownCase[c])
    /\ \A k \in Cores : CoreSeen(k)

\* A case is shown anew, as it then is, or the client stays with what it has.
LEMMA ShownCaseStep ==
    ASSUME TypeInv, ClientInv, [ClientNext]_allVars, NEW c \in Cases
    PROVE  \/ shownCase'[c] = shownCase[c]
           \/ shownCase'[c] = cases'[c] /\ cases'[c] # None /\ cases'[c] \in CaseRecord
<1>1. CASE shownCase' = shownCase
  BY <1>1
<1>2. ASSUME NEW d \in Cases, ShowCase(d)
      PROVE  \/ shownCase'[c] = shownCase[c]
             \/ shownCase'[c] = cases'[c] /\ cases'[c] # None /\ cases'[c] \in CaseRecord
  BY <1>2 DEF ShowCase, vars, ClientInv, TypeInv, TypeOK
<1>3. ASSUME NEW d \in Cases, SameCase(d), shownCase' = [shownCase EXCEPT ![d] = cases'[d]]
      PROVE  \/ shownCase'[c] = shownCase[c]
             \/ shownCase'[c] = cases'[c] /\ cases'[c] # None /\ cases'[c] \in CaseRecord
  BY <1>3 DEF SameCase, ClientInv
<1>4. ASSUME NEW d \in Cases, NEW plan \in Plans, Revise(d, plan)
      PROVE  SameCase(d) /\ shownCase' = [shownCase EXCEPT ![d] = cases'[d]]
  BY <1>4, ReviseCaseEffect DEF Revise
<1>5. ASSUME NEW d \in Cases, NEW f, Close(d, f)
      PROVE  SameCase(d) /\ shownCase' = [shownCase EXCEPT ![d] = cases'[d]]
  BY <1>5, CloseFindingEffect DEF Close
<1>6. \/ shownCase' = shownCase
      \/ \E d \in Cases : ShowCase(d)
      \/ \E d \in Cases, plan \in Plans : Revise(d, plan)
      \/ \E d \in Cases : \E f \in shownCase[d].findings : Close(d, f)
  BY DEF ClientNext, ClientStep, EditsCase, ShowCore, Constrain, RecordCut, allVars, clientVars
<1>7. QED
  BY <1>1, <1>2, <1>3, <1>4, <1>5, <1>6

LEMMA ShownCoreStep ==
    ASSUME TypeInv, ClientInv, [ClientNext]_allVars, NEW k \in Cores
    PROVE  \/ shownCore'[k] = shownCore[k]
           \/ shownCore'[k] = cores'[k] /\ cores'[k] # None /\ cores'[k] \in CoreRecord
<1>1. CASE shownCore' = shownCore
  BY <1>1
<1>2. ASSUME NEW j \in Cores, ShowCore(j)
      PROVE  \/ shownCore'[k] = shownCore[k]
             \/ shownCore'[k] = cores'[k] /\ cores'[k] # None /\ cores'[k] \in CoreRecord
  BY <1>2 DEF ShowCore, vars, ClientInv, TypeInv, TypeOK
<1>3. ASSUME NEW j \in Cores, NEW form \in Constraints, Constrain(j, form)
      PROVE  \/ shownCore'[k] = shownCore[k]
             \/ shownCore'[k] = cores'[k] /\ cores'[k] # None /\ cores'[k] \in CoreRecord
  BY <1>3, ReviseCoreEffect DEF Constrain, Advances, ClientInv
<1>4. \/ shownCore' = shownCore
      \/ \E j \in Cores : ShowCore(j) \/ \E form \in Constraints : Constrain(j, form)
  BY DEF ClientNext, ClientStep, EditsCase, ShowCase, Revise, Close, RecordCut,
         allVars, clientVars
<1>5. QED
  BY <1>1, <1>2, <1>3, <1>4

LEMMA CaseSeenStep ==
    ASSUME TypeInv, ClientInv, [ClientNext]_allVars, NEW c \in Cases
    PROVE  CaseSeen(c)'
<1>1. CASE shownCase'[c] = cases'[c] /\ cases'[c] # None /\ cases'[c] \in CaseRecord
  <2>1. cases'[c].revision \in Nat
    BY <1>1 DEF CaseRecord, Revision
  <2>2. QED
    BY <1>1, <2>1 DEF CaseSeen, SameToEdit
<1>2. CASE shownCase'[c] = shownCase[c] /\ shownCase[c] # None
  <2>1. /\ CaseSeen(c) /\ cases[c] # None
        /\ shownCase[c] \in CaseRecord /\ cases[c] \in CaseRecord
    BY <1>2 DEF ClientInv, CaseSeen, TypeInv, TypeOK
  <2>2. shownCase[c].revision \in Nat /\ cases[c].revision \in Nat
    BY <2>1 DEF CaseRecord, Revision
  <2>3. CASE Untouched(c)
    BY <1>2, <2>1, <2>3 DEF CaseSeen, SameToEdit, Untouched
  <2>4. CASE ActsOn(c)
    <3>1. cases'[c] # None
      BY <2>1, <2>4, CallKeepsOrRaises DEF SameCase
    <3>2. CASE cases'[c].revision = cases[c].revision + 1
      BY <1>2, <2>1, <2>2, <3>1, <3>2 DEF CaseSeen
    <3>3. CASE cases'[c].revision = cases[c].revision /\ SameToEdit(cases[c], cases'[c])
      BY <1>2, <2>1, <2>2, <3>1, <3>3 DEF CaseSeen, SameToEdit
    <3>4. QED
      BY <2>1, <2>4, <3>2, <3>3, CallKeepsOrRaises
  <2>5. QED
    BY <2>3, <2>4, ServedLikeAnyone, StepOfCase
<1>3. QED
  BY <1>1, <1>2, ShownCaseStep DEF CaseSeen

LEMMA CoreSeenStep ==
    ASSUME TypeInv, ClientInv, [ClientNext]_allVars, NEW k \in Cores
    PROVE  CoreSeen(k)'
<1>1. CASE shownCore'[k] = cores'[k] /\ cores'[k] # None /\ cores'[k] \in CoreRecord
  <2>1. cores'[k].revision \in Nat
    BY <1>1 DEF CoreRecord, Revision
  <2>2. QED
    BY <1>1, <2>1 DEF CoreSeen
<1>2. CASE shownCore'[k] = shownCore[k] /\ shownCore[k] # None
  <2>1. /\ CoreSeen(k) /\ cores[k] # None
        /\ shownCore[k] \in CoreRecord /\ cores[k] \in CoreRecord
    BY <1>2 DEF ClientInv, CoreSeen, TypeInv, TypeOK
  <2>2. shownCore[k].revision \in Nat /\ cores[k].revision \in Nat
    BY <2>1 DEF CoreRecord, Revision
  <2>3. CASE CoreUntouched(k)
    BY <1>2, <2>1, <2>3 DEF CoreSeen, CoreUntouched
  <2>4. CASE Advances(k)
    BY <1>2, <2>1, <2>2, <2>4 DEF CoreSeen, Advances
  <2>5. QED
    BY <2>3, <2>4, ServedLikeAnyone, StepOfCore
<1>3. QED
  BY <1>1, <1>2, ShownCoreStep DEF CoreSeen

\* Only a new request drops the manifest, and only the approval makes one out.
LEMMA ManifestFitsStep ==
    ASSUME TypeInv, [Next]_vars, NEW c \in Cases, ManifestFits(cases[c])
    PROVE  ManifestFits(cases'[c])
<1> DEFINE Same == /\ cases[c] # None
                   /\ cases'[c].authorization = cases[c].authorization
                   /\ cases'[c].requested = cases[c].requested
<1>1. CASE Untouched(c)
  BY <1>1 DEF Untouched
<1>2. CASE Same
  BY <1>2 DEF ManifestFits
<1>3. CASE cases'[c].authorization = None
  BY <1>3 DEF ManifestFits
<1>4. ASSUME NEW rec, SaveCase(c, rec) PROVE cases'[c] = rec
  BY <1>4 DEF SaveCase, TypeInv, TypeOK
<1>5. ASSUME NEW S, c \in InStatus(S) PROVE cases[c] # None /\ cases[c] \in CaseRecord
  BY <1>5, CaseType DEF InStatus, TypeInv
<1>6. ASSUME NEW k \in Cores, NEW plan \in Plans, NEW digest \in Digests,
             CreateCase(c, k, plan, digest)
      PROVE  cases'[c].authorization = None
  BY <1>4, <1>6 DEF CreateCase, SaveCaseVersion
<1>7. ASSUME NEW plan \in Plans, ReviseCase(c, plan)
      PROVE  cases'[c].authorization = None
  BY <1>4, <1>5, <1>7 DEF ReviseCase, SaveCaseVersion, CaseRecord
<1>8. CASE Precheck(c)
  <2>1. Same
    BY <1>4, <1>5, <1>8 DEF Precheck, CaseRecord
  <2>2. QED
    BY <1>2, <2>1
<1>9. CASE SubmitCase(c)
  <2>1. Same
    BY <1>4, <1>5, <1>9 DEF SubmitCase, CaseRecord
  <2>2. QED
    BY <1>2, <2>1
<1>10. ASSUME NEW issues \in SUBSET Issues, ReturnCaseIssues(c, issues)
       PROVE  cases'[c].authorization = None
  BY <1>4, <1>5, <1>10 DEF ReturnCaseIssues, SaveCaseVersion, CaseRecord
<1>11. ASSUME NEW f \in cases[c].findings, CloseFinding(c, f)
       PROVE  Same
  BY <1>4, <1>5, <1>11 DEF CloseFinding, CaseRecord
<1>12. CASE Authorize(c)
  <2>1. /\ cases'[c].authorization = manifests'[c]
        /\ cases'[c].requested = cases[c].requested
        /\ manifests'[c].requested = cases[c].requested
    BY <1>12, AuthorizeEffect
  <2>2. manifests'[c].tolerance = DepthToleranceMm
    BY <1>12 DEF Authorize, TypeInv, TypeOK
  <2>3. QED
    BY <2>1, <2>2 DEF ManifestFits
<1>13. ASSUME NEW key \in Keys, NEW cut \in Cuts, ExecuteReceipt(c, key, cut)
       PROVE  Same
  BY <1>13, ExecuteReceiptEffect DEF SameCase
<1>14. ASSUME NEW key \in Keys, NEW seen \in Measurements, RejectVerification(c, key, seen)
       PROVE  Same
  BY <1>14, RejectVerificationEffect DEF SameCase
<1>15. ASSUME NEW key \in Keys, NEW seen \in Measurements, VerifyAndFreeze(c, key, seen)
       PROVE  Same
  BY <1>15, VerifyAndFreezeEffect DEF SameCase
<1> HIDE DEF Same
<1>16. CASE ActsOn(c)
  BY <1>2, <1>3, <1>6, <1>7, <1>8, <1>9, <1>10, <1>11, <1>12, <1>13, <1>14, <1>15, <1>16
     DEF ActsOn
<1>17. QED
  BY <1>1, <1>16, StepOfCase

LEMMA ClientStarts == ClientInit => ClientInv
  BY DEF ClientInit, Init, ClientInv, CaseSeen, CoreSeen, ManifestFits

LEMMA ClientKept == TypeInv /\ ClientInv /\ [ClientNext]_allVars => ClientInv'
<1>1. SUFFICES ASSUME TypeInv, ClientInv, [ClientNext]_allVars PROVE ClientInv'
  OBVIOUS
<1>2. \A c \in Cases : shownCase'[c] \in CaseRecord \cup {None}
  BY <1>1, ShownCaseStep DEF ClientInv
<1>3. \A k \in Cores : shownCore'[k] \in CoreRecord \cup {None}
  BY <1>1, ShownCoreStep DEF ClientInv
<1>4. shownCase' \in [Cases -> CaseRecord \cup {None}]
  <2>1. shownCase' = shownCase \/ \E c \in Cases : shownCase' = [shownCase EXCEPT ![c] = shownCase'[c]]
    BY <1>1 DEF ClientNext, ClientStep, EditsCase, ShowCase, ShowCore, Revise, Close,
                Constrain, RecordCut, allVars, clientVars, ClientInv
  <2>2. QED
    BY <1>1, <1>2, <2>1 DEF ClientInv
<1>5. shownCore' \in [Cores -> CoreRecord \cup {None}]
  <2>1. shownCore' = shownCore \/ \E k \in Cores : shownCore' = [shownCore EXCEPT ![k] = shownCore'[k]]
    BY <1>1 DEF ClientNext, ClientStep, EditsCase, ShowCase, ShowCore, Revise, Close,
                Constrain, RecordCut, allVars, clientVars, ClientInv
  <2>2. QED
    BY <1>1, <1>3, <2>1 DEF ClientInv
<1>6. ASSUME NEW c \in Cases
      PROVE  ManifestFits(cases'[c]) /\ ManifestFits(shownCase'[c])
  <2>1. ManifestFits(cases'[c])
    BY <1>1, ServedLikeAnyone, ManifestFitsStep DEF ClientInv
  <2>2. QED
    BY <1>1, <2>1, ShownCaseStep DEF ClientInv
<1>7. QED
  BY <1>1, <1>4, <1>5, <1>6, CaseSeenStep, CoreSeenStep DEF ClientInv

LEMMA ClientInvariant == ClientSpec => []ClientInv
  BY ClientStarts, ClientKept, ClientKeepsTypes, PTL DEF ClientSpec

-----------------------------------------------------------------------------
(***************************************************************************)
(* What a quotation proves                                                 *)
(***************************************************************************)

\* A revision quoted is enough for an edit: whoever else acts meanwhile, what
\* a new request, a closure or a new set of constraints replaces is what its
\* author was shown.
THEOREM EditsReplaceShown == ClientSpec => EditsReplaceWhatWasShown
<1> DEFINE Edits ==
      /\ \A c \in Cases :
            EditsCase(c) => /\ cases[c].requested = shownCase[c].requested
                            /\ cases[c].estimated = shownCase[c].estimated
                            /\ Raised(cases[c]) = Raised(shownCase[c])
      /\ \A k \in Cores :
            (\E form \in Constraints : Constrain(k, form)) => cores[k] = shownCore[k]
<1>1. ClientInv => Edits
  <2>1. SUFFICES ASSUME ClientInv PROVE Edits
    OBVIOUS
  <2>2. ASSUME NEW c \in Cases, EditsCase(c)
        PROVE  SameToEdit(shownCase[c], cases[c])
    <3>1. QuotesRevision(shownCase[c], cases[c])
      BY <2>2 DEF EditsCase, Revise, Close
    <3>2. QED
      BY <2>1, <3>1 DEF QuotesRevision, ClientInv, CaseSeen
  <2>3. ASSUME NEW k \in Cores, NEW form \in Constraints, Constrain(k, form)
        PROVE  cores[k] = shownCore[k]
    BY <2>1, <2>3 DEF Constrain, QuotesRevision, ClientInv, CoreSeen
  <2>4. QED
    BY <2>2, <2>3 DEF SameToEdit
<1>2. ClientInv /\ [ClientNext]_allVars => [Edits]_allVars
  BY <1>1
<1> HIDE DEF Edits
<1>3. QED
  BY <1>2, ClientInvariant, PTL DEF ClientSpec, EditsReplaceWhatWasShown, Edits

\* A manifest quoted is enough for a cut: a cut that is recorded keeps to the
\* request its author was shown under that manifest, whatever was shown before
\* or has happened since.
THEOREM CutsFollowShown == ClientSpec => CutsFollowWhatWasShown
<1> DEFINE Follows ==
      \A c \in Cases : (\E key \in Keys, cut \in Cuts : RecordCut(c, key, cut))
          => \A s \in cases'[c].execution.actual : \E r \in shownCase[c].requested :
                WithinTolerance(s, r, DepthToleranceMm)
<1>1. TypeInv /\ ClientInv => Follows
  <2>1. SUFFICES ASSUME TypeInv, ClientInv,
                        NEW c \in Cases, NEW key \in Keys, NEW cut \in Cuts,
                        RecordCut(c, key, cut),
                        NEW s \in cases'[c].execution.actual
                 PROVE  \E r \in shownCase[c].requested :
                           WithinTolerance(s, r, DepthToleranceMm)
    OBVIOUS
  <2>2. ExecuteReceipt(c, key, cut) /\ shownCase[c] # None
        /\ shownCase[c].authorization = manifests[c]
    BY <2>1 DEF RecordCut, QuotesManifest
  <2>3. manifests[c] # None /\ ExecutionAllowed(manifests[c], cores[cases[c].core], cut)
    BY <2>2 DEF ExecuteReceipt
  <2>4. /\ manifests[c].requested = shownCase[c].requested
        /\ manifests[c].tolerance = DepthToleranceMm
    BY <2>1, <2>2, <2>3 DEF ClientInv, ManifestFits
  <2>5. s \in cut.actual
    BY <2>1, <2>2, ExecuteReceiptEffect
  <2>6. QED
    BY <2>3, <2>4, <2>5 DEF ExecutionAllowed
<1>2. TypeInv /\ ClientInv /\ [ClientNext]_allVars => [Follows]_allVars
  BY <1>1
<1> HIDE DEF Follows
<1>3. QED
  BY <1>2, ClientKeepsTypes, ClientInvariant, PTL DEF ClientSpec, CutsFollowWhatWasShown, Follows
=============================================================================
