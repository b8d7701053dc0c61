--------------------------- MODULE SerialService ---------------------------
(***************************************************************************)
(* The handlers as if each call were one step: what a call decides and     *)
(* writes is computed from the records of that very moment. Only what      *)
(* concurrent calls could disturb is kept of a record: a case's core,      *)
(* status, revision and precheck, a core's revision and available mass.    *)
(* Every case asks for the same depth and 1 mg, so a precheck passes when  *)
(* its case has no active rival.                                           *)
(*                                                                         *)
(* SamplingWorkflow treats calls in this way, with whole records;          *)
(* ConcurrentService shows which of the program's calls may be so treated. *)
(***************************************************************************)
EXTENDS Integers

CONSTANTS
    Calls,          \* goroutines, each serving one request after another
    Cores,
    Cases,
    Requests,       \* the requests that are sent: [kind, case, core]
    Mass,           \* mg a core holds at first
    MaxRevision,    \* bound: no revision or return of a case, and no revision
                    \* of a core, from there on
    None

VARIABLES
    cores,          \* Cores -> [revision, mass]
    cases,          \* Cases -> [core, status, revision, precheck] or None
    call            \* the request each goroutine serves, or None

records == <<cores, cases>>
vars == <<records, call>>

\* A creation names the case and the core, other requests the one they are for.
OnCase == {"precheck", "revise", "return", "submit", "authorize", "execute", "freeze", "validity"}
OnCore == {"reviseCore", "available"}
Reading == {"validity", "available"}

Request ==
    [kind : {"create"}, case : Cases, core : Cores]
    \cup [kind : OnCase, case : Cases, core : {None}]
    \cup [kind : OnCore, case : {None}, core : Cores]

Status == {"Draft", "Returned", "Submitted", "Authorized", "Executed", "Frozen"}

CoreRecord == [revision : Nat, mass : Int]

Rival == [case : Cases, status : Status, revision : Nat]

SnapshotRecord == [caseRevision : Nat, coreRevision : Nat, rivals : SUBSET Rival]

CaseRecord == [core : Cores, status : Status, revision : Nat, precheck : SnapshotRecord \cup {None}]

ASSUME RequestsAssumption == Requests \subseteq Request
ASSUME MassAssumption == Mass \in Int
ASSUME NoneAssumption == None \notin Request \cup Cores \cup Cases
ASSUME NoRecordAssumption == None \notin CaseRecord

-----------------------------------------------------------------------------

\* Slip: drafts are not counted.
RivalsUnderReview(c, k, all) ==
    {[case |-> d, status |-> all[d].status, revision |-> all[d].revision] :
        d \in {d \in Cases \ {c} :
                  /\ all[d] # None /\ all[d].core = k
                  /\ all[d].status \in {"Submitted", "Authorized", "Executed"}}}

\* ActiveSummaries of case c on core k.
Rivals(c, k, all) ==
    {[case |-> d, status |-> all[d].status, revision |-> all[d].revision] :
        d \in {d \in Cases \ {c} : all[d] # None /\ all[d].core = k /\ all[d].status # "Frozen"}}

Snapshot(rec, core, rivals) ==
    [caseRevision |-> rec.revision, coreRevision |-> core.revision, rivals |-> rivals]

\* snapshotValidity.
Current(rec, core, rivals) == rec.precheck = Snapshot(rec, core, rivals)

\* Does the handler of request q do what it is asked, having read case record
\* rec, core record core and the rivals of the case?
Accepts(q, rec, core, rivals) ==
    CASE q.kind = "create" -> rec = None
      [] q.kind = "reviseCore" -> core.revision < MaxRevision
      [] q.kind = "available" -> TRUE
      [] q.kind \in OnCase ->
            /\ rec # None
            /\ CASE q.kind \in {"precheck", "submit"} -> rec.status \in {"Draft", "Returned"}
                 [] q.kind = "revise" -> rec.status \in {"Draft", "Returned"} /\ rec.revision < MaxRevision
                 [] q.kind = "return" -> rec.status \in {"Draft", "Submitted"} /\ rec.revision < MaxRevision
                 [] q.kind = "authorize" -> rec.status = "Submitted"
                 [] q.kind = "execute" -> rec.status = "Authorized"
                 [] q.kind = "freeze" -> rec.status = "Executed"
                 [] q.kind = "validity" -> TRUE
            /\ q.kind \in {"submit", "authorize"} => Current(rec, core, rivals) /\ rec.precheck.rivals = {}

\* The case record it writes ...
CaseAfter(q, rec, core, rivals) ==
    CASE q.kind = "create" -> [core |-> q.core, status |-> "Draft", revision |-> 1, precheck |-> None]
      [] q.kind = "precheck" -> [rec EXCEPT !.precheck = Snapshot(rec, core, rivals)]
      [] q.kind = "revise" -> [rec EXCEPT !.revision = @ + 1, !.precheck = None]
      [] q.kind = "return" -> [rec EXCEPT !.revision = @ + 1, !.precheck = None, !.status = "Returned"]
      [] q.kind = "submit" -> [rec EXCEPT !.status = "Submitted"]
      [] q.kind = "authorize" -> [rec EXCEPT !.status = "Authorized"]
      [] q.kind = "execute" -> [rec EXCEPT !.status = "Executed", !.revision = @ + 1]
      [] q.kind = "freeze" -> [rec EXCEPT !.status = "Frozen", !.revision = @ + 1]

\* ... and the core record, if it writes one.
CoreAfter(q, core) ==
    [revision |-> core.revision + 1, mass |-> IF q.kind = "freeze" THEN core.mass - 1 ELSE core.mass]

\* The update, by a handler that found the case, or was asked, on core k.
Write(q, k, rec, core, rivals) ==
    /\ cases' = IF q.kind \in OnCore \cup Reading THEN cases
                ELSE [cases EXCEPT ![q.case] = CaseAfter(q, rec, core, rivals)]
    /\ cores' = IF q.kind \in {"freeze", "reviseCore"}
                THEN [cores EXCEPT ![k] = CoreAfter(q, core)] ELSE cores

-----------------------------------------------------------------------------

Init ==
    /\ cores = [k \in Cores |-> [revision |-> 1, mass |-> Mass]]
    /\ cases = [c \in Cases |-> None]
    /\ call = [t \in Calls |-> None]

Ask(t, q) ==
    /\ call[t] = None
    /\ call' = [call EXCEPT ![t] = q]
    /\ UNCHANGED records

\* A call has its whole effect or, if the handler refuses, none.
Serve(t) ==
    LET q      == call[t]
        rec    == cases[q.case]
        k      == IF q.core # None THEN q.core ELSE rec.core
        rivals == Rivals(q.case, k, cases)
    IN /\ q # None
       /\ IF Accepts(q, rec, cores[k], rivals)
          THEN Write(q, k, rec, cores[k], rivals)
          ELSE UNCHANGED records
       /\ call' = [call EXCEPT ![t] = None]

Next == \E t \in Calls : Serve(t) \/ \E q \in Requests : Ask(t, q)

Spec == Init /\ [][Next]_vars
=============================================================================
