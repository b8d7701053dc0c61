--------------------------- MODULE CaseLifecycle ---------------------------
(***************************************************************************)
(* What a sampling case promises its readers, whatever its data: the       *)
(* transition table of SamplingCase.ValidateTransition in                  *)
(* internal/domain/models.go. No handler calls that method. The handlers'  *)
(* own guards are in SamplingWorkflow, which is checked to implement this  *)
(* module.                                                                 *)
(***************************************************************************)
CONSTANTS
    Cases,      \* the case ids in use
    None        \* "there is no such case"

VARIABLES
    status,     \* status[c]: the status of case c, None before it is created
    open        \* open[c]: some review finding of c is not closed

vars == <<status, open>>

Status == {"Draft", "Returned", "Submitted", "Authorized", "Executed", "Frozen"}

Allowed(from, to) ==
    \/ from = "Draft"      /\ to \in {"Submitted", "Returned"}
    \/ from = "Returned"   /\ to = "Submitted"
    \/ from = "Submitted"  /\ to \in {"Authorized", "Returned"}
    \/ from = "Authorized" /\ to = "Executed"
    \/ from = "Executed"   /\ to = "Frozen"

Init ==
    /\ status = [c \in Cases |-> None]
    /\ open = [c \in Cases |-> FALSE]

Create(c) ==
    /\ status[c] = None
    /\ status' = [status EXCEPT ![c] = "Draft"]
    /\ UNCHANGED open

\* Open findings bar an authorization, and only a return raises findings.
Transition(c, next) ==
    /\ Allowed(status[c], next)
    /\ next = "Authorized" => ~open[c]
    /\ status' = [status EXCEPT ![c] = next]
    /\ open' = [open EXCEPT ![c] = @ \/ next = "Returned"]

\* The last open finding is closed, while the case is with its author.
CloseFindings(c) ==
    /\ status[c] = "Returned"
    /\ open[c]
    /\ open' = [open EXCEPT ![c] = FALSE]
    /\ UNCHANGED status

Next ==
    \E c \in Cases :
        \/ Create(c)
        \/ \E next \in Status : Transition(c, next)
        \/ CloseFindings(c)

Spec == Init /\ [][Next]_vars
=============================================================================
