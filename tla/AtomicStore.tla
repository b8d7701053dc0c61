---------------------------- MODULE AtomicStore ----------------------------
(***************************************************************************)
(* What the snapshot store promises the handlers: one sequence of updates, *)
(* each of them made at once or not at all. An update whose caller has an  *)
(* answer is either in the sequence or was refused; only the calls a crash *)
(* interrupts may be left without one. Whatever a call reads is made of    *)
(* updates that stay.                                                      *)
(***************************************************************************)
EXTENDS Sequences

CONSTANTS Calls, Updates, NoUpdate, Loaded

VARIABLES
    data,       \* the updates made, in order
    status,     \* how far the update of each call has come
    request,    \* the update each call asks for
    seen        \* what each call read last

vars == <<data, status, request, seen>>

Init ==
    /\ data \in Loaded
    /\ status = [c \in Calls |-> "idle"]
    /\ request = [c \in Calls |-> NoUpdate]
    /\ seen = [c \in Calls |-> << >>]

Read(c) ==
    /\ seen' = [seen EXCEPT ![c] = data]
    /\ UNCHANGED <<data, status, request>>

Ask(c, u) ==
    /\ status[c] = "idle"
    /\ status' = [status EXCEPT ![c] = "open"]
    /\ request' = [request EXCEPT ![c] = u]
    /\ UNCHANGED <<data, seen>>

Commit(c) ==
    /\ status[c] = "open"
    /\ data' = Append(data, request[c])
    /\ status' = [status EXCEPT ![c] = "made"]
    /\ UNCHANGED <<request, seen>>

Answer(c) ==
    /\ \/ status[c] = "made" /\ status' = [status EXCEPT ![c] = "ok"]
       \/ status[c] = "open" /\ status' = [status EXCEPT ![c] = "failed"]
    /\ UNCHANGED <<data, request, seen>>

\* Calls without an answer never get one; nothing else is lost.
Crash ==
    /\ status' = [c \in Calls |-> IF status[c] \in {"open", "made"} THEN "lost" ELSE status[c]]
    /\ UNCHANGED <<data, request, seen>>

Next ==
    \/ \E c \in Calls : Read(c) \/ Commit(c) \/ Answer(c) \/ \E u \in Updates : Ask(c, u)
    \/ Crash

Spec == Init /\ [][Next]_vars
=============================================================================
