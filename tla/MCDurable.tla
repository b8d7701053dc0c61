----------------------------- MODULE MCDurable -----------------------------
(***************************************************************************)
(* Requests for small instances of the idempotent calls. Cut and           *)
(* verification use the same key: each has a name space of its own.        *)
(***************************************************************************)
EXTENDS DurableService

Body(core, kind, key, payload, good) ==
    [core |-> core, kind |-> kind, key |-> key, payload |-> payload, good |-> good]

\* Cuts and verifications of one case with one key or another, and the cut of
\* a second case under the same key.
CutsAndVerifications ==
    {Body("core1", "execute", "key", "p", TRUE),
     Body("core1", "execute", "key", "q", TRUE),
     Body("core1", "execute", "other", "p", FALSE),
     Body("core1", "verify", "key", "p", TRUE),
     Body("core1", "verify", "key", "q", FALSE),
     Body("core1", "verify", "other", "p", TRUE),
     Body("core2", "execute", "key", "p", TRUE)}

Written ==
    [core : {"core1", "core2"}, key : {"key", "other"}, payload : {"p", "q"},
     outcome : {"cut", "rejected", "passed"}]

Wrote(payload, outcome) ==
    [core |-> "core1", key |-> "key", payload |-> payload, outcome |-> outcome]

\* The server starts empty, or on a first case that is cut, verified or frozen.
EveryStatus ==
    {<< >>,
     <<Wrote("p", "cut")>>,
     <<Wrote("p", "cut"), Wrote("q", "rejected")>>,
     <<Wrote("p", "cut"), Wrote("p", "passed")>>}
=============================================================================
