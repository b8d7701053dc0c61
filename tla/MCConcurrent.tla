---------------------------- MODULE MCConcurrent ----------------------------
(***************************************************************************)
(* Requests for small instances of the concurrent handlers.                *)
(***************************************************************************)
EXTENDS ConcurrentService, TLC

CONSTANTS t1, t2, c1, c2, k1, k2

TwoCalls == {t1, t2}

Symmetry == Permutations(TwoCalls)

Create(c, k) == [kind |-> "create", case |-> c, core |-> k]

For(c, kinds) == {[kind |-> k, case |-> c, core |-> None] : k \in kinds}

About(k, kinds) == {[kind |-> x, case |-> None, core |-> k] : x \in kinds}

Road == {"precheck", "submit", "authorize", "execute", "freeze"}

\* Two cases of one core, one that may be returned and one whose snapshot is
\* looked at, while the core may be revised.
CaseAndRival ==
    {Create(c1, k1), Create(c2, k1)}
    \cup For(c1, Road \cup {"validity"})
    \cup For(c2, Road \cup {"return"})
    \cup About(k1, {"reviseCore"})

\* One id is used on two cores.
CreatedTwice == {Create(c1, k1), Create(c1, k2)}

\* One case goes all the way while its core and its snapshot are looked at.
CaseWatched ==
    {Create(c1, k1)} \cup For(c1, Road \cup {"revise", "validity"}) \cup About(k1, {"available"})
=============================================================================
