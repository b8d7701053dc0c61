------------------------------ MODULE MCClient ------------------------------
(***************************************************************************)
(* One case, a client who edits and cuts it, and everybody else.           *)
(***************************************************************************)
EXTENDS InformedClient, MCSampling

\* A cut of [4,10) is within the tolerance of the first request only.
NearAndFar ==
    {[requested |-> {Ivl(4, 8)}, estimated |-> 1],
     [requested |-> {Ivl(12, 16)}, estimated |-> 1]}
=============================================================================
