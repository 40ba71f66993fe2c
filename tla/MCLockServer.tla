---------------------------- MODULE MCLockServer ----------------------------
(***************************************************************************)
(* Three resources: a bulk delete of all of them, a single write on the    *)
(* second, and two readers of the first.                                   *)
(***************************************************************************)
EXTENDS LockServer, TLC

CONSTANTS bulk, put, get1, get2, x, y, z

MCUIDs == {bulk, put, get1, get2}
MCResources == {x, y, z}
MCArgs ==
    bulk :> [writer |-> TRUE, resources |-> <<x, y, z>>] @@
    put  :> [writer |-> TRUE, resources |-> <<y>>] @@
    get1 :> [writer |-> FALSE, resources |-> <<x>>] @@
    get2 :> [writer |-> FALSE, resources |-> <<x>>]

\* An admin clears everything, or a part of the bulk delete.
AdminClears == {{x, y, z}, {y}}

GetSymmetry == Permutations({get1, get2})
=============================================================================
