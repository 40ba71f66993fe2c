--------------------------- MODULE MCServerPools ---------------------------
(***************************************************************************)
(* A few requests for one object, in one pool or two.                      *)
(***************************************************************************)
EXTENDS ServerPools, TLC

CONSTANTS get, put1, put2, delete, bulk, up1, n1, n2

MCKind ==
    [o \in Requests |-> CASE o = get -> "get" [] o \in {put1, put2} -> "put"
                          [] o = delete -> "delete" [] o = bulk -> "bulk"
                          [] OTHER -> "upload"]

\* Every set of a pool has its drives on the same nodes.
SameNodes == [p \in Pools |-> [n \in Names |-> IF p = 0 THEN n1 ELSE n2]]

PutSymmetry == Permutations({put1, put2})
=============================================================================
