------------------------------ MODULE MCNSLock ------------------------------
(***************************************************************************)
(* Two bulk deletes that list the same two objects in opposite orders, and *)
(* a reader of each object.                                                *)
(***************************************************************************)
EXTENDS NSLock, TLC

CONSTANTS delete12, delete21, get1, get2

MCCallers == {delete12, delete21, get1, get2}
MCArgs ==
    delete12 :> [writer |-> TRUE, paths |-> <<1, 2>>] @@
    delete21 :> [writer |-> TRUE, paths |-> <<2, 1>>] @@
    get1 :> [writer |-> FALSE, paths |-> <<1>>] @@
    get2 :> [writer |-> FALSE, paths |-> <<2>>]

MutexSymmetry == Permutations(Mutexes)
=============================================================================
