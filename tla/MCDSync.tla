------------------------------ MODULE MCDSync ------------------------------
(***************************************************************************)
(* Two requests for one resource on a handful of lockers.                  *)
(***************************************************************************)
EXTENDS DSync, TLC

CONSTANTS put, get, x

MCUIDs == {put, get}
MCResources == {x}
TwoWriters ==
    put :> [writer |-> TRUE, resources |-> <<x>>] @@
    get :> [writer |-> TRUE, resources |-> <<x>>]
WriterAndReader ==
    put :> [writer |-> TRUE, resources |-> <<x>>] @@
    get :> [writer |-> FALSE, resources |-> <<x>>]

OneWriter == put :> [writer |-> TRUE, resources |-> <<x>>]

LockerSymmetry == Permutations(Lockers)
=============================================================================
