-------------------------- MODULE MCErasureObject --------------------------
(***************************************************************************)
(* One object on a few drives.                                             *)
(***************************************************************************)
EXTENDS ErasureObject, TLC
=============================================================================
