------------------------------ MODULE HarnessMC ------------------------------
(***************************************************************************)
(* Module Harness for runs that check safety only: there any worker may    *)
(* stand for any other.                                                    *)
(***************************************************************************)
EXTENDS Harness, TLC

WorkerSymmetry == Permutations(Workers)
==============================================================================
