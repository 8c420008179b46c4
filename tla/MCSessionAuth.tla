----------------------------- MODULE MCSessionAuth -----------------------------
(***************************************************************************)
(* SessionAuth on a small instance; its threads are interchangeable.       *)
(***************************************************************************)
EXTENDS SessionAuth, TLC

WorkerSymmetry == Permutations(Workers)
================================================================================
