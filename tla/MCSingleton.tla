----------------------------- MODULE MCSingleton -----------------------------
(***************************************************************************)
(* The instance of Singleton for TLC: daemons are interchangeable.         *)
(***************************************************************************)
EXTENDS Singleton, TLC

MCSymmetry == Permutations(Proc)
=============================================================================
