---------------------------- MODULE MCCapability ----------------------------
(***************************************************************************)
(* Identities and clauses are interchangeable.                             *)
(***************************************************************************)
EXTENDS Capability, TLC

Symmetry == Permutations(Identity) \cup Permutations(Clause)
=============================================================================
