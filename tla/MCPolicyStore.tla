----------------------------- MODULE MCPolicyStore -----------------------------
(* Model-checking instances of PolicyStore. *)
EXTENDS PolicyStore, TLC

\* Addresses are interchangeable.
Symmetry == Permutations(Ptr)
================================================================================
