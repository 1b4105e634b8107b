--------------------------- MODULE MCCleanCheckout ---------------------------
(***************************************************************************)
(* Overlapping verifications of two commits that share the path of their   *)
(* receipt.                                                                *)
(***************************************************************************)
EXTENDS CleanCheckout, TLC

MCSourceNames == <<"__init__.py", "metrics.py">>

\* Neither the verifiers nor the commits are told apart by the code.
Symmetry == Permutations(Verifiers) \cup Permutations(Commits)
=============================================================================
