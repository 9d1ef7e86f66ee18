------------------------ MODULE MCExecutionManager ------------------------
(* Small instances of ExecutionManager for TLC. *)
EXTENDS ExecutionManager, TLC

\* Keys, invocations and callers are interchangeable; Close's goroutines are
\* permuted with their keys.
Symmetry == Permutations(Keys) \cup Permutations(Invocations) \cup Permutations(Callers)
=============================================================================
