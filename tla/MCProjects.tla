---------------------------- MODULE MCProjects ----------------------------
(* Small instances of Projects for TLC. *)
EXTENDS Projects, TLC

\* Requests of one kind are interchangeable.
Symmetry == Permutations(Creates) \cup Permutations(Renames)
            \cup Permutations(Deletes) \cup Permutations(Starts)
=============================================================================
