---------------------------- MODULE MCTerminal ----------------------------
(* Small instances of Terminal for TLC. *)
EXTENDS Terminal
=============================================================================
