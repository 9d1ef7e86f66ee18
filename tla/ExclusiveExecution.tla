------------------------- MODULE ExclusiveExecution -------------------------
(***************************************************************************)
(* What execution_manager.go promises to the rest of the server, without   *)
(* its locks, channels and processes: for each conversation key at most    *)
(* one harness exists at a time, every launch is a fresh invocation, and   *)
(* an invocation that has ended never comes back.                          *)
(***************************************************************************)
CONSTANTS Keys,         \* conversation keys ("project:token")
          Invocations   \* invocation identifiers

VARIABLES alive,        \* alive[k]: invocations of k whose harness exists
          spent         \* invocations whose harness has existed

vars == <<alive, spent>>

Init ==
    /\ alive = [k \in Keys |-> {}]
    /\ spent = {}

\* A harness comes up under key k: nobody else holds k and i is new.
Launch(k, i) ==
    /\ alive[k] = {}
    /\ i \notin spent
    /\ alive' = [alive EXCEPT ![k] = {i}]
    /\ spent' = spent \cup {i}

\* The harness of invocation i ends, for whatever reason.
End(k, i) ==
    /\ i \in alive[k]
    /\ alive' = [alive EXCEPT ![k] = {}]
    /\ UNCHANGED spent

Next == \E k \in Keys, i \in Invocations : Launch(k, i) \/ End(k, i)

Spec == Init /\ [][Next]_vars
=============================================================================
