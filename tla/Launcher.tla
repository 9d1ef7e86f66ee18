------------------------------ MODULE Launcher ------------------------------
(***************************************************************************)
(* The contract between executionManager and its launcher, for one         *)
(* invocation: "The launcher must honor cancellation and finish failed     *)
(* startup cleanup before returning.  A process returned with an error     *)
(* retains uncertain ownership" (execution_manager.go, above               *)
(* newExecutionManager; wrapper.go, above startWrapper).                   *)
(*                                                                         *)
(* ExecutionManager relies on it for every invocation; WrapperChild shows  *)
(* that startWrapper and the wrap subprocess keep it.                      *)
(***************************************************************************)
VARIABLES phase,     \* "unused", "starting", "finished"
          failed,    \* the launcher returned an error
          process,   \* what it returned: "nil", "live", or "done" (joined)
          result,    \* the process carries an exit report
          harness    \* "none", "alive", "gone"

vars == <<phase, failed, process, result, harness>>

Init ==
    /\ phase \in {"unused", "starting"}
    /\ failed = FALSE
    /\ process = "nil"
    /\ result = FALSE
    /\ harness = "none"

Begin ==
    /\ phase = "unused"
    /\ phase' = "starting"
    /\ UNCHANGED <<failed, process, result, harness>>

\* A harness only ever comes up while its launch is in progress.
HarnessUp ==
    /\ phase = "starting"
    /\ harness = "none"
    /\ harness' = "alive"
    /\ UNCHANGED <<phase, failed, process, result>>

HarnessExit ==
    /\ harness = "alive"
    /\ harness' = "gone"
    /\ UNCHANGED <<phase, failed, process, result>>

\* The process is joined.  An exit report vouches for the harness.
Joined ==
    /\ process' = "done"
    /\ result' \in {FALSE, harness = "gone"}

Return(error) ==
    /\ phase = "starting"
    /\ phase' = "finished"
    /\ failed' = error
    /\ UNCHANGED harness

\* A process without an error has, or had, a harness.
Succeed ==
    /\ Return(FALSE)
    /\ harness # "none"
    /\ Joined \/ (process' = "live" /\ UNCHANGED result)

\* An error without a process leaves nothing behind.
FailCleanly ==
    /\ Return(TRUE)
    /\ harness # "alive"
    /\ UNCHANGED <<process, result>>

\* An error with a process: the process is joined, the harness unknown.
FailUncertain == Return(TRUE) /\ Joined

ProcessExit ==
    /\ process = "live"
    /\ Joined
    /\ UNCHANGED <<phase, failed, harness>>

Next ==
    \/ Begin
    \/ HarnessUp
    \/ HarnessExit
    \/ Succeed
    \/ FailCleanly
    \/ FailUncertain
    \/ ProcessExit

Spec == Init /\ [][Next]_vars
=============================================================================
