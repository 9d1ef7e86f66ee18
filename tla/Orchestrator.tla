---------------------------- MODULE Orchestrator ----------------------------
(***************************************************************************)
(* One project ID with the execution manager that runs its conversations:  *)
(* the handlers of Projects, which assume what they need of executions, on *)
(* the ExecutionManager of the same server.  A start returns while its     *)
(* launch is still under way and the project lock is free again; a         *)
(* deletion stops the conversation step by step.                           *)
(*                                                                         *)
(* The execution key of a project is its ID with the CreatorToken          *)
(* (projectExecutionKey), so keys are the tokens of Projects.  A start     *)
(* request names the invocation it launches, if it launches one; deletions *)
(* are the callers of Stop.  Renames, which use no executions, and crashes *)
(* are in Projects; Close is in ServerLifecycle.                           *)
(***************************************************************************)
EXTENDS Naturals, FiniteSets

CONSTANTS Creates, Deletes, Starts,   \* the requests of each kind
          None, MaxStoreFaults, MaxFileFaults

VARIABLES
    record, dir, lock, pc, snapshot, made, answer, failures,   \* of Projects
    current, key, launch, cancelled, process, result, startErr, stopDone,
    stopErr, harness, target, outcome, closing,                \* of ExecutionManager
    stopPc                                                     \* its pc

Executions == INSTANCE ExecutionManager
    WITH Keys <- Creates, Invocations <- Starts, Callers <- Deletes, pc <- stopPc

\* An invocation without a report may have left its harness alive.
Unconfirmed(i) == process[i] = "done" /\ ~result[i]
MayRun(i) ==
    launch[i] = "starting" \/ process[i] = "live" \/ harness[i] = "alive" \/ Unconfirmed(i)
KeysOf(I) == {key[i] : i \in I}

\* Tokens the manager launches or runs a harness for, knows, and gave up on.
Running == KeysOf({i \in Starts : MayRun(i)})
Known   == KeysOf({i \in Starts : launch[i] # "unused"})
GivenUp == KeysOf({i \in Starts : Unconfirmed(i)})

\* What Projects says of executions, in terms of the manager.
Handlers == INSTANCE Projects
    WITH Renames <- {}, draft <- <<>>, MaxCrashes <- 0,
         running <- Running, known <- Known, unconfirmed <- GivenUp

\* The three kinds of requests are apart from each other and from nil.
ASSUME RequestsDistinct ==
    Creates \cap Deletes = {} /\ Creates \cap Starts = {} /\ Deletes \cap Starts = {}
ASSUME NoneIsNil ==
    None \notin Creates \cup Deletes \cup Starts \cup Handlers!ProjectRecords
ASSUME BoundsAreNaturals == MaxStoreFaults \in Nat /\ MaxFileFaults \in Nat

\* "A recreated project must not inherit the previous project's terminal."
projectExecutionKey_NoToken(p) == CHOOSE c \in Creates : TRUE
projectExecutionKey(p) == p.token

execVars == <<current, key, launch, cancelled, process, result, startErr, stopDone,
              stopErr, harness, target, outcome, closing, stopPc>>
handlerVars == <<record, dir, lock, pc, snapshot, made, answer, failures>>
vars == <<execVars, handlerVars>>

Init ==
    /\ Executions!Init
    /\ record = None
    /\ dir \in {Handlers!Directory(None, "absent"), Handlers!Directory(None, "foreign")}
    /\ lock = None
    /\ pc = [r \in Handlers!Requests |-> "idle"]
    /\ snapshot = [r \in Handlers!Requests |-> None]
    /\ made = [c \in Creates |-> FALSE]
    /\ answer = [r \in Handlers!Requests |-> "none"]
    /\ failures = [store |-> 0, file |-> 0, crash |-> 0]

-----------------------------------------------------------------------------
(* deleteProject: executions.Stop, under the project lock *)

StopBegins(d) ==
    /\ pc[d] = "stop"
    /\ Executions!StopEnter(d, projectExecutionKey(snapshot[d]))
    /\ UNCHANGED handlerVars

StopGoesOn(d) ==
    /\ Executions!StopSteps(d)
    /\ UNCHANGED handlerVars

\* Stop has returned: an error is the answer, nil lets the deletion go on.
StopDone(d) ==
    /\ pc[d] = "stop"
    /\ Executions!CallerContinues(d)
    /\ IF outcome[d] = "ok" THEN Handlers!Goto(d, "claim") ELSE Handlers!Respond(d, "error")
    /\ UNCHANGED <<record, dir, made, snapshot, failures>>

Stops(d) == StopBegins(d) \/ StopGoesOn(d) \/ StopDone(d)

-----------------------------------------------------------------------------
(* startConversation: executions.Start, under the project lock *)

StartLaunch(s) ==
    /\ pc[s] = "launch"
    /\ LET k == projectExecutionKey(snapshot[s])
       IN  \/ Executions!Start(k, s) /\ Handlers!Respond(s, "ok")
           \/ /\ Executions!AlreadyStarted(k)
              /\ Handlers!Respond(s, "ok") /\ UNCHANGED execVars
           \/ /\ ~Executions!StartAccepts(k)
              /\ Handlers!Respond(s, "conflict") /\ UNCHANGED execVars
    /\ UNCHANGED <<record, dir, made, snapshot, failures>>

-----------------------------------------------------------------------------
\* Everything else a request does leaves the executions alone.
Apart(r) ==
    /\ UNCHANGED execVars
    /\ \/ r \in Creates /\ Handlers!CreateSteps(r)
       \/ /\ r \in Deletes
          /\ \/ Handlers!DeleteGet(r) \/ Handlers!DeleteClaim(r) \/ Handlers!DeleteFiles(r)
             \/ Handlers!DeleteRecord(r) \/ Handlers!ReportFailure(r)
       \/ r \in Starts /\ (Handlers!StartGet(r) \/ Handlers!StartFiles(r))

Work(r) ==
    \/ Apart(r)
    \/ r \in Deletes /\ Stops(r)
    \/ r \in Starts /\ StartLaunch(r)

Arrive(r) == UNCHANGED execVars /\ Handlers!Arrive(r)

\* Launches, wrappers and harnesses.
LaunchEnds(i) == Executions!LaunchEnds(i) /\ UNCHANGED handlerVars
ProcessExit(i) == Executions!ProcessExit(i) /\ UNCHANGED handlerVars
Runs(i) ==
    \/ LaunchEnds(i)
    \/ ProcessExit(i)
    \/ (Executions!HarnessUp(i) \/ Executions!HarnessExit(i)) /\ UNCHANGED handlerVars

Next ==
    \/ \E r \in Handlers!Requests : Arrive(r) \/ Work(r)
    \/ \E i \in Starts : Runs(i)

Spec == Init /\ [][Next]_vars

(***************************************************************************)
(* A handler that has begun goes on, a launch ends and a canceled wrapper  *)
(* is killed after its WaitDelay (ServerLifecycle has the reasons).  Who   *)
(* waits for the lock gets it once it stays free.                          *)
(***************************************************************************)
Fairness ==
    /\ \A r \in Handlers!Requests : WF_vars(Work(r))
    /\ \A i \in Starts : WF_vars(LaunchEnds(i)) /\ WF_vars(ProcessExit(i) /\ cancelled[i])

FairSpec == Spec /\ Fairness

-----------------------------------------------------------------------------
(* Properties *)

\* What Projects assumes of executions the manager provides: with launches that
\* outlive the lock they were started under and stops that take their time, every
\* behavior is one of Projects, so its promises about files and records hold.
ImplementsProjects == Handlers!Spec

\* Every request that holds the project lock gives it back, although it may stop a
\* conversation whose launch has just begun or whose wrapper hangs.
LockIsReleased == \A r \in Handlers!Requests : lock = r ~> lock # r

\* A reserved ID is worked on by the request that reserved it, or it is abandoned:
\* nobody will end the reservation.
Reserved == IF record = None THEN FALSE ELSE record.state \in {"creating", "deleting"}
AtWork == Reserved /\ \E r \in Creates \cup Deletes : pc[r] # "done" /\ snapshot[r] = record
Abandoned == Reserved /\ ~AtWork

\* The request at work on a reserved ID comes to an end, and ends the reservation, by
\* completing, rolling back or recording a failed deletion, whatever has failed before.
\* Only a call that fails in the very step that ends the request abandons the ID: the
\* last update of a creation (as when its client disconnects), a call of a rollback,
\* the insertion, or the claim or the report of a deletion.
ReservationEnds ==
    /\ AtWork ~> ~AtWork
    /\ [][Abandoned' /\ ~Abandoned => failures' # failures]_vars
=============================================================================
