-------------------------- MODULE ExecutionManager --------------------------
(***************************************************************************)
(* internal/server/execution_manager.go.  The manager keeps, for each      *)
(* conversation key, the state of its current invocation: a launch in      *)
(* progress, a wrapper process, a stop in progress.  Every critical        *)
(* section of executionManager.mu is one action.                           *)
(*                                                                         *)
(* The launcher is the contract written above newExecutionManager: "The    *)
(* launcher must honor cancellation and finish failed startup cleanup      *)
(* before returning.  A process returned with an error retains uncertain   *)
(* ownership."  It decides when the harness comes up and when the wrapper  *)
(* process ends, with or without an exit report.                           *)
(*                                                                         *)
(* An invocation identifier (rand.Text) stands for the executionState      *)
(* object it names: a pointer to the object is the identifier.             *)
(***************************************************************************)
EXTENDS Naturals, FiniteSets

CONSTANTS Keys,          \* conversation keys
          Invocations,   \* invocation identifiers, each used at most once
          Callers,       \* goroutines calling Stop on behalf of requests
          None           \* nil

\* Close runs one Stop goroutine per key; that goroutine is named by its key.
Actors == Callers \cup Keys

ASSUME ActorsDistinct == Callers \cap Keys = {}
ASSUME NoneIsNil == None \notin Invocations \cup Keys

VARIABLES
    current,    \* current[k]: the invocation m.states[k], or None
    key,        \* key[i]: the key invocation i was registered under
    launch,     \* launch[i]: "unused", "starting" (channel open), "finished"
    cancelled,  \* cancelled[i]: the execution context has been canceled
    process,    \* process[i]: "nil", "live" (done open), "done"
    result,     \* result[i]: an exit report was read before done closed
    startErr,   \* startErr[i]: the launch returned an error
    stopDone,   \* stopDone[i]: "nil", "open", "closed"
    stopErr,    \* stopErr[i]: the stop found the exit unconfirmed
    harness,    \* harness[i]: "none", "alive", "gone" in the real world
    pc,         \* pc[a]: where actor a is in Stop
    target,     \* target[a]: the state object that Stop works on
    outcome,    \* outcome[a]: what Stop returned, "none", "ok", "unconfirmed"
    closing     \* "open", "joining" (m.closed set), "closed" (Close returned)

stateVars  == <<current, key, launch, cancelled, startErr, stopDone, stopErr>>
worldVars  == <<process, result, harness>>
callerVars == <<pc, target, outcome, closing>>
vars == <<stateVars, worldVars, callerVars>>

-----------------------------------------------------------------------------
(* Start *)

Used(i) == key[i] # None

\* The previous invocation of k no longer stands in the way: its launch has
\* returned and its process never existed or ended with an exit report.
Replaceable_IgnoreResult(k) ==
    current[k] # None =>
         /\ stopDone[current[k]] # "open"
         /\ launch[current[k]] = "finished"
         /\ process[current[k]] \in {"nil", "done"}
Replaceable(k) ==
    current[k] # None =>
         /\ stopDone[current[k]] # "open"
         /\ launch[current[k]] = "finished"
         /\ \/ process[current[k]] = "nil"
            \/ process[current[k]] = "done" /\ result[current[k]]

\* Start returns the current invocation without launching anything.
AlreadyStarted(k) ==
    /\ current[k] # None
    /\ stopDone[current[k]] # "open"
    /\ launch[current[k]] = "starting" \/ process[current[k]] = "live"

\* Start(k) returns no error.
StartAccepts(k) == closing = "open" /\ (Replaceable(k) \/ AlreadyStarted(k))

\* Start registers a new state object and spawns its launch goroutine.  A call
\* that returns the existing state or an error changes nothing.
Start(k, i) ==
    /\ ~Used(i)
    /\ closing = "open"
    /\ Replaceable(k)
    /\ current' = [current EXCEPT ![k] = i]
    /\ key' = [key EXCEPT ![i] = k]
    /\ launch' = [launch EXCEPT ![i] = "starting"]
    /\ cancelled' = [j \in Invocations |-> cancelled[j] \/ j = current[k]]
    /\ UNCHANGED <<startErr, stopDone, stopErr, worldVars, callerVars>>

-----------------------------------------------------------------------------
(* The launch goroutine and the processes it leaves behind *)

\* The wrapper starts the harness while startWrapper waits for its report.
HarnessUp(i) ==
    /\ launch[i] = "starting"
    /\ harness[i] = "none"
    /\ harness' = [harness EXCEPT ![i] = "alive"]
    /\ UNCHANGED <<stateVars, process, result, callerVars>>

\* The harness ends by itself, or is killed by its wrapper or by a user.
HarnessExit(i) ==
    /\ harness[i] = "alive"
    /\ harness' = [harness EXCEPT ![i] = "gone"]
    /\ UNCHANGED <<stateVars, process, result, callerVars>>

\* The goroutine records what the launcher returned and closes "starting".  An
\* error cancels the execution context.
LaunchReturns(i, err) ==
    /\ launch[i] = "starting"
    /\ launch' = [launch EXCEPT ![i] = "finished"]
    /\ startErr' = [startErr EXCEPT ![i] = err]
    /\ cancelled' = [cancelled EXCEPT ![i] = @ \/ err]
    /\ UNCHANGED <<current, key, stopDone, stopErr, harness, callerVars>>

\* The process has been joined.  An exit report is only written after the
\* harness was reaped, so a report that was read vouches for the harness.
Joined_ReportBeforeReap(i) ==
    /\ process' = [process EXCEPT ![i] = "done"]
    /\ \E confirmed \in BOOLEAN : result' = [result EXCEPT ![i] = confirmed]
Joined(i) ==
    /\ process' = [process EXCEPT ![i] = "done"]
    /\ \E confirmed \in BOOLEAN :
          /\ confirmed => harness[i] = "gone"
          /\ result' = [result EXCEPT ![i] = confirmed]

\* A wrapper that reported its address has started its harness; it may have
\* ended again by the time the launcher returns.
LaunchSucceeds(i) ==
    /\ LaunchReturns(i, FALSE)
    /\ harness[i] # "none"
    /\ \/ Joined(i)
       \/ process' = [process EXCEPT ![i] = "live"] /\ UNCHANGED result

\* No process was started, or the wrapper reported that its setup failed and
\* was joined: there is no harness and no process to keep.
LaunchFailsCleanly(i) ==
    /\ LaunchReturns(i, TRUE)
    /\ harness[i] # "alive"
    /\ UNCHANGED <<process, result>>

\* The wrapper was shut down and joined after a bad or missing report.
LaunchFailsUncertain(i) == LaunchReturns(i, TRUE) /\ Joined(i)

LaunchEnds(i) ==
    LaunchSucceeds(i) \/ LaunchFailsCleanly(i) \/ LaunchFailsUncertain(i)

\* The wrapper process ends and its lifecycle output has been read.
ProcessExit(i) ==
    /\ process[i] = "live"
    /\ Joined(i)
    /\ UNCHANGED <<stateVars, harness, callerVars>>

-----------------------------------------------------------------------------
(* Stop *)

\* First critical section.  A key without a state needs no stop; a stop in
\* progress or finished is joined; otherwise this call owns the stop, cancels
\* the execution and remembers whether a launch has to be awaited.
StopUnregistered(a, k) ==
    /\ current[k] = None
    /\ pc' = [pc EXCEPT ![a] = "returned"]
    /\ outcome' = [outcome EXCEPT ![a] = "ok"]
    /\ target' = [target EXCEPT ![a] = None]
    /\ UNCHANGED <<stateVars, worldVars, closing>>

StopJoins(a, k) ==
    /\ current[k] # None
    /\ stopDone[current[k]] # "nil"
    /\ pc' = [pc EXCEPT ![a] = "waiting"]
    /\ target' = [target EXCEPT ![a] = current[k]]
    /\ UNCHANGED <<stateVars, worldVars, outcome, closing>>

StopOwns_NoCancel(a, k) ==
    /\ current[k] # None
    /\ stopDone[current[k]] = "nil"
    /\ stopDone' = [stopDone EXCEPT ![current[k]] = "open"]
    /\ pc' = [pc EXCEPT ![a] = IF launch[current[k]] = "starting"
                               THEN "starting" ELSE "process"]
    /\ target' = [target EXCEPT ![a] = current[k]]
    /\ UNCHANGED <<current, key, launch, cancelled, startErr, stopErr,
                   worldVars, outcome, closing>>
StopOwns(a, k) ==
    /\ current[k] # None
    /\ stopDone[current[k]] = "nil"
    /\ stopDone' = [stopDone EXCEPT ![current[k]] = "open"]
    /\ cancelled' = [cancelled EXCEPT ![current[k]] = TRUE]
    /\ pc' = [pc EXCEPT ![a] = IF launch[current[k]] = "starting"
                               THEN "starting" ELSE "process"]
    /\ target' = [target EXCEPT ![a] = current[k]]
    /\ UNCHANGED <<current, key, launch, startErr, stopErr,
                   worldVars, outcome, closing>>

StopEnter(a, k) ==
    /\ pc[a] = "idle"
    /\ StopUnregistered(a, k) \/ StopJoins(a, k) \/ StopOwns(a, k)

\* <-starting: the canceled launcher has finished its cleanup.
StopAwaitsLaunch(a) ==
    /\ pc[a] = "starting"
    /\ launch[target[a]] = "finished"
    /\ pc' = [pc EXCEPT ![a] = "process"]
    /\ UNCHANGED <<stateVars, worldVars, target, outcome, closing>>

\* The process, if there is one, has been shut down and joined; its result is
\* final.  The last critical section publishes the stop.
StopReturn(a) == IF stopErr[target[a]] THEN "unconfirmed" ELSE "ok"

StopJoinsProcess_IgnoreResult(a) ==
    /\ pc[a] = "process"
    /\ process[target[a]] # "live"
    /\ stopDone' = [stopDone EXCEPT ![target[a]] = "closed"]
    /\ pc' = [pc EXCEPT ![a] = "returned"]
    /\ outcome' = [outcome EXCEPT ![a] = "ok"]
    /\ UNCHANGED <<current, key, launch, cancelled, startErr, stopErr, worldVars, target, closing>>
StopJoinsProcess(a) ==
    /\ pc[a] = "process"
    /\ process[target[a]] # "live"
    /\ LET unconfirmed == process[target[a]] = "done" /\ ~result[target[a]]
       IN  /\ stopErr' = [stopErr EXCEPT ![target[a]] = unconfirmed]
           /\ outcome' = [outcome EXCEPT ![a] =
                             IF unconfirmed THEN "unconfirmed" ELSE "ok"]
    /\ stopDone' = [stopDone EXCEPT ![target[a]] = "closed"]
    /\ pc' = [pc EXCEPT ![a] = "returned"]
    /\ UNCHANGED <<current, key, launch, cancelled, startErr, worldVars,
                   target, closing>>

\* <-done: another call finished the stop; return its error.
StopWaits(a) ==
    /\ pc[a] = "waiting"
    /\ stopDone[target[a]] = "closed"
    /\ pc' = [pc EXCEPT ![a] = "returned"]
    /\ outcome' = [outcome EXCEPT ![a] = StopReturn(a)]
    /\ UNCHANGED <<stateVars, worldVars, target, closing>>

StopSteps(a) == StopAwaitsLaunch(a) \/ StopJoinsProcess(a) \/ StopWaits(a)

\* The request that called Stop goes on; its goroutine may call Stop again.
CallerContinues(a) ==
    /\ a \in Callers
    /\ pc[a] = "returned"
    /\ pc' = [pc EXCEPT ![a] = "idle"]
    /\ target' = [target EXCEPT ![a] = None]
    /\ outcome' = [outcome EXCEPT ![a] = "none"]
    /\ UNCHANGED <<stateVars, worldVars, closing>>

-----------------------------------------------------------------------------
(* Close *)

\* The keys Close stops: m.states only grows, and not after m.closed is set, so
\* the snapshot Close takes is the registered keys from then on.
Registered == {k \in Keys : current[k] # None}

CloseBegins ==
    /\ closing = "open"
    /\ closing' = "joining"
    /\ UNCHANGED <<stateVars, worldVars, pc, target, outcome>>

\* jobs.Go: the Stop goroutine of key k starts.
CloseJob(k) ==
    /\ closing = "joining"
    /\ k \in Registered
    /\ StopEnter(k, k)

\* jobs.Wait: every Stop goroutine has returned.
CloseEnds_NoWait ==
    /\ closing = "joining"
    /\ closing' = "closed"
    /\ UNCHANGED <<stateVars, worldVars, pc, target, outcome>>
CloseEnds ==
    /\ closing = "joining"
    /\ \A k \in Registered : pc[k] = "returned"
    /\ closing' = "closed"
    /\ UNCHANGED <<stateVars, worldVars, pc, target, outcome>>

\* The joined error Close returns is nil.
CloseReturnsOk ==
    closing = "closed" /\ \A k \in Registered : outcome[k] = "ok"

-----------------------------------------------------------------------------
(* Status *)

Report(state, allowed) == [state |-> state, allowed |-> allowed]

\* A stop in progress or finished hides what the process itself looks like.
StoppingStatus_IgnoreError(i) ==
    IF stopDone[i] = "open" THEN Report("stopping", FALSE)
    ELSE Report("stopped", closing = "open")
StoppingStatus(i) ==
    IF stopDone[i] = "open" THEN Report("stopping", FALSE)
    ELSE IF stopErr[i] THEN Report("failed", FALSE)
    ELSE Report("stopped", closing = "open")

ProcessStatus(i) ==
    CASE process[i] = "nil"  -> Report("stopped", closing = "open")
      [] process[i] = "live" -> Report("running", closing = "open")
      [] process[i] = "done" -> IF result[i] THEN Report("exited", closing = "open")
                                ELSE Report("failed", FALSE)

\* The state shown to clients and whether a start would be allowed.
Status(k) ==
    LET i == current[k]
    IN  IF i = None THEN Report("stopped", closing = "open")
        ELSE IF stopDone[i] # "nil" THEN StoppingStatus(i)
        ELSE IF launch[i] = "starting" THEN Report("starting", closing = "open")
        ELSE ProcessStatus(i)

-----------------------------------------------------------------------------
Init ==
    /\ current = [k \in Keys |-> None]
    /\ key = [i \in Invocations |-> None]
    /\ launch = [i \in Invocations |-> "unused"]
    /\ cancelled = [i \in Invocations |-> FALSE]
    /\ process = [i \in Invocations |-> "nil"]
    /\ result = [i \in Invocations |-> FALSE]
    /\ startErr = [i \in Invocations |-> FALSE]
    /\ stopDone = [i \in Invocations |-> "nil"]
    /\ stopErr = [i \in Invocations |-> FALSE]
    /\ harness = [i \in Invocations |-> "none"]
    /\ pc = [a \in Actors |-> "idle"]
    /\ target = [a \in Actors |-> None]
    /\ outcome = [a \in Actors |-> "none"]
    /\ closing = "open"

Manager ==
    \/ \E k \in Keys, i \in Invocations : Start(k, i)
    \/ \E a \in Callers, k \in Keys : StopEnter(a, k)
    \/ \E a \in Actors : StopSteps(a)
    \/ \E a \in Callers : CallerContinues(a)
    \/ CloseBegins
    \/ \E k \in Keys : CloseJob(k)
    \/ CloseEnds

World ==
    \E i \in Invocations :
        HarnessUp(i) \/ HarnessExit(i) \/ LaunchEnds(i) \/ ProcessExit(i)

\* After Close has returned the manager may stay idle forever.
Next == Manager \/ World

Spec == Init /\ [][Next]_vars

-----------------------------------------------------------------------------
(* Properties *)

\* Types, and in particular: a Stop call past its first critical section works
\* on a state object that exists (no nil state is dereferenced).
TypeOK ==
    /\ current \in [Keys -> Invocations \cup {None}]
    /\ key \in [Invocations -> Keys \cup {None}]
    /\ launch \in [Invocations -> {"unused", "starting", "finished"}]
    /\ cancelled \in [Invocations -> BOOLEAN]
    /\ process \in [Invocations -> {"nil", "live", "done"}]
    /\ result \in [Invocations -> BOOLEAN]
    /\ startErr \in [Invocations -> BOOLEAN]
    /\ stopDone \in [Invocations -> {"nil", "open", "closed"}]
    /\ stopErr \in [Invocations -> BOOLEAN]
    /\ harness \in [Invocations -> {"none", "alive", "gone"}]
    /\ pc \in [Actors -> {"idle", "starting", "process", "waiting", "returned"}]
    /\ target \in [Actors -> Invocations \cup {None}]
    /\ outcome \in [Actors -> {"none", "ok", "unconfirmed"}]
    /\ closing \in {"open", "joining", "closed"}
    /\ \A a \in Actors :
          pc[a] \in {"starting", "process", "waiting"} => target[a] \in Invocations

\* "A later Start may launch again only after the previous harness's exit has
\* been confirmed" (Stop's comment): a key never has two live harnesses.
AtMostOneHarness ==
    \A i, j \in Invocations :
        key[i] = key[j] /\ harness[i] = "alive" /\ harness[j] = "alive" => i = j

\* A Stop that returned nil has stopped: its invocation is neither launching
\* nor does its harness exist, now or later, whoever owned the stop.
StopConfirms ==
    \A a \in Actors :
        outcome[a] = "ok" /\ target[a] # None =>
            /\ launch[target[a]] = "finished"
            /\ process[target[a]] # "live"
            /\ harness[target[a]] # "alive"

\* "Close prevents new launches and joins every conversation's cleanup": once it
\* returned, nothing is launching and no wrapper lives; if it returned no error
\* no harness exists at all.
CloseJoins ==
    /\ closing = "closed" =>
          \A i \in Invocations : launch[i] # "starting" /\ process[i] # "live"
    /\ CloseReturnsOk => \A i \in Invocations : harness[i] # "alive"

\* start_allowed in Status is what Start would answer: the two walk the same
\* state in different code and must not disagree.
StatusAgreesWithStart ==
    \A k \in Keys : Status(k).allowed <=> StartAccepts(k)

\* The manager implements the exclusive execution it is used for.
AliveOf == [k \in Keys |->
              {i \in Invocations : key[i] = k /\ harness[i] = "alive"}]
SpentOf == {i \in Invocations : harness[i] # "none"}
Abstract == INSTANCE ExclusiveExecution WITH alive <- AliveOf, spent <- SpentOf
ImplementsExclusiveExecution == Abstract!Spec

\* The manager relies on nothing but the launcher contract: what it assumes of
\* each invocation's launch, process and harness is a behavior of Launcher.
Launch(i) == INSTANCE Launcher
    WITH phase <- launch[i], failed <- startErr[i], process <- process[i],
         result <- result[i], harness <- harness[i]
UsesLauncherContract ==
    /\ \A i \in Invocations : Launch(i)!Init
    /\ [][\A i \in Invocations : [Launch(i)!Next]_(Launch(i)!vars)]_vars

\* A Stop call always returns, with the launch it may have to await (under the
\* fairness of ServerLifecycle).
StopReturns ==
    \A a \in Actors :
        pc[a] \in {"starting", "process", "waiting"} ~> pc[a] = "returned"
=============================================================================
