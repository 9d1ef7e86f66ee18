----------------------- MODULE ExecutionManagerProofs -----------------------
(***************************************************************************)
(* Proofs about ExecutionManager, for every set of keys, invocations and   *)
(* callers.  The safety properties are not inductive: that a key never has *)
(* two harnesses rests on what the manager knows of every invocation it    *)
(* has replaced, which in turn rests on who owns a stop and on what an     *)
(* exit report vouches for.  IInv collects these facts.                    *)
(***************************************************************************)
EXTENDS ExecutionManager, TLAPS

\* m.states only refers to state objects registered under that very key.
Registry ==
    /\ \A k \in Keys : current[k] # None => key[current[k]] = k
    /\ \A i \in Invocations : key[i] = None <=> launch[i] = "unused"

\* What the manager can tell about the harness from the launch and process.
Evidence ==
    \A i \in Invocations :
        /\ launch[i] = "unused" => harness[i] = "none" /\ stopDone[i] = "nil"
        /\ launch[i] # "finished" => process[i] = "nil"
        /\ launch[i] = "finished" /\ process[i] = "nil" => harness[i] # "alive"
        /\ result[i] => process[i] = "done" /\ harness[i] # "alive"

\* An invocation that is no longer current has ended for good.
Superseded ==
    \A i \in Invocations :
        key[i] # None /\ current[key[i]] # i =>
            /\ launch[i] = "finished"
            /\ process[i] # "live"
            /\ harness[i] # "alive"
            /\ stopDone[i] # "open"

\* A published stop has joined the launch and the process, and its error says
\* whether the exit was confirmed.
Published ==
    \A i \in Invocations :
        stopDone[i] = "closed" =>
            /\ launch[i] = "finished"
            /\ process[i] # "live"
            /\ stopErr[i] <=> process[i] = "done" /\ ~result[i]

\* A stop in progress has exactly one owner.
Ownership ==
    /\ \A a \in Actors :
          pc[a] \in {"starting", "process"} => stopDone[target[a]] = "open"
    /\ \A a, b \in Actors :
          /\ pc[a] \in {"starting", "process"}
          /\ pc[b] \in {"starting", "process"}
          /\ target[a] = target[b]
          => a = b
    /\ \A a \in Actors : pc[a] = "process" => launch[target[a]] = "finished"

\* What a Stop call returned is what its invocation's stop published.
Returned ==
    \A a \in Actors :
        /\ pc[a] # "returned" => outcome[a] = "none"
        /\ pc[a] = "returned" /\ target[a] # None =>
              /\ stopDone[target[a]] = "closed"
              /\ outcome[a] = StopReturn(a)

\* Close's goroutines work on the current invocation of their key.
Closing ==
    /\ closing = "open" => \A k \in Keys : pc[k] = "idle"
    /\ \A k \in Keys :
          pc[k] # "idle" => current[k] # None /\ target[k] = current[k]
    /\ closing = "closed" => \A k \in Registered : pc[k] = "returned"

IInv ==
    /\ TypeOK
    /\ Registry
    /\ Evidence
    /\ Superseded
    /\ Published
    /\ Ownership
    /\ Returned
    /\ Closing
-----------------------------------------------------------------------------
(* Every action preserves IInv *)

\* A replaced invocation has ended: its launch returned, its process is gone and
\* its exit was confirmed.
LEMMA StartStep ==
    ASSUME IInv, NEW k \in Keys, NEW i \in Invocations, Start(k, i)
    PROVE  IInv'
<1> USE NoneIsNil, ActorsDistinct
<1> USE DEF IInv, Start, Used, Replaceable, Actors, stateVars, worldVars, callerVars
<1>1. TypeOK'
    BY DEF TypeOK
<1>2. Registry'
    BY DEF TypeOK, Registry, Evidence
<1>3. Evidence'
    BY DEF TypeOK, Evidence, Registry
<1>4. Superseded'
    BY DEF TypeOK, Registry, Superseded, Evidence, Published
<1>5. Published'
    BY DEF TypeOK, Published, Registry, Evidence
<1>6. Ownership'
    BY DEF TypeOK, Ownership, Registry
<1>7. Returned'
    BY DEF TypeOK, Returned, StopReturn
<1>8. Closing'
    BY DEF TypeOK, Closing, Registered
<1> QED
    BY <1>1, <1>2, <1>3, <1>4, <1>5, <1>6, <1>7, <1>8

\* A harness comes up only under a launch in progress, which is never superseded.
LEMMA HarnessUpStep ==
    ASSUME IInv, NEW i \in Invocations, HarnessUp(i)
    PROVE  IInv'
<1> USE NoneIsNil, ActorsDistinct
<1> USE DEF IInv, HarnessUp, Actors, stateVars, worldVars, callerVars
<1>1. TypeOK'
    BY DEF TypeOK
<1>2. Registry'
    BY DEF TypeOK, Registry
<1>3. Evidence'
    BY DEF TypeOK, Evidence
<1>4. Superseded'
    BY DEF TypeOK, Registry, Superseded
<1>5. Published'
    BY DEF TypeOK, Published
<1>6. Ownership'
    BY DEF TypeOK, Ownership
<1>7. Returned'
    BY DEF TypeOK, Returned, StopReturn
<1>8. Closing'
    BY DEF TypeOK, Closing, Registered
<1> QED
    BY <1>1, <1>2, <1>3, <1>4, <1>5, <1>6, <1>7, <1>8

\* A harness that ends changes nothing the manager knows.
LEMMA HarnessExitStep ==
    ASSUME IInv, NEW i \in Invocations, HarnessExit(i)
    PROVE  IInv'
<1> USE NoneIsNil, ActorsDistinct
<1> USE DEF IInv, HarnessExit, Actors, stateVars, worldVars, callerVars
<1>1. TypeOK'
    BY DEF TypeOK
<1>2. Registry'
    BY DEF TypeOK, Registry
<1>3. Evidence'
    BY DEF TypeOK, Evidence
<1>4. Superseded'
    BY DEF TypeOK, Registry, Superseded
<1>5. Published'
    BY DEF TypeOK, Published
<1>6. Ownership'
    BY DEF TypeOK, Ownership
<1>7. Returned'
    BY DEF TypeOK, Returned, StopReturn
<1>8. Closing'
    BY DEF TypeOK, Closing, Registered
<1> QED
    BY <1>1, <1>2, <1>3, <1>4, <1>5, <1>6, <1>7, <1>8

\* The launch goroutine finishes its own invocation, and no other.
LEMMA LaunchEndsStep ==
    ASSUME IInv, NEW i \in Invocations, LaunchEnds(i)
    PROVE  IInv'
<1> USE NoneIsNil, ActorsDistinct
<1> USE DEF IInv, LaunchEnds, LaunchSucceeds, LaunchFailsCleanly,
           LaunchFailsUncertain, LaunchReturns, Joined, Actors, stateVars, worldVars, callerVars
<1>1. TypeOK'
    <2>1. CASE LaunchSucceeds(i) \/ LaunchFailsUncertain(i)
        <3>1. process' \in [Invocations -> {"nil", "live", "done"}]
            BY <2>1 DEF TypeOK
        <3>2. result' \in [Invocations -> BOOLEAN]
            BY <2>1 DEF TypeOK
        <3>3. cancelled' \in [Invocations -> BOOLEAN]
            BY <2>1 DEF TypeOK
        <3>4. startErr' \in [Invocations -> BOOLEAN]
            BY <2>1 DEF TypeOK
        <3>5. launch' \in [Invocations -> {"unused", "starting", "finished"}]
            BY <2>1 DEF TypeOK
        <3>6. UNCHANGED <<current, key, stopDone, stopErr, harness, callerVars>>
            BY <2>1
        <3> QED
            BY <3>1, <3>2, <3>3, <3>4, <3>5, <3>6 DEF TypeOK
    <2>2. CASE LaunchFailsCleanly(i)
        BY <2>2 DEF TypeOK
    <2> QED
        BY <2>1, <2>2
<1>2. Registry'
    BY DEF TypeOK, Registry
<1>3. Evidence'
    BY DEF TypeOK, Evidence
<1>4. Superseded'
    BY DEF TypeOK, Registry, Superseded
<1>5. Published'
    BY DEF TypeOK, Published, Evidence
<1>6. Ownership'
    BY DEF TypeOK, Ownership
<1>7. Returned'
    BY DEF TypeOK, Returned, StopReturn
<1>8. Closing'
    BY DEF TypeOK, Closing, Registered
<1> QED
    BY <1>1, <1>2, <1>3, <1>4, <1>5, <1>6, <1>7, <1>8

\* An exit report, if one was read, vouches for the harness.
LEMMA ProcessExitStep ==
    ASSUME IInv, NEW i \in Invocations, ProcessExit(i)
    PROVE  IInv'
<1> USE NoneIsNil, ActorsDistinct
<1> USE DEF IInv, ProcessExit, Joined, Actors, stateVars, worldVars, callerVars
<1>1. TypeOK'
    BY DEF TypeOK
<1>2. Registry'
    BY DEF TypeOK, Registry
<1>3. Evidence'
    BY DEF TypeOK, Evidence
<1>4. Superseded'
    BY DEF TypeOK, Registry, Superseded
<1>5. Published'
    BY DEF TypeOK, Published
<1>6. Ownership'
    BY DEF TypeOK, Ownership
<1>7. Returned'
    BY DEF TypeOK, Returned, StopReturn
<1>8. Closing'
    BY DEF TypeOK, Closing, Registered
<1> QED
    BY <1>1, <1>2, <1>3, <1>4, <1>5, <1>6, <1>7, <1>8

\* A stop is begun only where none was, so it gets one owner.
LEMMA StopEnterStep ==
    ASSUME IInv, NEW a \in Actors, NEW k \in Keys, a \in Keys => a = k /\ k \in Registered /\ closing = "joining",
           StopEnter(a, k)
    PROVE  IInv'
<1> USE NoneIsNil, ActorsDistinct
<1> USE DEF IInv, StopEnter, StopUnregistered, StopJoins, StopOwns, Actors,
           stateVars, worldVars, callerVars
<1>1. TypeOK'
    <2>1. CASE StopUnregistered(a, k)
        BY <2>1 DEF TypeOK
    <2>2. CASE StopJoins(a, k)
        BY <2>2 DEF TypeOK
    <2>3. CASE StopOwns(a, k)
        BY <2>3 DEF TypeOK
    <2> QED
        BY <2>1, <2>2, <2>3
<1>2. Registry'
    BY DEF TypeOK, Registry
<1>3. Evidence'
    BY DEF TypeOK, Evidence, Registry
<1>4. Superseded'
    BY DEF TypeOK, Registry, Superseded
<1>5. Published'
    BY DEF TypeOK, Published
<1>6. Ownership'
    BY DEF TypeOK, Ownership, Registry
<1>7. Returned'
    BY DEF TypeOK, Returned, StopReturn
<1>8. Closing'
    BY DEF TypeOK, Closing, Registered
<1> QED
    BY <1>1, <1>2, <1>3, <1>4, <1>5, <1>6, <1>7, <1>8

\* The owner goes on once the canceled launch has returned.
LEMMA StopAwaitsLaunchStep ==
    ASSUME IInv, NEW a \in Actors, StopAwaitsLaunch(a)
    PROVE  IInv'
<1> USE NoneIsNil, ActorsDistinct
<1> USE DEF IInv, StopAwaitsLaunch, Actors, stateVars, worldVars, callerVars
<1>1. TypeOK'
    BY DEF TypeOK
<1>2. Registry'
    BY DEF TypeOK, Registry
<1>3. Evidence'
    BY DEF TypeOK, Evidence
<1>4. Superseded'
    BY DEF TypeOK, Registry, Superseded
<1>5. Published'
    BY DEF TypeOK, Published
<1>6. Ownership'
    BY DEF TypeOK, Ownership
<1>7. Returned'
    BY DEF TypeOK, Returned, StopReturn
<1>8. Closing'
    BY DEF TypeOK, Closing, Registered
<1> QED
    BY <1>1, <1>2, <1>3, <1>4, <1>5, <1>6, <1>7, <1>8

\* The owner publishes what the joined process reported.
LEMMA StopJoinsProcessStep ==
    ASSUME IInv, NEW a \in Actors, StopJoinsProcess(a)
    PROVE  IInv'
<1> USE NoneIsNil, ActorsDistinct
<1> USE DEF IInv, StopJoinsProcess, Actors, stateVars, worldVars, callerVars
<1>1. TypeOK'
    BY DEF TypeOK
<1>2. Registry'
    BY DEF TypeOK, Registry
<1>3. Superseded'
    BY DEF TypeOK, Registry, Superseded, Ownership
<1>4. Ownership'
    BY DEF TypeOK, Ownership
<1>5. Closing'
    BY DEF TypeOK, Closing, Registered
<1> DEFINE t == target[a]
<1> DEFINE unconfirmed == process[t] = "done" /\ ~result[t]
<1>t. /\ t \in Invocations
      /\ stopDone[t] = "open"
      /\ launch[t] = "finished"
      /\ process[t] # "live"
      /\ stopErr' = [stopErr EXCEPT ![t] = unconfirmed]
      /\ stopDone' = [stopDone EXCEPT ![t] = "closed"]
      /\ pc' = [pc EXCEPT ![a] = "returned"]
      /\ outcome' = [outcome EXCEPT ![a] =
                        IF unconfirmed THEN "unconfirmed" ELSE "ok"]
      /\ UNCHANGED <<launch, process, result, harness, target>>
    BY DEF TypeOK, Ownership
<1>s. stopErr'[t] <=> unconfirmed
    BY <1>t DEF TypeOK
<1>o. \A i \in Invocations :
          i # t => stopErr'[i] = stopErr[i] /\ stopDone'[i] = stopDone[i]
    BY <1>t DEF TypeOK
<1> HIDE DEF t, StopJoinsProcess
<1>6. Evidence'
    BY <1>t, <1>o DEF TypeOK, Evidence
<1>7. Published'
    BY <1>t, <1>s, <1>o DEF Published
<1>8. Returned'
    <2> SUFFICES ASSUME NEW b \in Actors
                 PROVE  /\ pc'[b] # "returned" => outcome'[b] = "none"
                        /\ pc'[b] = "returned" /\ target'[b] # None =>
                              /\ stopDone'[target'[b]] = "closed"
                              /\ outcome'[b] = StopReturn(b)'
        BY DEF Returned
    <2>1. CASE b = a
        BY <2>1, <1>t, <1>s DEF TypeOK, StopReturn, t
    <2>2. CASE b # a
        BY <2>2, <1>t, <1>o DEF TypeOK, Returned, StopReturn
    <2> QED
        BY <2>1, <2>2
<1> QED
    BY <1>1, <1>2, <1>3, <1>4, <1>5, <1>6, <1>7, <1>8

\* Another caller returns what the owner published.
LEMMA StopWaitsStep ==
    ASSUME IInv, NEW a \in Actors, StopWaits(a)
    PROVE  IInv'
<1> USE NoneIsNil, ActorsDistinct
<1> USE DEF IInv, StopWaits, Actors, stateVars, worldVars, callerVars
<1>1. TypeOK'
    BY DEF TypeOK, StopReturn
<1>2. Registry'
    BY DEF TypeOK, Registry
<1>3. Evidence'
    BY DEF TypeOK, Evidence
<1>4. Superseded'
    BY DEF TypeOK, Registry, Superseded
<1>5. Published'
    BY DEF TypeOK, Published
<1>6. Ownership'
    BY DEF TypeOK, Ownership
<1>7. Returned'
    BY DEF TypeOK, Returned, StopReturn
<1>8. Closing'
    BY DEF TypeOK, Closing, Registered
<1> QED
    BY <1>1, <1>2, <1>3, <1>4, <1>5, <1>6, <1>7, <1>8

\* A request goroutine forgets its last Stop.
LEMMA CallerContinuesStep ==
    ASSUME IInv, NEW a \in Callers, CallerContinues(a)
    PROVE  IInv'
<1> USE NoneIsNil, ActorsDistinct
<1> USE DEF IInv, CallerContinues, Actors, stateVars, worldVars, callerVars
<1>1. TypeOK'
    BY DEF TypeOK
<1>2. Registry'
    BY DEF TypeOK, Registry
<1>3. Evidence'
    BY DEF TypeOK, Evidence
<1>4. Superseded'
    BY DEF TypeOK, Registry, Superseded
<1>5. Published'
    BY DEF TypeOK, Published
<1>6. Ownership'
    BY DEF TypeOK, Ownership
<1>7. Returned'
    BY DEF TypeOK, Returned, StopReturn
<1>8. Closing'
    BY DEF TypeOK, Closing, Registered
<1> QED
    BY <1>1, <1>2, <1>3, <1>4, <1>5, <1>6, <1>7, <1>8

\* Close sets m.closed once and returns after every job.
LEMMA CloseStep ==
    ASSUME IInv, CloseBegins \/ CloseEnds
    PROVE  IInv'
<1> USE NoneIsNil, ActorsDistinct
<1> USE DEF IInv, CloseBegins, CloseEnds, Actors, stateVars, worldVars, callerVars
<1>1. TypeOK'
    BY DEF TypeOK
<1>2. Registry'
    BY DEF TypeOK, Registry
<1>3. Evidence'
    BY DEF TypeOK, Evidence
<1>4. Superseded'
    BY DEF TypeOK, Registry, Superseded
<1>5. Published'
    BY DEF TypeOK, Published
<1>6. Ownership'
    BY DEF TypeOK, Ownership
<1>7. Returned'
    BY DEF TypeOK, Returned, StopReturn
<1>8. Closing'
    BY DEF TypeOK, Closing, Registered
<1> QED
    BY <1>1, <1>2, <1>3, <1>4, <1>5, <1>6, <1>7, <1>8

\* Nothing has happened yet.
LEMMA InitIInv == Init => IInv
BY NoneIsNil DEF Init, IInv, TypeOK, Registry, Evidence, Superseded, Published,
   Ownership, Returned, Closing, Registered, Actors

\* Every step of the specification preserves the invariant.
LEMMA NextIInv == IInv /\ [Next]_vars => IInv'
<1> SUFFICES ASSUME IInv, [Next]_vars
             PROVE  IInv'
    OBVIOUS
<1>1. CASE \E k \in Keys, i \in Invocations : Start(k, i)
    BY <1>1, StartStep
<1>2. CASE \E a \in Callers, k \in Keys : StopEnter(a, k)
    BY <1>2, StopEnterStep, ActorsDistinct DEF Actors
<1>3. CASE \E a \in Actors : StopSteps(a)
    BY <1>3, StopAwaitsLaunchStep, StopJoinsProcessStep, StopWaitsStep
       DEF StopSteps
<1>4. CASE \E a \in Callers : CallerContinues(a)
    BY <1>4, CallerContinuesStep
<1>5. CASE CloseBegins \/ CloseEnds
    BY <1>5, CloseStep
<1>6. CASE \E k \in Keys : CloseJob(k)
    BY <1>6, StopEnterStep DEF CloseJob, Actors
<1>7. CASE World
    BY <1>7, HarnessUpStep, HarnessExitStep, LaunchEndsStep, ProcessExitStep
       DEF World
<1>8. CASE UNCHANGED vars
    BY <1>8 DEF vars, stateVars, worldVars, callerVars, IInv, TypeOK, Registry,
       Evidence, Superseded, Published, Ownership, Returned, StopReturn,
       Closing, Registered, Actors
<1> QED
    BY <1>1, <1>2, <1>3, <1>4, <1>5, <1>6, <1>7, <1>8 DEF Next, Manager

\* The inductive invariant holds in every reachable state of every instance.
THEOREM Invariance == Spec => []IInv
BY InitIInv, NextIInv, PTL DEF Spec

-----------------------------------------------------------------------------
(* The safety properties *)

\* Types hold, and no Stop call dereferences a nil state.
THEOREM TypeCorrectness == Spec => []TypeOK
<1>1. IInv => TypeOK
    BY DEF IInv
<1> QED
    BY Invariance, <1>1, PTL

\* A key never has two live harnesses: both would have to be current.
THEOREM Exclusion == Spec => []AtMostOneHarness
<1>1. IInv => AtMostOneHarness
    BY DEF IInv, TypeOK, Registry, Evidence, Superseded, AtMostOneHarness
<1> QED
    BY Invariance, <1>1, PTL

\* A Stop that returned nil vouches for launch, process and harness, whichever
\* call owned the stop.
THEOREM StopIsConfirmed == Spec => []StopConfirms
<1>1. IInv => StopConfirms
    BY DEF IInv, TypeOK, Evidence, Published, Returned, StopReturn, StopConfirms
<1> QED
    BY Invariance, <1>1, PTL

\* Close leaves nothing running, and nothing at all when it returns nil.
THEOREM CloseIsComplete == Spec => []CloseJoins
<1>1. IInv => CloseJoins
    <2> SUFFICES ASSUME IInv, closing = "closed", NEW i \in Invocations
                 PROVE  /\ launch[i] # "starting"
                        /\ process[i] # "live"
                        /\ CloseReturnsOk => harness[i] # "alive"
        BY DEF CloseJoins, CloseReturnsOk
    <2>1. CASE key[i] = None
        BY <2>1 DEF IInv, TypeOK, Registry, Evidence
    <2>2. CASE key[i] # None /\ current[key[i]] # i
        BY <2>2 DEF IInv, Superseded
    <2>3. CASE key[i] # None /\ current[key[i]] = i
        <3>1. /\ key[i] \in Registered
              /\ key[i] \in Actors
              /\ pc[key[i]] = "returned"
              /\ target[key[i]] = i
            BY <2>3, NoneIsNil
               DEF IInv, TypeOK, Closing, Registered, Actors
        <3>2. stopDone[i] = "closed" /\ outcome[key[i]] = StopReturn(key[i])
            BY <3>1, NoneIsNil DEF IInv, Returned
        <3> QED
            BY <3>1, <3>2
               DEF IInv, TypeOK, Evidence, Published, StopReturn, CloseReturnsOk
    <2> QED
        BY <2>1, <2>2, <2>3
<1> QED
    BY Invariance, <1>1, PTL

\* Status and Start judge every reachable state alike.
THEOREM StatusIsTruthful == Spec => []StatusAgreesWithStart
<1>1. IInv => StatusAgreesWithStart
    <2> SUFFICES ASSUME IInv, NEW k \in Keys
                 PROVE  Status(k).allowed <=> StartAccepts(k)
        BY DEF StatusAgreesWithStart
    <2>1. CASE current[k] = None
        BY <2>1 DEF Status, Report, StartAccepts, Replaceable, AlreadyStarted
    <2>2. CASE current[k] # None
        <3> DEFINE i == current[k]
        <3>1. i \in Invocations /\ launch[i] \in {"starting", "finished"}
            BY <2>2, NoneIsNil DEF IInv, TypeOK, Registry
        <3>2. CASE stopDone[i] # "nil"
            <4>1. CASE stopDone[i] = "open"
                BY <2>2, <4>1
                   DEF Status, StoppingStatus, Report, StartAccepts,
                       Replaceable, AlreadyStarted
            <4>2. CASE stopDone[i] = "closed"
                <5>1. /\ launch[i] = "finished"
                      /\ process[i] \in {"nil", "done"}
                      /\ stopErr[i] <=> process[i] = "done" /\ ~result[i]
                    BY <3>1, <4>2 DEF IInv, TypeOK, Published
                <5> QED
                    BY <2>2, <4>2, <5>1
                       DEF Status, StoppingStatus, Report, StartAccepts,
                           Replaceable, AlreadyStarted
            <4> QED
                BY <3>1, <3>2, <4>1, <4>2 DEF IInv, TypeOK
        <3>3. CASE stopDone[i] = "nil" /\ launch[i] = "starting"
            BY <2>2, <3>1, <3>3
               DEF IInv, TypeOK, Status, Report, StartAccepts, Replaceable,
                   AlreadyStarted
        <3>4. CASE stopDone[i] = "nil" /\ launch[i] = "finished"
            BY <2>2, <3>1, <3>4
               DEF IInv, TypeOK, Status, ProcessStatus, Report, StartAccepts,
                   Replaceable, AlreadyStarted
        <3> QED
            BY <3>1, <3>2, <3>3, <3>4
    <2> QED
        BY <2>1, <2>2
<1> QED
    BY Invariance, <1>1, PTL

-----------------------------------------------------------------------------
(* Refinement of ExclusiveExecution *)

\* A key whose current invocation is still launching has no live harness.
LEMMA LaunchingAlone ==
    ASSUME IInv, NEW i \in Invocations, launch[i] = "starting", harness[i] = "none"
    PROVE  key[i] \in Keys /\ AliveOf[key[i]] = {}
<1>1. key[i] \in Keys /\ current[key[i]] = i
    BY DEF IInv, TypeOK, Registry, Superseded
<1>2. \A j \in Invocations : key[j] = key[i] => harness[j] # "alive"
    BY <1>1, NoneIsNil DEF IInv, Superseded
<1> QED
    BY <1>1, <1>2 DEF AliveOf

\* No harness, no invocation spent.
LEMMA InitRefines == Init => Abstract!Init
BY NoneIsNil DEF Init, Abstract!Init, AliveOf, SpentOf

\* A harness that comes up is the abstract launch.
LEMMA HarnessUpRefines ==
    ASSUME IInv, NEW i \in Invocations, HarnessUp(i)
    PROVE  Abstract!Next
<1> DEFINE k == key[i]
<1>1. k \in Keys /\ AliveOf[k] = {} /\ i \notin SpentOf
    BY LaunchingAlone DEF HarnessUp, SpentOf
<1>2. AliveOf' = [AliveOf EXCEPT ![k] = {i}]
    <2>1. \A l \in Keys : l # k => AliveOf'[l] = AliveOf[l]
        BY DEF HarnessUp, stateVars, IInv, TypeOK, AliveOf
    <2>2. AliveOf'[k] = {i}
        <3>1. \A j \in Invocations :
                  key'[j] = k /\ harness'[j] = "alive" <=> j = i
            BY <1>1 DEF HarnessUp, stateVars, IInv, TypeOK, AliveOf
        <3> QED
            BY <3>1, <1>1 DEF AliveOf
    <2> QED
        BY <1>1, <2>1, <2>2 DEF AliveOf
<1>3. SpentOf' = SpentOf \cup {i}
    BY DEF HarnessUp, IInv, TypeOK, SpentOf
<1> QED
    BY <1>1, <1>2, <1>3 DEF Abstract!Next, Abstract!Launch

\* A harness that exits is the abstract end.
LEMMA HarnessExitRefines ==
    ASSUME IInv, NEW i \in Invocations, HarnessExit(i)
    PROVE  Abstract!Next
<1> DEFINE k == key[i]
<1>1. k \in Keys /\ i \in AliveOf[k]
    BY NoneIsNil DEF HarnessExit, IInv, TypeOK, Registry, Evidence, AliveOf
<1>2. AliveOf' = [AliveOf EXCEPT ![k] = {}]
    <2>1. \A l \in Keys : l # k => AliveOf'[l] = AliveOf[l]
        BY DEF HarnessExit, stateVars, IInv, TypeOK, AliveOf
    <2>2. AliveOf'[k] = {}
        <3>1. AtMostOneHarness
            BY DEF IInv, TypeOK, Registry, Evidence, Superseded, AtMostOneHarness
        <3>2. \A j \in Invocations : ~(key'[j] = k /\ harness'[j] = "alive")
            BY <3>1 DEF HarnessExit, stateVars, IInv, TypeOK, AtMostOneHarness
        <3> QED
            BY <1>1, <3>2 DEF AliveOf
    <2> QED
        BY <1>1, <2>1, <2>2 DEF AliveOf
<1>3. SpentOf' = SpentOf
    BY DEF HarnessExit, IInv, TypeOK, SpentOf
<1> QED
    BY <1>1, <1>2, <1>3 DEF Abstract!Next, Abstract!End

\* Every other step is invisible to ExclusiveExecution.
LEMMA OthersStutter ==
    ASSUME IInv, [Next]_vars,
           ~ \E i \in Invocations : HarnessUp(i) \/ HarnessExit(i)
    PROVE  UNCHANGED <<AliveOf, SpentOf>>
<1>1. CASE \E k \in Keys, i \in Invocations : Start(k, i)
    <2> SUFFICES ASSUME NEW k \in Keys, NEW i \in Invocations, Start(k, i)
                 PROVE  UNCHANGED <<AliveOf, SpentOf>>
        BY <1>1
    <2>1. harness' = harness /\ harness[i] = "none"
        BY DEF Start, Used, worldVars, IInv, Registry, Evidence
    <2>2. \A j \in Invocations : j # i => key'[j] = key[j]
        BY DEF Start, IInv, TypeOK
    <2>3. \A l \in Keys, j \in Invocations :
              key'[j] = l /\ harness'[j] = "alive" <=> key[j] = l /\ harness[j] = "alive"
        BY <2>1, <2>2
    <2> QED
        BY <2>1, <2>3 DEF AliveOf, SpentOf
<1>2. CASE key' = key /\ harness' = harness
    BY <1>2 DEF AliveOf, SpentOf
<1> QED
    BY <1>1, <1>2
       DEF Next, Manager, World, StopEnter, StopUnregistered, StopJoins, StopOwns,
           StopSteps, StopAwaitsLaunch, StopJoinsProcess, StopWaits,
           CallerContinues, CloseBegins, CloseJob, CloseEnds, LaunchEnds,
           LaunchSucceeds, LaunchFailsCleanly, LaunchFailsUncertain,
           LaunchReturns, ProcessExit, vars, stateVars, worldVars, callerVars

\* The manager, with all its stops, joins and races, is an exclusive execution.
THEOREM Refinement == Spec => ImplementsExclusiveExecution
<1>1. IInv /\ [Next]_vars => [Abstract!Next]_(Abstract!vars)
    BY HarnessUpRefines, HarnessExitRefines, OthersStutter DEF Abstract!vars
<1> QED
    BY Invariance, InitRefines, <1>1, PTL
       DEF Spec, ImplementsExclusiveExecution, Abstract!Spec

-----------------------------------------------------------------------------
(* The manager relies on nothing but the launcher's contract *)

\* Whatever has happened so far, no invocation has been launched.
LEMMA InitLaunches == ASSUME NEW i \in Invocations, Init PROVE Launch(i)!Init
BY DEF Init, Launch!Init

\* A join that is confirmed has seen the harness end.
LEMMA JoinedRefines ==
    ASSUME IInv, NEW i \in Invocations, Joined(i) PROVE Launch(i)!Joined
<1>1. process'[i] = "done"
    BY DEF Joined, IInv, TypeOK
<1>2. PICK confirmed \in BOOLEAN :
          (confirmed => harness[i] = "gone") /\ result' = [result EXCEPT ![i] = confirmed]
    BY DEF Joined
<1>3. result'[i] = confirmed
    BY <1>2 DEF IInv, TypeOK
<1>4. CASE confirmed
    BY <1>1, <1>2, <1>3, <1>4 DEF Launch!Joined
<1>5. CASE ~confirmed
    BY <1>1, <1>2, <1>3, <1>5 DEF Launch!Joined
<1> QED
    BY <1>4, <1>5

\* Each step is one of the contract for the invocation it is about.
LEMMA OwnStepRefines ==
    ASSUME IInv, NEW i \in Invocations,
           \/ \E k \in Keys : Start(k, i)
           \/ HarnessUp(i) \/ HarnessExit(i) \/ LaunchEnds(i) \/ ProcessExit(i)
    PROVE  Launch(i)!Next
<1> USE DEF IInv, TypeOK, stateVars
<1>1. CASE \E k \in Keys : Start(k, i)
    BY <1>1 DEF Start, Used, worldVars, Registry, Launch!Next, Launch!Begin
<1>2. CASE HarnessUp(i)
    BY <1>2 DEF HarnessUp, Launch!Next, Launch!HarnessUp
<1>3. CASE HarnessExit(i)
    BY <1>3 DEF HarnessExit, Launch!Next, Launch!HarnessExit
<1>4. CASE LaunchSucceeds(i)
    BY <1>4, JoinedRefines DEF LaunchSucceeds, LaunchReturns, Launch!Next, Launch!Succeed, Launch!Return
<1>5. CASE LaunchFailsCleanly(i)
    BY <1>5 DEF LaunchFailsCleanly, LaunchReturns, Launch!Next, Launch!FailCleanly, Launch!Return
<1>6. CASE LaunchFailsUncertain(i)
    BY <1>6, JoinedRefines DEF LaunchFailsUncertain, LaunchReturns, Launch!Next,
       Launch!FailUncertain, Launch!Return
<1>7. CASE ProcessExit(i)
    BY <1>7, JoinedRefines DEF ProcessExit, Launch!Next, Launch!ProcessExit
<1> QED
    BY <1>1, <1>2, <1>3, <1>4, <1>5, <1>6, <1>7 DEF LaunchEnds

\* Every other step leaves the invocation's launch alone.
LEMMA OtherStepStutters ==
    ASSUME IInv, [Next]_vars, NEW i \in Invocations,
           ~ \/ \E k \in Keys : Start(k, i)
             \/ HarnessUp(i) \/ HarnessExit(i) \/ LaunchEnds(i) \/ ProcessExit(i)
    PROVE  UNCHANGED Launch(i)!vars
<1> USE DEF IInv, TypeOK, stateVars, Launch!vars
<1>1. CASE \E k \in Keys, j \in Invocations : Start(k, j)
    <2>1. PICK k \in Keys, j \in Invocations : Start(k, j)
        BY <1>1
    <2>2. i # j
        BY <2>1
    <2> QED
        BY <2>1, <2>2 DEF Start, worldVars
<1>2. CASE \E j \in Invocations : HarnessUp(j) \/ HarnessExit(j)
    BY <1>2 DEF HarnessUp, HarnessExit
<1>3. CASE \E j \in Invocations : LaunchEnds(j)
    BY <1>3 DEF LaunchEnds, LaunchSucceeds, LaunchFailsCleanly, LaunchFailsUncertain,
                LaunchReturns, Joined
<1>4. CASE \E j \in Invocations : ProcessExit(j)
    <2>1. PICK j \in Invocations : ProcessExit(j)
        BY <1>4
    <2>2. i # j
        BY <2>1
    <2> QED
        BY <2>1, <2>2 DEF ProcessExit, Joined
<1>5. CASE UNCHANGED <<launch, startErr, process, result, harness>>
    BY <1>5
<1> QED
    BY <1>1, <1>2, <1>3, <1>4, <1>5
       DEF Next, Manager, World, StopEnter, StopUnregistered, StopJoins, StopOwns,
           StopSteps, StopAwaitsLaunch, StopJoinsProcess, StopWaits,
           CallerContinues, CloseBegins, CloseJob, CloseEnds, vars, worldVars, callerVars

\* What the manager assumes of a launch is a behavior of Launcher.
THEOREM ReliesOnContract == Spec => UsesLauncherContract
<1>1. Init => \A i \in Invocations : Launch(i)!Init
    BY InitLaunches
<1>2. IInv /\ [Next]_vars =>
          [\A i \in Invocations : [Launch(i)!Next]_(Launch(i)!vars)]_vars
    <2> SUFFICES ASSUME IInv, [Next]_vars, NEW i \in Invocations
                 PROVE  [Launch(i)!Next]_(Launch(i)!vars)
        OBVIOUS
    <2> QED
        BY OwnStepRefines, OtherStepStutters
<1> QED
    BY Invariance, <1>1, <1>2, PTL DEF Spec, UsesLauncherContract
=============================================================================
