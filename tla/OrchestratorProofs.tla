------------------------- MODULE OrchestratorProofs -------------------------
(***************************************************************************)
(* The proof that Orchestrator implements Projects, for any requests and   *)
(* any bounds on the failures.  Its executions are those of                *)
(* ExecutionManager and its handlers turn out to be those of Projects, so  *)
(* the inductive invariants of both hold; OInv adds what relates them.     *)
(***************************************************************************)
EXTENDS Orchestrator, TLAPS

\* The proofs about the two components, for these constants and this state.
EP == INSTANCE ExecutionManagerProofs
    WITH Keys <- Creates, Invocations <- Starts, Callers <- Deletes, pc <- stopPc
PP == INSTANCE ProjectsProofs
    WITH Renames <- {}, draft <- <<>>, MaxCrashes <- 0,
         running <- Running, known <- Known, unconfirmed <- GivenUp

\* Only the current invocation of a token may be launching, run a harness or have
\* ended without a report.
Settled ==
    \A i \in Starts :
        key[i] # None =>
            /\ current[key[i]] # None
            /\ current[key[i]] # i => ~MayRun(i)

\* A deletion is in Stop only at its place "stop", where it holds the project lock,
\* so the invocation it works on stays the current one.
Calls ==
    \A d \in Deletes :
        /\ stopPc[d] # "idle" =>
              pc[d] = "stop" /\ target[d] = current[projectExecutionKey(snapshot[d])]
        /\ stopPc[d] = "returned" /\ target[d] = None => outcome[d] = "ok"

\* A stop in progress is some deletion's.
Owned ==
    \A i \in Starts :
        stopDone[i] = "open" =>
            \E d \in Deletes : stopPc[d] \in {"starting", "process"} /\ target[d] = i

\* The inductive invariant.
OInv == EP!IInv /\ PP!IInv /\ Settled /\ Calls /\ Owned /\ closing = "open"
-----------------------------------------------------------------------------
(* The proofs are about the operators of Orchestrator *)

\* The steps of executions are those ExecutionManagerProofs speaks of.
LEMMA SameExecutions ==
    /\ Executions!Init => EP!Init
    /\ [Executions!Next]_(Executions!vars) => [EP!Next]_(EP!vars)
BY DEF
       Executions!Actors, EP!Actors, Executions!stateVars, EP!stateVars,
       Executions!worldVars, EP!worldVars, Executions!callerVars, EP!callerVars,
       Executions!vars, EP!vars, Executions!Used, EP!Used, Executions!Replaceable,
       EP!Replaceable, Executions!Start, EP!Start, Executions!HarnessUp,
       EP!HarnessUp, Executions!HarnessExit, EP!HarnessExit,
       Executions!LaunchReturns, EP!LaunchReturns, Executions!Joined, EP!Joined,
       Executions!LaunchSucceeds, EP!LaunchSucceeds, Executions!LaunchFailsCleanly,
       EP!LaunchFailsCleanly, Executions!LaunchFailsUncertain,
       EP!LaunchFailsUncertain, Executions!LaunchEnds, EP!LaunchEnds,
       Executions!ProcessExit, EP!ProcessExit, Executions!StopUnregistered,
       EP!StopUnregistered, Executions!StopJoins, EP!StopJoins, Executions!StopOwns,
       EP!StopOwns, Executions!StopEnter, EP!StopEnter, Executions!StopAwaitsLaunch,
       EP!StopAwaitsLaunch, Executions!StopReturn, EP!StopReturn,
       Executions!StopJoinsProcess, EP!StopJoinsProcess, Executions!StopWaits,
       EP!StopWaits, Executions!StopSteps, EP!StopSteps, Executions!CallerContinues,
       EP!CallerContinues, Executions!Registered, EP!Registered,
       Executions!CloseBegins, EP!CloseBegins, Executions!CloseJob, EP!CloseJob,
       Executions!CloseEnds, EP!CloseEnds, Executions!Init, EP!Init,
       Executions!Manager, EP!Manager, Executions!World, EP!World, Executions!Next,
       EP!Next

\* The steps of handlers are those ProjectsProofs speaks of.
LEMMA SameHandlers ==
    /\ Handlers!Init => PP!Init
    /\ [Handlers!Next]_(Handlers!vars) => [PP!Next]_(PP!vars)
BY DEF
       Handlers!Requests, PP!Requests, Handlers!storeVars, PP!storeVars,
       Handlers!fileVars, PP!fileVars, Handlers!execVars, PP!execVars,
       Handlers!clientVars, PP!clientVars, Handlers!vars, PP!vars, Handlers!Project,
       PP!Project, Handlers!Directory, PP!Directory, Handlers!StoreFault,
       PP!StoreFault, Handlers!FileFault, PP!FileFault, Handlers!Goto, PP!Goto,
       Handlers!Respond, PP!Respond, Handlers!AcquireLock, PP!AcquireLock,
       Handlers!Matches, PP!Matches, Handlers!Updated, PP!Updated, Handlers!Write,
       PP!Write, Handlers!InsertProject, PP!InsertProject, Handlers!UpdateProject,
       PP!UpdateProject, Handlers!DeleteProject, PP!DeleteProject,
       Handlers!GetProject, PP!GetProject, Handlers!Results, PP!Results,
       Handlers!CreateInsert, PP!CreateInsert, Handlers!CreateDirectory,
       PP!CreateDirectory, Handlers!CreateRepository, PP!CreateRepository,
       Handlers!CreateFinish, PP!CreateFinish, Handlers!RollbackAnswer,
       PP!RollbackAnswer, Handlers!RollbackCheck, PP!RollbackCheck,
       Handlers!RemoveAll, PP!RemoveAll, Handlers!RemoveSome, PP!RemoveSome,
       Handlers!RollbackFiles, PP!RollbackFiles, Handlers!RollbackRecord,
       PP!RollbackRecord, Handlers!CreateSteps, PP!CreateSteps, Handlers!ReadDraft,
       PP!ReadDraft, Handlers!Renameable, PP!Renameable, Handlers!RenameGet,
       PP!RenameGet, Handlers!RenameUpdate, PP!RenameUpdate, Handlers!RenameSteps,
       PP!RenameSteps, Handlers!DeleteGet, PP!DeleteGet, Handlers!DeleteStop,
       PP!DeleteStop, Handlers!DeleteClaim, PP!DeleteClaim, Handlers!DeleteFiles,
       PP!DeleteFiles, Handlers!DeleteRecord, PP!DeleteRecord,
       Handlers!ReportFailure, PP!ReportFailure, Handlers!DeleteSteps,
       PP!DeleteSteps, Handlers!StartGet, PP!StartGet, Handlers!StartFiles,
       PP!StartFiles, Handlers!StartLaunch, PP!StartLaunch, Handlers!StartSteps,
       PP!StartSteps, Handlers!ExecutionEnds, PP!ExecutionEnds,
       Handlers!ExitUnconfirmed, PP!ExitUnconfirmed, Handlers!InFlight, PP!InFlight,
       Handlers!Crash, PP!Crash, Handlers!Init, PP!Init, Handlers!Work, PP!Work,
       Handlers!Arrive, PP!Arrive, Handlers!Next, PP!Next

\* Together they keep the invariants of the components.
LEMMA ComponentsKeep ==
    ASSUME EP!IInv, PP!IInv,
           [Executions!Next]_(Executions!vars), [Handlers!Next]_(Handlers!vars)
    PROVE  EP!IInv' /\ PP!IInv'
<1>1. EP!IInv'
    BY SameExecutions, EP!NextIInv, RequestsDistinct, NoneIsNil
<1>2. PP!IInv'
    <2>1. None \notin PP!Requests /\ None \notin PP!ProjectRecords /\ 0 \in Nat
        BY NoneIsNil DEF PP!Requests, PP!ProjectRecords, Handlers!ProjectRecords
    <2> QED
        BY <2>1, SameHandlers, PP!NextIInv, RequestsDistinct, BoundsAreNaturals
<1> QED
    BY <1>1, <1>2

-----------------------------------------------------------------------------
(* What the handlers see of executions *)

\* It is what can be said of the current invocation of each token.
LEMMA Seen ==
    ASSUME EP!IInv, Settled
    PROVE  /\ Known = {k \in Creates : current[k] # None}
           /\ Running = {k \in Creates : current[k] # None /\ MayRun(current[k])}
           /\ GivenUp = {k \in Creates : current[k] # None /\ Unconfirmed(current[k])}
<1> USE NoneIsNil
<1> USE DEF EP!IInv, EP!TypeOK, EP!Registry, EP!Evidence, Settled, KeysOf
<1>1. Known = {k \in Creates : current[k] # None}
    BY DEF Known
<1>2. Running = {k \in Creates : current[k] # None /\ MayRun(current[k])}
    BY DEF Running, MayRun, Unconfirmed
<1>3. GivenUp = {k \in Creates : current[k] # None /\ Unconfirmed(current[k])}
    BY DEF GivenUp, MayRun, Unconfirmed
<1> QED
    BY <1>1, <1>2, <1>3

\* A step that leaves the launches, processes and harnesses alone is not seen.
LEMMA Unseen ==
    ASSUME UNCHANGED <<key, launch, process, result, harness>>
    PROVE  UNCHANGED <<Running, Known, GivenUp>>
BY DEF Running, Known, GivenUp, MayRun, Unconfirmed, KeysOf


\* Who has read a project under the lock still holds it.
LEMMA Holders ==
    ASSUME PP!IInv
    PROVE  /\ pc \in [Handlers!Requests -> PP!Places]
           /\ DOMAIN snapshot = Handlers!Requests
           /\ \A d \in Deletes :
                 pc[d] = "stop" =>
                     lock = d /\ projectExecutionKey(snapshot[d]) \in Creates
           /\ \A s \in Starts :
                 pc[s] = "launch" =>
                     lock = s /\ projectExecutionKey(snapshot[s]) \in Creates
BY RequestsDistinct
   DEF PP!IInv, PP!TypeOK, PP!Ordered, PP!Requests, PP!InFlight, PP!ProjectRecords,
       Handlers!Requests, projectExecutionKey

\* A deletion in Stop stays where it is while another request moves on.
LEMMA Alone ==
    ASSUME NEW r \in Handlers!Requests, Apart(r) \/ Arrive(r), PP!IInv
    PROVE  \A d \in Deletes :
              pc[d] = "stop" => pc'[d] = "stop" /\ snapshot'[d] = snapshot[d]
<1> USE RequestsDistinct, Holders
<1> USE DEF Handlers!Goto, Handlers!Respond, Handlers!Requests
<1>1. CASE Arrive(r)
    BY <1>1 DEF Arrive, Handlers!Arrive, Handlers!CreateInsert, Handlers!AcquireLock,
                Handlers!ReadDraft
<1>2. CASE r \in Creates /\ Handlers!CreateSteps(r)
    BY <1>2
       DEF Handlers!CreateSteps, Handlers!CreateDirectory, Handlers!CreateRepository,
           Handlers!CreateFinish, Handlers!RollbackCheck, Handlers!RollbackFiles,
           Handlers!RollbackRecord
<1>3. CASE r \in Deletes /\ (Handlers!DeleteGet(r) \/ Handlers!DeleteClaim(r))
    BY <1>3 DEF Handlers!DeleteGet, Handlers!DeleteClaim
<1>4. CASE r \in Deletes /\ (\/ Handlers!DeleteFiles(r) \/ Handlers!DeleteRecord(r)
                             \/ Handlers!ReportFailure(r))
    BY <1>4 DEF Handlers!DeleteFiles, Handlers!DeleteRecord, Handlers!ReportFailure
<1>5. CASE r \in Starts /\ (Handlers!StartGet(r) \/ Handlers!StartFiles(r))
    BY <1>5 DEF Handlers!StartGet, Handlers!StartFiles
<1> QED
    BY <1>1, <1>2, <1>3, <1>4, <1>5 DEF Apart

-----------------------------------------------------------------------------
(* Every step is one of each component, or leaves it alone, and keeps OInv *)

ComponentSteps ==
    /\ [Executions!Next]_(Executions!vars)
    /\ [Handlers!Next]_(Handlers!vars)

\* What relates the two is kept.
Kept == Settled' /\ Calls' /\ Owned' /\ closing' = "open"

\* Steps without executions are steps of the handlers.
LEMMA ApartStep ==
    ASSUME OInv, NEW r \in Handlers!Requests, Apart(r) \/ Arrive(r)
    PROVE  ComponentSteps /\ Kept
<1>1. UNCHANGED execVars
    BY DEF Apart, Arrive
<1>2. Handlers!Next
    BY DEF Apart, Arrive, Handlers!Next, Handlers!Work, Handlers!DeleteSteps,
           Handlers!StartSteps
<1>3. UNCHANGED Executions!vars
    BY <1>1 DEF execVars, Executions!vars, Executions!stateVars, Executions!worldVars,
                Executions!callerVars
<1>4. Settled' /\ Owned' /\ closing' = "open"
    BY <1>1 DEF execVars, OInv, Settled, Owned, MayRun, Unconfirmed
<1>5. Calls'
    BY <1>1, Alone DEF execVars, OInv, Calls, projectExecutionKey
<1> QED
    BY <1>2, <1>3, <1>4, <1>5 DEF ComponentSteps, Kept

\* Stop changes nothing handlers see of executions before it returns.
LEMMA StopBeginsStep ==
    ASSUME OInv, NEW d \in Deletes, StopBegins(d)
    PROVE  ComponentSteps /\ Kept
<1> DEFINE k == projectExecutionKey(snapshot[d])
<1>1. k \in Creates /\ pc[d] = "stop" /\ Executions!StopEnter(d, k) /\ UNCHANGED handlerVars
    BY Holders DEF OInv, StopBegins
<1>2. Executions!Next
    BY <1>1 DEF Executions!Next, Executions!Manager
<1>3. /\ UNCHANGED <<current, key, launch, process, result, harness, closing>>
      /\ \A c \in Deletes : c # d =>
            stopPc'[c] = stopPc[c] /\ target'[c] = target[c] /\ outcome'[c] = outcome[c]
    BY <1>1 DEF Executions!StopEnter, Executions!StopUnregistered, Executions!StopJoins,
                Executions!StopOwns, Executions!stateVars, Executions!worldVars,
                OInv, EP!IInv, EP!TypeOK, EP!Actors
<1>4. target'[d] = current[k] /\ (target'[d] = None => outcome'[d] = "ok")
    BY <1>1, NoneIsNil
       DEF Executions!StopEnter, Executions!StopUnregistered, Executions!StopJoins,
           Executions!StopOwns, OInv, EP!IInv, EP!TypeOK, EP!Actors
<1>5. UNCHANGED Handlers!vars
    BY <1>1, <1>3, Unseen
       DEF handlerVars, Handlers!vars, Handlers!storeVars, Handlers!fileVars,
           Handlers!execVars, Handlers!clientVars
<1>6. Owned'
    BY <1>1 DEF Executions!StopEnter, Executions!StopUnregistered, Executions!StopJoins,
                Executions!StopOwns, Executions!stateVars, OInv, Owned,
                EP!IInv, EP!TypeOK, EP!Actors
<1>7. Kept
    BY <1>1, <1>3, <1>4, <1>6
       DEF Kept, OInv, Settled, Calls, MayRun, Unconfirmed, handlerVars
<1> QED
    BY <1>2, <1>5, <1>7 DEF ComponentSteps

\* Nor while Stop waits for the launch, the process or another stop.
LEMMA StopGoesOnStep ==
    ASSUME OInv, NEW d \in Deletes, StopGoesOn(d)
    PROVE  ComponentSteps /\ Kept
<1>1. Executions!StopSteps(d) /\ UNCHANGED handlerVars
    BY DEF StopGoesOn
<1>2. Executions!Next
    BY <1>1 DEF Executions!Next, Executions!Manager, Executions!Actors
<1>3. /\ UNCHANGED <<current, key, launch, process, result, harness, target, closing>>
      /\ stopPc[d] \in {"starting", "process", "waiting"}
      /\ \A c \in Deletes : c # d => stopPc'[c] = stopPc[c] /\ outcome'[c] = outcome[c]
    BY <1>1
       DEF Executions!StopSteps, Executions!StopAwaitsLaunch,
           Executions!StopJoinsProcess, Executions!StopWaits, Executions!stateVars,
           Executions!worldVars, OInv, EP!IInv, EP!TypeOK, EP!Actors
<1>4. target[d] # None
    BY <1>3, NoneIsNil DEF OInv, EP!IInv, EP!TypeOK, EP!Actors
<1>5. UNCHANGED Handlers!vars
    BY <1>1, <1>3, Unseen
       DEF handlerVars, Handlers!vars, Handlers!storeVars, Handlers!fileVars,
           Handlers!execVars, Handlers!clientVars
<1>6. Owned'
    BY <1>1 DEF Executions!StopSteps, Executions!StopAwaitsLaunch,
                Executions!StopJoinsProcess, Executions!StopWaits,
                Executions!stateVars, OInv, Owned, EP!IInv, EP!TypeOK, EP!Actors
<1>7. Kept
    BY <1>1, <1>3, <1>4, <1>6 DEF Kept, OInv, Settled, Calls, MayRun, Unconfirmed,
                handlerVars, projectExecutionKey
<1> QED
    BY <1>2, <1>5, <1>7 DEF ComponentSteps

\* A nil from Stop vouches for the current invocation; an error means that its exit
\* is unconfirmed.
LEMMA StopDoneStep ==
    ASSUME OInv, NEW d \in Deletes, StopDone(d)
    PROVE  ComponentSteps /\ Kept
<1> DEFINE k == projectExecutionKey(snapshot[d])
<1>1. /\ k \in Creates /\ pc[d] = "stop" /\ stopPc[d] = "returned" /\ target[d] = current[k]
      /\ Executions!CallerContinues(d)
    BY Holders DEF OInv, StopDone, Calls, Executions!CallerContinues
<1>2. Executions!Next
    BY <1>1 DEF Executions!Next, Executions!Manager
<1>3. /\ UNCHANGED <<current, key, launch, process, result, harness, closing>>
      /\ stopPc'[d] = "idle"
      /\ \A c \in Deletes : c # d =>
            stopPc'[c] = stopPc[c] /\ target'[c] = target[c] /\ outcome'[c] = outcome[c]
    BY <1>1 DEF Executions!CallerContinues, Executions!stateVars, Executions!worldVars,
                OInv, EP!IInv, EP!TypeOK, EP!Actors
<1>4. UNCHANGED <<Running, Known, GivenUp>>
    BY <1>3, Unseen
<1>5. Handlers!DeleteStop(d)
    <2>1. CASE current[k] = None
        <3>1. k \notin Known /\ outcome[d] = "ok"
            BY <1>1, <2>1, Seen DEF OInv, Calls
        <3>2. Handlers!DeleteStop(d)
            BY <1>1, <1>4, <3>1 DEF projectExecutionKey, StopDone,
                    Handlers!DeleteStop, Handlers!execVars, Handlers!storeVars,
                    Handlers!fileVars, Handlers!clientVars
        <3> QED
            BY <3>2
    <2>2. CASE current[k] # None /\ outcome[d] = "ok"
        <3>1. /\ launch[current[k]] = "finished" /\ process[current[k]] # "live"
              /\ ~Unconfirmed(current[k]) /\ harness[current[k]] # "alive"
            BY <1>1, <2>2
               DEF OInv, EP!IInv, EP!TypeOK, EP!Actors, EP!Returned, EP!StopReturn,
                   EP!Published, EP!Evidence, Unconfirmed
        <3>2. k \in Known \ GivenUp /\ Running \ {k} = Running
            BY <1>1, <2>2, <3>1, Seen DEF OInv, MayRun
        <3>3. Handlers!DeleteStop(d)
            BY <1>1, <1>4, <2>2, <3>2 DEF projectExecutionKey, StopDone,
                    Handlers!DeleteStop, Handlers!execVars, Handlers!storeVars,
                    Handlers!fileVars, Handlers!clientVars
        <3> QED
            BY <3>3
    <2>3. CASE current[k] # None /\ outcome[d] # "ok"
        <3>1. Unconfirmed(current[k])
            BY <1>1, <2>3
               DEF OInv, EP!IInv, EP!TypeOK, EP!Actors, EP!Returned, EP!StopReturn,
                   EP!Published, Unconfirmed
        <3>2. k \in Known /\ GivenUp \cup {k} = GivenUp
            BY <1>1, <2>3, <3>1, Seen DEF OInv
        <3>3. Handlers!DeleteStop(d)
            BY <1>1, <1>4, <2>3, <3>2 DEF projectExecutionKey, StopDone,
                    Handlers!DeleteStop, Handlers!execVars, Handlers!storeVars,
                    Handlers!fileVars, Handlers!clientVars
        <3> QED
            BY <3>3
    <2> QED
        BY <2>1, <2>2, <2>3
<1>6. Handlers!Next
    BY <1>5 DEF Handlers!Next, Handlers!Work, Handlers!DeleteSteps, Handlers!Requests
<1>7. \A c \in Deletes : c # d => pc'[c] = pc[c] /\ snapshot'[c] = snapshot[c]
    BY Holders DEF OInv, StopDone, Handlers!Goto, Handlers!Respond, Handlers!Requests
<1>8. Owned'
    BY <1>1, <1>3 DEF Executions!CallerContinues, Executions!stateVars, OInv, Owned
<1>9. Kept
    BY <1>1, <1>3, <1>7, <1>8
       DEF Kept, OInv, Settled, Calls, MayRun, Unconfirmed, projectExecutionKey
<1> QED
    BY <1>2, <1>6, <1>9 DEF ComponentSteps

\* A start launches when the handlers expect it to: the manager refuses one only
\* after an unconfirmed exit, for a stop in progress would hold the project lock.
LEMMA StartLaunchStep ==
    ASSUME OInv, NEW s \in Starts, StartLaunch(s)
    PROVE  ComponentSteps /\ Kept
<1> DEFINE k == projectExecutionKey(snapshot[s])
<1> USE NoneIsNil, RequestsDistinct
<1>1. k \in Creates /\ pc[s] = "launch" /\ lock = s
    BY Holders DEF OInv, StartLaunch
<1>2. \A d \in Deletes : pc[d] # "stop" /\ stopPc[d] = "idle"
    BY <1>1, Holders DEF OInv, Calls
<1>3. \A d \in Deletes : pc'[d] = pc[d]
    BY Holders DEF OInv, StartLaunch, Handlers!Respond, Handlers!Requests
<1>4. CASE Executions!Start(k, s) /\ Handlers!Respond(s, "ok")
    <2>1. /\ key[s] = None /\ closing' = closing
          /\ current' = [current EXCEPT ![k] = s] /\ key' = [key EXCEPT ![s] = k]
          /\ launch' = [launch EXCEPT ![s] = "starting"]
          /\ UNCHANGED <<stopPc, process, result, harness>>
        BY <1>4 DEF Executions!Start, Executions!Used, Executions!worldVars,
                Executions!callerVars
    <2>2. current[k] # None => ~MayRun(current[k])
        BY <1>1, <1>4
           DEF Executions!Start, Executions!Replaceable, OInv, EP!IInv, EP!TypeOK,
               EP!Evidence, MayRun, Unconfirmed
    <2>3. Settled'
        BY <1>1, <2>1, <2>2
           DEF OInv, EP!IInv, EP!TypeOK, Settled, MayRun, Unconfirmed, EP!Registry
    <2>4. EP!IInv'
        <3>1. Executions!Next
            BY <1>1, <1>4 DEF Executions!Next, Executions!Manager
        <3> QED
            BY <3>1, SameExecutions, EP!NextIInv DEF OInv
    <2>5. /\ launch[s] = "unused" /\ process[s] = "nil" /\ harness[s] = "none"
          /\ launch'[s] = "starting" /\ key'[s] = k
          /\ \A i \in Starts : i # s => launch'[i] = launch[i] /\ key'[i] = key[i]
        BY <2>1 DEF OInv, EP!IInv, EP!TypeOK, EP!Registry, EP!Evidence
    <2>6. Known' = Known \cup {k}
        BY <2>5 DEF Known, KeysOf
    <2>7. Running' = Running \cup {k}
        BY <2>1, <2>5 DEF Running, KeysOf, MayRun, Unconfirmed
    <2>8. GivenUp' = GivenUp
        BY <2>1, <2>5 DEF GivenUp, KeysOf, Unconfirmed
    <2>9. k \notin GivenUp
        BY <1>1, <2>2, Seen DEF OInv, MayRun
    <2>10. Handlers!StartLaunch(s)
        BY <1>1, <1>4, <2>6, <2>7, <2>8, <2>9
           DEF projectExecutionKey, StartLaunch, Handlers!StartLaunch,
               Handlers!storeVars, Handlers!fileVars, Handlers!clientVars
    <2>11. Calls' /\ Owned' /\ closing' = "open"
        BY <1>2, <1>3, <1>4, <2>1 DEF OInv, Calls, Owned, Executions!Start,
                Executions!callerVars
    <2>12. Executions!Next /\ Handlers!Next
        BY <1>1, <1>4, <2>10 DEF Executions!Next, Executions!Manager, Handlers!Next,
                Handlers!Work, Handlers!StartSteps, Handlers!Requests
    <2> QED
        BY <2>3, <2>11, <2>12 DEF ComponentSteps, Kept
<1>5. ASSUME UNCHANGED execVars
      PROVE  /\ UNCHANGED <<Running, Known, GivenUp>>
             /\ UNCHANGED Executions!vars
             /\ Kept
    <2>1. UNCHANGED <<Running, Known, GivenUp>>
        BY <1>5, Unseen DEF execVars
    <2>2. UNCHANGED Executions!vars
        BY <1>5
           DEF execVars, Executions!vars, Executions!stateVars, Executions!worldVars,
               Executions!callerVars
    <2>3. Kept
        BY <1>2, <1>3, <1>5 DEF Kept, OInv, execVars, Settled, Calls, Owned, MayRun,
                Unconfirmed
    <2> QED
        BY <2>1, <2>2, <2>3
<1>6. CASE /\ Executions!AlreadyStarted(k)
           /\ Handlers!Respond(s, "ok") /\ UNCHANGED execVars
    <2>1. current[k] # None /\ MayRun(current[k]) /\ ~Unconfirmed(current[k])
        BY <1>1, <1>6
           DEF Executions!AlreadyStarted, OInv, EP!IInv, EP!TypeOK, EP!Evidence, MayRun,
               Unconfirmed
    <2>2. k \notin GivenUp /\ Running = Running \cup {k} /\ Known = Known \cup {k}
        BY <1>1, <2>1, Seen DEF OInv
    <2>3. Handlers!StartLaunch(s)
        BY <1>1, <1>5, <1>6, <2>2
           DEF projectExecutionKey, StartLaunch, Handlers!StartLaunch,
               Handlers!storeVars, Handlers!fileVars, Handlers!clientVars
    <2>4. Handlers!Next
        BY <2>3 DEF Handlers!Next, Handlers!Work, Handlers!StartSteps, Handlers!Requests
    <2> QED
        BY <1>5, <1>6, <2>4 DEF ComponentSteps
<1>7. CASE /\ ~Executions!StartAccepts(k)
           /\ Handlers!Respond(s, "conflict") /\ UNCHANGED execVars
    <2>1. current[k] # None /\ Unconfirmed(current[k])
        <3>1. current[k] # None => stopDone[current[k]] # "open"
            BY <1>1, <1>2 DEF OInv, Owned, EP!IInv, EP!TypeOK
        <3> QED
            BY <1>1, <1>7, <3>1
               DEF Executions!StartAccepts, Executions!Replaceable,
                   Executions!AlreadyStarted, OInv, EP!IInv, EP!TypeOK, EP!Registry,
                   Unconfirmed
    <2>2. k \in GivenUp
        BY <1>1, <2>1, Seen DEF OInv
    <2>3. Handlers!StartLaunch(s)
        BY <1>1, <1>5, <1>7, <2>2
           DEF projectExecutionKey, StartLaunch,
               Handlers!StartLaunch, Handlers!execVars, Handlers!storeVars,
               Handlers!fileVars, Handlers!clientVars
    <2>4. Handlers!Next
        BY <2>3 DEF Handlers!Next, Handlers!Work, Handlers!StartSteps, Handlers!Requests
    <2> QED
        BY <1>5, <1>7, <2>4 DEF ComponentSteps
<1> QED
    BY <1>4, <1>6, <1>7 DEF StartLaunch

\* A launch that ends, a harness or a wrapper is seen as the end of an execution, as an
\* unconfirmed exit, or not at all.
LEMMA RunsStep ==
    ASSUME OInv, NEW i \in Starts, Runs(i)
    PROVE  ComponentSteps /\ Kept
<1> DEFINE k == key[i]
<1> USE NoneIsNil
<1>1. /\ UNCHANGED <<handlerVars, current, key, stopDone, stopPc, target, outcome, closing>>
      /\ \A j \in Starts : j # i => /\ launch'[j] = launch[j] /\ process'[j] = process[j]
                                    /\ result'[j] = result[j] /\ harness'[j] = harness[j]
    BY
       DEF Runs, LaunchEnds, ProcessExit, Executions!HarnessUp, Executions!HarnessExit,
           Executions!LaunchEnds, Executions!LaunchSucceeds,
           Executions!LaunchFailsCleanly, Executions!LaunchFailsUncertain,
           Executions!LaunchReturns, Executions!Joined, Executions!ProcessExit,
           Executions!stateVars, Executions!callerVars, OInv, EP!IInv, EP!TypeOK
<1>2. /\ MayRun(i) /\ k \in Creates
      /\ launch[i] # "unused" /\ launch'[i] # "unused"
      /\ Unconfirmed(i) => Unconfirmed(i)'
      /\ Unconfirmed(i)' => MayRun(i)'
    BY
       DEF Runs, LaunchEnds, ProcessExit, Executions!HarnessUp, Executions!HarnessExit,
           Executions!LaunchEnds, Executions!LaunchSucceeds,
           Executions!LaunchFailsCleanly, Executions!LaunchFailsUncertain,
           Executions!LaunchReturns, Executions!Joined, Executions!ProcessExit,
           Executions!stateVars, OInv, EP!IInv, EP!TypeOK, EP!Evidence, EP!Registry,
           MayRun, Unconfirmed
<1>3. current[k] = i
    BY <1>2 DEF OInv, Settled
<1>4. Executions!Next
    BY DEF Runs, LaunchEnds, ProcessExit, Executions!Next, Executions!World
<1>5. Known' = Known
    BY <1>1, <1>2 DEF Known, KeysOf
<1>6. k \in Known /\ k \in Running
    BY <1>2 DEF Known, Running, KeysOf
<1>7. Running' = IF MayRun(i)' THEN Running ELSE Running \ {k}
    BY <1>1, <1>2, <1>3 DEF Running, KeysOf, MayRun, Unconfirmed, OInv, Settled
<1>8. GivenUp' = IF Unconfirmed(i)' THEN GivenUp \cup {k} ELSE GivenUp
    BY <1>1, <1>2 DEF GivenUp, KeysOf, Unconfirmed
<1>9. [Handlers!Next]_(Handlers!vars)
    <2>1. CASE ~MayRun(i)'
        <3>1. Handlers!ExecutionEnds(k)
            BY <1>1, <1>2, <1>5, <1>6, <1>7, <1>8, <2>1
               DEF Handlers!ExecutionEnds, Handlers!storeVars, Handlers!fileVars,
                   Handlers!clientVars, handlerVars
        <3> QED
            BY <1>2, <3>1 DEF Handlers!Next
    <2>2. CASE MayRun(i)' /\ Unconfirmed(i)' /\ k \notin GivenUp
        <3>1. Handlers!ExitUnconfirmed(k)
            BY <1>1, <1>2, <1>5, <1>6, <1>7, <1>8, <2>2
               DEF Handlers!ExitUnconfirmed, Handlers!storeVars, Handlers!fileVars,
                   Handlers!clientVars, handlerVars
        <3> QED
            BY <1>2, <3>1 DEF Handlers!Next
    <2>3. CASE MayRun(i)' /\ (~Unconfirmed(i)' \/ k \in GivenUp)
        <3>1. UNCHANGED <<Running, Known, GivenUp>>
            BY <1>5, <1>7, <1>8, <2>3
        <3> QED
            BY <1>1, <3>1 DEF handlerVars, Handlers!vars, Handlers!storeVars,
                Handlers!fileVars, Handlers!execVars, Handlers!clientVars
    <2> QED
        BY <2>1, <2>2, <2>3
<1>10. Settled'
    BY <1>1, <1>3 DEF OInv, Settled, MayRun, Unconfirmed
<1>11. Kept
    BY <1>1, <1>10 DEF Kept, OInv, Calls, Owned, handlerVars, projectExecutionKey
<1> QED
    BY <1>4, <1>9, <1>11 DEF ComponentSteps

-----------------------------------------------------------------------------
(* The theorem *)

\* In the beginning nothing is known, launched or reserved.
LEMMA InitOInv == Init => OInv /\ Handlers!Init
<1> SUFFICES ASSUME Init PROVE OInv /\ Handlers!Init
    OBVIOUS
<1>1. EP!IInv
    BY SameExecutions, EP!InitIInv, RequestsDistinct, NoneIsNil DEF Init
<1>2. Running = {} /\ Known = {} /\ GivenUp = {}
    BY DEF Init, Executions!Init, Running, Known, GivenUp, KeysOf, MayRun, Unconfirmed
<1>3. Handlers!Init
    BY <1>2 DEF Init, Handlers!Init, Running, Known, GivenUp
<1>4. PP!IInv
    <2>1. None \notin PP!Requests /\ None \notin PP!ProjectRecords /\ 0 \in Nat
        BY NoneIsNil DEF PP!Requests, PP!ProjectRecords, Handlers!ProjectRecords
    <2> QED
        BY <1>3, <2>1, SameHandlers, PP!InitIInv, RequestsDistinct, BoundsAreNaturals
<1>5. Settled /\ Calls /\ Owned /\ closing = "open"
    BY NoneIsNil
       DEF Init, Executions!Init, Executions!Actors, Settled, Calls, Owned
<1> QED
    BY <1>1, <1>3, <1>4, <1>5 DEF OInv

\* Every step keeps the invariant and is a step of Projects or a stutter.
LEMMA NextOInv == OInv /\ [Next]_vars => OInv' /\ [Handlers!Next]_(Handlers!vars)
<1> SUFFICES ASSUME OInv, [Next]_vars PROVE OInv' /\ [Handlers!Next]_(Handlers!vars)
    OBVIOUS
<1>1. ComponentSteps /\ Kept
    <2>1. ASSUME NEW r \in Handlers!Requests, Arrive(r) \/ Work(r) PROVE ComponentSteps /\ Kept
        BY <2>1, ApartStep, StopBeginsStep, StopGoesOnStep, StopDoneStep,
           StartLaunchStep
           DEF Work, Stops
    <2>2. ASSUME NEW i \in Starts, Runs(i) PROVE ComponentSteps /\ Kept
        BY <2>2, RunsStep
    <2>3. CASE UNCHANGED vars
        <3>1. UNCHANGED Executions!vars /\ UNCHANGED <<Running, Known, GivenUp>>
            BY <2>3, Unseen DEF vars, execVars, Executions!vars, Executions!stateVars,
                Executions!worldVars, Executions!callerVars
        <3>2. UNCHANGED Handlers!vars
            BY <2>3, <3>1 DEF vars, handlerVars, Handlers!vars, Handlers!storeVars,
                Handlers!fileVars, Handlers!execVars, Handlers!clientVars
        <3>3. Kept
            BY <2>3 DEF vars, execVars, handlerVars, Kept, OInv, Settled, Calls, Owned,
                MayRun, Unconfirmed, projectExecutionKey
        <3> QED
            BY <3>1, <3>2, <3>3 DEF ComponentSteps
    <2> QED
        BY <2>1, <2>2, <2>3 DEF Next
<1>2. EP!IInv' /\ PP!IInv'
    BY <1>1, ComponentsKeep DEF OInv, ComponentSteps
<1> QED
    BY <1>1, <1>2 DEF OInv, Kept, ComponentSteps

\* With launches that outlive the project lock and stops that take their time, every
\* behavior is one of Projects, which therefore keeps all its promises.
THEOREM Refinement == Spec => ImplementsProjects
BY InitOInv, NextOInv, PTL DEF Spec, ImplementsProjects, Handlers!Spec

\* Every launch and every live harness belongs to the ready project with its own
\* complete repository: no start is left behind by a deletion, no deletion removes the
\* files of a process, and no harness meets the files of another generation.
HarnessesAreHome ==
    \A i \in Starts :
        launch[i] = "starting" \/ harness[i] = "alive" =>
            /\ record # None
            /\ record.token = key[i] /\ record.state = "ready"
            /\ dir = Handlers!Directory(key[i], "repo")

THEOREM HarnessesStayHome == Spec => []HarnessesAreHome
<1>1. OInv => HarnessesAreHome
    <2> SUFFICES ASSUME OInv, NEW i \in Starts, launch[i] = "starting" \/ harness[i] = "alive"
                 PROVE  /\ record # None
                        /\ record.token = key[i] /\ record.state = "ready"
                        /\ dir = Handlers!Directory(key[i], "repo")
        BY DEF HarnessesAreHome
    <2>1. key[i] \in Running \cap Known
        BY DEF OInv, EP!IInv, EP!TypeOK, EP!Evidence, Running, Known, KeysOf, MayRun
    <2>2. record # None /\ record.state = "ready" /\ Running \cap Known = {record.token}
        BY <2>1 DEF OInv, PP!IInv, PP!Users, Running, Known
    <2>3. dir = Handlers!Directory(record.token, "repo")
        BY <2>2
           DEF OInv, PP!IInv, PP!ReadyHasRepository, PP!Directory, Handlers!Directory
    <2> QED
        BY <2>1, <2>2, <2>3
<1> QED
    BY <1>1, InitOInv, NextOInv, PTL DEF Spec
====
