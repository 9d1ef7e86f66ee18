------------------------ MODULE ServerLifecycleProofs ------------------------
(***************************************************************************)
(* Proofs about ServerLifecycle, for any number of keys, invocations and   *)
(* requests.  Every step of the server is a step of its execution manager  *)
(* or leaves it alone, so what is proved of the manager holds in it.  SInv *)
(* adds what each place of Start and serve owns, and what has ended there. *)
(***************************************************************************)
EXTENDS ServerLifecycle, ExecutionManagerProofs, TLAPS

\* The resources held at each place.
Holding ==
    /\ lock = "ours" <=> srv \notin {"lock", "done"}
    /\ store = "open" <=> srv \notin {"lock", "store", "closeLock", "done"}
    /\ projects = "open" <=>
          srv \notin {"lock", "store", "projects", "closeStore", "closeLock", "done"}

\* Where the HTTP server may be serving, and where it has not begun to.
Serving ==
    /\ http = "unbound" =>
          srv \notin {"select", "closing", "cleanup", "executions", "requests"}
    /\ srv \in {"lock", "store", "projects", "listen"} => http = "unbound"
    /\ http = "serving" => srv \in {"select", "closing"}

\* Without the HTTP server there is no request, so nothing is launched.
Unbound ==
    http = "unbound" =>
        /\ \A c \in Callers : request[c] = "none"
        /\ \A i \in Invocations : launch[i] = "unused"

\* How far the execution manager is closed and requests are joined.
Closed ==
    /\ srv = "executions" => stopped
    /\ srv = "requests" => stopped /\ closing = "closed"
    /\ srv \in {"closeProjects", "closeStore", "closeLock", "done"} /\ http # "unbound" =>
          /\ stopped /\ closing = "closed"
          /\ \A c \in Callers : request[c] = "none"

SInv == IInv /\ ServerTypeOK /\ Holding /\ Serving /\ Unbound /\ Closed

-----------------------------------------------------------------------------
\* Every step of the server is one of the execution manager or none to it.
LEMMA StepsOfManager == [ServerNext]_serverVars => [Next]_vars
<1> SUFFICES ASSUME [ServerNext]_serverVars PROVE [Next]_vars
    OBVIOUS
<1>1. CASE UNCHANGED vars
    BY <1>1
<1>2. CASE Starting
    BY <1>2 DEF Starting, LockWorkspace, OpenStore, OpenProjects, Listen
<1>3. CASE Serve
    BY <1>3 DEF Serve, Interrupted, ServeEnds, Cleanup, ExecutionsClosed, CloseExecution,
                StopGoesOn, JoinRequests, CloseProjects, CloseStore, CloseLock, Next, Manager,
                Actors
<1>4. ASSUME NEW c \in Callers, Request(c) PROVE [Next]_vars
    BY <1>4 DEF Request, Register, Finish, StartRequest, StopRequest, StopGoesOn, StopDone,
                ProxyBegins, ProxyEnds, ProxyCut, Next, Manager, Actors
<1>5. ASSUME NEW i \in Invocations, Launches(i) PROVE [Next]_vars
    BY <1>5 DEF Launches, LauncherEnters, LauncherRefuses, WrapperSteps, LaunchEnds, Next, World
<1>6. CASE Interrupt \/ ShutdownBegins \/ ShutdownCloses \/ HTTPFails \/ Ended
    BY <1>6 DEF Interrupt, ShutdownBegins, ShutdownCloses, HTTPFails, Ended, serverVars
<1> QED
    BY <1>1, <1>2, <1>3, <1>4, <1>5, <1>6 DEF ServerNext, serverVars

\* The server runs its execution manager as ExecutionManager specifies it: whatever
\* is proved of every manager is true of the one in a server.
THEOREM RunsExecutionManager == ServerSpec => Spec
BY StepsOfManager, PTL DEF ServerSpec, ServerInit, Spec

\* Before Start.
LEMMA InitSInv == ServerInit => SInv
<1> SUFFICES ASSUME ServerInit PROVE SInv
    OBVIOUS
<1>1. IInv
    BY InitIInv DEF ServerInit
<1>2. ServerTypeOK
    BY DEF ServerInit, ServerTypeOK, Init, Actors
<1> QED
    BY <1>1, <1>2 DEF ServerInit, Init, SInv, Holding, Serving, Unbound, Closed

\* Steps of Start.
LEMMA StartingSteps ==
    ASSUME SInv, IInv', Starting PROVE SInv'
<1> USE DEF SInv, vars, stateVars, worldVars, callerVars, resourceVars, stopVars
<1>1. CASE LockWorkspace
    BY <1>1 DEF LockWorkspace, ServerTypeOK, Holding, Serving, Unbound, Closed
<1>2. CASE OpenStore
    BY <1>2 DEF OpenStore, ServerTypeOK, Holding, Serving, Unbound, Closed
<1>3. CASE OpenProjects
    BY <1>3 DEF OpenProjects, ServerTypeOK, Holding, Serving, Unbound, Closed
<1>4. CASE Listen
    BY <1>4 DEF Listen, ServerTypeOK, Holding, Serving, Unbound, Closed
<1> QED
    BY <1>1, <1>2, <1>3, <1>4 DEF Starting

\* Steps of the execution manager on behalf of the server leave the closing of the
\* manager, and what was never launched, alone.
LEMMA StopKeeps ==
    ASSUME NEW a \in Actors, StopSteps(a)
    PROVE  UNCHANGED <<launch, closing>>
BY DEF StopSteps, StopAwaitsLaunch, StopJoinsProcess, StopWaits, stateVars, callerVars

\* So does the critical section in which a Stop begins.
LEMMA StopEnterKeeps ==
    ASSUME NEW a \in Actors, NEW k \in Keys, StopEnter(a, k)
    PROVE  UNCHANGED <<launch, closing>>
BY DEF StopEnter, StopUnregistered, StopJoins, StopOwns, stateVars, callerVars

\* Steps of a Stop in progress, for a request or for Close.
LEMMA StopGoesOnStep ==
    ASSUME SInv, IInv', NEW a \in Actors, StopGoesOn(a) PROVE SInv'
<1>1. UNCHANGED <<launch, closing, lifecycleVars>>
    BY StopKeeps DEF StopGoesOn
<1>2. \A c \in Actors : pc'[c] # "idle" => pc[c] # "idle"
    BY DEF SInv, IInv, TypeOK, StopGoesOn, StopSteps, StopAwaitsLaunch, StopJoinsProcess,
           StopWaits
<1>3. ServerTypeOK'
    BY <1>1, <1>2 DEF SInv, ServerTypeOK, lifecycleVars, resourceVars, stopVars, Actors
<1> QED
    BY <1>1, <1>3 DEF SInv, lifecycleVars, resourceVars, stopVars, Holding, Serving, Unbound,
                      Closed

\* Steps of serve and its cleanup.
LEMMA ServeSteps ==
    ASSUME SInv, IInv', Serve PROVE SInv'
<1> USE DEF SInv, vars, stateVars, worldVars, callerVars, resourceVars, stopVars
<1>1. CASE Interrupted
    BY <1>1 DEF Interrupted, ServerTypeOK, Holding, Serving, Unbound, Closed
<1>2. CASE ServeEnds
    BY <1>2 DEF ServeEnds, ServerTypeOK, Holding, Serving, Unbound, Closed
<1>3. CASE Cleanup
    BY <1>3 DEF Cleanup, CloseBegins, ServerTypeOK, Holding, Serving, Unbound, Closed
<1>4. CASE ExecutionsClosed
    BY <1>4 DEF ExecutionsClosed, CloseEnds, ServerTypeOK, Holding, Serving, Unbound, Closed
<1>5. ASSUME NEW k \in Keys, CloseExecution(k) PROVE SInv'
    <2>1. UNCHANGED <<launch, closing, lifecycleVars>>
        BY <1>5, StopEnterKeeps DEF CloseExecution, CloseJob, Actors
    <2>2. \A c \in Callers : pc'[c] = pc[c]
        BY <1>5, ActorsDistinct DEF CloseExecution, CloseJob, StopEnter, StopUnregistered,
                                    StopJoins, StopOwns, IInv, TypeOK, Actors
    <2> QED
        BY <2>1, <2>2 DEF lifecycleVars, ServerTypeOK, Holding, Serving, Unbound, Closed
<1>6. ASSUME NEW k \in Keys, StopGoesOn(k) PROVE SInv'
    BY <1>6, StopGoesOnStep DEF Actors
<1>7. CASE JoinRequests
    BY <1>7 DEF JoinRequests, ServerTypeOK, Holding, Serving, Unbound, Closed
<1>8. CASE CloseProjects
    BY <1>8 DEF CloseProjects, ServerTypeOK, Holding, Serving, Unbound, Closed
<1>9. CASE CloseStore
    BY <1>9 DEF CloseStore, ServerTypeOK, Holding, Serving, Unbound, Closed
<1>10. CASE CloseLock
    BY <1>10 DEF CloseLock, ServerTypeOK, Holding, Serving, Unbound, Closed
<1> QED
    BY <1>1, <1>2, <1>3, <1>4, <1>5, <1>6, <1>7, <1>8, <1>9, <1>10 DEF Serve

\* Steps of a request, which is only registered while requests are not canceled.
LEMMA RequestSteps ==
    ASSUME SInv, IInv', NEW c \in Callers, Request(c) PROVE SInv'
<1> USE DEF SInv, vars, stateVars, worldVars, callerVars, resourceVars, stopVars
<1>1. CASE Register(c)
    BY <1>1 DEF Register, RequestsCanceled, ServerTypeOK, Holding, Serving, Unbound, Closed
<1>2. CASE Finish(c)
    BY <1>2 DEF Finish, ServerTypeOK, Holding, Serving, Unbound, Closed
<1>3. CASE StartRequest(c)
    <2>1. PICK k \in Keys, i \in Invocations : Start(k, i)
        BY <1>3 DEF StartRequest
    <2>2. UNCHANGED <<pc, closing>> /\ launch' = [launch EXCEPT ![i] = "starting"]
        BY <2>1 DEF Start
    <2> QED
        BY <1>3, <2>2 DEF StartRequest, Proceeds, IInv, TypeOK, ServerTypeOK, Holding,
                          Serving, Unbound, Closed
<1>4. CASE StopRequest(c)
    <2>1. PICK k \in Keys : StopEnter(c, k)
        BY <1>4 DEF StopRequest
    <2>2. UNCHANGED <<launch, closing>>
        BY <2>1, StopEnterKeeps DEF Actors
    <2>3. \A d \in Callers \ {c} : pc'[d] = pc[d]
        BY <2>1 DEF StopEnter, StopUnregistered, StopJoins, StopOwns, IInv, TypeOK, Actors
    <2> QED
        BY <1>4, <2>2, <2>3 DEF StopRequest, Proceeds, ServerTypeOK, Holding, Serving,
                                Unbound, Closed
<1>5. CASE StopGoesOn(c)
    BY <1>5, StopGoesOnStep DEF Actors
<1>6. CASE StopDone(c)
    BY <1>6 DEF StopDone, CallerContinues, lifecycleVars, IInv, TypeOK, Actors, ServerTypeOK,
                Holding, Serving, Unbound, Closed
<1>7. CASE ProxyBegins(c)
    BY <1>7 DEF ProxyBegins, Proceeds, ServerTypeOK, Holding, Serving, Unbound, Closed
<1>8. CASE ProxyEnds(c)
    BY <1>8 DEF ProxyEnds, ServerTypeOK, Holding, Serving, Unbound, Closed
<1> QED
    BY <1>1, <1>2, <1>3, <1>4, <1>5, <1>6, <1>7, <1>8 DEF Request, ProxyCut

\* Steps of the launches and the wrappers they leave behind.
LEMMA LaunchSteps ==
    ASSUME SInv, IInv', NEW i \in Invocations, Launches(i) PROVE SInv'
<1> USE DEF SInv, vars, stateVars, worldVars, callerVars, resourceVars, stopVars
<1>1. CASE LauncherEnters(i)
    BY <1>1 DEF LauncherEnters, ServerTypeOK, Holding, Serving, Unbound, Closed
<1>2. CASE LauncherRefuses(i)
    BY <1>2 DEF LauncherRefuses, LaunchFailsCleanly, LaunchReturns, lifecycleVars, IInv, TypeOK,
                ServerTypeOK, Holding, Serving, Unbound, Closed
<1>3. CASE WrapperSteps(i)
    <2>1. UNCHANGED <<pc, closing, lifecycleVars>>
        BY <1>3 DEF WrapperSteps, HarnessUp, HarnessExit, LaunchEnds, LaunchSucceeds,
                    LaunchFailsCleanly, LaunchFailsUncertain, LaunchReturns, ProcessExit
    <2>2. launch[i] # "unused" /\ launch' \in [Invocations -> {"unused", "starting", "finished"}]
        BY <1>3 DEF WrapperSteps, ServerTypeOK, IInv, TypeOK
    <2>3. \A j \in Invocations : launch'[j] = "unused" <=> launch[j] = "unused"
        BY <1>3, <2>2 DEF WrapperSteps, HarnessUp, HarnessExit, LaunchEnds, LaunchSucceeds,
                          LaunchFailsCleanly, LaunchFailsUncertain, LaunchReturns, ProcessExit,
                          IInv, TypeOK
    <2> QED
        BY <2>1, <2>2, <2>3 DEF lifecycleVars, ServerTypeOK, Holding, Serving, Unbound, Closed
<1> QED
    BY <1>1, <1>2, <1>3 DEF Launches

\* Interrupts, shutdown, and the end of the HTTP server.
LEMMA ShutdownSteps ==
    ASSUME SInv, IInv',
           Interrupt \/ ShutdownBegins \/ ShutdownCloses \/ HTTPFails \/ UNCHANGED serverVars
    PROVE  SInv'
<1> USE DEF SInv, vars, stateVars, worldVars, callerVars, resourceVars, stopVars
<1>1. CASE Interrupt
    BY <1>1 DEF Interrupt, ServerTypeOK, Holding, Serving, Unbound, Closed
<1>2. CASE ShutdownBegins
    BY <1>2 DEF ShutdownBegins, ServerTypeOK, Holding, Serving, Unbound, Closed
<1>3. CASE ShutdownCloses \/ HTTPFails
    BY <1>3 DEF ShutdownCloses, HTTPFails, ServerTypeOK, Holding, Serving, Unbound, Closed
<1>4. CASE UNCHANGED serverVars
    BY <1>4 DEF serverVars, lifecycleVars, ServerTypeOK, Holding, Serving, Unbound, Closed
<1> QED
    BY <1>1, <1>2, <1>3, <1>4

\* Every step of the server preserves the invariant.
LEMMA NextSInv == SInv /\ [ServerNext]_serverVars => SInv'
<1> SUFFICES ASSUME SInv, [ServerNext]_serverVars PROVE SInv'
    OBVIOUS
<1>1. IInv'
    BY StepsOfManager, NextIInv DEF SInv
<1> QED
    BY <1>1, StartingSteps, ServeSteps, RequestSteps, LaunchSteps, ShutdownSteps
       DEF ServerNext, Ended

\* The invariant the theorems below rest on.
LEMMA ServerInductive == ServerSpec => []SInv
BY InitSInv, NextSInv, PTL DEF ServerSpec

-----------------------------------------------------------------------------
\* The types of the server's state; requests in Stop are counted, and launchers
\* spawn only what was registered.
THEOREM ServerTypeCorrectness == ServerSpec => []ServerTypeOK
<1>1. SInv => ServerTypeOK
    BY DEF SInv
<1> QED
    BY <1>1, ServerInductive, PTL

\* A registered request finds store, project manager and lock, whoever shuts the
\* server down and however its goroutines are interleaved.
THEOREM RequestsAreServed == ServerSpec => []RequestsFindStorage
<1>1. SInv => RequestsFindStorage
    BY DEF SInv, Holding, Serving, Unbound, Closed, ServerTypeOK, RequestsFindStorage
<1> QED
    BY <1>1, ServerInductive, PTL

\* Every way Start and serve end releases the store, the projects and the lock.
THEOREM EndIsClean == ServerSpec => []EndReleases
<1>1. SInv => EndReleases
    BY DEF SInv, Holding, Serving, EndReleases
<1> QED
    BY <1>1, ServerInductive, PTL

\* A server without the lock uses nothing in the workspace: whatever was launched
\* was joined by Close, before the lock was released.
THEOREM LockIsHeldLongEnough == ServerSpec => []LockOutlivesUse
<1>1. SInv /\ CloseJoins => LockOutlivesUse
    <2> SUFFICES ASSUME SInv, CloseJoins, lock # "ours" PROVE LockOutlivesUse
        BY DEF LockOutlivesUse
    <2>1. srv \in {"lock", "done"} /\ store # "open" /\ projects # "open"
        BY DEF SInv, Holding
    <2>2. CASE http = "unbound"
        BY <2>1, <2>2 DEF SInv, Unbound, IInv, Evidence, LockOutlivesUse
    <2>3. CASE http # "unbound"
        <3>1. closing = "closed"
            BY <2>1, <2>3 DEF SInv, Serving, Closed
        <3> QED
            BY <2>1, <3>1 DEF CloseJoins, CloseReturnsOk, LockOutlivesUse
    <2> QED
        BY <2>2, <2>3
<1> QED
    BY <1>1, ServerInductive, RunsExecutionManager, CloseIsComplete, PTL

\* requests.Wait never races with a registration: trackRequests refuses under the
\* mutex that stopRequests has taken before.
THEOREM RegistrationIsOver == ServerSpec => NoLateRequests
<1>1. SInv /\ [ServerNext]_serverVars =>
        (srv = "requests" =>
           \A c \in Callers : request[c] = "none" => request'[c] = "none")
    <2> SUFFICES ASSUME SInv, [ServerNext]_serverVars, srv = "requests",
                        NEW c \in Callers, request[c] = "none"
                 PROVE  request'[c] = "none"
        OBVIOUS
    <2>1. stopped /\ request \in [Callers -> {"none", "registered", "proxying", "finishing"}]
        BY DEF SInv, Closed, ServerTypeOK
    <2>2. ASSUME NEW d \in Callers, Request(d) PROVE request'[c] = "none"
        BY <2>1, <2>2 DEF Request, Register, RequestsCanceled, Finish, StartRequest, StopRequest,
                          Proceeds, StopGoesOn, StopDone, ProxyBegins, ProxyEnds, ProxyCut,
                          lifecycleVars
    <2>3. CASE Serve \/ Starting
        BY <2>3 DEF Serve, Starting, LockWorkspace, OpenStore, OpenProjects, Listen, Interrupted,
                    ServeEnds, Cleanup, ExecutionsClosed, CloseExecution, StopGoesOn,
                    JoinRequests, CloseProjects, CloseStore, CloseLock, lifecycleVars
    <2>4. ASSUME NEW i \in Invocations, Launches(i) PROVE request'[c] = "none"
        BY <2>4 DEF Launches, LauncherEnters, LauncherRefuses, WrapperSteps, lifecycleVars
    <2>5. CASE Interrupt \/ ShutdownBegins \/ ShutdownCloses \/ HTTPFails \/ UNCHANGED serverVars
        BY <2>5 DEF Interrupt, ShutdownBegins, ShutdownCloses, HTTPFails, serverVars,
                    lifecycleVars
    <2> QED
        BY <2>2, <2>3, <2>4, <2>5 DEF ServerNext, Ended
<1> QED
    BY <1>1, ServerInductive, PTL DEF ServerSpec, NoLateRequests
=============================================================================
