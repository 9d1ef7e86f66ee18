--------------------------- MODULE ServerLifecycle ---------------------------
(***************************************************************************)
(* One server process (internal/server/server.go, workspace_lock.go,       *)
(* proxy.go, cmd/serve.go) from its start to its end, composed with the    *)
(* ExecutionManager it owns.  The goroutines that call Stop there are the  *)
(* requests here; Close is called by the cleanup of serve, and a launcher  *)
(* refuses once requests are canceled.                                     *)
(*                                                                         *)
(* A request that is registered may use the store and the project manager  *)
(* at any time.  Another server may hold the workspace lock.  Timers may   *)
(* fire at any time; a crash is in Projects.                               *)
(***************************************************************************)
EXTENDS ExecutionManager

VARIABLES
    ctx,       \* the command's context is canceled (SIGINT, SIGTERM)
    stopped,   \* cancelRequests was called
    shutdown,  \* Server.Shutdown was called: connections are closed in the end
    http,      \* "unbound", "serving", "closed" (Serve returned)
    lock,      \* the workspace lock: "free", "ours", "rival"
    store,     \* "unopened", "open", "closed"
    projects,  \* the project manager: "unopened", "open", "closed"
    srv,       \* Start and serve: "lock", "store", "projects", "listen", "select",
               \* "closing", "cleanup", "executions", "requests", "closeProjects",
               \* "closeStore", "closeLock", "done"
    request,   \* of a caller: "none", "registered" (it reads the project),
               \* "proxying", "finishing" (it has made its one call)
    spawning   \* invocations whose launcher has gone on to startWrapper

resourceVars == <<lock, store, projects>>
stopVars     == <<ctx, stopped, shutdown, http>>
lifecycleVars == <<resourceVars, stopVars, srv, request, spawning>>
serverVars == <<vars, lifecycleVars>>

RequestsCanceled == ctx \/ stopped

ServerInit ==
    /\ Init
    /\ ctx = FALSE /\ stopped = FALSE /\ shutdown = FALSE /\ http = "unbound"
    /\ lock \in {"free", "rival"}
    /\ store = "unopened" /\ projects = "unopened"
    /\ srv = "lock"
    /\ request = [c \in Callers |-> "none"]
    /\ spawning = {}

-----------------------------------------------------------------------------
(* Start: each step may fail.  What was opened before is closed again, the   *)
(* lock last.                                                                *)

LockWorkspace ==
    /\ srv = "lock"
    /\ \/ /\ lock = "free" /\ ~ctx
          /\ lock' = "ours"
          /\ srv' = "store"
       \/ srv' = "done" /\ UNCHANGED lock
    /\ UNCHANGED <<vars, stopVars, store, projects, request, spawning>>

OpenStore ==
    /\ srv = "store"
    /\ \/ store' = "open" /\ srv' = "projects"
       \/ UNCHANGED store /\ srv' = "closeLock"
    /\ UNCHANGED <<vars, stopVars, lock, projects, request, spawning>>

OpenProjects ==
    /\ srv = "projects"
    /\ \/ ~ctx /\ projects' = "open" /\ srv' = "listen"
       \/ UNCHANGED projects /\ srv' = "closeStore"
    /\ UNCHANGED <<vars, stopVars, lock, store, request, spawning>>

Listen_LeakProjects ==
    /\ srv = "listen"
    /\ \/ http' = "serving" /\ srv' = "select"
       \/ UNCHANGED http /\ srv' = "closeStore"
    /\ UNCHANGED <<vars, resourceVars, ctx, stopped, shutdown, request, spawning>>
Listen ==
    /\ srv = "listen"
    /\ \/ http' = "serving" /\ srv' = "select"
       \/ UNCHANGED http /\ srv' = "closeProjects"
    /\ UNCHANGED <<vars, resourceVars, ctx, stopped, shutdown, request, spawning>>

Starting == LockWorkspace \/ OpenStore \/ OpenProjects \/ Listen

-----------------------------------------------------------------------------
(* Requests *)

\* trackRequests, one critical section of requestsMu.  A handler may get here
\* whatever has become of the HTTP server.
Register_NotChecked(c) ==
    /\ http # "unbound" /\ srv # "done"
    /\ request[c] = "none"
    /\ request' = [request EXCEPT ![c] = "registered"]
    /\ UNCHANGED <<vars, resourceVars, stopVars, srv, spawning>>
Register(c) ==
    /\ http # "unbound" /\ srv # "done"
    /\ request[c] = "none"
    /\ ~RequestsCanceled
    /\ request' = [request EXCEPT ![c] = "registered"]
    /\ UNCHANGED <<vars, resourceVars, stopVars, srv, spawning>>

Finish(c) ==
    /\ request[c] \in {"registered", "finishing"}
    /\ pc[c] = "idle"
    /\ request' = [request EXCEPT ![c] = "none"]
    /\ UNCHANGED <<vars, resourceVars, stopVars, srv, spawning>>

Proceeds(c, state) ==
    /\ request[c] = "registered"
    /\ request' = [request EXCEPT ![c] = state]
    /\ UNCHANGED <<resourceVars, stopVars, srv, spawning>>

\* startConversation; Start refuses a canceled request.
StartRequest(c) ==
    /\ Proceeds(c, "finishing")
    /\ ~RequestsCanceled
    /\ \E k \in Keys, i \in Invocations : Start(k, i)

\* deleteProject calls Stop, detached from the context of the request, and goes
\* on to delete the files and the record.
StopRequest(c) ==
    /\ Proceeds(c, "finishing")
    /\ \E k \in Keys : StopEnter(c, k)

StopGoesOn(a) == StopSteps(a) /\ UNCHANGED lifecycleVars

StopDone(c) == CallerContinues(c) /\ UNCHANGED lifecycleVars

\* serveProjectTerminal proxies to a live wrapper.
ProxyBegins(c) ==
    /\ Proceeds(c, "proxying")
    /\ \E k \in Keys : current[k] # None /\ process[current[k]] = "live"
    /\ UNCHANGED vars

\* The browser or the wrapper closes its side.  A browser that stops reading
\* keeps the proxy from noticing that the wrapper has ended.
ProxyEnds(c) ==
    /\ request[c] = "proxying"
    /\ request' = [request EXCEPT ![c] = "finishing"]
    /\ UNCHANGED <<vars, resourceVars, stopVars, srv, spawning>>

\* context.AfterFunc closes the hijacked connection of a canceled request.
ProxyCut_Never(c) == RequestsCanceled /\ srv = "select" /\ ProxyEnds(c)
ProxyCut(c) == RequestsCanceled /\ ProxyEnds(c)

Request(c) ==
    \/ Register(c) \/ Finish(c)
    \/ StartRequest(c)
    \/ StopRequest(c) \/ StopGoesOn(c) \/ StopDone(c)
    \/ ProxyBegins(c) \/ ProxyEnds(c) \/ ProxyCut(c)

-----------------------------------------------------------------------------
(* Launches *)

\* The launcher asks once whether requests are canceled before it spawns.
LauncherEnters(i) ==
    /\ launch[i] = "starting" /\ i \notin spawning
    /\ ~RequestsCanceled
    /\ spawning' = spawning \cup {i}
    /\ UNCHANGED <<vars, resourceVars, stopVars, srv, request>>

LauncherRefuses(i) ==
    /\ launch[i] = "starting" /\ i \notin spawning
    /\ RequestsCanceled
    /\ LaunchFailsCleanly(i)
    /\ UNCHANGED lifecycleVars

WrapperSteps(i) ==
    /\ i \in spawning
    /\ HarnessUp(i) \/ HarnessExit(i) \/ LaunchEnds(i) \/ ProcessExit(i)
    /\ UNCHANGED lifecycleVars

Launches(i) == LauncherEnters(i) \/ LauncherRefuses(i) \/ WrapperSteps(i)

-----------------------------------------------------------------------------
(* Shutdown and serve *)

Interrupt ==
    /\ ~ctx /\ srv # "done"
    /\ ctx' = TRUE
    /\ UNCHANGED <<vars, resourceVars, stopped, shutdown, http, srv, request, spawning>>

\* Server.Shutdown, called by runServeCommand when it cannot report its address:
\* stopRequests, then http.Shutdown and, after five seconds, Close.
ShutdownBegins ==
    /\ http # "unbound" /\ srv # "done" /\ ~shutdown
    /\ stopped' = TRUE /\ shutdown' = TRUE
    /\ UNCHANGED <<vars, resourceVars, ctx, http, srv, request, spawning>>

ShutdownCloses ==
    /\ http = "serving" /\ shutdown
    /\ http' = "closed"
    /\ UNCHANGED <<vars, resourceVars, ctx, stopped, shutdown, srv, request, spawning>>

\* Serve returns an error; connections stay as they are.
HTTPFails ==
    /\ http = "serving"
    /\ http' = "closed"
    /\ UNCHANGED <<vars, resourceVars, ctx, stopped, shutdown, srv, request, spawning>>

\* case <-ctx.Done(): serve calls Shutdown itself.
Interrupted ==
    /\ srv = "select"
    /\ ctx
    /\ stopped' = TRUE /\ shutdown' = TRUE
    /\ srv' = "closing"
    /\ UNCHANGED <<vars, resourceVars, ctx, http, request, spawning>>

\* serveErr
ServeEnds ==
    /\ srv \in {"select", "closing"}
    /\ http # "serving"
    /\ srv' = "cleanup"
    /\ UNCHANGED <<vars, resourceVars, stopVars, request, spawning>>

\* The deferred cleanup: stopRequests, then executions.Close.
Cleanup ==
    /\ srv = "cleanup"
    /\ stopped' = TRUE
    /\ CloseBegins
    /\ srv' = "executions"
    /\ UNCHANGED <<resourceVars, ctx, shutdown, http, request, spawning>>

CloseExecution(k) == CloseJob(k) /\ UNCHANGED lifecycleVars

ExecutionsClosed_NotJoined ==
    /\ srv = "executions"
    /\ srv' = "requests"
    /\ UNCHANGED <<vars, resourceVars, stopVars, request, spawning>>
ExecutionsClosed ==
    /\ srv = "executions"
    /\ CloseEnds
    /\ srv' = "requests"
    /\ UNCHANGED <<resourceVars, stopVars, request, spawning>>

\* requests.Wait
JoinRequests ==
    /\ srv = "requests"
    /\ \A c \in Callers : request[c] = "none"
    /\ srv' = "closeProjects"
    /\ UNCHANGED <<vars, resourceVars, stopVars, request, spawning>>

CloseProjects ==
    /\ srv = "closeProjects"
    /\ projects' = "closed"
    /\ srv' = "closeStore"
    /\ UNCHANGED <<vars, stopVars, lock, store, request, spawning>>

CloseStore ==
    /\ srv = "closeStore"
    /\ store' = "closed"
    /\ srv' = "closeLock"
    /\ UNCHANGED <<vars, stopVars, lock, projects, request, spawning>>

CloseLock ==
    /\ srv = "closeLock"
    /\ lock' = "free"
    /\ srv' = "done"
    /\ UNCHANGED <<vars, stopVars, store, projects, request, spawning>>

Serve ==
    \/ Interrupted \/ ServeEnds \/ Cleanup \/ ExecutionsClosed
    \/ (\E k \in Keys : CloseExecution(k) \/ StopGoesOn(k))
    \/ JoinRequests \/ CloseProjects \/ CloseStore \/ CloseLock

\* The server has ended.
Ended == srv = "done" /\ UNCHANGED serverVars

ServerNext ==
    \/ Starting \/ Serve
    \/ \E c \in Callers : Request(c)
    \/ \E i \in Invocations : Launches(i)
    \/ Interrupt \/ ShutdownBegins \/ ShutdownCloses \/ HTTPFails \/ Ended

ServerSpec == ServerInit /\ [][ServerNext]_serverVars

\* A registered request reads a body and writes an answer without any deadline, so
\* only a closed connection is sure to end that.  Once it has made its call it writes
\* a small answer, which waits for nobody.
ConnectionAwaited(c) == request[c] = "registered" /\ ~shutdown

(***************************************************************************)
(* Goroutines run and timers fire.  A launch ends, a canceled wrapper is   *)
(* killed after its WaitDelay (WrapperChild: LauncherReturns, CancelJoins).*)
(* A request that is not kept by its client goes on: store calls return    *)
(* and Stop does (StopReturns).  A proxied terminal is only sure to end    *)
(* when it is cut.  Nothing is assumed of clients and of wrappers nobody   *)
(* cancels.                                                                *)
(***************************************************************************)
ServerFairness ==
    /\ WF_serverVars(Starting)
    /\ WF_serverVars(Serve)
    /\ WF_serverVars(ShutdownCloses)
    /\ \A k \in Keys : WF_serverVars(CloseExecution(k)) /\ WF_serverVars(StopGoesOn(k))
    /\ \A c \in Callers :
         /\ WF_serverVars(Finish(c) /\ ~ConnectionAwaited(c))
         /\ WF_serverVars(StopGoesOn(c))
         /\ WF_serverVars(StopDone(c))
         /\ WF_serverVars(ProxyCut(c))
    /\ \A i \in Invocations :
         /\ WF_serverVars(LauncherEnters(i) \/ LauncherRefuses(i))
         /\ WF_serverVars(WrapperSteps(i) /\ LaunchEnds(i))
         /\ WF_serverVars(WrapperSteps(i) /\ ProcessExit(i) /\ cancelled[i])

FairServerSpec == ServerSpec /\ ServerFairness

-----------------------------------------------------------------------------
(* Properties *)

\* Types of the server's own state; a request is counted as long as it is in Stop,
\* and a launcher only spawns for an execution that was registered.
ServerTypeOK ==
    /\ {ctx, stopped, shutdown} \subseteq BOOLEAN
    /\ http \in {"unbound", "serving", "closed"}
    /\ lock \in {"free", "ours", "rival"}
    /\ {store, projects} \subseteq {"unopened", "open", "closed"}
    /\ srv \in {"lock", "store", "projects", "listen", "select", "closing", "cleanup",
                "executions", "requests", "closeProjects", "closeStore", "closeLock", "done"}
    /\ request \in [Callers -> {"none", "registered", "proxying", "finishing"}]
    /\ spawning \subseteq {i \in Invocations : launch[i] # "unused"}
    /\ \A c \in Callers : pc[c] # "idle" => request[c] = "finishing"

\* "Even a forced HTTP shutdown leaves storage open until requests finish"
\* (trackRequests): whoever shuts down first, a registered request finds the
\* store and the project manager open and the workspace its own.
RequestsFindStorage ==
    (\E c \in Callers : request[c] # "none") =>
        store = "open" /\ projects = "open" /\ lock = "ours"

\* "Close the returned file only after all workspace users have stopped"
\* (lockWorkspace): a server without the lock has no storage open and no launch
\* or wrapper left, and no harness either unless Close reported one unconfirmed.
LockOutlivesUse ==
    lock # "ours" =>
        /\ store # "open" /\ projects # "open"
        /\ \A i \in Invocations : launch[i] # "starting" /\ process[i] # "live"
        /\ (\A k \in Registered : outcome[k] = "ok") =>
               \A i \in Invocations : harness[i] # "alive"

\* "Failed startup releases all resources" and "Workspace ownership is released
\* before Wait returns" (Start), however far the start or the service got.
EndReleases ==
    srv = "done" => lock # "ours" /\ store # "open" /\ projects # "open" /\ http # "serving"

\* "The mutex prevents registration after shutdown starts" (trackRequests): no
\* request is added to those requests.Wait awaits.
NoLateRequests ==
    [][srv = "requests" =>
         \A c \in Callers : request[c] = "none" => request'[c] = "none"]_serverVars

\* "Wait joins serving, handlers, and wrapper cleanup": a server that is told to stop
\* ends, with requests in progress, launches it has just begun and clients that send
\* and read nothing.  Only a server whose listener has failed by itself, and which
\* nobody shuts down, may wait for ever, and then for a client: serve has closed
\* its executions, but no connection.
AwaitsClient ==
    srv = "requests" /\ ~shutdown /\ \E c \in Callers : request[c] = "registered"
ServerStops == (ctx \/ stopped \/ http = "closed") ~> (srv = "done" \/ []AwaitsClient)
=============================================================================
