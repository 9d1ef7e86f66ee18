---------------------------- MODULE WrapperServer ----------------------------
(***************************************************************************)
(* The inside of the `ahh wrap` subprocess: wrapper.Server with the        *)
(* goroutines of serve, copyHarnessOutput and the PTY WebSocket handlers   *)
(* (internal/wrapper), around one HarnessProcess and under runWrapCommand  *)
(* (cmd/wrap.go).                                                          *)
(*                                                                         *)
(* A handler serves one connection after another.  Flow control and replay *)
(* are in Terminal; here a stream may end at any time, and has to end once *)
(* it is canceled or the terminal is finished.  Timers may fire at any     *)
(* time.                                                                   *)
(***************************************************************************)
EXTENDS HarnessProcess, Sequences

CONSTANT Handlers

VARIABLES
    ctx,      \* the command's context is canceled (SIGINT, SIGTERM)
    stopped,  \* cancelSockets was called
    draining, \* Server.draining
    http,     \* "serving", "closed" (Shutdown or Close), "failed" (Serve returned)
    main,     \* serve: "none", "select", "closing", "drain", "drainStopped",
              \* "stopping", "cleanup", "shutdown", "join", "joinSockets", "done"
    output,   \* copyHarnessOutput and its goroutine: "wait", "drain", "cut",
              \* "join", "release", "publish", "done" (harnessDone closed)
    timedOut, \* the final drain was cut by its timer
    reader,   \* the goroutine in io.Copy: "reading", "failed", "done"
    copyErr,  \* io.Copy returned an error
    handler,  \* "none", "registered", "streaming", "closing", "gone"
    input,    \* readInput of a handler: "idle", "queued" (for inputMu),
              \* "writing" (inputMu held), "ended"
    wrap,     \* runWrapCommand: "setup", "report", "serving", "shutdown", "join",
              \* "exiting", "exited"
    records   \* lifecycle records written to stdout

serverVars  == <<stopped, draining, http, main>>
outputVars  == <<output, timedOut>>
readerVars  == <<reader, copyErr>>
handlerVars == <<handler, input>>
wrapVars    == <<wrap, records>>
vars == <<processVars, ctx, serverVars, outputVars, readerVars, handlerVars, wrapVars>>

Init ==
    /\ ProcessInit
    /\ ctx = FALSE /\ stopped = FALSE /\ draining = FALSE
    /\ http = "serving"
    /\ main = "none"
    /\ output = "wait" /\ timedOut = FALSE
    /\ reader = "reading" /\ copyErr = FALSE
    /\ handler = [h \in Handlers |-> "none"]
    /\ input = [h \in Handlers |-> "idle"]
    /\ wrap = "setup" /\ records = <<>>

-----------------------------------------------------------------------------
(* wrapper.Start and runWrapCommand *)

\* Start released the listener, and the command reports the error.
SetupFails ==
    /\ wrap = "setup"
    /\ wrap' = "exiting"
    /\ records' = <<"error">>
    /\ UNCHANGED <<processVars, ctx, serverVars, outputVars, readerVars, handlerVars>>

Started ==
    /\ wrap = "setup"
    /\ ~ctx
    /\ ProcessStart
    /\ main' = "select"
    /\ wrap' = "report"
    /\ UNCHANGED <<ctx, stopped, draining, http, outputVars, readerVars,
                   handlerVars, records>>

\* Standard output or standard error may be closed.
ReportStartup ==
    /\ wrap = "report"
    /\ \/ wrap' = "shutdown" /\ records' \in {<<>>, <<"address">>}
       \/ wrap' = "serving" /\ records' = <<"address">>
    /\ UNCHANGED <<processVars, ctx, serverVars, outputVars, readerVars, handlerVars>>

\* server.Wait returns s.err, or nil and then the exit record is written.
ReportExit_Unjoined ==
    /\ wrap = "serving"
    /\ main \in {"cleanup", "done"}
    /\ wrap' = "shutdown"
    /\ \/ UNCHANGED records
       \/ ~copyErr /\ http # "failed" /\ records' = Append(records, "exit")
    /\ UNCHANGED <<processVars, ctx, serverVars, outputVars, readerVars, handlerVars>>
ReportExit ==
    /\ wrap = "serving"
    /\ main = "done"
    /\ wrap' = "shutdown"
    /\ \/ UNCHANGED records
       \/ ~copyErr /\ http # "failed" /\ records' = Append(records, "exit")
    /\ UNCHANGED <<processVars, ctx, serverVars, outputVars, readerVars, handlerVars>>

\* The deferred server.Shutdown and server.Wait.
ShutdownServer ==
    /\ wrap = "shutdown"
    /\ stopped' = TRUE
    /\ http' = IF http = "serving" THEN "closed" ELSE http
    /\ wrap' = "join"
    /\ UNCHANGED <<processVars, ctx, draining, main, outputVars, readerVars,
                   handlerVars, records>>

Exit ==
    /\ wrap = "exiting" \/ (wrap = "join" /\ main = "done")
    /\ wrap' = "exited"
    /\ UNCHANGED <<processVars, ctx, serverVars, outputVars, readerVars,
                   handlerVars, records>>

Wrap == SetupFails \/ Started \/ ReportStartup \/ ReportExit \/ ShutdownServer \/ Exit

\* A signal cancels the context, and with it those derived from it.
Interrupt ==
    /\ ~ctx
    /\ wrap # "exited"
    /\ ctx' = TRUE
    /\ canceled' = TRUE
    /\ UNCHANGED <<leaderVars, ttyVars, run, serverVars, outputVars, readerVars,
                   handlerVars, wrapVars>>

-----------------------------------------------------------------------------
(* copyHarnessOutput *)

ReadOutput ==
    /\ main # "none" /\ reader = "reading"
    /\ \/ ReadData /\ UNCHANGED reader
       \/ EndOfFile /\ reader' = "done" /\ UNCHANGED processVars
    /\ UNCHANGED <<ctx, serverVars, outputVars, copyErr, handlerVars, wrapVars>>

\* Reading or writing fails: the harness must not run on without a reader.
CopyFails ==
    /\ main # "none" /\ reader = "reading"
    /\ ShutdownBegins
    /\ reader' = "failed"
    /\ copyErr' = TRUE
    /\ UNCHANGED <<ctx, serverVars, outputVars, handlerVars, wrapVars>>

CopyFailed ==
    /\ reader = "failed"
    /\ ShutdownEnds
    /\ reader' = "done"
    /\ UNCHANGED <<ctx, serverVars, outputVars, copyErr, handlerVars, wrapVars>>

Reader == ReadOutput \/ CopyFailed

HarnessJoined ==
    /\ output = "wait"
    /\ run = "done"
    /\ output' = "drain"
    /\ UNCHANGED <<processVars, ctx, serverVars, timedOut, readerVars,
                   handlerVars, wrapVars>>

Drained ==
    /\ output \in {"drain", "join"}
    /\ reader = "done"
    /\ output' = "release"
    /\ UNCHANGED <<processVars, ctx, serverVars, timedOut, readerVars,
                   handlerVars, wrapVars>>

\* case <-time.After(250 * time.Millisecond)
CutDrain_Never ==
    /\ output = "drain"
    /\ reader = "done"
    /\ ShutdownBegins
    /\ output' = "cut"
    /\ timedOut' = TRUE
    /\ UNCHANGED <<ctx, serverVars, readerVars, handlerVars, wrapVars>>
CutDrain ==
    /\ output = "drain"
    /\ ShutdownBegins
    /\ output' = "cut"
    /\ timedOut' = TRUE
    /\ UNCHANGED <<ctx, serverVars, readerVars, handlerVars, wrapVars>>

DrainCut ==
    /\ output = "cut"
    /\ ShutdownEnds
    /\ output' = "join"
    /\ UNCHANGED <<ctx, serverVars, timedOut, readerVars, handlerVars, wrapVars>>

\* The deferred shutdown, which finds done closed, then terminal.finish.
Release ==
    /\ output = "release"
    /\ ShutdownEnds
    /\ output' = "publish"
    /\ UNCHANGED <<ctx, serverVars, timedOut, readerVars, handlerVars, wrapVars>>

\* harnessErr, harnessDone and outputDone
PublishExit ==
    /\ output = "publish"
    /\ run = "done"
    /\ output' = "done"
    /\ UNCHANGED <<processVars, ctx, serverVars, timedOut, readerVars,
                   handlerVars, wrapVars>>

Output ==
    HarnessJoined \/ Drained \/ CutDrain \/ DrainCut \/ Release \/ PublishExit

Finished == output \in {"publish", "done"}

-----------------------------------------------------------------------------
(* The WebSocket handlers *)

Attached == {h \in Handlers : handler[h] # "none"}

SocketsStopped == ctx \/ stopped

Canceled(h) == SocketsStopped \/ handler[h] = "closing"

\* One critical section of socketsMu; a request that is refused leaves no trace.
\* It may have been accepted long ago: no state of the HTTP server keeps it away.
Register_NotDraining(h) ==
    /\ main # "none" /\ wrap # "exited"
    /\ handler[h] = "none"
    /\ ~SocketsStopped
    /\ handler' = [handler EXCEPT ![h] = "registered"]
    /\ UNCHANGED <<processVars, ctx, serverVars, outputVars, readerVars, input, wrapVars>>
Register(h) ==
    /\ main # "none" /\ wrap # "exited"
    /\ handler[h] = "none"
    /\ ~SocketsStopped /\ ~draining
    /\ handler' = [handler EXCEPT ![h] = "registered"]
    /\ UNCHANGED <<processVars, ctx, serverVars, outputVars, readerVars, input, wrapVars>>

\* Cursor, attach, Accept and the replay message; any of them may fail.
Open(h) ==
    /\ handler[h] = "registered"
    /\ \/ handler' = [handler EXCEPT ![h] = "none"] /\ UNCHANGED input
       \/ /\ handler' = [handler EXCEPT ![h] = "streaming"]
          /\ input' = [input EXCEPT ![h] = "idle"]
    /\ UNCHANGED <<processVars, ctx, serverVars, outputVars, readerVars, wrapVars>>

\* The first of sendOutput, readInput and heartbeat returned: cancel the others.
StreamEnds(h) ==
    /\ handler[h] = "streaming"
    /\ handler' = [handler EXCEPT ![h] = "closing"]
    /\ UNCHANGED <<processVars, ctx, serverVars, outputVars, readerVars, input, wrapVars>>

\* All three are joined, then the deferred calls run.
Leave(h) ==
    /\ handler[h] = "closing"
    /\ input[h] = "ended"
    /\ handler' = [handler EXCEPT ![h] = "none"]
    /\ UNCHANGED <<processVars, ctx, serverVars, outputVars, readerVars, input, wrapVars>>

\* readInput returns an error, which ends the stream if nothing else has.
InputEnds(h) ==
    /\ input' = [input EXCEPT ![h] = "ended"]
    /\ handler' = [handler EXCEPT ![h] = "closing"]

\* readInput got a command from the connection.
ReadInput(h) ==
    /\ handler[h] \in {"streaming", "closing"}
    /\ input[h] = "idle"
    /\ input' = [input EXCEPT ![h] = "queued"]
    /\ UNCHANGED <<processVars, ctx, serverVars, outputVars, readerVars, handler, wrapVars>>

\* It returns: the connection ended or it was canceled.
ReadFails(h) ==
    /\ handler[h] \in {"streaming", "closing"}
    /\ input[h] = "idle"
    /\ InputEnds(h)
    /\ UNCHANGED <<processVars, ctx, serverVars, outputVars, readerVars, wrapVars>>

\* applyInput under inputMu: a command whose handler was canceled is skipped.
LockInput_Unchecked(h) ==
    /\ input[h] = "queued"
    /\ \A other \in Handlers : input[other] # "writing"
    /\ input' = [input EXCEPT ![h] = "writing"]
    /\ UNCHANGED <<processVars, ctx, serverVars, outputVars, readerVars, handler, wrapVars>>
LockInput(h) ==
    /\ input[h] = "queued"
    /\ \A other \in Handlers : input[other] # "writing"
    /\ IF Canceled(h)
       THEN InputEnds(h)
       ELSE input' = [input EXCEPT ![h] = "writing"] /\ UNCHANGED handler
    /\ UNCHANGED <<processVars, ctx, serverVars, outputVars, readerVars, wrapVars>>

\* Process.Write has a deadline; Resize does not block.  Both, and an invalid
\* command, may return an error, and have to once the terminal is closed.
WriteEnds(h) ==
    /\ input[h] = "writing"
    /\ \/ pty /\ input' = [input EXCEPT ![h] = "idle"] /\ UNCHANGED handler
       \/ InputEnds(h)
    /\ UNCHANGED <<processVars, ctx, serverVars, outputVars, readerVars, wrapVars>>

Handler(h) ==
    \/ Register(h) \/ Open(h) \/ StreamEnds(h) \/ Leave(h)
    \/ ReadInput(h) \/ ReadFails(h) \/ LockInput(h) \/ WriteEnds(h)

-----------------------------------------------------------------------------
(* Server.serve *)

HTTPFails ==
    /\ main # "none" /\ http = "serving"
    /\ http' = "failed"
    /\ UNCHANGED <<processVars, ctx, stopped, draining, main, outputVars,
                   readerVars, handlerVars, wrapVars>>

\* case err = <-serveErr
ServeEnded ==
    /\ main = "select"
    /\ http # "serving"
    /\ main' = "cleanup"
    /\ UNCHANGED <<processVars, ctx, stopped, draining, http, outputVars,
                   readerVars, handlerVars, wrapVars>>

\* case <-s.harnessDone
HarnessEnded ==
    /\ main = "select"
    /\ output = "done"
    /\ draining' = TRUE
    /\ main' = "closing"
    /\ UNCHANGED <<processVars, ctx, stopped, http, outputVars, readerVars,
                   handlerVars, wrapVars>>

\* http.Shutdown, and Close when its time is over
CloseHTTP ==
    /\ main = "closing"
    /\ http' = IF http = "serving" THEN "closed" ELSE http
    /\ main' = "drain"
    /\ UNCHANGED <<processVars, ctx, stopped, draining, outputVars, readerVars,
                   handlerVars, wrapVars>>

\* case <-shutdown.Done(), or <-ctx.Done()
StopDrain ==
    /\ main = "drain"
    /\ stopped' = TRUE
    /\ main' = "drainStopped"
    /\ UNCHANGED <<processVars, ctx, draining, http, outputVars, readerVars,
                   handlerVars, wrapVars>>

\* <-drained, then <-serveErr
SocketsDrained ==
    /\ main \in {"drain", "drainStopped"}
    /\ Attached = {}
    /\ main' = "cleanup"
    /\ UNCHANGED <<processVars, ctx, stopped, draining, http, outputVars,
                   readerVars, handlerVars, wrapVars>>

\* case <-ctx.Done(): Shutdown stops the sockets and then the HTTP server.
StopSockets ==
    /\ main = "select"
    /\ ctx
    /\ stopped' = TRUE
    /\ main' = "stopping"
    /\ UNCHANGED <<processVars, ctx, draining, http, outputVars, readerVars,
                   handlerVars, wrapVars>>

StopHTTP ==
    /\ main = "stopping"
    /\ http' = IF http = "serving" THEN "closed" ELSE http
    /\ main' = "cleanup"
    /\ UNCHANGED <<processVars, ctx, stopped, draining, outputVars, readerVars,
                   handlerVars, wrapVars>>

\* The deferred cleanup.
Cleanup_SocketsLeft ==
    /\ main = "cleanup"
    /\ ShutdownBegins
    /\ main' = "shutdown"
    /\ UNCHANGED <<ctx, stopped, draining, http, outputVars, readerVars,
                   handlerVars, wrapVars>>
Cleanup ==
    /\ main = "cleanup"
    /\ stopped' = TRUE
    /\ ShutdownBegins
    /\ main' = "shutdown"
    /\ UNCHANGED <<ctx, draining, http, outputVars, readerVars, handlerVars, wrapVars>>

ShutdownHarness ==
    /\ main = "shutdown"
    /\ ShutdownEnds
    /\ main' = "join"
    /\ UNCHANGED <<ctx, stopped, draining, http, outputVars, readerVars,
                   handlerVars, wrapVars>>

\* harness.Wait and <-outputDone
JoinOutput ==
    /\ main = "join"
    /\ run = "done" /\ output = "done"
    /\ main' = "joinSockets"
    /\ UNCHANGED <<processVars, ctx, stopped, draining, http, outputVars,
                   readerVars, handlerVars, wrapVars>>

JoinSockets ==
    /\ main = "joinSockets"
    /\ Attached = {}
    /\ main' = "done"
    /\ UNCHANGED <<processVars, ctx, stopped, draining, http, outputVars,
                   readerVars, handlerVars, wrapVars>>

Serve ==
    \/ ServeEnded \/ HarnessEnded \/ CloseHTTP \/ StopDrain \/ SocketsDrained
    \/ StopSockets \/ StopHTTP \/ Cleanup \/ ShutdownHarness \/ JoinOutput
    \/ JoinSockets

Harness == (Processes \/ Run) /\ UNCHANGED <<ctx, serverVars, outputVars, readerVars,
                                             handlerVars, wrapVars>>

\* The subprocess has exited.
Terminated == wrap = "exited" /\ UNCHANGED vars

Next ==
    \/ Wrap \/ Interrupt \/ Reader \/ CopyFails \/ Output \/ Serve \/ HTTPFails
    \/ Harness \/ (\E h \in Handlers : Handler(h)) \/ Terminated

Spec == Init /\ [][Next]_vars

(***************************************************************************)
(* Goroutines run and timers fire.  A canceled harness is killed after its *)
(* WaitDelay; one that nobody cancels may run for ever.  Streams end when  *)
(* they are canceled or when the terminal is finished (every write to a    *)
(* browser has a timeout).  Writes to the PTY have a deadline, so inputMu  *)
(* is free again and again: locking it needs strong fairness.              *)
(***************************************************************************)
Fairness ==
    /\ WF_vars(Wrap)
    /\ WF_vars(Reader)
    /\ WF_vars(Output)
    /\ WF_vars(Serve)
    /\ WF_vars(Harness /\ Run)
    /\ WF_vars(Harness /\ LeaderExits /\ canceled)
    /\ \A h \in Handlers :
         /\ WF_vars(Open(h))
         /\ WF_vars(StreamEnds(h) /\ (Canceled(h) \/ Finished))
         /\ WF_vars(Leave(h))
         /\ WF_vars((ReadInput(h) \/ ReadFails(h)) /\ Canceled(h))
         /\ SF_vars(LockInput(h))
         /\ WF_vars(WriteEnds(h))

FairSpec == Spec /\ Fairness

-----------------------------------------------------------------------------
(* Properties *)

\* Types, and the goroutine of serve is only ever where its command can be.
TypeOK ==
    /\ ProcessTypeOK
    /\ ctx \in BOOLEAN /\ stopped \in BOOLEAN /\ draining \in BOOLEAN
    /\ http \in {"serving", "closed", "failed"}
    /\ main \in {"none", "select", "closing", "drain", "drainStopped", "stopping",
                 "cleanup", "shutdown", "join", "joinSockets", "done"}
    /\ output \in {"wait", "drain", "cut", "join", "release", "publish", "done"}
    /\ timedOut \in BOOLEAN
    /\ reader \in {"reading", "failed", "done"}
    /\ copyErr \in BOOLEAN
    /\ handler \in [Handlers -> {"none", "registered", "streaming", "closing"}]
    /\ input \in [Handlers -> {"idle", "queued", "writing", "ended"}]
    /\ wrap \in {"setup", "report", "serving", "shutdown", "join", "exiting", "exited"}
    /\ records \in {<<>>, <<"error">>, <<"address">>, <<"address", "exit">>}

\* "Wait blocks until the server, harness, output reader, and WebSocket handlers
\* stop" (Server.Wait): on every path, whoever failed first, the harness and its
\* group are gone, the terminal is closed and no goroutine is left.
WaitMeansStopped ==
    main = "done" =>
        /\ leader = "reaped" /\ ~group /\ ~pty
        /\ http # "serving"
        /\ reader = "done" /\ output = "done"
        /\ \A h \in Handlers : handler[h] = "none" /\ input[h] # "writing"

\* "Prevents new handlers from starting during shutdown" (socketsMu): while some
\* goroutine awaits the handlers none is added, on the drain, cancel and error paths.
SocketsAwaited == main \in {"drain", "drainStopped", "joinSockets"}
NoLateRegistration == [][SocketsAwaited => Attached' \subseteq Attached]_vars

\* "Close queues after the last output has been saved" (serve): when the harness
\* ends by itself, all it wrote is saved before the terminal is finished, unless
\* the bounded drain ran out because someone still holds the slave.
FinishLosesNothing ==
    [][Finished' /\ ~Finished =>
         consumed = produced \/ timedOut \/ copyErr \/ SocketsStopped]_vars

\* The harness gets the commands of attached connections, one at a time; one that
\* waited for inputMu while its handler was canceled is skipped (applyInput).
InputSerialized ==
    [][\A h \in Handlers :
         input[h] # "writing" /\ input'[h] = "writing" =>
             /\ h \in Attached /\ ~Canceled(h)
             /\ \A other \in Handlers \ {h} : input'[other] # "writing"]_vars

\* Seen through its standard output and its harness, the subprocess does what
\* WrapperChild lets a child do: the exit record vouches for a harness reaped.
ChildPhase ==
    CASE wrap = "setup"   -> "setup"
      [] wrap = "report"  -> "started"
      [] wrap = "serving" -> "serving"
      [] wrap \in {"shutdown", "join"} ->
            CASE records = <<>> -> "started"
              [] records = <<"address">> -> "serving"
              [] OTHER -> "exiting"
      [] OTHER -> wrap
Seen == INSTANCE WrapperChild
    WITH cancelled <- FALSE, launcher <- "await", setupFailed <- FALSE, ret <- "none",
         child <- ChildPhase,
         harness <- IF leader = "none" THEN "none"
                    ELSE IF leader = "reaped" THEN "gone" ELSE "alive",
         inherited <- FALSE, pipe <- records, stdout <- "open", reader <- "startup",
         startup <- "empty", result <- FALSE, waiter <- "wait"
FollowsWrapperChild == [][Seen!Child]_<<ChildPhase, records, leader = "reaped">>

\* Whatever ends first (a signal, the harness, the HTTP server, the copying of
\* output), the subprocess ends, though a process may hold the slave for ever.
EndsWhenAsked ==
    (ctx \/ http # "serving" \/ copyErr \/ leader = "exited") ~> wrap = "exited"
=============================================================================
