---------------------------- MODULE WrapperChild ----------------------------
(***************************************************************************)
(* One call of startWrapper (internal/server/wrapper.go) with the `ahh     *)
(* wrap` subprocess it starts (cmd/wrap.go, internal/wrapper as seen from  *)
(* outside) and the pipe between them.                                     *)
(*                                                                         *)
(* In the server: the launcher (startWrapper itself), the goroutine that   *)
(* reads the two lifecycle records, and the goroutine that waits for the   *)
(* process.  In the subprocess: setup, the startup record, serving, the    *)
(* exit record.  A record that a killed child wrote only in part decodes   *)
(* to an error, exactly like a missing one, and is modelled as missing.    *)
(* Timers may fire at any time.                                            *)
(***************************************************************************)
EXTENDS Sequences, Naturals

VARIABLES
    cancelled,   \* the context of exec.CommandContext is canceled
    launcher,    \* "spawn", "await", "shutdown", "join", "returned"
    setupFailed, \* the startup record reported a setup error
    ret,         \* "none", "ok" (p, nil), "clean" (nil, err), "uncertain" (p, err)
    child,       \* "none", "setup", "started", "serving", "exiting", "exited"
    harness,     \* "none", "alive", "gone"
    inherited,   \* some other process holds the write end of the pipe
    pipe,        \* records written and not yet read
    stdout,      \* the read end: "open", "closed"
    reader,      \* "startup", "result", "discard", "done" (readDone closed)
    startup,     \* the startup channel: "empty", "nil", "address", "error"
    result,      \* p.result is set
    waiter       \* "wait", "drain", "closing", "done" (p.done closed)

childVars  == <<child, harness, inherited>>
ioVars     == <<pipe, stdout, reader, startup, result>>
launchVars == <<launcher, setupFailed, ret>>
vars == <<cancelled, launchVars, childVars, ioVars, waiter>>

Init ==
    /\ cancelled = FALSE
    /\ launcher = "spawn"
    /\ setupFailed = FALSE
    /\ ret = "none"
    /\ child = "none"
    /\ harness = "none"
    /\ inherited \in BOOLEAN
    /\ pipe = <<>>
    /\ stdout = "open"
    /\ reader = "startup"
    /\ startup = "empty"
    /\ result = FALSE
    /\ waiter = "wait"

-----------------------------------------------------------------------------
(* The wrap subprocess *)

\* wrapper.Start failed: it released what it had set up, and wrap reports it.
ChildSetupFails ==
    /\ child = "setup"
    /\ pipe' = Append(pipe, "error")
    /\ child' = "exiting"
    /\ UNCHANGED <<cancelled, launchVars, harness, inherited, stdout, reader,
                   startup, result, waiter>>

HarnessStarts ==
    /\ child = "setup"
    /\ harness' = "alive"
    /\ child' = "started"
    /\ UNCHANGED <<cancelled, launchVars, inherited, ioVars, waiter>>

ChildReportsAddress ==
    /\ child = "started"
    /\ pipe' = Append(pipe, "address")
    /\ child' = "serving"
    /\ UNCHANGED <<cancelled, launchVars, harness, inherited, stdout, reader,
                   startup, result, waiter>>

\* The harness ends: by itself, stopped by its wrapper, or hung up after the
\* wrapper was killed.
HarnessExits ==
    /\ harness = "alive"
    /\ harness' = "gone"
    /\ UNCHANGED <<cancelled, launchVars, child, inherited, ioVars, waiter>>

\* server.Wait has joined the harness; without a serving or copy error wrap
\* writes the exit record.
ChildStops ==
    /\ child = "serving"
    /\ harness = "gone"
    /\ pipe' \in {pipe, Append(pipe, "exit")}
    /\ child' = "exiting"
    /\ UNCHANGED <<cancelled, launchVars, harness, inherited, stdout, reader,
                   startup, result, waiter>>

ChildExits ==
    /\ child = "exiting"
    /\ child' = "exited"
    /\ UNCHANGED <<cancelled, launchVars, harness, inherited, ioVars, waiter>>

\* WaitDelay or Shutdown's deadline kills the child, or something else does;
\* the harness is left to itself.
ChildKilled ==
    /\ child \in {"setup", "started", "serving", "exiting"}
    /\ child' = "exited"
    /\ UNCHANGED <<cancelled, launchVars, harness, inherited, ioVars, waiter>>

Child ==
    \/ ChildSetupFails
    \/ HarnessStarts
    \/ ChildReportsAddress
    \/ HarnessExits
    \/ ChildStops
    \/ ChildExits
    \/ ChildKilled

-----------------------------------------------------------------------------
(* The lifecycle output reader *)

EndOfOutput ==
    \/ stdout = "closed"
    \/ child = "exited" /\ ~inherited /\ pipe = <<>>

ReadStartup ==
    /\ reader = "startup"
    /\ \/ pipe # <<>> /\ startup' = Head(pipe) /\ pipe' = Tail(pipe)
       \/ EndOfOutput /\ startup' = "nil" /\ UNCHANGED pipe
    /\ reader' = "result"
    /\ UNCHANGED <<cancelled, launchVars, childVars, stdout, result, waiter>>

ReadResult_AnyRecord ==
    /\ reader = "result"
    /\ pipe # <<>> \/ EndOfOutput
    /\ result' = TRUE
    /\ reader' = "discard"
    /\ UNCHANGED <<cancelled, launchVars, childVars, pipe, stdout, startup, waiter>>
ReadResult ==
    /\ reader = "result"
    /\ \/ /\ pipe # <<>>
          /\ result' = (Head(pipe) = "exit")
          /\ pipe' = Tail(pipe)
       \/ EndOfOutput /\ UNCHANGED <<pipe, result>>
    /\ reader' = "discard"
    /\ UNCHANGED <<cancelled, launchVars, childVars, stdout, startup, waiter>>

DiscardOutput ==
    /\ reader = "discard"
    /\ EndOfOutput
    /\ reader' = "done"
    /\ UNCHANGED <<cancelled, launchVars, childVars, pipe, stdout, startup,
                   result, waiter>>

Reader == ReadStartup \/ ReadResult \/ DiscardOutput

-----------------------------------------------------------------------------
(* The goroutine that joins the process *)

ReapChild ==
    /\ waiter = "wait"
    /\ child = "exited"
    /\ waiter' = "drain"
    /\ UNCHANGED <<cancelled, launchVars, childVars, ioVars>>

\* The reader is done, or one second has passed; close the pipe either way.
DrainOutput_NoTimer ==
    /\ waiter = "drain"
    /\ IF reader = "done"
       THEN stdout' = "closed" /\ waiter' = "closing"
       ELSE UNCHANGED <<stdout, waiter>>
    /\ UNCHANGED <<cancelled, launchVars, childVars, pipe, reader, startup, result>>
DrainOutput ==
    /\ waiter = "drain"
    /\ stdout' = "closed"
    /\ waiter' = "closing"
    /\ UNCHANGED <<cancelled, launchVars, childVars, pipe, reader, startup, result>>

FinishWait ==
    /\ waiter = "closing"
    /\ reader = "done"
    /\ cancelled' = TRUE
    /\ waiter' = "done"
    /\ UNCHANGED <<launchVars, childVars, ioVars>>

Waiter == ReapChild \/ DrainOutput \/ FinishWait

-----------------------------------------------------------------------------
(* startWrapper *)

\* Pipe and process; a failure, or a context canceled already, leaves nothing.
SpawnFails ==
    /\ launcher = "spawn"
    /\ launcher' = "returned"
    /\ ret' = "clean"
    /\ cancelled' = TRUE
    /\ stdout' = "closed"
    /\ reader' = "done"   \* never started: there is nothing to join
    /\ UNCHANGED <<setupFailed, childVars, pipe, startup, result, waiter>>

Spawn ==
    /\ launcher = "spawn"
    /\ ~cancelled
    /\ child' = "setup"
    /\ launcher' = "await"
    /\ UNCHANGED <<cancelled, setupFailed, ret, harness, inherited, ioVars, waiter>>

\* case data := <-startup
ReceiveStartup_AnyFailure ==
    /\ launcher = "await"
    /\ startup # "empty"
    /\ IF startup = "address"
       THEN launcher' = "returned" /\ ret' = "ok" /\ UNCHANGED setupFailed
       ELSE launcher' = "shutdown" /\ setupFailed' = TRUE /\ UNCHANGED ret
    /\ UNCHANGED <<cancelled, childVars, ioVars, waiter>>
ReceiveStartup ==
    /\ launcher = "await"
    /\ startup # "empty"
    /\ IF startup = "address"
       THEN launcher' = "returned" /\ ret' = "ok" /\ UNCHANGED setupFailed
       ELSE /\ launcher' = "shutdown"
            /\ setupFailed' = (startup = "error")
            /\ UNCHANGED ret
    /\ UNCHANGED <<cancelled, childVars, ioVars, waiter>>

\* case <-ready.Done(): ten seconds have passed, or the launch is canceled.
ReadyTimeout_Never ==
    /\ launcher = "await"
    /\ cancelled
    /\ launcher' = "shutdown"
    /\ UNCHANGED <<cancelled, setupFailed, ret, childVars, ioVars, waiter>>
ReadyTimeout ==
    /\ launcher = "await"
    /\ launcher' = "shutdown"
    /\ UNCHANGED <<cancelled, setupFailed, ret, childVars, ioVars, waiter>>

\* p.Shutdown cancels the command; p.Wait joins it.
ShutdownChild ==
    /\ launcher = "shutdown"
    /\ cancelled' = TRUE
    /\ launcher' = "join"
    /\ UNCHANGED <<setupFailed, ret, childVars, ioVars, waiter>>

JoinChild_NoWait ==
    /\ launcher = "join"
    /\ launcher' = "returned"
    /\ ret' = IF setupFailed THEN "clean" ELSE "uncertain"
    /\ UNCHANGED <<cancelled, setupFailed, childVars, ioVars, waiter>>
JoinChild ==
    /\ launcher = "join"
    /\ waiter = "done"
    /\ launcher' = "returned"
    /\ ret' = IF setupFailed THEN "clean" ELSE "uncertain"
    /\ UNCHANGED <<cancelled, setupFailed, childVars, ioVars, waiter>>

Launching ==
    SpawnFails \/ Spawn \/ ReceiveStartup \/ ReadyTimeout \/ ShutdownChild \/ JoinChild

\* Stop, or a start that replaces this invocation, cancels the execution.
Cancel ==
    /\ ~cancelled
    /\ cancelled' = TRUE
    /\ UNCHANGED <<launchVars, childVars, ioVars, waiter>>

Finished ==
    /\ launcher = "returned"
    /\ child \in {"none", "exited"}
    /\ waiter = "done" \/ child = "none"
    /\ UNCHANGED vars

Next == Child \/ Reader \/ Waiter \/ Launching \/ Cancel \/ Finished

Spec == Init /\ [][Next]_vars

(***************************************************************************)
(* Goroutines run, timers fire, and a canceled command is killed after its *)
(* WaitDelay.  Nothing is assumed of the child: its setup may hang.        *)
(***************************************************************************)
Fairness ==
    /\ WF_vars(Reader)
    /\ WF_vars(Waiter)
    /\ WF_vars(Launching)
    /\ WF_vars(ChildKilled /\ cancelled)

FairSpec == Spec /\ Fairness

-----------------------------------------------------------------------------
(* Properties *)

\* Types: the record taken for the startup record is never an exit record,
\* and the child writes at most its two records.
TypeOK ==
    /\ cancelled \in BOOLEAN
    /\ launcher \in {"spawn", "await", "shutdown", "join", "returned"}
    /\ setupFailed \in BOOLEAN
    /\ ret \in {"none", "ok", "clean", "uncertain"}
    /\ child \in {"none", "setup", "started", "serving", "exiting", "exited"}
    /\ harness \in {"none", "alive", "gone"}
    /\ inherited \in BOOLEAN
    /\ pipe \in Seq({"address", "error", "exit"}) /\ Len(pipe) <= 2
    /\ stdout \in {"open", "closed"}
    /\ reader \in {"startup", "result", "discard", "done"}
    /\ startup \in {"empty", "nil", "address", "error"}
    /\ result \in BOOLEAN
    /\ waiter \in {"wait", "drain", "closing", "done"}

\* "On failure it stops the child and releases its output pipe" (startWrapper):
\* when an error is returned no child, reader or pipe is left.
FailureReleases ==
    ret \in {"clean", "uncertain"} =>
        child \in {"none", "exited"} /\ reader = "done" /\ stdout = "closed"

\* An exit report that was read proves that the harness is gone, however the
\* launch ended and whoever killed the child.
ReportVouchesForHarness == result => harness = "gone"

\* startWrapper and the subprocess keep the contract the manager relies on.
ReturnedProcess ==
    IF ret \in {"none", "clean"} THEN "nil"
    ELSE IF waiter = "done" THEN "done" ELSE "live"
Contract == INSTANCE Launcher
    WITH phase <- IF ret = "none" THEN "starting" ELSE "finished",
         failed <- ret \in {"clean", "uncertain"},
         process <- ReturnedProcess,
         result <- ReturnedProcess = "done" /\ result,
         harness <- harness
ImplementsLauncher == Contract!Spec

\* The launcher returns although the child may hang in its setup.
LauncherReturns == <>(launcher = "returned")

\* A canceled child is joined, even if its output pipe was inherited by a
\* process that keeps it open.
CancelJoins == cancelled /\ child # "none" ~> waiter = "done"
=============================================================================
