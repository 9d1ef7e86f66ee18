# A verification model of `ahh`

`ahh` serves coding-agent terminals to browsers. One server process owns a
workspace of projects; for each project it runs at most one *conversation*: an
`ahh wrap` subprocess that owns a PTY with the harness (codex), keeps the recent
output and serves it over a WebSocket, which the server proxies to the browser.

This directory holds TLA+ modules translated from the source, the TLC
configurations that check them on small instances, and proofs for every instance
that TLAPS checks. `PROJECT.json` maps each definition to the lines it stands for.

## The system

| Part | Source | State | Operations | Hard behaviour |
|---|---|---|---|---|
| execution manager | `internal/server/execution_manager.go` | one `executionState` per conversation key; `closed` | Start, launch goroutine, Status, Process, Stop, Close | everything interleaves between critical sections of one mutex; a stop may have to await a launch; exits may be unconfirmed |
| wrapper launcher | `internal/server/wrapper.go`, `cmd/wrap.go` | a command, its context, a pipe with two records, two goroutines | startWrapper, Wait, Shutdown | kill at any time, late or missing records, inherited stdout, timers |
| project handlers | `internal/server/projects.go`, `conversations.go` | one mutex per project ID | create, rename, delete, start | locks held over store, files and processes; create holds none |
| local manager | `internal/project/local` | directories | Create (with rollback), Rename, Delete | half-done file operations, writes that may have been committed |
| store | `internal/store/sqlite` | one row per project | Get, List, Insert, Update, Delete | compare-and-swap; errors after the commit |
| terminal buffer | `internal/wrapper/terminal.go` | history, `nextOffset`, attachments | Write, attach, detach, finish, finishedAt | slow readers are dropped, late ones replayed |
| PTY WebSocket | `internal/wrapper/websocket.go` | acknowledged and sent offsets of a connection | servePTY, sendOutput, readInput, heartbeat | flow control, stalls, the end of output |
| browser view | `internal/server/web/src/terminal.js` | invocation, socket, offsets, flags, timers | connect and its callbacks, refreshStatus, dispose | callbacks of old connections, awaits, timers, polls |
| wrapper server | `internal/wrapper/server.go`, `output.go`, `result.go`, `websocket.go` | harness, sockets, draining, one input mutex | Start, serve, Shutdown, Wait, registration, applyInput | drain against cancellation against new attachments; input queued for a mutex |
| harness process | `internal/harness` | a process group and its PTY | Start, run, Read, Write, Resize, Shutdown | group kill, PTY closing, descendants that keep the terminal |
| server lifecycle | `internal/server/server.go`, `workspace_lock.go`, `proxy.go`, `cmd/serve.go` | listener, request count, store, lock | Start, serve, Shutdown, trackRequests, proxied terminals | ordered shutdown, failed starts, hijacked connections; crash and restart |
| pages, assets, CLI, coverage tool | the rest | drafts in the pages | | only drafts are modelled |

They interact by calls (handlers call the project manager, the store and the
execution manager), by a pipe and a process (launcher and `wrap`), by messages
(WebSocket and status requests), and through the file system, which outlives
the server.

What makes each part correct:

* execution manager: one harness per conversation; Stop and Close tell the truth
  and return; Status agrees with Start;
* launcher: nothing is left after a failure; an exit report vouches for the harness;
* projects: a ready project has its own complete repository; files never outlive
  their record; no process loses its repository; no rename is silently lost;
* terminal: the screen is the output stream, the end is the end, buffers are bounded;
* wrapper server: Wait leaves nothing behind on any path; nothing the harness wrote
  is lost when it ends by itself; input is serialized; it ends when it should;
* server: requests find storage open, nothing outlives the workspace lock, a failed
  start releases what it took, and a server that is told to stop does, whatever its
  clients do.

## The modules

| Module | What it is |
|---|---|
| `ExclusiveExecution` | abstract: each key has at most one live harness, invocations are used once |
| `Launcher` | abstract: the contract between the execution manager and a launch |
| `ExecutionManager` | the manager; implements `ExclusiveExecution`, relies on `Launcher` |
| `ExecutionManagerProofs` | its inductive invariant, theorems and refinement proof |
| `WrapperChild` | `startWrapper` with the `wrap` subprocess; implements `Launcher` |
| `WrapperChildProofs` | its inductive invariant, theorems and refinement proof |
| `ProjectLease` | abstract: a project ID as a lease on a repository |
| `Projects` | handlers, manager, store and files of one ID; implements `ProjectLease` |
| `OutputStream` | abstract: a screen that shows a stream in order, skipping only by starting over |
| `Terminal` | terminal buffer, WebSocket, network and browser view; implements `OutputStream` while one invocation runs |
| `TerminalProofs` | the invariant of `Terminal`: types, attachments, view |
| `TerminalOutputProofs` | the invariants of its output, theorems and refinement proof |
| `ProjectsProofs` | the inductive invariant of `Projects`, theorems and refinement proof |
| `HarnessProcess` | the harness, its process group and its terminal, as one `pty.Process` |
| `WrapperServer` | the inside of the `wrap` subprocess around a `HarnessProcess`; does what `WrapperChild` lets its child do |
| `WrapperServerProofs` | its inductive invariant and theorems |
| `ServerLifecycle` | one server from start to end, composed with its `ExecutionManager` |
| `ServerLifecycleProofs` | that the composition is an `ExecutionManager`, its inductive invariant and theorems |
| `Orchestrator` | the handlers of `Projects` composed with `ExecutionManager`; implements `Projects` |
| `OrchestratorProofs` | the invariant that relates the two, and the refinement proof |
| `MCExecutionManager`, `MCProjects`, `MCTerminal`, `MCWrapperServer` | small instances (symmetry) for TLC |

The components meet in this way, from the inside out:

* `WrapperServer` contains `HarnessProcess`, and seen through its standard output it
  takes the steps of the child in `WrapperChild` (`FollowsWrapperChild`);
* `WrapperChild` provides the contract `Launcher` (`ImplementsLauncher`), and
  `ExecutionManager` assumes nothing beyond it (`UsesLauncherContract`);
* `ServerLifecycle` extends `ExecutionManager`: its requests are the callers of Stop,
  its cleanup calls Close, its launchers refuse once requests are canceled;
* `Projects` uses executions the way `ExecutionManager` provides them: `running`,
  `known` and `unconfirmed` stand for harnesses, registered states and states whose
  exit is unconfirmed. `Orchestrator` puts the manager in their place and is still
  `Projects` (`ImplementsProjects`).

### ExecutionManager

Every critical section of `executionManager.mu` is one action; what happens
between two sections (`<-starting`, `process.Wait`, `<-done`) is a guard of the
next. A state object is named by its invocation identifier. `Start(k, i)` is the
call that launches; a call that returns the existing state or an error changes
nothing, and which of the three it is, is `StartAccepts`. `StopEnter` has the
three ways Stop begins (nothing registered, join, own). `Close` sets `closed` and
runs one Stop per key. The world (`HarnessUp`, `HarnessExit`, `LaunchEnds`,
`ProcessExit`) does what `Launcher` allows.

### WrapperChild

One call of `startWrapper`: the launcher, the reader of the two lifecycle records
and the goroutine that joins the process are three program counters; the child
runs setup, startup record, serving, exit record, and may be killed anywhere.
`inherited` says that a descendant keeps the pipe open. Timers may fire at any time.

### Projects

One ID, because IDs share nothing. A request runs once, from its arrival to its
response; store calls are single actions that may fail with the write committed
or not; file operations may fail half done; `Crash` ends the server between any
two steps and keeps record, files, harnesses and the browsers' drafts.
`AcquireLock` is `projectLock`; `createProject` takes none, as in the code. The
state `failed` is never written by the code and does not occur.

### Terminal

A byte is its offset, a frame an interval. `Write`, `Attach`, `Detach`, `Finish`
are `terminal.go` under its mutex. `SendReplay`, `SendLive`, `SendStalled`,
`ReadAck`, `SendEnd` are `sendOutput` with one frame in hand. `down` and `up` are
the two directions of a WebSocket. In the browser each event handler is one
action; the code of `onclose` behind its `await` is `Resume`, which as a microtask
comes before any other event once the awaited write is rendered (`NoMicrotask`).
xterm.js is a queue of writes rendered one by one. Status answers (`poll`) take
their time. Resizes and a crash of the server are left out; input is in `WrapperServer`.

### HarnessProcess and WrapperServer

`HarnessProcess` is one `pty.Process`: the child, the rest of its process group, the
two sides of the terminal, the command's context and `Process.run`. A process outside
the group may keep the slave side open for ever (`SlaveCloses` is never fair).
`WrapperServer` adds the goroutines of the wrapper, each with a place of its own:
`serve` (`main`), `copyHarnessOutput` and the goroutine it starts (`output`), that
goroutine's reading (`reader`), the handlers with their `readInput` (`handler`,
`input`) and `runWrapCommand` (`wrap`). `Register` is the critical section of
`socketsMu`; a request may have been accepted long before it registers. `LockInput` to
`WriteEnds` is `applyInput`. Streams end at any time: why they do is in `Terminal`.

### ServerLifecycle

`srv` is the place in `Start` and `serve`; each step of `Start` may fail, and goes on at
the place of the deferred cleanup that releases what was taken. A request registers,
reads the project, makes its one call (Start, Stop or a proxied terminal) and finishes.
`serve` calls the manager's `CloseBegins` and waits for `CloseEnds`. A browser that reads
nothing is a proxied terminal that only `ProxyCut` ends. `shutdown` says that
`Server.Shutdown` was called, and so that every other connection is closed within five
seconds. A listener that fails (`HTTPFails`) closes none: a registered request may then be
kept for ever by a client that holds up its body or does not read its answer
(`ConnectionAwaited`), since the HTTP server has no read or write timeout.

### Orchestrator

The handlers of `Projects` that use executions call those of `ExecutionManager`; their
other steps are those of `Projects`. A key is the token of a project's creation
(`projectExecutionKey`), an invocation is the start request that launches it, and the
callers of Stop are the deletions. A start answers, and gives the project lock back, while
its launch goes on; a deletion takes Stop step by step. The refinement mapping says what
`Projects` sees: a key is `running` from its launch until its harness is known to be gone,
`known` once it was launched, `unconfirmed` when its process ended without a report.
Renames use no executions and crashes keep none, so both are left to `Projects`; Close
is in `ServerLifecycle`.

## What is checked

Passing runs:

| Run | Question | Instance |
|---|---|---|
| `execution_safety` | one harness per conversation? do Stop, Close and Status tell the truth? is it `ExclusiveExecution` on nothing but `Launcher`? | 2 keys, 3 invocations, 2 callers (1.2 M states) |
| `wrapper` | does `startWrapper` keep the contract, whatever dies? does a launch return, is a canceled child joined? | one launch, complete |
| `wrapper_server` | is everything gone when Wait returns? does a handler ever register while handlers are awaited? is input serialized? | 2 handlers, no output (0.6 M states) |
| `wrapper_drain` | is output lost? does the subprocess end, with a descendant that holds the terminal? does it do what `WrapperChild` says? | 1 handler, 1 chunk of output (0.3 M states) |
| `projects_safety` | ready means complete, files keep their record, renames and foreign files are safe: is it a lease? | 2 creates, 2 renames, 1 delete, 1 start, 1 failed store call, 2 failed file operations, 1 crash (1.1 M states) |
| `orchestrator` | does the manager do what the handlers assume of it? does every holder release the project lock, and what leaves an ID reserved? | 2 creates, 1 delete, 2 starts, 1 failed store call, 2 failed file operations (0.1 M states) |
| `terminal_safety` | is the screen the stream, the end the end, the backlog bounded? | 3 bytes, 2 connections, 1 attachment at a time, 1 break, queue of 1, window of 2 (1.0 M states; 3 connections, 2.9 M states, pass too) |
| `terminal_live` | is the end of a new invocation kept apart from the old one's, is final output shown, does a view reconnect? | 2 invocations of one byte, 3 connections (0.4 M states) |
| `server_lifecycle` | do requests find storage, does the lock outlive its users, is everything released, does the server stop, do Stop and Close return? | 1 key, 2 invocations, 1 request at a time beside Close (66 K states) |

Every property has a mutant in `PROJECT.json`, an operator with a suffix beside
the definition it replaces (`Replaceable_IgnoreResult`), that breaks it.

Runs that find a disagreement with what the repository says of itself:

| Run | The repository says | The code does |
|---|---|---|
| `projects_draft` | drafts' "version stays tied to the original read so another tab's changes cannot be silently overwritten" (`project-actions.js:19`) | versions begin at 1 again for a recreated ID: an old draft renames the new project |
| `projects_crash` | "The caller must stop processes using the project" (`manager.go:107`) | a restarted server knows no conversations, stops nothing, and removes the files under a surviving harness |
| `terminal_orphan` | "A view owns all terminal callbacks and connections until disposed" (`terminal.js:1`) | the retry armed behind `await pending` replaces a newer connection without closing it |

An ID may also stay in `creating` or `deleting` for good, which no request accepts. One
failure is enough:

* the last update of a creation fails. It has the context of the request, so that a
  browser that disconnects after `git init`, or an ordinary shutdown, suffices;
* the insertion, or the claim of a deletion, is committed and reports an error;
* after a creation was refused for an existing directory, a call of its rollback fails;
* after a deletion ran out of time, the report of its failure fails.

Two failures do it when a rollback (`TestCleanupFailureRetainsCreationRecord`) or a report
fails after the failure it was to make good. `ReservationEnds` says that nothing else does:
a request at work on a reserved ID ends, and unless the very step it ends in is a failing
call, the reservation has ended, whatever failed before. Crashes, which it leaves out, are
in `Projects`. The code says of these cases that they wait for manual cleanup
(`manager.go:102`) or for recovery (`manager.go:110`), so they are no disagreement.

### Bounds, and why they are enough

* Two keys show that conversations do not disturb each other; three invocations
  let one conversation be replaced while another one is stopped; two callers are
  needed to join a stop, and Close adds one goroutine per key. The theorems remove
  these bounds.
* Two create requests are two generations of an ID, which every hazard about reuse
  needs; one deletion makes room for the second. A failed store call stands for a canceled
  request, a timeout or a failing disk. One of them and two failed file operations reach
  every error path: a cleanup that fails behind a failed `git init` takes two file operations, a
  report that fails behind a failed removal one of each. A report that fails behind a
  failed deletion of the record takes two store calls: the safety theorems have no
  bounds, and `orchestrator` passes with two store calls and one start, too.
  The two starts of `orchestrator` join each other, follow each other, or belong
  to two generations.
* Two handlers are what it takes to contend for the input mutex and to register while
  another one is awaited; one chunk of output is one that can be left in the terminal
  when it is closed. Both are parameters of the theorems.
* One request registers again and again, so it races every step of a shutdown; with
  Close's own goroutine two Stops of a conversation meet; two invocations let a launch
  be refused while another one is closed. The theorems have no such bounds.
* Three bytes with a history of two and a queue of one give gaps, drops and
  replays; a window of two with reads of one and two bytes stalls and moves on; two
  connections allow a drop or a break and the reconnect after it, and the three of
  `terminal_live` a reconnect after a new invocation, with messages of a connection the
  view has left behind. The replay limit,
  the queue and the window are parameters; only their order of magnitude differs
  (256 KiB pieces are cut from the same code path).
* Requests and connections are used once, so these models stop: their
  configurations do not check deadlock. In `ExecutionManager`, `WrapperChild`,
  `WrapperServer` and `ServerLifecycle` deadlock is checked; the end of a process is a
  step of its own there (`Terminated`, `Ended`).

### Fairness, and why the code justifies it

* `ServerLifecycle`: goroutines that can run do; a launch ends because
  `startWrapper` waits at most ten seconds and then joins its child; a *canceled*
  wrapper ends because `WaitDelay` kills it; a handler goes on unless it waits for its
  client. A request that reads a body or writes an answer is only sure to go on once
  `Shutdown` was called, which closes connections after five seconds; a proxied terminal
  when its canceled context closes it. So `ServerStops` promises the end of every server
  that is shut down, and of one whose listener fails by itself (`HTTPFails`) that it ends or
  waits in `requests.Wait` for a client nobody cuts off. Nothing is assumed of
  a wrapper nobody cancels, nor of clients, signals and the workspace's rivals.
* `WrapperServer`: goroutines run and timers fire; a canceled harness is killed after
  its `WaitDelay`; streams end once they are canceled or the terminal is finished, since
  every write to a browser has a timeout. Locking the input mutex is strongly fair: its
  holder writes to the terminal under a deadline, so it is free again and again. A
  harness nobody cancels may run for ever, and its descendants always may.
* `WrapperChild`: reader, waiter and launcher run, timers fire, a canceled child
  is killed. Its setup may hang.
* `Orchestrator`: a handler that has begun goes on, since store calls and `git init`
  (ten seconds) return, and so does Stop, by the fairness of launches and canceled
  wrappers named above. Who waits for the project lock gets it once it stays free.
  Clients need not send anything.
* `Terminal`: connections, browser callbacks, xterm.js and polls make progress.
  The harness, its wrapper and the user need not do anything; `FinalOutputShown`
  names the ways out.

## What is proved

`ExecutionManagerProofs` proves, for any sets of keys, invocations and callers,
assuming only that callers are not keys and that `None` is no invocation or key:

| Theorem | Statement |
|---|---|
| `TypeCorrectness` | `Spec => []TypeOK` |
| `Exclusion` | `Spec => []AtMostOneHarness` |
| `StopIsConfirmed` | `Spec => []StopConfirms` |
| `CloseIsComplete` | `Spec => []CloseJoins` |
| `StatusIsTruthful` | `Spec => []StatusAgreesWithStart` |
| `Refinement` | `Spec => ImplementsExclusiveExecution` |
| `ReliesOnContract` | `Spec => UsesLauncherContract` |

None of these properties is inductive. Two live harnesses of one key would need
one that is no longer current, so `IInv` says that a superseded invocation has
ended for good (`Superseded`). A start may replace an invocation whose process is
done with a report, whose launch left no process, or whose stop was published;
what each of these says about the harness is `Evidence` and `Published`. That a
stop is published once, after joining the launch it found, needs its single owner
(`Ownership`), and what the other callers return is what the owner published
(`Returned`). `Closing` ties Close's goroutines to the snapshot of keys. Each
action has a lemma that preserves `IInv`; the properties follow from `IInv` alone.
The refinement maps a harness coming up to `Launch`, its end to `End`, and every
other step to a stutter. TLC confirmed `IInv` on the instance of
`execution_safety` before it was proved.

`WrapperChildProofs` proves of one launch, without assumptions:

| Theorem | Statement |
|---|---|
| `TypeCorrectness` | `Spec => []TypeOK` |
| `ErrorsRelease` | `Spec => []FailureReleases` |
| `ReportsAreTrue` | `Spec => []ReportVouchesForHarness` |
| `Refinement` | `Spec => ImplementsLauncher` |

The server learns of the harness from records that one goroutine reads, another
one cuts off and a third awaits. `Records` says what the pipe may hold at each
stage of the child, so that an exit record is never taken for the first one;
`Vouched` what each record says about the harness; `Joining` that the pipe is
closed only behind a child that has exited; `Launched` what `startWrapper` returns
on. With `ReliesOnContract`, the contract between the two components is proved
from both sides.

`WrapperServerProofs` proves, for any handlers and any natural `MaxOutput`:

| Theorem | Statement |
|---|---|
| `TypeCorrectness` | `Spec => []TypeOK` |
| `WaitIsThorough` | `Spec => []WaitMeansStopped` |
| `RegistrationEnds` | `Spec => NoLateRegistration` |
| `InputIsSerial` | `Spec => InputSerialized` |
| `OutputIsKept` | `Spec => FinishLosesNothing` |
| `KeepsChildContract` | `Spec => FollowsWrapperChild` |

Nothing in the state of `serve` says that the process group is gone: it follows from the
order in which run, reader and output end (`Joined`) and from what each place of `serve`
has seen to (`Served`). `Kept` is why output is not lost: without an excuse (a timer, a
failed copy, a cancellation) nobody cancels the harness, so the master side stays open
until its reader has met the end. `Inputs` ties a queued command to a handler that joins
it, and `Written` the records to the place of `runWrapCommand`.

`ServerLifecycleProofs` proves, under the assumptions of `ExecutionManagerProofs`:

| Theorem | Statement |
|---|---|
| `RunsExecutionManager` | `ServerSpec => Spec` |
| `ServerTypeCorrectness` | `ServerSpec => []ServerTypeOK` |
| `RequestsAreServed` | `ServerSpec => []RequestsFindStorage` |
| `LockIsHeldLongEnough` | `ServerSpec => []LockOutlivesUse` |
| `EndIsClean` | `ServerSpec => []EndReleases` |
| `RegistrationIsOver` | `ServerSpec => NoLateRequests` |

Every step of a server is a step of its manager or leaves it alone, so all theorems about
the manager hold in a server, and `SInv` contains its `IInv`. The rest of `SInv` is what
each place of `Start` and `serve` holds (`Holding`), where HTTP may be serving
(`Serving`), that nothing begins before it is (`Unbound`), and what has ended behind each
step of the cleanup (`Closed`). That no launch, wrapper or harness outlives the lock is
then `CloseJoins` of the manager.

`ProjectsProofs` proves, for any sets of requests and any bounds on the failures, assuming
that the four kinds of requests are distinct and that `None` is no request and no project:

| Theorem | Statement |
|---|---|
| `TypeCorrectness` | `Spec => []TypeOK` |
| `ReadyIsComplete` | `Spec => []ReadyHasRepository` |
| `FilesGoFirst` | `Spec => []FilesKeepTheirRecord` |
| `VersionsIdentify` | `Spec => []VersionIdentifiesRecord` |
| `ForeignFilesStay` | `Spec => ForeignFilesUntouched` |
| `RenamesSeeChanges` | `Spec => RenameReplacesWhatWasRead` |
| `Refinement` | `Spec => ImplementsProjectLease` |

Mutual exclusion has two sources here. Rename, delete and start hold the project lock
(`Ordered`), so what one of them has read is still the record (`Locked`) unless its own
deletion has failed. A create holds no lock: it owns the record and the directory by the
state `creating`, which every other request refuses (`Created`), and so does the claimant
of a deletion by `deleting`. `Copies` says that every copy of a project, a browser's draft
included, is the record, an older one or one of another generation, so the compare and
swap of the store cannot be deceived; an update that fails after its commit is why it
does not say more. `Foreign` keeps a directory that was there before out of every
generation's way, and `Users` allows executions in the ready generation only. The
refinement is proved through six kinds of effects a step can have on the lease.

`OrchestratorProofs` proves, for any sets of creations, deletions and starts and any
bounds on the failures, assuming that these sets are disjoint and that `None` is neither a
request nor a project:

| Theorem | Statement |
|---|---|
| `Refinement` | `Spec => ImplementsProjects` |
| `HarnessesStayHome` | `Spec => []HarnessesAreHome` |

Each step is shown to be a step of `ExecutionManager` and one of `Projects`, or to leave it
alone, so the invariants proved of the two hold of their composition, and `OInv` adds what
relates them: only the current invocation of a token may run or be unconfirmed
(`Settled`), a deletion is in Stop only while it holds the project lock and works on that
invocation (`Calls`), and a stop in progress belongs to one of them (`Owned`). That is why
a start, which holds the lock too, is refused after an unconfirmed exit only, as
`Projects` assumes, and why a nil from Stop leaves nothing running. With what `Projects`
says of executions (`Users`) every launch and every harness then has the repository of its
own project, for as long as it lives.

`TerminalProofs` and `TerminalOutputProofs` prove, for any numbers of bytes, connections,
invocations and breaks, and any replay limit, queue, window and limit on attachments, from
the assumptions `Terminal` names: that these are naturals, the last three not zero, and
that a single read or piece of the replay is not empty and fits the window:

| Theorem | Statement |
|---|---|
| `Invariance` | `Spec => []Inv` |
| `TypeCorrectness` | `Spec => []TypeOK` |
| `PipelineInvariance` | `Spec => []PipelineInv` |
| `AcknowledgmentsAreValid` | `Spec => []AcksAreValid` |
| `BacklogBounded` | `Spec => []BacklogIsBounded` |
| `EndInvariance` | `Spec => []EndInv` |
| `EndIsComplete` | `Spec => []EndMeansComplete` |
| `StreamRefinement` | `ASSUME OneInvocation PROVE Spec => ImplementsOutputStream` |
| `InvocationsStayInOrder` | `Spec => []InvocationsInOrder` |

The invariant comes in layers, each proved from the ones before. `Inv` is `TypeOK` with
two parts it needs: `WrapperInv` orders an attachment's counters (acknowledged, sent, in
hand, produced) and its queue, which holds only output produced after the replay and not
in hand yet; `ViewInv` says that the view, its requests and the status answers under way
are never ahead of the wrapper, that nothing travels on a connection before it is open
and nothing arrives after it is closed.

* `PipelineInv` is the flow control: on an open connection the acknowledgments, the writes
  xterm.js has not rendered and the frames under way are intervals that follow each other
  between what is acknowledged and what is sent. So the next acknowledgment is valid, and
  the bytes of the backlog are different offsets of one window, which makes them no more
  than it holds. `BacklogIsBounded` compares cardinalities of sets of bytes, each counted
  once for every message or write it is in: a sum over a sequence would be a fold, and what
  a fold computes takes an induction.
* `EndInv`: an end message is the last on its connection, that connection is closing, and
  if it is about the current invocation, the output has ended and its length is the one in
  the message. A complete view therefore has a socket on which nothing more arrives and
  has received all of the output; later polls and new invocations leave it so or reset it.
* `ScreenInv`, while one invocation runs: the writes under way continue what is rendered,
  the next frame continues the writes, a request or a replay without a gap continues the
  screen. Its core is `RetriesInv`: a timer is armed only when no write is left, for the
  connection the view still holds, so a retry asks for exactly what is missing. Output
  then maps to `Produce`, a rendered write to `Show`, a replay with a gap to `Skip`.

`OneInvocation` is `Invocations <= 1`, as in the run, and the theorem is false without it.
Not only does the output of a second invocation begin at byte 0 again: the disagreement
`terminal_orphan` shows then bites. While a close handler awaits its writes, the view
may follow a new invocation; the retry armed for the old connection replaces the new one,
asks for what is rendered so far, and what the lost connection had written already is
shown twice. In the instance of `terminal_orphan` TLC reaches such a screen in 29 steps
(invariant `\A i, j \in 1..Len(shown) : i < j => shown[i] # shown[j]`).
The other theorems have no such hypothesis, and `InvocationsStayInOrder` is what remains
of the order on the screen: late writes of an old invocation come before the output of the
next one, never below it, and nothing is shown of an invocation the view does not follow
yet.

TLC confirmed the layers on the instances of `terminal_safety` and `terminal_live` before
they were proved (`ScreenInv` on the first, `InvocationsInOrder` on 2 invocations, 3
connections and a break).

Type invariants that are proved are not run again, except `Terminal`'s, whose bounds on
queues and attachments a mutant breaks. Only model-checked are the liveness properties,
which TLAPS does not support under fairness: `LauncherReturns`, `CancelJoins`,
`LockIsReleased`, `ReservationEnds`, `FinalOutputShown`, `ViewReconnects`, `EndsWhenAsked`,
`ServerStops` and `StopReturns`.

## What is not modelled

* which bytes, keys or window sizes a command carries, and the resizing of the view;
* migrations, listing, validation, HTTP encoding: pure or without concurrency;
* ports and process identifiers, and what the operating system may do with them
  between a check and a use;
* what `xterm.js` does to queued writes on `reset`: neither documented nor tested here;
* markup, routing and assets of the pages, and the editing of names in them, of which
  only the draft with its version is modelled; the origin check of the proxy; the
  command line; the coverage tool.

## Plan

1. The screen across invocations, as it would be with a retry that asks whether its
   connection is still the view's: an abstract stream with invocations, and `ScreenInv`
   without its hypothesis.
2. The pages' own state (`project-actions.js`, `project-sidebar.js`): drafts, saved names
   and aborted reads of several pages in one tab.
