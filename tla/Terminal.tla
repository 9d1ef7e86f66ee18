------------------------------ MODULE Terminal ------------------------------
(***************************************************************************)
(* A conversation's terminal, from the harness to the screen: the replay   *)
(* buffer and its attachments (internal/wrapper/terminal.go), the PTY      *)
(* WebSocket (internal/wrapper/websocket.go) and the browser's terminal    *)
(* view (internal/server/web/src/terminal.js), with xterm.js (external) as *)
(* a queue of writes that are rendered in order, one after another.        *)
(*                                                                         *)
(* A byte is known by its offset; a frame is the half-open interval        *)
(* [from, to).  Messages of one connection arrive in order; a connection   *)
(* that breaks (timeouts, stalls, pings, networks) loses a suffix of them. *)
(* One wrapper lives at a time: invocation `current`.  Keyboard input and  *)
(* resizes do not affect the output and are left out, and so are crashes   *)
(* of the server itself.                                                   *)
(*                                                                         *)
(* Bounds: Total bytes per invocation, Invocations launches, the numbered  *)
(* connections Conns, MaxBreaks broken connections.                        *)
(***************************************************************************)
EXTENDS Integers, Sequences, FiniteSets, SequencesExt

CONSTANTS Total, Invocations, MaxBreaks, MaxConns,
          Chunks,          \* sizes of single reads from the harness, and of replay
          ReplayLimit,     \* replayLimit
          QueueCap,        \* capacity of attachment.output
          Window,          \* unacknowledged bytes sendOutput allows
          MaxAttachments,  \* registered attachments
          None             \* null

Conns == 1..MaxConns

ASSUME BoundsAreNaturals ==
    /\ {Total, Invocations, MaxBreaks, MaxConns, ReplayLimit} \subseteq Nat
    /\ {QueueCap, Window, MaxAttachments} \subseteq Nat \ {0}
ASSUME ChunksAreSmall == Chunks \subseteq 1..Window
ASSUME NoneIsNull == None \notin Int

VARIABLES
    \* the wrapper of the current invocation
    current,    \* the invocation, 0 before the first start
    stage,      \* "off", "starting", "running", "finished" (terminal closed),
                \* "draining", "lost" (ended, the harness's exit unconfirmed)
    produced,   \* nextOffset
    clients,    \* clients[c]: "none", "active", "inactive" (queue closed)
    queue,      \* queue[c]: frames in attachment.output
    sender,     \* sender[c]: sendOutput's acked, sent, end of the replay, and
                \* end of the frame in hand, which the window may hold back
    \* the network
    link,       \* link[c]: "unused", "connecting", "open", "closing", "closed"
    down, up,   \* messages to the browser and acknowledgments to the wrapper
    breaks,
    \* the browser
    request,    \* request[c]: invocation and cursor in the URL
    view,       \* the variable "invocation", 0 for undefined
    socket, rendered, received, complete, exited, disposed,
    poll,       \* the status response under way, or None
    awaiting,   \* connections whose onclose awaits pending writes
    timers,     \* connections whose onclose has armed a timer to retry
    retryTimer, \* the timer a clearTimeout would cancel, or None
    writes,     \* xterm.js: writes not rendered yet
    shown       \* xterm.js: <<invocation, offset>> of each byte since the reset

wrapperVars == <<current, stage, produced, clients, queue, sender>>
netVars     == <<link, down, up, breaks, request>>
viewVars    == <<view, socket, rendered, received, complete, exited, disposed>>
retryVars   == <<poll, awaiting, timers, retryTimer>>
screenVars  == <<writes, shown>>
vars == <<wrapperVars, netVars, viewVars, retryVars, screenVars>>

Frame(from, to) == [type |-> "data", from |-> from, to |-> to]
Larger(a, b) == IF a > b THEN a ELSE b
Smaller(a, b) == IF a < b THEN a ELSE b
Oldest == Larger(0, produced - ReplayLimit)   \* the first byte in history

-----------------------------------------------------------------------------
(* The terminal: terminal.go *)

\* A slow reader is dropped instead of blocking harness output.
Write(to) ==
    LET Queued(c) == clients[c] = "active" /\ Len(queue[c]) < QueueCap
    IN  /\ queue' = [c \in Conns |-> IF Queued(c)
                                     THEN Append(queue[c], Frame(produced, to))
                                     ELSE queue[c]]
        /\ clients' = [c \in Conns |-> IF clients[c] = "active" /\ ~Queued(c)
                                       THEN "inactive" ELSE clients[c]]

\* copyHarnessOutput writes what it read from the harness.
Output(n) ==
    /\ stage = "running"
    /\ produced + n <= Total
    /\ Write(produced + n)
    /\ produced' = produced + n
    /\ UNCHANGED <<current, stage, sender, netVars, viewVars, retryVars, screenVars>>

\* The last output has been saved: every queue is closed.
QueuesClosed_Forgotten == clients
QueuesClosed ==
    [c \in Conns |-> IF clients[c] = "active" THEN "inactive" ELSE clients[c]]
Finish ==
    /\ stage = "running"
    /\ stage' = "finished"
    /\ clients' = QueuesClosed
    /\ UNCHANGED <<current, produced, queue, sender, netVars, viewVars, retryVars, screenVars>>

\* No attachments are accepted any more; those that exist may drain.
Drain ==
    /\ stage = "finished"
    /\ stage' = "draining"
    /\ UNCHANGED <<current, produced, clients, queue, sender, netVars, viewVars,
                   retryVars, screenVars>>

Registered == {c \in Conns : clients[c] # "none"}
Attachable_NoLimit(c) ==
    /\ request[c].invocation = current
    /\ stage \in {"running", "finished"}
    /\ request[c].cursor # None => request[c].cursor <= produced
Attachable(c) ==
    /\ request[c].invocation = current
    /\ stage \in {"running", "finished"}
    /\ request[c].cursor # None => request[c].cursor <= produced
    /\ Cardinality(Registered) < MaxAttachments

\* attach subscribes and copies the history under one lock; servePTY announces
\* the replay.
Start(cursor) == IF cursor = None THEN Oldest ELSE Larger(Oldest, cursor)
Gap(cursor) == IF cursor = None THEN Oldest > 0 ELSE cursor < Oldest

\* sendOutput starts with the first saved byte acknowledged and sent.
NewSender_AtEnd(start) ==
    [acked |-> produced, sent |-> start, hand |-> start, replay |-> produced]
NewSender(start) ==
    [acked |-> start, sent |-> start, hand |-> start, replay |-> produced]

Attach(c) ==
    /\ link[c] = "connecting"
    /\ Attachable(c)
    /\ LET start == Start(request[c].cursor)
       IN  /\ sender' = [sender EXCEPT ![c] = NewSender(start)]
           /\ down' = [down EXCEPT ![c] = <<[type |-> "replay", offset |-> start,
                                            gap |-> Gap(request[c].cursor)]>>]
    /\ clients' = [clients EXCEPT ![c] = IF stage = "running" THEN "active" ELSE "inactive"]
    /\ link' = [link EXCEPT ![c] = "open"]
    /\ UNCHANGED <<current, stage, produced, queue, up, breaks, request, viewVars,
                   retryVars, screenVars>>

\* The server or the wrapper answers with an error instead of an upgrade.
Refuse(c) ==
    /\ link[c] = "connecting"
    /\ ~Attachable(c)
    /\ link' = [link EXCEPT ![c] = "closing"]
    /\ UNCHANGED <<wrapperVars, down, up, breaks, request, viewVars, retryVars, screenVars>>

-----------------------------------------------------------------------------
(* The sender: sendOutput *)

Sending(c) == link[c] = "open" /\ clients[c] # "none"
Fits_PerFrame(c, to) == to - sender[c].sent <= Window
Fits(c, to) == to - sender[c].acked <= Window
Stalled(c) == sender[c].hand > sender[c].sent

\* A frame is taken, and written at once or held back until the window moves.
Transmit(c, to) ==
    IF Fits(c, to)
    THEN /\ down' = [down EXCEPT ![c] = Append(@, Frame(sender[c].sent, to))]
         /\ sender' = [sender EXCEPT ![c].sent = to, ![c].hand = to]
    ELSE sender' = [sender EXCEPT ![c].hand = to] /\ UNCHANGED down

\* Saved output goes first, in bounded pieces.
InReplay(c) == sender[c].sent < sender[c].replay
ReplayPieces(c) == {Smaller(sender[c].sent + n, sender[c].replay) : n \in Chunks}

SendReplay(c) ==
    /\ Sending(c)
    /\ InReplay(c) /\ ~Stalled(c)
    /\ \E to \in ReplayPieces(c) : Transmit(c, to)
    /\ UNCHANGED <<current, stage, produced, clients, queue, link, up, breaks,
                   request, viewVars, retryVars, screenVars>>

SendLive(c) ==
    /\ Sending(c)
    /\ ~InReplay(c) /\ ~Stalled(c)
    /\ queue[c] # <<>>
    /\ Transmit(c, Head(queue[c]).to)
    /\ queue' = [queue EXCEPT ![c] = Tail(@)]
    /\ UNCHANGED <<current, stage, produced, clients, link, up, breaks, request,
                   viewVars, retryVars, screenVars>>

SendStalled(c) ==
    /\ Sending(c)
    /\ Stalled(c)
    /\ Fits(c, sender[c].hand)
    /\ Transmit(c, sender[c].hand)
    /\ UNCHANGED <<current, stage, produced, clients, queue, link, up, breaks,
                   request, viewVars, retryVars, screenVars>>

\* An acknowledgment moves the window; an invalid one ends the connection.  They
\* are read between live frames and while a frame is held back.
AckValid(c, offset) == sender[c].acked <= offset /\ offset <= sender[c].sent
ReadAck(c) ==
    /\ Sending(c)
    /\ up[c] # <<>>
    /\ IF Stalled(c) THEN ~Fits(c, sender[c].hand) ELSE ~InReplay(c)
    /\ IF AckValid(c, Head(up[c]))
       THEN sender' = [sender EXCEPT ![c].acked = Head(up[c])] /\ UNCHANGED link
       ELSE link' = [link EXCEPT ![c] = "closing"] /\ UNCHANGED sender
    /\ up' = [up EXCEPT ![c] = Tail(@)]
    /\ UNCHANGED <<current, stage, produced, clients, queue, down, breaks, request,
                   viewVars, retryVars, screenVars>>

\* The queue is closed and empty: "end" if everything was sent, or just the end
\* of this connection for a slow reader.
FinishedAt_Closed(offset) == stage \in {"finished", "draining"}
FinishedAt(offset) == stage \in {"finished", "draining"} /\ offset = produced
SendEnd(c) ==
    /\ Sending(c)
    /\ ~InReplay(c) /\ ~Stalled(c)
    /\ clients[c] = "inactive"
    /\ queue[c] = <<>>
    /\ down' = IF FinishedAt(sender[c].sent)
               THEN [down EXCEPT ![c] = Append(@, [type |-> "end", offset |-> sender[c].sent])]
               ELSE down
    /\ link' = [link EXCEPT ![c] = "closing"]
    /\ UNCHANGED <<wrapperVars, up, breaks, request, viewVars, retryVars, screenVars>>

\* The handler has joined its goroutines.
Detach(c) ==
    /\ clients[c] # "none"
    /\ link[c] \in {"closing", "closed"}
    /\ clients' = [clients EXCEPT ![c] = "none"]
    /\ queue' = [queue EXCEPT ![c] = <<>>]
    /\ UNCHANGED <<current, stage, produced, sender, netVars, viewVars, retryVars, screenVars>>

\* A write, a stalled window, a ping or the network times out.
Break(c) ==
    /\ link[c] \in {"connecting", "open"}
    /\ breaks < MaxBreaks
    /\ breaks' = breaks + 1
    /\ link' = [link EXCEPT ![c] = "closing"]
    /\ \E n \in 0..Len(down[c]) : down' = [down EXCEPT ![c] = SubSeq(@, 1, n)]
    /\ UNCHANGED <<wrapperVars, up, request, viewVars, retryVars, screenVars>>

-----------------------------------------------------------------------------
(* The wrapper process and its successor *)

\* The wrapper ends, drained or not, and with it every connection; whether its
\* report confirms the end of the harness is Launcher's and WrapperChild's matter.
WrapperExits ==
    /\ stage \in {"running", "finished", "draining"}
    /\ stage' \in {"off", "lost"}
    /\ clients' = [c \in Conns |-> "none"]
    /\ queue' = [c \in Conns |-> <<>>]
    /\ link' = [c \in Conns |-> IF link[c] \in {"connecting", "open"}
                                THEN "closing" ELSE link[c]]
    /\ UNCHANGED <<current, produced, sender, down, up, breaks, request, viewVars,
                   retryVars, screenVars>>

\* Someone starts the conversation (again): a new invocation, ...
Launch ==
    /\ stage = "off"
    /\ current < Invocations
    /\ current' = current + 1
    /\ stage' = "starting"
    /\ UNCHANGED <<produced, clients, queue, sender, netVars, viewVars, retryVars,
                   screenVars>>

\* ... a new terminal, or a failed start.
Launched ==
    /\ stage = "starting"
    /\ stage' \in {"running", "off"}
    /\ produced' = 0
    /\ UNCHANGED <<current, clients, queue, sender, netVars, viewVars, retryVars,
                   screenVars>>

-----------------------------------------------------------------------------
(* The browser: connections *)

\* What connect() does when the view still wants a connection.  `links` is the
\* network as the surrounding handler leaves it.
Unused == {c \in Conns : link[c] = "unused"}
NextConn == CHOOSE c \in Unused : \A d \in Unused : c <= d

OpenConnection(links, invocation, cursor) ==
    /\ Unused # {}
    /\ link' = [links EXCEPT ![NextConn] = "connecting"]
    /\ request' = [request EXCEPT ![NextConn] =
                      [invocation |-> invocation, cursor |-> cursor]]
    /\ socket' = NextConn

\* close() by the browser: nothing that is still under way is delivered.
Closed(links, c) ==
    IF c # None THEN [links EXCEPT ![c] = IF @ \in {"connecting", "open"} THEN "closing" ELSE @]
    ELSE links
Dropped(c) == IF c # None THEN [down EXCEPT ![c] = <<>>] ELSE down

Ours(c) == ~disposed /\ socket = c

\* What onclose awaits: what was written up to its connection has been rendered.
\* Once it has, the continuation is a microtask that comes before any other event.
PendingWritten_Unasked(c) == TRUE
PendingWritten(c) == \A i \in 1..Len(writes) : writes[i].conn > c
NoMicrotask == \A c \in awaiting : ~PendingWritten(c)

\* onmessage of a connection that is no longer the view's.
ReceiveStale(c) ==
    /\ NoMicrotask
    /\ down[c] # <<>>
    /\ ~Ours(c)
    /\ down' = [down EXCEPT ![c] = Tail(@)]
    /\ UNCHANGED <<wrapperVars, link, up, breaks, request, viewVars, retryVars, screenVars>>

\* "replay": output starts here; after a gap the screen starts over.
ReceiveReplay(c) ==
    /\ NoMicrotask
    /\ down[c] # <<>> /\ Ours(c)
    /\ LET m == Head(down[c])
       IN  /\ m.type = "replay"
           /\ received' = [received EXCEPT ![c] = m.offset]
           /\ rendered' = m.offset
           /\ shown' = IF m.gap THEN <<>> ELSE shown
    /\ down' = [down EXCEPT ![c] = Tail(@)]
    /\ UNCHANGED <<wrapperVars, link, up, breaks, request, view, socket, complete,
                   exited, disposed, retryVars, writes>>

\* A frame out of sequence closes the connection; the next one is rendered later.
ReceiveData(c) ==
    /\ NoMicrotask
    /\ down[c] # <<>> /\ Ours(c)
    /\ LET m == Head(down[c])
       IN  /\ m.type = "data"
           /\ IF m.from = received[c]
              THEN /\ received' = [received EXCEPT ![c] = m.to]
                   /\ writes' = Append(writes, [conn |-> c, from |-> m.from, to |-> m.to])
                   /\ down' = [down EXCEPT ![c] = Tail(@)]
                   /\ UNCHANGED link
              ELSE /\ link' = Closed(link, c)
                   /\ down' = Dropped(c)
                   /\ UNCHANGED <<received, writes>>
    /\ UNCHANGED <<wrapperVars, up, breaks, request, view, socket, rendered,
                   complete, exited, disposed, retryVars, shown>>

\* "end": this connection received all terminal output.
ReceiveEnd(c) ==
    /\ NoMicrotask
    /\ down[c] # <<>> /\ Ours(c)
    /\ Head(down[c]).type = "end"
    /\ complete' = (complete \/ Head(down[c]).offset = received[c])
    /\ down' = [down EXCEPT ![c] = Tail(@)]
    /\ UNCHANGED <<wrapperVars, link, up, breaks, request, view, socket, rendered,
                   received, exited, disposed, retryVars, screenVars>>

Receive(c) ==
    ReceiveStale(c) \/ ReceiveReplay(c) \/ ReceiveData(c) \/ ReceiveEnd(c)

\* xterm.js renders the oldest write and calls back.
Bytes(w) == [i \in 1..(w.to - w.from) |->
                <<request[w.conn].invocation, w.from + i - 1>>]
Render ==
    /\ NoMicrotask
    /\ writes # <<>>
    /\ writes' = Tail(writes)
    /\ LET w == Head(writes)
       IN  /\ shown' = shown \o Bytes(w)
           /\ rendered' = IF Ours(w.conn) THEN w.to ELSE rendered
           /\ up' = IF Ours(w.conn) /\ link[w.conn] = "open"
                    THEN [up EXCEPT ![w.conn] = Append(@, w.to)] ELSE up
    /\ UNCHANGED <<wrapperVars, link, down, breaks, request, view, socket, received,
                   complete, exited, disposed, retryVars>>

-----------------------------------------------------------------------------
(* The browser: reconnecting *)

\* onclose, up to its await.
CloseEvent(c) ==
    /\ NoMicrotask
    /\ link[c] = "closing"
    /\ down[c] = <<>>
    /\ link' = [link EXCEPT ![c] = "closed"]
    /\ awaiting' = IF Ours(c) THEN awaiting \cup {c} ELSE awaiting
    /\ UNCHANGED <<wrapperVars, down, up, breaks, request, viewVars, poll, timers,
                   retryTimer, screenVars>>

\* Everything written before the close has been rendered; onclose goes on.
Resume(c) ==
    /\ c \in awaiting
    /\ PendingWritten(c)
    /\ awaiting' = awaiting \ {c}
    /\ IF disposed \/ exited \/ complete
       THEN UNCHANGED <<timers, retryTimer>>
       ELSE timers' = timers \cup {c} /\ retryTimer' = c
    /\ UNCHANGED <<wrapperVars, netVars, viewVars, poll, screenVars>>

\* The retry timer fires and connect() runs.
Retry(c) ==
    /\ NoMicrotask
    /\ c \in timers
    /\ timers' = timers \ {c}
    /\ IF disposed \/ exited \/ complete
       THEN UNCHANGED <<link, request, socket>>
       ELSE OpenConnection(link, view, rendered)
    /\ UNCHANGED <<wrapperVars, down, up, breaks, view, rendered, received, complete,
                   exited, disposed, poll, awaiting, retryTimer, screenVars>>

-----------------------------------------------------------------------------
(* The browser: refreshStatus *)

\* The server answers a status request; the answer takes its time.  "other" stands
\* for starting, stopping (which anyone may ask for) and disconnected.
StatusIn(s) ==
    IF s = "off" THEN {"stopped"}
    ELSE IF s \in {"starting", "lost"} THEN {"other"}
    ELSE {"running", "other"}

PollAnswered ==
    /\ ~disposed
    /\ poll = None
    /\ \E state \in StatusIn(stage) :
          poll' = [invocation |-> current, state |-> state]
    /\ UNCHANGED <<wrapperVars, netVars, viewVars, awaiting, timers, retryTimer, screenVars>>

\* A new invocation takes the screen over; a running one is connected to unless
\* there is a socket; a stopped one needs no reconnects.
NewInvocation == poll.invocation # view
RetryKept_Never == timers \ {retryTimer}
RetryKept == IF NewInvocation THEN timers \ {retryTimer} ELSE timers
CompleteKept_Always == complete
CompleteKept == IF NewInvocation THEN FALSE ELSE complete
PollView ==
    /\ view' = poll.invocation
    /\ rendered' = IF NewInvocation THEN None ELSE rendered
    /\ complete' = CompleteKept
    /\ exited' = IF poll.state = "stopped" THEN poll.invocation # 0
                 ELSE IF NewInvocation THEN FALSE ELSE exited
    /\ shown' = IF NewInvocation /\ view # 0 THEN <<>> ELSE shown
    /\ timers' = RetryKept
PollConnects ==
    LET old == IF NewInvocation THEN None ELSE socket
        links == IF NewInvocation THEN Closed(link, socket) ELSE link
    IN  /\ down' = IF NewInvocation THEN Dropped(socket) ELSE down
        /\ IF poll.state = "running" /\ old = None /\ (NewInvocation \/ ~(exited \/ complete))
           THEN OpenConnection(links, poll.invocation, IF NewInvocation THEN None ELSE rendered)
           ELSE link' = links /\ socket' = old /\ UNCHANGED request
HandlePoll ==
    /\ NoMicrotask
    /\ poll # None
    /\ poll' = None
    /\ IF disposed
       THEN UNCHANGED <<netVars, viewVars, timers, shown>>
       ELSE /\ PollView
            /\ PollConnects
            /\ UNCHANGED <<up, breaks, received, disposed>>
    /\ UNCHANGED <<wrapperVars, awaiting, retryTimer, writes>>

\* The user leaves the page: a view owns its callbacks and connections until then.
Dispose ==
    /\ NoMicrotask
    /\ ~disposed
    /\ disposed' = TRUE
    /\ timers' = timers \ {retryTimer}
    /\ link' = Closed(link, socket)
    /\ down' = Dropped(socket)
    /\ writes' = <<>>
    /\ UNCHANGED <<wrapperVars, up, breaks, request, view, socket, rendered, received,
                   complete, exited, poll, awaiting, retryTimer, shown>>

-----------------------------------------------------------------------------
Init ==
    /\ current = 0
    /\ stage = "off"
    /\ produced = 0
    /\ clients = [c \in Conns |-> "none"]
    /\ queue = [c \in Conns |-> <<>>]
    /\ sender = [c \in Conns |-> [acked |-> 0, sent |-> 0, hand |-> 0, replay |-> 0]]
    /\ link = [c \in Conns |-> "unused"]
    /\ down = [c \in Conns |-> <<>>]
    /\ up = [c \in Conns |-> <<>>]
    /\ breaks = 0
    /\ request = [c \in Conns |-> [invocation |-> 0, cursor |-> None]]
    /\ view = 0
    /\ socket = None
    /\ rendered = None
    /\ received = [c \in Conns |-> None]
    /\ complete = FALSE
    /\ exited = FALSE
    /\ disposed = FALSE
    /\ poll = None
    /\ awaiting = {}
    /\ timers = {}
    /\ retryTimer = None
    /\ writes = <<>>
    /\ shown = <<>>

Wrapper ==
    \/ \E n \in Chunks : Output(n)
    \/ Finish
    \/ Drain
    \/ WrapperExits
    \/ Launch
    \/ Launched

Connection(c) ==
    \/ Attach(c)
    \/ Refuse(c)
    \/ SendReplay(c)
    \/ SendLive(c)
    \/ SendStalled(c)
    \/ ReadAck(c)
    \/ SendEnd(c)
    \/ Detach(c)

View(c) == Receive(c) \/ CloseEvent(c) \/ Resume(c) \/ Retry(c)

Next ==
    \/ Wrapper
    \/ \E c \in Conns : Connection(c) \/ Break(c) \/ View(c)
    \/ Render
    \/ PollAnswered
    \/ HandlePoll
    \/ Dispose

Spec == Init /\ [][Next]_vars

(***************************************************************************)
(* Fairness: sockets, goroutines, timers and callbacks make progress.  The *)
(* harness, its wrapper and the user need not do anything.                 *)
(***************************************************************************)
Fairness ==
    /\ \A c \in Conns : WF_vars(Connection(c)) /\ WF_vars(View(c))
    /\ WF_vars(Render)
    /\ WF_vars(PollAnswered \/ HandlePoll)

FairSpec == Spec /\ Fairness

-----------------------------------------------------------------------------
(* Properties *)

Messages ==
    [type : {"replay"}, offset : 0..Total, gap : BOOLEAN]
        \cup [type : {"data"}, from : 0..Total, to : 0..Total]
        \cup [type : {"end"}, offset : 0..Total]
MaybeOffset == 0..Total \cup {None}

\* Types, and: no attachment outlives the limit, no queue its capacity.
TypeOK ==
    /\ current \in 0..Invocations
    /\ stage \in {"off", "starting", "running", "finished", "draining", "lost"}
    /\ produced \in 0..Total
    /\ clients \in [Conns -> {"none", "active", "inactive"}]
    /\ Cardinality(Registered) <= MaxAttachments
    /\ queue \in [Conns -> Seq(Messages)] /\ \A c \in Conns : Len(queue[c]) <= QueueCap
    /\ sender \in [Conns -> [acked : 0..Total, sent : 0..Total, hand : 0..Total,
                          replay : 0..Total]]
    /\ link \in [Conns -> {"unused", "connecting", "open", "closing", "closed"}]
    /\ down \in [Conns -> Seq(Messages)]
    /\ up \in [Conns -> Seq(0..Total)]
    /\ breaks \in 0..MaxBreaks
    /\ request \in [Conns -> [invocation : 0..Invocations, cursor : MaybeOffset]]
    /\ view \in 0..Invocations
    /\ socket \in Conns \cup {None}
    /\ rendered \in MaybeOffset
    /\ received \in [Conns -> MaybeOffset]
    /\ {complete, exited, disposed} \subseteq BOOLEAN
    /\ poll \in [invocation : 0..Invocations, state : {"stopped", "running", "other"}] \cup {None}
    /\ awaiting \subseteq Conns
    /\ timers \subseteq Conns
    /\ retryTimer \in Conns \cup {None}
    /\ writes \in Seq([conn : Conns, from : 0..Total, to : 0..Total])
    /\ shown \in Seq((1..Invocations) \X (0..Total))

\* "endMessage confirms that this connection received all terminal output": a
\* dropped reader never takes the end of its queue for the end of the output.
EndMeansComplete ==
    complete /\ view = current =>
        stage # "running" /\ socket # None /\ received[socket] = produced

\* "sendOutput limits unacknowledged bytes so a slow browser cannot buffer
\* forever": what a connection has under way and unrendered fits the window.  A
\* byte is counted once for every message, and for every write, it is in.
Within(f, b) == f.from <= b /\ b < f.to
UnderWay(c) ==
    {u \in (1..Len(down[c])) \X (0..Total) :
        down[c][u[1]].type = "data" /\ Within(down[c][u[1]], u[2])}
Unrendered(c) ==
    {u \in (1..Len(writes)) \X (0..Total) :
        writes[u[1]].conn = c /\ Within(writes[u[1]], u[2])}
BacklogIsBounded ==
    \A c \in Conns : Sending(c) => Cardinality(UnderWay(c)) + Cardinality(Unrendered(c)) <= Window

\* The view never sends an acknowledgment for which the wrapper would end the
\* connection as invalid.
AcksAreValid ==
    \A c \in Conns : Sending(c) =>
        \A i \in 1..Len(up[c]) : AckValid(c, up[c][i])

\* While one invocation runs the screen is its output stream.
Stream == INSTANCE OutputStream
    WITH next <- IF rendered = None THEN 0 ELSE rendered,
         shown <- [i \in 1..Len(shown) |-> shown[i][2]]
ImplementsOutputStream == Stream!Spec

\* A browser that keeps up when the harness ends gets the last output and its
\* "end" rendered, attachments being refused or not: unless the connection breaks,
\* the wrapper ends before the drain does, or the page turns to something else.
Covered(c) ==
    produced = IF queue[c] # <<>> THEN Last(queue[c]).to
               ELSE Larger(sender[c].hand, sender[c].replay)
FinalOutputShown ==
    \A n \in 0..MaxBreaks :
        (/\ stage \in {"finished", "draining"} /\ breaks = n
         /\ \E c \in Conns : Ours(c) /\ Sending(c) /\ Covered(c))
            ~> (\/ complete /\ writes = <<>>
                \/ \A c \in Conns : Ours(c) => link[c] = "connecting"
                \/ breaks > n \/ stage \in {"off", "lost"})

\* A view whose connection ended connects again (while Conns lasts), unless the
\* output is complete or the conversation stopped, whatever the polls do meanwhile.
ViewReconnects ==
    (\E c \in Conns : Ours(c) /\ link[c] = "closed")
        ~> (\/ \A c \in Conns : Ours(c) => link[c] # "closed"
            \/ complete \/ exited \/ Unused = {})

\* "A view owns all terminal callbacks and connections until disposed"
\* (terminal.js): no connection but the view's own is open.
NoOrphanConnection ==
    \A c \in Conns : link[c] \in {"connecting", "open"} => Ours(c)
=============================================================================
