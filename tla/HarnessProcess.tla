--------------------------- MODULE HarnessProcess ---------------------------
(***************************************************************************)
(* pty.Process (internal/harness/pty/process.go): the harness, its process *)
(* group and its terminal.                                                 *)
(*                                                                         *)
(* The module holds the state of one Process and the steps its owner takes *)
(* on it; WrapperServer says who takes them.  A chunk of output is counted,*)
(* its bytes are not modelled.  Timers may fire at any time.               *)
(***************************************************************************)
EXTENDS Naturals

CONSTANT MaxOutput   \* bound: chunks of output of one harness
ASSUME MaxOutputAssumption == MaxOutput \in Nat

VARIABLES
    leader,    \* the child: "none", "running", "exited", "reaped"
    group,     \* other members of its process group are alive
    slave,     \* some process, in the group or not, has the slave side open
    pty,       \* the master side is open
    produced,  \* chunks written to the slave
    consumed,  \* chunks read from the master
    canceled,  \* the context of exec.CommandContext
    run        \* Process.run: "none", "waiting", "cleanup", "done" (done closed)

leaderVars == <<leader, group>>
ttyVars    == <<slave, pty, produced, consumed>>
processVars == <<leaderVars, ttyVars, canceled, run>>

ProcessInit ==
    /\ leader = "none" /\ group = FALSE
    /\ slave = FALSE /\ pty = FALSE
    /\ produced = 0 /\ consumed = 0
    /\ canceled = FALSE
    /\ run = "none"

\* Start: the harness runs in a new terminal; a failure releases what there is.
ProcessStart ==
    /\ leader' = "running"
    /\ slave' = TRUE /\ pty' = TRUE
    /\ run' = "waiting"
    /\ UNCHANGED <<group, produced, consumed, canceled>>

-----------------------------------------------------------------------------
(* The processes *)

\* By itself, at SIGTERM or SIGHUP, or killed when WaitDelay is over.
LeaderExits ==
    /\ leader = "running"
    /\ leader' = "exited"
    /\ UNCHANGED <<group, ttyVars, canceled, run>>

\* A member of the group that stays until it is killed.
Fork ==
    /\ leader = "running"
    /\ ~group
    /\ group' = TRUE
    /\ UNCHANGED <<leader, ttyVars, canceled, run>>

Produce ==
    /\ slave /\ pty
    /\ produced < MaxOutput
    /\ produced' = produced + 1
    /\ UNCHANGED <<leaderVars, slave, pty, consumed, canceled, run>>

\* The last holder closes the slave.  One outside the group may never do so, and
\* behind a closed master it makes no difference.
SlaveCloses ==
    /\ slave /\ pty
    /\ slave' = FALSE
    /\ UNCHANGED <<leaderVars, pty, produced, consumed, canceled, run>>

Processes == LeaderExits \/ Fork \/ Produce \/ SlaveCloses

-----------------------------------------------------------------------------
(* Process.run *)

\* cmd.Wait has reaped the child; then the rest of the group is killed.
Reap_LeaderOnly ==
    /\ run = "waiting"
    /\ leader = "exited"
    /\ leader' = "reaped"
    /\ run' = "cleanup"
    /\ UNCHANGED <<group, ttyVars, canceled>>
Reap ==
    /\ run = "waiting"
    /\ leader = "exited"
    /\ leader' = "reaped"
    /\ group' = FALSE
    /\ run' = "cleanup"
    /\ UNCHANGED <<ttyVars, canceled>>

\* Cancellation closes the master; after a normal exit it stays open to be read.
FinishRun_CancelFirst ==
    /\ run = "cleanup"
    /\ canceled' = TRUE
    /\ pty' = FALSE
    /\ run' = "done"
    /\ UNCHANGED <<leaderVars, slave, produced, consumed>>
FinishRun ==
    /\ run = "cleanup"
    /\ pty' = (pty /\ ~canceled)
    /\ canceled' = TRUE
    /\ run' = "done"
    /\ UNCHANGED <<leaderVars, slave, produced, consumed>>

Run == Reap \/ FinishRun

-----------------------------------------------------------------------------
(* What the owner does *)

\* Read returns data, or end of file when the master is closed or the slave is
\* and nothing is left in between.
ReadData ==
    /\ pty
    /\ consumed < produced
    /\ consumed' = consumed + 1
    /\ UNCHANGED <<leaderVars, slave, pty, produced, canceled, run>>

EndOfFile == ~pty \/ (~slave /\ consumed = produced)

\* Shutdown cancels the command and awaits done.
ShutdownBegins ==
    /\ canceled' = TRUE
    /\ UNCHANGED <<leaderVars, ttyVars, run>>

\* It returns when run is done, or kills the group when its time is over;
\* either way it closes the master.
ShutdownEnds ==
    /\ \/ run = "done" /\ UNCHANGED leaderVars
       \/ /\ leader' = IF leader = "running" THEN "exited" ELSE leader
          /\ group' = FALSE
    /\ pty' = FALSE
    /\ UNCHANGED <<slave, produced, consumed, canceled, run>>

ProcessTypeOK ==
    /\ leader \in {"none", "running", "exited", "reaped"}
    /\ group \in BOOLEAN /\ slave \in BOOLEAN /\ pty \in BOOLEAN
    /\ produced \in 0..MaxOutput
    /\ consumed \in 0..produced
    /\ canceled \in BOOLEAN
    /\ run \in {"none", "waiting", "cleanup", "done"}
=============================================================================
