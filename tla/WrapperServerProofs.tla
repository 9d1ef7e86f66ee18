------------------------- MODULE WrapperServerProofs -------------------------
(***************************************************************************)
(* Proofs about WrapperServer, for any number of terminal handlers and any *)
(* amount of output.  Three goroutines (serve, copyHarnessOutput and its   *)
(* reader), the handlers and Process.run end one after another; IInv says  *)
(* what each of them has left behind when the next one goes on.            *)
(***************************************************************************)
EXTENDS WrapperServer, SequenceTheorems, TLAPS

\* Nothing runs before Start has succeeded.
Unstarted ==
    /\ main = "none" =>
          /\ leader = "none" /\ ~group /\ ~pty /\ run = "none"
          /\ output = "wait" /\ reader = "reading"
    /\ run = "none" => main = "none"
    /\ wrap = "setup" => main = "none"
    /\ main = "none" => \A h \in Handlers : handler[h] = "none"

\* The order in which the harness, its output and its terminal come to an end.
Joined ==
    /\ run \in {"cleanup", "done"} => leader = "reaped" /\ ~group
    /\ output # "wait" => run = "done"
    /\ output \in {"release", "publish", "done"} => reader = "done"
    /\ output \in {"publish", "done"} => ~pty

\* What serve has seen to at each of its places.
Served ==
    /\ main \in {"drain", "drainStopped", "cleanup", "shutdown", "join", "joinSockets", "done"}
          => http # "serving"
    /\ main \in {"closing", "drain", "drainStopped"} => draining
    /\ main \in {"shutdown", "join", "joinSockets", "done"} => stopped
    /\ main \in {"joinSockets", "done"} => output = "done"
    /\ main = "done" => \A h \in Handlers : handler[h] = "none"

\* A command is only queued or carried out for a handler that will join it.
Inputs ==
    /\ \A h \in Handlers :
          input[h] \in {"queued", "writing"} => handler[h] \in {"streaming", "closing"}
    /\ \A h, g \in Handlers : input[h] = "writing" /\ input[g] = "writing" => h = g

\* Why output may be lost.
Excused == timedOut \/ copyErr \/ SocketsStopped

\* Without an excuse nobody cancels the harness, the terminal stays open until the
\* reader is done, and it is done because the harness and its heirs are.
Kept ==
    /\ canceled => Excused \/ run = "done"
    /\ main # "none" /\ ~pty => Excused \/ output \in {"publish", "done"}
    /\ reader = "done" => Excused \/ (~slave /\ consumed = produced)
    /\ output \in {"cut", "join"} => timedOut
    /\ reader = "failed" => copyErr

\* The records written so far.
Written ==
    /\ wrap \in {"setup", "report"} => records = <<>>
    /\ wrap = "serving" => records = <<"address">>

IInv == TypeOK /\ Unstarted /\ Joined /\ Served /\ Inputs /\ Kept /\ Written

-----------------------------------------------------------------------------
\* Appending the exit record.
LEMMA AppendExit == Append(<<"address">>, "exit") = <<"address", "exit">>
<1> DEFINE S == {"address", "exit"}
           s == Append(<<"address">>, "exit")
           t == <<"address", "exit">>
<1>1. s \in Seq(S) /\ Len(s) = 2 /\ s[1] = "address" /\ s[2] = "exit"
    <2>1. <<"address">> \in Seq(S) /\ Len(<<"address">>) = 1 /\ <<"address">>[1] = "address"
        OBVIOUS
    <2>2. s \in Seq(S) /\ Len(s) = 2
        BY <2>1
    <2>3. s[1] = "address" /\ s[2] = "exit"
        BY <2>1
    <2> QED
        BY <2>2, <2>3
<1>2. t \in Seq(S) /\ Len(t) = 2 /\ t[1] = "address" /\ t[2] = "exit"
    OBVIOUS
<1> HIDE DEF s, t, S
<1>3. \A i \in 1..Len(s) : s[i] = t[i]
    BY <1>1, <1>2
<1>4. s = t
    BY <1>1, <1>2, <1>3, SeqEqual
<1> QED
    BY <1>4 DEF s, t

\* Steps of runWrapCommand.
LEMMA WrapSteps ==
    ASSUME IInv, Wrap
    PROVE  IInv'
<1> USE MaxOutputAssumption DEF IInv, TypeOK, ProcessTypeOK, Unstarted, Joined, Served, Inputs,
        Kept, Written, Excused, SocketsStopped, vars, processVars, leaderVars, ttyVars,
        serverVars, outputVars, readerVars, handlerVars, wrapVars
<1>1. ASSUME SetupFails PROVE IInv'
    BY <1>1 DEF SetupFails
<1>2. ASSUME Started PROVE IInv'
    BY <1>2 DEF Started, ProcessStart
<1>3. ASSUME ReportStartup PROVE IInv'
    BY <1>3 DEF ReportStartup
<1>4. ASSUME ReportExit PROVE IInv'
    <2>1. TypeOK'
        <3>1. records' \in {<<>>, <<"error">>, <<"address">>, <<"address", "exit">>}
            BY <1>4, AppendExit DEF ReportExit
        <3> QED
            BY <1>4, <3>1 DEF ReportExit
    <2>2. Unstarted'
        BY <1>4 DEF ReportExit
    <2>3. Joined'
        BY <1>4 DEF ReportExit
    <2>4. Served'
        BY <1>4 DEF ReportExit
    <2>5. Inputs'
        BY <1>4 DEF ReportExit
    <2>6. Kept'
        BY <1>4 DEF ReportExit
    <2>7. Written'
        BY <1>4 DEF ReportExit
    <2> QED
        BY <2>1, <2>2, <2>3, <2>4, <2>5, <2>6, <2>7
<1>5. ASSUME ShutdownServer PROVE IInv'
    BY <1>5 DEF ShutdownServer
<1>6. ASSUME Exit PROVE IInv'
    BY <1>6 DEF Exit
<1> QED
    BY <1>1, <1>2, <1>3, <1>4, <1>5, <1>6 DEF Wrap

\* Steps of the goroutine in io.Copy, whose failure shuts the harness down.
LEMMA CopySteps ==
    ASSUME IInv, Reader \/ CopyFails
    PROVE  IInv'
<1> USE MaxOutputAssumption DEF IInv, TypeOK, ProcessTypeOK, Unstarted, Joined, Served, Inputs,
        Kept, Written, Excused, SocketsStopped, vars, processVars, leaderVars, ttyVars,
        serverVars, outputVars, readerVars, handlerVars, wrapVars
<1>1. ASSUME ReadOutput PROVE IInv'
    BY <1>1 DEF ReadOutput, ReadData, EndOfFile
<1>2. ASSUME CopyFails PROVE IInv'
    BY <1>2 DEF CopyFails, ShutdownBegins
<1>3. ASSUME CopyFailed PROVE IInv'
    <2>1. TypeOK'
        <3>1. ProcessTypeOK'
            BY <1>3 DEF CopyFailed, ShutdownEnds
        <3>2. UNCHANGED records
            BY <1>3 DEF CopyFailed, ShutdownEnds
        <3> QED
            BY <1>3, <3>1, <3>2 DEF CopyFailed, ShutdownEnds
    <2>2. Unstarted'
        BY <1>3 DEF CopyFailed, ShutdownEnds
    <2>3. Joined'
        BY <1>3 DEF CopyFailed, ShutdownEnds
    <2>4. Served'
        BY <1>3 DEF CopyFailed, ShutdownEnds
    <2>5. Inputs'
        BY <1>3 DEF CopyFailed, ShutdownEnds
    <2>6. Kept'
        BY <1>3 DEF CopyFailed, ShutdownEnds
    <2>7. Written'
        BY <1>3 DEF CopyFailed, ShutdownEnds
    <2> QED
        BY <2>1, <2>2, <2>3, <2>4, <2>5, <2>6, <2>7
<1> QED
    BY <1>1, <1>2, <1>3 DEF Reader

\* Steps of copyHarnessOutput and the goroutine around it.
LEMMA OutputSteps ==
    ASSUME IInv, Output
    PROVE  IInv'
<1> USE MaxOutputAssumption DEF IInv, TypeOK, ProcessTypeOK, Unstarted, Joined, Served, Inputs,
        Kept, Written, Excused, SocketsStopped, vars, processVars, leaderVars, ttyVars,
        serverVars, outputVars, readerVars, handlerVars, wrapVars
<1>1. ASSUME HarnessJoined PROVE IInv'
    BY <1>1 DEF HarnessJoined
<1>2. ASSUME Drained PROVE IInv'
    BY <1>2 DEF Drained
<1>3. ASSUME CutDrain PROVE IInv'
    BY <1>3 DEF CutDrain, ShutdownBegins
<1>4. ASSUME DrainCut PROVE IInv'
    <2>1. TypeOK'
        <3>1. ProcessTypeOK'
            BY <1>4 DEF DrainCut, ShutdownEnds
        <3>2. UNCHANGED records
            BY <1>4 DEF DrainCut, ShutdownEnds
        <3> QED
            BY <1>4, <3>1, <3>2 DEF DrainCut, ShutdownEnds
    <2>2. Unstarted'
        BY <1>4 DEF DrainCut, ShutdownEnds
    <2>3. Joined'
        BY <1>4 DEF DrainCut, ShutdownEnds
    <2>4. Served'
        BY <1>4 DEF DrainCut, ShutdownEnds
    <2>5. Inputs'
        BY <1>4 DEF DrainCut, ShutdownEnds
    <2>6. Kept'
        BY <1>4 DEF DrainCut, ShutdownEnds
    <2>7. Written'
        BY <1>4 DEF DrainCut, ShutdownEnds
    <2> QED
        BY <2>1, <2>2, <2>3, <2>4, <2>5, <2>6, <2>7
<1>5. ASSUME Release PROVE IInv'
    <2>1. TypeOK'
        <3>1. ProcessTypeOK'
            BY <1>5 DEF Release, ShutdownEnds
        <3>2. UNCHANGED records
            BY <1>5 DEF Release, ShutdownEnds
        <3> QED
            BY <1>5, <3>1, <3>2 DEF Release, ShutdownEnds
    <2>2. Unstarted'
        BY <1>5 DEF Release, ShutdownEnds
    <2>3. Joined'
        BY <1>5 DEF Release, ShutdownEnds
    <2>4. Served'
        BY <1>5 DEF Release, ShutdownEnds
    <2>5. Inputs'
        BY <1>5 DEF Release, ShutdownEnds
    <2>6. Kept'
        BY <1>5 DEF Release, ShutdownEnds
    <2>7. Written'
        BY <1>5 DEF Release, ShutdownEnds
    <2> QED
        BY <2>1, <2>2, <2>3, <2>4, <2>5, <2>6, <2>7
<1>6. ASSUME PublishExit PROVE IInv'
    BY <1>6 DEF PublishExit
<1> QED
    BY <1>1, <1>2, <1>3, <1>4, <1>5, <1>6 DEF Output

\* Steps of serve and of its HTTP server.
LEMMA ServeSteps ==
    ASSUME IInv, Serve \/ HTTPFails
    PROVE  IInv'
<1> USE MaxOutputAssumption DEF IInv, TypeOK, ProcessTypeOK, Unstarted, Joined, Served, Inputs,
        Kept, Written, Excused, SocketsStopped, vars, processVars, leaderVars, ttyVars,
        serverVars, outputVars, readerVars, handlerVars, wrapVars
<1>1. ASSUME HTTPFails PROVE IInv'
    BY <1>1 DEF HTTPFails
<1>2. ASSUME ServeEnded PROVE IInv'
    BY <1>2 DEF ServeEnded
<1>3. ASSUME HarnessEnded PROVE IInv'
    BY <1>3 DEF HarnessEnded
<1>4. ASSUME CloseHTTP PROVE IInv'
    <2>1. TypeOK'
        BY <1>4 DEF CloseHTTP
    <2>2. Unstarted'
        BY <1>4 DEF CloseHTTP
    <2>3. Joined'
        BY <1>4 DEF CloseHTTP
    <2>4. Served'
        <3>1. http' # "serving"
            BY <1>4 DEF CloseHTTP
        <3> QED
            BY <1>4, <3>1 DEF CloseHTTP
    <2>5. Inputs'
        BY <1>4 DEF CloseHTTP
    <2>6. Kept'
        BY <1>4 DEF CloseHTTP
    <2>7. Written'
        BY <1>4 DEF CloseHTTP
    <2> QED
        BY <2>1, <2>2, <2>3, <2>4, <2>5, <2>6, <2>7
<1>5. ASSUME StopDrain PROVE IInv'
    BY <1>5 DEF StopDrain
<1>6. ASSUME SocketsDrained PROVE IInv'
    BY <1>6 DEF SocketsDrained, Attached
<1>7. ASSUME StopSockets PROVE IInv'
    BY <1>7 DEF StopSockets
<1>8. ASSUME StopHTTP PROVE IInv'
    BY <1>8 DEF StopHTTP
<1>9. ASSUME Cleanup PROVE IInv'
    BY <1>9 DEF Cleanup, ShutdownBegins
<1>10. ASSUME ShutdownHarness PROVE IInv'
    <2>1. TypeOK'
        <3>1. ProcessTypeOK'
            BY <1>10 DEF ShutdownHarness, ShutdownEnds
        <3>2. UNCHANGED records
            BY <1>10 DEF ShutdownHarness, ShutdownEnds
        <3> QED
            BY <1>10, <3>1, <3>2 DEF ShutdownHarness, ShutdownEnds
    <2>2. Unstarted'
        BY <1>10 DEF ShutdownHarness, ShutdownEnds
    <2>3. Joined'
        BY <1>10 DEF ShutdownHarness, ShutdownEnds
    <2>4. Served'
        BY <1>10 DEF ShutdownHarness, ShutdownEnds
    <2>5. Inputs'
        BY <1>10 DEF ShutdownHarness, ShutdownEnds
    <2>6. Kept'
        BY <1>10 DEF ShutdownHarness, ShutdownEnds
    <2>7. Written'
        BY <1>10 DEF ShutdownHarness, ShutdownEnds
    <2> QED
        BY <2>1, <2>2, <2>3, <2>4, <2>5, <2>6, <2>7
<1>11. ASSUME JoinOutput PROVE IInv'
    BY <1>11 DEF JoinOutput
<1>12. ASSUME JoinSockets PROVE IInv'
    BY <1>12 DEF JoinSockets, Attached
<1> QED
    BY <1>1, <1>2, <1>3, <1>4, <1>5, <1>6, <1>7, <1>8, <1>9, <1>10, <1>11, <1>12 DEF Serve

\* Steps of the processes in the terminal, and of Process.run.
LEMMA HarnessSteps ==
    ASSUME IInv, Harness
    PROVE  IInv'
<1> USE MaxOutputAssumption DEF IInv, TypeOK, ProcessTypeOK, Unstarted, Joined, Served, Inputs,
        Kept, Written, Excused, SocketsStopped, vars, processVars, leaderVars, ttyVars,
        serverVars, outputVars, readerVars, handlerVars, wrapVars
<1> USE DEF Harness
<1>1. ASSUME LeaderExits PROVE IInv'
    BY <1>1 DEF LeaderExits
<1>2. ASSUME Fork PROVE IInv'
    BY <1>2 DEF Fork
<1>3. ASSUME Produce PROVE IInv'
    BY <1>3 DEF Produce
<1>4. ASSUME SlaveCloses PROVE IInv'
    <2>1. TypeOK'
        <3>1. ProcessTypeOK'
            BY <1>4 DEF SlaveCloses
        <3>2. UNCHANGED records
            BY <1>4 DEF SlaveCloses
        <3> QED
            BY <1>4, <3>1, <3>2 DEF SlaveCloses
    <2>2. Unstarted'
        BY <1>4 DEF SlaveCloses
    <2>3. Joined'
        BY <1>4 DEF SlaveCloses
    <2>4. Served'
        BY <1>4 DEF SlaveCloses
    <2>5. Inputs'
        BY <1>4 DEF SlaveCloses
    <2>6. Kept'
        BY <1>4 DEF SlaveCloses
    <2>7. Written'
        BY <1>4 DEF SlaveCloses
    <2> QED
        BY <2>1, <2>2, <2>3, <2>4, <2>5, <2>6, <2>7
<1>5. ASSUME Reap PROVE IInv'
    <2>1. TypeOK'
        <3>1. ProcessTypeOK'
            BY <1>5 DEF Reap
        <3>2. UNCHANGED records
            BY <1>5 DEF Reap
        <3> QED
            BY <1>5, <3>1, <3>2 DEF Reap
    <2>2. Unstarted'
        BY <1>5 DEF Reap
    <2>3. Joined'
        BY <1>5 DEF Reap
    <2>4. Served'
        BY <1>5 DEF Reap
    <2>5. Inputs'
        BY <1>5 DEF Reap
    <2>6. Kept'
        BY <1>5 DEF Reap
    <2>7. Written'
        BY <1>5 DEF Reap
    <2> QED
        BY <2>1, <2>2, <2>3, <2>4, <2>5, <2>6, <2>7
<1>6. ASSUME FinishRun PROVE IInv'
    BY <1>6 DEF FinishRun
<1> QED
    BY <1>1, <1>2, <1>3, <1>4, <1>5, <1>6 DEF Harness, Processes, Run

\* Steps of a handler and its readInput.
LEMMA HandlerSteps ==
    ASSUME IInv, NEW h \in Handlers, Handler(h)
    PROVE  IInv'
<1> USE MaxOutputAssumption DEF IInv, TypeOK, ProcessTypeOK, Unstarted, Joined, Served, Inputs,
        Kept, Written, Excused, SocketsStopped, vars, processVars, leaderVars, ttyVars,
        serverVars, outputVars, readerVars, handlerVars, wrapVars
<1>1. ASSUME Register(h) PROVE IInv'
    BY <1>1 DEF Register
<1>2. ASSUME Open(h) PROVE IInv'
    BY <1>2 DEF Open
<1>3. ASSUME StreamEnds(h) PROVE IInv'
    BY <1>3 DEF StreamEnds
<1>4. ASSUME Leave(h) PROVE IInv'
    BY <1>4 DEF Leave
<1>5. ASSUME ReadInput(h) PROVE IInv'
    BY <1>5 DEF ReadInput
<1>6. ASSUME ReadFails(h) PROVE IInv'
    BY <1>6 DEF ReadFails, InputEnds
<1>7. ASSUME LockInput(h) PROVE IInv'
    BY <1>7 DEF LockInput, InputEnds, Canceled
<1>8. ASSUME WriteEnds(h) PROVE IInv'
    BY <1>8 DEF WriteEnds, InputEnds
<1> QED
    BY <1>1, <1>2, <1>3, <1>4, <1>5, <1>6, <1>7, <1>8 DEF Handler

\* A signal, and stuttering.
LEMMA OtherSteps ==
    ASSUME IInv, Interrupt \/ UNCHANGED vars
    PROVE  IInv'
<1> USE MaxOutputAssumption DEF IInv, TypeOK, ProcessTypeOK, Unstarted, Joined, Served, Inputs,
        Kept, Written, Excused, SocketsStopped, vars, processVars, leaderVars, ttyVars,
        serverVars, outputVars, readerVars, handlerVars, wrapVars
<1>1. ASSUME Interrupt PROVE IInv'
    BY <1>1 DEF Interrupt
<1>2. ASSUME UNCHANGED vars PROVE IInv'
    BY <1>2
<1> QED
    BY <1>1, <1>2

\* Before anything runs.
LEMMA InitIInv == Init => IInv
<1> SUFFICES ASSUME Init PROVE IInv
    OBVIOUS
<1> USE DEF Init, ProcessInit
<1>1. ProcessTypeOK
    <2>1. produced \in 0..MaxOutput /\ consumed \in 0..produced
        BY MaxOutputAssumption
    <2> QED
        BY <2>1, Zenon DEF ProcessTypeOK
<1>2. TypeOK
    BY <1>1 DEF TypeOK
<1>3. Unstarted /\ Joined /\ Served
    BY DEF Unstarted, Joined, Served
<1>4. Inputs /\ Kept /\ Written
    BY DEF Inputs, Kept, Written
<1> QED
    BY <1>2, <1>3, <1>4 DEF IInv

\* Every step of the specification preserves the invariant.
LEMMA NextIInv == IInv /\ [Next]_vars => IInv'
<1> SUFFICES ASSUME IInv, [Next]_vars PROVE IInv'
    OBVIOUS
<1>1. CASE Wrap
    BY <1>1, WrapSteps
<1>2. CASE Reader \/ CopyFails
    BY <1>2, CopySteps
<1>3. CASE Output
    BY <1>3, OutputSteps
<1>4. CASE Serve \/ HTTPFails
    BY <1>4, ServeSteps
<1>5. CASE Harness
    BY <1>5, HarnessSteps
<1>6. CASE \E h \in Handlers : Handler(h)
    BY <1>6, HandlerSteps
<1>7. CASE Interrupt \/ UNCHANGED vars
    BY <1>7, OtherSteps
<1> QED
    BY <1>1, <1>2, <1>3, <1>4, <1>5, <1>6, <1>7 DEF Next, Terminated

\* The invariant the theorems below rest on.
LEMMA Inductive == Spec => []IInv
BY InitIInv, NextIInv, PTL DEF Spec

-----------------------------------------------------------------------------
\* The types of all the state, and records that are never written twice or late.
THEOREM TypeCorrectness == Spec => []TypeOK
<1>1. IInv => TypeOK
    BY DEF IInv
<1> QED
    BY <1>1, Inductive, PTL

\* Server.Wait returns with the harness and its group gone, the terminal closed and
\* every goroutine joined, whichever of them ended first.
THEOREM WaitIsThorough == Spec => []WaitMeansStopped
<1>1. IInv => WaitMeansStopped
    BY DEF IInv, TypeOK, ProcessTypeOK, Joined, Served, Inputs, WaitMeansStopped
<1> QED
    BY <1>1, Inductive, PTL

\* Once handlers are awaited (on the drain, cancel and error paths) none is added:
\* servePTY finds draining set or its context canceled.
THEOREM RegistrationEnds == Spec => NoLateRegistration
<1>1. ASSUME IInv, [Next]_vars, SocketsAwaited PROVE Attached' \subseteq Attached
    <2> SUFFICES ASSUME NEW h \in Handlers, handler'[h] # "none", handler[h] = "none"
                 PROVE  FALSE
        BY DEF Attached
    <2>1. draining \/ SocketsStopped
        BY <1>1 DEF IInv, Served, SocketsAwaited, SocketsStopped
    <2>2. handler' = handler \/ \E g \in Handlers : Handler(g)
        BY <1>1 DEF Next, Wrap, SetupFails, Started, ReportStartup, ReportExit, ShutdownServer,
            Exit, Interrupt, Reader, ReadOutput, CopyFails, CopyFailed, Output, HarnessJoined,
            Drained, CutDrain, DrainCut, Release, PublishExit, Serve, ServeEnded, HarnessEnded,
            CloseHTTP, StopDrain, SocketsDrained, StopSockets, StopHTTP, Cleanup,
            ShutdownHarness, JoinOutput, JoinSockets, HTTPFails, Harness, Terminated,
            vars, handlerVars
    <2>3. PICK g \in Handlers : Handler(g)
        BY <2>2
    <2>4. /\ \A f \in Handlers : f # g => handler'[f] = handler[f]
          /\ handler[g] = "none" => handler'[g] = "none"
        BY <1>1, <2>1, <2>3 DEF IInv, TypeOK, Inputs, Handler, Register, Open, StreamEnds, Leave,
            ReadInput, ReadFails, LockInput, WriteEnds, InputEnds
    <2> QED
        BY <2>4
<1> QED
    BY <1>1, Inductive, PTL DEF Spec, NoLateRegistration

\* Commands reach the harness one at a time, and only from handlers that are
\* attached and not canceled, however long they waited for inputMu.
THEOREM InputIsSerial == Spec => InputSerialized
<1> DEFINE Serial ==
        \A h \in Handlers :
            input[h] # "writing" /\ input'[h] = "writing" =>
                /\ h \in Attached /\ ~Canceled(h)
                /\ \A other \in Handlers \ {h} : input'[other] # "writing"
<1>1. ASSUME IInv, [Next]_vars PROVE Serial
    <2> SUFFICES ASSUME NEW h \in Handlers, input[h] # "writing", input'[h] = "writing"
                 PROVE  /\ h \in Attached /\ ~Canceled(h)
                        /\ \A other \in Handlers \ {h} : input'[other] # "writing"
        OBVIOUS
    <2>1. \E g \in Handlers : Handler(g)
        BY <1>1 DEF Next, Wrap, SetupFails, Started, ReportStartup, ReportExit, ShutdownServer,
            Exit, Interrupt, Reader, ReadOutput, CopyFails, CopyFailed, Output, HarnessJoined,
            Drained, CutDrain, DrainCut, Release, PublishExit, Serve, ServeEnded, HarnessEnded,
            CloseHTTP, StopDrain, SocketsDrained, StopSockets, StopHTTP, Cleanup,
            ShutdownHarness, JoinOutput, JoinSockets, HTTPFails, Harness, Terminated,
            vars, handlerVars
    <2>2. PICK g \in Handlers : Handler(g)
        BY <2>1
    <2>3. g = h /\ LockInput(h)
        BY <1>1, <2>2 DEF IInv, TypeOK, Handler, Register, Open, StreamEnds, Leave,
            ReadInput, ReadFails, LockInput, WriteEnds, InputEnds
    <2>4. ~Canceled(h) /\ input' = [input EXCEPT ![h] = "writing"]
        BY <1>1, <2>3 DEF LockInput, InputEnds, IInv, TypeOK
    <2> QED
        BY <1>1, <2>3, <2>4 DEF LockInput, Attached, IInv, TypeOK, Inputs
<1> QED
    BY <1>1, Inductive, PTL DEF Spec, InputSerialized

\* When the terminal is finished everything the harness wrote has been saved, or its
\* final drain was cut, or copying failed, or the wrapper was told to stop.
THEOREM OutputIsKept == Spec => FinishLosesNothing
<1>1. ASSUME IInv, [Next]_vars, Finished', ~Finished
      PROVE  consumed = produced \/ timedOut \/ copyErr \/ SocketsStopped
    <2>1. output' # output
        BY <1>1 DEF Finished
    <2>2. Output
        BY <1>1, <2>1 DEF Next, Wrap, SetupFails, Started, ReportStartup, ReportExit,
            ShutdownServer, Exit, Interrupt, Reader, ReadOutput, CopyFails, CopyFailed, Serve,
            ServeEnded, HarnessEnded, CloseHTTP, StopDrain, SocketsDrained, StopSockets,
            StopHTTP, Cleanup, ShutdownHarness, JoinOutput, JoinSockets, HTTPFails, Harness,
            Handler, Register, Open, StreamEnds, Leave, ReadInput, ReadFails, LockInput,
            WriteEnds, InputEnds, Terminated, vars, outputVars
    <2>3. output = "release"
        BY <1>1, <2>2 DEF Output, HarnessJoined, Drained, CutDrain, DrainCut, Release,
            PublishExit, Finished
    <2> QED
        BY <1>1, <2>3 DEF IInv, Joined, Kept, Excused
<1> QED
    BY <1>1, Inductive, PTL DEF Spec, FinishLosesNothing

\* The subprocess as its pipe and its harness show it.
LEMMA WrapSeen ==
    ASSUME IInv, Wrap
    PROVE  Seen!Child \/ UNCHANGED <<ChildPhase, records, leader = "reaped">>
<1> USE DEF Seen!Child, Seen!ioVars, Seen!childVars, Seen!launchVars
<1>1. CASE SetupFails
    <2>1. Append(records, "error") = <<"error">> /\ leader = "none" /\ leader' = leader
        BY <1>1 DEF SetupFails, IInv, Written, Unstarted, processVars, leaderVars
    <2>2. ChildPhase = "setup" /\ ChildPhase' = "exiting"
        BY <1>1 DEF SetupFails, ChildPhase
    <2> QED
        BY <1>1, <2>1, <2>2 DEF SetupFails, Seen!ChildSetupFails
<1>2. CASE Started
    <2>1. ChildPhase = "setup" /\ ChildPhase' = "started" /\ leader = "none" /\ leader' = "running"
        BY <1>2 DEF Started, ProcessStart, ChildPhase, IInv, Unstarted
    <2> QED
        BY <1>2, <2>1 DEF Started, Seen!HarnessStarts
<1>3. CASE ReportStartup
    <2>1. records = <<>> /\ ChildPhase = "started" /\ leader' = leader
        BY <1>3 DEF ReportStartup, ChildPhase, IInv, Written, processVars, leaderVars
    <2>2. CASE records' = <<>>
        BY <1>3, <2>1, <2>2 DEF ReportStartup, ChildPhase
    <2>3. CASE records' = <<"address">>
        <3>1. Append(records, "address") = <<"address">>
            BY <2>1
        <3>2. ChildPhase' = "serving"
            BY <1>3, <2>3 DEF ReportStartup, ChildPhase
        <3> QED
            BY <2>1, <2>3, <3>1, <3>2 DEF Seen!ChildReportsAddress
    <2> QED
        BY <1>3, <2>2, <2>3 DEF ReportStartup
<1>4. CASE ReportExit
    <2>1. records = <<"address">> /\ ChildPhase = "serving" /\ leader' = leader
        BY <1>4 DEF ReportExit, ChildPhase, IInv, Written, processVars, leaderVars
    <2>2. leader = "reaped"
        BY <1>4 DEF ReportExit, IInv, Served, Joined
    <2>3. CASE UNCHANGED records
        BY <1>4, <2>1, <2>3 DEF ReportExit, ChildPhase
    <2>4. CASE records' = Append(records, "exit")
        <3>1. ChildPhase' = "exiting"
            BY <1>4, <2>1, <2>4, AppendExit DEF ReportExit, ChildPhase
        <3> QED
            BY <2>1, <2>2, <2>4, <3>1 DEF Seen!ChildStops
    <2> QED
        BY <1>4, <2>3, <2>4 DEF ReportExit
<1>5. CASE ShutdownServer
    BY <1>5 DEF ShutdownServer, ChildPhase, processVars, leaderVars
<1>6. CASE Exit
    <2>1. ChildPhase \in {"started", "serving", "exiting"} /\ ChildPhase' = "exited"
        BY <1>6 DEF Exit, ChildPhase
    <2> QED
        BY <1>6, <2>1 DEF Exit, Seen!ChildKilled, processVars, leaderVars
<1> QED
    BY <1>1, <1>2, <1>3, <1>4, <1>5, <1>6 DEF Wrap

\* Of the processes, the pipe's other end is told when the child is reaped.
LEMMA ProcessesSeen ==
    ASSUME IInv, UNCHANGED <<wrap, records>>,
           leader' = leader
             \/ (leader = "running" /\ leader' = "exited")
             \/ (leader = "exited" /\ leader' = "reaped")
    PROVE  Seen!Child \/ UNCHANGED <<ChildPhase, records, leader = "reaped">>
<1>1. ChildPhase' = ChildPhase
    BY DEF ChildPhase
<1>2. CASE leader = "exited" /\ leader' = "reaped"
    BY <1>1, <1>2 DEF Seen!Child, Seen!HarnessExits, Seen!ioVars, Seen!launchVars
<1>3. CASE leader' = leader \/ (leader = "running" /\ leader' = "exited")
    BY <1>1, <1>3
<1> QED
    BY <1>2, <1>3

\* What startWrapper sees of the subprocess is what WrapperChild, and so the proof
\* that an exit report vouches for the harness, assumes of it.
THEOREM KeepsChildContract == Spec => FollowsWrapperChild
<1>1. ASSUME IInv, [Next]_vars
      PROVE  Seen!Child \/ UNCHANGED <<ChildPhase, records, leader = "reaped">>
    <2>1. CASE Wrap
        BY <1>1, <2>1, WrapSeen
    <2>2. CASE ~Wrap
        <3>1. /\ UNCHANGED <<wrap, records>>
              /\ \/ leader' = leader
                 \/ leader = "running" /\ leader' = "exited"
                 \/ leader = "exited" /\ leader' = "reaped"
            <4> USE DEF vars, processVars, leaderVars, wrapVars
            <4>1. CASE Reader \/ CopyFails
                BY <4>1 DEF Reader, ReadOutput, ReadData, CopyFails, ShutdownBegins,
                    CopyFailed, ShutdownEnds
            <4>2. CASE Output
                BY <4>2 DEF Output, HarnessJoined, Drained, CutDrain, ShutdownBegins, DrainCut,
                    ShutdownEnds, Release, PublishExit
            <4>3. CASE Serve \/ HTTPFails
                BY <4>3 DEF Serve, HTTPFails, ServeEnded, HarnessEnded, CloseHTTP, StopDrain,
                    SocketsDrained, StopSockets, StopHTTP, Cleanup, ShutdownBegins,
                    ShutdownHarness, ShutdownEnds, JoinOutput, JoinSockets
            <4>4. CASE Harness
                BY <4>4 DEF Harness, Processes, LeaderExits, Fork, Produce, SlaveCloses, Run,
                    Reap, FinishRun
            <4>5. CASE \E h \in Handlers : Handler(h)
                BY <4>5 DEF Handler, Register, Open, StreamEnds, Leave, ReadInput, ReadFails,
                    LockInput, WriteEnds
            <4>6. CASE Interrupt \/ UNCHANGED vars
                BY <4>6 DEF Interrupt
            <4> QED
                BY <1>1, <2>2, <4>1, <4>2, <4>3, <4>4, <4>5, <4>6 DEF Next, Terminated
        <3> QED
            BY <1>1, <3>1, ProcessesSeen
    <2> QED
        BY <2>1, <2>2
<1> QED
    BY <1>1, Inductive, PTL DEF Spec, FollowsWrapperChild
=============================================================================
