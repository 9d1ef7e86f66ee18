------------------------- MODULE WrapperChildProofs -------------------------
(***************************************************************************)
(* Proofs about WrapperChild.  The server learns of the harness only from  *)
(* records in a pipe, which is read by one goroutine, closed by another    *)
(* and awaited by a third.  IInv says what each record vouches for, where  *)
(* it is, and who has been joined.                                         *)
(***************************************************************************)
EXTENDS WrapperChild, SequenceTheorems, TLAPS

\* What the pipe may hold.
Contents == {<<>>, <<"error">>, <<"address">>, <<"address", "exit">>, <<"exit">>}

\* The child writes its records in order; the first is read as the startup record.
Records ==
    /\ pipe \in Contents
    /\ reader = "startup" => startup = "empty" /\ pipe # <<"exit">>
    /\ child \in {"none", "setup", "started"} => pipe = <<>> /\ startup = "empty"
    /\ child \in {"setup", "started"} => reader = "startup"
    /\ child = "serving" => IF reader = "startup" THEN pipe = <<"address">> ELSE pipe = <<>>

\* What a record, or the progress of the child, says about the harness.
Vouched ==
    /\ child \in {"none", "setup"} => harness = "none"
    /\ child \in {"started", "serving"} => harness # "none"
    /\ pipe = <<"error">> \/ startup = "error" => harness = "none" /\ child \in {"exiting", "exited"}
    /\ pipe \in {<<"address">>, <<"address", "exit">>} \/ startup = "address" => harness # "none"
    /\ pipe \in {<<"address", "exit">>, <<"exit">>} \/ result => harness = "gone"

\* The waiter reaps the child before it closes the pipe, and is done after the reader.
Joining ==
    /\ waiter # "wait" => child = "exited"
    /\ waiter \in {"closing", "done"} => stdout = "closed"
    /\ waiter = "done" => reader = "done"
    /\ stdout = "closed" => child \in {"none", "exited"}

\* What startWrapper has started, and what it returns on.
Launched ==
    /\ launcher = "spawn" => child = "none" /\ reader = "startup" /\ stdout = "open"
    /\ launcher \in {"await", "shutdown", "join"} => child # "none"
    /\ ret = "none" <=> launcher # "returned"
    /\ ret = "ok" => startup = "address"
    /\ ret = "uncertain" => waiter = "done"
    /\ setupFailed => startup = "error"
    /\ ret = "clean" => harness # "alive"

IInv ==
    /\ TypeOK
    /\ Records
    /\ Vouched
    /\ Joining
    /\ Launched
    /\ FailureReleases

-----------------------------------------------------------------------------
\* Reading and writing the pipe, as far as it ever fills.
LEMMA PipeContents ==
    /\ \A p \in Contents : p \in Seq({"address", "error", "exit"}) /\ Len(p) <= 2
    /\ Head(<<"exit">>) = "exit" /\ Tail(<<"exit">>) = <<>>
    /\ Head(<<"error">>) = "error" /\ Tail(<<"error">>) = <<>>
    /\ Head(<<"address">>) = "address" /\ Tail(<<"address">>) = <<>>
    /\ Head(<<"address", "exit">>) = "address" /\ Tail(<<"address", "exit">>) = <<"exit">>
    /\ Append(<<>>, "exit") = <<"exit">>
    /\ Append(<<>>, "error") = <<"error">>
    /\ Append(<<>>, "address") = <<"address">>
    /\ Append(<<"address">>, "exit") = <<"address", "exit">>
<1>1. \A p \in Contents : p \in Seq({"address", "error", "exit"}) /\ Len(p) <= 2
    <2> DEFINE S == {"address", "error", "exit"}
    <2>1. <<>> \in Seq(S) /\ Len(<<>>) <= 2
        OBVIOUS
    <2>2. <<"error">> \in Seq(S) /\ Len(<<"error">>) <= 2
        OBVIOUS
    <2>3. <<"address">> \in Seq(S) /\ Len(<<"address">>) <= 2
        OBVIOUS
    <2>4. <<"exit">> \in Seq(S) /\ Len(<<"exit">>) <= 2
        OBVIOUS
    <2>5. <<"address", "exit">> \in Seq(S) /\ Len(<<"address", "exit">>) <= 2
        OBVIOUS
    <2> QED
        BY <2>1, <2>2, <2>3, <2>4, <2>5 DEF Contents
<1>2. Head(<<"exit">>) = "exit" /\ Tail(<<"exit">>) = <<>>
    OBVIOUS
<1>3. Head(<<"error">>) = "error" /\ Tail(<<"error">>) = <<>>
    OBVIOUS
<1>4. Head(<<"address">>) = "address" /\ Tail(<<"address">>) = <<>>
    OBVIOUS
<1>5. Head(<<"address", "exit">>) = "address" /\ Tail(<<"address", "exit">>) = <<"exit">>
    OBVIOUS
<1>6. Append(<<>>, "exit") = <<"exit">>
    OBVIOUS
<1>7. Append(<<>>, "error") = <<"error">>
    OBVIOUS
<1>8. Append(<<>>, "address") = <<"address">>
    OBVIOUS
<1>9. Append(<<"address">>, "exit") = <<"address", "exit">>
    <2> DEFINE S == {"address", "error", "exit"}
               s == Append(<<"address">>, "exit")
               t == <<"address", "exit">>
    <2>1. s \in Seq(S) /\ Len(s) = 2 /\ s[1] = "address" /\ s[2] = "exit"
        <3>1. <<"address">> \in Seq(S) /\ Len(<<"address">>) = 1 /\ <<"address">>[1] = "address"
            OBVIOUS
        <3>2. s \in Seq(S) /\ Len(s) = 2
            BY <3>1
        <3>3. s[1] = "address" /\ s[2] = "exit"
            BY <3>1
        <3> QED
            BY <3>2, <3>3
    <2>2. t \in Seq(S) /\ Len(t) = 2
        OBVIOUS
    <2>3. t[1] = "address" /\ t[2] = "exit"
        OBVIOUS
    <2> HIDE DEF s, t, S
    <2>4. \A i \in 1..Len(s) : s[i] = t[i]
        BY <2>1, <2>2, <2>3
    <2>5. s = t
        BY <2>1, <2>2, <2>4, SeqEqual
    <2> QED
        BY <2>5 DEF s, t
<1> QED
    BY <1>1, <1>2, <1>3, <1>4, <1>5, <1>6, <1>7, <1>8, <1>9

\* No two contents of the pipe are alike.
LEMMA ContentsDiffer ==
    /\ <<"exit">> \notin {<<>>, <<"error">>, <<"address">>, <<"address", "exit">>}
    /\ <<"error">> \notin {<<>>, <<"address">>, <<"address", "exit">>}
    /\ <<"address">> \notin {<<>>, <<"address", "exit">>}
    /\ <<"address", "exit">> # <<>>
OBVIOUS

\* The pipe is open and the child has not been spawned.
LEMMA InitIInv == Init => IInv
<1> SUFFICES ASSUME Init PROVE IInv
    OBVIOUS
<1>1. pipe \in Contents
    BY DEF Init, Contents
<1>2. TypeOK
    BY <1>1, PipeContents DEF Init, TypeOK
<1>3. Records
    BY <1>1, ContentsDiffer DEF Init, Records
<1>4. Vouched
    BY ContentsDiffer DEF Init, Vouched
<1>5. Joining /\ Launched /\ FailureReleases
    BY DEF Init, Joining, Launched, FailureReleases
<1> QED
    BY <1>2, <1>3, <1>4, <1>5 DEF IInv

\* Steps of the child write records that are true.
LEMMA ChildStep == ASSUME IInv, Child PROVE IInv'
<1> USE DEF IInv, childVars, ioVars, launchVars
<1>1. CASE ChildSetupFails
    <2>1. pipe' \in Contents
        BY <1>1, PipeContents DEF ChildSetupFails, Records, Vouched, Contents
    <2>2. TypeOK'
        BY <1>1, <2>1, PipeContents, ContentsDiffer DEF ChildSetupFails, TypeOK, Records, Contents
    <2>3. Records'
        BY <1>1, <2>1, PipeContents, ContentsDiffer DEF ChildSetupFails, Records, Joining, Contents
    <2>4. Vouched'
        BY <1>1, <2>1, PipeContents, ContentsDiffer DEF ChildSetupFails, Records, Vouched, Joining, TypeOK, Contents
    <2>5. Joining' /\ Launched' /\ FailureReleases'
        BY <1>1 DEF ChildSetupFails, TypeOK, Joining, Launched, FailureReleases
    <2> QED
        BY <2>2, <2>3, <2>4, <2>5
<1>2. CASE HarnessStarts
    BY <1>2 DEF HarnessStarts, TypeOK, Records, Vouched, Joining, Launched, FailureReleases
<1>3. CASE ChildReportsAddress
    <2>1. pipe' \in Contents
        BY <1>3, PipeContents DEF ChildReportsAddress, Records, Vouched, Contents
    <2>2. TypeOK'
        BY <1>3, <2>1, PipeContents, ContentsDiffer DEF ChildReportsAddress, TypeOK, Records, Contents
    <2>3. Records'
        BY <1>3, <2>1, PipeContents, ContentsDiffer DEF ChildReportsAddress, Records, Joining, Contents
    <2>4. Vouched'
        BY <1>3, <2>1, PipeContents, ContentsDiffer DEF ChildReportsAddress, Records, Vouched, Joining, TypeOK, Contents
    <2>5. Joining' /\ Launched' /\ FailureReleases'
        BY <1>3 DEF ChildReportsAddress, TypeOK, Joining, Launched, FailureReleases
    <2> QED
        BY <2>2, <2>3, <2>4, <2>5
<1>4. CASE HarnessExits
    BY <1>4 DEF HarnessExits, TypeOK, Records, Vouched, Joining, Launched, FailureReleases
<1>5. CASE ChildStops
    <2>1. pipe' \in Contents
        BY <1>5, PipeContents DEF ChildStops, Records, Vouched, Contents
    <2>2. TypeOK'
        BY <1>5, <2>1, PipeContents, ContentsDiffer DEF ChildStops, TypeOK, Records, Contents
    <2>3. Records'
        BY <1>5, <2>1, PipeContents, ContentsDiffer DEF ChildStops, Records, Joining, Contents
    <2>4. Vouched'
        BY <1>5, <2>1, PipeContents, ContentsDiffer DEF ChildStops, Records, Vouched, Joining, TypeOK, Contents
    <2>5. Joining' /\ Launched' /\ FailureReleases'
        BY <1>5 DEF ChildStops, TypeOK, Joining, Launched, FailureReleases
    <2> QED
        BY <2>2, <2>3, <2>4, <2>5
<1>6. CASE ChildExits
    BY <1>6 DEF ChildExits, TypeOK, Records, Vouched, Joining, Launched, FailureReleases
<1>7. CASE ChildKilled
    BY <1>7 DEF ChildKilled, TypeOK, Records, Vouched, Joining, Launched, FailureReleases
<1> QED
    BY <1>1, <1>2, <1>3, <1>4, <1>5, <1>6, <1>7 DEF Child

\* The reader takes each record for what it is, before or after the pipe is closed.
LEMMA ReaderStep == ASSUME IInv, Reader PROVE IInv'
<1> USE DEF IInv, childVars, ioVars, launchVars
<1>1. CASE ReadStartup
    <2>1. pipe' \in Contents
        BY <1>1, PipeContents DEF ReadStartup, Records, Vouched, Contents
    <2>2. TypeOK'
        BY <1>1, <2>1, PipeContents, ContentsDiffer DEF ReadStartup, TypeOK, Records, Contents
    <2>3. Records'
        BY <1>1, <2>1, PipeContents, ContentsDiffer DEF ReadStartup, EndOfOutput, TypeOK, Records, Joining,
               Launched, FailureReleases, Contents
    <2>4. Vouched'
        BY <1>1, <2>1, PipeContents, ContentsDiffer DEF ReadStartup, EndOfOutput, Records, Vouched, Joining, TypeOK, Contents
    <2>5. Joining' /\ Launched' /\ FailureReleases'
        BY <1>1 DEF ReadStartup, EndOfOutput, TypeOK, Records, Joining, Launched, FailureReleases
    <2> QED
        BY <2>2, <2>3, <2>4, <2>5
<1>2. CASE ReadResult
    <2>1. pipe' \in Contents
        BY <1>2, PipeContents DEF ReadResult, Records, Vouched, Contents
    <2>2. TypeOK'
        <3>1. result' \in BOOLEAN
            BY <1>2, Zenon DEF ReadResult, TypeOK
        <3>2. UNCHANGED <<cancelled, launchVars, childVars, stdout, startup, waiter>>
              /\ reader' = "discard"
            BY <1>2 DEF ReadResult
        <3> QED
            BY <3>1, <3>2, <2>1, PipeContents DEF TypeOK
    <2>3. Records'
        BY <1>2, <2>1, PipeContents, ContentsDiffer DEF ReadResult, EndOfOutput, Records, Joining, Contents
    <2>4. Vouched'
        BY <1>2, <2>1, PipeContents, ContentsDiffer DEF ReadResult, EndOfOutput, Records, Vouched, Joining, TypeOK, Contents
    <2>5. Joining' /\ Launched' /\ FailureReleases'
        BY <1>2 DEF ReadResult, TypeOK, Joining, Launched, FailureReleases
    <2> QED
        BY <2>2, <2>3, <2>4, <2>5
<1>3. CASE DiscardOutput
    BY <1>3 DEF DiscardOutput, EndOfOutput, TypeOK, Records, Vouched, Joining, Launched, FailureReleases
<1> QED
    BY <1>1, <1>2, <1>3 DEF Reader

\* The waiter closes the pipe of a child that has exited.
LEMMA WaiterStep == ASSUME IInv, Waiter PROVE IInv'
<1> USE DEF IInv, childVars, ioVars, launchVars
<1>1. CASE ReapChild
    BY <1>1 DEF ReapChild, TypeOK, Records, Vouched, Joining, Launched, FailureReleases
<1>2. CASE DrainOutput
    BY <1>2 DEF DrainOutput, TypeOK, Records, Vouched, Joining, Launched, FailureReleases
<1>3. CASE FinishWait
    BY <1>3 DEF FinishWait, TypeOK, Records, Vouched, Joining, Launched, FailureReleases
<1> QED
    BY <1>1, <1>2, <1>3 DEF Waiter

\* startWrapper returns an error only when it has joined what it started.
LEMMA LaunchingStep == ASSUME IInv, Launching PROVE IInv'
<1> USE DEF IInv, childVars, ioVars, launchVars
<1>1. CASE SpawnFails
    BY <1>1 DEF SpawnFails, TypeOK, Records, Vouched, Joining, Launched, FailureReleases
<1>2. CASE Spawn
    BY <1>2 DEF Spawn, TypeOK, Records, Vouched, Joining, Launched, FailureReleases
<1>3. CASE ReceiveStartup
    <2>1. setupFailed' \in BOOLEAN /\ (setupFailed' => startup = "error")
        BY <1>3, Zenon DEF ReceiveStartup, TypeOK, Launched
    <2>2. \/ launcher' = "returned" /\ ret' = "ok" /\ startup = "address"
          \/ launcher' = "shutdown" /\ ret' = ret
        BY <1>3 DEF ReceiveStartup
    <2>3. launcher = "await" /\ UNCHANGED <<cancelled, childVars, ioVars, waiter>>
        BY <1>3 DEF ReceiveStartup
    <2>4. TypeOK'
        BY <2>1, <2>2, <2>3 DEF TypeOK
    <2>5. Records' /\ Vouched' /\ Joining' /\ FailureReleases'
        BY <2>1, <2>2, <2>3 DEF Records, Vouched, Joining, Launched, FailureReleases
    <2>6. Launched'
        BY <2>1, <2>2, <2>3 DEF Launched
    <2> QED
        BY <2>4, <2>5, <2>6
<1>4. CASE ReadyTimeout
    BY <1>4 DEF ReadyTimeout, TypeOK, Records, Vouched, Joining, Launched, FailureReleases
<1>5. CASE ShutdownChild
    BY <1>5 DEF ShutdownChild, TypeOK, Records, Vouched, Joining, Launched, FailureReleases
<1>6. CASE JoinChild
    BY <1>6 DEF JoinChild, TypeOK, Records, Vouched, Joining, Launched, FailureReleases
<1> QED
    BY <1>1, <1>2, <1>3, <1>4, <1>5, <1>6 DEF Launching

LEMMA NextIInv == IInv /\ [Next]_vars => IInv'
<1> SUFFICES ASSUME IInv, [Next]_vars PROVE IInv'
    OBVIOUS
<1>1. CASE Cancel
    BY <1>1 DEF Cancel, IInv, TypeOK, Records, Vouched, Joining, Launched,
                FailureReleases, childVars, ioVars, launchVars
<1>2. CASE UNCHANGED vars
    BY <1>2 DEF vars, IInv, TypeOK, Records, Vouched, Joining, Launched,
                FailureReleases, childVars, ioVars, launchVars
<1> QED
    BY ChildStep, ReaderStep, WaiterStep, LaunchingStep, <1>1, <1>2
       DEF Next, Finished

\* The inductive invariant holds in every reachable state.
THEOREM Invariance == Spec => []IInv
BY InitIInv, NextIInv, PTL DEF Spec

-----------------------------------------------------------------------------
(* The safety properties *)

\* Types hold: no record is taken for another, and the pipe never holds more than two.
THEOREM TypeCorrectness == Spec => []TypeOK
<1>1. IInv => TypeOK
    BY DEF IInv
<1> QED
    BY Invariance, <1>1, PTL

\* startWrapper that returns an error has joined the child and its reader and closed
\* the pipe.
THEOREM ErrorsRelease == Spec => []FailureReleases
<1>1. IInv => FailureReleases
    BY DEF IInv
<1> QED
    BY Invariance, <1>1, PTL

\* An exit report that was read proves that the harness is gone.
THEOREM ReportsAreTrue == Spec => []ReportVouchesForHarness
<1>1. IInv => ReportVouchesForHarness
    BY DEF IInv, Vouched, ReportVouchesForHarness
<1> QED
    BY Invariance, <1>1, PTL

-----------------------------------------------------------------------------
(* startWrapper keeps the launcher's contract *)

\* A launch in progress, without a process or a harness.
LEMMA InitRefines == Init => Contract!Init
BY DEF Init, Contract!Init, ReturnedProcess

\* The harness comes up while the launch is in progress.
LEMMA HarnessStartsRefines == ASSUME IInv, HarnessStarts PROVE Contract!HarnessUp
<1>1. ret = "none"
    BY DEF HarnessStarts, IInv, TypeOK, Records, Launched, FailureReleases
<1> QED
    BY <1>1 DEF HarnessStarts, IInv, Vouched, Contract!HarnessUp, ReturnedProcess,
                launchVars, ioVars

\* The harness exits.
LEMMA HarnessExitsRefines == ASSUME HarnessExits PROVE Contract!HarnessExit
BY DEF HarnessExits, Contract!HarnessExit, ReturnedProcess, launchVars, ioVars

\* A launch that could not begin leaves nothing behind.
LEMMA SpawnFailsRefines == ASSUME IInv, SpawnFails PROVE Contract!FailCleanly
BY DEF SpawnFails, IInv, Vouched, Launched, Contract!FailCleanly, Contract!Return,
       ReturnedProcess, childVars

\* An address comes from a child that has a harness; only then does a launch succeed.
LEMMA ReceiveStartupRefines ==
    ASSUME IInv, ReceiveStartup PROVE Contract!Succeed \/ UNCHANGED Contract!vars
<1> USE DEF IInv, TypeOK, Launched, ReceiveStartup, ReturnedProcess, childVars, ioVars
<1>1. CASE startup = "address"
    <2>1. ret = "none" /\ ret' = "ok" /\ harness # "none" /\ (result => harness = "gone")
        BY <1>1 DEF Vouched
    <2>2. UNCHANGED <<harness, result, waiter>>
        OBVIOUS
    <2>3. CASE waiter = "done"
        <3>1. Contract!Joined
            <4>1. CASE result
                BY <2>1, <2>2, <2>3, <4>1 DEF Contract!Joined
            <4>2. CASE ~result
                BY <2>1, <2>2, <2>3, <4>2 DEF Contract!Joined
            <4> QED
                BY <4>1, <4>2
        <3>2. Contract!Return(FALSE)
            BY <2>1, <2>2, <2>3 DEF Contract!Return
        <3> QED
            BY <2>1, <3>1, <3>2 DEF Contract!Succeed
    <2>4. CASE waiter # "done"
        BY <2>1, <2>2, <2>4 DEF Contract!Succeed, Contract!Return
    <2> QED
        BY <2>3, <2>4
<1>2. CASE startup # "address"
    BY <1>2 DEF Contract!vars
<1> QED
    BY <1>1, <1>2

\* Only a child that reported a setup error fails without a process.
LEMMA JoinChildRefines ==
    ASSUME IInv, JoinChild PROVE Contract!FailCleanly \/ Contract!FailUncertain
<1> USE DEF IInv, TypeOK, Launched, Vouched, JoinChild, ReturnedProcess, childVars, ioVars
<1>1. CASE setupFailed
    BY <1>1 DEF Contract!FailCleanly, Contract!Return
<1>2. CASE ~setupFailed
    BY <1>2 DEF Contract!FailUncertain, Contract!Return, Contract!Joined
<1> QED
    BY <1>1, <1>2

\* The end of the wait publishes the exit report of a process that was returned.
LEMMA FinishWaitRefines ==
    ASSUME IInv, FinishWait PROVE Contract!ProcessExit \/ UNCHANGED Contract!vars
<1> USE DEF IInv, TypeOK, Launched, Vouched, FinishWait, ReturnedProcess, launchVars, childVars, ioVars
<1>1. CASE ret = "ok"
    BY <1>1 DEF Contract!ProcessExit, Contract!Joined
<1>2. CASE ret # "ok"
    BY <1>2 DEF Contract!vars
<1> QED
    BY <1>1, <1>2

\* A report is read before the process is joined.
LEMMA ReadResultRefines == ASSUME IInv, ReadResult PROVE UNCHANGED Contract!vars
BY DEF ReadResult, IInv, TypeOK, Joining, ReturnedProcess, Contract!vars, launchVars, childVars

\* Every other step is invisible in the contract.
LEMMA OthersStutter ==
    ASSUME IInv, [Next]_vars,
           ~(HarnessStarts \/ HarnessExits \/ SpawnFails \/ ReceiveStartup
                \/ JoinChild \/ FinishWait \/ ReadResult)
    PROVE  UNCHANGED Contract!vars
<1>1. UNCHANGED <<ret, harness, result>> /\ (waiter' = "done" <=> waiter = "done")
    BY DEF Next, Child, Reader, Waiter, Launching, Cancel, Finished, ChildSetupFails,
           ChildReportsAddress, ChildStops, ChildExits, ChildKilled, ReadStartup,
           DiscardOutput, ReapChild, DrainOutput, Spawn, ReadyTimeout, ShutdownChild,
           vars, launchVars, childVars, ioVars
<1> QED
    BY <1>1 DEF ReturnedProcess, Contract!vars

\* startWrapper and the subprocess, whoever dies and whichever timer fires, are a
\* launcher as the execution manager expects it.
THEOREM Refinement == Spec => ImplementsLauncher
<1>1. IInv /\ [Next]_vars => [Contract!Next]_(Contract!vars)
    BY HarnessStartsRefines, HarnessExitsRefines, SpawnFailsRefines,
       ReceiveStartupRefines, JoinChildRefines, FinishWaitRefines, ReadResultRefines,
       OthersStutter DEF Contract!Next
<1> QED
    BY Invariance, InitRefines, <1>1, PTL
       DEF Spec, ImplementsLauncher, Contract!Spec
=============================================================================
