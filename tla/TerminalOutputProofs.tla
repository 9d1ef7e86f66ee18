------------------------ MODULE TerminalOutputProofs ------------------------
(***************************************************************************)
(* What Terminal promises of the output, proved from the invariant of      *)
(* TerminalProofs by three more:                                           *)
(*                                                                         *)
(*   PipelineInv  the acknowledgments, writes and frames under way on an   *)
(*                open connection follow each other in its window; hence   *)
(*                acknowledgments are valid and the backlog is bounded;    *)
(*   EndInv       the end message is the last and truthful; hence a        *)
(*                complete view has all of the output;                     *)
(*   ScreenInv    while one invocation runs, what is written and what is   *)
(*                under way continue what the screen shows; hence          *)
(*                Terminal implements OutputStream.                        *)
(*                                                                         *)
(* Without OneInvocation the last is false, and a byte may be shown twice  *)
(* (see NoOrphanConnection of Terminal); that the output of one invocation *)
(* never appears below that of a later one is InvocationsInv.              *)
(***************************************************************************)
EXTENDS TerminalProofs, FunctionTheorems

(***************************************************************************)
(* The pipeline of an open connection c: its acknowledgments under way,    *)
(* its writes that are not rendered and its frames under way, in this      *)
(* order, lie one after another between what is acknowledged and what is   *)
(* sent.                                                                   *)
(***************************************************************************)
IsWrite(ws, c, i) == i \in 1..Len(ws) /\ ws[i].conn = c

AcksInOrder(s, acks) ==
    /\ \A i \in 1..Len(acks) : s.acked <= acks[i] /\ acks[i] <= s.sent
    /\ \A i, j \in 1..Len(acks) : i < j => acks[i] <= acks[j]
WritesInOrder(c, s, acks, ws) ==
    /\ \A i \in 1..Len(ws) : IsWrite(ws, c, i) =>
          /\ s.acked <= ws[i].from
          /\ ws[i].to <= s.sent
          /\ \A k \in 1..Len(acks) : acks[k] <= ws[i].from
    /\ \A i, j \in 1..Len(ws) :
          IsWrite(ws, c, i) /\ IsWrite(ws, c, j) /\ i < j => ws[i].to <= ws[j].from
FramesInOrder(c, s, acks, ws, fs) ==
    /\ \A i \in 1..Len(fs) : IsData(fs, i) =>
          /\ s.acked <= fs[i].from
          /\ fs[i].to <= s.sent
          /\ \A k \in 1..Len(acks) : acks[k] <= fs[i].from
          /\ \A k \in 1..Len(ws) : IsWrite(ws, c, k) => ws[k].to <= fs[i].from
    /\ \A i, j \in 1..Len(fs) :
          IsData(fs, i) /\ IsData(fs, j) /\ i < j => fs[i].to <= fs[j].from
InOrder(c, s, acks, ws, fs) ==
    /\ AcksInOrder(s, acks)
    /\ WritesInOrder(c, s, acks, ws)
    /\ FramesInOrder(c, s, acks, ws, fs)

PipelineInv ==
    \A c \in Conns :
        link[c] = "open" => InOrder(c, sender[c], up[c], writes, down[c])

(***************************************************************************)
(* The end of the output.  An "end" message is the last on its connection; *)
(* the invocation it is about produces no more.                            *)
(***************************************************************************)
Closing(c) == link[c] \in {"closing", "closed"}
OutputEnded == stage \notin {"starting", "running"}

EndsLast(fs) == \A i \in 1..Len(fs) : fs[i].type = "end" => i = Len(fs)

EndOf(c) ==
    /\ EndsLast(down[c])
    /\ \A i \in 1..Len(down[c]) : down[c][i].type = "end" =>
          /\ Closing(c)
          /\ request[c].invocation = current =>
                OutputEnded /\ down[c][i].offset = produced

CompleteInv ==
    complete /\ view = current =>
        /\ OutputEnded
        /\ socket # None
        /\ Closing(socket)
        /\ down[socket] = <<>>
        /\ received[socket] = produced

EndInv == (\A c \in Conns : EndOf(c)) /\ CompleteInv

-----------------------------------------------------------------------------
\* The fields of a write under way in xterm.js.
LEMMA WriteFields ==
    ASSUME NEW ws \in Seq(Writes), NEW i \in 1..Len(ws)
    PROVE  ws[i].conn \in Conns /\ ws[i].from \in Nat /\ ws[i].to \in Nat
<1>1. ws[i] \in Writes
  OBVIOUS
<1>2. QED
  BY <1>1, Bounds DEF Writes

\* The numbers InOrder compares are naturals.
LEMMA PipelineFields ==
    ASSUME NEW s \in Senders, NEW acks \in Seq(0..Total), NEW ws \in Seq(Writes),
           NEW fs \in Seq(Messages)
    PROVE  /\ s.acked \in Nat /\ s.sent \in Nat
           /\ Len(acks) \in Nat /\ Len(ws) \in Nat /\ Len(fs) \in Nat
           /\ \A i \in 1..Len(acks) : acks[i] \in Nat
           /\ \A i \in 1..Len(ws) : ws[i].from \in Nat /\ ws[i].to \in Nat
           /\ \A i \in 1..Len(fs) : IsData(fs, i) => fs[i].from \in Nat /\ fs[i].to \in Nat
<1>1. s.acked \in Nat /\ s.sent \in Nat
  BY SenderFields
<1>2. Len(acks) \in Nat /\ Len(ws) \in Nat /\ Len(fs) \in Nat
  OBVIOUS
<1>3. \A i \in 1..Len(acks) : acks[i] \in 0..Total
  BY ElementOfSeq
<1>4. \A i \in 1..Len(acks) : acks[i] \in Nat
  BY <1>3, Bounds
<1>5. \A i \in 1..Len(ws) : ws[i].from \in Nat /\ ws[i].to \in Nat
  BY WriteFields
<1>6. \A i \in 1..Len(fs) : IsData(fs, i) => fs[i].from \in 0..Total /\ fs[i].to \in 0..Total
  BY QueueFields DEF IsData
<1>7. \A i \in 1..Len(fs) : IsData(fs, i) => fs[i].from \in Nat /\ fs[i].to \in Nat
  BY <1>6, Bounds
<1>8. QED
  BY <1>1, <1>2, <1>4, <1>5, <1>7

\* A new connection has an empty pipeline.
LEMMA OrderAttached ==
    ASSUME NEW c, NEW s, NEW ws, NEW fs,
           \A i \in 1..Len(ws) : ws[i].conn # c,
           \A i \in 1..Len(fs) : ~IsData(fs, i)
    PROVE  InOrder(c, s, <<>>, ws, fs)
BY DEF InOrder, AcksInOrder, WritesInOrder, FramesInOrder, IsWrite, IsData

\* Output sent later does not disturb the order.
LEMMA OrderGrows ==
    ASSUME NEW c, NEW s \in Senders, NEW t \in Senders, NEW acks \in Seq(0..Total),
           NEW ws \in Seq(Writes), NEW fs \in Seq(Messages),
           t.acked = s.acked, s.sent <= t.sent, InOrder(c, s, acks, ws, fs)
    PROVE  InOrder(c, t, acks, ws, fs)
<1>1. t.acked \in Nat /\ t.sent \in Nat
  BY SenderFields
<1>2. AcksInOrder(t, acks)
  BY <1>1, PipelineFields DEF InOrder, AcksInOrder
<1>3. WritesInOrder(c, t, acks, ws)
  BY <1>1, PipelineFields DEF InOrder, WritesInOrder, IsWrite
<1>4. FramesInOrder(c, t, acks, ws, fs)
  BY <1>1, PipelineFields DEF InOrder, FramesInOrder, IsData
<1>5. QED
  BY <1>2, <1>3, <1>4 DEF InOrder

\* A frame that is sent starts where the last one ended.
LEMMA OrderSent ==
    ASSUME NEW c, NEW s \in Senders, NEW acks \in Seq(0..Total),
           NEW ws \in Seq(Writes), NEW fs \in Seq(Messages), NEW t \in Senders,
           t.acked = s.acked, s.acked <= s.sent, s.sent < t.sent, InOrder(c, s, acks, ws, fs)
    PROVE  InOrder(c, t, acks, ws, Append(fs, Frame(s.sent, t.sent)))
<1> DEFINE gs == Append(fs, Frame(s.sent, t.sent))
<1>1. t.acked \in Nat /\ t.sent \in Nat
  BY SenderFields
<1>2. InOrder(c, t, acks, ws, fs)
  BY <1>1, OrderGrows, PipelineFields
<1>3. /\ Frame(s.sent, t.sent) \in Messages
      /\ Frame(s.sent, t.sent).type = "data"
      /\ Frame(s.sent, t.sent).from = s.sent /\ Frame(s.sent, t.sent).to = t.sent
  <2>1. s.sent \in 0..Total /\ t.sent \in 0..Total
    BY DEF Senders
  <2>2. QED
    BY <2>1, FrameFields
<1>4. /\ Len(fs) \in Nat /\ Len(gs) = Len(fs) + 1 /\ gs[Len(fs) + 1] = Frame(s.sent, t.sent)
      /\ \A i \in 1..Len(fs) : gs[i] = fs[i]
  BY <1>3
<1> HIDE DEF gs
<1>5. FramesInOrder(c, t, acks, ws, gs)
  <2>1. ASSUME NEW i \in 1..Len(gs), IsData(gs, i)
        PROVE  /\ t.acked <= gs[i].from
               /\ gs[i].to <= t.sent
               /\ \A k \in 1..Len(acks) : acks[k] <= gs[i].from
               /\ \A k \in 1..Len(ws) : IsWrite(ws, c, k) => ws[k].to <= gs[i].from
    <3>1. CASE i \in 1..Len(fs)
      <4>1. gs[i] = fs[i] /\ IsData(fs, i)
        BY <2>1, <3>1, <1>4 DEF IsData
      <4>2. QED
        BY <4>1, <1>2, <3>1 DEF InOrder, FramesInOrder
    <3>2. CASE i = Len(fs) + 1
      <4>1. gs[i].from = s.sent /\ gs[i].to = t.sent
        BY <3>2, <1>3, <1>4
      <4>2. \A k \in 1..Len(acks) : acks[k] <= s.sent
        BY DEF InOrder, AcksInOrder
      <4>3. \A k \in 1..Len(ws) : IsWrite(ws, c, k) => ws[k].to <= s.sent
        BY DEF InOrder, WritesInOrder
      <4>4. QED
        BY <4>1, <4>2, <4>3, <1>1, PipelineFields
    <3>3. i \in 1..Len(fs) \/ i = Len(fs) + 1
      BY <1>4
    <3>4. QED
      BY <3>1, <3>2, <3>3
  <2>2. ASSUME NEW i \in 1..Len(gs), NEW j \in 1..Len(gs),
               IsData(gs, i), IsData(gs, j), i < j
        PROVE  gs[i].to <= gs[j].from
    <3>1. i \in 1..Len(fs) /\ gs[i] = fs[i] /\ IsData(fs, i)
      BY <2>2, <1>4, PipelineFields DEF IsData
    <3>2. CASE j \in 1..Len(fs)
      <4>1. gs[j] = fs[j] /\ IsData(fs, j)
        BY <2>2, <3>2, <1>4 DEF IsData
      <4>2. QED
        BY <4>1, <3>1, <1>2, <3>2, <2>2 DEF InOrder, FramesInOrder
    <3>3. CASE j = Len(fs) + 1
      <4>1. gs[j].from = s.sent
        BY <3>3, <1>3, <1>4
      <4>2. fs[i].to <= s.sent
        BY <3>1 DEF InOrder, FramesInOrder
      <4>3. QED
        BY <4>1, <4>2, <3>1
    <3>4. j \in 1..Len(fs) \/ j = Len(fs) + 1
      BY <1>4
    <3>5. QED
      BY <3>2, <3>3, <3>4
  <2>3. QED
    BY <2>1, <2>2 DEF FramesInOrder
<1>6. QED
  BY <1>2, <1>5 DEF InOrder, gs

\* An acknowledgment that is read frees what lies before it, and nothing else.
LEMMA OrderAcked ==
    ASSUME NEW c, NEW s \in Senders, NEW t \in Senders, NEW acks \in Seq(0..Total),
           NEW ws \in Seq(Writes), NEW fs \in Seq(Messages),
           acks # <<>>, t.acked = Head(acks), t.sent = s.sent, InOrder(c, s, acks, ws, fs)
    PROVE  InOrder(c, t, Tail(acks), ws, fs)
<1> DEFINE bs == Tail(acks)
<1>1. /\ Len(acks) \in Nat \ {0} /\ Len(bs) = Len(acks) - 1
      /\ 1 \in 1..Len(acks) /\ t.acked = acks[1]
      /\ \A i \in 1..Len(bs) : bs[i] = acks[i + 1] /\ i + 1 \in 1..Len(acks)
  OBVIOUS
<1> HIDE DEF bs
<1>2. AcksInOrder(t, bs)
  <2>1. AcksInOrder(s, acks)
    BY DEF InOrder
  <2>2. ASSUME NEW i \in 1..Len(bs) PROVE t.acked <= bs[i] /\ bs[i] <= t.sent
    <3>1. i + 1 \in 1..Len(acks) /\ 1 < i + 1 /\ bs[i] = acks[i + 1]
      BY <1>1
    <3>2. QED
      BY <3>1, <2>1, <1>1 DEF AcksInOrder
  <2>3. ASSUME NEW i \in 1..Len(bs), NEW j \in 1..Len(bs), i < j PROVE bs[i] <= bs[j]
    <3>1. /\ i + 1 \in 1..Len(acks) /\ j + 1 \in 1..Len(acks) /\ i + 1 < j + 1
          /\ bs[i] = acks[i + 1] /\ bs[j] = acks[j + 1]
      BY <1>1, <2>3
    <3>2. QED
      BY <3>1, <2>1 DEF AcksInOrder
  <2>4. QED
    BY <2>2, <2>3 DEF AcksInOrder
<1>3. WritesInOrder(c, t, bs, ws)
  BY <1>1, PipelineFields DEF InOrder, WritesInOrder, IsWrite
<1>4. FramesInOrder(c, t, bs, ws, fs)
  BY <1>1, PipelineFields DEF InOrder, FramesInOrder, IsData
<1>5. QED
  BY <1>2, <1>3, <1>4 DEF InOrder, bs

\* A message that is not written to the screen leaves the order as it is.
LEMMA OrderTaken ==
    ASSUME NEW c, NEW s \in Senders, NEW acks \in Seq(0..Total),
           NEW ws \in Seq(Writes), NEW fs \in Seq(Messages),
           fs # <<>>, InOrder(c, s, acks, ws, fs)
    PROVE  InOrder(c, s, acks, ws, Tail(fs))
<1> DEFINE gs == Tail(fs)
<1>1. /\ Len(fs) \in Nat \ {0} /\ Len(gs) = Len(fs) - 1
      /\ \A i \in 1..Len(gs) : gs[i] = fs[i + 1] /\ i + 1 \in 1..Len(fs)
  OBVIOUS
<1> HIDE DEF gs
<1>2. FramesInOrder(c, s, acks, ws, fs)
  BY DEF InOrder
<1>3. ASSUME NEW i \in 1..Len(gs), IsData(gs, i)
      PROVE  i + 1 \in 1..Len(fs) /\ gs[i] = fs[i + 1] /\ IsData(fs, i + 1)
  BY <1>1, <1>3 DEF IsData
<1>4. FramesInOrder(c, s, acks, ws, gs)
  <2>1. ASSUME NEW i \in 1..Len(gs), NEW j \in 1..Len(gs), IsData(gs, i), IsData(gs, j), i < j
        PROVE  gs[i].to <= gs[j].from
    <3>1. i + 1 < j + 1
      BY <1>1, <2>1
    <3>2. QED
      BY <3>1, <2>1, <1>3, <1>2 DEF FramesInOrder
  <2>2. QED
    BY <2>1, <1>2, <1>3 DEF FramesInOrder
<1>5. QED
  BY <1>4 DEF InOrder, gs

\* A frame that is received becomes the last write.
LEMMA OrderReceived ==
    ASSUME NEW c, NEW s \in Senders, NEW acks \in Seq(0..Total),
           NEW ws \in Seq(Writes), NEW fs \in Seq(Messages), NEW w \in Writes,
           fs # <<>>, Head(fs).type = "data",
           w.conn = c, w.from = Head(fs).from, w.to = Head(fs).to,
           InOrder(c, s, acks, ws, fs)
    PROVE  InOrder(c, s, acks, Append(ws, w), Tail(fs))
<1> DEFINE gs == Tail(fs)
           vs == Append(ws, w)
<1>1. /\ Len(fs) \in Nat \ {0} /\ Len(gs) = Len(fs) - 1 /\ Head(fs) = fs[1]
      /\ 1 \in 1..Len(fs)
      /\ \A i \in 1..Len(gs) : gs[i] = fs[i + 1] /\ i + 1 \in 1..Len(fs) /\ 1 < i + 1
  OBVIOUS
<1>2. /\ Len(vs) = Len(ws) + 1 /\ vs[Len(ws) + 1] = w
      /\ \A i \in 1..Len(ws) : vs[i] = ws[i]
  BY WritesAppend
<1>3. IsData(fs, 1)
  BY <1>1 DEF IsData
<1> HIDE DEF gs, vs
<1>4. \A i \in 1..Len(gs) : IsData(gs, i) => IsData(fs, i + 1) /\ fs[1].to <= gs[i].from
  BY <1>1, <1>3 DEF InOrder, FramesInOrder, IsData
<1>5. \A i \in 1..Len(vs) : IsWrite(vs, c, i) =>
         (i \in 1..Len(ws) /\ vs[i] = ws[i] /\ IsWrite(ws, c, i)) \/ (i = Len(ws) + 1 /\ vs[i] = w)
  BY <1>2, PipelineFields DEF IsWrite
<1>6. WritesInOrder(c, s, acks, vs)
  <2>1. ASSUME NEW i \in 1..Len(vs), IsWrite(vs, c, i)
        PROVE  s.acked <= vs[i].from /\ vs[i].to <= s.sent
               /\ \A k \in 1..Len(acks) : acks[k] <= vs[i].from
    <3>1. CASE i \in 1..Len(ws) /\ vs[i] = ws[i] /\ IsWrite(ws, c, i)
      BY <3>1 DEF InOrder, WritesInOrder
    <3>2. CASE i = Len(ws) + 1 /\ vs[i] = w
      BY <3>2, <1>1, <1>3 DEF InOrder, FramesInOrder
    <3>3. QED
      BY <2>1, <3>1, <3>2, <1>5
  <2>2. ASSUME NEW i \in 1..Len(vs), NEW j \in 1..Len(vs), IsWrite(vs, c, i),
               IsWrite(vs, c, j), i < j
        PROVE  vs[i].to <= vs[j].from
    <3>1. i \in 1..Len(ws) /\ vs[i] = ws[i] /\ IsWrite(ws, c, i)
      BY <2>2, <1>2, <1>5, PipelineFields
    <3>2. CASE j \in 1..Len(ws) /\ vs[j] = ws[j] /\ IsWrite(ws, c, j)
      BY <3>1, <3>2, <2>2 DEF InOrder, WritesInOrder
    <3>3. CASE j = Len(ws) + 1 /\ vs[j] = w
      BY <3>1, <3>3, <1>1, <1>3 DEF InOrder, FramesInOrder
    <3>4. QED
      BY <2>2, <3>2, <3>3, <1>5
  <2>3. QED
    BY <2>1, <2>2 DEF WritesInOrder
<1>7. FramesInOrder(c, s, acks, vs, gs)
  <2>1. FramesInOrder(c, s, acks, ws, gs)
    BY OrderTaken DEF InOrder, gs
  <2>2. \A i \in 1..Len(gs) : IsData(gs, i) =>
           \A k \in 1..Len(vs) : IsWrite(vs, c, k) => vs[k].to <= gs[i].from
    BY <2>1, <1>1, <1>4, <1>5 DEF FramesInOrder
  <2>3. QED
    BY <2>1, <2>2 DEF FramesInOrder
<1>8. QED
  BY <1>6, <1>7 DEF InOrder, gs, vs

\* A write of another connection does not count.
LEMMA OrderOther ==
    ASSUME NEW c, NEW s, NEW acks, NEW ws \in Seq(Writes), NEW fs, NEW w \in Writes,
           w.conn # c, InOrder(c, s, acks, ws, fs)
    PROVE  InOrder(c, s, acks, Append(ws, w), fs)
<1> DEFINE vs == Append(ws, w)
<1>2. /\ Len(ws) \in Nat /\ Len(vs) = Len(ws) + 1 /\ vs[Len(ws) + 1] = w
      /\ \A i \in 1..Len(ws) : vs[i] = ws[i]
  BY WritesAppend
<1> HIDE DEF vs
<1>5. \A i \in 1..Len(vs) : IsWrite(vs, c, i) =>
         i \in 1..Len(ws) /\ vs[i] = ws[i] /\ IsWrite(ws, c, i)
  BY <1>2 DEF IsWrite
<1>6. WritesInOrder(c, s, acks, vs)
  BY <1>5 DEF InOrder, WritesInOrder
<1>7. FramesInOrder(c, s, acks, vs, fs)
  BY <1>5 DEF InOrder, FramesInOrder
<1>8. QED
  BY <1>6, <1>7 DEF InOrder, vs

\* A write whose callback acknowledges nothing leaves the order as it is.
LEMMA OrderRendered ==
    ASSUME NEW c, NEW s, NEW acks, NEW ws \in Seq(Writes), NEW fs,
           ws # <<>>, InOrder(c, s, acks, ws, fs)
    PROVE  InOrder(c, s, acks, Tail(ws), fs)
<1> DEFINE vs == Tail(ws)
<1>1. /\ Len(ws) \in Nat \ {0} /\ Len(vs) = Len(ws) - 1
      /\ \A i \in 1..Len(vs) : vs[i] = ws[i + 1] /\ i + 1 \in 1..Len(ws)
  OBVIOUS
<1> HIDE DEF vs
<1>2. ASSUME NEW i \in 1..Len(vs), IsWrite(vs, c, i)
      PROVE  i + 1 \in 1..Len(ws) /\ vs[i] = ws[i + 1] /\ IsWrite(ws, c, i + 1)
  BY <1>1, <1>2 DEF IsWrite
<1>3. WritesInOrder(c, s, acks, vs)
  <2>1. WritesInOrder(c, s, acks, ws)
    BY DEF InOrder
  <2>2. ASSUME NEW i \in 1..Len(vs), NEW j \in 1..Len(vs), IsWrite(vs, c, i),
               IsWrite(vs, c, j), i < j
        PROVE  vs[i].to <= vs[j].from
    <3>1. i + 1 < j + 1
      BY <1>1, <2>2
    <3>2. QED
      BY <3>1, <2>1, <2>2, <1>2 DEF WritesInOrder
  <2>3. QED
    BY <2>1, <2>2, <1>2 DEF WritesInOrder
<1>4. FramesInOrder(c, s, acks, vs, fs)
  BY <1>1 DEF InOrder, FramesInOrder, IsWrite
<1>5. QED
  BY <1>3, <1>4 DEF InOrder, vs

\* A write that is rendered becomes the last acknowledgment under way.
LEMMA OrderAnswered ==
    ASSUME NEW c, NEW s \in Senders, NEW acks \in Seq(0..Total),
           NEW ws \in Seq(Writes), NEW fs \in Seq(Messages),
           ws # <<>>, ws[1].conn = c, ws[1].from < ws[1].to,
           InOrder(c, s, acks, ws, fs)
    PROVE  InOrder(c, s, Append(acks, ws[1].to), Tail(ws), fs)
<1> DEFINE vs == Tail(ws)
           bs == Append(acks, ws[1].to)
<1>1. /\ Len(ws) \in Nat \ {0} /\ Len(vs) = Len(ws) - 1 /\ 1 \in 1..Len(ws)
      /\ \A i \in 1..Len(vs) : vs[i] = ws[i + 1] /\ i + 1 \in 1..Len(ws) /\ 1 < i + 1
  OBVIOUS
<1>2. /\ Len(bs) = Len(acks) + 1 /\ bs[Len(acks) + 1] = ws[1].to
      /\ \A i \in 1..Len(acks) : bs[i] = acks[i]
  OBVIOUS
<1>3. IsWrite(ws, c, 1)
  BY <1>1 DEF IsWrite
<1>4. InOrder(c, s, acks, vs, fs)
  BY OrderRendered
<1> HIDE DEF vs, bs
<1>5. ws[1].from \in Nat /\ ws[1].to \in Nat
  BY <1>1, WriteFields
<1>6. /\ s.acked <= ws[1].from /\ ws[1].to <= s.sent
      /\ \A k \in 1..Len(acks) : acks[k] <= ws[1].from
      /\ \A i \in 1..Len(vs) : IsWrite(vs, c, i) => ws[1].to <= vs[i].from
      /\ \A i \in 1..Len(fs) : IsData(fs, i) => ws[1].to <= fs[i].from
  BY <1>1, <1>3 DEF InOrder, WritesInOrder, FramesInOrder, IsWrite
<1>7. \A k \in 1..Len(bs) : (k \in 1..Len(acks) /\ bs[k] = acks[k])
                            \/ (k = Len(acks) + 1 /\ bs[k] = ws[1].to)
  BY <1>2, PipelineFields
<1>8. AcksInOrder(s, bs)
  <2>0. \A i \in 1..Len(acks) : s.acked <= acks[i] /\ acks[i] <= s.sent
    BY DEF InOrder, AcksInOrder
  <2>s. s.acked \in Nat /\ s.sent \in Nat
    BY PipelineFields
  <2>1. \A i \in 1..Len(bs) : s.acked <= bs[i] /\ bs[i] <= s.sent
    BY <1>5, <1>6, <1>7, <2>0, <2>s, ws[1].from < ws[1].to
  <2>2. ASSUME NEW i \in 1..Len(bs), NEW j \in 1..Len(bs), i < j PROVE bs[i] <= bs[j]
    <3>1. i \in 1..Len(acks) /\ bs[i] = acks[i]
      BY <2>2, <1>2, <1>7, PipelineFields
    <3>2. CASE j \in 1..Len(acks) /\ bs[j] = acks[j]
      BY <2>2, <3>1, <3>2 DEF InOrder, AcksInOrder
    <3>3. CASE bs[j] = ws[1].to
      <4>1. acks[i] <= ws[1].from /\ acks[i] \in Nat
        BY <3>1, <1>6, PipelineFields
      <4>2. QED
        BY <3>1, <3>3, <4>1, <1>5
    <3>4. QED
      BY <3>2, <3>3, <1>7
  <2>3. QED
    BY <2>1, <2>2 DEF AcksInOrder
<1>9. WritesInOrder(c, s, bs, vs)
  BY <1>4, <1>6, <1>7 DEF InOrder, WritesInOrder, IsWrite
<1>10. FramesInOrder(c, s, bs, vs, fs)
  BY <1>4, <1>6, <1>7 DEF InOrder, FramesInOrder, IsData
<1>11. QED
  BY <1>8, <1>9, <1>10 DEF InOrder, bs, vs

\* A terminal that is disposed of has no writes left to order.
LEMMA OrderDiscarded ==
    ASSUME NEW c, NEW s, NEW acks, NEW ws, NEW fs, InOrder(c, s, acks, ws, fs)
    PROVE  InOrder(c, s, acks, <<>>, fs)
BY DEF InOrder, WritesInOrder, FramesInOrder, IsWrite

-----------------------------------------------------------------------------
\* The pipeline of a connection that is open after a step, when the step leaves
\* its messages alone.
Untouched(c) ==
    link'[c] = "open" =>
        /\ link[c] = "open"
        /\ sender'[c] = sender[c] /\ up'[c] = up[c] /\ down'[c] = down[c]

Ordered(c) == InOrder(c, sender[c], up[c], writes, down[c])

\* A connection that was open, and whose messages are left alone, stays in order.
LEMMA OrderedKept ==
    ASSUME PipelineInv, NEW c \in Conns, Untouched(c), writes' = writes, link'[c] = "open"
    PROVE  Ordered(c)'
BY DEF PipelineInv, Untouched, Ordered

\* A step that does so for every connection keeps PipelineInv.
LEMMA PipelineKept ==
    ASSUME PipelineInv, writes' = writes, \A c \in Conns : Untouched(c)
    PROVE  PipelineInv'
BY OrderedKept DEF PipelineInv, Ordered

\* The types of a connection's pipeline.
LEMMA PipelineTypes ==
    ASSUME Inv, NEW c \in Conns
    PROVE  /\ sender[c] \in Senders /\ up[c] \in Seq(0..Total)
           /\ writes \in Seq(Writes) /\ down[c] \in Seq(Messages)
BY ConnTypes, ViewTypes DEF Inv

\* The terminal's own steps send nothing.
LEMMA WrapperPipeline ==
    ASSUME Inv, PipelineInv, \/ \E n \in Chunks : Output(n)
                             \/ Finish \/ Drain \/ WrapperExits \/ Launch \/ Launched
    PROVE  PipelineInv'
<1>1. /\ UNCHANGED <<sender, down, up, writes>>
      /\ \/ link' = link
         \/ link' = [c \in Conns |-> IF link[c] \in {"connecting", "open"}
                                     THEN "closing" ELSE link[c]]
  BY DEF Output, Finish, Drain, WrapperExits, Launch, Launched, netVars, screenVars
<1>2. \A c \in Conns : link'[c] = "open" => link[c] = "open"
  BY <1>1
<1>3. QED
  BY <1>1, <1>2, PipelineKept DEF Untouched

\* An attachment starts with an empty pipeline: nothing was written for it
\* before.
LEMMA AttachPipeline ==
    ASSUME Inv, PipelineInv, NEW c \in Conns, Attach(c)
    PROVE  PipelineInv'
<1>0. PICK start \in 0..produced, gap \in BOOLEAN : Attached(c, start, gap)
  BY AttachStep
<1>1. /\ link[c] = "connecting" /\ link' = [link EXCEPT ![c] = "open"]
      /\ sender' = [sender EXCEPT ![c] = NewSender(start)]
      /\ down' = [down EXCEPT ![c] = <<[type |-> "replay", offset |-> start, gap |-> gap]>>]
      /\ up' = up /\ writes' = writes
  BY <1>0 DEF Attached, screenVars
<1>2. ASSUME NEW d \in Conns, link'[d] = "open" PROVE Ordered(d)'
  <2>1. CASE d = c
    <3>1. down'[c] = <<[type |-> "replay", offset |-> start, gap |-> gap]>>
      BY <1>1, ViewTypes
    <3>2. \A i \in 1..Len(down'[c]) : ~IsData(down'[c], i)
      BY <3>1, ReplayIsNoData
    <3>3. up'[c] = <<>> /\ \A i \in 1..Len(writes') : writes'[i].conn # c
      BY <1>1, ViewTypes DEF ConnectionInv, Fresh
    <3>4. InOrder(c, sender'[c], <<>>, writes', down'[c])
      BY <3>2, <3>3, OrderAttached
    <3>5. QED
      BY <2>1, <3>3, <3>4 DEF Ordered
  <2>2. CASE d # c
    <3>1. Untouched(d)
      BY <1>1, <2>2, ViewTypes DEF Untouched, Inv, TypeOK
    <3>2. QED
      BY <1>1, <1>2, <3>1, OrderedKept
  <2>3. QED
    BY <2>1, <2>2
<1>3. QED
  BY <1>2 DEF PipelineInv, Ordered

\* sendOutput adds at the end of the pipeline.
LEMMA SendPipeline ==
    ASSUME Inv, PipelineInv, NEW c \in Conns, Sends(c)
    PROVE  PipelineInv'
<1>1. /\ link' = link /\ up' = up /\ writes' = writes /\ link[c] = "open" /\ clients[c] # "none"
      /\ sender'[c] \in Senders
      /\ sender' = [sender EXCEPT ![c] = sender'[c]]
      /\ sender'[c].acked = sender[c].acked
      /\ sender[c].sent <= sender'[c].sent
      /\ \/ down' = down
         \/ /\ sender[c].sent < sender'[c].sent
            /\ down' = [down EXCEPT ![c] =
                           Append(down[c], Frame(sender[c].sent, sender'[c].sent))]
  BY SendStep DEF screenVars
<1>2. sender[c].acked <= sender[c].sent
  BY <1>1 DEF Inv, WrapperInv, AttachmentInv, SenderOK
<1>3. ASSUME NEW d \in Conns, link'[d] = "open" PROVE Ordered(d)'
  <2>1. CASE d = c
    <3>1. InOrder(c, sender[c], up[c], writes, down[c])
      BY <1>1 DEF PipelineInv
    <3>2. InOrder(c, sender'[c], up[c], writes, down'[c])
      <4>1. CASE down' = down
        BY <1>1, <3>1, <4>1, PipelineTypes, OrderGrows
      <4>2. CASE /\ sender[c].sent < sender'[c].sent
                 /\ down' = [down EXCEPT ![c] =
                           Append(down[c], Frame(sender[c].sent, sender'[c].sent))]
        <5>1. down'[c] = Append(down[c], Frame(sender[c].sent, sender'[c].sent))
          BY <4>2, ViewTypes
        <5>2. /\ sender[c] \in Senders /\ up[c] \in Seq(0..Total) /\ writes \in Seq(Writes)
              /\ down[c] \in Seq(Messages)
          BY PipelineTypes
        <5>3. InOrder(c, sender'[c], up[c], writes,
                      Append(down[c], Frame(sender[c].sent, sender'[c].sent)))
          BY <1>1, <1>2, <3>1, <4>2, <5>2, OrderSent
        <5>4. QED
          BY <5>1, <5>3
      <4>3. QED
        BY <1>1, <4>1, <4>2
    <3>3. QED
      BY <1>1, <2>1, <3>2 DEF Ordered
  <2>2. CASE d # c
    <3>1. Untouched(d)
      BY <1>1, <2>2, ViewTypes DEF Untouched, Inv, TypeOK
    <3>2. QED
      BY <1>1, <1>3, <3>1, OrderedKept
  <2>3. QED
    BY <2>1, <2>2
<1>4. QED
  BY <1>3 DEF PipelineInv, Ordered

\* ReadAck takes from the front of the pipeline, or ends the connection.
LEMMA ReadAckPipeline ==
    ASSUME Inv, PipelineInv, NEW c \in Conns, ReadAck(c)
    PROVE  PipelineInv'
<1>1. /\ down' = down /\ writes' = writes
      /\ link[c] = "open" /\ up[c] # <<>>
      /\ up' = [up EXCEPT ![c] = Tail(up[c])]
      /\ sender'[c] \in Senders
      /\ sender' = [sender EXCEPT ![c] = sender'[c]]
      /\ \/ /\ link' = link
            /\ sender'[c].acked = Head(up[c])
            /\ sender'[c].sent = sender[c].sent
         \/ link' = [link EXCEPT ![c] = "closing"]
  BY ReadAckStep DEF screenVars
<1>2. ASSUME NEW d \in Conns, link'[d] = "open" PROVE Ordered(d)'
  <2>1. CASE d = c
    <3>1. InOrder(c, sender[c], up[c], writes, down[c])
      BY <1>1 DEF PipelineInv
    <3>2. link' = link
      BY <1>1, <1>2, <2>1, ViewTypes
    <3>3. sender'[c].acked = Head(up[c]) /\ sender'[c].sent = sender[c].sent
      BY <1>1, <1>2, <2>1, ViewTypes
    <3>4. InOrder(c, sender'[c], Tail(up[c]), writes, down[c])
      BY <1>1, <3>1, <3>3, PipelineTypes, OrderAcked
    <3>5. up'[c] = Tail(up[c])
      BY <1>1, ViewTypes
    <3>6. QED
      BY <1>1, <2>1, <3>4, <3>5 DEF Ordered
  <2>2. CASE d # c
    <3>1. Untouched(d)
      BY <1>1, <2>2, ViewTypes DEF Untouched, Inv, TypeOK
    <3>2. QED
      BY <1>1, <1>2, <3>1, OrderedKept
  <2>3. QED
    BY <2>1, <2>2
<1>3. QED
  BY <1>2 DEF PipelineInv, Ordered

\* A connection that ends has no pipeline to keep.
LEMMA EndPipeline ==
    ASSUME Inv, PipelineInv, NEW c \in Conns, Refuse(c) \/ SendEnd(c) \/ Detach(c) \/ Break(c)
    PROVE  PipelineInv'
<1>1. /\ UNCHANGED <<sender, up, writes>>
      /\ \/ link' = [link EXCEPT ![c] = "closing"] \/ (link' = link /\ link[c] # "open")
      /\ down' = [down EXCEPT ![c] = down'[c]]
  <2>1. CASE Refuse(c)
    BY <2>1, ViewTypes DEF Refuse, wrapperVars, screenVars
  <2>2. CASE SendEnd(c)
    BY <2>2, SendEndStep DEF wrapperVars, screenVars
  <2>3. CASE Detach(c)
    BY <2>3, ViewTypes DEF Detach, netVars, screenVars
  <2>4. CASE Break(c)
    BY <2>4, BreakStep DEF wrapperVars, screenVars
  <2>5. QED
    BY <2>1, <2>2, <2>3, <2>4
<1>2. ASSUME NEW d \in Conns PROVE Untouched(d)
  <2>1. CASE d = c
    BY <1>1, <2>1, ViewTypes DEF Untouched
  <2>2. CASE d # c
    BY <1>1, <2>2, ViewTypes DEF Untouched
  <2>3. QED
    BY <2>1, <2>2
<1>3. QED
  BY <1>1, <1>2, PipelineKept

\* A message that is not data leaves the pipeline as it is.
LEMMA TakenPipeline ==
    ASSUME Inv, PipelineInv, NEW c \in Conns,
           ReceiveStale(c) \/ ReceiveReplay(c) \/ ReceiveEnd(c)
    PROVE  PipelineInv'
<1>1. /\ UNCHANGED <<sender, up, writes, link>>
      /\ down[c] # <<>> /\ down' = [down EXCEPT ![c] = Tail(down[c])]
  BY ReceiveStaleStep, ReceiveReplayStep DEF ReceiveEnd, wrapperVars, screenVars
<1>2. ASSUME NEW d \in Conns, link'[d] = "open" PROVE Ordered(d)'
  <2>1. CASE d = c
    <3>1. InOrder(c, sender[c], up[c], writes, down[c])
      BY <1>1, <1>2, <2>1 DEF PipelineInv
    <3>2. InOrder(c, sender[c], up[c], writes, Tail(down[c]))
      BY <1>1, <3>1, PipelineTypes, OrderTaken
    <3>3. down'[c] = Tail(down[c])
      BY <1>1, ViewTypes
    <3>4. QED
      BY <1>1, <2>1, <3>2, <3>3 DEF Ordered
  <2>2. CASE d # c
    <3>1. Untouched(d)
      BY <1>1, <2>2, ViewTypes DEF Untouched
    <3>2. QED
      BY <1>1, <1>2, <3>1, OrderedKept
  <2>3. QED
    BY <2>1, <2>2
<1>3. QED
  BY <1>2 DEF PipelineInv, Ordered

\* A frame moves on from the connection to the screen, or its connection ends.
LEMMA ReceiveDataPipeline ==
    ASSUME Inv, PipelineInv, NEW c \in Conns, ReceiveData(c)
    PROVE  PipelineInv'
<1> DEFINE m == Head(down[c])
           w == [conn |-> c, from |-> m.from, to |-> m.to]
<1>1. /\ UNCHANGED <<sender, up>>
      /\ down[c] # <<>> /\ m.type = "data" /\ m.from \in 0..Total /\ m.to \in 0..Total
      /\ \/ writes' = Append(writes, w) /\ link' = link
            /\ down' = [down EXCEPT ![c] = Tail(down[c])]
         \/ link' = Closed(link, c) /\ down' = Dropped(c) /\ writes' = writes
  BY ReceiveDataStep DEF wrapperVars
<1>2. CASE writes' = Append(writes, w) /\ link' = link /\ down' = [down EXCEPT ![c] = Tail(down[c])]
  <2>1. w \in Writes /\ w.conn = c /\ w.from = m.from /\ w.to = m.to
    BY <1>1 DEF Writes
  <2> HIDE DEF w
  <2>2. ASSUME NEW d \in Conns, link'[d] = "open" PROVE Ordered(d)'
    <3>0. InOrder(d, sender[d], up[d], writes, down[d])
      BY <1>2, <2>2 DEF PipelineInv
    <3>1. CASE d = c
      <4>1. InOrder(c, sender[c], up[c], Append(writes, w), Tail(down[c]))
        BY <1>1, <2>1, <3>0, <3>1, PipelineTypes, OrderReceived
      <4>2. down'[c] = Tail(down[c])
        BY <1>2, ViewTypes
      <4>3. QED
        BY <1>1, <1>2, <3>1, <4>1, <4>2 DEF Ordered
    <3>2. CASE d # c
      <4>1. InOrder(d, sender[d], up[d], Append(writes, w), down[d])
        BY <2>1, <3>0, <3>2, PipelineTypes, OrderOther
      <4>2. down'[d] = down[d]
        BY <1>2, <3>2, ViewTypes
      <4>3. QED
        BY <1>1, <1>2, <4>1, <4>2 DEF Ordered
    <3>3. QED
      BY <3>1, <3>2
  <2>3. QED
    BY <2>2 DEF PipelineInv, Ordered
<1>3. CASE link' = Closed(link, c) /\ down' = Dropped(c) /\ writes' = writes
  <2>1. \A d \in Conns : Untouched(d)
    <3>1. /\ \A d \in Conns : Closed(link, c)[d] =
                 IF d = c /\ link[d] \in {"connecting", "open"} THEN "closing" ELSE link[d]
          /\ \A d \in Conns : Dropped(c)[d] = IF d = c THEN <<>> ELSE down[d]
      BY ViewTypes, ClosedStep DEF Inv
    <3>2. QED
      BY <1>1, <1>3, <3>1 DEF Untouched
  <2>2. QED
    BY <1>3, <2>1, PipelineKept
<1>4. QED
  BY <1>1, <1>2, <1>3

\* A rendered write is acknowledged on its own connection, behind the
\* acknowledgments under way.
LEMMA RenderPipeline ==
    ASSUME Inv, PipelineInv, Render
    PROVE  PipelineInv'
<1> DEFINE w == writes[1]
<1>1. /\ UNCHANGED <<sender, link, down>>
      /\ writes # <<>> /\ writes' = Tail(writes)
      /\ w.conn \in Conns /\ w.from < w.to
      /\ up' = IF Ours(w.conn) /\ link[w.conn] = "open"
               THEN [up EXCEPT ![w.conn] = Append(up[w.conn], w.to)] ELSE up
  BY RenderStep DEF wrapperVars
<1> HIDE DEF w
<1>2. ASSUME NEW d \in Conns, link'[d] = "open" PROVE Ordered(d)'
  <2>0. InOrder(d, sender[d], up[d], writes, down[d])
    BY <1>1, <1>2 DEF PipelineInv
  <2>1. CASE up'[d] = up[d]
    <3>1. InOrder(d, sender[d], up[d], Tail(writes), down[d])
      BY <1>1, <2>0, PipelineTypes, OrderRendered
    <3>2. QED
      BY <1>1, <2>1, <3>1 DEF Ordered
  <2>2. CASE w.conn = d /\ up'[d] = Append(up[d], w.to)
    <3>1. InOrder(d, sender[d], Append(up[d], w.to), Tail(writes), down[d])
      BY <1>1, <2>0, <2>2, PipelineTypes, OrderAnswered DEF w
    <3>2. QED
      BY <1>1, <2>2, <3>1 DEF Ordered
  <2>3. up'[d] = up[d] \/ (w.conn = d /\ up'[d] = Append(up[d], w.to))
    BY <1>1, ViewTypes
  <2>4. QED
    BY <2>1, <2>2, <2>3
<1>3. QED
  BY <1>2 DEF PipelineInv, Ordered

\* A reconnection opens no connection by itself: the wrapper does, in Attach.
LEMMA ReconnectPipeline ==
    ASSUME Inv, PipelineInv, \/ \E c \in Conns : CloseEvent(c) \/ Resume(c) \/ Retry(c)
                             \/ PollAnswered
    PROVE  PipelineInv'
<1>1. UNCHANGED <<sender, up, down, writes>>
  BY DEF CloseEvent, Resume, Retry, PollAnswered, wrapperVars, netVars, screenVars
<1>2. \A d \in Conns : link'[d] = "open" => link[d] = "open"
  <2>1. CASE \E c \in Conns : Retry(c)
    BY <2>1, RetryStep, ViewTypes
  <2>2. CASE \E c \in Conns : CloseEvent(c)
    BY <2>2, ViewTypes DEF CloseEvent
  <2>3. CASE (\E c \in Conns : Resume(c)) \/ PollAnswered
    BY <2>3 DEF Resume, PollAnswered, netVars
  <2>4. QED
    BY <2>1, <2>2, <2>3
<1>3. QED
  BY <1>1, <1>2, PipelineKept DEF Untouched

\* A status answer closes connections and opens none.
LEMMA HandlePollPipeline ==
    ASSUME Inv, PipelineInv, HandlePoll
    PROVE  PipelineInv'
<1>1. UNCHANGED <<sender, up, writes>>
  BY HandlePollStep DEF wrapperVars
<1>2. \A d \in Conns : link'[d] = "open" => link[d] = "open" /\ down'[d] = down[d]
  <2>1. CASE disposed
    BY <2>1, HandlePollStep DEF netVars
  <2>2. CASE ~disposed
    <3>1. \A d \in Conns : down'[d] = IF NewInvocation /\ d = socket THEN <<>> ELSE down[d]
      BY <2>2, HandlePollStep
    <3>2. \/ \A d \in Conns : link'[d] =
                             IF NewInvocation /\ d = socket /\ link[d] \in {"connecting", "open"}
                             THEN "closing" ELSE link[d]
          \/ \E n \in Conns : \A d \in Conns : link'[d] =
                                   IF d = n THEN "connecting"
                                   ELSE IF NewInvocation /\ d = socket
                                           /\ link[d] \in {"connecting", "open"}
                                   THEN "closing" ELSE link[d]
      BY <2>2, HandlePollStep
    <3>3. ASSUME NEW d \in Conns, link'[d] = "open"
          PROVE  link[d] = "open" /\ ~(NewInvocation /\ d = socket)
      BY <3>2, <3>3
    <3>4. QED
      BY <3>1, <3>3
  <2>3. QED
    BY <2>1, <2>2
<1>3. QED
  BY <1>1, <1>2, PipelineKept DEF Untouched

\* A disposed view closes its socket and drops its writes.
LEMMA DisposePipeline ==
    ASSUME Inv, PipelineInv, Dispose
    PROVE  PipelineInv'
<1>1. /\ UNCHANGED <<sender, up>> /\ writes' = <<>>
      /\ link' = Closed(link, socket) /\ down' = Dropped(socket)
  BY DEF Dispose, wrapperVars
<1>2. /\ \A d \in Conns : Closed(link, socket)[d] =
             IF d = socket /\ link[d] \in {"connecting", "open"} THEN "closing" ELSE link[d]
      /\ \A d \in Conns : Dropped(socket)[d] = IF d = socket THEN <<>> ELSE down[d]
  BY ViewTypes, ClosedStep DEF Inv
<1>3. ASSUME NEW d \in Conns, link'[d] = "open" PROVE Ordered(d)'
  <2>1. link[d] = "open" /\ down'[d] = down[d]
    BY <1>1, <1>2, <1>3
  <2>2. InOrder(d, sender[d], up[d], <<>>, down[d])
    BY <2>1, OrderDiscarded DEF PipelineInv
  <2>3. QED
    BY <1>1, <2>1, <2>2 DEF Ordered
<1>4. QED
  BY <1>3 DEF PipelineInv, Ordered

\* Every step keeps the pipelines in order.
LEMMA PipelineNext ==
    ASSUME Inv, PipelineInv, [Next]_vars
    PROVE  PipelineInv'
<1>1. CASE Wrapper
  BY <1>1, WrapperPipeline DEF Wrapper
<1>2. ASSUME NEW c \in Conns, Connection(c) PROVE PipelineInv'
  <2>1. CASE Sends(c)
    BY <2>1, SendPipeline
  <2>2. QED
    BY <1>2, <2>1, AttachPipeline, ReadAckPipeline, EndPipeline DEF Connection, Sends
<1>3. ASSUME NEW c \in Conns, Break(c) PROVE PipelineInv'
  BY <1>3, EndPipeline
<1>4. ASSUME NEW c \in Conns, View(c) PROVE PipelineInv'
  BY <1>4, TakenPipeline, ReceiveDataPipeline, ReconnectPipeline DEF View, Receive
<1>5. CASE UNCHANGED vars
  BY <1>5, PipelineKept DEF Untouched, vars, wrapperVars, netVars, screenVars
<1>6. QED
  BY <1>1, <1>2, <1>3, <1>4, <1>5, RenderPipeline, ReconnectPipeline, HandlePollPipeline,
     DisposePipeline DEF Next

\* No connection is open at first.
LEMMA PipelineInit ==
    Init => PipelineInv
BY DEF Init, PipelineInv

-----------------------------------------------------------------------------
\* On every open connection the acknowledgments, the writes and the frames under
\* way lie one after another in the window (sendOutput, readMessages and the
\* onmessage handler).
THEOREM PipelineInvariance ==
    Spec => []PipelineInv
<1>1. Inv /\ PipelineInv /\ [Next]_vars => PipelineInv'
  BY PipelineNext
<1>2. QED
  BY <1>1, PipelineInit, Invariance, PTL DEF Spec

\* The acknowledgments a browser sends are never rejected by readMessages: none
\* lies before an earlier one nor beyond what was sent, whatever the
\* reconnections, the late callbacks of old sockets and the stale writes.
THEOREM AcknowledgmentsAreValid ==
    Spec => []AcksAreValid
<1>1. PipelineInv => AcksAreValid
  BY DEF PipelineInv, AcksAreValid, Sending, AckValid, InOrder, AcksInOrder
<1>2. QED
  BY <1>1, PipelineInvariance, PTL

\* Pairs told apart by their second component are as many as those components.
LEMMA ProjectionCardinality ==
    ASSUME NEW A, NEW T, IsFiniteSet(T), \A u \in A : u[2] \in T,
           \A u, v \in A : u[2] = v[2] => u = v
    PROVE  /\ IsFiniteSet(A)
           /\ Cardinality(A) = Cardinality({u[2] : u \in A})
<1> DEFINE f == [u \in A |-> u[2]]
           U == {u[2] : u \in A}
<1>1. f \in [A -> U] /\ (\A u, v \in A : f[u] = f[v] => u = v) /\ \A t \in U : \E u \in A : f[u] = t
  OBVIOUS
<1>2. f \in Injection(A, U) /\ f \in Surjection(A, U)
  <2> HIDE DEF f, U
  <2>1. f \in Injection(A, U)
    BY <1>1, Fun_IsInj
  <2>2. f \in Surjection(A, U)
    BY <1>1, Fun_IsSurj
  <2>3. QED
    BY <2>1, <2>2
<1>3. IsFiniteSet(U)
  BY FS_Subset
<1> HIDE DEF f
<1>4. QED
  BY <1>2, <1>3, FS_Injection

\* Two such sets with no second component in common fit together in any set of
\* them.
LEMMA DisjointProjections ==
    ASSUME NEW A, NEW B, NEW T, IsFiniteSet(T),
           \A u \in A : u[2] \in T, \A u, v \in A : u[2] = v[2] => u = v,
           \A u \in B : u[2] \in T, \A u, v \in B : u[2] = v[2] => u = v,
           \A u \in A, v \in B : u[2] # v[2]
    PROVE  Cardinality(A) + Cardinality(B) <= Cardinality(T)
<1> DEFINE U == {u[2] : u \in A}
           V == {u[2] : u \in B}
<1>1. Cardinality(A) = Cardinality(U) /\ Cardinality(B) = Cardinality(V)
  BY ProjectionCardinality
<1>2. U \cap V = {} /\ U \subseteq T /\ V \subseteq T
  OBVIOUS
<1> HIDE DEF U, V
<1>3. IsFiniteSet(U) /\ IsFiniteSet(V) /\ IsFiniteSet(U \cup V) /\ U \cup V \subseteq T
  BY <1>2, FS_Subset
<1>4. Cardinality(U \cup V) = Cardinality(U) + Cardinality(V) - 0
  BY <1>2, <1>3, FS_Union, FS_EmptySet
<1>5. Cardinality(U \cup V) <= Cardinality(T)
  BY <1>3, FS_Subset
<1>6. Cardinality(U) \in Nat /\ Cardinality(V) \in Nat
  BY <1>3, FS_CardinalityType
<1>7. QED
  BY <1>1, <1>4, <1>5, <1>6

\* An interval of n naturals has n elements.
LEMMA IntervalSize ==
    ASSUME NEW a \in Nat, NEW n \in Nat \ {0}
    PROVE  IsFiniteSet(a..(a + n - 1)) /\ Cardinality(a..(a + n - 1)) = n
<1> DEFINE b == a + n - 1
<1>1. a \in Int /\ b \in Int /\ ~(a > b) /\ b - a + 1 = n
  OBVIOUS
<1> HIDE DEF b
<1>2. IsFiniteSet(a..b) /\ Cardinality(a..b) = n
  BY <1>1, FS_Interval
<1>3. QED
  BY <1>2 DEF b

\* The bytes in order lie at different offsets of the window, so they are no more
\* than it holds.
LEMMA PipelineFits ==
    ASSUME Inv, PipelineInv, NEW c \in Conns, Sending(c)
    PROVE  Cardinality(UnderWay(c)) + Cardinality(Unrendered(c)) <= Window
<1> DEFINE s == sender[c]
           T == s.acked..(s.acked + Window - 1)
<1>1. /\ InOrder(c, s, up[c], writes, down[c])
      /\ s.sent <= s.acked + Window
  BY DEF Inv, WrapperInv, AttachmentInv, SenderOK, PipelineInv, Sending
<1>2. /\ s.acked \in Nat /\ s.sent \in Nat
      /\ Len(writes) \in Nat /\ Len(down[c]) \in Nat
      /\ \A i \in 1..Len(writes) : writes[i].from \in Nat /\ writes[i].to \in Nat
      /\ \A i \in 1..Len(down[c]) : IsData(down[c], i) => down[c][i].from \in Nat /\ down[c][i].to \in Nat
  BY PipelineFields, PipelineTypes
<1>3. Window \in Nat \ {0} /\ \A b \in 0..Total : b \in Nat
  BY Bounds
<1>w. s.acked \in Nat /\ s.sent \in Nat /\ Window \in Nat /\ s.sent <= s.acked + Window
  BY <1>1, <1>2, <1>3
<1>4. IsFiniteSet(T) /\ Cardinality(T) = Window
  BY <1>2, <1>3, IntervalSize
<1> HIDE DEF s
<1>5. ASSUME NEW u \in UnderWay(c)
      PROVE  /\ u = <<u[1], u[2]>> /\ u[1] \in 1..Len(down[c]) /\ u[2] \in Nat
             /\ IsData(down[c], u[1])
             /\ down[c][u[1]].from <= u[2] /\ u[2] < down[c][u[1]].to
  BY <1>3 DEF UnderWay, Within, IsData
<1>6. ASSUME NEW u \in Unrendered(c)
      PROVE  /\ u = <<u[1], u[2]>> /\ u[1] \in 1..Len(writes) /\ u[2] \in Nat
             /\ IsWrite(writes, c, u[1])
             /\ writes[u[1]].from <= u[2] /\ u[2] < writes[u[1]].to
  BY <1>3 DEF Unrendered, Within, IsWrite
<1>7. FramesInOrder(c, s, up[c], writes, down[c]) /\ WritesInOrder(c, s, up[c], writes)
  BY <1>1 DEF InOrder
<1>8. ASSUME NEW u \in UnderWay(c) PROVE u[2] \in T
  <2>1. s.acked <= down[c][u[1]].from /\ down[c][u[1]].to <= s.sent
    BY <1>5, <1>7 DEF FramesInOrder
  <2>2. /\ down[c][u[1]].from \in Nat /\ down[c][u[1]].to \in Nat /\ u[2] \in Nat
        /\ down[c][u[1]].from <= u[2] /\ u[2] < down[c][u[1]].to
    BY <1>2, <1>5
  <2>3. s.acked <= u[2] /\ u[2] <= s.acked + Window - 1
    BY <2>1, <2>2, <1>w
  <2>4. QED
    BY <2>2, <2>3, <1>2, <1>3
<1>9. ASSUME NEW u \in Unrendered(c) PROVE u[2] \in T
  <2>1. s.acked <= writes[u[1]].from /\ writes[u[1]].to <= s.sent
    BY <1>6, <1>7 DEF WritesInOrder
  <2>2. /\ writes[u[1]].from \in Nat /\ writes[u[1]].to \in Nat /\ u[2] \in Nat
        /\ writes[u[1]].from <= u[2] /\ u[2] < writes[u[1]].to
    BY <1>2, <1>6
  <2>3. s.acked <= u[2] /\ u[2] <= s.acked + Window - 1
    BY <2>1, <2>2, <1>w
  <2>4. QED
    BY <2>2, <2>3, <1>2, <1>3
<1> HIDE DEF T
<1>10. ASSUME NEW u \in UnderWay(c), NEW v \in UnderWay(c), u[2] = v[2] PROVE u = v
  <2>1. ~(u[1] < v[1])
    <3>1. u[1] < v[1] => down[c][u[1]].to <= down[c][v[1]].from
      BY <1>5, <1>7 DEF FramesInOrder
    <3>2. QED
      BY <3>1, <1>2, <1>5, <1>10
  <2>2. ~(v[1] < u[1])
    <3>1. v[1] < u[1] => down[c][v[1]].to <= down[c][u[1]].from
      BY <1>5, <1>7 DEF FramesInOrder
    <3>2. QED
      BY <3>1, <1>2, <1>5, <1>10
  <2>3. u[1] \in Int /\ v[1] \in Int
    BY <1>5
  <2>4. u[1] = v[1]
    BY <2>1, <2>2, <2>3
  <2>5. QED
    BY <2>4, <1>5, <1>10
<1>11. ASSUME NEW u \in Unrendered(c), NEW v \in Unrendered(c), u[2] = v[2] PROVE u = v
  <2>1. ~(u[1] < v[1])
    <3>1. u[1] < v[1] => writes[u[1]].to <= writes[v[1]].from
      BY <1>6, <1>7 DEF WritesInOrder
    <3>2. QED
      BY <3>1, <1>2, <1>6, <1>11
  <2>2. ~(v[1] < u[1])
    <3>1. v[1] < u[1] => writes[v[1]].to <= writes[u[1]].from
      BY <1>6, <1>7 DEF WritesInOrder
    <3>2. QED
      BY <3>1, <1>2, <1>6, <1>11
  <2>3. u[1] \in Int /\ v[1] \in Int
    BY <1>6
  <2>4. u[1] = v[1]
    BY <2>1, <2>2, <2>3
  <2>5. QED
    BY <2>4, <1>6, <1>11
<1>12. ASSUME NEW u \in UnderWay(c), NEW v \in Unrendered(c) PROVE u[2] # v[2]
  <2>1. writes[v[1]].to <= down[c][u[1]].from
    BY <1>5, <1>6, <1>7 DEF FramesInOrder
  <2>2. QED
    BY <2>1, <1>2, <1>5, <1>6
<1>13. Cardinality(UnderWay(c)) + Cardinality(Unrendered(c)) <= Cardinality(T)
  BY <1>4, <1>8, <1>9, <1>10, <1>11, <1>12, DisjointProjections
<1>14. QED
  BY <1>4, <1>13

\* What an open connection has under way and not rendered fits the window: a
\* browser that renders slowly bounds sendOutput, and its own memory.
THEOREM BacklogBounded ==
    Spec => []BacklogIsBounded
<1>1. Inv /\ PipelineInv => BacklogIsBounded
  BY PipelineFits DEF BacklogIsBounded
<1>2. QED
  BY <1>1, Invariance, PipelineInvariance, PTL

-----------------------------------------------------------------------------
NoEnd(fs) == \A i \in 1..Len(fs) : fs[i].type # "end"

\* What the end of the output means stays true.
EndStands ==
    /\ current' = current
    /\ OutputEnded => OutputEnded' /\ produced' = produced

\* A connection without an end message has nothing to say of the end.
LEMMA EndAbsent ==
    ASSUME NEW c \in Conns, NoEnd(down'[c])
    PROVE  EndOf(c)'
BY DEF EndOf, EndsLast, NoEnd

\* A connection that is not ending carries no end message.
LEMMA OpenHasNoEnd ==
    ASSUME NEW c \in Conns, EndOf(c), ~Closing(c)
    PROVE  NoEnd(down[c])
BY DEF EndOf, NoEnd

\* A connection that is left alone keeps what its end message means.
LEMMA EndKept ==
    ASSUME NEW c \in Conns, EndOf(c), EndStands,
           Closing(c) => Closing(c)' /\ request'[c] = request[c],
           down'[c] = down[c]
    PROVE  EndOf(c)'
BY DEF EndOf, EndStands, EndsLast

\* So does one whose next message is taken.
LEMMA EndTaken ==
    ASSUME NEW c \in Conns, EndOf(c), EndStands,
           Closing(c) => Closing(c)' /\ request'[c] = request[c],
           Len(down[c]) \in Nat \ {0}, Len(down'[c]) = Len(down[c]) - 1,
           \A i \in 1..Len(down'[c]) : down'[c][i] = down[c][i + 1] /\ i + 1 \in 1..Len(down[c])
    PROVE  EndOf(c)'
<1>1. EndsLast(down'[c])
  BY DEF EndOf, EndsLast
<1>2. QED
  BY <1>1 DEF EndOf, EndStands

\* A complete view stays complete while its connection stays ended and empty.
LEMMA CompleteEnd ==
    ASSUME CompleteInv, EndStands, UNCHANGED <<complete, view, socket, received>>,
           socket # None /\ Closing(socket) /\ down[socket] = <<>> =>
               Closing(socket)' /\ down'[socket] = <<>>
    PROVE  CompleteInv'
BY DEF CompleteInv, EndStands

\* Output ends before the end message: Finish and Drain only come after the last
\* of it.
LEMMA WrapperEnd ==
    ASSUME Inv, EndInv, \/ \E n \in Chunks : Output(n)
                        \/ Finish \/ Drain \/ WrapperExits
    PROVE  EndInv'
<1>1. /\ UNCHANGED <<current, down, request, viewVars>>
      /\ stage \in {"running", "finished", "draining"}
      /\ OutputEnded => OutputEnded' /\ produced' = produced
      /\ \/ link' = link
         \/ link' = [c \in Conns |-> IF link[c] \in {"connecting", "open"}
                                     THEN "closing" ELSE link[c]]
  BY DEF Output, Finish, Drain, WrapperExits, netVars, OutputEnded
<1>2. EndStands
  BY <1>1 DEF EndStands
<1>3. \A c \in Conns : Closing(c) => Closing(c)'
  BY <1>1 DEF Closing
<1>4. \A c \in Conns : EndOf(c)'
  BY <1>1, <1>2, <1>3, EndKept DEF EndInv
<1>5. CompleteInv'
  BY <1>1, <1>2, <1>3, CompleteEnd, ViewTypes DEF EndInv, viewVars
<1>6. QED
  BY <1>4, <1>5 DEF EndInv

\* A new invocation leaves the end messages to the old one.
LEMMA LaunchEnd ==
    ASSUME Inv, EndInv, Launch
    PROVE  EndInv'
<1>1. /\ UNCHANGED <<produced, netVars, viewVars>>
      /\ current' = current + 1 /\ view <= current
  BY DEF Launch, Inv, ViewInv
<1>2. current \in Nat /\ view \in Nat
  BY ViewTypes
<1>3. ASSUME NEW c \in Conns PROVE EndOf(c)'
  <2>1. link[c] # "unused" => request[c].invocation <= view /\ request[c].invocation \in Nat
    BY ViewTypes DEF ConnectionInv
  <2>2. Closing(c) => request'[c].invocation # current'
    BY <1>1, <1>2, <2>1 DEF Closing, netVars
  <2>3. down'[c] = down[c] /\ (Closing(c) <=> Closing(c)')
    BY <1>1 DEF netVars, Closing
  <2>4. EndOf(c)
    BY DEF EndInv
  <2>5. QED
    BY <2>2, <2>3, <2>4 DEF EndOf
<1>4. CompleteInv'
  <2>1. view' # current'
    BY <1>1, <1>2 DEF viewVars
  <2>2. QED
    BY <2>1 DEF CompleteInv
<1>5. QED
  BY <1>3, <1>4 DEF EndInv

\* The harness starts when no view of its invocation can be complete.
LEMMA LaunchedEnd ==
    ASSUME Inv, EndInv, Launched
    PROVE  EndInv'
<1>1. UNCHANGED <<current, netVars, viewVars>> /\ ~OutputEnded
  BY DEF Launched, OutputEnded
<1>2. EndStands
  BY <1>1 DEF EndStands
<1>3. ASSUME NEW c \in Conns PROVE EndOf(c)'
  BY <1>1, <1>2, EndKept DEF EndInv, netVars, Closing
<1>4. CompleteInv'
  BY <1>1 DEF EndInv, CompleteInv, viewVars
<1>5. QED
  BY <1>3, <1>4 DEF EndInv

\* A new connection carries no end message, and is not the complete view's.
LEMMA AttachEnd ==
    ASSUME Inv, EndInv, NEW c \in Conns, Attach(c)
    PROVE  EndInv'
<1>0. PICK start \in 0..produced, gap \in BOOLEAN : Attached(c, start, gap)
  BY AttachStep
<1>1. /\ link[c] = "connecting" /\ link' = [link EXCEPT ![c] = "open"]
      /\ down' = [down EXCEPT ![c] = <<[type |-> "replay", offset |-> start, gap |-> gap]>>]
      /\ UNCHANGED <<current, stage, produced, request, viewVars>>
  BY <1>0 DEF Attached
<1>2. EndStands
  BY <1>1 DEF EndStands, OutputEnded
<1>3. ASSUME NEW d \in Conns PROVE EndOf(d)'
  <2>1. CASE d = c
    <3>1. down'[c] = <<[type |-> "replay", offset |-> start, gap |-> gap]>>
      BY <1>1, ViewTypes
    <3>2. NoEnd(down'[c])
      BY <3>1 DEF NoEnd
    <3>3. QED
      BY <2>1, <3>2, EndAbsent
  <2>2. CASE d # c
    <3>1. link'[d] = link[d] /\ down'[d] = down[d]
      BY <1>1, <2>2, ViewTypes
    <3>2. QED
      BY <1>1, <1>2, <3>1, EndKept DEF EndInv, Closing
  <2>3. QED
    BY <2>1, <2>2
<1>4. CompleteInv'
  <2>1. socket # None /\ Closing(socket) => socket \in Conns /\ socket # c
    BY <1>1, ViewTypes DEF Closing
  <2>2. socket # None /\ Closing(socket) /\ down[socket] = <<>> =>
            Closing(socket)' /\ down'[socket] = <<>>
    BY <1>1, <2>1, ViewTypes DEF Closing, viewVars
  <2>3. QED
    BY <1>1, <1>2, <2>2, CompleteEnd DEF EndInv, viewVars
<1>5. QED
  BY <1>3, <1>4 DEF EndInv

\* The steps of the wrapper on an open connection, and what ends one.
LEMMA ConnectionEnd ==
    ASSUME Inv, EndInv, NEW c \in Conns,
           UNCHANGED <<current, stage, produced, request, viewVars>>,
           link[c] \in {"connecting", "open"},
           link' = link \/ link' = [link EXCEPT ![c] = "closing"],
           down' = [down EXCEPT ![c] = down'[c]],
           EndOf(c)'
    PROVE  EndInv'
<1>1. EndStands
  BY DEF EndStands, OutputEnded
<1>2. ASSUME NEW d \in Conns PROVE EndOf(d)'
  <2>1. CASE d = c
    BY <2>1
  <2>2. CASE d # c
    <3>1. link'[d] = link[d] /\ down'[d] = down[d]
      BY <2>2, ViewTypes
    <3>2. QED
      BY <1>1, <3>1, EndKept DEF EndInv, Closing
  <2>3. QED
    BY <2>1, <2>2
<1>3. CompleteInv'
  <2>1. socket # None /\ Closing(socket) => socket \in Conns /\ socket # c
    BY ViewTypes DEF Closing
  <2>2. socket # None /\ Closing(socket) /\ down[socket] = <<>> =>
            Closing(socket)' /\ down'[socket] = <<>>
    BY <2>1, ViewTypes DEF Closing, viewVars
  <2>3. QED
    BY <1>1, <2>2, CompleteEnd DEF EndInv, viewVars
<1>4. QED
  BY <1>2, <1>3 DEF EndInv

\* sendOutput's end message comes last, and only where the finished output ends.
LEMMA SenderEnd ==
    ASSUME Inv, EndInv, NEW c \in Conns,
           Refuse(c) \/ Sends(c) \/ ReadAck(c) \/ SendEnd(c) \/ Break(c)
    PROVE  EndInv'
<1>1. NoEnd(down[c]) /\ link[c] \in {"connecting", "open"}
  <2>1. link[c] \in {"connecting", "open"}
    BY SendStep, ReadAckStep, SendEndStep, BreakStep DEF Refuse
  <2>2. QED
    BY <2>1, OpenHasNoEnd DEF EndInv, Closing
<1>2. CASE Refuse(c) \/ ReadAck(c)
  <2>1. /\ UNCHANGED <<current, stage, produced, request, viewVars, down>>
        /\ link' = link \/ link' = [link EXCEPT ![c] = "closing"]
    BY <1>2, ReadAckStep DEF Refuse, wrapperVars
  <2>2. EndOf(c)'
    BY <1>1, <2>1, EndAbsent
  <2>3. down' = [down EXCEPT ![c] = down'[c]]
    BY <2>1, ViewTypes
  <2>4. QED
    BY <1>1, <2>1, <2>2, <2>3, ConnectionEnd
<1>3. CASE Sends(c)
  <2>1. /\ UNCHANGED <<current, stage, produced, request, viewVars, link>>
        /\ \/ down' = down
           \/ down' = [down EXCEPT ![c] =
                                Append(down[c], Frame(sender[c].sent, sender'[c].sent))]
        /\ sender'[c] \in Senders
    BY <1>3, SendStep
  <2>2. down' = [down EXCEPT ![c] = down'[c]] /\ NoEnd(down'[c])
    <3>1. CASE down' = down
      BY <1>1, <3>1, ViewTypes
    <3>2. CASE down' = [down EXCEPT ![c] = Append(down[c], Frame(sender[c].sent, sender'[c].sent))]
      <4>1. /\ down'[c] = Append(down[c], Frame(sender[c].sent, sender'[c].sent))
            /\ down' = [down EXCEPT ![c] = down'[c]]
        BY <3>2, ViewTypes
      <4>2. /\ Frame(sender[c].sent, sender'[c].sent) \in Messages
            /\ Frame(sender[c].sent, sender'[c].sent).type = "data"
        <5>1. sender[c].sent \in 0..Total /\ sender'[c].sent \in 0..Total
          BY <2>1, PipelineTypes DEF Senders
        <5>2. QED
          BY <5>1, FrameFields
      <4>3. down[c] \in Seq(Messages)
        BY ViewTypes
      <4>4. NoEnd(Append(down[c], Frame(sender[c].sent, sender'[c].sent)))
        BY <1>1, <4>2, <4>3 DEF NoEnd
      <4>5. QED
        BY <4>1, <4>4
    <3>3. QED
      BY <2>1, <3>1, <3>2
  <2>3. QED
    BY <1>1, <2>1, <2>2, EndAbsent, ConnectionEnd
<1>4. CASE SendEnd(c)
  <2>1. /\ UNCHANGED <<current, stage, produced, request, viewVars>>
        /\ link' = [link EXCEPT ![c] = "closing"]
        /\ down' = [down EXCEPT ![c] = down'[c]]
        /\ \/ down'[c] = down[c]
           \/ /\ FinishedAt(sender[c].sent)
              /\ down'[c] = Append(down[c], [type |-> "end", offset |-> sender[c].sent])
    BY <1>4, SendEndStep DEF wrapperVars
  <2>2. EndOf(c)'
    <3>1. CASE down'[c] = down[c]
      BY <1>1, <3>1, EndAbsent
    <3>2. CASE /\ FinishedAt(sender[c].sent)
               /\ down'[c] = Append(down[c], [type |-> "end", offset |-> sender[c].sent])
      <4>1. [type |-> "end", offset |-> sender[c].sent] \in Messages
        BY PipelineTypes DEF Senders, Messages
      <4> DEFINE m == [type |-> "end", offset |-> sender[c].sent]
      <4>2. m.offset = sender[c].sent
        OBVIOUS
      <4>3. m \in Messages /\ down'[c] = Append(down[c], m)
        BY <3>2, <4>1
      <4> HIDE DEF m
      <4>4. /\ Len(down[c]) \in Nat /\ Len(down'[c]) = Len(down[c]) + 1
            /\ down'[c][Len(down[c]) + 1] = m
            /\ \A i \in 1..Len(down[c]) : down'[c][i] = down[c][i]
        BY <4>3, ViewTypes
      <4>5. ASSUME NEW i \in 1..Len(down'[c]), down'[c][i].type = "end"
            PROVE  i = Len(down'[c]) /\ down'[c][i] = m
        BY <1>1, <4>4, <4>5 DEF NoEnd
      <4>6. Closing(c)'
        BY <2>1, ViewTypes DEF Closing
      <4>7. OutputEnded' /\ sender[c].sent = produced'
        BY <2>1, <3>2 DEF OutputEnded, FinishedAt
      <4>8. QED
        BY <4>2, <4>5, <4>6, <4>7 DEF EndOf, EndsLast
    <3>3. QED
      BY <2>1, <3>1, <3>2
  <2>3. QED
    BY <1>1, <2>1, <2>2, ConnectionEnd
<1>5. CASE Break(c)
  <2>1. PICK n \in 0..Len(down[c]) :
              /\ UNCHANGED <<wrapperVars, up, request, viewVars, retryVars, screenVars>>
              /\ link' = [link EXCEPT ![c] = "closing"]
              /\ down' = [down EXCEPT ![c] = down'[c]]
              /\ Len(down'[c]) = n
              /\ \A i \in 1..n : down'[c][i] = down[c][i]
    BY <1>5, BreakStep
  <2>2. Len(down[c]) \in Nat
    BY ViewTypes
  <2>3. NoEnd(down'[c])
    BY <1>1, <2>1, <2>2 DEF NoEnd
  <2>4. QED
    BY <1>1, <2>1, <2>3, EndAbsent, ConnectionEnd DEF wrapperVars
<1>6. QED
  BY <1>2, <1>3, <1>4, <1>5

\* The end message completes the view only when all that came before it was
\* received.
LEMMA ReceiveKeepsEnd ==
    ASSUME Inv, EndInv, NEW c \in Conns, Receive(c)
    PROVE  EndInv'
<1>1. /\ UNCHANGED <<wrapperVars, request, view, socket>>
      /\ down[c] # <<>>
      /\ \/ down' = [down EXCEPT ![c] = Tail(down[c])] /\ link' = link
         \/ link' = Closed(link, c) /\ down' = Dropped(c)
  <2>1. CASE ReceiveStale(c) \/ ReceiveReplay(c)
    BY <2>1, ReceiveStaleStep, ReceiveReplayStep DEF viewVars
  <2>2. CASE ReceiveData(c)
    BY <2>2, ReceiveDataStep
  <2>3. CASE ReceiveEnd(c)
    BY <2>3 DEF ReceiveEnd
  <2>4. QED
    BY <2>1, <2>2, <2>3 DEF Receive
<1>2. EndStands
  BY <1>1 DEF EndStands, OutputEnded, wrapperVars
<1>3. /\ \A d \in Conns : Closing(d) => Closing(d)'
      /\ \A d \in Conns : d # c => down'[d] = down[d]
      /\ down'[c] = <<>> \/ down' = [down EXCEPT ![c] = Tail(down[c])]
  <2>1. CASE down' = [down EXCEPT ![c] = Tail(down[c])] /\ link' = link
    BY <2>1, ViewTypes DEF Closing
  <2>2. CASE link' = Closed(link, c) /\ down' = Dropped(c)
    <3>1. /\ \A d \in Conns : Closed(link, c)[d] =
                 IF d = c /\ link[d] \in {"connecting", "open"} THEN "closing" ELSE link[d]
          /\ \A d \in Conns : Dropped(c)[d] = IF d = c THEN <<>> ELSE down[d]
      BY ViewTypes, ClosedStep DEF Inv
    <3>2. QED
      BY <2>2, <3>1 DEF Closing
  <2>3. QED
    BY <1>1, <2>1, <2>2
<1>4. ASSUME NEW d \in Conns PROVE EndOf(d)'
  <2>1. CASE d # c
    BY <1>1, <1>2, <1>3, <2>1, EndKept DEF EndInv
  <2>2. CASE down'[c] = <<>> /\ d = c
    <3>1. NoEnd(down'[c])
      BY <2>2 DEF NoEnd
    <3>2. QED
      BY <2>2, <3>1, EndAbsent
  <2>3. CASE down' = [down EXCEPT ![c] = Tail(down[c])] /\ d = c
    <3>1. /\ Len(down[c]) \in Nat \ {0} /\ Len(down'[c]) = Len(down[c]) - 1
          /\ \A i \in 1..Len(down'[c]) : down'[c][i] = down[c][i + 1] /\ i + 1 \in 1..Len(down[c])
      BY <1>1, <2>3, DownTail DEF Inv
    <3>2. QED
      BY <1>1, <1>2, <1>3, <2>3, <3>1, EndTaken DEF EndInv
  <2>4. QED
    BY <1>3, <2>1, <2>2, <2>3
<1>5. CompleteInv'
  <2>1. CASE ReceiveStale(c)
    <3>1. UNCHANGED viewVars
      BY <2>1, ReceiveStaleStep
    <3>2. socket # None /\ down[socket] = <<>> => socket \in Conns /\ socket # c
      BY <1>1, ViewTypes
    <3>3. QED
      BY <1>2, <1>3, <3>1, <3>2, CompleteEnd DEF EndInv, viewVars
  <2>2. CASE ReceiveReplay(c) \/ ReceiveData(c)
    <3>1. socket = c /\ complete' = complete
      BY <2>2, ReceiveReplayStep, ReceiveDataStep
    <3>2. ~(complete /\ view = current)
      BY <1>1, <3>1 DEF EndInv, CompleteInv
    <3>3. QED
      BY <1>1, <3>1, <3>2 DEF CompleteInv, wrapperVars
  <2>3. CASE ReceiveEnd(c)
    <3>1. /\ ~disposed /\ socket = c /\ Head(down[c]).type = "end" /\ received' = received
          /\ complete' = (complete \/ Head(down[c]).offset = received[c])
          /\ link' = link /\ down' = [down EXCEPT ![c] = Tail(down[c])]
      BY <2>3 DEF ReceiveEnd, Ours
    <3>2. /\ Len(down[c]) \in Nat \ {0} /\ Len(down'[c]) = Len(down[c]) - 1
          /\ down'[c] \in Seq(Messages)
          /\ Head(down[c]) = down[c][1] /\ 1 \in 1..Len(down[c])
      BY <1>1, <3>1, DownTail DEF Inv
    <3>3. EndOf(c) /\ down[c][1].type = "end"
      BY <3>1, <3>2 DEF EndInv
    <3>4. Len(down[c]) = 1 /\ Closing(c)
      BY <3>2, <3>3 DEF EndOf, EndsLast
    <3>5. down'[c] = <<>> /\ Closing(c)'
      BY <3>1, <3>2, <3>4 DEF Closing
    <3>6. ASSUME complete', view' = current' PROVE OutputEnded' /\ received'[c] = produced'
      <4>1. ~(complete /\ view = current)
        BY <1>1, <3>1 DEF EndInv, CompleteInv
      <4>2. view = current /\ down[c][1].offset = received[c]
        BY <1>1, <3>1, <3>2, <3>6, <4>1 DEF wrapperVars
      <4>3. request[c].invocation = view
        BY <3>1, ViewTypes DEF Inv, ViewInv
      <4>4. OutputEnded /\ down[c][1].offset = produced
        BY <3>2, <3>3, <4>2, <4>3 DEF EndOf
      <4>5. QED
        BY <1>1, <1>2, <3>1, <4>2, <4>4 DEF EndStands
    <3>7. QED
      BY <1>1, <3>1, <3>5, <3>6, ViewTypes DEF CompleteInv
  <2>4. QED
    BY <2>1, <2>2, <2>3 DEF Receive
<1>6. QED
  BY <1>4, <1>5 DEF EndInv

\* A step that leaves the messages and the view alone keeps EndInv.
LEMMA StillEnd ==
    ASSUME Inv, EndInv,
           UNCHANGED <<current, stage, produced, down, request, view, socket, received, complete>>,
           \A c \in Conns : Closing(c) => Closing(c)'
    PROVE  EndInv'
<1>1. EndStands
  BY DEF EndStands, OutputEnded
<1>2. \A c \in Conns : EndOf(c)'
  BY <1>1, EndKept DEF EndInv
<1>3. CompleteInv'
  BY <1>1, CompleteEnd, ViewTypes DEF EndInv
<1>4. QED
  BY <1>2, <1>3 DEF EndInv

\* A complete view does not retry; a retry keeps EndInv.
LEMMA RetryEnd ==
    ASSUME Inv, EndInv, NEW c \in Conns, Retry(c)
    PROVE  EndInv'
<1>1. /\ UNCHANGED <<wrapperVars, down, view, received, complete>>
      /\ \/ UNCHANGED <<link, request, socket>>
         \/ /\ ~complete
            /\ \E n \in Conns : /\ link[n] = "unused"
                                /\ link' = [link EXCEPT ![n] = "connecting"]
                                /\ request' = [request EXCEPT ![n] =
                                                  [invocation |-> view, cursor |-> rendered]]
  BY RetryStep
<1>2. EndStands
  BY <1>1 DEF EndStands, OutputEnded, wrapperVars
<1>3. CASE UNCHANGED <<link, request, socket>>
  BY <1>1, <1>3, StillEnd DEF wrapperVars, Closing
<1>4. CASE /\ ~complete
           /\ \E n \in Conns : /\ link[n] = "unused"
                               /\ link' = [link EXCEPT ![n] = "connecting"]
                               /\ request' = [request EXCEPT ![n] =
                                                  [invocation |-> view, cursor |-> rendered]]
  <2>1. PICK n \in Conns : /\ link[n] = "unused"
                           /\ link' = [link EXCEPT ![n] = "connecting"]
                           /\ request' = [request EXCEPT ![n] =
                                              [invocation |-> view, cursor |-> rendered]]
    BY <1>4
  <2>2. ASSUME NEW d \in Conns PROVE EndOf(d)'
    <3>1. Closing(d) => Closing(d)' /\ request'[d] = request[d]
      BY <2>1, ViewTypes DEF Closing
    <3>2. QED
      BY <1>1, <1>2, <3>1, EndKept DEF EndInv
  <2>3. QED
    BY <1>1, <1>4, <2>2 DEF EndInv, CompleteInv
<1>5. QED
  BY <1>1, <1>3, <1>4

\* A view that follows a new invocation is not complete; one that stays keeps its
\* socket.
LEMMA HandlePollEnd ==
    ASSUME Inv, EndInv, HandlePoll
    PROVE  EndInv'
<1>1. UNCHANGED <<wrapperVars, received>>
  BY HandlePollStep
<1>2. EndStands
  BY <1>1 DEF EndStands, OutputEnded, wrapperVars
<1>3. CASE disposed
  BY <1>1, <1>3, HandlePollStep, StillEnd DEF wrapperVars, netVars, viewVars, Closing
<1>4. CASE ~disposed
  <2>1. /\ view' = poll.invocation
        /\ complete' = IF NewInvocation THEN FALSE ELSE complete
        /\ \A d \in Conns : down'[d] = IF NewInvocation /\ d = socket THEN <<>> ELSE down[d]
        /\ \/ /\ \A d \in Conns : link'[d] =
                             IF NewInvocation /\ d = socket /\ link[d] \in {"connecting", "open"}
                             THEN "closing" ELSE link[d]
              /\ socket' = IF NewInvocation THEN None ELSE socket
              /\ request' = request
           \/ /\ ~NewInvocation => socket = None
              /\ \E n \in Conns :
                             /\ link[n] = "unused"
                             /\ \A d \in Conns : link'[d] =
                                   IF d = n THEN "connecting"
                                   ELSE IF NewInvocation /\ d = socket
                                           /\ link[d] \in {"connecting", "open"}
                                   THEN "closing" ELSE link[d]
                             /\ request' = [request EXCEPT ![n] =
                                   [invocation |-> poll.invocation,
                                    cursor |-> IF NewInvocation THEN None ELSE rendered]]
    BY <1>4, HandlePollStep
  <2>2. ASSUME NEW d \in Conns PROVE EndOf(d)'
    <3>1. Closing(d) => Closing(d)' /\ request'[d] = request[d]
      BY <2>1, ViewTypes DEF Closing
    <3>2. CASE down'[d] = down[d]
      BY <1>2, <3>1, <3>2, EndKept DEF EndInv
    <3>3. CASE down'[d] = <<>>
      <4>1. NoEnd(down'[d])
        BY <3>3 DEF NoEnd
      <4>2. QED
        BY <4>1, EndAbsent
    <3>4. QED
      BY <2>1, <3>2, <3>3
  <2>3. CompleteInv'
    <3>1. CASE NewInvocation
      BY <2>1, <3>1 DEF CompleteInv
    <3>2. CASE ~NewInvocation
      <4>1. view' = view /\ complete' = complete
        BY <2>1, <3>2 DEF NewInvocation
      <4>2. CASE socket = None
        BY <1>1, <4>1, <4>2 DEF CompleteInv, EndInv, wrapperVars
      <4>3. CASE socket # None
        <5>1. socket' = socket /\ link'[socket] = link[socket] /\ down'[socket] = down[socket]
          BY <2>1, <3>2, <4>3, ViewTypes
        <5>2. QED
          BY <1>1, <1>2, <4>1, <5>1, CompleteEnd DEF EndInv, Closing
      <4>4. QED
        BY <4>2, <4>3
    <3>3. QED
      BY <3>1, <3>2
  <2>4. QED
    BY <2>2, <2>3 DEF EndInv
<1>5. QED
  BY <1>3, <1>4

\* The end of the view drops the messages, never the meaning of one that was
\* received.
LEMMA DisposeEnd ==
    ASSUME Inv, EndInv, Dispose
    PROVE  EndInv'
<1>1. /\ UNCHANGED <<wrapperVars, request, view, socket, received, complete>>
      /\ link' = Closed(link, socket) /\ down' = Dropped(socket)
  BY DEF Dispose
<1>2. /\ \A d \in Conns : Closed(link, socket)[d] =
             IF d = socket /\ link[d] \in {"connecting", "open"} THEN "closing" ELSE link[d]
      /\ \A d \in Conns : Dropped(socket)[d] = IF d = socket THEN <<>> ELSE down[d]
  BY ViewTypes, ClosedStep DEF Inv
<1>3. EndStands
  BY <1>1 DEF EndStands, OutputEnded, wrapperVars
<1>4. ASSUME NEW d \in Conns PROVE EndOf(d)'
  <2>1. Closing(d) => Closing(d)' /\ request'[d] = request[d]
    BY <1>1, <1>2 DEF Closing
  <2>2. CASE down'[d] = down[d]
    BY <1>3, <2>1, <2>2, EndKept DEF EndInv
  <2>3. CASE down'[d] = <<>>
    <3>1. NoEnd(down'[d])
      BY <2>3 DEF NoEnd
    <3>2. QED
      BY <3>1, EndAbsent
  <2>4. QED
    BY <1>1, <1>2, <2>2, <2>3
<1>5. CompleteInv'
  <2>1. socket # None /\ Closing(socket) /\ down[socket] = <<>> =>
            Closing(socket)' /\ down'[socket] = <<>>
    BY <1>1, <1>2, ViewTypes DEF Closing
  <2>2. QED
    BY <1>1, <1>3, <2>1, CompleteEnd DEF EndInv
<1>6. QED
  BY <1>4, <1>5 DEF EndInv

\* Every step keeps what the end of the output means.
LEMMA EndNext ==
    ASSUME Inv, EndInv, [Next]_vars
    PROVE  EndInv'
<1>1. CASE Wrapper
  BY <1>1, WrapperEnd, LaunchEnd, LaunchedEnd DEF Wrapper
<1>2. ASSUME NEW c \in Conns, Detach(c) PROVE EndInv'
  BY <1>2, StillEnd DEF Detach, netVars, viewVars, Closing
<1>3. ASSUME NEW c \in Conns, Connection(c) \/ Break(c) PROVE EndInv'
  BY <1>2, <1>3, AttachEnd, SenderEnd DEF Connection, Sends
<1>4. ASSUME NEW c \in Conns, View(c) PROVE EndInv'
  <2>1. CASE CloseEvent(c)
    <3>1. \A d \in Conns : Closing(d) => Closing(d)'
      BY <2>1, ViewTypes DEF CloseEvent, Closing
    <3>2. QED
      BY <2>1, <3>1, StillEnd DEF CloseEvent, wrapperVars, viewVars
  <2>2. CASE Resume(c)
    BY <2>2, StillEnd DEF Resume, wrapperVars, netVars, viewVars, Closing
  <2>3. QED
    BY <1>4, <2>1, <2>2, ReceiveKeepsEnd, RetryEnd DEF View
<1>5. CASE Render
  BY <1>5, RenderStep, StillEnd DEF wrapperVars, Closing
<1>6. CASE PollAnswered \/ UNCHANGED vars
  BY <1>6, StillEnd DEF PollAnswered, vars, wrapperVars, netVars, viewVars, Closing
<1>7. QED
  BY <1>1, <1>3, <1>4, <1>5, <1>6, HandlePollEnd, DisposeEnd DEF Next

\* No view is complete at first.
LEMMA EndInit ==
    Init => EndInv
BY DEF Init, EndInv, EndOf, EndsLast, CompleteInv

\* An end message is the last on its connection and is sent where the output
\* ended; a complete view has received all of it (sendOutput and the onmessage
\* handler).
THEOREM EndInvariance ==
    Spec => []EndInv
<1>1. Inv /\ EndInv /\ [Next]_vars => EndInv'
  BY EndNext
<1>2. QED
  BY <1>1, EndInit, Invariance, PTL DEF Spec

\* "complete" is not set early: a view that stops reconnecting because it was
\* told of the end has received the whole output of its invocation, in spite of
\* breaks, gaps and retries.
THEOREM EndIsComplete ==
    Spec => []EndMeansComplete
<1>1. EndInv => EndMeansComplete
  BY DEF EndInv, CompleteInv, EndMeansComplete, OutputEnded
<1>2. QED
  BY <1>1, EndInvariance, PTL

-----------------------------------------------------------------------------
(***************************************************************************)
(* The screen, while one invocation runs.                                  *)
(***************************************************************************)
NextShown == IF rendered = None THEN 0 ELSE rendered

OffsetsInv ==
    /\ current = 0 \/ stage = "starting" => produced = 0
    /\ view = 0 => rendered = None
    /\ NextShown <= produced

RetriesInv ==
    /\ awaiting \cap timers = {}
    /\ \A c \in awaiting \cup timers : socket = c /\ link[c] = "closed"
    /\ timers # {} => writes = <<>>

WritesInv ==
    /\ disposed => writes = <<>>
    /\ \A i \in 1..Len(writes) :
          /\ writes[i].conn = socket
          /\ writes[i].to <= produced
          /\ writes[i].from = IF i = 1 THEN rendered ELSE writes[i - 1].to

ReplayInv(c) ==
    /\ Fresh(c) /\ ~disposed => request[c].cursor = rendered
    /\ \A i \in 1..Len(down[c]) : down[c][i].type = "replay" =>
          /\ i = 1
          /\ received[c] = None
          /\ \A k \in 1..Len(writes) : writes[k].conn # c
          /\ down[c][1].offset <= produced
          /\ ~disposed => /\ NextShown <= down[c][1].offset
                          /\ ~down[c][1].gap => down[c][1].offset = NextShown
    /\ \A i \in 1..Len(down[c]) : down[c][i].type = "data" => down[c][i].to <= produced

ReceivedInv(c) ==
    received[c] # None /\ ~disposed =>
        received[c] = IF writes = <<>> THEN rendered ELSE writes[Len(writes)].to

SocketInv == socket # None => ReplayInv(socket) /\ ReceivedInv(socket)

ScreenInv == OffsetsInv /\ RetriesInv /\ WritesInv /\ SocketInv

OneInvocation == Invocations <= 1

-----------------------------------------------------------------------------
\* The types of the screen, and where the view's socket is.
LEMMA ScreenTypes ==
    ASSUME Inv
    PROVE  /\ produced \in Nat
           /\ rendered # None => rendered \in Nat
           /\ NextShown \in Nat
           /\ socket # None => socket \in Conns /\ 0 < view /\ link[socket] # "unused"
           /\ Len(writes) \in Nat
           /\ \A i \in 1..Len(writes) :
                 writes[i].conn \in Conns /\ writes[i].from \in Nat /\ writes[i].to \in Nat
           /\ writes = <<>> <=> Len(writes) = 0
<1>1. /\ produced \in 0..Total /\ rendered \in 0..Total \cup {None}
  BY DEF Inv, TypeOK, MaybeOffset
<1>2. produced \in Nat /\ (rendered # None => rendered \in Nat) /\ NextShown \in Nat
  BY <1>1, Bounds DEF NextShown
<1>3. ASSUME socket # None PROVE socket \in Conns /\ 0 < view /\ link[socket] # "unused"
  <2>1. socket \in Conns /\ link[socket] # "unused" /\ request[socket].invocation = view
    BY <1>3, ViewTypes DEF Inv, ViewInv
  <2>2. 0 < request[socket].invocation
    BY <2>1, ViewTypes DEF ConnectionInv
  <2>3. QED
    BY <2>1, <2>2
<1>4. writes \in Seq(Writes)
  BY ViewTypes
<1>5. Len(writes) \in Nat /\ (writes = <<>> <=> Len(writes) = 0)
  BY <1>4
<1>6. \A i \in 1..Len(writes) :
         writes[i].conn \in Conns /\ writes[i].from \in Nat /\ writes[i].to \in Nat
  BY <1>4, WriteFields
<1>7. QED
  BY <1>2, <1>3, <1>5, <1>6

\* A step that leaves the view's own state alone: what it does to the messages of
\* a connection.
ViewSame == UNCHANGED <<view, socket, rendered, received, disposed, awaiting, timers, writes>>

\* A connection whose replay message, if it has one, is left alone.
LEMMA ReplayKept ==
    ASSUME Inv, NEW c \in Conns, ReplayInv(c),
           UNCHANGED <<rendered, received, disposed, writes>>,
           produced' \in Nat, produced <= produced',
           Fresh(c)' => Fresh(c) /\ request'[c] = request[c],
           \A i \in 1..Len(down'[c]) : down'[c][i].type = "replay" =>
               i = 1 /\ 1 \in 1..Len(down[c]) /\ down'[c][1] = down[c][1],
           \A i \in 1..Len(down'[c]) : down'[c][i].type = "data" => down'[c][i].to <= produced'
    PROVE  ReplayInv(c)'
<1>1. NextShown' = NextShown
  BY DEF NextShown
<1>2. ASSUME NEW i \in 1..Len(down'[c]), down'[c][i].type = "replay"
      PROVE  /\ i = 1
             /\ received'[c] = None
             /\ \A k \in 1..Len(writes') : writes'[k].conn # c
             /\ down'[c][1].offset <= produced'
             /\ ~disposed' => /\ NextShown' <= down'[c][1].offset
                              /\ ~down'[c][1].gap => down'[c][1].offset = NextShown'
  <2>1. /\ i = 1 /\ 1 \in 1..Len(down[c]) /\ down'[c][1] = down[c][1]
        /\ down[c][1].type = "replay"
    BY <1>2
  <2>2. /\ received[c] = None
        /\ \A k \in 1..Len(writes) : writes[k].conn # c
        /\ down[c][1].offset <= produced
        /\ ~disposed => /\ NextShown <= down[c][1].offset
                        /\ ~down[c][1].gap => down[c][1].offset = NextShown
    BY <2>1 DEF ReplayInv
  <2>3. down[c][1].offset \in Nat
    <3>1. down[c][1] \in Messages
      BY <2>1, ViewTypes, ElementOfSeq
    <3>2. down[c][1].offset \in 0..Total
      BY <2>1, <3>1, DataFields
    <3>3. QED
      BY <3>2, Bounds
  <2>4. down'[c][1].offset <= produced'
    BY <2>1, <2>2, <2>3, ScreenTypes
  <2>5. QED
    BY <1>1, <2>1, <2>2, <2>4
<1>3. Fresh(c)' /\ ~disposed' => request'[c].cursor = rendered'
  BY DEF ReplayInv
<1>4. QED
  BY <1>2, <1>3 DEF ReplayInv

\* The bytes of a message that is kept.
LEMMA DataTo ==
    ASSUME Inv, NEW c \in Conns, ReplayInv(c), NEW i \in 1..Len(down[c]), down[c][i].type = "data"
    PROVE  down[c][i].to \in Nat /\ down[c][i].to <= produced
<1>1. down[c][i].to \in 0..Total
  BY ViewTypes, QueueFields
<1>2. QED
  BY <1>1, Bounds DEF ReplayInv

\* A connection whose messages are left alone.
LEMMA ReplayUntouched ==
    ASSUME Inv, NEW c \in Conns, ReplayInv(c),
           UNCHANGED <<rendered, received, disposed, writes>>,
           produced' \in Nat, produced <= produced',
           Fresh(c)' => Fresh(c) /\ request'[c] = request[c],
           down'[c] = down[c]
    PROVE  ReplayInv(c)'
<1>1. \A i \in 1..Len(down[c]) : down[c][i].type = "replay" => i = 1
  BY DEF ReplayInv
<1>2. \A i \in 1..Len(down[c]) : down[c][i].type = "data" => down[c][i].to <= produced'
  BY DataTo, ScreenTypes
<1>3. QED
  BY <1>1, <1>2, ReplayKept

\* A connection whose first message was taken has no replay message left.
LEMMA ReplayTaken ==
    ASSUME Inv, NEW c \in Conns, ReplayInv(c), ~Fresh(c)', produced' = produced,
           Len(down[c]) \in Nat, Len(down'[c]) = Len(down[c]) - 1,
           \A i \in 1..Len(down'[c]) : down'[c][i] = down[c][i + 1] /\ i + 1 \in 1..Len(down[c])
    PROVE  ReplayInv(c)'
<1>1. ASSUME NEW i \in 1..Len(down'[c]), down'[c][i].type = "replay" PROVE FALSE
  <2>1. i + 1 \in 1..Len(down[c]) /\ down[c][i + 1].type = "replay"
    BY <1>1
  <2>2. i + 1 = 1
    BY <2>1 DEF ReplayInv
  <2>3. QED
    BY <2>2, <1>1
<1>2. \A i \in 1..Len(down'[c]) : down'[c][i].type = "data" => down'[c][i].to <= produced
  BY DataTo
<1>3. QED
  BY <1>1, <1>2 DEF ReplayInv

\* A connection that carries nothing asks for what the screen is to show next.
LEMMA ReplayEmpty ==
    ASSUME NEW c \in Conns, down'[c] = <<>>,
           Fresh(c)' /\ ~disposed' => request'[c].cursor = rendered'
    PROVE  ReplayInv(c)'
BY DEF ReplayInv

\* A step that leaves the view alone keeps ScreenInv if it keeps the messages of
\* its socket.
LEMMA ScreenKept ==
    ASSUME Inv, ScreenInv, ViewSame,
           current' = 0 \/ stage' = "starting" => produced' = 0,
           produced' \in Nat, produced <= produced',
           \A c \in Conns : link[c] = "closed" => link'[c] = "closed",
           socket # None => ReplayInv(socket)'
    PROVE  ScreenInv'
<1>1. OffsetsInv'
  <2>1. NextShown' = NextShown /\ NextShown <= produced /\ NextShown \in Nat /\ produced \in Nat
    BY ScreenTypes DEF ViewSame, NextShown, ScreenInv, OffsetsInv
  <2>2. NextShown' <= produced'
    BY <2>1
  <2>3. QED
    BY <2>2 DEF ViewSame, ScreenInv, OffsetsInv
<1>2. RetriesInv'
  <2>1. \A c \in awaiting \cup timers : c \in Conns
    BY DEF Inv, TypeOK
  <2>2. QED
    BY <2>1 DEF ViewSame, ScreenInv, RetriesInv
<1>3. WritesInv'
  <2>1. \A i \in 1..Len(writes) : writes[i].to <= produced'
    BY ScreenTypes DEF ScreenInv, WritesInv
  <2>2. QED
    BY <2>1 DEF ViewSame, ScreenInv, WritesInv
<1>4. SocketInv'
  BY DEF ViewSame, ScreenInv, SocketInv, ReceivedInv
<1>5. QED
  BY <1>1, <1>2, <1>3, <1>4 DEF ScreenInv

-----------------------------------------------------------------------------
\* What ScreenInv says of the view's socket.
LEMMA SocketReplay ==
    ASSUME ScreenInv, socket # None
    PROVE  ReplayInv(socket) /\ ReceivedInv(socket)
BY DEF ScreenInv, SocketInv

\* The steps of the wrapper that send nothing.
LEMMA WrapperScreen ==
    ASSUME OneInvocation, Inv, ScreenInv,
           \/ \E n \in Chunks : Output(n)
           \/ Finish \/ Drain \/ WrapperExits \/ Launch \/ Launched
           \/ \E c \in Conns : Detach(c)
    PROVE  ScreenInv'
<1>1. /\ UNCHANGED <<down, request>> /\ ViewSame
      /\ \/ link' = link
         \/ link' = [c \in Conns |-> IF link[c] \in {"connecting", "open"}
                                     THEN "closing" ELSE link[c]]
  BY DEF Output, Finish, Drain, WrapperExits, Launch, Launched, Detach, netVars, viewVars,
         retryVars, screenVars, ViewSame
<1>2. /\ produced' \in Nat /\ produced <= produced'
      /\ current' = 0 \/ stage' = "starting" => produced' = 0
  <2>1. stage # "off" => 0 < current
    BY DEF Inv, WrapperInv
  <2>2. current = 0 \/ stage = "starting" => produced = 0
    BY DEF ScreenInv, OffsetsInv
  <2>3. current \in Nat /\ produced \in Nat /\ Invocations \in Nat
    BY ViewTypes, ScreenTypes, Bounds
  <2>4. CASE \E n \in Chunks : Output(n)
    <3>1. produced' \in 0..Total /\ produced <= produced' /\ stage = "running"
          /\ UNCHANGED <<current, stage>>
      BY <2>3, <2>4, OutputStep
    <3>2. QED
      BY <2>1, <2>3, <3>1, Bounds
  <2>5. CASE Finish \/ Drain \/ WrapperExits \/ \E c \in Conns : Detach(c)
    <3>1. UNCHANGED <<current, produced>> /\ (stage' = "starting" => stage = "starting")
      BY <2>5 DEF Finish, Drain, WrapperExits, Detach
    <3>2. QED
      BY <2>2, <2>3, <3>1
  <2>6. CASE Launch
    <3>1. produced' = produced /\ current < Invocations
      BY <2>6 DEF Launch
    <3>2. produced = 0
      BY <2>2, <2>3, <3>1 DEF OneInvocation
    <3>3. QED
      BY <2>3, <3>1, <3>2
  <2>7. CASE Launched
    <3>1. produced' = 0 /\ stage = "starting"
      BY <2>7 DEF Launched
    <3>2. QED
      BY <2>2, <2>3, <3>1
  <2>8. QED
    BY <2>4, <2>5, <2>6, <2>7
<1>3. ASSUME socket # None PROVE ReplayInv(socket)'
  <2>1. socket \in Conns /\ ReplayInv(socket)
    BY <1>3, ScreenTypes, SocketReplay
  <2>2. Fresh(socket)' => Fresh(socket)
    BY <1>1, <2>1 DEF Fresh, ViewSame
  <2>3. QED
    BY <1>1, <1>2, <2>1, <2>2, ReplayUntouched DEF ViewSame
<1>4. \A c \in Conns : link[c] = "closed" => link'[c] = "closed"
  BY <1>1
<1>5. QED
  BY <1>1, <1>2, <1>3, <1>4, ScreenKept

\* A step of connection c that does not come from the view.
LEMMA NetworkScreen ==
    ASSUME Inv, ScreenInv, NEW c \in Conns, ViewSame,
           UNCHANGED <<current, stage, produced, request>>,
           \A d \in Conns : d # c => link'[d] = link[d] /\ down'[d] = down[d],
           link[c] # "closed" \/ link'[c] = link[c],
           socket = c => ReplayInv(c)'
    PROVE  ScreenInv'
<1>1. ASSUME socket # None PROVE ReplayInv(socket)'
  <2>1. socket \in Conns /\ ReplayInv(socket)
    BY <1>1, ScreenTypes, SocketReplay
  <2>2. CASE socket # c
    BY <2>1, <2>2, ReplayUntouched, ScreenTypes DEF ViewSame, Fresh
  <2>3. CASE socket = c
    BY <2>3 DEF ViewSame
  <2>4. QED
    BY <2>2, <2>3
<1>2. /\ \A d \in Conns : link[d] = "closed" => link'[d] = "closed"
      /\ current' = 0 \/ stage' = "starting" => produced' = 0
  BY DEF ScreenInv, OffsetsInv
<1>3. QED
  BY <1>1, <1>2, ScreenKept, ScreenTypes

\* A replay never starts before the cursor, and without a gap starts at it.
LEMMA OldestStart ==
    ASSUME produced \in 0..Total, NEW k, k # None => k \in Nat
    PROVE  /\ (IF k = None THEN 0 ELSE k) <= Start(k)
           /\ ~Gap(k) => Start(k) = IF k = None THEN 0 ELSE k
<1>1. Oldest \in Nat
  <2>1. Oldest \in 0..produced /\ produced \in Nat
    BY OldestType, Bounds
  <2>2. QED
    BY <2>1
<1>2. CASE k = None
  BY <1>1, <1>2 DEF Start, Gap
<1>3. CASE k # None
  <2>1. Start(k) = Larger(Oldest, k) /\ Gap(k) = (k < Oldest) /\ k \in Nat
    BY <1>3 DEF Start, Gap
  <2>2. k <= Larger(Oldest, k) /\ (~(k < Oldest) => Larger(Oldest, k) = k)
    BY <1>1, <2>1 DEF Larger
  <2>3. QED
    BY <1>3, <2>1, <2>2
<1>4. QED
  BY <1>2, <1>3

\* The replay message of a new attachment continues the screen, or announces a
\* gap.
LEMMA AttachScreen ==
    ASSUME Inv, ScreenInv, NEW c \in Conns, Attach(c)
    PROVE  ScreenInv'
<1>0. PICK start \in 0..produced, gap \in BOOLEAN : Attached(c, start, gap)
  BY AttachStep
<1>1. /\ link[c] = "connecting" /\ link' = [link EXCEPT ![c] = "open"]
      /\ start = Start(request[c].cursor) /\ gap = Gap(request[c].cursor)
      /\ down' = [down EXCEPT ![c] = <<[type |-> "replay", offset |-> start, gap |-> gap]>>]
      /\ UNCHANGED <<current, stage, produced, request, viewVars, retryVars, screenVars>>
  BY <1>0 DEF Attached
<1>2. ViewSame
  BY <1>1 DEF ViewSame, viewVars, retryVars, screenVars
<1>3. ASSUME socket = c PROVE ReplayInv(c)'
  <2>1. /\ ReplayInv(c) /\ Fresh(c)
        /\ received[c] = None /\ \A k \in 1..Len(writes) : writes[k].conn # c
    BY <1>1, <1>3, SocketReplay, ViewTypes DEF ConnectionInv, Fresh
  <2>2. /\ ~disposed => request[c].cursor = rendered
        /\ rendered # None => rendered \in Nat
    BY <2>1, ScreenTypes DEF ReplayInv
  <2>3. ~disposed => NextShown <= start /\ (~gap => start = NextShown)
    <3>1. produced \in 0..Total
      BY DEF Inv, TypeOK
    <3>2. QED
      BY <1>1, <2>2, <3>1, OldestStart DEF NextShown
  <2>4. /\ down'[c] = <<[type |-> "replay", offset |-> start, gap |-> gap]>>
        /\ link'[c] = "open"
    BY <1>1, ViewTypes
  <2> DEFINE m == [type |-> "replay", offset |-> start, gap |-> gap]
  <2>5. /\ Len(down'[c]) = 1 /\ down'[c][1] = m
        /\ m.type = "replay" /\ m.offset = start /\ m.gap = gap
    BY <2>4
  <2> HIDE DEF m
  <2>6. ~Fresh(c)'
    BY <2>4 DEF Fresh
  <2>7. start <= produced'
    BY <1>1, ScreenTypes
  <2>8. NextShown' = NextShown
    BY <1>2 DEF ViewSame, NextShown
  <2>9. ASSUME NEW i \in 1..Len(down'[c]) PROVE i = 1 /\ down'[c][i] = m /\ down'[c][1] = m
    BY <2>5
  <2>10. QED
    BY <1>2, <2>1, <2>3, <2>5, <2>6, <2>7, <2>8, <2>9 DEF ReplayInv, ViewSame
<1>4. \A d \in Conns : d # c => link'[d] = link[d] /\ down'[d] = down[d]
  BY <1>1, ViewTypes
<1>5. QED
  BY <1>1, <1>2, <1>3, <1>4, NetworkScreen

\* sendOutput sends bytes that were produced, and no second replay message.
LEMMA SenderScreen ==
    ASSUME Inv, ScreenInv, NEW c \in Conns,
           Refuse(c) \/ Sends(c) \/ ReadAck(c) \/ SendEnd(c) \/ Break(c)
    PROVE  ScreenInv'
<1>1. CASE Refuse(c) \/ ReadAck(c)
  <2>1. /\ UNCHANGED <<current, stage, produced, request, viewVars, retryVars, screenVars, down>>
        /\ link[c] \in {"connecting", "open"}
        /\ link' = link \/ link' = [link EXCEPT ![c] = "closing"]
    BY <1>1, ReadAckStep DEF Refuse, wrapperVars
  <2>2. ViewSame
    BY <2>1 DEF ViewSame, viewVars, retryVars, screenVars
  <2>3. ASSUME socket = c PROVE ReplayInv(c)'
    <3>1. Fresh(c)' => Fresh(c)
      BY <2>1, ViewTypes DEF Fresh
    <3>2. ReplayInv(c)
      BY <2>3, SocketReplay, ViewTypes
    <3>3. QED
      BY <2>1, <2>2, <3>1, <3>2, ReplayUntouched, ScreenTypes DEF ViewSame
  <2>4. \A d \in Conns : d # c => link'[d] = link[d] /\ down'[d] = down[d]
    BY <2>1, ViewTypes
  <2>5. QED
    BY <2>1, <2>2, <2>3, <2>4, NetworkScreen
<1>2. CASE Sends(c)
  <2>1. /\ UNCHANGED <<current, stage, produced, request, viewVars, retryVars, screenVars, link>>
        /\ link[c] = "open"
        /\ \/ down' = down
           \/ down' = [down EXCEPT ![c] =
                                Append(down[c], Frame(sender[c].sent, sender'[c].sent))]
        /\ sender'[c] \in Senders /\ SenderOK(sender'[c], produced)
    BY <1>2, SendStep
  <2>2. ViewSame
    BY <2>1 DEF ViewSame, viewVars, retryVars, screenVars
  <2>3. ASSUME socket = c PROVE ReplayInv(c)'
    <3>0. ReplayInv(c) /\ (Fresh(c)' => Fresh(c))
      BY <2>1, <2>3, SocketReplay, ViewTypes DEF Fresh
    <3>1. CASE down' = down
      BY <2>1, <2>2, <3>0, <3>1, ReplayUntouched, ScreenTypes DEF ViewSame
    <3>2. CASE down' = [down EXCEPT ![c] =
                            Append(down[c], Frame(sender[c].sent, sender'[c].sent))]
      <4> DEFINE m == Frame(sender[c].sent, sender'[c].sent)
      <4>1. m \in Messages /\ m.type = "data" /\ m.to = sender'[c].sent
        <5>1. sender[c].sent \in 0..Total /\ sender'[c].sent \in 0..Total
          BY <2>1, PipelineTypes DEF Senders
        <5>2. QED
          BY <5>1, FrameFields
      <4>2. down'[c] = Append(down[c], m) /\ down[c] \in Seq(Messages)
        BY <3>2, ViewTypes
      <4> HIDE DEF m
      <4>3. /\ Len(down[c]) \in Nat /\ Len(down'[c]) = Len(down[c]) + 1
            /\ down'[c][Len(down[c]) + 1] = m
            /\ \A i \in 1..Len(down[c]) : down'[c][i] = down[c][i]
        BY <4>1, <4>2
      <4>4. m.to <= produced'
        BY <2>1, <4>1, SenderFields, ScreenTypes DEF SenderOK
      <4>5. ASSUME NEW i \in 1..Len(down'[c])
            PROVE  (i \in 1..Len(down[c]) /\ down'[c][i] = down[c][i]) \/ down'[c][i] = m
        BY <4>3
      <4>6. ASSUME NEW i \in 1..Len(down'[c]), down'[c][i].type = "replay"
            PROVE  i = 1 /\ 1 \in 1..Len(down[c]) /\ down'[c][1] = down[c][1]
        <5>1. i \in 1..Len(down[c]) /\ down'[c][i] = down[c][i]
          BY <4>1, <4>5, <4>6
        <5>2. i = 1
          BY <3>0, <4>6, <5>1 DEF ReplayInv
        <5>3. QED
          BY <5>1, <5>2
      <4>7. ASSUME NEW i \in 1..Len(down'[c]), down'[c][i].type = "data"
            PROVE  down'[c][i].to <= produced'
        <5>1. CASE i \in 1..Len(down[c]) /\ down'[c][i] = down[c][i]
          BY <2>1, <3>0, <4>7, <5>1, DataTo
        <5>2. CASE down'[c][i] = m
          BY <4>4, <5>2
        <5>3. QED
          BY <4>5, <5>1, <5>2
      <4>8. QED
        BY <2>1, <2>2, <3>0, <4>6, <4>7, ReplayKept, ScreenTypes DEF ViewSame
    <3>3. QED
      BY <2>1, <3>1, <3>2
  <2>4. \A d \in Conns : d # c => link'[d] = link[d] /\ down'[d] = down[d]
    BY <2>1, ViewTypes
  <2>5. QED
    BY <2>1, <2>2, <2>3, <2>4, NetworkScreen
<1>3. CASE SendEnd(c)
  <2>1. /\ UNCHANGED <<current, stage, produced, request, viewVars, retryVars, screenVars>>
        /\ link[c] = "open" /\ link' = [link EXCEPT ![c] = "closing"]
        /\ down' = [down EXCEPT ![c] = down'[c]]
        /\ \/ down'[c] = down[c]
           \/ down'[c] = Append(down[c], [type |-> "end", offset |-> sender[c].sent])
    BY <1>3, SendEndStep DEF wrapperVars
  <2>2. ViewSame
    BY <2>1 DEF ViewSame, viewVars, retryVars, screenVars
  <2>3. ASSUME socket = c PROVE ReplayInv(c)'
    <3>0. ReplayInv(c) /\ ~Fresh(c)'
      BY <2>1, <2>3, SocketReplay, ViewTypes DEF Fresh
    <3>1. CASE down'[c] = down[c]
      BY <2>1, <2>2, <3>0, <3>1, ReplayUntouched, ScreenTypes DEF ViewSame
    <3>2. CASE down'[c] = Append(down[c], [type |-> "end", offset |-> sender[c].sent])
      <4> DEFINE m == [type |-> "end", offset |-> sender[c].sent]
      <4>1. m \in Messages /\ m.type = "end"
        BY PipelineTypes DEF Senders, Messages
      <4>2. down'[c] = Append(down[c], m) /\ down[c] \in Seq(Messages)
        BY <3>2, ViewTypes
      <4> HIDE DEF m
      <4>3. /\ Len(down[c]) \in Nat /\ Len(down'[c]) = Len(down[c]) + 1
            /\ down'[c][Len(down[c]) + 1] = m
            /\ \A i \in 1..Len(down[c]) : down'[c][i] = down[c][i]
        BY <4>1, <4>2
      <4>5. ASSUME NEW i \in 1..Len(down'[c]), down'[c][i].type # "end"
            PROVE  i \in 1..Len(down[c]) /\ down'[c][i] = down[c][i]
        BY <4>1, <4>3, <4>5
      <4>6. ASSUME NEW i \in 1..Len(down'[c]), down'[c][i].type = "replay"
            PROVE  i = 1 /\ 1 \in 1..Len(down[c]) /\ down'[c][1] = down[c][1]
        <5>1. i \in 1..Len(down[c]) /\ down'[c][i] = down[c][i]
          BY <4>5, <4>6
        <5>2. i = 1
          BY <3>0, <4>6, <5>1 DEF ReplayInv
        <5>3. QED
          BY <5>1, <5>2
      <4>7. ASSUME NEW i \in 1..Len(down'[c]), down'[c][i].type = "data"
            PROVE  down'[c][i].to <= produced'
        BY <2>1, <3>0, <4>5, <4>7, DataTo
      <4>8. QED
        BY <2>1, <2>2, <3>0, <4>6, <4>7, ReplayKept, ScreenTypes DEF ViewSame
    <3>3. QED
      BY <2>1, <3>1, <3>2
  <2>4. \A d \in Conns : d # c => link'[d] = link[d] /\ down'[d] = down[d]
    BY <2>1, ViewTypes
  <2>5. QED
    BY <2>1, <2>2, <2>3, <2>4, NetworkScreen
<1>4. CASE Break(c)
  <2>1. PICK n \in 0..Len(down[c]) :
              /\ UNCHANGED <<wrapperVars, up, request, viewVars, retryVars, screenVars>>
              /\ link[c] \in {"connecting", "open"}
              /\ link' = [link EXCEPT ![c] = "closing"]
              /\ down' = [down EXCEPT ![c] = down'[c]]
              /\ Len(down'[c]) = n
              /\ \A i \in 1..n : down'[c][i] = down[c][i]
    BY <1>4, BreakStep
  <2>2. ViewSame /\ UNCHANGED <<current, stage, produced>>
    BY <2>1 DEF ViewSame, wrapperVars, viewVars, retryVars, screenVars
  <2>3. ASSUME socket = c PROVE ReplayInv(c)'
    <3>0. ReplayInv(c) /\ ~Fresh(c)'
      BY <2>1, <2>3, SocketReplay, ViewTypes DEF Fresh
    <3>1. Len(down[c]) \in Nat
      BY ViewTypes
    <3>2. \A i \in 1..Len(down'[c]) : i \in 1..Len(down[c]) /\ down'[c][i] = down[c][i]
      BY <2>1, <3>1
    <3>3. ASSUME NEW i \in 1..Len(down'[c]), down'[c][i].type = "replay"
          PROVE  i = 1 /\ 1 \in 1..Len(down[c]) /\ down'[c][1] = down[c][1]
      <4>1. i = 1
        BY <3>0, <3>2, <3>3 DEF ReplayInv
      <4>2. QED
        BY <4>1, <3>2, <3>3
    <3>4. ASSUME NEW i \in 1..Len(down'[c]), down'[c][i].type = "data"
          PROVE  down'[c][i].to <= produced'
      BY <2>2, <3>0, <3>2, <3>4, DataTo
    <3>5. QED
      BY <2>2, <3>0, <3>3, <3>4, ReplayKept, ScreenTypes DEF ViewSame
  <2>4. \A d \in Conns : d # c => link'[d] = link[d] /\ down'[d] = down[d]
    BY <2>1, ViewTypes
  <2>5. QED
    BY <2>1, <2>2, <2>3, <2>4, NetworkScreen
<1>5. QED
  BY <1>1, <1>2, <1>3, <1>4

-----------------------------------------------------------------------------
\* An ignored message and an end message leave the screen alone.
LEMMA ReceiveStaleScreen ==
    ASSUME Inv, ScreenInv, NEW c \in Conns, ReceiveStale(c) \/ ReceiveEnd(c)
    PROVE  ScreenInv'
<1>1. /\ ViewSame /\ UNCHANGED <<current, stage, produced, request, link>>
      /\ down[c] # <<>> /\ down' = [down EXCEPT ![c] = Tail(down[c])]
  BY ReceiveStaleStep DEF ReceiveEnd, ViewSame, wrapperVars, viewVars, retryVars,
     screenVars
<1>2. ASSUME socket = c PROVE ReplayInv(c)'
  <2>1. ReplayInv(c)
    BY <1>2, SocketReplay, ViewTypes
  <2>2. /\ Len(down[c]) \in Nat /\ Len(down'[c]) = Len(down[c]) - 1
        /\ \A i \in 1..Len(down'[c]) : down'[c][i] = down[c][i + 1] /\ i + 1 \in 1..Len(down[c])
    BY <1>1, DownTail DEF Inv
  <2>3. ~Fresh(c)'
    BY <1>1, ViewTypes DEF Fresh, ConnectionInv
  <2>4. QED
    BY <1>1, <2>1, <2>2, <2>3, ReplayTaken
<1>3. \A d \in Conns : d # c => link'[d] = link[d] /\ down'[d] = down[d]
  BY <1>1, ViewTypes
<1>4. QED
  BY <1>1, <1>2, <1>3, NetworkScreen

\* A replay without a gap stays at the next byte; a gap only moves ahead.
LEMMA ReceiveReplayScreen ==
    ASSUME Inv, ScreenInv, NEW c \in Conns, ReceiveReplay(c)
    PROVE  /\ ScreenInv'
           /\ NextShown <= NextShown' /\ NextShown' <= produced
           /\ ~Head(down[c]).gap => NextShown' = NextShown
<1>1. /\ UNCHANGED <<wrapperVars, link, view, socket, disposed, retryVars, writes>>
      /\ ~disposed /\ socket = c
      /\ down[c] # <<>> /\ down' = [down EXCEPT ![c] = Tail(down[c])]
      /\ Head(down[c]).type = "replay" /\ Head(down[c]).offset \in 0..Total
      /\ received' = [received EXCEPT ![c] = Head(down[c]).offset]
      /\ rendered' = Head(down[c]).offset
  BY ReceiveReplayStep
<1>2. /\ Len(down[c]) \in Nat \ {0} /\ Len(down'[c]) = Len(down[c]) - 1
      /\ \A i \in 1..Len(down'[c]) : down'[c][i] = down[c][i + 1] /\ i + 1 \in 1..Len(down[c])
      /\ Head(down[c]) = down[c][1] /\ 1 \in 1..Len(down[c])
  BY <1>1, DownTail DEF Inv
<1>3. ReplayInv(c) /\ socket # None
  BY <1>1, SocketReplay, ViewTypes
<1>4. /\ \A k \in 1..Len(writes) : writes[k].conn # c
      /\ rendered' <= produced
      /\ NextShown <= rendered' /\ (~Head(down[c]).gap => rendered' = NextShown)
      /\ rendered' \in Nat /\ rendered' # None
  <2>1. down[c][1].type = "replay"
    BY <1>1, <1>2
  <2>2. rendered' \in Nat /\ rendered' # None
    BY <1>1, NoneIsNull, Bounds
  <2>3. QED
    BY <1>1, <1>2, <1>3, <2>1, <2>2 DEF ReplayInv
<1>5. writes = <<>>
  <2>1. \A i \in 1..Len(writes) : writes[i].conn = c
    BY <1>1 DEF ScreenInv, WritesInv
  <2>2. ~(1 \in 1..Len(writes))
    BY <1>4, <2>1
  <2>3. QED
    BY <2>2, ScreenTypes
<1>6. NextShown' = rendered'
  BY <1>4 DEF NextShown
<1>7. OffsetsInv'
  <2>1. 0 < view /\ view \in Nat
    BY <1>3, ScreenTypes, ViewTypes
  <2>2. view' # 0
    BY <1>1, <2>1
  <2>3. QED
    BY <1>1, <1>4, <1>6, <2>2 DEF ScreenInv, OffsetsInv, wrapperVars
<1>8. RetriesInv'
  BY <1>1 DEF ScreenInv, RetriesInv, retryVars
<1>9. WritesInv'
  BY <1>1, <1>5 DEF WritesInv
<1>10. ReplayInv(c)'
  <2>1. ~Fresh(c)'
    BY <1>1, ViewTypes DEF Fresh, ConnectionInv
  <2>2. produced' = produced
    BY <1>1 DEF wrapperVars
  <2>3. QED
    BY <1>2, <1>3, <2>1, <2>2, ReplayTaken
<1>11. ReceivedInv(c)'
  BY <1>1, <1>5, ViewTypes DEF ReceivedInv
<1>12. ScreenInv'
  BY <1>1, <1>7, <1>8, <1>9, <1>10, <1>11 DEF ScreenInv, SocketInv
<1>13. QED
  BY <1>4, <1>6, <1>12

\* The frame that is written continues the writes under way.
LEMMA ReceiveDataScreen ==
    ASSUME Inv, ScreenInv, NEW c \in Conns, ReceiveData(c)
    PROVE  ScreenInv'
<1> DEFINE m == Head(down[c])
           w == [conn |-> c, from |-> m.from, to |-> m.to]
<1>1. /\ UNCHANGED <<wrapperVars, request, view, socket, rendered, disposed, retryVars>>
      /\ ~disposed /\ socket = c /\ down[c] # <<>>
      /\ m.type = "data" /\ m.from \in 0..Total /\ m.to \in 0..Total
      /\ \/ /\ m.from = received[c]
            /\ received' = [received EXCEPT ![c] = m.to]
            /\ writes' = Append(writes, w)
            /\ down' = [down EXCEPT ![c] = Tail(down[c])]
            /\ link' = link
         \/ /\ link' = Closed(link, c)
            /\ down' = Dropped(c)
            /\ UNCHANGED <<received, writes>>
  BY ReceiveDataStep
<1>2. /\ ReplayInv(c) /\ ReceivedInv(c) /\ socket # None
      /\ ~Fresh(c) /\ link[c] # "closed"
  BY <1>1, SocketReplay, ViewTypes DEF Fresh, ConnectionInv
<1>3. timers = {} /\ awaiting = {}
  BY <1>1, <1>2 DEF ScreenInv, RetriesInv
<1>4. RetriesInv'
  BY <1>1, <1>3 DEF RetriesInv, retryVars
<1>5. OffsetsInv'
  BY <1>1 DEF ScreenInv, OffsetsInv, NextShown, wrapperVars
<1>6. CASE /\ m.from = received[c]
           /\ received' = [received EXCEPT ![c] = m.to]
           /\ writes' = Append(writes, w)
           /\ down' = [down EXCEPT ![c] = Tail(down[c])]
           /\ link' = link
  <2>1. /\ Len(down[c]) \in Nat \ {0} /\ Len(down'[c]) = Len(down[c]) - 1
        /\ \A i \in 1..Len(down'[c]) : down'[c][i] = down[c][i + 1] /\ i + 1 \in 1..Len(down[c])
        /\ m = down[c][1] /\ 1 \in 1..Len(down[c])
    BY <1>1, <1>6, DownTail DEF Inv
  <2>2. m.to <= produced /\ m.to \in Nat
    BY <1>1, <1>2, <2>1, DataTo
  <2>3. m.from = IF writes = <<>> THEN rendered ELSE writes[Len(writes)].to
    <3>1. m.from # None
      BY <1>1, NoneIsNull, Bounds
    <3>2. QED
      BY <1>1, <1>2, <1>6, <3>1 DEF ReceivedInv
  <2>4. w \in Writes /\ w.conn = c /\ w.from = m.from /\ w.to = m.to
    BY <1>1 DEF Writes
  <2> HIDE DEF w, m
  <2>5. /\ Len(writes) \in Nat /\ Len(writes') = Len(writes) + 1
        /\ \A i \in 1..Len(writes) : writes'[i] = writes[i]
        /\ writes'[Len(writes) + 1] = w
    BY <1>6, <2>4, WritesAppend, ViewTypes
  <2>6. ASSUME NEW i \in 1..Len(writes')
        PROVE  /\ writes'[i].conn = socket'
               /\ writes'[i].to <= produced'
               /\ writes'[i].from = IF i = 1 THEN rendered' ELSE writes'[i - 1].to
    <3>1. CASE i \in 1..Len(writes)
      <4>1. i # 1 => i - 1 \in 1..Len(writes)
        BY <2>5, <3>1
      <4>2. QED
        BY <1>1, <2>5, <3>1, <4>1 DEF ScreenInv, WritesInv, wrapperVars
    <3>2. CASE i = Len(writes) + 1
      <4>1. CASE writes = <<>>
        <5>1. i = 1 /\ writes'[i] = w
          BY <2>5, <3>2, <4>1, ScreenTypes
        <5>2. QED
          BY <1>1, <2>2, <2>3, <2>4, <4>1, <5>1 DEF wrapperVars
      <4>2. CASE writes # <<>>
        <5>1. /\ i # 1 /\ i - 1 = Len(writes) /\ Len(writes) \in 1..Len(writes)
              /\ writes'[i] = w
          BY <2>5, <3>2, <4>2, ScreenTypes
        <5>2. writes'[i - 1] = writes[Len(writes)]
          BY <2>5, <5>1
        <5>3. QED
          BY <1>1, <2>2, <2>3, <2>4, <4>2, <5>1, <5>2 DEF wrapperVars
      <4>3. QED
        BY <4>1, <4>2
    <3>3. QED
      BY <2>5, <3>1, <3>2
  <2>7. WritesInv'
    BY <1>1, <2>6 DEF WritesInv
  <2>8. ReplayInv(c)'
    <3>1. ~Fresh(c)' /\ produced' = produced
      BY <1>1, <1>2, <1>6 DEF Fresh, wrapperVars
    <3>2. QED
      BY <1>2, <2>1, <3>1, ReplayTaken
  <2>9. ReceivedInv(c)'
    <3>1. received'[c] = m.to
      BY <1>6, ViewTypes
    <3>2. writes' # <<>> /\ writes'[Len(writes')] = w
      BY <2>5
    <3>3. QED
      BY <2>4, <3>1, <3>2 DEF ReceivedInv
  <2>10. QED
    BY <1>1, <1>4, <1>5, <2>7, <2>8, <2>9 DEF ScreenInv, SocketInv
<1>7. CASE /\ link' = Closed(link, c)
           /\ down' = Dropped(c)
           /\ UNCHANGED <<received, writes>>
  <2>1. WritesInv'
    BY <1>1, <1>7 DEF ScreenInv, WritesInv, wrapperVars
  <2>2. down'[c] = <<>> /\ ~Fresh(c)'
    <3>1. /\ \A d \in Conns : Closed(link, c)[d] =
                 IF d = c /\ link[d] \in {"connecting", "open"} THEN "closing" ELSE link[d]
          /\ \A d \in Conns : Dropped(c)[d] = IF d = c THEN <<>> ELSE down[d]
      BY ViewTypes, ClosedStep DEF Inv
    <3>2. QED
      BY <1>2, <1>7, <3>1 DEF Fresh
  <2>3. ReplayInv(c)'
    BY <2>2, ReplayEmpty
  <2>4. ReceivedInv(c)'
    BY <1>1, <1>2, <1>7 DEF ReceivedInv
  <2>5. QED
    BY <1>1, <1>4, <1>5, <2>1, <2>3, <2>4 DEF ScreenInv, SocketInv
<1>8. QED
  BY <1>1, <1>6, <1>7

\* What is rendered is what the screen is to show next.
LEMMA RenderScreen ==
    ASSUME Inv, ScreenInv, Render
    PROVE  /\ ScreenInv'
           /\ NextShown = writes[1].from /\ NextShown' = writes[1].to
           /\ NextShown' <= produced
<1> DEFINE w == writes[1]
<1>1. /\ UNCHANGED <<wrapperVars, link, down, request, view, socket, received, disposed, retryVars>>
      /\ writes # <<>> /\ writes' = Tail(writes)
      /\ Len(writes) \in Nat \ {0} /\ 1 \in 1..Len(writes)
      /\ Len(writes') = Len(writes) - 1
      /\ \A i \in 1..Len(writes') : writes'[i] = writes[i + 1] /\ i + 1 \in 1..Len(writes)
      /\ w.conn \in Conns
      /\ w.from \in 0..Total /\ w.to \in 0..Total
      /\ rendered' = IF Ours(w.conn) THEN w.to ELSE rendered
      /\ writes' \in Seq(Writes) /\ ~Fresh(w.conn)
  BY RenderStep
<1>2. w.conn = socket /\ w.to <= produced /\ w.from = rendered /\ ~disposed
  BY <1>1 DEF ScreenInv, WritesInv
<1>3. rendered' = w.to /\ rendered # None /\ rendered' # None /\ w.to \in Nat
  <2>1. Ours(w.conn)
    BY <1>2 DEF Ours
  <2>2. QED
    BY <1>1, <1>2, <2>1, NoneIsNull, Bounds
<1>4. NextShown = w.from /\ NextShown' = w.to
  BY <1>2, <1>3 DEF NextShown
<1>5. socket \in Conns /\ socket # None
  BY <1>1, <1>2, ViewTypes
<1>6. OffsetsInv'
  <2>1. 0 < view /\ view \in Nat
    BY <1>5, ScreenTypes, ViewTypes
  <2>2. view' # 0
    BY <1>1, <2>1
  <2>3. QED
    BY <1>1, <1>2, <1>4, <2>2 DEF ScreenInv, OffsetsInv, wrapperVars
<1>7. RetriesInv'
  BY <1>1 DEF ScreenInv, RetriesInv, retryVars
<1>8. WritesInv'
  <2>1. ASSUME NEW i \in 1..Len(writes')
        PROVE  /\ writes'[i].conn = socket'
               /\ writes'[i].to <= produced'
               /\ writes'[i].from = IF i = 1 THEN rendered' ELSE writes'[i - 1].to
    <3>1. writes'[i] = writes[i + 1] /\ i + 1 \in 1..Len(writes) /\ i + 1 # 1 /\ i + 1 - 1 = i
      BY <1>1
    <3>2. writes[i + 1].from = writes[i].to /\ writes[i + 1].conn = socket
          /\ writes[i + 1].to <= produced
      BY <3>1 DEF ScreenInv, WritesInv
    <3>3. i = 1 => writes[i].to = rendered'
      BY <1>3
    <3>4. i # 1 => writes'[i - 1] = writes[i]
      BY <1>1
    <3>5. QED
      BY <1>1, <3>1, <3>2, <3>3, <3>4 DEF wrapperVars
  <2>2. QED
    BY <1>1, <1>2, <2>1 DEF WritesInv
<1>9. ReplayInv(socket)'
  <2>1. ReplayInv(socket)
    BY <1>5, SocketReplay
  <2>2. \A i \in 1..Len(down[socket]) : down[socket][i].type # "replay"
    BY <1>1, <1>2, <2>1 DEF ReplayInv
  <2>3. ~Fresh(socket)' /\ down' = down /\ produced' = produced /\ socket' = socket
    BY <1>1, <1>2 DEF Fresh, wrapperVars
  <2>4. QED
    BY <2>1, <2>2, <2>3 DEF ReplayInv
<1>10. ReceivedInv(socket)'
  <2>1. ReceivedInv(socket)
    BY <1>5, SocketReplay
  <2>2. CASE writes' = <<>>
    <3>0. Len(writes') = 0
      BY <2>2, EmptySeq
    <3>1. Len(writes) = 1
      BY <1>1, <3>0
    <3>2. QED
      BY <1>1, <1>3, <2>1, <2>2, <3>1 DEF ReceivedInv
  <2>3. CASE writes' # <<>>
    <3>1. Len(writes') \in 1..Len(writes') /\ Len(writes') + 1 = Len(writes)
      BY <1>1, <2>3
    <3>2. writes'[Len(writes')] = writes[Len(writes)]
      BY <1>1, <3>1
    <3>3. QED
      BY <1>1, <2>1, <2>3, <3>2 DEF ReceivedInv
  <2>4. QED
    BY <2>2, <2>3
<1>11. ScreenInv'
  BY <1>6, <1>7, <1>8, <1>9, <1>10 DEF ScreenInv, SocketInv
<1>12. QED
  BY <1>2, <1>4, <1>11, <1>3

\* A close handler awaits its writes: the socket is closed but still the view's.
LEMMA CloseEventScreen ==
    ASSUME Inv, ScreenInv, NEW c \in Conns, CloseEvent(c)
    PROVE  ScreenInv'
<1>1. /\ UNCHANGED <<wrapperVars, down, up, request, viewVars, timers, screenVars>>
      /\ link[c] = "closing" /\ link' = [link EXCEPT ![c] = "closed"]
      /\ awaiting' = IF Ours(c) THEN awaiting \cup {c} ELSE awaiting
  BY DEF CloseEvent
<1>2. OffsetsInv' /\ WritesInv'
  BY <1>1 DEF ScreenInv, OffsetsInv, WritesInv, NextShown, wrapperVars, viewVars,
     screenVars
<1>3. RetriesInv'
  <2>1. c \notin timers /\ \A d \in awaiting \cup timers : d \in Conns
    BY <1>1 DEF ScreenInv, RetriesInv, Inv, TypeOK
  <2>2. \A d \in Conns : link[d] = "closed" \/ d = c => link'[d] = "closed"
    BY <1>1, ViewTypes
  <2>3. QED
    BY <1>1, <2>1, <2>2 DEF ScreenInv, RetriesInv, Ours, viewVars, screenVars
<1>4. SocketInv'
  <2>1. ASSUME socket # None PROVE ReplayInv(socket)' /\ ReceivedInv(socket)'
    <3>1. socket \in Conns /\ ReplayInv(socket) /\ ReceivedInv(socket)
      BY <2>1, ScreenTypes, SocketReplay
    <3>2. Fresh(socket)' => Fresh(socket)
      BY <1>1, <3>1, ViewTypes DEF Fresh, viewVars
    <3>3. ReplayInv(socket)'
      BY <1>1, <3>1, <3>2, ReplayUntouched, ScreenTypes DEF wrapperVars, viewVars,
         screenVars
    <3>4. QED
      BY <1>1, <3>1, <3>3 DEF ReceivedInv, viewVars, screenVars
  <2>2. QED
    BY <1>1, <2>1 DEF SocketInv, viewVars
<1>5. QED
  BY <1>2, <1>3, <1>4 DEF ScreenInv

\* The writes awaited are all rendered when a close handler resumes.
LEMMA ResumeScreen ==
    ASSUME Inv, ScreenInv, NEW c \in Conns, Resume(c)
    PROVE  ScreenInv'
<1>1. /\ UNCHANGED <<wrapperVars, netVars, viewVars, screenVars>>
      /\ c \in awaiting /\ awaiting' = awaiting \ {c} /\ PendingWritten(c)
      /\ timers' = timers \/ timers' = timers \cup {c}
  BY DEF Resume
<1>2. writes = <<>>
  <2>1. socket = c /\ c \in Nat
    BY <1>1, Bounds DEF ScreenInv, RetriesInv, Conns
  <2>2. \A i \in 1..Len(writes) : writes[i].conn = c /\ writes[i].conn > c
    BY <1>1, <2>1 DEF ScreenInv, WritesInv, PendingWritten
  <2>3. ~(1 \in 1..Len(writes))
    BY <2>1, <2>2
  <2>4. QED
    BY <2>3, ScreenTypes
<1>3. RetriesInv'
  BY <1>1, <1>2 DEF ScreenInv, RetriesInv, netVars, viewVars, screenVars
<1>4. OffsetsInv' /\ WritesInv'
  BY <1>1 DEF ScreenInv, OffsetsInv, WritesInv, NextShown, wrapperVars, viewVars,
     screenVars
<1>5. SocketInv'
  <2>1. ASSUME socket # None PROVE ReplayInv(socket)' /\ ReceivedInv(socket)'
    <3>1. socket \in Conns /\ ReplayInv(socket) /\ ReceivedInv(socket)
      BY <2>1, ScreenTypes, SocketReplay
    <3>2. QED
      BY <1>1, <3>1, ReplayUntouched, ScreenTypes
      DEF ReceivedInv, Fresh, wrapperVars, netVars, viewVars, screenVars
  <2>2. QED
    BY <1>1, <2>1 DEF SocketInv, viewVars
<1>6. QED
  BY <1>3, <1>4, <1>5 DEF ScreenInv

\* A new connection of the view, once what was written has been rendered and no
\* other connection is awaited or retried.
LEMMA OpenedScreen ==
    ASSUME Inv, ScreenInv, NEW n \in Conns, link[n] = "unused",
           UNCHANGED <<wrapperVars, received, disposed, writes, rendered>>,
           down'[n] = <<>>, socket' = n, writes = <<>>,
           request'[n].cursor = rendered,
           awaiting' = {}, timers' = {}, view' = 0 => view = 0
    PROVE  ScreenInv'
<1>1. OffsetsInv'
  BY DEF ScreenInv, OffsetsInv, NextShown, wrapperVars
<1>2. RetriesInv' /\ WritesInv'
  BY DEF RetriesInv, WritesInv
<1>3. ReplayInv(n)'
  BY ReplayEmpty
<1>4. ReceivedInv(n)'
  <2>1. received[n] = None
    BY ViewTypes DEF ConnectionInv, Fresh
  <2>2. QED
    BY <2>1 DEF ReceivedInv
<1>5. QED
  BY <1>1, <1>2, <1>3, <1>4 DEF ScreenInv, SocketInv

\* A retry asks for the byte rendered last: no write is under way, so nothing is
\* shown twice.
LEMMA RetryScreen ==
    ASSUME Inv, ScreenInv, NEW c \in Conns, Retry(c)
    PROVE  ScreenInv'
<1>1. /\ UNCHANGED <<wrapperVars, down, up, breaks, view, rendered, received, complete,
                     exited, disposed, poll, awaiting, retryTimer, screenVars>>
      /\ c \in timers /\ timers' = timers \ {c}
      /\ \/ UNCHANGED <<link, request, socket>>
         \/ \E n \in Conns :
               /\ link[n] = "unused"
               /\ link' = [link EXCEPT ![n] = "connecting"]
               /\ request' = [request EXCEPT ![n] = [invocation |-> view, cursor |-> rendered]]
               /\ socket' = n
  BY RetryStep
<1>2. awaiting = {} /\ timers' = {} /\ writes = <<>>
  BY <1>1 DEF ScreenInv, RetriesInv
<1>3. CASE UNCHANGED <<link, request, socket>>
  <2>1. RetriesInv'
    BY <1>1, <1>2, <1>3 DEF RetriesInv
  <2>2. OffsetsInv' /\ WritesInv'
    BY <1>1, <1>3 DEF ScreenInv, OffsetsInv, WritesInv, NextShown, wrapperVars, screenVars
  <2>3. ASSUME socket # None PROVE ReplayInv(socket)' /\ ReceivedInv(socket)'
    <3>1. socket \in Conns /\ ReplayInv(socket) /\ ReceivedInv(socket)
      BY <2>3, ScreenTypes, SocketReplay
    <3>2. QED
      BY <1>1, <1>3, <3>1, ReplayUntouched, ScreenTypes
      DEF ReceivedInv, Fresh, wrapperVars, screenVars
  <2>4. QED
    BY <1>3, <2>1, <2>2, <2>3 DEF ScreenInv, SocketInv
<1>4. ASSUME NEW n \in Conns, link[n] = "unused",
             request' = [request EXCEPT ![n] = [invocation |-> view, cursor |-> rendered]],
             socket' = n
      PROVE  ScreenInv'
  <2>1. down[n] = <<>>
    BY <1>4, ViewTypes DEF ConnectionInv, Fresh
  <2>2. request'[n].cursor = rendered
    BY <1>4, ViewTypes
  <2>3. QED
    BY <1>1, <1>2, <1>4, <2>1, <2>2, OpenedScreen DEF screenVars
<1>5. QED
  BY <1>1, <1>3, <1>4

\* With one invocation a status answer opens the first connection, or changes
\* nothing on the screen.
LEMMA HandlePollScreen ==
    ASSUME OneInvocation, Inv, ScreenInv, HandlePoll
    PROVE  ScreenInv' /\ rendered' = rendered /\ shown' = shown
<1>1. UNCHANGED <<wrapperVars, received, disposed, awaiting, writes>> /\ poll # None
  BY HandlePollStep
<1>2. CASE disposed
  <2>1. UNCHANGED <<netVars, viewVars, timers, shown>>
    BY <1>2, HandlePollStep
  <2>2. OffsetsInv' /\ WritesInv' /\ RetriesInv'
    BY <1>1, <2>1 DEF ScreenInv, OffsetsInv, WritesInv, RetriesInv, NextShown,
       wrapperVars,
                      viewVars, netVars
  <2>3. ASSUME socket # None PROVE ReplayInv(socket)' /\ ReceivedInv(socket)'
    <3>1. socket \in Conns /\ ReplayInv(socket) /\ ReceivedInv(socket)
      BY <2>3, ScreenTypes, SocketReplay
    <3>2. QED
      BY <1>1, <2>1, <3>1, ReplayUntouched, ScreenTypes
      DEF ReceivedInv, Fresh, wrapperVars, netVars, viewVars
  <2>4. QED
    BY <2>1, <2>2, <2>3 DEF ScreenInv, SocketInv, viewVars
<1>3. CASE ~disposed
  <2>1. /\ view' = poll.invocation
        /\ rendered' = IF NewInvocation THEN None ELSE rendered
        /\ shown' = IF NewInvocation /\ view # 0 THEN <<>> ELSE shown
        /\ timers' \subseteq timers
        /\ ~NewInvocation => timers' = timers
        /\ \A d \in Conns : down'[d] = IF NewInvocation /\ d = socket THEN <<>> ELSE down[d]
        /\ \/ /\ \A d \in Conns : link'[d] =
                             IF NewInvocation /\ d = socket /\ link[d] \in {"connecting", "open"}
                             THEN "closing" ELSE link[d]
              /\ socket' = IF NewInvocation THEN None ELSE socket
              /\ request' = request
           \/ /\ ~NewInvocation => socket = None
              /\ \E n \in Conns :
                             /\ link[n] = "unused" /\ socket' = n
                             /\ request' = [request EXCEPT ![n] =
                                   [invocation |-> poll.invocation,
                                    cursor |-> IF NewInvocation THEN None ELSE rendered]]
    BY <1>3, HandlePollStep
  <2>2. ASSUME NewInvocation PROVE view = 0 /\ rendered = None
    <3>1. view <= poll.invocation /\ poll.invocation <= current /\ poll.invocation # view
      BY <1>1, <2>2 DEF Inv, ViewInv, NewInvocation
    <3>2. current \in 0..Invocations
      BY DEF Inv, TypeOK
    <3>3. view = 0
      <4>1. /\ view \in Nat /\ poll.invocation \in Nat /\ current \in Nat /\ Invocations \in Nat
            /\ current <= Invocations /\ Invocations <= 1
        BY <1>1, <3>2, ViewTypes, Bounds DEF OneInvocation
      <4>2. QED
        BY <3>1, <4>1
    <3>4. QED
      BY <3>3 DEF ScreenInv, OffsetsInv
  <2>3. rendered' = rendered /\ shown' = shown
    BY <2>1, <2>2
  <2>4. NewInvocation => socket = None
    BY <2>2, ScreenTypes, ViewTypes
  <2>5. ASSUME socket = None PROVE awaiting = {} /\ timers = {} /\ writes = <<>>
    <3>1. awaiting = {} /\ timers = {}
      <4>1. \A d \in awaiting \cup timers : d \in Conns /\ d = None
        BY <2>5 DEF ScreenInv, RetriesInv, Inv, TypeOK
      <4>2. QED
        BY <4>1, ViewTypes
    <3>2. ~(1 \in 1..Len(writes))
      BY <2>5, ScreenTypes, ViewTypes DEF ScreenInv, WritesInv
    <3>3. QED
      BY <3>1, <3>2, ScreenTypes
  <2>6. view' = 0 => view = 0
    BY <2>1, <2>2 DEF NewInvocation
  <2>7. CASE socket' = None /\ socket = None
    <3>1. OffsetsInv'
      BY <1>1, <2>3, <2>6 DEF ScreenInv, OffsetsInv, NextShown, wrapperVars
    <3>2. RetriesInv' /\ WritesInv'
      BY <1>1, <2>1, <2>5, <2>7 DEF RetriesInv, WritesInv
    <3>3. QED
      BY <2>3, <2>7, <3>1, <3>2 DEF ScreenInv, SocketInv
  <2>8. CASE socket # None /\ socket' = socket /\ ~NewInvocation /\ request' = request
             /\ \A d \in Conns : link'[d] = link[d]
    <3>1. /\ timers' = timers /\ \A d \in Conns : down'[d] = down[d]
          /\ socket \in Conns /\ ReplayInv(socket) /\ ReceivedInv(socket)
      BY <2>1, <2>8, ScreenTypes, SocketReplay
    <3>2. OffsetsInv'
      BY <1>1, <2>3, <2>6 DEF ScreenInv, OffsetsInv, NextShown, wrapperVars
    <3>3. RetriesInv' /\ WritesInv'
      <4>1. \A d \in awaiting \cup timers : d \in Conns
        BY DEF Inv, TypeOK
      <4>2. QED
        BY <1>1, <2>3, <2>8, <3>1, <4>1 DEF ScreenInv, RetriesInv, WritesInv, wrapperVars
    <3>4. ReplayInv(socket)'
      BY <1>1, <2>3, <2>8, <3>1, ReplayUntouched, ScreenTypes DEF Fresh, wrapperVars
    <3>5. ReceivedInv(socket)'
      BY <1>1, <2>3, <2>8, <3>1 DEF ReceivedInv
    <3>6. QED
      BY <2>3, <3>2, <3>3, <3>4, <3>5 DEF ScreenInv, SocketInv
  <2>9. ASSUME socket = None, NEW n \in Conns, link[n] = "unused", socket' = n,
               request' = [request EXCEPT ![n] =
                              [invocation |-> poll.invocation,
                               cursor |-> IF NewInvocation THEN None ELSE rendered]]
        PROVE  ScreenInv'
    <3>1. down'[n] = <<>>
      BY <2>1, <2>9, ViewTypes DEF ConnectionInv, Fresh
    <3>2. request'[n].cursor = rendered
      BY <2>2, <2>9, ViewTypes
    <3>3. awaiting' = {} /\ timers' = {} /\ writes = <<>>
      BY <1>1, <2>1, <2>5, <2>9
    <3>4. QED
      BY <1>1, <2>3, <2>6, <2>9, <3>1, <3>2, <3>3, OpenedScreen
  <2>10. QED
    BY <2>1, <2>3, <2>4, <2>7, <2>8, <2>9
<1>4. QED
  BY <1>2, <1>3, HandlePollStep DEF viewVars

\* The end of the view drops its writes and closes its socket.
LEMMA DisposeScreen ==
    ASSUME Inv, ScreenInv, Dispose
    PROVE  ScreenInv'
<1>1. /\ UNCHANGED <<wrapperVars, request, view, socket, rendered, received, awaiting>>
      /\ disposed' = TRUE /\ writes' = <<>> /\ timers' \subseteq timers
      /\ link' = Closed(link, socket) /\ down' = Dropped(socket)
  BY DEF Dispose
<1>2. /\ \A d \in Conns : Closed(link, socket)[d] =
             IF d = socket /\ link[d] \in {"connecting", "open"} THEN "closing" ELSE link[d]
      /\ \A d \in Conns : Dropped(socket)[d] = IF d = socket THEN <<>> ELSE down[d]
  BY ViewTypes, ClosedStep DEF Inv
<1>3. OffsetsInv' /\ WritesInv'
  BY <1>1 DEF ScreenInv, OffsetsInv, WritesInv, NextShown, wrapperVars
<1>4. RetriesInv'
  <2>1. \A d \in awaiting \cup timers : d \in Conns
    BY DEF Inv, TypeOK
  <2>2. QED
    BY <1>1, <1>2, <2>1 DEF ScreenInv, RetriesInv
<1>5. ASSUME socket # None PROVE ReplayInv(socket)' /\ ReceivedInv(socket)'
  <2>1. down'[socket] = <<>>
    BY <1>1, <1>2, <1>5, ScreenTypes
  <2>2. ReplayInv(socket)'
    BY <1>1, <1>5, <2>1, ReplayEmpty, ScreenTypes
  <2>3. QED
    BY <1>1, <2>2 DEF ReceivedInv
<1>6. QED
  BY <1>1, <1>3, <1>4, <1>5 DEF ScreenInv, SocketInv

\* An answer under way and a stutter leave the screen alone.
LEMMA ScreenUnchanged ==
    ASSUME Inv, ScreenInv, PollAnswered \/ UNCHANGED vars
    PROVE  ScreenInv'
<1>1. ViewSame /\ UNCHANGED <<current, stage, produced, request, link, down>>
  BY DEF PollAnswered, ViewSame, vars, wrapperVars, netVars, viewVars, retryVars,
     screenVars
<1>2. ASSUME socket # None PROVE ReplayInv(socket)'
  <2>1. socket \in Conns /\ ReplayInv(socket)
    BY <1>2, ScreenTypes, SocketReplay
  <2>2. QED
    BY <1>1, <2>1, ReplayUntouched, ScreenTypes DEF ViewSame, Fresh
<1>3. QED
  BY <1>1, <1>2, ScreenKept, ScreenTypes DEF ScreenInv, OffsetsInv

\* Every step keeps the screen's invariant.
LEMMA ScreenNext ==
    ASSUME OneInvocation, Inv, ScreenInv, [Next]_vars
    PROVE  ScreenInv'
<1>1. CASE Wrapper
  BY <1>1, WrapperScreen DEF Wrapper
<1>2. ASSUME NEW c \in Conns, Connection(c) \/ Break(c) PROVE ScreenInv'
  BY <1>2, AttachScreen, SenderScreen, WrapperScreen DEF Connection, Sends
<1>3. ASSUME NEW c \in Conns, View(c) PROVE ScreenInv'
  BY <1>3, ReceiveStaleScreen, ReceiveReplayScreen, ReceiveDataScreen, CloseEventScreen,
     ResumeScreen, RetryScreen DEF View, Receive
<1>4. QED
  BY <1>1, <1>2, <1>3, RenderScreen, HandlePollScreen, DisposeScreen, ScreenUnchanged
     DEF Next

\* The screen is empty at first.
LEMMA ScreenInit ==
    Init => ScreenInv
<1> SUFFICES ASSUME Init PROVE ScreenInv
  OBVIOUS
<1>1. OffsetsInv
  BY DEF Init, OffsetsInv, NextShown
<1>2. RetriesInv /\ WritesInv /\ SocketInv
  BY DEF Init, RetriesInv, WritesInv, SocketInv
<1>3. QED
  BY <1>1, <1>2 DEF ScreenInv

-----------------------------------------------------------------------------
(* Terminal implements OutputStream. *)

\* The empty terminal is the empty stream.
LEMMA StreamInit ==
    Init => Stream!Init
BY DEF Init, Stream!Init

\* A step that changes neither output nor screen is a stutter of the stream.
LEMMA StreamStutters ==
    ASSUME UNCHANGED <<produced, rendered, shown>>
    PROVE  UNCHANGED Stream!vars
BY DEF Stream!vars

\* A read from the harness is the stream's Produce.
LEMMA OutputStreams ==
    ASSUME Inv, NEW n \in Chunks, Output(n)
    PROVE  Stream!Produce
<1>1. /\ n \in Nat \ {0} /\ produced' = produced + n /\ produced' \in 0..Total
      /\ UNCHANGED <<viewVars, screenVars>>
  BY OutputStep
<1>2. produced' \in (produced + 1)..Total
  BY <1>1, ScreenTypes, Bounds
<1>3. QED
  BY <1>1, <1>2 DEF Stream!Produce, viewVars, screenVars

\* A replay with a gap is the stream's Skip; one without changes nothing.
LEMMA ReplayStreams ==
    ASSUME Inv, ScreenInv, NEW c \in Conns, ReceiveReplay(c)
    PROVE  Stream!Skip \/ UNCHANGED Stream!vars
<1>1. /\ UNCHANGED wrapperVars
      /\ shown' = IF Head(down[c]).gap THEN <<>> ELSE shown
  BY ReceiveReplayStep
<1>2. /\ NextShown <= NextShown' /\ NextShown' <= produced
      /\ ~Head(down[c]).gap => NextShown' = NextShown
  BY ReceiveReplayScreen
<1>3. NextShown \in Nat /\ NextShown' \in Nat /\ produced \in Nat
  <2>1. Head(down[c]).offset \in 0..Total /\ rendered' = Head(down[c]).offset
    BY ReceiveReplayStep
  <2>2. QED
    BY <2>1, ScreenTypes, Bounds DEF NextShown
<1>4. CASE Head(down[c]).gap
  <2>1. NextShown' \in NextShown..produced
    BY <1>2, <1>3
  <2>2. [i \in 1..Len(shown) |-> shown[i][2]]' = <<>>
    BY <1>1, <1>4
  <2>3. QED
    BY <1>1, <2>1, <2>2 DEF Stream!Skip, NextShown, wrapperVars
<1>5. CASE ~Head(down[c]).gap
  BY <1>1, <1>2, <1>5 DEF Stream!vars, NextShown, wrapperVars
<1>6. QED
  BY <1>4, <1>5

\* Bytes on the screen, <<invocation, offset>>, and their offsets.
Pairs == Nat \X Nat
Seconds(q) == [i \in 1..Len(q) |-> q[i][2]]

\* The offsets of a sequence of bytes, one for each.
LEMMA SecondsType ==
    ASSUME NEW q \in Seq(Pairs)
    PROVE  /\ Seconds(q) \in Seq(Nat) /\ Len(Seconds(q)) = Len(q)
           /\ \A i \in 1..Len(q) : Seconds(q)[i] = q[i][2]
<1>1. Len(q) \in Nat /\ \A i \in 1..Len(q) : q[i] \in Pairs
  BY ElementOfSeq
<1>2. \A i \in 1..Len(q) : q[i][2] \in Nat
  BY <1>1 DEF Pairs
<1>3. QED
  BY <1>1, <1>2, IsASeq DEF Seconds

\* The offsets of what is shown, then of what is rendered.
LEMMA SecondsOfConcatenation ==
    ASSUME NEW p \in Seq(Pairs), NEW q \in Seq(Pairs)
    PROVE  Seconds(p \o q) = Seconds(p) \o Seconds(q)
<1>1. /\ p \o q \in Seq(Pairs) /\ Len(p \o q) = Len(p) + Len(q)
      /\ Len(p) \in Nat /\ Len(q) \in Nat
      /\ \A i \in 1..(Len(p) + Len(q)) : (p \o q)[i] = IF i <= Len(p) THEN p[i] ELSE q[i - Len(p)]
  BY ConcatProperties, LenProperties
<1>2. /\ Seconds(p) \in Seq(Nat) /\ Len(Seconds(p)) = Len(p)
      /\ Seconds(q) \in Seq(Nat) /\ Len(Seconds(q)) = Len(q)
      /\ Seconds(p \o q) \in Seq(Nat) /\ Len(Seconds(p \o q)) = Len(p) + Len(q)
      /\ \A i \in 1..Len(p) : Seconds(p)[i] = p[i][2]
      /\ \A i \in 1..Len(q) : Seconds(q)[i] = q[i][2]
      /\ \A i \in 1..(Len(p) + Len(q)) : Seconds(p \o q)[i] = (p \o q)[i][2]
  <2>1. /\ Seconds(p) \in Seq(Nat) /\ Len(Seconds(p)) = Len(p)
        /\ \A i \in 1..Len(p) : Seconds(p)[i] = p[i][2]
    BY SecondsType
  <2>2. /\ Seconds(q) \in Seq(Nat) /\ Len(Seconds(q)) = Len(q)
        /\ \A i \in 1..Len(q) : Seconds(q)[i] = q[i][2]
    BY SecondsType
  <2>3. /\ Seconds(p \o q) \in Seq(Nat) /\ Len(Seconds(p \o q)) = Len(p \o q)
        /\ \A i \in 1..Len(p \o q) : Seconds(p \o q)[i] = (p \o q)[i][2]
    BY <1>1, SecondsType
  <2>4. QED
    BY <1>1, <2>1, <2>2, <2>3
<1>3. /\ Seconds(p) \o Seconds(q) \in Seq(Nat)
      /\ Len(Seconds(p) \o Seconds(q)) = Len(p) + Len(q)
      /\ \A i \in 1..(Len(p) + Len(q)) : (Seconds(p) \o Seconds(q))[i] =
             IF i <= Len(p) THEN Seconds(p)[i] ELSE Seconds(q)[i - Len(p)]
  <2>1. /\ Seconds(p) \in Seq(Nat) /\ Seconds(q) \in Seq(Nat)
        /\ Len(Seconds(p)) = Len(p) /\ Len(Seconds(q)) = Len(q)
    BY <1>2
  <2>2. ASSUME NEW a \in Seq(Nat), NEW b \in Seq(Nat)
        PROVE  /\ a \o b \in Seq(Nat) /\ Len(a \o b) = Len(a) + Len(b)
               /\ \A i \in 1..(Len(a) + Len(b)) :
                     (a \o b)[i] = IF i <= Len(a) THEN a[i] ELSE b[i - Len(a)]
    BY ConcatProperties
  <2> DEFINE a == Seconds(p)
             b == Seconds(q)
  <2>3. a \in Seq(Nat) /\ b \in Seq(Nat) /\ Len(a) = Len(p) /\ Len(b) = Len(q)
    BY <2>1
  <2> HIDE DEF a, b
  <2>4. /\ a \o b \in Seq(Nat) /\ Len(a \o b) = Len(p) + Len(q)
        /\ \A i \in 1..(Len(p) + Len(q)) :
              (a \o b)[i] = IF i <= Len(p) THEN a[i] ELSE b[i - Len(p)]
    <3>1. /\ a \o b \in Seq(Nat) /\ Len(a \o b) = Len(a) + Len(b)
          /\ \A i \in 1..(Len(a) + Len(b)) :
                (a \o b)[i] = IF i <= Len(a) THEN a[i] ELSE b[i - Len(a)]
      BY <2>2, <2>3
    <3>2. QED
      BY <2>3, <3>1
  <2>5. QED
    BY <2>4 DEF a, b
<1>4. ASSUME NEW i \in 1..(Len(p) + Len(q))
      PROVE  Seconds(p \o q)[i] = (Seconds(p) \o Seconds(q))[i]
  <2>1. Seconds(p \o q)[i] = (p \o q)[i][2]
    BY <1>2
  <2>2. CASE i <= Len(p)
    <3>1. i \in 1..Len(p)
      BY <1>1, <2>2
    <3>2. (p \o q)[i] = p[i] /\ (Seconds(p) \o Seconds(q))[i] = Seconds(p)[i]
      BY <1>1, <1>3, <2>2
    <3>3. QED
      BY <1>2, <2>1, <3>1, <3>2
  <2>3. CASE ~(i <= Len(p))
    <3>1. i - Len(p) \in 1..Len(q)
      BY <1>1, <2>3
    <3>2. (p \o q)[i] = q[i - Len(p)] /\ (Seconds(p) \o Seconds(q))[i] = Seconds(q)[i - Len(p)]
      BY <1>1, <1>3, <2>3
    <3>3. QED
      BY <1>2, <2>1, <3>1, <3>2
  <2>4. QED
    BY <2>2, <2>3
<1>5. QED
  BY <1>2, <1>3, <1>4, SeqEqual

\* The bytes of a write are the offsets of its interval, in order.
LEMMA SecondsOfBytes ==
    ASSUME NEW w, w.from \in Nat, w.to \in Nat, w.from < w.to,
           request[w.conn].invocation \in Nat
    PROVE  /\ Bytes(w) \in Seq(Pairs)
           /\ Seconds(Bytes(w)) = [i \in 1..(w.to - w.from) |-> w.from + i - 1]
<1> DEFINE k == w.to - w.from
           r == request[w.conn].invocation
<1>1. k \in Nat
  OBVIOUS
<1>2. \A i \in 1..k : w.from + i - 1 \in Nat
  OBVIOUS
<1> HIDE DEF k
<1>3. Bytes(w) = [i \in 1..k |-> <<r, w.from + i - 1>>]
  BY DEF Bytes, k
<1> HIDE DEF r
<1>4. \A i \in 1..k : <<r, w.from + i - 1>> \in Pairs
  BY <1>2 DEF r, Pairs
<1>5. Bytes(w) \in Seq(Pairs) /\ Len(Bytes(w)) = k
  BY <1>1, <1>3, <1>4, IsASeq
<1>6. Seconds(Bytes(w)) = [i \in 1..k |-> w.from + i - 1]
  <2>1. \A i \in 1..k : Bytes(w)[i][2] = w.from + i - 1
    BY <1>3
  <2>2. QED
    BY <1>5, <2>1 DEF Seconds
<1>7. QED
  BY <1>5, <1>6 DEF k

\* A rendered write is the stream's Show.
LEMMA RenderStreams ==
    ASSUME Inv, ScreenInv, Render
    PROVE  Stream!Show
<1> DEFINE w == writes[1]
           bytes == [i \in 1..(w.to - w.from) |-> w.from + i - 1]
<1>1. /\ UNCHANGED wrapperVars /\ shown' = shown \o Bytes(w)
      /\ w.from \in Nat /\ w.to \in Nat /\ w.from < w.to
  BY RenderStep, Bounds
<1>2. NextShown = w.from /\ NextShown' = w.to /\ NextShown' <= produced
  BY RenderScreen
<1>3. w.to \in (NextShown + 1)..produced
  BY <1>1, <1>2, ScreenTypes
<1> HIDE DEF w, bytes
<1>4. Seconds(shown)' = Seconds(shown) \o bytes
  <2>1. shown \in Seq(Pairs)
    <3>1. shown \in Seq((1..Invocations) \X (0..Total))
      BY DEF Inv, TypeOK
    <3>2. (1..Invocations) \X (0..Total) \subseteq Nat \X Nat
      BY Bounds
    <3>3. QED
      BY <3>1, <3>2, SeqMonotonic DEF Pairs
  <2>2. request[w.conn].invocation \in Nat
    BY RenderStep, ViewTypes DEF w
  <2>3. Bytes(w) \in Seq(Pairs) /\ Seconds(Bytes(w)) = bytes
    BY <1>1, <2>2, SecondsOfBytes DEF bytes
  <2>4. Seconds(shown \o Bytes(w)) = Seconds(shown) \o Seconds(Bytes(w))
    BY <2>1, <2>3, SecondsOfConcatenation
  <2>5. QED
    BY <1>1, <2>3, <2>4
<1>5. QED
  BY <1>1, <1>2, <1>3, <1>4 DEF Stream!Show, NextShown, Seconds, bytes, wrapperVars

\* Every step of the terminal is a step of the stream or a stutter.
LEMMA StreamNext ==
    ASSUME OneInvocation, Inv, ScreenInv, [Next]_vars
    PROVE  [Stream!Next]_(Stream!vars)
<1>1. CASE Wrapper
  <2>1. CASE \E n \in Chunks : Output(n)
    BY <2>1, OutputStreams DEF Stream!Next
  <2>2. CASE Finish \/ Drain \/ WrapperExits \/ Launch
    BY <2>2, StreamStutters DEF Finish, Drain, WrapperExits, Launch, viewVars, screenVars
  <2>3. CASE Launched
    <3>1. UNCHANGED <<produced, rendered, shown>>
      BY <2>3 DEF Launched, viewVars, screenVars, ScreenInv, OffsetsInv
    <3>2. QED
      BY <3>1, StreamStutters
  <2>4. QED
    BY <1>1, <2>1, <2>2, <2>3 DEF Wrapper
<1>2. ASSUME NEW c \in Conns, Connection(c) \/ Break(c) PROVE UNCHANGED Stream!vars
  <2>1. UNCHANGED <<produced, rendered, shown>>
    BY <1>2 DEF Connection, Attach, Refuse, SendReplay, SendLive, SendStalled, ReadAck,
              SendEnd, Detach, Break, wrapperVars, viewVars, screenVars
  <2>2. QED
    BY <2>1, StreamStutters
<1>3. ASSUME NEW c \in Conns, View(c) PROVE [Stream!Next]_(Stream!vars)
  <2>1. CASE ReceiveReplay(c)
    BY <2>1, ReplayStreams DEF Stream!Next
  <2>2. CASE ReceiveStale(c) \/ ReceiveData(c) \/ ReceiveEnd(c) \/ CloseEvent(c) \/ Resume(c) \/ Retry(c)
    <3>1. UNCHANGED <<produced, rendered, shown>>
      BY <2>2 DEF ReceiveStale, ReceiveData, ReceiveEnd, CloseEvent, Resume, Retry,
                  wrapperVars, viewVars, screenVars
    <3>2. QED
      BY <3>1, StreamStutters
  <2>3. QED
    BY <1>3, <2>1, <2>2 DEF View, Receive
<1>4. CASE Render
  BY <1>4, RenderStreams DEF Stream!Next
<1>5. CASE HandlePoll
  <2>1. UNCHANGED <<produced, rendered, shown>>
    BY <1>5, HandlePollScreen, HandlePollStep DEF wrapperVars
  <2>2. QED
    BY <2>1, StreamStutters
<1>6. CASE PollAnswered \/ Dispose \/ UNCHANGED vars
  <2>1. UNCHANGED <<produced, rendered, shown>>
    BY <1>6 DEF PollAnswered, Dispose, vars, wrapperVars, viewVars, screenVars
  <2>2. QED
    BY <2>1, StreamStutters
<1>7. QED
  BY <1>1, <1>2, <1>3, <1>4, <1>5, <1>6 DEF Next

\* While one invocation runs, the terminal, its connections and the view
\* implement OutputStream: the screen shows the output in order and once, across
\* breaks, reconnections and gaps.  It needs OneInvocation: when an old connection's
\* retry replaces that of a new invocation, a byte may be shown twice.
THEOREM StreamRefinement ==
    ASSUME OneInvocation
    PROVE  Spec => ImplementsOutputStream
<1>1. Inv /\ ScreenInv /\ [Next]_vars => ScreenInv' /\ [Stream!Next]_(Stream!vars)
  BY ScreenNext, StreamNext
<1>2. QED
  BY <1>1, ScreenInit, StreamInit, Invariance, PTL DEF Spec, ImplementsOutputStream,
     Stream!Spec

-----------------------------------------------------------------------------
(***************************************************************************)
(* The screen, for any number of invocations.  A connection that the view  *)
(* has lost can make a byte appear twice then, but invocations still do    *)
(* not mix: what is shown and what is written lie in the order in which    *)
(* the view followed them.                                                 *)
(***************************************************************************)
\* The invocation a write is of.
\* The invocation a write is of.
Since(w) == request[w.conn].invocation

InvocationsInOrder ==
    /\ \A i \in 1..Len(shown) : shown[i][1] <= view
    /\ \A i, j \in 1..Len(shown) : i < j => shown[i][1] <= shown[j][1]
WrittenOrder ==
    /\ \A k \in 1..Len(writes) : Since(writes[k]) <= view
    /\ \A k, l \in 1..Len(writes) : k < l => Since(writes[k]) <= Since(writes[l])
InvocationsInv ==
    /\ InvocationsInOrder
    /\ WrittenOrder
    /\ \A i \in 1..Len(shown), k \in 1..Len(writes) : shown[i][1] <= Since(writes[k])

\* The types of what is shown and written.
LEMMA ShownTypes ==
    ASSUME Inv
    PROVE  /\ view \in Nat /\ Len(shown) \in Nat /\ Len(writes) \in Nat
           /\ shown \in Seq(Pairs) /\ writes \in Seq(Writes)
           /\ \A i \in 1..Len(shown) : shown[i][1] \in Nat
           /\ \A k \in 1..Len(writes) : writes[k].conn \in Conns /\ Since(writes[k]) \in Nat
<1>1. shown \in Seq(Pairs)
  <2>1. shown \in Seq((1..Invocations) \X (0..Total))
    BY DEF Inv, TypeOK
  <2>2. (1..Invocations) \X (0..Total) \subseteq Nat \X Nat
    BY Bounds
  <2>3. QED
    BY <2>1, <2>2, SeqMonotonic DEF Pairs
<1>2. Len(shown) \in Nat /\ \A i \in 1..Len(shown) : shown[i] \in Nat \X Nat
  BY <1>1 DEF Pairs
<1>3. \A k \in 1..Len(writes) : writes[k].conn \in Conns /\ Since(writes[k]) \in Nat
  BY ViewTypes, WriteFields DEF Since
<1>4. Len(writes) \in Nat
  BY ViewTypes
<1>5. QED
  BY <1>1, <1>2, <1>3, <1>4, ViewTypes

\* A step that renders and writes nothing: it may clear the screen, drop the writes
\* and open a new connection.
LEMMA InvocationsKept ==
    ASSUME Inv, InvocationsInv, shown' = shown \/ shown' = <<>>,
           writes' = writes \/ writes' = <<>>,
           view' \in Nat, view <= view',
           \A c \in Conns : link[c] # "unused" => request'[c].invocation = request[c].invocation
    PROVE  InvocationsInv'
<1>1. \A k \in 1..Len(writes) : Since(writes[k])' = request'[writes'[k].conn].invocation
  BY DEF Since
<1>2. \A k \in 1..Len(writes) : link[writes[k].conn] # "unused"
  BY ViewTypes, ShownTypes DEF ConnectionInv, Fresh
<1>3. \A k \in 1..Len(writes) : request'[writes[k].conn].invocation = Since(writes[k])
  BY <1>2, ShownTypes DEF Since
<1>4. InvocationsInOrder'
  <2>1. \A i \in 1..Len(shown) : shown[i][1] <= view'
    BY ShownTypes DEF InvocationsInv, InvocationsInOrder
  <2>2. QED
    BY <2>1 DEF InvocationsInv, InvocationsInOrder
<1>5. WrittenOrder'
  <2>1. \A k \in 1..Len(writes) : Since(writes[k]) <= view'
    BY ShownTypes DEF InvocationsInv, WrittenOrder
  <2>2. CASE writes' = writes
    BY <1>3, <2>1, <2>2 DEF InvocationsInv, WrittenOrder, Since
  <2>3. CASE writes' = <<>>
    BY <2>3 DEF WrittenOrder
  <2>4. QED
    BY <2>2, <2>3
<1>6. ASSUME NEW i \in 1..Len(shown'), NEW k \in 1..Len(writes')
      PROVE  shown'[i][1] <= Since(writes[k])'
  <2>1. shown' = shown /\ writes' = writes
    BY <1>6
  <2>2. QED
    BY <1>3, <2>1 DEF InvocationsInv, Since
<1>7. QED
  BY <1>4, <1>5, <1>6 DEF InvocationsInv

\* A frame that is written is of the invocation the view shows, the latest.
LEMMA ReceiveDataInvocations ==
    ASSUME Inv, InvocationsInv, NEW c \in Conns, ReceiveData(c)
    PROVE  InvocationsInv'
<1> DEFINE m == Head(down[c])
           w == [conn |-> c, from |-> m.from, to |-> m.to]
<1>1. /\ UNCHANGED <<request, view, shown>> /\ socket = c
      /\ m.from \in 0..Total /\ m.to \in 0..Total
      /\ writes' = Append(writes, w) \/ writes' = writes
  BY ReceiveDataStep
<1>2. CASE writes' = writes
  BY <1>1, <1>2, ShownTypes, InvocationsKept
<1>3. CASE writes' = Append(writes, w)
  <2>1. w \in Writes /\ w.conn = c
    BY <1>1 DEF Writes
  <2> HIDE DEF w
  <2>2. /\ Len(writes') = Len(writes) + 1
        /\ \A k \in 1..Len(writes) : writes'[k] = writes[k]
        /\ writes'[Len(writes) + 1] = w
    BY <1>3, <2>1, ShownTypes, WritesAppend
  <2>3. request[c].invocation = view
    BY <1>1, ViewTypes DEF Inv, ViewInv
  <2>4. \A k \in 1..Len(writes') :
           \/ k \in 1..Len(writes) /\ Since(writes[k])' = Since(writes[k])
           \/ k = Len(writes) + 1 /\ Since(writes[k])' = view
    BY <1>1, <2>1, <2>2, <2>3, ShownTypes DEF Since
  <2>5. InvocationsInOrder'
    BY <1>1 DEF InvocationsInv, InvocationsInOrder
  <2>6. WrittenOrder'
    <3>1. \A k \in 1..Len(writes') : Since(writes[k])' <= view'
      BY <1>1, <2>4, ShownTypes DEF InvocationsInv, WrittenOrder
    <3>2. ASSUME NEW k \in 1..Len(writes'), NEW l \in 1..Len(writes'), k < l
          PROVE  Since(writes[k])' <= Since(writes[l])'
      <4>1. k \in 1..Len(writes) /\ Since(writes[k])' = Since(writes[k])
        BY <2>2, <2>4, <3>2, ShownTypes
      <4>2. CASE l \in 1..Len(writes) /\ Since(writes[l])' = Since(writes[l])
        BY <3>2, <4>1, <4>2 DEF InvocationsInv, WrittenOrder
      <4>3. CASE Since(writes[l])' = view
        BY <4>1, <4>3 DEF InvocationsInv, WrittenOrder
      <4>4. QED
        BY <2>4, <4>2, <4>3
    <3>3. QED
      BY <3>1, <3>2 DEF WrittenOrder
  <2>7. ASSUME NEW i \in 1..Len(shown'), NEW k \in 1..Len(writes')
        PROVE  shown'[i][1] <= Since(writes[k])'
    BY <1>1, <2>4 DEF InvocationsInv, InvocationsInOrder
  <2>8. QED
    BY <2>5, <2>6, <2>7 DEF InvocationsInv
<1>4. QED
  BY <1>1, <1>2, <1>3

\* The bytes of a write are those of its connection's invocation.
LEMMA BytesOfInvocation ==
    ASSUME NEW w, w.from \in Nat, w.to \in Nat, w.from < w.to, Since(w) \in Nat
    PROVE  /\ Bytes(w) \in Seq(Pairs)
           /\ \A i \in 1..Len(Bytes(w)) : Bytes(w)[i][1] = Since(w)
<1> DEFINE k == w.to - w.from
<1>1. k \in Nat
  OBVIOUS
<1>2. Bytes(w) \in Seq(Pairs)
  BY SecondsOfBytes DEF Since
<1> HIDE DEF k
<1>3. Bytes(w) = [i \in 1..k |-> <<Since(w), w.from + i - 1>>]
  BY DEF Bytes, Since, k
<1>4. Len(Bytes(w)) = k
  BY <1>1, <1>2, <1>3
<1>5. \A i \in 1..k : Bytes(w)[i] = <<Since(w), w.from + i - 1>>
  BY <1>3
<1>6. \A i \in 1..k : Bytes(w)[i][1] = Since(w)
  BY <1>5
<1>7. QED
  BY <1>2, <1>4, <1>6

\* What is rendered is the oldest write: not older than the screen, and not later
\* than the other writes.
LEMMA RenderInvocations ==
    ASSUME Inv, InvocationsInv, Render
    PROVE  InvocationsInv'
<1> DEFINE w == writes[1]
           bytes == Bytes(w)
<1>1. /\ UNCHANGED <<request, view>>
      /\ Len(writes) \in Nat \ {0} /\ 1 \in 1..Len(writes)
      /\ Len(writes') = Len(writes) - 1
      /\ \A k \in 1..Len(writes') : writes'[k] = writes[k + 1] /\ k + 1 \in 1..Len(writes)
      /\ w.from \in Nat /\ w.to \in Nat /\ w.from < w.to
      /\ shown' = shown \o bytes
  BY RenderStep, Bounds
<1>2. Since(w) \in Nat /\ Since(w) <= view
  BY <1>1, ShownTypes DEF InvocationsInv, WrittenOrder
<1>3. bytes \in Seq(Pairs) /\ \A i \in 1..Len(bytes) : bytes[i][1] = Since(w)
  BY <1>1, <1>2, BytesOfInvocation
<1>4. \A k \in 1..Len(writes') : Since(writes[k])' = Since(writes[k + 1]) /\ k + 1 \in 1..Len(writes)
  BY <1>1 DEF Since
<1> HIDE DEF bytes
<1>5. /\ Len(shown') = Len(shown) + Len(bytes) /\ Len(bytes) \in Nat
      /\ \A i \in 1..Len(shown') : \/ i \in 1..Len(shown) /\ shown'[i] = shown[i]
                                   \/ i > Len(shown) /\ shown'[i][1] = Since(w)
  <2>1. /\ Len(bytes) \in Nat /\ Len(shown) \in Nat
        /\ Len(shown \o bytes) = Len(shown) + Len(bytes)
        /\ \A i \in 1..(Len(shown) + Len(bytes)) :
              (shown \o bytes)[i] = IF i <= Len(shown) THEN shown[i] ELSE bytes[i - Len(shown)]
    BY <1>3, ShownTypes
  <2>2. ASSUME NEW i \in 1..Len(shown')
        PROVE  \/ i \in 1..Len(shown) /\ shown'[i] = shown[i]
               \/ i > Len(shown) /\ shown'[i][1] = Since(w)
    <3>1. CASE i <= Len(shown)
      BY <1>1, <2>1, <3>1
    <3>2. CASE i > Len(shown)
      <4>1. i - Len(shown) \in 1..Len(bytes) /\ shown'[i] = bytes[i - Len(shown)]
        BY <1>1, <2>1, <3>2
      <4>2. QED
        BY <1>3, <3>2, <4>1
    <3>3. QED
      BY <2>1, <3>1, <3>2
  <2>3. QED
    BY <1>1, <2>1, <2>2
<1>6. \A i \in 1..Len(shown) : shown[i][1] <= Since(w) /\ shown[i][1] \in Nat
  BY <1>1, ShownTypes DEF InvocationsInv
<1> HIDE DEF w
<1>7. InvocationsInOrder'
  <2>1. \A i \in 1..Len(shown') : shown'[i][1] <= view'
    BY <1>1, <1>2, <1>5 DEF InvocationsInv, InvocationsInOrder
  <2>2. ASSUME NEW i \in 1..Len(shown'), NEW j \in 1..Len(shown'), i < j
        PROVE  shown'[i][1] <= shown'[j][1]
    <3>1. CASE j \in 1..Len(shown) /\ shown'[j] = shown[j]
      <4>1. i \in 1..Len(shown) /\ shown'[i] = shown[i]
        BY <1>5, <2>2, <3>1, ShownTypes
      <4>2. QED
        BY <2>2, <3>1, <4>1 DEF InvocationsInv, InvocationsInOrder
    <3>2. CASE shown'[j][1] = Since(w)
      BY <1>2, <1>5, <1>6, <3>2
    <3>3. QED
      BY <1>5, <3>1, <3>2
  <2>3. QED
    BY <2>1, <2>2 DEF InvocationsInOrder
<1>8. WrittenOrder'
  <2>1. \A k \in 1..Len(writes') : Since(writes[k])' <= view'
    BY <1>1, <1>4 DEF InvocationsInv, WrittenOrder
  <2>2. ASSUME NEW k \in 1..Len(writes'), NEW l \in 1..Len(writes'), k < l
        PROVE  Since(writes[k])' <= Since(writes[l])'
    <3>1. k + 1 < l + 1
      BY <1>1, <2>2
    <3>2. QED
      BY <1>4, <3>1 DEF InvocationsInv, WrittenOrder
  <2>3. QED
    BY <2>1, <2>2 DEF WrittenOrder
<1>9. ASSUME NEW i \in 1..Len(shown'), NEW k \in 1..Len(writes')
      PROVE  shown'[i][1] <= Since(writes[k])'
  <2>1. Since(w) <= Since(writes[k + 1])
    <3>1. 1 < k + 1
      BY <1>1
    <3>2. QED
      BY <1>1, <1>4, <3>1 DEF InvocationsInv, WrittenOrder, w
  <2>2. CASE i \in 1..Len(shown) /\ shown'[i] = shown[i]
    BY <1>4, <2>2 DEF InvocationsInv
  <2>3. CASE shown'[i][1] = Since(w)
    BY <1>4, <2>1, <2>3
  <2>4. QED
    BY <1>5, <2>2, <2>3
<1>10. QED
  BY <1>7, <1>8, <1>9 DEF InvocationsInv

\* Every step keeps the invocations in order.
LEMMA InvocationsNext ==
    ASSUME Inv, InvocationsInv, [Next]_vars
    PROVE  InvocationsInv'
<1> DEFINE Same == UNCHANGED <<request, view, shown, writes>>
<1>1. Same => InvocationsInv'
  BY ShownTypes, InvocationsKept
<1>2. Wrapper => Same
  BY DEF Wrapper, Output, Finish, Drain, WrapperExits, Launch, Launched, netVars, viewVars,
         screenVars
<1>3. ASSUME NEW c \in Conns, Connection(c) \/ Break(c) PROVE Same
  BY <1>3 DEF Connection, Attach, Refuse, SendReplay, SendLive, SendStalled, ReadAck,
              SendEnd, Detach, Break, netVars, viewVars, screenVars
<1>4. ASSUME NEW c \in Conns, View(c) PROVE InvocationsInv'
  <2>1. CASE ReceiveStale(c) \/ ReceiveEnd(c) \/ CloseEvent(c) \/ Resume(c)
    <3>1. Same
      BY <2>1 DEF ReceiveStale, ReceiveEnd, CloseEvent, Resume, netVars, viewVars, screenVars
    <3>2. QED
      BY <1>1, <3>1
  <2>2. CASE ReceiveReplay(c)
    <3>1. UNCHANGED <<request, view, writes>> /\ (shown' = shown \/ shown' = <<>>)
      BY <2>2, ReceiveReplayStep
    <3>2. QED
      BY <3>1, ShownTypes, InvocationsKept
  <2>3. CASE Retry(c)
    <3>1. /\ UNCHANGED <<view, shown, writes>>
          /\ \/ request' = request
             \/ \E n \in Conns :
                   /\ link[n] = "unused"
                   /\ request' = [request EXCEPT ![n] =
                                     [invocation |-> view, cursor |-> rendered]]
      BY <2>3, RetryStep DEF screenVars
    <3>2. \A d \in Conns : link[d] # "unused" => request'[d] = request[d]
      BY <3>1, ViewTypes
    <3>3. QED
      BY <3>1, <3>2, ShownTypes, InvocationsKept
  <2>4. QED
    BY <1>4, <2>1, <2>2, <2>3, ReceiveDataInvocations DEF View, Receive
<1>5. CASE HandlePoll
  <2>1. /\ writes' = writes /\ (shown' = shown \/ shown' = <<>>)
        /\ view' = view \/ view' = poll.invocation
        /\ \/ request' = request
           \/ \E n \in Conns :
                 /\ link[n] = "unused"
                 /\ request' = [request EXCEPT ![n] =
                                   [invocation |-> poll.invocation,
                                    cursor |-> IF NewInvocation THEN None ELSE rendered]]
    BY <1>5, HandlePollStep DEF netVars, viewVars
  <2>2. view' \in Nat /\ view <= view'
    <3>1. view \in Nat /\ poll.invocation \in Nat /\ view <= poll.invocation
      BY <1>5, HandlePollStep, ViewTypes DEF Inv, ViewInv
    <3>2. QED
      BY <2>1, <3>1
  <2>3. \A d \in Conns : link[d] # "unused" => request'[d] = request[d]
    BY <2>1, ViewTypes
  <2>4. QED
    BY <2>1, <2>2, <2>3, InvocationsKept
<1>6. CASE Dispose
  <2>1. UNCHANGED <<request, view, shown>> /\ writes' = <<>>
    BY <1>6 DEF Dispose
  <2>2. QED
    BY <2>1, ShownTypes, InvocationsKept
<1>7. PollAnswered \/ UNCHANGED vars => Same
  BY DEF PollAnswered, vars, netVars, viewVars, screenVars
<1>8. QED
  BY <1>1, <1>2, <1>3, <1>4, <1>5, <1>6, <1>7, RenderInvocations DEF Next

\* The screen never shows output of an invocation below that of a later one, nor of
\* one the view does not follow yet: the writes that xterm.js still renders after
\* terminal.reset come before those of the new invocation (refreshStatus).
THEOREM InvocationsStayInOrder ==
    Spec => []InvocationsInOrder
<1>1. Init => InvocationsInv
  BY DEF Init, InvocationsInv, InvocationsInOrder, WrittenOrder
<1>2. Inv /\ InvocationsInv /\ [Next]_vars => InvocationsInv'
  BY InvocationsNext
<1>3. InvocationsInv => InvocationsInOrder
  BY DEF InvocationsInv
<1>4. QED
  BY <1>1, <1>2, <1>3, Invariance, PTL DEF Spec
=============================================================================
