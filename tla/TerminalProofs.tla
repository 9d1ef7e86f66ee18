--------------------------- MODULE TerminalProofs ---------------------------
(***************************************************************************)
(* Proofs about Terminal, for every value of its constants: the invariant  *)
(* the other results rest on, in three parts.                              *)
(*                                                                         *)
(*   TypeOK      the types, the capacity of the queues, and the limit on   *)
(*               attachments;                                              *)
(*   WrapperInv  an attachment's counters and its queue are in order:      *)
(*               what is queued comes after the replay and after what      *)
(*               sendOutput has in hand, without overlap;                  *)
(*   ViewInv     the view follows the wrapper: what it shows, asks for,    *)
(*               and hears of is not later than the current invocation.    *)
(*                                                                         *)
(* None is inductive alone: TypeOK needs the queues' order for sendOutput  *)
(* to stay within the output, and the view's order for the connections it  *)
(* opens.  The lemmas go action by action: XType, XWrapper and XView say   *)
(* that action X preserves each part, and XStep what X does.               *)
(***************************************************************************)
EXTENDS Terminal, SequenceTheorems, FiniteSetTheorems, WellFoundedInduction, TLAPS

-----------------------------------------------------------------------------
(***************************************************************************)
(* What the wrapper keeps of an attachment: its sender s and its queue q,  *)
(* when n bytes have been produced.  The queue holds what was produced     *)
(* after the replay, in order, and only what is not in hand yet.           *)
(***************************************************************************)
Senders == [acked : 0..Total, sent : 0..Total, hand : 0..Total, replay : 0..Total]
Writes == [conn : Conns, from : 0..Total, to : 0..Total]

IsData(fs, i) == i \in 1..Len(fs) /\ fs[i].type = "data"

SenderOK(s, n) ==
    /\ s.acked <= s.sent
    /\ s.sent <= s.acked + Window
    /\ s.sent <= s.hand
    /\ s.hand <= n
    /\ s.replay <= n
    /\ s.sent < s.replay => s.hand <= s.replay

QueueOK(q, s, n) ==
    /\ \A i \in 1..Len(q) : /\ q[i].type = "data"
                            /\ s.hand <= q[i].from
                            /\ s.replay <= q[i].from
                            /\ q[i].from < q[i].to
                            /\ q[i].to <= n
    /\ \A i, j \in 1..Len(q) : i < j => q[i].to <= q[j].from

Serving == {"running", "finished", "draining"}

\* An attachment is registered while its wrapper lives and its connection has
\* been opened.
AttachmentInv(c) ==
    /\ link[c] = "open" => clients[c] # "none"
    /\ clients[c] = "none" => queue[c] = <<>>
    /\ clients[c] # "none" =>
          /\ stage \in Serving
          /\ request[c].invocation = current
          /\ link[c] \in {"open", "closing", "closed"}
          /\ SenderOK(sender[c], produced)
          /\ QueueOK(queue[c], sender[c], produced)

WrapperInv ==
    /\ stage # "off" => 0 < current
    /\ \A c \in Conns : AttachmentInv(c)

(***************************************************************************)
(* The connections and the view.  The view never runs ahead of the wrapper *)
(* and neither does a status answer under way; nothing travels on a        *)
(* connection before it is open.                                           *)
(***************************************************************************)
Fresh(c) == link[c] \in {"unused", "connecting"}

ConnectionInv(c) ==
    /\ link[c] # "unused" => 0 < request[c].invocation /\ request[c].invocation <= view
    /\ Fresh(c) => /\ down[c] = <<>> /\ up[c] = <<>>
                   /\ received[c] = None
                   /\ c \notin awaiting /\ c \notin timers
                   /\ \A i \in 1..Len(writes) : writes[i].conn # c
    /\ link[c] = "closed" => down[c] = <<>>
    /\ \A i \in 1..Len(down[c]) : IsData(down[c], i) => down[c][i].from < down[c][i].to

ViewInv ==
    /\ view <= current
    /\ poll # None =>
          /\ view <= poll.invocation
          /\ poll.invocation <= current
          /\ poll.state = "running" => 0 < poll.invocation
    /\ socket # None => link[socket] # "unused" /\ request[socket].invocation = view
    /\ \A c \in Conns : ConnectionInv(c)
    /\ \A i \in 1..Len(writes) : writes[i].from < writes[i].to

Inv == TypeOK /\ WrapperInv /\ ViewInv

-----------------------------------------------------------------------------
\* What the assumptions on the constants say of each of them.
LEMMA Bounds ==
    /\ Total \in Nat /\ Invocations \in Nat /\ MaxBreaks \in Nat /\ MaxConns \in Nat
    /\ ReplayLimit \in Nat
    /\ QueueCap \in Nat \ {0} /\ Window \in Nat \ {0} /\ MaxAttachments \in Nat \ {0}
    /\ \A n \in Chunks : n \in Nat \ {0} /\ n <= Window
BY BoundsAreNaturals, ChunksAreSmall

\* The fields of a message of each kind.
LEMMA DataFields ==
    ASSUME NEW m \in Messages
    PROVE  /\ m.type = "data" => m.from \in 0..Total /\ m.to \in 0..Total
           /\ m.type # "data" => m.offset \in 0..Total
           /\ m.type = "replay" => m.gap \in BOOLEAN
           /\ m.type \in {"data", "replay", "end"}
BY DEF Messages

\* A frame is a message.
LEMMA FrameFields ==
    ASSUME NEW m \in 0..Total, NEW n \in 0..Total
    PROVE  /\ Frame(m, n) \in Messages
           /\ Frame(m, n).type = "data" /\ Frame(m, n).from = m /\ Frame(m, n).to = n
BY DEF Messages, Frame

\* The bytes of a frame in a queue.
LEMMA QueueFields ==
    ASSUME NEW q \in Seq(Messages), NEW i \in 1..Len(q), q[i].type = "data"
    PROVE  q[i].from \in 0..Total /\ q[i].to \in 0..Total
<1>1. q[i] \in Messages
  OBVIOUS
<1>2. QED
  BY <1>1, DataFields

\* What sendOutput counts are bytes of the output.
LEMMA SenderFields ==
    ASSUME NEW s \in Senders
    PROVE  /\ s.acked \in Nat /\ s.sent \in Nat /\ s.hand \in Nat /\ s.replay \in Nat
           /\ s.acked <= Total /\ s.sent <= Total /\ s.hand <= Total /\ s.replay <= Total
BY BoundsAreNaturals DEF Senders

\* Output queued for an attachment follows all it has queued before.
LEMMA QueueAppend ==
    ASSUME NEW q \in Seq(Messages), NEW s \in Senders, NEW m \in 0..Total, NEW n \in 0..Total,
           m < n, s.hand <= m, s.replay <= m, QueueOK(q, s, m)
    PROVE  QueueOK(Append(q, Frame(m, n)), s, n)
<1> DEFINE r == Append(q, Frame(m, n))
<1>0. /\ Frame(m, n).type = "data" /\ Frame(m, n).from = m /\ Frame(m, n).to = n
      /\ Frame(m, n) \in Messages
  BY FrameFields
<1>1. /\ Len(q) \in Nat /\ Len(r) = Len(q) + 1
      /\ \A i \in 1..Len(q) : r[i] = q[i]
      /\ r[Len(q) + 1] = Frame(m, n)
  BY <1>0
<1>2. \A i \in 1..Len(q) : q[i].from \in Int /\ q[i].to \in Int
  BY QueueFields, Bounds DEF QueueOK
<1>s. /\ s.hand \in Int /\ s.replay \in Int
  BY SenderFields
<1> HIDE DEF r
<1>3. QED
  BY <1>0, <1>1, <1>2, <1>s, Bounds DEF QueueOK

\* Taking the head of the queue in hand leaves the rest after what is in hand.
LEMMA QueueTail ==
    ASSUME NEW q \in Seq(Messages), NEW s \in Senders, NEW t \in Senders, NEW n \in 0..Total,
           q # <<>>, QueueOK(q, s, n), t.replay = s.replay, t.hand = Head(q).to
    PROVE  QueueOK(Tail(q), t, n)
<1>1. /\ Len(q) \in Nat \ {0} /\ Len(Tail(q)) = Len(q) - 1
      /\ \A i \in 1..Len(Tail(q)) : Tail(q)[i] = q[i + 1] /\ i + 1 \in 1..Len(q)
      /\ Head(q) = q[1]
  OBVIOUS
<1>2. \A i \in 1..Len(q) : q[i].from \in Int /\ q[i].to \in Int
  BY QueueFields, Bounds DEF QueueOK
<1>s. /\ s.hand \in Int /\ s.replay \in Int
  BY SenderFields
<1>3. QED
  BY <1>1, <1>2, <1>s, SenderFields, Bounds DEF QueueOK

\* A queue stays well when output is produced, or replay is taken in hand.
LEMMA QueueWeaken ==
    ASSUME NEW q \in Seq(Messages), NEW s \in Senders, NEW t \in Senders, NEW m \in 0..Total,
           NEW n \in 0..Total, m <= n, QueueOK(q, s, m), t.replay = s.replay,
           t.hand = s.hand \/ t.hand <= s.replay
    PROVE  QueueOK(q, t, n)
<1>2. \A i \in 1..Len(q) : q[i].from \in Int /\ q[i].to \in Int
  BY QueueFields DEF QueueOK
<1>3. /\ s.hand \in Int /\ s.replay \in Int /\ t.hand \in Int /\ t.replay \in Int
      /\ m \in Int /\ n \in Int
  BY SenderFields
<1>4. QED
  BY <1>2, <1>3 DEF QueueOK

-----------------------------------------------------------------------------
\* A set of naturals that is not empty has a least element: no theorem of the
\* library says it without an operator parameter.
LEMMA LeastNatural ==
    ASSUME NEW S, S \subseteq Nat, S # {}
    PROVE  \E m \in S : \A n \in S : m <= n
<1> DEFINE Upto(m) == {n \in S : n <= m}
           Uptos == {Upto(m) : m \in S}
           R == StrictSubsetOrdering(S)
<1>1. \A m \in S : IsFiniteSet(Upto(m))
  <2>1. ASSUME NEW m \in S
        PROVE  IsFiniteSet(Upto(m))
    <3>1. m \in Nat /\ \A k \in S : k \in Nat
      OBVIOUS
    <3>2. \A k \in Upto(m) : k \in 0..m
      BY <3>1
    <3>3. IsFiniteSet(0..m)
      BY <3>1, FS_Interval
    <3>4. QED
      BY <3>2, <3>3, FS_Subset
  <2>2. QED
    BY <2>1
<1>2. Uptos \subseteq FiniteSubsetsOf(S) /\ Uptos # {}
  BY <1>1 DEF FiniteSubsetsOf
<1>3. \E T \in Uptos : \A U \in Uptos : <<U, T>> \notin R
  BY <1>2, WFMin, FS_StrictSubsetOrderingWellFounded
<1>4. PICK m \in S : \A n \in S : <<Upto(n), Upto(m)>> \notin R
  BY <1>3
<1>5. ASSUME NEW n \in S, n < m
      PROVE  FALSE
  <2>1. Upto(n) \subseteq Upto(m) /\ m \in Upto(m) /\ m \notin Upto(n)
    <3>1. n \in Nat /\ m \in Nat /\ \A k \in S : k \in Nat
      OBVIOUS
    <3>2. m \in Upto(m) /\ m \notin Upto(n)
      BY <1>5, <3>1
    <3>3. ASSUME NEW k \in Upto(n) PROVE k \in Upto(m)
      <4>1. k \in S /\ k \in Nat /\ k <= n
        BY <3>1
      <4>2. k <= m
        BY <4>1, <3>1, <1>5
      <4>3. QED
        BY <4>1, <4>2
    <3>4. QED
      BY <3>2, <3>3
  <2>2. Upto(n) \in SUBSET S /\ Upto(m) \in SUBSET S /\ Upto(n) # Upto(m)
    BY <2>1
  <2> HIDE DEF Upto
  <2>3. <<Upto(n), Upto(m)>> \in R
    BY <2>1, <2>2 DEF StrictSubsetOrdering
  <2>4. QED
    BY <2>3, <1>4
<1>6. QED
  BY <1>5

\* The next connection is one that was not used: the choice is not empty.
LEMMA NextConnType ==
    ASSUME Unused # {}
    PROVE  NextConn \in Conns /\ link[NextConn] = "unused"
<1>1. Unused \subseteq Nat
  BY Bounds DEF Unused, Conns
<1>2. \E c \in Unused : \A d \in Unused : c <= d
  BY <1>1, LeastNatural
<1>3. NextConn \in Unused
  BY <1>2 DEF NextConn
<1>4. QED
  BY <1>3 DEF Unused

\* The counters of a sender stay in order when output is produced.
LEMMA SenderWeaken ==
    ASSUME NEW s \in Senders, NEW m \in Nat, NEW n \in Nat, m <= n, SenderOK(s, m)
    PROVE  SenderOK(s, n)
BY SenderFields DEF SenderOK

\* The first byte in history has been produced: trimming drops no byte to come.
LEMMA OldestType ==
    ASSUME produced \in 0..Total
    PROVE  Oldest \in 0..produced
BY Bounds DEF Oldest, Larger

\* A replay starts within the output, whatever the cursor in the URL asked for.
LEMMA StartType ==
    ASSUME produced \in 0..Total, NEW k \in MaybeOffset, k # None => k <= produced
    PROVE  Start(k) \in 0..produced /\ Gap(k) \in BOOLEAN
<1>1. k # None => k \in 0..Total
  BY DEF MaybeOffset
<1>2. Oldest \in 0..produced /\ produced \in Nat /\ Total \in Nat
  BY OldestType, Bounds
<1>3. Start(k) \in 0..produced
  BY <1>1, <1>2 DEF Start, Larger
<1>4. (Oldest > 0) \in BOOLEAN /\ (k < Oldest) \in BOOLEAN
  OBVIOUS
<1>5. Gap(k) \in BOOLEAN
  BY <1>4, Zenon DEF Gap
<1>6. QED
  BY <1>3, <1>5

\* What TypeOK says of one connection.
LEMMA ConnTypes ==
    ASSUME TypeOK, NEW c \in Conns
    PROVE  /\ queue[c] \in Seq(Messages) /\ Len(queue[c]) <= QueueCap
           /\ sender[c] \in Senders
           /\ down[c] \in Seq(Messages)
           /\ up[c] \in Seq(0..Total)
           /\ request[c].invocation \in 0..Invocations
           /\ request[c].cursor \in MaybeOffset
           /\ received[c] \in MaybeOffset
BY DEF TypeOK, Senders

\* The registered attachments are finitely many.
LEMMA RegisteredFinite ==
    IsFiniteSet(Registered)
<1>1. IsFiniteSet(Conns)
  BY FS_Interval, Bounds DEF Conns
<1>2. QED
  BY <1>1, FS_Subset DEF Registered

\* Attachments that go away keep the limit on their number.
LEMMA RegisteredShrinks ==
    ASSUME TypeOK, Registered' \subseteq Registered
    PROVE  Cardinality(Registered') <= MaxAttachments
<1>1. /\ IsFiniteSet(Registered') /\ Cardinality(Registered') <= Cardinality(Registered)
  BY FS_Subset, RegisteredFinite
<1>2. Cardinality(Registered) \in Nat /\ Cardinality(Registered') \in Nat
  BY <1>1, RegisteredFinite, FS_CardinalityType
<1>3. Cardinality(Registered) <= MaxAttachments
  BY DEF TypeOK
<1>4. QED
  BY <1>1, <1>2, <1>3, Bounds

\* A step that registers nobody keeps the limit on their number.
LEMMA RegisteredSame ==
    ASSUME TypeOK, clients' = clients
    PROVE  Cardinality(Registered)' <= MaxAttachments
<1>1. Registered' = Registered
  BY DEF Registered
<1>2. QED
  BY <1>1 DEF TypeOK

\* A frame in hand is sent and counted, or is held back by the window: no third
\* outcome.
LEMMA TransmitEffect ==
    ASSUME TypeOK, NEW c \in Conns, NEW to \in 0..Total, Transmit(c, to)
    PROVE  \E t \in Senders :
              /\ sender' = [sender EXCEPT ![c] = t]
              /\ t.acked = sender[c].acked /\ t.replay = sender[c].replay /\ t.hand = to
              /\ \/ /\ Fits(c, to) /\ t.sent = to
                    /\ down' = [down EXCEPT ![c] = Append(down[c], Frame(sender[c].sent, to))]
                 \/ /\ ~Fits(c, to) /\ t.sent = sender[c].sent
                    /\ down' = down
<1> DEFINE s == sender[c]
           t == [acked |-> s.acked, sent |-> IF Fits(c, to) THEN to ELSE s.sent,
                 hand |-> to, replay |-> s.replay]
<1>1. sender \in [Conns -> Senders] /\ s \in Senders
  BY DEF TypeOK, Senders
<1>2. t \in Senders
  BY <1>1 DEF Senders
<1>3. CASE Fits(c, to)
  <2>1. sender' = [sender EXCEPT ![c].sent = to, ![c].hand = to]
    BY <1>3 DEF Transmit
  <2>2. sender' = [sender EXCEPT ![c] = t]
    <3>1. [[s EXCEPT !.sent = to] EXCEPT !.hand = to] = t
      <4>1. t = [acked |-> s.acked, sent |-> to, hand |-> to, replay |-> s.replay]
        BY <1>3
      <4> HIDE DEF t
      <4>2. s = [acked |-> s.acked, sent |-> s.sent, hand |-> s.hand, replay |-> s.replay]
        BY <1>1 DEF Senders
      <4>3. [s EXCEPT !.sent = to] = [acked |-> s.acked, sent |-> to, hand |-> s.hand, replay |-> s.replay]
        BY <4>2
      <4> DEFINE r == [acked |-> s.acked, sent |-> to, hand |-> s.hand, replay |-> s.replay]
      <4>4. [r EXCEPT !.hand = to] = t
        BY <4>1
      <4>5. QED
        BY <4>3, <4>4
    <3>2. sender' = [sender EXCEPT ![c] = [[s EXCEPT !.sent = to] EXCEPT !.hand = to]]
      BY <2>1, <1>1
    <3>3. QED
      BY <3>1, <3>2
  <2>3. down' = [down EXCEPT ![c] = Append(down[c], Frame(sender[c].sent, to))]
    BY <1>3 DEF Transmit
  <2>4. QED
    BY <1>2, <2>2, <2>3, <1>3
<1>4. CASE ~Fits(c, to)
  <2>1. sender' = [sender EXCEPT ![c].hand = to] /\ down' = down
    BY <1>4 DEF Transmit
  <2>2. sender' = [sender EXCEPT ![c] = t]
    <3>1. [s EXCEPT !.hand = to] = t
      BY <1>1, <1>4 DEF Senders
    <3>2. QED
      BY <2>1, <3>1, <1>1
  <2>4. QED
    BY <1>2, <2>1, <2>2, <1>4
<1>5. QED
  BY <1>3, <1>4

\* One step of sendOutput that takes a frame, or writes the one in hand.
Sends(c) == SendReplay(c) \/ SendLive(c) \/ SendStalled(c)

\* sendOutput's counters stay in order whether the frame it takes is sent or held
\* back.
LEMMA SenderTakes ==
    ASSUME NEW s \in Senders, NEW t \in Senders, NEW to \in 0..Total, NEW n \in 0..Total,
           SenderOK(s, n), s.sent < to, to <= n, s.sent < s.replay => to <= s.replay,
           t.acked = s.acked, t.replay = s.replay, t.hand = to,
           \/ to - s.acked <= Window /\ t.sent = to
           \/ t.sent = s.sent
    PROVE  SenderOK(t, n) /\ s.sent <= t.sent
BY SenderFields, Bounds DEF SenderOK

\* What one such step changes: the head of the queue, the counters, and perhaps
\* one frame.
LEMMA SendStep ==
    ASSUME Inv, NEW c \in Conns, Sends(c)
    PROVE  /\ UNCHANGED <<current, stage, produced, clients, link, up, breaks, request,
                          viewVars, retryVars, screenVars>>
           /\ link[c] = "open" /\ clients[c] # "none"
           /\ queue'[c] \in Seq(Messages) /\ Len(queue'[c]) <= QueueCap
           /\ queue' = [queue EXCEPT ![c] = queue'[c]]
           /\ QueueOK(queue'[c], sender'[c], produced)
           /\ sender'[c] \in Senders
           /\ sender' = [sender EXCEPT ![c] = sender'[c]]
           /\ SenderOK(sender'[c], produced)
           /\ sender'[c].acked = sender[c].acked
           /\ sender[c].sent <= sender'[c].sent
           /\ \/ down' = down
              \/ /\ sender[c].sent < sender'[c].sent
                 /\ down' = [down EXCEPT ![c] =
                                Append(down[c], Frame(sender[c].sent, sender'[c].sent))]
<1> DEFINE s == sender[c]
           q == queue[c]
<1>1. /\ produced \in 0..Total
      /\ s \in Senders /\ q \in Seq(Messages) /\ Len(q) <= QueueCap
      /\ sender \in [Conns -> Senders] /\ queue \in [Conns -> Seq(Messages)]
  BY ConnTypes DEF Inv, TypeOK, Senders
<1>2. Sending(c)
  BY DEF Sends, SendReplay, SendLive, SendStalled
<1>3. SenderOK(s, produced) /\ QueueOK(q, s, produced)
  BY <1>2 DEF Inv, WrapperInv, AttachmentInv, Sending
<1>4. /\ s.acked \in Nat /\ s.sent \in Nat /\ s.hand \in Nat /\ s.replay \in Nat
      /\ s.sent <= Total /\ s.hand <= Total /\ s.replay <= Total
  BY <1>1, SenderFields
<1>5. UNCHANGED <<current, stage, produced, clients, link, up, breaks, request,
                  viewVars, retryVars, screenVars>>
  BY DEF Sends, SendReplay, SendLive, SendStalled
<1>6. ASSUME NEW to \in 0..Total, Transmit(c, to), s.sent < to, to <= produced,
             s.sent < s.replay => to <= s.replay
      PROVE  /\ sender'[c] \in Senders
             /\ sender' = [sender EXCEPT ![c] = sender'[c]]
             /\ sender'[c].acked = s.acked /\ sender'[c].replay = s.replay
             /\ sender'[c].hand = to
             /\ SenderOK(sender'[c], produced)
             /\ s.sent <= sender'[c].sent
             /\ \/ down' = down
                \/ /\ s.sent < sender'[c].sent
                   /\ down' = [down EXCEPT ![c] =
                                  Append(down[c], Frame(s.sent, sender'[c].sent))]
  <2>1. PICK t \in Senders :
              /\ sender' = [sender EXCEPT ![c] = t]
              /\ t.acked = s.acked /\ t.replay = s.replay /\ t.hand = to
              /\ \/ /\ Fits(c, to) /\ t.sent = to
                    /\ down' = [down EXCEPT ![c] = Append(down[c], Frame(s.sent, to))]
                 \/ /\ ~Fits(c, to) /\ t.sent = s.sent
                    /\ down' = down
    BY <1>6, TransmitEffect DEF Inv
  <2>2. sender'[c] = t
    BY <2>1, <1>1
  <2>3. SenderOK(t, produced) /\ s.sent <= t.sent
    BY <2>1, <1>1, <1>3, <1>6, SenderTakes DEF Fits
  <2>4. QED
    BY <2>1, <2>2, <2>3, <1>6
<1>7. CASE SendReplay(c)
  <2>1. PICK to \in ReplayPieces(c) : Transmit(c, to)
    BY <1>7 DEF SendReplay
  <2>2. s.sent < s.replay /\ queue' = queue
    BY <1>7 DEF SendReplay, InReplay
  <2>3. PICK n \in Chunks : to = Smaller(s.sent + n, s.replay)
    BY <2>1 DEF ReplayPieces
  <2>4. n \in Nat \ {0}
    BY Bounds
  <2>5. to \in Nat /\ s.sent < to /\ to <= s.replay
    BY <2>2, <2>3, <2>4, <1>4 DEF Smaller
  <2>6. to \in 0..Total /\ to <= produced
    BY <2>5, <1>1, <1>3, <1>4, Bounds DEF SenderOK
  <2>7. QueueOK(q, sender'[c], produced)
    BY <1>1, <1>3, <1>6, <2>1, <2>2, <2>5, <2>6, QueueWeaken, Bounds
  <2>8. QED
    BY <1>1, <1>2, <1>5, <1>6, <2>1, <2>2, <2>5, <2>6, <2>7 DEF Sending
<1>8. CASE SendLive(c)
  <2>1. q # <<>> /\ Transmit(c, Head(q).to) /\ queue' = [queue EXCEPT ![c] = Tail(q)]
    BY <1>8 DEF SendLive
  <2>2. ~(s.sent < s.replay) /\ ~(s.hand > s.sent)
    BY <1>8 DEF SendLive, InReplay, Stalled
  <2>3. Len(q) \in Nat /\ 1 \in 1..Len(q) /\ Head(q) = q[1]
    BY <1>1, <2>1
  <2>4. /\ q[1].type = "data" /\ s.hand <= q[1].from /\ q[1].from < q[1].to
        /\ q[1].to <= produced
    BY <2>3, <1>3 DEF QueueOK
  <2>5. q[1].from \in 0..Total /\ q[1].to \in 0..Total
    BY <2>3, <2>4, <1>1, QueueFields
  <2>6. s.sent < q[1].to
    BY <2>2, <2>4, <2>5, <1>3, <1>4, Bounds DEF SenderOK
  <2>7. queue'[c] = Tail(q) /\ Tail(q) \in Seq(Messages) /\ Len(Tail(q)) <= QueueCap
    BY <2>1, <1>1, Bounds
  <2>8. QueueOK(Tail(q), sender'[c], produced)
    BY <1>1, <1>3, <1>6, <2>1, <2>2, <2>3, <2>4, <2>5, <2>6, QueueTail, Bounds
  <2>9. QED
    BY <1>1, <1>2, <1>5, <1>6, <2>1, <2>2, <2>3, <2>4, <2>5, <2>6, <2>7, <2>8 DEF Sending
<1>9. CASE SendStalled(c)
  <2>1. Transmit(c, s.hand) /\ queue' = queue /\ s.hand > s.sent
    BY <1>9 DEF SendStalled, Stalled
  <2>2. s.hand \in 0..Total /\ s.sent < s.hand /\ s.hand <= produced
    BY <2>1, <1>1, <1>3, <1>4, Bounds DEF SenderOK
  <2>3. s.sent < s.replay => s.hand <= s.replay
    BY <1>3 DEF SenderOK
  <2>7. QueueOK(q, sender'[c], produced)
    BY <1>1, <1>3, <1>6, <2>1, <2>2, <2>3, QueueWeaken, Bounds
  <2>8. QED
    BY <1>1, <1>2, <1>5, <1>6, <2>1, <2>2, <2>3, <2>7 DEF Sending
<1>10. QED
  BY <1>7, <1>8, <1>9 DEF Sends


\* What a read from the harness changes: an active attachment's queue gets the
\* frame.
LEMMA OutputStep ==
    ASSUME Inv, NEW n \in Chunks, Output(n)
    PROVE  /\ n \in Nat \ {0}
           /\ produced' = produced + n /\ produced' \in 0..Total
           /\ stage = "running"
           /\ UNCHANGED <<current, stage, sender, netVars, viewVars, retryVars, screenVars>>
           /\ clients' \in [Conns -> {"none", "active", "inactive"}]
           /\ \A c \in Conns : clients'[c] = "none" <=> clients[c] = "none"
           /\ queue' \in [Conns -> Seq(Messages)]
           /\ \A c \in Conns :
                 /\ Len(queue'[c]) <= QueueCap
                 /\ \/ queue'[c] = queue[c]
                    \/ /\ clients[c] = "active"
                       /\ queue'[c] = Append(queue[c], Frame(produced, produced'))
<1> DEFINE f == Frame(produced, produced')
<1>1. /\ produced' = produced + n /\ stage = "running" /\ produced + n <= Total
      /\ UNCHANGED <<current, stage, sender, netVars, viewVars, retryVars, screenVars>>
  BY DEF Output
<1>2. n \in Nat \ {0} /\ produced \in 0..Total /\ Total \in Nat
  BY Bounds DEF Inv, TypeOK
<1>3. produced' \in 0..Total
  BY <1>1, <1>2
<1>4. f \in Messages
  BY <1>2, <1>3, FrameFields
<1>5. queue' = [c \in Conns |-> IF clients[c] = "active" /\ Len(queue[c]) < QueueCap
                                THEN Append(queue[c], f) ELSE queue[c]]
  BY <1>1 DEF Output, Write
<1>6. clients' \in [Conns -> {"none", "active", "inactive"}]
  BY DEF Inv, TypeOK, Output, Write
<1>7. \A c \in Conns : clients'[c] = "none" <=> clients[c] = "none"
  BY DEF Output, Write
<1>8. queue \in [Conns -> Seq(Messages)] /\ \A c \in Conns : Len(queue[c]) <= QueueCap
  BY DEF Inv, TypeOK
<1> HIDE DEF f
<1>9. ASSUME NEW c \in Conns
      PROVE  /\ queue'[c] \in Seq(Messages) /\ Len(queue'[c]) <= QueueCap
             /\ \/ queue'[c] = queue[c]
                \/ clients[c] = "active" /\ queue'[c] = Append(queue[c], f)
  <2>1. queue'[c] = IF clients[c] = "active" /\ Len(queue[c]) < QueueCap
                    THEN Append(queue[c], f) ELSE queue[c]
    BY <1>5
  <2>2. queue[c] \in Seq(Messages) /\ Len(queue[c]) <= QueueCap /\ Len(queue[c]) \in Nat
    BY <1>8
  <2>3. Append(queue[c], f) \in Seq(Messages) /\ Len(Append(queue[c], f)) = Len(queue[c]) + 1
    BY <2>2, <1>4
  <2>4. QueueCap \in Int
    BY Bounds
  <2> DEFINE r == Append(queue[c], f)
  <2>5. r \in Seq(Messages) /\ Len(r) = Len(queue[c]) + 1 /\ r = Append(queue[c], f)
    BY <2>3
  <2> HIDE DEF r
  <2>6. queue'[c] = IF clients[c] = "active" /\ Len(queue[c]) < QueueCap THEN r ELSE queue[c]
    BY <2>1, <2>5
  <2>7. QED
    BY <2>2, <2>4, <2>5, <2>6
<1>10. queue' \in [Conns -> Seq(Messages)]
  BY <1>5, <1>9
<1>11. QED
  BY <1>1, <1>2, <1>3, <1>6, <1>7, <1>9, <1>10 DEF f

\* Output keeps the types; a full queue drops its reader instead of growing.
LEMMA OutputType ==
    ASSUME Inv, NEW n \in Chunks, Output(n)
    PROVE  TypeOK'
<1>1. Registered' = Registered
  BY OutputStep DEF Registered
<1>2. Cardinality(Registered') <= MaxAttachments
  BY <1>1 DEF Inv, TypeOK
<1>q. QED
  BY <1>2, OutputStep DEF Inv, TypeOK, netVars, wrapperVars, netVars, viewVars,
     retryVars, screenVars

\* The end of the output keeps the types.
LEMMA FinishType ==
    ASSUME Inv, Finish
    PROVE  TypeOK'
<1>r. Cardinality(Registered)' <= MaxAttachments
  <2>1. Registered' \subseteq Registered
    BY DEF Registered, Inv, TypeOK, Finish, QueuesClosed
  <2>2. QED
    BY <2>1, RegisteredShrinks DEF Inv
<1>q. QED
  BY <1>r DEF Inv, TypeOK, Finish, QueuesClosed, wrapperVars, netVars, viewVars,
     retryVars, screenVars

\* The end of the service keeps the types.
LEMMA DrainType ==
    ASSUME Inv, Drain
    PROVE  TypeOK'
<1>r. Cardinality(Registered)' <= MaxAttachments
  <2>1. clients' = clients
    BY DEF Drain, wrapperVars
  <2>2. QED
    BY <2>1, RegisteredSame DEF Inv
<1>q. QED
  BY <1>r DEF Inv, TypeOK, Drain, wrapperVars, netVars, viewVars, retryVars, screenVars

\* The end of the wrapper keeps the types.
LEMMA WrapperExitsType ==
    ASSUME Inv, WrapperExits
    PROVE  TypeOK'
<1>r. Cardinality(Registered)' <= MaxAttachments
  <2>1. Registered' \subseteq Registered
    BY DEF Registered, Inv, TypeOK, WrapperExits
  <2>2. QED
    BY <2>1, RegisteredShrinks DEF Inv
<1>2. queue' \in [Conns -> Seq(Messages)] /\ \A c \in Conns : Len(queue'[c]) <= QueueCap
  <2>1. queue' = [c \in Conns |-> <<>>] /\ <<>> \in Seq(Messages) /\ Len(<<>>) = 0
    BY DEF WrapperExits
  <2>2. QED
    BY <2>1, Bounds
<1>q. QED
  BY <1>r, <1>2 DEF Inv, TypeOK, WrapperExits, wrapperVars, netVars, viewVars, retryVars,
     screenVars

\* A launch keeps the types.
LEMMA LaunchType ==
    ASSUME Inv, Launch
    PROVE  TypeOK'
<1>r. Cardinality(Registered)' <= MaxAttachments
  <2>1. clients' = clients
    BY DEF Launch, wrapperVars
  <2>2. QED
    BY <2>1, RegisteredSame DEF Inv
<1>2. current' \in 0..Invocations
  BY Bounds DEF Launch, Inv, TypeOK
<1>q. QED
  BY <1>r, <1>2 DEF Inv, TypeOK, Launch, wrapperVars, netVars, viewVars, retryVars,
     screenVars

\* The start of the harness keeps the types.
LEMMA LaunchedType ==
    ASSUME Inv, Launched
    PROVE  TypeOK'
<1>r. Cardinality(Registered)' <= MaxAttachments
  <2>1. clients' = clients
    BY DEF Launched, wrapperVars
  <2>2. QED
    BY <2>1, RegisteredSame DEF Inv
<1>2. produced' \in 0..Total
  BY Bounds DEF Launched, Inv, TypeOK
<1>q. QED
  BY <1>r, <1>2 DEF Inv, TypeOK, Launched, wrapperVars, netVars, viewVars, retryVars,
     screenVars

\* What Attach does, with the start of the replay and whether it leaves a gap.
Attached(c, start, gap) ==
    /\ start = Start(request[c].cursor) /\ gap = Gap(request[c].cursor)
    /\ request[c].cursor # None => request[c].cursor <= produced
    /\ request[c].invocation = current
    /\ stage \in {"running", "finished"}
    /\ link[c] = "connecting" /\ clients[c] = "none" /\ queue[c] = <<>>
    /\ Cardinality(Registered) < MaxAttachments
    /\ sender' = [sender EXCEPT ![c] = NewSender(start)]
    /\ NewSender(start) \in Senders /\ SenderOK(NewSender(start), produced)
    /\ down' = [down EXCEPT ![c] = <<[type |-> "replay", offset |-> start, gap |-> gap]>>]
    /\ [type |-> "replay", offset |-> start, gap |-> gap] \in Messages
    /\ clients' = [clients EXCEPT ![c] = IF stage = "running" THEN "active" ELSE "inactive"]
    /\ link' = [link EXCEPT ![c] = "open"]
    /\ UNCHANGED <<current, stage, produced, queue, up, breaks, request, viewVars,
                   retryVars, screenVars>>

\* Attach registers a free connection and replays from within the output.
LEMMA AttachStep ==
    ASSUME Inv, NEW c \in Conns, Attach(c)
    PROVE  \E start \in 0..produced, gap \in BOOLEAN : Attached(c, start, gap)
<1> DEFINE start == Start(request[c].cursor)
           gap == Gap(request[c].cursor)
<1>1. /\ request[c].cursor # None => request[c].cursor <= produced
      /\ request[c].invocation = current
      /\ stage \in {"running", "finished"}
      /\ Cardinality(Registered) < MaxAttachments
      /\ link[c] = "connecting"
  BY DEF Attach, Attachable
<1>2. produced \in 0..Total /\ Total \in Nat /\ Window \in Nat /\ request[c].cursor \in MaybeOffset
  BY Bounds, ConnTypes DEF Inv, TypeOK
<1>3. start \in 0..produced /\ gap \in BOOLEAN
  BY <1>1, <1>2, StartType
<1>4. clients[c] = "none" /\ queue[c] = <<>>
  BY <1>1 DEF Inv, WrapperInv, AttachmentInv, TypeOK
<1> HIDE DEF start, gap
<1>5. NewSender(start) \in Senders /\ SenderOK(NewSender(start), produced)
  BY <1>2, <1>3 DEF NewSender, Senders, SenderOK
<1>6. [type |-> "replay", offset |-> start, gap |-> gap] \in Messages
  BY <1>2, <1>3 DEF Messages
<1>7. /\ sender' = [sender EXCEPT ![c] = NewSender(start)]
      /\ down' = [down EXCEPT ![c] = <<[type |-> "replay", offset |-> start, gap |-> gap]>>]
      /\ clients' = [clients EXCEPT ![c] = IF stage = "running" THEN "active" ELSE "inactive"]
      /\ link' = [link EXCEPT ![c] = "open"]
      /\ UNCHANGED <<current, stage, produced, queue, up, breaks, request, viewVars,
                     retryVars, screenVars>>
  BY DEF Attach, start, gap
<1>8. start = Start(request[c].cursor) /\ gap = Gap(request[c].cursor)
  BY DEF start, gap
<1>9. QED
  BY <1>1, <1>3, <1>4, <1>5, <1>6, <1>7, <1>8 DEF Attached

\* An attachment keeps the types, and the limit on attachments: Attach checks it
\* first.
LEMMA AttachType ==
    ASSUME Inv, NEW c \in Conns, Attach(c)
    PROVE  TypeOK'
<1>0. PICK start \in 0..produced, gap \in BOOLEAN : Attached(c, start, gap)
  BY AttachStep
<1>1. /\ clients[c] = "none"
      /\ Cardinality(Registered) < MaxAttachments
      /\ sender' = [sender EXCEPT ![c] = NewSender(start)]
      /\ NewSender(start) \in Senders
      /\ down' = [down EXCEPT ![c] = <<[type |-> "replay", offset |-> start, gap |-> gap]>>]
      /\ [type |-> "replay", offset |-> start, gap |-> gap] \in Messages
      /\ clients' = [clients EXCEPT ![c] = IF stage = "running" THEN "active" ELSE "inactive"]
      /\ link' = [link EXCEPT ![c] = "open"]
      /\ UNCHANGED <<current, stage, produced, queue, up, breaks, request, viewVars,
                     retryVars, screenVars>>
  BY <1>0 DEF Attached
<1>2. Registered' = Registered \cup {c}
  BY <1>1 DEF Registered, Inv, TypeOK
<1>3. Cardinality(Registered') <= Cardinality(Registered) + 1
  <2>1. Cardinality(Registered) \in Nat
    BY RegisteredFinite, FS_CardinalityType
  <2>2. Cardinality(Registered \cup {c}) =
            IF c \in Registered THEN Cardinality(Registered) ELSE Cardinality(Registered) + 1
    BY RegisteredFinite, FS_AddElement
  <2>3. QED
    BY <1>2, <2>1, <2>2
<1>4. Cardinality(Registered)' <= MaxAttachments
  BY <1>1, <1>2, <1>3, RegisteredFinite, FS_AddElement, FS_CardinalityType, Bounds
<1> DEFINE m == [type |-> "replay", offset |-> start, gap |-> gap]
<1>5. down' \in [Conns -> Seq(Messages)]
  <2>1. m \in Messages /\ down' = [down EXCEPT ![c] = <<m>>] /\ down \in [Conns -> Seq(Messages)]
    BY <1>1 DEF Inv, TypeOK
  <2> HIDE DEF m
  <2>2. <<m>> \in Seq(Messages)
    BY <2>1
  <2>3. QED
    BY <2>1, <2>2
<1>6. sender' \in [Conns -> Senders]
  BY <1>1 DEF Inv, TypeOK, Senders
<1>7. /\ clients' \in [Conns -> {"none", "active", "inactive"}]
      /\ link' \in [Conns -> {"unused", "connecting", "open", "closing", "closed"}]
  BY <1>1 DEF Inv, TypeOK
<1>q. QED
  BY <1>1, <1>4, <1>5, <1>6, <1>7 DEF Inv, TypeOK, Senders, wrapperVars, netVars,
     viewVars, retryVars, screenVars

\* A refused connection keeps the types.
LEMMA RefuseType ==
    ASSUME Inv, NEW c \in Conns, Refuse(c)
    PROVE  TypeOK'
<1>r. Cardinality(Registered)' <= MaxAttachments
  <2>1. clients' = clients
    BY DEF Refuse, wrapperVars
  <2>2. QED
    BY <2>1, RegisteredSame DEF Inv
<1>q. QED
  BY <1>r DEF Inv, TypeOK, Refuse, wrapperVars, netVars, viewVars, retryVars, screenVars

\* A step of sendOutput keeps the types.
LEMMA SendType ==
    ASSUME Inv, NEW c \in Conns, Sends(c)
    PROVE  TypeOK'
<1>r. Cardinality(Registered)' <= MaxAttachments
  <2>1. clients' = clients
    BY SendStep DEF wrapperVars
  <2>2. QED
    BY <2>1, RegisteredSame DEF Inv
<1>1. down' \in [Conns -> Seq(Messages)]
  <2> DEFINE f == Frame(sender[c].sent, sender'[c].sent)
  <2>1. down \in [Conns -> Seq(Messages)] /\ sender[c] \in Senders /\ sender'[c] \in Senders
    BY SendStep, ConnTypes DEF Inv, TypeOK
  <2>2. f \in Messages
    BY <2>1, FrameFields DEF Senders
  <2>3. down' = down \/ down' = [down EXCEPT ![c] = Append(down[c], f)]
    BY SendStep
  <2> HIDE DEF f
  <2>4. Append(down[c], f) \in Seq(Messages)
    BY <2>1, <2>2
  <2>5. QED
    BY <2>1, <2>3, <2>4
<1>2. queue' \in [Conns -> Seq(Messages)] /\ \A d \in Conns : Len(queue'[d]) <= QueueCap
  <2>1. queue \in [Conns -> Seq(Messages)] /\ \A d \in Conns : Len(queue[d]) <= QueueCap
    BY DEF Inv, TypeOK
  <2>2. /\ queue'[c] \in Seq(Messages) /\ Len(queue'[c]) <= QueueCap
        /\ queue' = [queue EXCEPT ![c] = queue'[c]]
    BY SendStep
  <2>3. QED
    BY <2>1, <2>2
<1>3. sender' \in [Conns -> Senders]
  <2>1. sender \in [Conns -> Senders]
    BY DEF Inv, TypeOK, Senders
  <2>2. sender'[c] \in Senders /\ sender' = [sender EXCEPT ![c] = sender'[c]]
    BY SendStep
  <2>3. QED
    BY <2>1, <2>2
<1>4. UNCHANGED <<current, stage, produced, clients, link, up, breaks, request,
                  viewVars, retryVars, screenVars>>
  BY SendStep
<1>q. QED
  BY <1>r, <1>1, <1>2, <1>3, <1>4 DEF Inv, TypeOK, Senders, wrapperVars, netVars,
     viewVars, retryVars, screenVars

\* An acknowledgment moves acked forward, or ends the connection.
LEMMA ReadAckStep ==
    ASSUME Inv, NEW c \in Conns, ReadAck(c)
    PROVE  /\ UNCHANGED <<current, stage, produced, clients, queue, down, breaks, request,
                          viewVars, retryVars, screenVars>>
           /\ link[c] = "open" /\ clients[c] # "none" /\ up[c] # <<>>
           /\ up' = [up EXCEPT ![c] = Tail(up[c])]
           /\ sender'[c] \in Senders
           /\ sender' = [sender EXCEPT ![c] = sender'[c]]
           /\ \/ /\ AckValid(c, Head(up[c])) /\ link' = link
                 /\ sender'[c] = [sender[c] EXCEPT !.acked = Head(up[c])]
                 /\ sender'[c].acked = Head(up[c])
                 /\ sender'[c].sent = sender[c].sent /\ sender'[c].hand = sender[c].hand
                 /\ sender'[c].replay = sender[c].replay
              \/ /\ ~AckValid(c, Head(up[c]))
                 /\ link' = [link EXCEPT ![c] = "closing"] /\ sender' = sender
<1>1. /\ UNCHANGED <<current, stage, produced, clients, queue, down, breaks, request,
                     viewVars, retryVars, screenVars>>
      /\ link[c] = "open" /\ clients[c] # "none" /\ up[c] # <<>>
      /\ up' = [up EXCEPT ![c] = Tail(up[c])]
  BY DEF ReadAck, Sending
<1>2. sender \in [Conns -> Senders] /\ sender[c] \in Senders /\ up[c] \in Seq(0..Total)
  BY ConnTypes DEF Inv, TypeOK, Senders
<1>3. CASE AckValid(c, Head(up[c]))
  <2>1. sender' = [sender EXCEPT ![c].acked = Head(up[c])] /\ link' = link
    BY <1>3 DEF ReadAck
  <2>2. Head(up[c]) \in 0..Total
    BY <1>1, <1>2, HeadTailProperties
  <2>3. /\ sender'[c] = [sender[c] EXCEPT !.acked = Head(up[c])]
        /\ sender' = [sender EXCEPT ![c] = sender'[c]]
    BY <2>1, <1>2
  <2>4. sender'[c] \in Senders
    BY <1>2, <2>2, <2>3 DEF Senders
  <2>5. /\ sender'[c].acked = Head(up[c])
        /\ sender'[c].sent = sender[c].sent /\ sender'[c].hand = sender[c].hand
        /\ sender'[c].replay = sender[c].replay
    BY <1>2, <2>3 DEF Senders
  <2>6. QED
    BY <1>1, <1>3, <2>1, <2>3, <2>4, <2>5
<1>4. CASE ~AckValid(c, Head(up[c]))
  <2>1. link' = [link EXCEPT ![c] = "closing"] /\ sender' = sender
    BY <1>4 DEF ReadAck
  <2>2. QED
    BY <1>1, <1>2, <1>4, <2>1
<1>5. QED
  BY <1>3, <1>4

\* Reading an acknowledgment keeps the types.
LEMMA ReadAckType ==
    ASSUME Inv, NEW c \in Conns, ReadAck(c)
    PROVE  TypeOK'
<1>r. Cardinality(Registered)' <= MaxAttachments
  <2>1. clients' = clients
    BY ReadAckStep DEF wrapperVars
  <2>2. QED
    BY <2>1, RegisteredSame DEF Inv
<1>1. up' \in [Conns -> Seq(0..Total)]
  <2>1. up \in [Conns -> Seq(0..Total)] /\ up[c] # <<>> /\ up' = [up EXCEPT ![c] = Tail(up[c])]
    BY ReadAckStep DEF Inv, TypeOK
  <2>2. Tail(up[c]) \in Seq(0..Total)
    BY <2>1
  <2>3. QED
    BY <2>1, <2>2
<1>2. sender' \in [Conns -> Senders]
  <2>1. sender \in [Conns -> Senders]
    BY DEF Inv, TypeOK, Senders
  <2>2. sender'[c] \in Senders /\ sender' = [sender EXCEPT ![c] = sender'[c]]
    BY ReadAckStep
  <2>3. QED
    BY <2>1, <2>2
<1>3. link' \in [Conns -> {"unused", "connecting", "open", "closing", "closed"}]
  <2>1. link \in [Conns -> {"unused", "connecting", "open", "closing", "closed"}]
    BY DEF Inv, TypeOK
  <2>2. link' = link \/ link' = [link EXCEPT ![c] = "closing"]
    BY ReadAckStep
  <2>3. QED
    BY <2>1, <2>2
<1>4. UNCHANGED <<current, stage, produced, clients, queue, down, breaks, request,
                  viewVars, retryVars, screenVars>>
  BY ReadAckStep
<1>q. QED
  BY <1>r, <1>1, <1>2, <1>3, <1>4 DEF Inv, TypeOK, Senders, wrapperVars, netVars,
     viewVars, retryVars, screenVars

\* The end of sendOutput closes the connection, with an end message if the output
\* ended there.
LEMMA SendEndStep ==
    ASSUME Inv, NEW c \in Conns, SendEnd(c)
    PROVE  /\ UNCHANGED <<wrapperVars, up, breaks, request, viewVars, retryVars, screenVars>>
           /\ link[c] = "open" /\ clients[c] # "none"
           /\ link' = [link EXCEPT ![c] = "closing"]
           /\ down'[c] \in Seq(Messages)
           /\ down' = [down EXCEPT ![c] = down'[c]]
           /\ \/ down'[c] = down[c]
              \/ /\ FinishedAt(sender[c].sent)
                 /\ down'[c] = Append(down[c], [type |-> "end", offset |-> sender[c].sent])
<1> DEFINE m == [type |-> "end", offset |-> sender[c].sent]
<1>1. /\ UNCHANGED <<wrapperVars, up, breaks, request, viewVars, retryVars, screenVars>>
      /\ link[c] = "open" /\ clients[c] # "none"
      /\ link' = [link EXCEPT ![c] = "closing"]
      /\ down' = IF FinishedAt(sender[c].sent)
                 THEN [down EXCEPT ![c] = Append(down[c], m)] ELSE down
  BY DEF SendEnd, Sending
<1>2. down \in [Conns -> Seq(Messages)] /\ sender[c] \in Senders
  BY ConnTypes DEF Inv, TypeOK
<1>3. m \in Messages
  BY <1>2 DEF Messages, Senders
<1> HIDE DEF m
<1>4. Append(down[c], m) \in Seq(Messages)
  BY <1>2, <1>3
<1>5. QED
  BY <1>1, <1>2, <1>4 DEF m

\* The end of sendOutput keeps the types.
LEMMA SendEndType ==
    ASSUME Inv, NEW c \in Conns, SendEnd(c)
    PROVE  TypeOK'
<1>r. Cardinality(Registered)' <= MaxAttachments
  <2>1. clients' = clients
    BY SendEndStep DEF wrapperVars
  <2>2. QED
    BY <2>1, RegisteredSame DEF Inv
<1>1. down' \in [Conns -> Seq(Messages)]
  <2>1. down \in [Conns -> Seq(Messages)]
    BY DEF Inv, TypeOK
  <2>2. down' = [down EXCEPT ![c] = down'[c]] /\ down'[c] \in Seq(Messages)
    BY SendEndStep
  <2>3. QED
    BY <2>1, <2>2
<1>2. link' \in [Conns -> {"unused", "connecting", "open", "closing", "closed"}]
  <2>1. link \in [Conns -> {"unused", "connecting", "open", "closing", "closed"}]
    BY DEF Inv, TypeOK
  <2>2. link' = [link EXCEPT ![c] = "closing"]
    BY SendEndStep
  <2>3. QED
    BY <2>1, <2>2
<1>4. UNCHANGED <<wrapperVars, up, breaks, request, viewVars, retryVars, screenVars>>
  BY SendEndStep
<1>q. QED
  BY <1>r, <1>1, <1>2, <1>4 DEF Inv, TypeOK, Senders, wrapperVars, netVars, viewVars,
     retryVars, screenVars

\* A detach keeps the types.
LEMMA DetachType ==
    ASSUME Inv, NEW c \in Conns, Detach(c)
    PROVE  TypeOK'
<1>r. Cardinality(Registered)' <= MaxAttachments
  <2>1. Registered' \subseteq Registered
    BY DEF Registered, Inv, TypeOK, Detach
  <2>2. QED
    BY <2>1, RegisteredShrinks DEF Inv
<1>2. queue' \in [Conns -> Seq(Messages)] /\ \A d \in Conns : Len(queue'[d]) <= QueueCap
  <2>1. queue' = [queue EXCEPT ![c] = <<>>] /\ <<>> \in Seq(Messages) /\ Len(<<>>) = 0
    BY DEF Detach
  <2>2. QED
    <3>1. queue \in [Conns -> Seq(Messages)] /\ \A d \in Conns : Len(queue[d]) <= QueueCap
      BY DEF Inv, TypeOK
    <3>2. QED
      BY <2>1, <3>1, Bounds
<1>q. QED
  BY <1>r, <1>2 DEF Inv, TypeOK, Detach, wrapperVars, netVars, viewVars, retryVars,
     screenVars

\* A connection that breaks loses a suffix of its messages.
LEMMA BreakStep ==
    ASSUME Inv, NEW c \in Conns, Break(c)
    PROVE  \E n \in 0..Len(down[c]) :
              /\ UNCHANGED <<wrapperVars, up, request, viewVars, retryVars, screenVars>>
              /\ link[c] \in {"connecting", "open"}
              /\ link' = [link EXCEPT ![c] = "closing"]
              /\ breaks' = breaks + 1 /\ breaks < MaxBreaks
              /\ down'[c] \in Seq(Messages)
              /\ down' = [down EXCEPT ![c] = down'[c]]
              /\ Len(down'[c]) = n
              /\ \A i \in 1..n : down'[c][i] = down[c][i]
<1>1. PICK n \in 0..Len(down[c]) : down' = [down EXCEPT ![c] = SubSeq(down[c], 1, n)]
  BY DEF Break
<1>2. down \in [Conns -> Seq(Messages)] /\ down[c] \in Seq(Messages)
  BY DEF Inv, TypeOK
<1>3. n \in Nat /\ \A i \in 1..n : down[c][i] \in Messages
  BY <1>2
<1>4. /\ SubSeq(down[c], 1, n) \in Seq(Messages) /\ Len(SubSeq(down[c], 1, n)) = n
      /\ \A i \in 1..n : SubSeq(down[c], 1, n)[i] = down[c][i]
  <2>1. /\ SubSeq(down[c], 1, n) \in Seq(Messages)
        /\ Len(SubSeq(down[c], 1, n)) = IF 1 <= n THEN n - 1 + 1 ELSE 0
        /\ \A i \in 1..(n - 1 + 1) : SubSeq(down[c], 1, n)[i] = down[c][1 + i - 1]
    BY <1>3, SubSeqProperties
  <2>2. QED
    BY <2>1, <1>3
<1>5. QED
  BY <1>1, <1>2, <1>4 DEF Break

\* A broken connection keeps the types.
LEMMA BreakType ==
    ASSUME Inv, NEW c \in Conns, Break(c)
    PROVE  TypeOK'
<1>r. Cardinality(Registered)' <= MaxAttachments
  <2>1. clients' = clients
    BY BreakStep DEF wrapperVars
  <2>2. QED
    BY <2>1, RegisteredSame DEF Inv
<1>1. down' \in [Conns -> Seq(Messages)]
  BY BreakStep DEF Inv, TypeOK
<1>2. link' \in [Conns -> {"unused", "connecting", "open", "closing", "closed"}]
  BY BreakStep DEF Inv, TypeOK
<1>3. breaks' \in 0..MaxBreaks
  <2>1. breaks' = breaks + 1 /\ breaks < MaxBreaks
    BY BreakStep
  <2>2. QED
    BY <2>1, Bounds DEF Inv, TypeOK
<1>4. UNCHANGED <<wrapperVars, up, request, viewVars, retryVars, screenVars>>
  BY BreakStep
<1>q. QED
  BY <1>r, <1>1, <1>2, <1>3, <1>4 DEF Inv, TypeOK, Senders, wrapperVars, netVars,
     viewVars, retryVars, screenVars


LinkStates == {"unused", "connecting", "open", "closing", "closed"}

\* Taking the next message leaves the others, one place ahead.
LEMMA DownTail ==
    ASSUME TypeOK, NEW c \in Conns, down[c] # <<>>, down' = [down EXCEPT ![c] = Tail(down[c])]
    PROVE  /\ down' \in [Conns -> Seq(Messages)]
           /\ down'[c] \in Seq(Messages)
           /\ down' = [down EXCEPT ![c] = down'[c]]
           /\ Len(down[c]) \in Nat \ {0}
           /\ Len(down'[c]) = Len(down[c]) - 1
           /\ \A i \in 1..Len(down'[c]) : down'[c][i] = down[c][i + 1] /\ i + 1 \in 1..Len(down[c])
           /\ Head(down[c]) = down[c][1] /\ down[c][1] \in Messages
           /\ 1 \in 1..Len(down[c])
<1>1. down \in [Conns -> Seq(Messages)] /\ down[c] \in Seq(Messages)
  BY DEF TypeOK
<1> DEFINE q == down[c]
<1>2. q \in Seq(Messages) /\ q # <<>>
  BY <1>1
<1>3. down'[c] = Tail(q)
  BY <1>1
<1> HIDE DEF q
<1>4. /\ Tail(q) \in Seq(Messages) /\ Len(q) \in Nat \ {0} /\ Len(Tail(q)) = Len(q) - 1
      /\ Head(q) = q[1] /\ Head(q) \in Messages
      /\ \A i \in 1..Len(Tail(q)) : Tail(q)[i] = q[i + 1]
  BY <1>2, HeadTailProperties, EmptySeq
<1>5. \A i \in 1..Len(Tail(q)) : i + 1 \in 1..Len(q)
  BY <1>4
<1>6. 1 \in 1..Len(q)
  BY <1>4
<1>7. q = down[c]
  BY DEF q
<1>8. QED
  BY <1>1, <1>3, <1>4, <1>5, <1>6, <1>7

\* What socket.close does to a connection and to the messages under way on it.
LEMMA ClosedStep ==
    ASSUME TypeOK, NEW links \in [Conns -> LinkStates], NEW c \in Conns \cup {None}
    PROVE  /\ Closed(links, c) \in [Conns -> LinkStates]
           /\ \A d \in Conns : Closed(links, c)[d] =
                 IF d = c /\ links[d] \in {"connecting", "open"} THEN "closing" ELSE links[d]
           /\ Dropped(c) \in [Conns -> Seq(Messages)]
           /\ \A d \in Conns : Dropped(c)[d] = IF d = c THEN <<>> ELSE down[d]
<1>1. down \in [Conns -> Seq(Messages)] /\ None \notin Conns /\ <<>> \in Seq(Messages)
  BY NoneIsNull, Bounds DEF TypeOK, Conns
<1>2. CASE c = None
  BY <1>1, <1>2 DEF Closed, Dropped
<1>3. CASE c # None
  <2>1. c \in Conns
    BY <1>3
  <2>2. /\ Dropped(c) = [down EXCEPT ![c] = <<>>]
        /\ Closed(links, c) = [links EXCEPT ![c] = IF @ \in {"connecting", "open"} THEN "closing" ELSE @]
    BY <1>3 DEF Closed, Dropped
  <2>3. Dropped(c) \in [Conns -> Seq(Messages)]
    BY <2>1, <2>2, <1>1
  <2>4. Closed(links, c) \in [Conns -> LinkStates]
    BY <2>1, <2>2 DEF LinkStates
  <2>5. QED
    BY <2>1, <2>2, <2>3, <2>4, <1>1
<1>4. QED
  BY <1>2, <1>3

\* A new WebSocket of the view: an unused connection with the invocation and
\* cursor it asks for.
LEMMA OpenStep ==
    ASSUME TypeOK, NEW links \in [Conns -> LinkStates],
           NEW i \in 0..Invocations, NEW k \in MaybeOffset, OpenConnection(links, i, k)
    PROVE  \E n \in Conns :
              /\ link[n] = "unused"
              /\ link' = [links EXCEPT ![n] = "connecting"]
              /\ request' = [request EXCEPT ![n] = [invocation |-> i, cursor |-> k]]
              /\ socket' = n
              /\ link' \in [Conns -> LinkStates]
              /\ request' \in [Conns -> [invocation : 0..Invocations, cursor : MaybeOffset]]
<1> DEFINE n == NextConn
<1>1. n \in Conns /\ link[n] = "unused"
  BY NextConnType DEF OpenConnection
<1>2. /\ link' = [links EXCEPT ![n] = "connecting"]
      /\ request' = [request EXCEPT ![n] = [invocation |-> i, cursor |-> k]]
      /\ socket' = n
  BY DEF OpenConnection
<1> HIDE DEF n
<1>3. link' \in [Conns -> LinkStates]
  BY <1>1, <1>2 DEF LinkStates
<1>4. request' \in [Conns -> [invocation : 0..Invocations, cursor : MaybeOffset]]
  BY <1>1, <1>2 DEF TypeOK
<1>5. QED
  BY <1>1, <1>2, <1>3, <1>4

\* A message of a socket that is not the view's is ignored.
LEMMA ReceiveStaleStep ==
    ASSUME Inv, NEW c \in Conns, ReceiveStale(c)
    PROVE  /\ UNCHANGED <<wrapperVars, link, up, breaks, request, viewVars, retryVars, screenVars>>
           /\ ~Ours(c) /\ down[c] # <<>> /\ down' = [down EXCEPT ![c] = Tail(down[c])]
BY DEF ReceiveStale

\* A replay message moves the view to the start of the replay; a gap resets the
\* screen.
LEMMA ReceiveReplayStep ==
    ASSUME Inv, NEW c \in Conns, ReceiveReplay(c)
    PROVE  /\ UNCHANGED <<wrapperVars, link, up, breaks, request, view, socket, complete,
                          exited, disposed, retryVars, writes>>
           /\ ~disposed /\ socket = c
           /\ down[c] # <<>> /\ down' = [down EXCEPT ![c] = Tail(down[c])]
           /\ Head(down[c]).type = "replay" /\ Head(down[c]).offset \in 0..Total
           /\ received' = [received EXCEPT ![c] = Head(down[c]).offset]
           /\ rendered' = Head(down[c]).offset
           /\ shown' = IF Head(down[c]).gap THEN <<>> ELSE shown
<1>1. /\ UNCHANGED <<wrapperVars, link, up, breaks, request, view, socket, complete,
                     exited, disposed, retryVars, writes>>
      /\ ~disposed /\ socket = c
      /\ down[c] # <<>> /\ down' = [down EXCEPT ![c] = Tail(down[c])]
      /\ Head(down[c]).type = "replay"
      /\ received' = [received EXCEPT ![c] = Head(down[c]).offset]
      /\ rendered' = Head(down[c]).offset
      /\ shown' = IF Head(down[c]).gap THEN <<>> ELSE shown
  BY DEF ReceiveReplay, Ours
<1>2. Head(down[c]) \in Messages
  BY <1>1, DownTail DEF Inv
<1>3. QED
  BY <1>1, <1>2, DataFields

\* A frame is written to xterm.js when it is the next one, else the socket is
\* closed.
LEMMA ReceiveDataStep ==
    ASSUME Inv, NEW c \in Conns, ReceiveData(c)
    PROVE  /\ UNCHANGED <<wrapperVars, up, breaks, request, view, socket, rendered,
                          complete, exited, disposed, retryVars, shown>>
           /\ ~disposed /\ socket = c /\ down[c] # <<>>
           /\ Head(down[c]).type = "data"
           /\ Head(down[c]).from \in 0..Total /\ Head(down[c]).to \in 0..Total
           /\ Head(down[c]).from < Head(down[c]).to
           /\ \/ /\ Head(down[c]).from = received[c]
                 /\ received' = [received EXCEPT ![c] = Head(down[c]).to]
                 /\ writes' = Append(writes, [conn |-> c, from |-> Head(down[c]).from,
                                               to |-> Head(down[c]).to])
                 /\ down' = [down EXCEPT ![c] = Tail(down[c])]
                 /\ UNCHANGED link
              \/ /\ link' = Closed(link, c)
                 /\ down' = Dropped(c)
                 /\ UNCHANGED <<received, writes>>
<1>1. /\ UNCHANGED <<wrapperVars, up, breaks, request, view, socket, rendered,
                     complete, exited, disposed, retryVars, shown>>
      /\ ~disposed /\ socket = c /\ down[c] # <<>>
      /\ Head(down[c]).type = "data"
      /\ \/ /\ Head(down[c]).from = received[c]
            /\ received' = [received EXCEPT ![c] = Head(down[c]).to]
            /\ writes' = Append(writes, [conn |-> c, from |-> Head(down[c]).from,
                                          to |-> Head(down[c]).to])
            /\ down' = [down EXCEPT ![c] = Tail(down[c])]
            /\ UNCHANGED link
         \/ /\ link' = Closed(link, c)
            /\ down' = Dropped(c)
            /\ UNCHANGED <<received, writes>>
  BY DEF ReceiveData, Ours
<1> DEFINE q == down[c]
<1>2. q \in Seq(Messages) /\ q # <<>>
  BY <1>1, ConnTypes DEF Inv
<1>3. \A i \in 1..Len(q) : IsData(q, i) => q[i].from < q[i].to
  BY DEF Inv, ViewInv, ConnectionInv
<1>4. q[1].type = "data"
  BY <1>1
<1> HIDE DEF q
<1>5. Len(q) \in Nat \ {0} /\ Head(q) = q[1] /\ Head(q) \in Messages
  BY <1>2, HeadTailProperties, EmptySeq
<1>6. q[1].from < q[1].to /\ Head(q).from \in 0..Total /\ Head(q).to \in 0..Total
  BY <1>3, <1>4, <1>5, DataFields DEF IsData
<1>7. QED
  BY <1>1, <1>5, <1>6 DEF q

\* xterm.js renders the oldest write; its callback acknowledges it if the socket
\* is still the view's.
LEMMA RenderStep ==
    ASSUME Inv, Render
    PROVE  /\ UNCHANGED <<wrapperVars, link, down, breaks, request, view, socket, received,
                          complete, exited, disposed, retryVars>>
           /\ writes # <<>> /\ writes' = Tail(writes)
           /\ Len(writes) \in Nat \ {0} /\ 1 \in 1..Len(writes)
           /\ Len(writes') = Len(writes) - 1
           /\ \A i \in 1..Len(writes') : writes'[i] = writes[i + 1] /\ i + 1 \in 1..Len(writes)
           /\ writes' \in Seq(Writes)
           /\ writes[1].conn \in Conns /\ ~Fresh(writes[1].conn)
           /\ writes[1].from \in 0..Total /\ writes[1].to \in 0..Total
           /\ writes[1].from < writes[1].to
           /\ shown' = shown \o Bytes(writes[1])
           /\ rendered' = IF Ours(writes[1].conn) THEN writes[1].to ELSE rendered
           /\ up' = IF Ours(writes[1].conn) /\ link[writes[1].conn] = "open"
                    THEN [up EXCEPT ![writes[1].conn] = Append(up[writes[1].conn], writes[1].to)]
                    ELSE up
<1>1. writes \in Seq(Writes) /\ writes # <<>>
  BY DEF Render, Inv, TypeOK, Writes
<1>2. /\ Len(writes) \in Nat \ {0} /\ Head(writes) = writes[1] /\ Head(writes) \in Writes
      /\ Tail(writes) \in Seq(Writes) /\ Len(Tail(writes)) = Len(writes) - 1
      /\ \A i \in 1..Len(Tail(writes)) : Tail(writes)[i] = writes[i + 1]
  BY <1>1, HeadTailProperties, EmptySeq
<1>3. /\ UNCHANGED <<wrapperVars, link, down, breaks, request, view, socket, received,
                     complete, exited, disposed, retryVars>>
      /\ writes' = Tail(writes)
      /\ shown' = shown \o Bytes(writes[1])
      /\ rendered' = IF Ours(writes[1].conn) THEN writes[1].to ELSE rendered
      /\ up' = IF Ours(writes[1].conn) /\ link[writes[1].conn] = "open"
               THEN [up EXCEPT ![writes[1].conn] = Append(up[writes[1].conn], writes[1].to)]
               ELSE up
  BY <1>2 DEF Render
<1>4. 1 \in 1..Len(writes) /\ \A i \in 1..Len(Tail(writes)) : i + 1 \in 1..Len(writes)
  BY <1>2
<1>5. /\ writes[1].conn \in Conns
      /\ writes[1].from \in 0..Total /\ writes[1].to \in 0..Total
  BY <1>2 DEF Writes
<1>6. ~Fresh(writes[1].conn) /\ writes[1].from < writes[1].to
  BY <1>4, <1>5 DEF Inv, ViewInv, ConnectionInv
<1>7. QED
  BY <1>1, <1>2, <1>3, <1>4, <1>5, <1>6

\* An ignored message keeps the types.
LEMMA ReceiveStaleType ==
    ASSUME Inv, NEW c \in Conns, ReceiveStale(c)
    PROVE  TypeOK'
<1>r. Cardinality(Registered)' <= MaxAttachments
  <2>1. clients' = clients
    BY DEF ReceiveStale, wrapperVars
  <2>2. QED
    BY <2>1, RegisteredSame DEF Inv
<1>1. down' \in [Conns -> Seq(Messages)]
  BY ReceiveStaleStep, DownTail DEF Inv
<1>2. UNCHANGED <<wrapperVars, link, up, breaks, request, viewVars, retryVars, screenVars>>
  BY ReceiveStaleStep
<1>q. QED
  BY <1>r, <1>1, <1>2 DEF Inv, TypeOK, Senders, wrapperVars, netVars, viewVars,
     retryVars, screenVars

\* The replay message keeps the types.
LEMMA ReceiveReplayType ==
    ASSUME Inv, NEW c \in Conns, ReceiveReplay(c)
    PROVE  TypeOK'
<1>r. Cardinality(Registered)' <= MaxAttachments
  <2>1. clients' = clients
    BY DEF ReceiveReplay, wrapperVars
  <2>2. QED
    BY <2>1, RegisteredSame DEF Inv
<1>1. down' \in [Conns -> Seq(Messages)]
  BY ReceiveReplayStep, DownTail DEF Inv
<1>2. UNCHANGED <<wrapperVars, link, up, breaks, request, view, socket, complete,
                  exited, disposed, retryVars, writes>>
  BY ReceiveReplayStep
<1>3. received' \in [Conns -> MaybeOffset] /\ rendered' \in MaybeOffset
  BY ReceiveReplayStep DEF Inv, TypeOK, MaybeOffset
<1>4. shown' \in Seq((1..Invocations) \X (0..Total))
  <2>1. shown' = <<>> \/ shown' = shown
    BY ReceiveReplayStep
  <2>2. shown \in Seq((1..Invocations) \X (0..Total))
    BY DEF Inv, TypeOK
  <2>3. <<>> \in Seq((1..Invocations) \X (0..Total))
    BY EmptySeq
  <2>4. QED
    BY <2>1, <2>2, <2>3
<1>q. QED
  BY <1>r, <1>1, <1>2, <1>3, <1>4 DEF Inv, TypeOK, Senders, wrapperVars, netVars,
     viewVars, retryVars, screenVars

\* A frame keeps the types.
LEMMA ReceiveDataType ==
    ASSUME Inv, NEW c \in Conns, ReceiveData(c)
    PROVE  TypeOK'
<1>r. Cardinality(Registered)' <= MaxAttachments
  <2>1. clients' = clients
    BY DEF ReceiveData, wrapperVars
  <2>2. QED
    BY <2>1, RegisteredSame DEF Inv
<1>0. link \in [Conns -> LinkStates] /\ c \in Conns \cup {None}
  BY DEF Inv, TypeOK, LinkStates
<1>1. down' \in [Conns -> Seq(Messages)] /\ link' \in [Conns -> LinkStates]
  <2>1. down[c] # <<>>
    BY ReceiveDataStep
  <2>2. \/ down' = [down EXCEPT ![c] = Tail(down[c])] /\ link' = link
        \/ down' = Dropped(c) /\ link' = Closed(link, c)
    BY ReceiveDataStep
  <2>3. Dropped(c) \in [Conns -> Seq(Messages)] /\ Closed(link, c) \in [Conns -> LinkStates]
    BY <1>0, ClosedStep DEF Inv
  <2>4. QED
    BY <1>0, <2>1, <2>2, <2>3, DownTail DEF Inv
<1>2. UNCHANGED <<wrapperVars, up, breaks, request, view, socket, rendered,
                  complete, exited, disposed, retryVars, shown>>
  BY ReceiveDataStep
<1>3. received' \in [Conns -> MaybeOffset]
  BY ReceiveDataStep DEF Inv, TypeOK, MaybeOffset
<1>4. writes' \in Seq(Writes)
  <2> DEFINE w == [conn |-> c, from |-> Head(down[c]).from, to |-> Head(down[c]).to]
  <2>1. w \in Writes
    BY ReceiveDataStep DEF Writes
  <2>2. writes' = writes \/ writes' = Append(writes, w)
    BY ReceiveDataStep
  <2>3. writes \in Seq(Writes)
    BY DEF Inv, TypeOK, Writes
  <2> HIDE DEF w
  <2>4. QED
    BY <2>1, <2>2, <2>3
<1>q. QED
  BY <1>r, <1>1, <1>2, <1>3, <1>4 DEF Inv, TypeOK, LinkStates, Writes, wrapperVars,
     netVars, viewVars, retryVars, screenVars

\* The end message keeps the types.
LEMMA ReceiveEndType ==
    ASSUME Inv, NEW c \in Conns, ReceiveEnd(c)
    PROVE  TypeOK'
<1>r. Cardinality(Registered)' <= MaxAttachments
  <2>1. clients' = clients
    BY DEF ReceiveEnd, wrapperVars
  <2>2. QED
    BY <2>1, RegisteredSame DEF Inv
<1>1. down' \in [Conns -> Seq(Messages)]
  BY DownTail DEF Inv, ReceiveEnd
<1>2. complete' \in BOOLEAN
  BY DEF ReceiveEnd, Inv, TypeOK
<1>q. QED
  BY <1>r, <1>1, <1>2 DEF Inv, TypeOK, ReceiveEnd, wrapperVars, netVars, viewVars,
     retryVars, screenVars

\* A rendered write keeps the types.
LEMMA RenderType ==
    ASSUME Inv, Render
    PROVE  TypeOK'
<1>r. Cardinality(Registered)' <= MaxAttachments
  <2>1. clients' = clients
    BY DEF Render, wrapperVars
  <2>2. QED
    BY <2>1, RegisteredSame DEF Inv
<1>1. UNCHANGED <<wrapperVars, link, down, breaks, request, view, socket, received,
                  complete, exited, disposed, retryVars>>
  BY RenderStep
<1>2. writes' \in Seq(Writes)
  BY RenderStep
<1>3. rendered' \in MaybeOffset
  BY RenderStep DEF Inv, TypeOK, MaybeOffset
<1>4. up' \in [Conns -> Seq(0..Total)]
  <2> DEFINE d == writes[1].conn
             n == writes[1].to
  <2>1. up \in [Conns -> Seq(0..Total)] /\ d \in Conns /\ n \in 0..Total
    BY RenderStep DEF Inv, TypeOK
  <2>2. up' = up \/ up' = [up EXCEPT ![d] = Append(up[d], n)]
    BY RenderStep
  <2> HIDE DEF d, n
  <2>3. Append(up[d], n) \in Seq(0..Total)
    BY <2>1
  <2>4. QED
    BY <2>1, <2>2, <2>3
<1>5. shown' \in Seq((1..Invocations) \X (0..Total))
  <2> DEFINE w == writes[1]
             P == (1..Invocations) \X (0..Total)
             j == request[w.conn].invocation
  <2>1. /\ w.conn \in Conns /\ ~Fresh(w.conn)
        /\ w.from \in 0..Total /\ w.to \in 0..Total /\ w.from < w.to
        /\ shown' = shown \o Bytes(w)
    BY RenderStep
  <2>2. j \in 1..Invocations
    <3>1. j \in 0..Invocations /\ 0 < j
      BY <2>1, ConnTypes DEF Inv, ViewInv, ConnectionInv, Fresh
    <3>2. QED
      BY <3>1, Bounds
  <2>3. Bytes(w) = [i \in 1..(w.to - w.from) |-> <<j, w.from + i - 1>>]
    BY DEF Bytes
  <2> HIDE DEF w, j
  <2>4. \A i \in 1..(w.to - w.from) : <<j, w.from + i - 1>> \in P
    BY <2>1, <2>2, Bounds
  <2>5. Bytes(w) \in [1..(w.to - w.from) -> P] /\ w.to - w.from \in Nat
    BY <2>1, <2>3, <2>4, Bounds
  <2>6. Bytes(w) \in Seq(P)
    BY <2>5
  <2>7. shown \in Seq(P)
    BY DEF Inv, TypeOK
  <2> HIDE DEF P
  <2>8. shown \o Bytes(w) \in Seq(P)
    BY <2>6, <2>7
  <2>9. QED
    BY <2>1, <2>8 DEF P
<1>q. QED
  BY <1>r, <1>1, <1>2, <1>3, <1>4, <1>5 DEF Inv, TypeOK, Writes, wrapperVars, netVars,
     viewVars, retryVars, screenVars

\* A close event keeps the types.
LEMMA CloseEventType ==
    ASSUME Inv, NEW c \in Conns, CloseEvent(c)
    PROVE  TypeOK'
<1>r. Cardinality(Registered)' <= MaxAttachments
  <2>1. clients' = clients
    BY DEF CloseEvent, wrapperVars
  <2>2. QED
    BY <2>1, RegisteredSame DEF Inv
<1>q. QED
  BY <1>r DEF Inv, TypeOK, CloseEvent, wrapperVars, netVars, viewVars, retryVars,
     screenVars

\* A close handler that resumes keeps the types.
LEMMA ResumeType ==
    ASSUME Inv, NEW c \in Conns, Resume(c)
    PROVE  TypeOK'
<1>r. Cardinality(Registered)' <= MaxAttachments
  <2>1. clients' = clients
    BY DEF Resume, wrapperVars
  <2>2. QED
    BY <2>1, RegisteredSame DEF Inv
<1>1. timers' \subseteq Conns /\ retryTimer' \in Conns \cup {None} /\ awaiting' \subseteq Conns
  <2>1. /\ awaiting' = awaiting \ {c}
        /\ \/ timers' = timers /\ retryTimer' = retryTimer
           \/ timers' = timers \cup {c} /\ retryTimer' = c
    BY DEF Resume
  <2>2. awaiting \subseteq Conns /\ timers \subseteq Conns /\ retryTimer \in Conns \cup {None}
    BY DEF Inv, TypeOK
  <2>3. QED
    BY <2>1, <2>2
<1>2. UNCHANGED <<wrapperVars, netVars, viewVars, poll, screenVars>>
  BY DEF Resume
<1>q. QED
  BY <1>r, <1>1, <1>2 DEF Inv, TypeOK, wrapperVars, netVars, viewVars, retryVars,
     screenVars

\* A retry opens a connection from the byte rendered last, or does nothing.
LEMMA RetryStep ==
    ASSUME Inv, NEW c \in Conns, Retry(c)
    PROVE  /\ UNCHANGED <<wrapperVars, down, up, breaks, view, rendered, received, complete,
                          exited, disposed, poll, awaiting, retryTimer, screenVars>>
           /\ c \in timers /\ timers' = timers \ {c}
           /\ \/ UNCHANGED <<link, request, socket>>
              \/ /\ ~disposed /\ ~exited /\ ~complete
                 /\ \E n \in Conns :
                       /\ link[n] = "unused"
                       /\ link' = [link EXCEPT ![n] = "connecting"]
                       /\ request' = [request EXCEPT ![n] =
                                         [invocation |-> view, cursor |-> rendered]]
                       /\ socket' = n
                       /\ link' \in [Conns -> LinkStates]
                       /\ request' \in [Conns -> [invocation : 0..Invocations,
                                                   cursor : MaybeOffset]]
<1>1. /\ UNCHANGED <<wrapperVars, down, up, breaks, view, rendered, received, complete,
                     exited, disposed, poll, awaiting, retryTimer, screenVars>>
      /\ c \in timers /\ timers' = timers \ {c}
      /\ \/ UNCHANGED <<link, request, socket>>
         \/ /\ ~disposed /\ ~exited /\ ~complete
            /\ OpenConnection(link, view, rendered)
  BY DEF Retry
<1>2. link \in [Conns -> LinkStates] /\ view \in 0..Invocations /\ rendered \in MaybeOffset
  BY DEF Inv, TypeOK, LinkStates
<1>3. QED
  BY <1>1, <1>2, OpenStep DEF Inv

\* A retry keeps the types.
LEMMA RetryType ==
    ASSUME Inv, NEW c \in Conns, Retry(c)
    PROVE  TypeOK'
<1>r. Cardinality(Registered)' <= MaxAttachments
  <2>1. clients' = clients
    BY DEF Retry, wrapperVars
  <2>2. QED
    BY <2>1, RegisteredSame DEF Inv
<1>1. UNCHANGED <<wrapperVars, down, up, breaks, view, rendered, received, complete,
                  exited, disposed, poll, awaiting, retryTimer, screenVars>>
  BY RetryStep
<1>2. /\ link' \in [Conns -> LinkStates]
      /\ request' \in [Conns -> [invocation : 0..Invocations, cursor : MaybeOffset]]
      /\ socket' \in Conns \cup {None}
  BY RetryStep DEF Inv, TypeOK, LinkStates
<1>3. timers' \subseteq Conns
  BY RetryStep DEF Inv, TypeOK
<1>q. QED
  BY <1>r, <1>1, <1>2, <1>3 DEF Inv, TypeOK, LinkStates, wrapperVars, netVars, viewVars,
     retryVars, screenVars

\* The answer to a status request keeps the types.
LEMMA PollAnsweredType ==
    ASSUME Inv, PollAnswered
    PROVE  TypeOK'
<1>r. Cardinality(Registered)' <= MaxAttachments
  <2>1. clients' = clients
    BY DEF PollAnswered, wrapperVars
  <2>2. QED
    BY <2>1, RegisteredSame DEF Inv
<1>1. poll' \in [invocation : 0..Invocations, state : {"stopped", "running", "other"}] \cup {None}
  BY DEF PollAnswered, StatusIn, Inv, TypeOK
<1>q. QED
  BY <1>r, <1>1 DEF Inv, TypeOK, PollAnswered, wrapperVars, netVars, viewVars, retryVars,
     screenVars

\* What HandlePoll does when the view is still there.
LEMMA HandlePollStep ==
    ASSUME Inv, HandlePoll
    PROVE  /\ UNCHANGED <<wrapperVars, up, breaks, received, disposed, awaiting, retryTimer, writes>>
           /\ poll # None /\ poll' = None
           /\ poll.invocation \in 0..Invocations
           /\ \/ disposed /\ UNCHANGED <<netVars, viewVars, timers, shown>>
              \/ /\ ~disposed
                 /\ view' = poll.invocation
                 /\ rendered' = IF NewInvocation THEN None ELSE rendered
                 /\ complete' = IF NewInvocation THEN FALSE ELSE complete
                 /\ exited' \in BOOLEAN
                 /\ shown' = IF NewInvocation /\ view # 0 THEN <<>> ELSE shown
                 /\ timers' \subseteq timers
                 /\ ~NewInvocation => timers' = timers
                 /\ \A d \in Conns : down'[d] = IF NewInvocation /\ d = socket THEN <<>> ELSE down[d]
                 /\ down' \in [Conns -> Seq(Messages)]
                 /\ link' \in [Conns -> LinkStates]
                 /\ request' \in [Conns -> [invocation : 0..Invocations, cursor : MaybeOffset]]
                 /\ \/ /\ \A d \in Conns : link'[d] =
                             IF NewInvocation /\ d = socket /\ link[d] \in {"connecting", "open"}
                             THEN "closing" ELSE link[d]
                       /\ socket' = IF NewInvocation THEN None ELSE socket
                       /\ request' = request
                    \/ /\ poll.state = "running"
                       /\ ~NewInvocation => socket = None
                       /\ \E n \in Conns :
                             /\ link[n] = "unused" /\ socket' = n
                             /\ \A d \in Conns : link'[d] =
                                   IF d = n THEN "connecting"
                                   ELSE IF NewInvocation /\ d = socket
                                           /\ link[d] \in {"connecting", "open"}
                                   THEN "closing" ELSE link[d]
                             /\ request' = [request EXCEPT ![n] =
                                   [invocation |-> poll.invocation,
                                    cursor |-> IF NewInvocation THEN None ELSE rendered]]
<1>1. /\ UNCHANGED <<wrapperVars, awaiting, retryTimer, writes>>
      /\ poll # None /\ poll' = None
  BY DEF HandlePoll
<1>2. poll \in [invocation : 0..Invocations, state : {"stopped", "running", "other"}]
  BY <1>1 DEF Inv, TypeOK
<1>3. poll.invocation \in 0..Invocations
  BY <1>2
<1>4. CASE disposed
  <2>1. UNCHANGED <<netVars, viewVars, timers, shown>>
    BY <1>4 DEF HandlePoll
  <2>2. QED
    BY <1>1, <1>3, <1>4, <2>1 DEF netVars, viewVars
<1>5. CASE ~disposed
  <2> DEFINE links == IF NewInvocation THEN Closed(link, socket) ELSE link
             k == IF NewInvocation THEN None ELSE rendered
  <2>1. PollView /\ PollConnects /\ UNCHANGED <<up, breaks, received, disposed>>
    BY <1>5 DEF HandlePoll
  <2>2. /\ view' = poll.invocation
        /\ rendered' = IF NewInvocation THEN None ELSE rendered
        /\ complete' = IF NewInvocation THEN FALSE ELSE complete
        /\ shown' = IF NewInvocation /\ view # 0 THEN <<>> ELSE shown
        /\ timers' \subseteq timers
        /\ ~NewInvocation => timers' = timers
    BY <2>1 DEF PollView, CompleteKept, RetryKept
  <2>3. exited' \in BOOLEAN
    <3>1. exited \in BOOLEAN
      BY DEF Inv, TypeOK
    <3>2. exited' = (poll.invocation # 0) \/ exited' = FALSE \/ exited' = exited
      BY <2>1 DEF PollView
    <3>3. QED
      BY <3>1, <3>2
  <2>4. link \in [Conns -> LinkStates] /\ socket \in Conns \cup {None} /\ k \in MaybeOffset
        /\ down \in [Conns -> Seq(Messages)]
    BY DEF Inv, TypeOK, LinkStates, MaybeOffset
  <2>5. /\ \A d \in Conns : Closed(link, socket)[d] =
              IF d = socket /\ link[d] \in {"connecting", "open"} THEN "closing" ELSE link[d]
        /\ \A d \in Conns : Dropped(socket)[d] = IF d = socket THEN <<>> ELSE down[d]
        /\ Dropped(socket) \in [Conns -> Seq(Messages)]
        /\ Closed(link, socket) \in [Conns -> LinkStates]
    BY <2>4, ClosedStep DEF Inv
  <2>6. /\ \A d \in Conns : links[d] =
              IF NewInvocation /\ d = socket /\ link[d] \in {"connecting", "open"}
              THEN "closing" ELSE link[d]
        /\ links \in [Conns -> LinkStates]
    BY <2>4, <2>5
  <2>7. /\ \A d \in Conns : down'[d] = IF NewInvocation /\ d = socket THEN <<>> ELSE down[d]
        /\ down' \in [Conns -> Seq(Messages)]
    BY <2>1, <2>4, <2>5 DEF PollConnects
  <2>8. \/ /\ link' = links
           /\ socket' = IF NewInvocation THEN None ELSE socket
           /\ request' = request
        \/ /\ poll.state = "running"
           /\ ~NewInvocation => socket = None
           /\ OpenConnection(links, poll.invocation, k)
    BY <2>1 DEF PollConnects
  <2> HIDE DEF links, k
  <2>9. CASE OpenConnection(links, poll.invocation, k) /\ poll.state = "running"
             /\ (~NewInvocation => socket = None)
    <3>1. PICK n \in Conns :
              /\ link[n] = "unused"
              /\ link' = [links EXCEPT ![n] = "connecting"]
              /\ request' = [request EXCEPT ![n] = [invocation |-> poll.invocation, cursor |-> k]]
              /\ socket' = n
              /\ link' \in [Conns -> LinkStates]
              /\ request' \in [Conns -> [invocation : 0..Invocations, cursor : MaybeOffset]]
      BY <2>4, <2>6, <2>9, <1>3, OpenStep DEF Inv
    <3>2. \A d \in Conns : link'[d] = IF d = n THEN "connecting" ELSE links[d]
      BY <3>1, <2>6
    <3>3. \A d \in Conns : link'[d] =
                                   IF d = n THEN "connecting"
                                   ELSE IF NewInvocation /\ d = socket
                                           /\ link[d] \in {"connecting", "open"}
                                   THEN "closing" ELSE link[d]
      BY <3>2, <2>6
    <3>4. k = IF NewInvocation THEN None ELSE rendered
      BY DEF k
    <3>5. QED
      BY <1>1, <1>3, <1>5, <2>1, <2>2, <2>3, <2>7, <2>9, <3>1, <3>3, <3>4
  <2>10. CASE /\ link' = links
              /\ socket' = IF NewInvocation THEN None ELSE socket
              /\ request' = request
    <3>1. request' \in [Conns -> [invocation : 0..Invocations, cursor : MaybeOffset]]
      BY <2>10 DEF Inv, TypeOK
    <3>2. QED
      BY <1>1, <1>3, <1>5, <2>1, <2>2, <2>3, <2>6, <2>7, <2>10, <3>1
  <2>11. QED
    BY <2>8, <2>9, <2>10
<1>6. QED
  BY <1>4, <1>5

\* A status answer keeps the types.
LEMMA HandlePollType ==
    ASSUME Inv, HandlePoll
    PROVE  TypeOK'
<1>r. Cardinality(Registered)' <= MaxAttachments
  <2>1. clients' = clients
    BY DEF HandlePoll, wrapperVars
  <2>2. QED
    BY <2>1, RegisteredSame DEF Inv
<1>1. UNCHANGED <<wrapperVars, up, breaks, received, disposed, awaiting, retryTimer, writes>>
      /\ poll' = None
  BY HandlePollStep
<1>2. CASE disposed
  <2>1. UNCHANGED <<netVars, viewVars, timers, shown>>
    BY <1>2 DEF HandlePoll
  <2>2. QED
    BY <1>r, <1>1, <2>1 DEF Inv, TypeOK, wrapperVars, netVars, viewVars
<1>3. CASE ~disposed
  <2>1. /\ view' \in 0..Invocations
        /\ rendered' \in MaybeOffset
        /\ complete' \in BOOLEAN /\ exited' \in BOOLEAN
        /\ timers' \subseteq Conns
        /\ down' \in [Conns -> Seq(Messages)]
        /\ link' \in [Conns -> LinkStates]
        /\ request' \in [Conns -> [invocation : 0..Invocations, cursor : MaybeOffset]]
    BY <1>3, HandlePollStep DEF Inv, TypeOK, MaybeOffset
  <2>2. socket' \in Conns \cup {None}
    BY <1>3, HandlePollStep DEF Inv, TypeOK
  <2>3. shown' \in Seq((1..Invocations) \X (0..Total))
    <3>1. shown' = <<>> \/ shown' = shown
      BY <1>3, HandlePollStep
    <3>2. shown \in Seq((1..Invocations) \X (0..Total))
      BY DEF Inv, TypeOK
    <3>3. <<>> \in Seq((1..Invocations) \X (0..Total))
      BY EmptySeq
    <3>4. QED
      BY <3>1, <3>2, <3>3
  <2>4. QED
    BY <1>r, <1>1, <2>1, <2>2, <2>3 DEF Inv, TypeOK, LinkStates, wrapperVars
<1>q. QED
  BY <1>2, <1>3 DEF Inv, TypeOK, LinkStates, wrapperVars, netVars, viewVars, retryVars,
     screenVars

\* A disposed view keeps the types.
LEMMA DisposeType ==
    ASSUME Inv, Dispose
    PROVE  TypeOK'
<1>r. Cardinality(Registered)' <= MaxAttachments
  <2>1. clients' = clients
    BY DEF Dispose, wrapperVars
  <2>2. QED
    BY <2>1, RegisteredSame DEF Inv
<1>1. link' \in [Conns -> LinkStates] /\ down' \in [Conns -> Seq(Messages)]
  <2>1. link \in [Conns -> LinkStates] /\ socket \in Conns \cup {None}
    BY DEF Inv, TypeOK, LinkStates
  <2>2. link' = Closed(link, socket) /\ down' = Dropped(socket)
    BY DEF Dispose
  <2>3. QED
    BY <2>1, <2>2, ClosedStep DEF Inv
<1>2. writes' \in Seq(Writes)
  BY DEF Dispose
<1>q. QED
  BY <1>r, <1>1, <1>2 DEF Inv, TypeOK, LinkStates, Writes, Dispose, wrapperVars, netVars,
     viewVars, retryVars, screenVars

-----------------------------------------------------------------------------
\* The steps of the browser and of the network leave the wrapper as it is; what
\* they may do to a connection leaves its attachment well.
Keeps(c) ==
    /\ link'[c] = "open" => link[c] = "open"
    /\ link[c] \in {"open", "closing", "closed"} =>
          link'[c] \in {"open", "closing", "closed"} /\ request'[c] = request[c]

\* A step that leaves the wrapper alone, and the open connections, keeps
\* WrapperInv.
LEMMA WrapperKept ==
    ASSUME Inv, UNCHANGED wrapperVars, \A c \in Conns : Keeps(c)
    PROVE  WrapperInv'
<1>1. ASSUME NEW c \in Conns PROVE AttachmentInv(c)'
  <2>1. AttachmentInv(c) /\ Keeps(c)
    BY <1>1 DEF Inv, WrapperInv
  <2>2. QED
    BY <2>1 DEF AttachmentInv, Keeps, wrapperVars
<1>2. QED
  BY <1>1 DEF WrapperInv, Inv, wrapperVars

\* A new sender has its replay ahead.
LEMMA NewSenderFields ==
    ASSUME NEW n
    PROVE  NewSender(n).hand = n /\ NewSender(n).replay = produced
BY DEF NewSender

\* An empty queue is well.
LEMMA QueueEmpty ==
    ASSUME NEW s, NEW n
    PROVE  QueueOK(<<>>, s, n)
BY DEF QueueOK

\* Output reaches the queues of active attachments in order.
LEMMA OutputWrapper ==
    ASSUME Inv, NEW n \in Chunks, Output(n)
    PROVE  WrapperInv'
<1>1. ASSUME NEW c \in Conns PROVE AttachmentInv(c)'
  <2>1. /\ produced \in 0..Total /\ produced' \in 0..Total /\ produced < produced'
        /\ Total \in Nat /\ produced \in Nat /\ produced' \in Nat
    <3>1. /\ n \in Nat \ {0} /\ produced' = produced + n /\ produced' \in 0..Total
          /\ produced \in 0..Total /\ Total \in Nat
      BY OutputStep, Bounds DEF Inv, TypeOK
    <3>2. QED
      BY <3>1
  <2>2. sender' = sender /\ sender[c] \in Senders /\ queue[c] \in Seq(Messages)
    BY OutputStep, ConnTypes DEF Inv
  <2>3. AttachmentInv(c)
    BY DEF Inv, WrapperInv
  <2>4. /\ stage' = stage /\ request' = request /\ link' = link /\ current' = current
        /\ stage = "running"
        /\ clients'[c] = "none" <=> clients[c] = "none"
        /\ \/ queue'[c] = queue[c]
           \/ clients[c] = "active" /\ queue'[c] = Append(queue[c], Frame(produced, produced'))
    BY OutputStep DEF netVars
  <2>5. CASE clients[c] = "none"
    BY <2>3, <2>4, <2>5 DEF AttachmentInv
  <2>6. CASE clients[c] # "none"
    <3>1. SenderOK(sender[c], produced) /\ QueueOK(queue[c], sender[c], produced)
      BY <2>3, <2>6 DEF AttachmentInv
    <3>2. SenderOK(sender[c], produced')
      BY <2>1, <2>2, <3>1, SenderWeaken
    <3>3. QueueOK(queue[c], sender[c], produced')
      BY <2>1, <2>2, <3>1, QueueWeaken
    <3>4. QueueOK(Append(queue[c], Frame(produced, produced')), sender[c], produced')
      BY <2>1, <2>2, <3>1, QueueAppend DEF SenderOK
    <3>5. QueueOK(queue'[c], sender'[c], produced')
      BY <2>2, <2>4, <3>3, <3>4
    <3>6. QED
      BY <2>2, <2>3, <2>4, <2>6, <3>2, <3>5 DEF AttachmentInv
  <2>7. QED
    BY <2>5, <2>6
<1>2. QED
  BY <1>1, OutputStep DEF WrapperInv, Inv

\* Closing the queues, and the service, takes nothing from the attachments.
LEMMA StageWrapper ==
    ASSUME Inv, Finish \/ Drain
    PROVE  WrapperInv'
<1>1. ASSUME NEW c \in Conns PROVE AttachmentInv(c)'
  <2>1. AttachmentInv(c) /\ clients \in [Conns -> {"none", "active", "inactive"}]
    BY DEF Inv, WrapperInv, TypeOK
  <2>2. /\ UNCHANGED <<current, produced, queue, sender, link, request>>
        /\ stage' \in Serving
        /\ clients'[c] = "none" <=> clients[c] = "none"
    BY <2>1 DEF Finish, Drain, QueuesClosed, Serving, netVars
  <2>3. QED
    BY <2>1, <2>2 DEF AttachmentInv
<1>2. QED
  BY <1>1 DEF WrapperInv, Inv, Finish, Drain

\* Without a wrapper there are no attachments; a new invocation starts without
\* any.
LEMMA EndWrapper ==
    ASSUME Inv, WrapperExits \/ Launch \/ Launched
    PROVE  WrapperInv'
<1>1. ASSUME NEW c \in Conns PROVE AttachmentInv(c)'
  <2>1. AttachmentInv(c) /\ link \in [Conns -> LinkStates]
    BY DEF Inv, WrapperInv, TypeOK, LinkStates
  <2>2. clients'[c] = "none" /\ queue'[c] = <<>>
    BY <2>1 DEF AttachmentInv, Serving, WrapperExits, Launch, Launched
  <2>3. link'[c] # "open"
    BY <2>1, <2>2 DEF AttachmentInv, Serving, WrapperExits, Launch, Launched, netVars
  <2>4. QED
    BY <2>2, <2>3 DEF AttachmentInv
<1>2. stage' # "off" => 0 < current'
  <2>1. current \in Nat /\ (stage # "off" => 0 < current)
    BY Bounds DEF Inv, TypeOK, WrapperInv
  <2>2. QED
    BY <2>1 DEF WrapperExits, Launch, Launched
<1>3. QED
  BY <1>1, <1>2 DEF WrapperInv

\* A new attachment replays what was produced before it and queues what comes
\* after.
LEMMA AttachWrapper ==
    ASSUME Inv, NEW c \in Conns, Attach(c)
    PROVE  WrapperInv'
<1>0. PICK start \in 0..produced, gap \in BOOLEAN : Attached(c, start, gap)
  BY AttachStep
<1>1. /\ request[c].invocation = current
      /\ stage \in {"running", "finished"}
      /\ queue[c] = <<>>
      /\ sender' = [sender EXCEPT ![c] = NewSender(start)]
      /\ SenderOK(NewSender(start), produced)
      /\ clients' = [clients EXCEPT ![c] = IF stage = "running" THEN "active" ELSE "inactive"]
      /\ link' = [link EXCEPT ![c] = "open"]
      /\ UNCHANGED <<current, stage, produced, queue, up, breaks, request, viewVars,
                     retryVars, screenVars>>
  BY <1>0 DEF Attached
<1>2. /\ clients \in [Conns -> {"none", "active", "inactive"}]
      /\ link \in [Conns -> LinkStates] /\ sender \in [Conns -> Senders]
  BY DEF Inv, TypeOK, LinkStates, Senders
<1>3. ASSUME NEW d \in Conns PROVE AttachmentInv(d)'
  <2>1. CASE d = c
    <3>1. sender'[c] = NewSender(start) /\ clients'[c] # "none" /\ link'[c] = "open"
      BY <1>1, <1>2
    <3>2. QueueOK(queue'[c], sender'[c], produced)
      BY <1>1, QueueEmpty
    <3>3. QED
      BY <2>1, <1>1, <3>1, <3>2 DEF AttachmentInv, Serving
  <2>2. CASE d # c
    <3>1. /\ sender'[d] = sender[d] /\ clients'[d] = clients[d] /\ link'[d] = link[d]
      BY <1>1, <1>2, <2>2
    <3>2. AttachmentInv(d)
      BY DEF Inv, WrapperInv
    <3>3. QED
      BY <1>1, <3>1, <3>2 DEF AttachmentInv
  <2>3. QED
    BY <2>1, <2>2
<1>4. QED
  BY <1>1, <1>3 DEF WrapperInv, Inv

\* A refused connection gets no attachment.
LEMMA RefuseWrapper ==
    ASSUME Inv, NEW c \in Conns, Refuse(c)
    PROVE  WrapperInv'
<1>1. UNCHANGED wrapperVars /\ UNCHANGED request /\ link[c] = "connecting"
      /\ link' = [link EXCEPT ![c] = "closing"] /\ link \in [Conns -> LinkStates]
  BY DEF Refuse, Inv, TypeOK, LinkStates
<1>2. QED
  BY <1>1, WrapperKept DEF Keeps

\* sendOutput keeps replay and queue in order, a frame held back included.
LEMMA SendWrapper ==
    ASSUME Inv, NEW c \in Conns, Sends(c)
    PROVE  WrapperInv'
<1>1. /\ UNCHANGED <<current, stage, produced, clients, link, request>>
      /\ queue' = [queue EXCEPT ![c] = queue'[c]]
      /\ QueueOK(queue'[c], sender'[c], produced)
      /\ sender' = [sender EXCEPT ![c] = sender'[c]]
      /\ SenderOK(sender'[c], produced)
      /\ clients[c] # "none"
  BY SendStep
<1>2. queue \in [Conns -> Seq(Messages)] /\ sender \in [Conns -> Senders]
  BY DEF Inv, TypeOK, Senders
<1>3. ASSUME NEW d \in Conns PROVE AttachmentInv(d)'
  <2>1. AttachmentInv(d)
    BY DEF Inv, WrapperInv
  <2>2. CASE d = c
    BY <1>1, <2>1, <2>2 DEF AttachmentInv
  <2>3. CASE d # c
    <3>1. queue'[d] = queue[d] /\ sender'[d] = sender[d]
      BY <1>1, <1>2, <2>3
    <3>2. QED
      BY <1>1, <2>1, <3>1 DEF AttachmentInv
  <2>4. QED
    BY <2>2, <2>3
<1>4. QED
  BY <1>1, <1>3 DEF WrapperInv, Inv

\* An acknowledgment leaves acked <= sent: AckValid is checked before it counts.
LEMMA ReadAckWrapper ==
    ASSUME Inv, NEW c \in Conns, ReadAck(c)
    PROVE  WrapperInv'
<1>1. /\ UNCHANGED <<current, stage, produced, clients, queue, request>>
      /\ link[c] = "open" /\ clients[c] # "none" /\ up[c] # <<>>
      /\ sender'[c] \in Senders
      /\ sender' = [sender EXCEPT ![c] = sender'[c]]
      /\ \/ /\ AckValid(c, Head(up[c])) /\ link' = link
            /\ sender'[c].acked = Head(up[c])
            /\ sender'[c].sent = sender[c].sent /\ sender'[c].hand = sender[c].hand
            /\ sender'[c].replay = sender[c].replay
         \/ /\ link' = [link EXCEPT ![c] = "closing"] /\ sender' = sender
  BY ReadAckStep
<1>2. /\ queue \in [Conns -> Seq(Messages)] /\ sender \in [Conns -> Senders]
      /\ link \in [Conns -> LinkStates] /\ produced \in 0..Total /\ Total \in Nat
      /\ queue[c] \in Seq(Messages) /\ sender[c] \in Senders
  BY Bounds DEF Inv, TypeOK, Senders, LinkStates
<1>3. AttachmentInv(c)
  BY DEF Inv, WrapperInv
<1>4. SenderOK(sender'[c], produced) /\ QueueOK(queue[c], sender'[c], produced)
  <2>1. SenderOK(sender[c], produced) /\ QueueOK(queue[c], sender[c], produced)
    BY <1>1, <1>3 DEF AttachmentInv
  <2>2. CASE sender' = sender
    BY <2>1, <2>2
  <2>3. CASE /\ AckValid(c, Head(up[c])) /\ sender'[c].acked = Head(up[c])
             /\ sender'[c].sent = sender[c].sent /\ sender'[c].hand = sender[c].hand
             /\ sender'[c].replay = sender[c].replay
    <3>1. /\ sender[c].acked \in Nat /\ sender[c].sent \in Nat /\ sender'[c].acked \in Nat
          /\ Window \in Nat
      BY <1>1, <1>2, SenderFields, Bounds
    <3>2. sender[c].acked <= sender'[c].acked /\ sender'[c].acked <= sender[c].sent
      BY <2>3 DEF AckValid
    <3>3. SenderOK(sender'[c], produced)
      BY <2>1, <2>3, <3>1, <3>2 DEF SenderOK
    <3>4. produced <= produced
      BY <1>2
    <3>5. QueueOK(queue[c], sender'[c], produced)
      BY <1>1, <1>2, <2>1, <2>3, <3>4, QueueWeaken
    <3>6. QED
      BY <3>3, <3>5
  <2>4. QED
    BY <1>1, <2>2, <2>3
<1>5. ASSUME NEW d \in Conns PROVE AttachmentInv(d)'
  <2>1. AttachmentInv(d)
    BY DEF Inv, WrapperInv
  <2>2. CASE d = c
    BY <1>1, <1>2, <1>4, <2>1, <2>2 DEF AttachmentInv
  <2>3. CASE d # c
    <3>1. link'[d] = link[d] /\ sender'[d] = sender[d]
      BY <1>1, <1>2, <2>3
    <3>2. QED
      BY <1>1, <2>1, <3>1 DEF AttachmentInv
  <2>4. QED
    BY <2>2, <2>3
<1>6. QED
  BY <1>1, <1>5 DEF WrapperInv, Inv

\* The end of sendOutput leaves its attachment to the detach.
LEMMA SendEndWrapper ==
    ASSUME Inv, NEW c \in Conns, SendEnd(c)
    PROVE  WrapperInv'
<1>1. UNCHANGED wrapperVars /\ UNCHANGED request /\ link[c] = "open"
      /\ link' = [link EXCEPT ![c] = "closing"] /\ link \in [Conns -> LinkStates]
  BY SendEndStep DEF Inv, TypeOK, LinkStates
<1>2. QED
  BY <1>1, WrapperKept DEF Keeps

\* A detached connection has no queue, and can no longer be open.
LEMMA DetachWrapper ==
    ASSUME Inv, NEW c \in Conns, Detach(c)
    PROVE  WrapperInv'
<1>1. /\ UNCHANGED <<current, stage, produced, sender, link, request>>
      /\ link[c] \in {"closing", "closed"}
      /\ clients' = [clients EXCEPT ![c] = "none"] /\ queue' = [queue EXCEPT ![c] = <<>>]
  BY DEF Detach, netVars
<1>2. /\ clients \in [Conns -> {"none", "active", "inactive"}]
      /\ queue \in [Conns -> Seq(Messages)]
  BY DEF Inv, TypeOK
<1>3. ASSUME NEW d \in Conns PROVE AttachmentInv(d)'
  <2>1. AttachmentInv(d)
    BY DEF Inv, WrapperInv
  <2>2. QED
    BY <1>1, <1>2, <2>1 DEF AttachmentInv
<1>4. QED
  BY <1>1, <1>3 DEF WrapperInv, Inv

\* A broken connection keeps its attachment until the detach.
LEMMA BreakWrapper ==
    ASSUME Inv, NEW c \in Conns, Break(c)
    PROVE  WrapperInv'
<1>1. UNCHANGED wrapperVars /\ UNCHANGED request /\ link[c] \in {"connecting", "open"}
      /\ link' = [link EXCEPT ![c] = "closing"] /\ link \in [Conns -> LinkStates]
  BY BreakStep DEF Inv, TypeOK, LinkStates
<1>2. QED
  BY <1>1, WrapperKept DEF Keeps

\* The browser's messages leave the wrapper alone.
LEMMA ReceiveWrapper ==
    ASSUME Inv, NEW c \in Conns, Receive(c)
    PROVE  WrapperInv'
<1>1. link \in [Conns -> LinkStates] /\ c \in Conns \cup {None}
  BY DEF Inv, TypeOK, LinkStates
<1>2. UNCHANGED wrapperVars /\ UNCHANGED request
  BY DEF Receive, ReceiveStale, ReceiveReplay, ReceiveData, ReceiveEnd
<1>3. link' = link \/ link' = Closed(link, c)
  BY DEF Receive, ReceiveStale, ReceiveReplay, ReceiveData, ReceiveEnd
<1>4. \A d \in Conns : Closed(link, c)[d] =
         IF d = c /\ link[d] \in {"connecting", "open"} THEN "closing" ELSE link[d]
  BY <1>1, ClosedStep DEF Inv
<1>5. QED
  BY <1>2, <1>3, <1>4, WrapperKept DEF Keeps

\* So do the view's reconnections: a new connection has no attachment yet.
LEMMA ViewWrapper ==
    ASSUME Inv, NEW c \in Conns, CloseEvent(c) \/ Resume(c) \/ Retry(c)
    PROVE  WrapperInv'
<1>1. link \in [Conns -> LinkStates] /\ request \in [Conns -> [invocation : 0..Invocations, cursor : MaybeOffset]]
  BY DEF Inv, TypeOK, LinkStates
<1>2. CASE CloseEvent(c)
  <2>1. UNCHANGED wrapperVars /\ UNCHANGED request
        /\ link[c] = "closing" /\ link' = [link EXCEPT ![c] = "closed"]
    BY <1>2 DEF CloseEvent
  <2>2. QED
    BY <1>1, <2>1, WrapperKept DEF Keeps
<1>3. CASE Resume(c)
  <2>1. UNCHANGED wrapperVars /\ UNCHANGED request /\ UNCHANGED link
    BY <1>3 DEF Resume, netVars
  <2>2. QED
    BY <2>1, WrapperKept DEF Keeps
<1>4. CASE Retry(c)
  <2>1. UNCHANGED wrapperVars
    BY <1>4, RetryStep
  <2>2. CASE UNCHANGED <<link, request, socket>>
    BY <2>1, <2>2, WrapperKept DEF Keeps
  <2>3. CASE \E n \in Conns :
                /\ link[n] = "unused"
                /\ link' = [link EXCEPT ![n] = "connecting"]
                /\ request' = [request EXCEPT ![n] = [invocation |-> view, cursor |-> rendered]]
    BY <1>1, <2>1, <2>3, WrapperKept DEF Keeps
  <2>4. QED
    BY <1>4, <2>2, <2>3, RetryStep
<1>5. QED
  BY <1>2, <1>3, <1>4

\* So do rendering, status answers and the end of the view.
LEMMA ScreenWrapper ==
    ASSUME Inv, Render \/ PollAnswered \/ HandlePoll \/ Dispose
    PROVE  WrapperInv'
<1>1. /\ link \in [Conns -> LinkStates] /\ socket \in Conns \cup {None}
      /\ request \in [Conns -> [invocation : 0..Invocations, cursor : MaybeOffset]]
  BY DEF Inv, TypeOK, LinkStates
<1>2. CASE Render \/ PollAnswered
  <2>1. UNCHANGED wrapperVars /\ UNCHANGED request /\ UNCHANGED link
    BY <1>2 DEF Render, PollAnswered, netVars
  <2>2. QED
    BY <2>1, WrapperKept DEF Keeps
<1>3. CASE Dispose
  <2>1. UNCHANGED wrapperVars /\ UNCHANGED request /\ link' = Closed(link, socket)
    BY <1>3 DEF Dispose
  <2>2. \A d \in Conns : Closed(link, socket)[d] =
           IF d = socket /\ link[d] \in {"connecting", "open"} THEN "closing" ELSE link[d]
    BY <1>1, ClosedStep DEF Inv
  <2>3. QED
    BY <2>1, <2>2, WrapperKept DEF Keeps
<1>4. CASE HandlePoll
  <2>1. UNCHANGED wrapperVars
    BY <1>4 DEF HandlePoll
  <2>2. ASSUME NEW d \in Conns PROVE Keeps(d)
    <3>1. CASE disposed
      <4>1. UNCHANGED <<link, request>>
        BY <1>4, <3>1, HandlePollStep DEF netVars
      <4>2. QED
        BY <4>1 DEF Keeps
    <3>2. CASE ~disposed
      <4>1. \/ /\ link'[d] = IF NewInvocation /\ d = socket /\ link[d] \in {"connecting", "open"}
                             THEN "closing" ELSE link[d]
               /\ request' = request
            \/ \E n \in Conns :
                  /\ link[n] = "unused"
                  /\ link'[d] = IF d = n THEN "connecting"
                                   ELSE IF NewInvocation /\ d = socket
                                           /\ link[d] \in {"connecting", "open"}
                                   THEN "closing" ELSE link[d]
                  /\ request' = [request EXCEPT ![n] =
                                   [invocation |-> poll.invocation,
                                    cursor |-> IF NewInvocation THEN None ELSE rendered]]
        BY <1>4, <3>2, HandlePollStep
      <4>2. QED
        BY <1>1, <4>1 DEF Keeps
    <3>3. QED
      BY <3>1, <3>2
  <2>3. QED
    BY <2>1, <2>2, WrapperKept
<1>5. QED
  BY <1>2, <1>3, <1>4

-----------------------------------------------------------------------------
\* The types of the view and of the network, and what ConnectionInv says of each
\* connection.
LEMMA ViewTypes ==
    ASSUME Inv
    PROVE  /\ None \notin Conns
           /\ link \in [Conns -> LinkStates]
           /\ received \in [Conns -> MaybeOffset]
           /\ down \in [Conns -> Seq(Messages)]
           /\ up \in [Conns -> Seq(0..Total)]
           /\ request \in [Conns -> [invocation : 0..Invocations, cursor : MaybeOffset]]
           /\ socket \in Conns \cup {None}
           /\ view \in Nat /\ current \in Nat
           /\ poll # None => poll.invocation \in Nat
           /\ \A c \in Conns : request[c].invocation \in Nat
           /\ \A c \in Conns : ConnectionInv(c)
           /\ writes \in Seq(Writes)
<1>1. None \notin Conns
  BY NoneIsNull, Bounds DEF Conns
<1>2. /\ link \in [Conns -> LinkStates]
      /\ received \in [Conns -> MaybeOffset]
      /\ down \in [Conns -> Seq(Messages)]
      /\ up \in [Conns -> Seq(0..Total)]
      /\ request \in [Conns -> [invocation : 0..Invocations, cursor : MaybeOffset]]
      /\ socket \in Conns \cup {None}
      /\ writes \in Seq(Writes)
  BY DEF Inv, TypeOK, LinkStates, Writes
<1>3. /\ view \in Nat /\ current \in Nat
      /\ poll # None => poll.invocation \in Nat
      /\ \A c \in Conns : request[c].invocation \in Nat
  BY Bounds DEF Inv, TypeOK
<1>4. \A c \in Conns : ConnectionInv(c)
  BY DEF Inv, ViewInv
<1>5. QED
  BY <1>1, <1>2, <1>3, <1>4

\* The wrapper's own steps only move current forward.
LEMMA WrapperView ==
    ASSUME Inv, \/ \E n \in Chunks : Output(n)
                \/ Finish \/ Drain \/ Launch \/ Launched
                \/ \E c \in Conns : Detach(c)
    PROVE  ViewInv'
<1>1. /\ UNCHANGED <<netVars, viewVars, retryVars, screenVars>>
      /\ current' = current \/ current' = current + 1
  BY DEF Output, Finish, Drain, Launch, Launched, Detach
<1>2. /\ view' <= current'
      /\ poll' # None =>
            /\ view' <= poll'.invocation
            /\ poll'.invocation <= current'
            /\ poll'.state = "running" => 0 < poll'.invocation
  <2>1. view \in Nat /\ current \in Nat /\ (poll # None => poll.invocation \in Nat)
    BY ViewTypes
  <2>2. view' = view /\ poll' = poll
    BY <1>1 DEF viewVars, retryVars
  <2>3. QED
    BY <1>1, <2>1, <2>2 DEF Inv, ViewInv
<1>3. ASSUME NEW c \in Conns PROVE ConnectionInv(c)'
  <2>1. ConnectionInv(c)
    BY ViewTypes
  <2>2. QED
    BY <1>1, <2>1 DEF ConnectionInv, Fresh, IsData, netVars, viewVars, retryVars,
       screenVars
<1>4. QED
  BY <1>1, <1>2, <1>3 DEF Inv, ViewInv, netVars, viewVars, retryVars, screenVars

\* A step of the network leaves the view and its status as they are.
LEMMA NetworkView ==
    ASSUME Inv, current' = current, UNCHANGED <<request, view, poll, socket>>,
           \A c \in Conns : ConnectionInv(c)',
           \A c \in Conns : link[c] # "unused" => link'[c] # "unused",
           \A i \in 1..Len(writes') : writes'[i].from < writes'[i].to
    PROVE  ViewInv'
<1>1. socket # None => link'[socket] # "unused"
  BY ViewTypes DEF Inv, ViewInv
<1>2. QED
  BY <1>1 DEF Inv, ViewInv

\* The end of the wrapper closes its connections; the view does not move.
LEMMA WrapperExitsView ==
    ASSUME Inv, WrapperExits
    PROVE  ViewInv'
<1>1. /\ UNCHANGED <<current, down, up, request, view, socket, received, poll, awaiting, timers, writes>>
      /\ \A c \in Conns : link'[c] = IF link[c] \in {"connecting", "open"} THEN "closing" ELSE link[c]
  BY DEF WrapperExits, viewVars, retryVars, screenVars
<1>2. ASSUME NEW c \in Conns PROVE ConnectionInv(c)'
  <2>1. ConnectionInv(c)
    BY ViewTypes
  <2>2. QED
    BY <1>1, <2>1 DEF ConnectionInv, Fresh, IsData
<1>3. QED
  BY <1>1, <1>2, NetworkView DEF Inv, ViewInv

\* The replay message is no frame.
LEMMA ReplayIsNoData ==
    ASSUME NEW n, NEW b, NEW i \in 1..Len(<<[type |-> "replay", offset |-> n, gap |-> b]>>)
    PROVE  ~IsData(<<[type |-> "replay", offset |-> n, gap |-> b]>>, i)
BY DEF IsData

\* An attachment opens a connection that was connecting, with its replay message.
LEMMA AttachView ==
    ASSUME Inv, NEW c \in Conns, Attach(c)
    PROVE  ViewInv'
<1>0. PICK start \in 0..produced, gap \in BOOLEAN : Attached(c, start, gap)
  BY AttachStep
<1>1. /\ link[c] = "connecting"
      /\ down' = [down EXCEPT ![c] = <<[type |-> "replay", offset |-> start, gap |-> gap]>>]
      /\ link' = [link EXCEPT ![c] = "open"]
      /\ UNCHANGED <<current, stage, produced, queue, up, breaks, request, viewVars,
                     retryVars, screenVars>>
  BY <1>0 DEF Attached
<1>2. ASSUME NEW d \in Conns PROVE ConnectionInv(d)'
  <2>1. /\ ConnectionInv(d)
        /\ UNCHANGED <<up, request, view, received, awaiting, timers, writes>>
    BY <1>1, ViewTypes DEF viewVars, retryVars, screenVars
  <2>2. CASE d = c
    <3>1. /\ link'[c] = "open"
          /\ down'[c] = <<[type |-> "replay", offset |-> start, gap |-> gap]>>
      BY <1>1, ViewTypes
    <3>2. \A i \in 1..Len(down'[c]) : ~IsData(down'[c], i)
      BY <3>1, ReplayIsNoData
    <3>3. QED
      BY <1>1, <2>1, <2>2, <3>1, <3>2 DEF ConnectionInv, Fresh
  <2>3. CASE d # c
    <3>1. link'[d] = link[d] /\ down'[d] = down[d]
      BY <1>1, <2>3, ViewTypes
    <3>2. QED
      BY <2>1, <3>1 DEF ConnectionInv, Fresh
  <2>4. QED
    BY <2>2, <2>3
<1>3. \A d \in Conns : link[d] # "unused" => link'[d] # "unused"
  BY <1>1, ViewTypes
<1>4. QED
  BY <1>1, <1>2, <1>3, NetworkView DEF Inv, ViewInv, viewVars, retryVars, screenVars

\* What may happen to the messages of a connection: they get fewer, and one more
\* may follow them, which, if it is a frame, is not empty.
LEMMA ConnectionKept ==
    ASSUME Inv, NEW c \in Conns,
           UNCHANGED <<request, view, received, awaiting, timers, writes>>,
           link'[c] = link[c] \/ (~Fresh(c) /\ link'[c] = "closing"),
           Fresh(c) => down'[c] = down[c] /\ up'[c] = up[c],
           link[c] = "closed" => down'[c] = <<>>,
           \A i \in 1..Len(down'[c]) : IsData(down'[c], i) => down'[c][i].from < down'[c][i].to
    PROVE  ConnectionInv(c)'
<1>1. ConnectionInv(c)
  BY ViewTypes
<1>2. QED
  BY <1>1 DEF ConnectionInv, Fresh

\* Frames stay non-empty when another follows.
LEMMA FramesAppend ==
    ASSUME NEW q \in Seq(Messages), NEW m \in Messages,
           \A i \in 1..Len(q) : IsData(q, i) => q[i].from < q[i].to,
           m.type = "data" => m.from < m.to
    PROVE  \A i \in 1..Len(Append(q, m)) :
              IsData(Append(q, m), i) => Append(q, m)[i].from < Append(q, m)[i].to
<1> DEFINE r == Append(q, m)
<1>1. /\ Len(q) \in Nat /\ Len(r) = Len(q) + 1
      /\ \A i \in 1..Len(q) : r[i] = q[i]
      /\ r[Len(q) + 1] = m
  OBVIOUS
<1> HIDE DEF r
<1>2. \A i \in 1..Len(r) : IsData(r, i) => r[i].from < r[i].to
  BY <1>1 DEF IsData
<1>3. QED
  BY <1>2 DEF r

\* A refusal closes a connection that carried nothing.
LEMMA RefuseView ==
    ASSUME Inv, NEW c \in Conns, Refuse(c)
    PROVE  ViewInv'
<1>1. /\ UNCHANGED <<current, down, up, request, view, socket, received, poll, awaiting, timers, writes>>
      /\ link[c] = "connecting" /\ link' = [link EXCEPT ![c] = "closing"]
  BY DEF Refuse, wrapperVars, viewVars, retryVars, screenVars
<1>2. ASSUME NEW d \in Conns PROVE ConnectionInv(d)'
  <2>1. ConnectionInv(d) /\ link'[d] = IF d = c THEN "closing" ELSE link[d]
    BY <1>1, ViewTypes
  <2>2. QED
    BY <1>1, <2>1 DEF ConnectionInv, Fresh
<1>3. \A d \in Conns : link[d] # "unused" => link'[d] # "unused"
  BY <1>1, ViewTypes
<1>4. QED
  BY <1>1, <1>2, <1>3, NetworkView DEF Inv, ViewInv

\* sendOutput sends non-empty frames on open connections only.
LEMMA SendView ==
    ASSUME Inv, NEW c \in Conns, Sends(c)
    PROVE  ViewInv'
<1>1. /\ UNCHANGED <<current, link, up, request, view, socket, received, poll, awaiting, timers, writes>>
      /\ link[c] = "open"
      /\ sender[c] \in Senders /\ sender'[c] \in Senders
      /\ \/ down' = down
         \/ /\ sender[c].sent < sender'[c].sent
            /\ down' = [down EXCEPT ![c] =
                           Append(down[c], Frame(sender[c].sent, sender'[c].sent))]
  BY SendStep, ConnTypes DEF viewVars, retryVars, screenVars, Inv
<1>2. ASSUME NEW d \in Conns PROVE ConnectionInv(d)'
  <2>1. ConnectionInv(d) /\ down[d] \in Seq(Messages)
    BY ViewTypes
  <2>2. CASE down'[d] = down[d]
    BY <1>1, <2>1, <2>2 DEF ConnectionInv, Fresh
  <2>3. CASE /\ d = c /\ sender[c].sent < sender'[c].sent
             /\ down'[c] = Append(down[c], Frame(sender[c].sent, sender'[c].sent))
    <3> DEFINE m == Frame(sender[c].sent, sender'[c].sent)
    <3>0. sender[c].sent \in 0..Total /\ sender'[c].sent \in 0..Total
      BY <1>1 DEF Senders
    <3>1. m \in Messages /\ m.type = "data" /\ m.from < m.to
      <4>1. /\ m \in Messages /\ m.type = "data"
            /\ m.from = sender[c].sent /\ m.to = sender'[c].sent
        BY <3>0, FrameFields
      <4>2. QED
        BY <4>1, <2>3
    <3> HIDE DEF m
    <3>2. \A i \in 1..Len(down[c]) : IsData(down[c], i) => down[c][i].from < down[c][i].to
      BY <2>1, <2>3 DEF ConnectionInv
    <3>3. \A i \in 1..Len(Append(down[c], m)) :
              IsData(Append(down[c], m), i) => Append(down[c], m)[i].from < Append(down[c], m)[i].to
      BY <2>1, <2>3, <3>1, <3>2, FramesAppend
    <3>4. down'[c] = Append(down[c], m)
      BY <2>3 DEF m
    <3>5. QED
      BY <1>1, <2>1, <2>3, <3>3, <3>4 DEF ConnectionInv, Fresh
  <2>4. QED
    BY <1>1, <2>2, <2>3, ViewTypes
<1>3. QED
  BY <1>1, <1>2, NetworkView DEF Inv, ViewInv

\* Reading an acknowledgment leaves the messages to the browser alone.
LEMMA ReadAckView ==
    ASSUME Inv, NEW c \in Conns, ReadAck(c)
    PROVE  ViewInv'
<1>1. /\ UNCHANGED <<current, down, request, view, socket, received, poll, awaiting, timers, writes>>
      /\ link[c] = "open" /\ (link' = link \/ link' = [link EXCEPT ![c] = "closing"])
      /\ up' = [up EXCEPT ![c] = Tail(up[c])]
  BY ReadAckStep DEF viewVars, retryVars, screenVars
<1>2. ASSUME NEW d \in Conns PROVE ConnectionInv(d)'
  <2>1. ConnectionInv(d)
    BY ViewTypes
  <2>2. CASE d = c
    BY <1>1, <2>1, <2>2, ViewTypes DEF ConnectionInv, Fresh
  <2>3. CASE d # c
    <3>1. link'[d] = link[d] /\ up'[d] = up[d]
      BY <1>1, <2>3, ViewTypes
    <3>2. QED
      BY <1>1, <2>1, <3>1 DEF ConnectionInv, Fresh
  <2>4. QED
    BY <2>2, <2>3
<1>3. \A d \in Conns : link[d] # "unused" => link'[d] # "unused"
  BY <1>1, ViewTypes
<1>4. QED
  BY <1>1, <1>2, <1>3, NetworkView DEF Inv, ViewInv

\* The end message is no frame, and follows on a connection that was open.
LEMMA SendEndView ==
    ASSUME Inv, NEW c \in Conns, SendEnd(c)
    PROVE  ViewInv'
<1>1. /\ UNCHANGED <<current, up, request, view, socket, received, poll, awaiting, timers, writes>>
      /\ link[c] = "open" /\ link' = [link EXCEPT ![c] = "closing"]
      /\ down' = [down EXCEPT ![c] = down'[c]]
      /\ sender[c] \in Senders
      /\ \/ down'[c] = down[c]
         \/ down'[c] = Append(down[c], [type |-> "end", offset |-> sender[c].sent])
  BY SendEndStep, ConnTypes DEF wrapperVars, viewVars, retryVars, screenVars, Inv
<1>2. ASSUME NEW d \in Conns PROVE ConnectionInv(d)'
  <2>1. ConnectionInv(d) /\ down[d] \in Seq(Messages)
    BY ViewTypes
  <2>2. CASE d # c
    <3>1. link'[d] = link[d] /\ down'[d] = down[d]
      BY <1>1, <2>2, ViewTypes
    <3>2. QED
      BY <1>1, <2>1, <3>1 DEF ConnectionInv, Fresh
  <2>3. CASE d = c
    <3> DEFINE m == [type |-> "end", offset |-> sender[c].sent]
    <3>1. m \in Messages /\ m.type # "data"
      BY <1>1 DEF Messages, Senders
    <3>2. down'[c] = down[c] \/ down'[c] = Append(down[c], m)
      BY <1>1
    <3> HIDE DEF m
    <3>3. \A i \in 1..Len(down[c]) : IsData(down[c], i) => down[c][i].from < down[c][i].to
      BY <2>1, <2>3 DEF ConnectionInv
    <3>4. \A i \in 1..Len(Append(down[c], m)) :
              IsData(Append(down[c], m), i) => Append(down[c], m)[i].from < Append(down[c], m)[i].to
      BY <2>1, <2>3, <3>1, <3>3, FramesAppend
    <3>5. \A i \in 1..Len(down'[c]) : IsData(down'[c], i) => down'[c][i].from < down'[c][i].to
      BY <3>2, <3>3, <3>4
    <3>6. link'[c] = "closing"
      BY <1>1, ViewTypes
    <3>7. QED
      BY <1>1, <2>1, <2>3, <3>5, <3>6 DEF ConnectionInv, Fresh
  <2>4. QED
    BY <2>2, <2>3
<1>3. \A d \in Conns : link[d] # "unused" => link'[d] # "unused"
  BY <1>1, ViewTypes
<1>4. QED
  BY <1>1, <1>2, <1>3, NetworkView DEF Inv, ViewInv

\* A broken connection carried messages only if it was open.
LEMMA BreakView ==
    ASSUME Inv, NEW c \in Conns, Break(c)
    PROVE  ViewInv'
<1>1. PICK n \in 0..Len(down[c]) :
      /\ UNCHANGED <<current, up, request, view, socket, received, poll, awaiting, timers, writes>>
      /\ link[c] \in {"connecting", "open"} /\ link' = [link EXCEPT ![c] = "closing"]
      /\ down' = [down EXCEPT ![c] = down'[c]]
      /\ Len(down'[c]) = n
      /\ \A i \in 1..n : down'[c][i] = down[c][i]
  BY BreakStep DEF wrapperVars, viewVars, retryVars, screenVars
<1>2. ASSUME NEW d \in Conns PROVE ConnectionInv(d)'
  <2>1. ConnectionInv(d) /\ Len(down[d]) \in Nat
    BY ViewTypes
  <2>2. CASE d # c
    <3>1. link'[d] = link[d] /\ down'[d] = down[d]
      BY <1>1, <2>2, ViewTypes
    <3>2. QED
      BY <1>1, <2>1, <3>1 DEF ConnectionInv, Fresh
  <2>3. CASE d = c
    <3>1. \A i \in 1..Len(down[c]) : IsData(down[c], i) => down[c][i].from < down[c][i].to
      BY <2>1, <2>3 DEF ConnectionInv
    <3>2. \A i \in 1..Len(down'[c]) : i \in 1..Len(down[c]) /\ down'[c][i] = down[c][i]
      BY <1>1, <2>1, <2>3
    <3>3. \A i \in 1..Len(down'[c]) : IsData(down'[c], i) => down'[c][i].from < down'[c][i].to
      BY <3>1, <3>2 DEF IsData
    <3>4. link'[c] = "closing"
      BY <1>1, ViewTypes
    <3>5. QED
      BY <1>1, <2>1, <2>3, <3>3, <3>4 DEF ConnectionInv, Fresh
  <2>4. QED
    BY <2>2, <2>3
<1>3. \A d \in Conns : link[d] # "unused" => link'[d] # "unused"
  BY <1>1, ViewTypes
<1>4. QED
  BY <1>1, <1>2, <1>3, NetworkView DEF Inv, ViewInv

\* Messages are received on a connection that was opened and is not closed.
LEMMA FramesTail ==
    ASSUME Inv, NEW c \in Conns, down[c] # <<>>, down' = [down EXCEPT ![c] = Tail(down[c])]
    PROVE  /\ ~Fresh(c) /\ link[c] # "closed"
           /\ \A d \in Conns : d # c => down'[d] = down[d]
           /\ \A i \in 1..Len(down'[c]) : IsData(down'[c], i) => down'[c][i].from < down'[c][i].to
<1>1. ConnectionInv(c)
  BY ViewTypes
<1>2. /\ Len(down[c]) \in Nat
      /\ \A i \in 1..Len(down'[c]) : down'[c][i] = down[c][i + 1] /\ i + 1 \in 1..Len(down[c])
  BY DownTail DEF Inv
<1>3. \A i \in 1..Len(down'[c]) : IsData(down'[c], i) => down'[c][i].from < down'[c][i].to
  BY <1>1, <1>2 DEF ConnectionInv, IsData
<1>4. \A d \in Conns : d # c => down'[d] = down[d]
  BY ViewTypes
<1>5. QED
  BY <1>1, <1>3, <1>4 DEF ConnectionInv

\* Messages that are no frame of the view's leave no write behind.
LEMMA ReceiveStaleView ==
    ASSUME Inv, NEW c \in Conns, ReceiveStale(c) \/ ReceiveReplay(c) \/ ReceiveEnd(c)
    PROVE  ViewInv'
<1>1. /\ UNCHANGED <<current, link, up, request, view, socket, poll, awaiting, timers, writes>>
      /\ down[c] # <<>> /\ down' = [down EXCEPT ![c] = Tail(down[c])]
      /\ received' = received \/ received' = [received EXCEPT ![c] = Head(down[c]).offset]
  BY DEF ReceiveStale, ReceiveReplay, ReceiveEnd, wrapperVars, viewVars, retryVars,
     screenVars
<1>2. /\ ~Fresh(c) /\ link[c] # "closed"
      /\ \A d \in Conns : d # c => down'[d] = down[d]
      /\ \A i \in 1..Len(down'[c]) : IsData(down'[c], i) => down'[c][i].from < down'[c][i].to
  BY <1>1, FramesTail
<1>3. ASSUME NEW d \in Conns PROVE ConnectionInv(d)'
  <2>1. ConnectionInv(d)
    BY ViewTypes
  <2>2. CASE d = c
    BY <1>1, <1>2, <2>1, <2>2 DEF ConnectionInv, Fresh
  <2>3. CASE d # c
    <3>1. received'[d] = received[d] /\ down'[d] = down[d]
      BY <1>1, <1>2, <2>3, ViewTypes
    <3>2. QED
      BY <1>1, <2>1, <3>1 DEF ConnectionInv, Fresh
  <2>4. QED
    BY <2>2, <2>3
<1>4. QED
  BY <1>1, <1>3, NetworkView DEF Inv, ViewInv

\* A write that follows leaves the earlier ones in their place.
LEMMA WritesAppend ==
    ASSUME NEW ws \in Seq(Writes), NEW w \in Writes
    PROVE  /\ Len(ws) \in Nat /\ Len(Append(ws, w)) = Len(ws) + 1
           /\ \A i \in 1..Len(ws) : Append(ws, w)[i] = ws[i]
           /\ Append(ws, w)[Len(ws) + 1] = w
OBVIOUS

\* A frame written to xterm.js comes from a connection that was opened, and is
\* not empty.
LEMMA ReceiveDataView ==
    ASSUME Inv, NEW c \in Conns, ReceiveData(c)
    PROVE  ViewInv'
<1> DEFINE m == Head(down[c])
           w == [conn |-> c, from |-> m.from, to |-> m.to]
<1>1. /\ UNCHANGED <<current, up, request, view, socket, poll, awaiting, timers>>
      /\ down[c] # <<>>
      /\ m.from \in 0..Total /\ m.to \in 0..Total /\ m.from < m.to
      /\ \/ /\ received' = [received EXCEPT ![c] = m.to]
            /\ writes' = Append(writes, w)
            /\ down' = [down EXCEPT ![c] = Tail(down[c])]
            /\ UNCHANGED link
         \/ /\ link' = Closed(link, c)
            /\ down' = Dropped(c)
            /\ UNCHANGED <<received, writes>>
  BY ReceiveDataStep DEF wrapperVars, retryVars
<1>2. w \in Writes /\ w.conn = c /\ w.from < w.to
  BY <1>1 DEF Writes
<1> HIDE DEF m
<1>3. ASSUME received' = [received EXCEPT ![c] = m.to], writes' = Append(writes, w),
             down' = [down EXCEPT ![c] = Tail(down[c])], UNCHANGED link
      PROVE  ViewInv'
  <2>1. /\ ~Fresh(c) /\ link[c] # "closed"
        /\ \A d \in Conns : d # c => down'[d] = down[d]
        /\ \A i \in 1..Len(down'[c]) : IsData(down'[c], i) => down'[c][i].from < down'[c][i].to
    BY <1>1, <1>3, FramesTail
  <2> HIDE DEF w
  <2>2. /\ Len(writes) \in Nat /\ Len(writes') = Len(writes) + 1
        /\ \A i \in 1..Len(writes) : writes'[i] = writes[i]
        /\ writes'[Len(writes) + 1] = w
    BY <1>2, <1>3, WritesAppend, ViewTypes
  <2>3. \A i \in 1..Len(writes') : writes'[i].from < writes'[i].to
    BY <1>2, <2>2 DEF Inv, ViewInv
  <2>4. ASSUME NEW d \in Conns PROVE ConnectionInv(d)'
    <3>1. ConnectionInv(d)
      BY ViewTypes
    <3>2. CASE d = c
      BY <1>1, <1>3, <2>1, <3>1, <3>2 DEF ConnectionInv, Fresh
    <3>3. CASE d # c
      <4>1. received'[d] = received[d] /\ down'[d] = down[d]
        BY <1>3, <2>1, <3>3, ViewTypes
      <4>2. (\A i \in 1..Len(writes) : writes[i].conn # d) =>
                \A i \in 1..Len(writes') : writes'[i].conn # d
        BY <1>2, <2>2, <3>3
      <4>3. QED
        BY <1>1, <1>3, <3>1, <4>1, <4>2 DEF ConnectionInv, Fresh
    <3>4. QED
      BY <3>2, <3>3
  <2>5. QED
    BY <1>1, <1>3, <2>3, <2>4, NetworkView
<1>4. ASSUME link' = Closed(link, c), down' = Dropped(c), UNCHANGED <<received, writes>>
      PROVE  ViewInv'
  <2>1. ~Fresh(c)
    BY <1>1, ViewTypes DEF ConnectionInv
  <2>2. \A d \in Conns :
           /\ link'[d] = IF d = c /\ link[d] \in {"connecting", "open"} THEN "closing" ELSE link[d]
           /\ down'[d] = IF d = c THEN <<>> ELSE down[d]
    <3>1. TypeOK /\ link \in [Conns -> LinkStates] /\ c \in Conns \cup {None}
      BY ViewTypes DEF Inv
    <3>2. \A d \in Conns :
             /\ Closed(link, c)[d] =
                   IF d = c /\ link[d] \in {"connecting", "open"} THEN "closing" ELSE link[d]
             /\ Dropped(c)[d] = IF d = c THEN <<>> ELSE down[d]
      BY <3>1, ClosedStep
    <3>3. QED
      BY <1>4, <3>2
  <2>3. ASSUME NEW d \in Conns PROVE ConnectionInv(d)'
    <3>1. ConnectionInv(d)
      BY ViewTypes
    <3>2. CASE d = c
      BY <1>1, <1>4, <2>1, <2>2, <3>1, <3>2 DEF ConnectionInv, Fresh
    <3>3. CASE d # c
      BY <1>1, <1>4, <2>2, <3>1, <3>3 DEF ConnectionInv, Fresh
    <3>4. QED
      BY <3>2, <3>3
  <2>4. \A d \in Conns : link[d] # "unused" => link'[d] # "unused"
    BY <2>2
  <2>5. QED
    BY <1>1, <1>4, <2>3, <2>4, NetworkView DEF Inv, ViewInv
<1>5. QED
  BY <1>1, <1>3, <1>4

\* Rendering takes the oldest write, and acknowledges on its connection alone.
LEMMA RenderView ==
    ASSUME Inv, Render
    PROVE  ViewInv'
<1> DEFINE w == writes[1]
<1>1. /\ UNCHANGED <<current, link, down, request, view, socket, received, poll, awaiting, timers>>
      /\ Len(writes) \in Nat \ {0}
      /\ \A i \in 1..Len(writes') : writes'[i] = writes[i + 1] /\ i + 1 \in 1..Len(writes)
      /\ w.conn \in Conns /\ ~Fresh(w.conn)
      /\ \/ up' = up
         \/ up' = [up EXCEPT ![w.conn] = Append(up[w.conn], w.to)]
  BY RenderStep DEF wrapperVars, retryVars
<1> HIDE DEF w
<1>2. ASSUME NEW d \in Conns PROVE ConnectionInv(d)'
  <2>1. ConnectionInv(d)
    BY ViewTypes
  <2>2. Fresh(d) => up'[d] = up[d]
    BY <1>1, ViewTypes
  <2>3. (\A i \in 1..Len(writes) : writes[i].conn # d) =>
            \A i \in 1..Len(writes') : writes'[i].conn # d
    BY <1>1
  <2>4. QED
    BY <1>1, <2>1, <2>2, <2>3 DEF ConnectionInv, Fresh
<1>3. \A i \in 1..Len(writes') : writes'[i].from < writes'[i].to
  BY <1>1 DEF Inv, ViewInv
<1>4. QED
  BY <1>1, <1>2, <1>3, NetworkView

\* A close event comes from a connection of the view, which had been opened.
LEMMA CloseEventView ==
    ASSUME Inv, NEW c \in Conns, CloseEvent(c)
    PROVE  ViewInv'
<1>1. /\ UNCHANGED <<current, down, up, request, view, socket, received, poll, timers, writes>>
      /\ link[c] = "closing" /\ down[c] = <<>>
      /\ link' = [link EXCEPT ![c] = "closed"]
      /\ awaiting' = awaiting \/ awaiting' = awaiting \cup {c}
  BY DEF CloseEvent, wrapperVars, viewVars, screenVars
<1>2. ASSUME NEW d \in Conns PROVE ConnectionInv(d)'
  <2>1. ConnectionInv(d) /\ link'[d] = IF d = c THEN "closed" ELSE link[d]
    BY <1>1, ViewTypes
  <2>2. QED
    BY <1>1, <2>1 DEF ConnectionInv, Fresh
<1>3. \A d \in Conns : link[d] # "unused" => link'[d] # "unused"
  BY <1>1, ViewTypes
<1>4. QED
  BY <1>1, <1>2, <1>3, NetworkView DEF Inv, ViewInv

\* The close handler that resumes arms a timer for the connection it closed.
LEMMA ResumeView ==
    ASSUME Inv, NEW c \in Conns, Resume(c)
    PROVE  ViewInv'
<1>1. /\ UNCHANGED <<current, link, down, up, request, view, socket, received, poll, writes>>
      /\ c \in awaiting /\ awaiting' = awaiting \ {c}
      /\ timers' = timers \/ timers' = timers \cup {c}
  BY DEF Resume, wrapperVars, netVars, viewVars, screenVars
<1>2. ASSUME NEW d \in Conns PROVE ConnectionInv(d)'
  <2>1. ConnectionInv(d)
    BY ViewTypes
  <2>2. QED
    BY <1>1, <2>1 DEF ConnectionInv, Fresh
<1>3. QED
  BY <1>1, <1>2, NetworkView DEF Inv, ViewInv

\* A retry opens a connection for the invocation the view shows.
LEMMA RetryView ==
    ASSUME Inv, NEW c \in Conns, Retry(c)
    PROVE  ViewInv'
<1>1. /\ UNCHANGED <<current, down, up, view, received, poll, awaiting, writes>>
      /\ c \in timers /\ timers' = timers \ {c}
      /\ \/ UNCHANGED <<link, request, socket>>
         \/ \E n \in Conns :
               /\ link[n] = "unused"
               /\ link' = [link EXCEPT ![n] = "connecting"]
               /\ request' = [request EXCEPT ![n] = [invocation |-> view, cursor |-> rendered]]
               /\ socket' = n
  BY RetryStep DEF wrapperVars, screenVars
<1>2. 0 < view
  <2>1. c \in timers /\ ConnectionInv(c) /\ view \in Nat /\ request[c].invocation \in Nat
    BY <1>1, ViewTypes
  <2>2. QED
    BY <2>1 DEF ConnectionInv, Fresh
<1>3. CASE UNCHANGED <<link, request, socket>>
  <2>1. ASSUME NEW d \in Conns PROVE ConnectionInv(d)'
    <3>1. ConnectionInv(d)
      BY ViewTypes
    <3>2. QED
      BY <1>1, <1>3, <3>1 DEF ConnectionInv, Fresh
  <2>2. QED
    BY <1>1, <1>3, <2>1, NetworkView DEF Inv, ViewInv
<1>4. ASSUME NEW n \in Conns,
             link[n] = "unused",
             link' = [link EXCEPT ![n] = "connecting"],
             request' = [request EXCEPT ![n] = [invocation |-> view, cursor |-> rendered]],
             socket' = n
      PROVE  ViewInv'
  <2>1. ASSUME NEW d \in Conns PROVE ConnectionInv(d)'
    <3>1. ConnectionInv(d) /\ view \in Nat
      BY ViewTypes
    <3>2. /\ link'[d] = IF d = n THEN "connecting" ELSE link[d]
          /\ request'[d].invocation = IF d = n THEN view ELSE request[d].invocation
      BY <1>4, ViewTypes
    <3>3. QED
      BY <1>1, <1>2, <1>4, <3>1, <3>2 DEF ConnectionInv, Fresh
  <2>2. socket' # None /\ link'[socket'] # "unused" /\ request'[socket'].invocation = view'
    BY <1>1, <1>4, ViewTypes
  <2>3. QED
    BY <1>1, <1>4, <2>1, <2>2 DEF Inv, ViewInv
<1>5. QED
  BY <1>1, <1>3, <1>4

\* A status answer is about an invocation that is not later than the current one.
LEMMA PollAnsweredView ==
    ASSUME Inv, PollAnswered
    PROVE  ViewInv'
<1>1. /\ UNCHANGED <<current, link, down, up, request, view, socket, received, awaiting, timers, writes>>
      /\ \E state \in StatusIn(stage) : poll' = [invocation |-> current, state |-> state]
  BY DEF PollAnswered, wrapperVars, netVars, viewVars, screenVars
<1>2. ASSUME NEW d \in Conns PROVE ConnectionInv(d)'
  <2>1. ConnectionInv(d)
    BY ViewTypes
  <2>2. QED
    BY <1>1, <2>1 DEF ConnectionInv, Fresh
<1>3. /\ view <= current /\ current \in Nat /\ (stage # "off" => 0 < current)
  BY ViewTypes DEF Inv, ViewInv, WrapperInv
<1>4. poll'.invocation = current /\ (poll'.state = "running" => stage # "off")
  BY <1>1 DEF StatusIn
<1>5. QED
  BY <1>1, <1>2, <1>3, <1>4 DEF Inv, ViewInv

\* A status answer moves the view forward, and its new connection with it.
LEMMA HandlePollView ==
    ASSUME Inv, HandlePoll
    PROVE  ViewInv'
<1>1. /\ UNCHANGED <<current, up, received, awaiting, writes>> /\ poll # None /\ poll' = None
  BY HandlePollStep DEF wrapperVars
<1>2. CASE disposed
  <2>1. UNCHANGED <<netVars, viewVars, timers, shown>>
    BY <1>2 DEF HandlePoll
  <2>2. ASSUME NEW d \in Conns PROVE ConnectionInv(d)'
    <3>1. ConnectionInv(d)
      BY ViewTypes
    <3>2. QED
      BY <1>1, <2>1, <3>1 DEF ConnectionInv, Fresh, netVars, viewVars
  <2>3. QED
    BY <1>1, <2>1, <2>2 DEF Inv, ViewInv, netVars, viewVars
<1>3. CASE ~disposed
  <2>1. /\ view' = poll.invocation
        /\ timers' \subseteq timers
        /\ \A d \in Conns : down'[d] = IF NewInvocation /\ d = socket THEN <<>> ELSE down[d]
        /\ \/ /\ \A d \in Conns : link'[d] =
                    IF NewInvocation /\ d = socket /\ link[d] \in {"connecting", "open"}
                    THEN "closing" ELSE link[d]
              /\ socket' = IF NewInvocation THEN None ELSE socket
              /\ request' = request
           \/ /\ poll.state = "running"
              /\ \E n \in Conns :
                    /\ link[n] = "unused" /\ socket' = n
                    /\ \A d \in Conns : link'[d] =
                          IF d = n THEN "connecting"
                          ELSE IF NewInvocation /\ d = socket
                                  /\ link[d] \in {"connecting", "open"}
                          THEN "closing" ELSE link[d]
                    /\ request' = [request EXCEPT ![n] =
                          [invocation |-> poll.invocation,
                           cursor |-> IF NewInvocation THEN None ELSE rendered]]
    BY <1>3, HandlePollStep
  <2>2. /\ view <= poll.invocation /\ poll.invocation <= current
        /\ view \in Nat /\ poll.invocation \in Nat /\ current \in Nat
        /\ poll.state = "running" => 0 < poll.invocation
    BY <1>1, ViewTypes DEF Inv, ViewInv
  <2>3. ASSUME NEW d \in Conns PROVE d = socket => link[d] # "unused" /\ request[d].invocation = view
    BY ViewTypes DEF Inv, ViewInv
  <2>4. CASE /\ \A d \in Conns : link'[d] =
                    IF NewInvocation /\ d = socket /\ link[d] \in {"connecting", "open"}
                    THEN "closing" ELSE link[d]
             /\ socket' = IF NewInvocation THEN None ELSE socket
             /\ request' = request
    <3>1. ASSUME NEW d \in Conns PROVE ConnectionInv(d)'
      <4>1. ConnectionInv(d) /\ request[d].invocation \in Nat
        BY ViewTypes
      <4>2. /\ link'[d] = IF NewInvocation /\ d = socket /\ link[d] \in {"connecting", "open"}
                          THEN "closing" ELSE link[d]
            /\ down'[d] = IF NewInvocation /\ d = socket THEN <<>> ELSE down[d]
        BY <2>1, <2>4
      <4>3. \A i \in 1..Len(down'[d]) : IsData(down'[d], i) => down'[d][i].from < down'[d][i].to
        BY <4>1, <4>2 DEF ConnectionInv, IsData
      <4>4. QED
        BY <1>1, <2>1, <2>2, <2>4, <4>1, <4>2, <4>3 DEF ConnectionInv, Fresh
    <3>2. socket' # None => link'[socket'] # "unused" /\ request'[socket'].invocation = view'
      BY <2>1, <2>3, <2>4, ViewTypes DEF NewInvocation
    <3>3. QED
      BY <1>1, <2>1, <2>2, <3>1, <3>2 DEF Inv, ViewInv
  <2>5. ASSUME NEW n \in Conns, poll.state = "running",
               link[n] = "unused", socket' = n,
               \A d \in Conns : link'[d] =
                          IF d = n THEN "connecting"
                          ELSE IF NewInvocation /\ d = socket
                                  /\ link[d] \in {"connecting", "open"}
                          THEN "closing" ELSE link[d],
               request' = [request EXCEPT ![n] =
                          [invocation |-> poll.invocation,
                           cursor |-> IF NewInvocation THEN None ELSE rendered]]
        PROVE  ViewInv'
    <3>1. ASSUME NEW d \in Conns PROVE ConnectionInv(d)'
      <4>1. ConnectionInv(d) /\ request[d].invocation \in Nat
        BY ViewTypes
      <4>2. /\ link'[d] = IF d = n THEN "connecting"
                          ELSE IF NewInvocation /\ d = socket
                                  /\ link[d] \in {"connecting", "open"}
                          THEN "closing" ELSE link[d]
            /\ down'[d] = IF NewInvocation /\ d = socket THEN <<>> ELSE down[d]
            /\ request'[d].invocation = IF d = n THEN poll.invocation ELSE request[d].invocation
        BY <2>1, <2>5, ViewTypes
      <4>3. \A i \in 1..Len(down'[d]) : IsData(down'[d], i) => down'[d][i].from < down'[d][i].to
        BY <4>1, <4>2 DEF ConnectionInv, IsData
      <4>4. CASE d = n
        BY <1>1, <2>1, <2>2, <2>5, <4>1, <4>2, <4>3, <4>4 DEF ConnectionInv, Fresh
      <4>5. CASE d # n
        BY <1>1, <2>1, <2>2, <2>5, <4>1, <4>2, <4>3, <4>5 DEF ConnectionInv, Fresh
      <4>6. QED
        BY <4>4, <4>5
    <3>2. socket' # None => link'[socket'] # "unused" /\ request'[socket'].invocation = view'
      BY <2>1, <2>5, ViewTypes
    <3>3. QED
      BY <1>1, <2>1, <2>2, <3>1, <3>2 DEF Inv, ViewInv
  <2>6. QED
    BY <2>1, <2>4, <2>5
<1>4. QED
  BY <1>2, <1>3

\* A disposed view keeps its connections closed.
LEMMA DisposeView ==
    ASSUME Inv, Dispose
    PROVE  ViewInv'
<1>1. /\ UNCHANGED <<current, up, request, view, socket, received, poll, awaiting>>
      /\ timers' \subseteq timers /\ writes' = <<>>
      /\ link' = Closed(link, socket) /\ down' = Dropped(socket)
  BY DEF Dispose, wrapperVars
<1>2. \A d \in Conns :
         /\ link'[d] = IF d = socket /\ link[d] \in {"connecting", "open"} THEN "closing" ELSE link[d]
         /\ down'[d] = IF d = socket THEN <<>> ELSE down[d]
  <2>1. TypeOK /\ link \in [Conns -> LinkStates] /\ socket \in Conns \cup {None}
    BY ViewTypes DEF Inv
  <2>2. \A d \in Conns :
           /\ Closed(link, socket)[d] =
                 IF d = socket /\ link[d] \in {"connecting", "open"} THEN "closing" ELSE link[d]
           /\ Dropped(socket)[d] = IF d = socket THEN <<>> ELSE down[d]
    BY <2>1, ClosedStep
  <2>3. QED
    BY <1>1, <2>2
<1>3. ASSUME NEW d \in Conns PROVE ConnectionInv(d)'
  <2>1. ConnectionInv(d) /\ (d = socket => link[d] # "unused")
    BY ViewTypes DEF Inv, ViewInv
  <2>2. \A i \in 1..Len(down'[d]) : IsData(down'[d], i) => down'[d][i].from < down'[d][i].to
    BY <1>2, <2>1 DEF ConnectionInv, IsData
  <2>3. \A i \in 1..Len(writes') : writes'[i].conn # d
    BY <1>1
  <2>4. QED
    BY <1>1, <1>2, <2>1, <2>2, <2>3 DEF ConnectionInv, Fresh
<1>4. \A d \in Conns : link[d] # "unused" => link'[d] # "unused"
  BY <1>2
<1>5. \A i \in 1..Len(writes') : writes'[i].from < writes'[i].to
  BY <1>1
<1>6. QED
  BY <1>1, <1>3, <1>4, <1>5, NetworkView

-----------------------------------------------------------------------------
\* A system that has not started satisfies the invariant.
LEMMA InvInit ==
    Init => Inv
<1> SUFFICES ASSUME Init PROVE Inv
  OBVIOUS
<1>1. Cardinality(Registered) <= MaxAttachments
  <2>1. Registered = {}
    BY DEF Registered, Init
  <2>2. QED
    BY <2>1, FS_EmptySet, Bounds
<1>2. /\ queue \in [Conns -> Seq(Messages)] /\ \A c \in Conns : Len(queue[c]) <= QueueCap
      /\ down \in [Conns -> Seq(Messages)] /\ up \in [Conns -> Seq(0..Total)]
  <2>1. \A c \in Conns : queue[c] = <<>>
    BY DEF Init
  <2>2. Len(<<>>) = 0 /\ QueueCap \in Nat
    BY EmptySeq, Bounds
  <2>3. \A c \in Conns : Len(queue[c]) <= QueueCap
    BY <2>1, <2>2
  <2>4. QED
    BY <2>3, EmptySeq DEF Init
<1>3. /\ writes \in Seq([conn : Conns, from : 0..Total, to : 0..Total])
      /\ shown \in Seq((1..Invocations) \X (0..Total))
  BY EmptySeq DEF Init
<1>4. TypeOK
  <2>1. /\ current \in 0..Invocations /\ produced \in 0..Total /\ breaks \in 0..MaxBreaks
        /\ view \in 0..Invocations
    BY Bounds DEF Init
  <2>2. sender \in [Conns -> [acked : 0..Total, sent : 0..Total, hand : 0..Total,
                             replay : 0..Total]]
    <3>1. 0 \in 0..Total
      BY Bounds
    <3>2. QED
      BY <3>1 DEF Init
  <2>3. request \in [Conns -> [invocation : 0..Invocations, cursor : MaybeOffset]]
    <3>1. 0 \in 0..Invocations
      BY Bounds
    <3>2. QED
      BY <3>1 DEF Init, MaybeOffset
  <2>4. received \in [Conns -> MaybeOffset] /\ rendered \in MaybeOffset
    BY DEF Init, MaybeOffset
  <2>5. /\ stage \in {"off", "starting", "running", "finished", "draining", "lost"}
        /\ clients \in [Conns -> {"none", "active", "inactive"}]
        /\ link \in [Conns -> {"unused", "connecting", "open", "closing", "closed"}]
        /\ socket \in Conns \cup {None} /\ retryTimer \in Conns \cup {None}
        /\ poll \in [invocation : 0..Invocations, state : {"stopped", "running", "other"}]
                       \cup {None}
        /\ awaiting \subseteq Conns /\ timers \subseteq Conns
        /\ {complete, exited, disposed} \subseteq BOOLEAN
    BY DEF Init
  <2>6. QED
    BY <1>1, <1>2, <1>3, <2>1, <2>2, <2>3, <2>4, <2>5 DEF TypeOK
<1>5. WrapperInv
  BY DEF Init, WrapperInv, AttachmentInv
<1>6. ViewInv
  <2>1. \A c \in Conns : ConnectionInv(c)
    BY DEF Init, ConnectionInv, Fresh
  <2>2. QED
    BY <2>1 DEF Init, ViewInv
<1>7. QED
  BY <1>4, <1>5, <1>6 DEF Inv

\* One step of the terminal preserves the invariant of the wrapper, the connections
\* and the view.
LEMMA InvNext ==
    Inv /\ [Next]_vars => Inv'
<1> SUFFICES ASSUME Inv, [Next]_vars PROVE Inv'
  OBVIOUS
<1>1. CASE Wrapper
  <2>1. CASE \E n \in Chunks : Output(n)
    BY <2>1, OutputType, OutputWrapper, WrapperView DEF Inv
  <2>2. CASE Finish
    BY <2>2, FinishType, StageWrapper, WrapperView DEF Inv
  <2>3. CASE Drain
    BY <2>3, DrainType, StageWrapper, WrapperView DEF Inv
  <2>4. CASE WrapperExits
    BY <2>4, WrapperExitsType, EndWrapper, WrapperExitsView DEF Inv
  <2>5. CASE Launch
    BY <2>5, LaunchType, EndWrapper, WrapperView DEF Inv
  <2>6. CASE Launched
    BY <2>6, LaunchedType, EndWrapper, WrapperView DEF Inv
  <2>7. QED
    BY <1>1, <2>1, <2>2, <2>3, <2>4, <2>5, <2>6 DEF Wrapper
<1>2. ASSUME NEW c \in Conns, Connection(c) PROVE Inv'
  <2>1. CASE Attach(c)
    BY <2>1, AttachType, AttachWrapper, AttachView DEF Inv
  <2>2. CASE Refuse(c)
    BY <2>2, RefuseType, RefuseWrapper, RefuseView DEF Inv
  <2>3. CASE SendReplay(c) \/ SendLive(c) \/ SendStalled(c)
    <3>1. Sends(c)
      BY <2>3 DEF Sends
    <3>2. QED
      BY <3>1, SendType, SendWrapper, SendView DEF Inv
  <2>4. CASE ReadAck(c)
    BY <2>4, ReadAckType, ReadAckWrapper, ReadAckView DEF Inv
  <2>5. CASE SendEnd(c)
    BY <2>5, SendEndType, SendEndWrapper, SendEndView DEF Inv
  <2>6. CASE Detach(c)
    BY <2>6, DetachType, DetachWrapper, WrapperView DEF Inv
  <2>7. QED
    BY <1>2, <2>1, <2>2, <2>3, <2>4, <2>5, <2>6 DEF Connection
<1>3. ASSUME NEW c \in Conns, Break(c) PROVE Inv'
  BY <1>3, BreakType, BreakWrapper, BreakView DEF Inv
<1>4. ASSUME NEW c \in Conns, View(c) PROVE Inv'
  <2>1. CASE Receive(c)
    <3>1. WrapperInv'
      BY <2>1, ReceiveWrapper
    <3>2. ViewInv'
      BY <2>1, ReceiveStaleView, ReceiveDataView DEF Receive
    <3>3. TypeOK'
      BY <2>1, ReceiveStaleType, ReceiveReplayType, ReceiveDataType, ReceiveEndType
         DEF Receive
    <3>4. QED
      BY <3>1, <3>2, <3>3 DEF Inv
  <2>2. CASE CloseEvent(c)
    BY <2>2, CloseEventType, ViewWrapper, CloseEventView DEF Inv
  <2>3. CASE Resume(c)
    BY <2>3, ResumeType, ViewWrapper, ResumeView DEF Inv
  <2>4. CASE Retry(c)
    BY <2>4, RetryType, ViewWrapper, RetryView DEF Inv
  <2>5. QED
    BY <1>4, <2>1, <2>2, <2>3, <2>4 DEF View
<1>5. CASE Render
  BY <1>5, RenderType, ScreenWrapper, RenderView DEF Inv
<1>6. CASE PollAnswered
  BY <1>6, PollAnsweredType, ScreenWrapper, PollAnsweredView DEF Inv
<1>7. CASE HandlePoll
  BY <1>7, HandlePollType, ScreenWrapper, HandlePollView DEF Inv
<1>8. CASE Dispose
  BY <1>8, DisposeType, ScreenWrapper, DisposeView DEF Inv
<1>9. CASE UNCHANGED vars
  <2>1. Cardinality(Registered)' <= MaxAttachments
    BY <1>9, RegisteredSame DEF Inv, vars, wrapperVars
  <2>2. TypeOK'
    BY <1>9, <2>1 DEF Inv, TypeOK, vars, wrapperVars, netVars, viewVars, retryVars,
       screenVars
  <2>3. WrapperInv'
    BY <1>9, WrapperKept DEF Keeps, vars, netVars
  <2>4. ViewInv'
    <3>1. ASSUME NEW c \in Conns PROVE ConnectionInv(c)'
      <4>1. ConnectionInv(c)
        BY ViewTypes
      <4>2. QED
        BY <1>9, <4>1 DEF ConnectionInv, Fresh, vars, netVars, viewVars, retryVars,
           screenVars
    <3>2. QED
      BY <1>9, <3>1 DEF Inv, ViewInv, vars, wrapperVars, netVars, viewVars, retryVars,
         screenVars
  <2>5. QED
    BY <2>2, <2>3, <2>4 DEF Inv
<1>10. QED
  BY <1>1, <1>2, <1>3, <1>4, <1>5, <1>6, <1>7, <1>8, <1>9 DEF Next

\* The replay buffer, its attachments, the connections and the view are
\* consistent, in every state: the invariant the other results rest on.
THEOREM Invariance ==
    Spec => []Inv
<1>1. QED
  BY InvInit, InvNext, PTL DEF Spec

\* Every variable keeps its type.  In particular a queue never outgrows its
\* channel and the registered attachments never exceed their limit
\* (TestTerminalLimitsAttachments).
THEOREM TypeCorrectness ==
    Spec => []TypeOK
<1>1. Inv => TypeOK
  BY DEF Inv
<1>2. QED
  BY <1>1, Invariance, PTL
=============================================================================
