------------------------------ MODULE TcpProofs -----------------------------
(***************************************************************************)
(* Proofs about TcpConnection for every buffer size, window, segment size  *)
(* and network: its type invariant, which includes that neither ring       *)
(* buffer overflows, and that poll_at() never misses what dispatch()       *)
(* would do.                                                               *)
(***************************************************************************)
EXTENDS TcpConnection, SequenceTheorems, NaturalsInduction, WellFoundedInduction, TLAPS

\* The part of TypeOK that is about one socket.
SocketOK(s) ==
  /\ s \in Socket
  /\ Len(s.rx_buffer) <= RxCap /\ Len(s.tx_buffer) <= TxCap
  /\ \A o \in s.assembler : o < Window(s)

\* What process() and dispatch() have to return.
OutcomeOK(out) == SocketOK(out.sock) /\ out.segments \in Seq(Segment)

-----------------------------------------------------------------------------
(* Numbers.                                                                *)

\* Sequence numbers are closed under wrapping addition.
LEMMA SeqAddType ==
  ASSUME NEW a \in Int, NEW b \in Int
  PROVE  SeqAdd(a, b) \in SeqNumber
BY SeqModAssumption DEF SeqAdd, SeqNumber

\* The signed difference of two sequence numbers is an integer.
LEMMA SeqDiffType ==
  ASSUME NEW a \in Int, NEW b \in Int
  PROVE  SeqDiff(a, b) \in Int
BY SeqModAssumption DEF SeqDiff

\* Sequence numbers are integers.
LEMMA SeqNumberInt == \A a \in SeqNumber : a \in Int
BY SeqModAssumption DEF SeqNumber

\* The window field never exceeds 16 bits, and is never negative.
LEMMA ScaledWindowType ==
  ASSUME NEW s, SocketOK(s)
  PROVE  /\ Window(s) \in Nat /\ Window(s) <= RxCap
         /\ ScaledWindow(s) \in 0 .. WinMax
<1>1. Window(s) \in Nat /\ Window(s) <= RxCap
  BY SizeAssumption DEF SocketOK, Socket, Window
<1>2. s.remote_win_shift \in Nat \ {0}
  BY DEF SocketOK, Socket
<1>3. Window(s) \div s.remote_win_shift \in Nat
  BY <1>1, <1>2
<1> QED
  BY <1>1, <1>3, SizeAssumption DEF ScaledWindow, Least

\* The acknowledgement number a socket sends is a sequence number.
LEMMA NextAckType ==
  ASSUME NEW s, SocketOK(s)
  PROVE  NextAck(s) \in SeqNumber
BY SeqAddType, SeqModAssumption, SMTT(60) DEF SocketOK, Socket, NextAck, SeqNumber

\* A part of a sequence, given by places of it, is such a sequence.
LEMMA SubSeqType ==
  ASSUME NEW S, NEW q \in Seq(S), NEW m \in Nat \ {0}, NEW n \in Int, n <= Len(q)
  PROVE  /\ SubSeq(q, m, n) \in Seq(S)
         /\ Len(SubSeq(q, m, n)) = IF m <= n THEN n - m + 1 ELSE 0
<1>1. \A i \in m .. n : q[i] \in S
  BY LenProperties
<1> QED
  BY <1>1, SubSeqProperties

-----------------------------------------------------------------------------
(* Calls and the passing of time.                                          *)

\* A socket whose buffers are those of a good one is good.
LEMMA FrameOK ==
  ASSUME NEW s, NEW t, SocketOK(s), t \in Socket,
         t.rx_buffer = s.rx_buffer, t.tx_buffer = s.tx_buffer, t.assembler = s.assembler
  PROVE  SocketOK(t)
BY DEF SocketOK, Window

\* A new socket has empty buffers.
LEMMA SocketNewOK ==
  ASSUME NEW a \in BOOLEAN, NEW b \in BOOLEAN, NEW c \in BOOLEAN, NEW d \in BOOLEAN
  PROVE  SocketOK(SocketNew(a, b, c, d))
<1> DEFINE z == SocketNew(a, b, c, d)
<1>1. z \in Socket
  BY SizeAssumption, WinFactorAssumption, SeqModAssumption, SMTT(60)
  DEF SocketNew, Socket, SeqNumber, State, Timer, TimerNew, AckDelayTimer, NothingAhead, Octet
<1>2. z.rx_buffer = << >> /\ z.tx_buffer = << >> /\ z.assembler = {}
  BY DEF SocketNew
<1> QED
  BY <1>1, <1>2, SizeAssumption, SMTT(60) DEF SocketOK

\* reset() empties the buffers.
LEMMA ResetOK ==
  ASSUME NEW s \in Socket
  PROVE  SocketOK(Reset(s))
<1> DEFINE z == SocketNew(s.timeout, s.keep_alive, s.ack_delay, s.nagle)
           t == [z EXCEPT !.local_rx_last_ack = s.local_rx_last_ack,
                          !.local_rx_dup_acks = s.local_rx_dup_acks]
<1>1. /\ s.timeout \in BOOLEAN /\ s.keep_alive \in BOOLEAN
      /\ s.ack_delay \in BOOLEAN /\ s.nagle \in BOOLEAN
      /\ s.local_rx_last_ack \in SeqNumber \cup {None} /\ s.local_rx_dup_acks \in 0 .. 4
  BY DEF Socket
<1>2. SocketOK(z)
  BY <1>1, SocketNewOK
<1> HIDE DEF z
<1>3. /\ t \in Socket
      /\ t.rx_buffer = z.rx_buffer /\ t.tx_buffer = z.tx_buffer /\ t.assembler = z.assembler
  BY <1>1, <1>2, ZenonT(60) DEF SocketOK, Socket
<1>4. SocketOK(t)
  BY <1>2, <1>3, FrameOK, ZenonT(60)
<1> QED
  BY <1>4 DEF Reset, z

\* The calls of the application that move no data.
LEMMA CallsOK ==
  ASSUME NEW s, SocketOK(s), NEW isn \in SeqNumber
  PROVE  /\ SocketOK(ListenCall(s)) /\ SocketOK(ConnectCall(s, isn))
         /\ SocketOK(CloseCall(s)) /\ SocketOK(AbortCall(s))
         /\ SocketOK(SetKeepAliveCall(s))
<1> DEFINE z == Reset(s)
<1>1. s \in Socket /\ SocketOK(z)
  BY ResetOK DEF SocketOK
<1> HIDE DEF z
<1>2. z \in Socket
  BY <1>1 DEF SocketOK
<1>3. SocketOK(ListenCall(s))
  <2> DEFINE t == [z EXCEPT !.listen_endpoint = TRUE, !.state = "Listen"]
  <2>1. /\ t \in Socket
        /\ t.rx_buffer = z.rx_buffer /\ t.tx_buffer = z.tx_buffer /\ t.assembler = z.assembler
    BY <1>2, ZenonT(60) DEF Socket, State
  <2> QED
    BY <1>1, <2>1, FrameOK, ZenonT(60) DEF ListenCall, z
<1>4. SocketOK(ConnectCall(s, isn))
  <2> DEFINE t == [z EXCEPT !.tuple = TRUE, !.state = "SynSent",
                            !.local_seq_no = isn, !.remote_last_seq = isn]
  <2>1. /\ t \in Socket
        /\ t.rx_buffer = z.rx_buffer /\ t.tx_buffer = z.tx_buffer /\ t.assembler = z.assembler
    BY <1>2, ZenonT(60) DEF Socket, State
  <2> QED
    BY <1>1, <2>1, FrameOK, ZenonT(60) DEF ConnectCall, z
<1>5. ASSUME NEW st \in State
      PROVE  SocketOK(SetState(s, st))
  <2>1. /\ SetState(s, st) \in Socket
        /\ SetState(s, st).rx_buffer = s.rx_buffer
        /\ SetState(s, st).tx_buffer = s.tx_buffer
        /\ SetState(s, st).assembler = s.assembler
    BY <1>1, ZenonT(60) DEF Socket, SetState
  <2> QED
    BY <2>1, FrameOK
<1>6. SocketOK(CloseCall(s)) /\ SocketOK(AbortCall(s))
  <2>1. s.state \in State
    BY <1>1 DEF Socket
  <2> QED
    BY <2>1, <1>5 DEF CloseCall, AbortCall, State
<1>7. SocketOK(SetKeepAliveCall(s))
  <2>1. s.timer \in Timer
    BY <1>1 DEF Socket
  <2>2. SetKeepAliveTimer(s.timer) \in Timer
    BY <2>1 DEF SetKeepAliveTimer, Timer, TimerNew
  <2>3. /\ SetKeepAliveCall(s) \in Socket
        /\ SetKeepAliveCall(s).rx_buffer = s.rx_buffer
        /\ SetKeepAliveCall(s).tx_buffer = s.tx_buffer
        /\ SetKeepAliveCall(s).assembler = s.assembler
    BY <1>1, <2>2, ZenonT(60) DEF SetKeepAliveCall, Socket
  <2> QED
    BY <2>3, FrameOK
<1> QED
  BY <1>3, <1>4, <1>6, <1>7

\* send_slice() takes no more octets than tx_buffer has room for.
LEMMA SendCallOK ==
  ASSUME NEW s, SocketOK(s), NEW data \in Seq(Octet),
         Len(s.tx_buffer) + Len(data) <= TxCap
  PROVE  SocketOK(SendCall(s, data))
<1> DEFINE t == SendCall(s, data)
<1>1. s \in Socket /\ s.tx_buffer \in Seq(Octet) /\ s.tx_read_at \in 0 .. (TxCap - 1)
      /\ s.timer \in Timer /\ 0 \in 0 .. (TxCap - 1)
  BY SizeAssumption, SMTT(60) DEF SocketOK, Socket
<1>2. /\ s.tx_buffer \o data \in Seq(Octet)
      /\ Len(s.tx_buffer \o data) = Len(s.tx_buffer) + Len(data)
  BY <1>1, SMTT(60)
<1> DEFINE timer == IF s.remote_win_len = 0 /\ IsIdle(s.timer) THEN SetForZeroWindowProbe ELSE s.timer
           read  == IF s.tx_buffer = << >> THEN 0 ELSE s.tx_read_at
           ts    == IF s.tx_buffer = << >> THEN "None" ELSE s.remote_last_ts
           buf   == s.tx_buffer \o data
<1>3. timer \in Timer /\ read \in 0 .. (TxCap - 1) /\ ts \in {"None", "Recent", "Stale"}
  BY <1>1 DEF SetForZeroWindowProbe, Timer, Socket
<1>4. t = [s EXCEPT !.tx_buffer = buf, !.tx_read_at = read, !.remote_last_ts = ts, !.timer = timer]
  BY DEF SendCall
<1> HIDE DEF t, timer, read, ts
<1>5. /\ t \in Socket
      /\ t.rx_buffer = s.rx_buffer /\ t.tx_buffer = s.tx_buffer \o data
      /\ t.assembler = s.assembler
  BY <1>1, <1>2, <1>3, <1>4, ZenonT(60) DEF Socket
<1>6. SocketOK(t)
  BY <1>2, <1>5 DEF SocketOK, Window
<1> QED
  BY <1>6 DEF t

\* recv_slice() makes room: what waits in the assembler still fits.
LEMMA RecvCallOK ==
  ASSUME NEW s, SocketOK(s), NEW n \in 1 .. Len(s.rx_buffer)
  PROVE  SocketOK(RecvCall(s, n))
<1> DEFINE t == RecvCall(s, n)
<1>1. s \in Socket /\ s.rx_buffer \in Seq(Octet) /\ s.remote_seq_no \in SeqNumber
      /\ s.assembler \in SUBSET (0 .. (RxCap - 1))
  BY DEF SocketOK, Socket
<1>2. /\ SubSeq(s.rx_buffer, n + 1, Len(s.rx_buffer)) \in Seq(Octet)
      /\ Len(SubSeq(s.rx_buffer, n + 1, Len(s.rx_buffer))) = Len(s.rx_buffer) - n
  <2>1. n + 1 \in Nat \ {0} /\ Len(s.rx_buffer) \in Int /\ n <= Len(s.rx_buffer)
    BY <1>1
  <2> QED
    BY <1>1, <2>1, SubSeqType
<1>3. SeqAdd(s.remote_seq_no, n) \in SeqNumber
  <2>1. s.remote_seq_no \in Int /\ n \in Int
    BY <1>1, SeqModAssumption DEF SeqNumber
  <2> QED
    BY <2>1, SeqAddType
<1>4. /\ t \in Socket
      /\ t.rx_buffer = SubSeq(s.rx_buffer, n + 1, Len(s.rx_buffer))
      /\ t.tx_buffer = s.tx_buffer /\ t.assembler = s.assembler
  BY <1>1, <1>2, <1>3, ZenonT(60) DEF RecvCall, Socket
<1> HIDE DEF t
<1>5. Len(s.rx_buffer) \in Nat /\ Len(s.rx_buffer) <= RxCap /\ Len(s.tx_buffer) <= TxCap
      /\ RxCap \in Nat /\ n \in Nat
  BY <1>1, SizeAssumption DEF SocketOK
<1>6. Len(t.rx_buffer) = Len(s.rx_buffer) - n /\ Len(t.tx_buffer) <= TxCap
  BY <1>2, <1>4, <1>5
<1>7. ASSUME NEW o \in t.assembler PROVE o < Window(t)
  <2>1. o \in s.assembler
    BY <1>4, ZenonT(60)
  <2>2. o < Window(s)
    BY <2>1, ZenonT(60) DEF SocketOK
  <2>3. o \in Int
    <3>1. o \in 0 .. (RxCap - 1)
      BY <1>1, <2>1, ZenonT(60)
    <3> QED
      BY <1>5, <3>1
  <2> DEFINE a == Len(s.rx_buffer)
             b == Len(t.rx_buffer)
  <2>4. a \in Nat /\ b = a - n /\ RxCap \in Nat /\ n \in Nat
    BY <1>5, <1>6
  <2>5. o < RxCap - a /\ Window(t) = RxCap - b
    BY <2>2, ZenonT(60) DEF Window
  <2> HIDE DEF a, b
  <2> QED
    BY <2>3, <2>4, <2>5
<1>8. SocketOK(t)
  BY <1>4, <1>5, <1>6, <1>7, SMTT(60) DEF SocketOK
<1> QED
  BY <1>8 DEF t

\* A deadline that passes changes no buffer.
LEMMA ElapseOK ==
  ASSUME NEW s, SocketOK(s)
  PROVE  /\ TimerArmed(s) => SocketOK(TimerExpires(s))
         /\ SocketOK(AckDelayExpires(s)) /\ SocketOK(ChallengeAckAllowed(s))
         /\ SocketOK(TimeoutExpires(s))
<1>1. s \in Socket /\ s.timer \in Timer
  BY DEF SocketOK, Socket
<1>2. ASSUME TimerArmed(s) PROVE SocketOK(TimerExpires(s))
  <2>1. [s.timer EXCEPT !.at = "Due"] \in Timer
    BY <1>1, <1>2 DEF Timer, TimerArmed
  <2> DEFINE t == [s EXCEPT !.timer = [s.timer EXCEPT !.at = "Due"]]
  <2>2. /\ t \in Socket
        /\ t.rx_buffer = s.rx_buffer /\ t.tx_buffer = s.tx_buffer /\ t.assembler = s.assembler
    BY <1>1, <2>1, ZenonT(60) DEF Socket
  <2>3. TimerExpires(s) = t
    BY DEF TimerExpires
  <2> QED
    BY <2>2, <2>3, FrameOK, ZenonT(60)
<1>3. SocketOK(AckDelayExpires(s))
  <2> DEFINE t == AckDelayExpires(s)
  <2>1. /\ t \in Socket
        /\ t.rx_buffer = s.rx_buffer /\ t.tx_buffer = s.tx_buffer /\ t.assembler = s.assembler
    BY <1>1, ZenonT(60) DEF Socket, AckDelayExpires, AckDelayTimer
  <2> QED
    BY <2>1, FrameOK
<1>4. SocketOK(ChallengeAckAllowed(s))
  <2> DEFINE t == ChallengeAckAllowed(s)
  <2>1. /\ t \in Socket
        /\ t.rx_buffer = s.rx_buffer /\ t.tx_buffer = s.tx_buffer /\ t.assembler = s.assembler
    BY <1>1, ZenonT(60) DEF Socket, ChallengeAckAllowed
  <2> QED
    BY <2>1, FrameOK
<1>5. SocketOK(TimeoutExpires(s))
  <2> DEFINE t == TimeoutExpires(s)
  <2>1. /\ t \in Socket
        /\ t.rx_buffer = s.rx_buffer /\ t.tx_buffer = s.tx_buffer /\ t.assembler = s.assembler
    BY <1>1, SMTT(60) DEF Socket, TimeoutExpires
  <2> QED
    BY <2>1, FrameOK
<1> QED
  BY <1>2, <1>3, <1>4, <1>5, SMTT(60)

-----------------------------------------------------------------------------
(* process().                                                              *)

\* Replies are segments.
LEMMA RstReplyOK ==
  ASSUME NEW r \in Segment
  PROVE  RstReply(r) \in Segment
<1>1. /\ r.ack \in SeqNumber \cup {None} /\ r.seq \in Int /\ SegmentLen(r) \in Int
      /\ 0 \in SeqNumber
  BY SeqModAssumption DEF Segment, SeqNumber, SegmentLen, ControlLen
<1>2. SeqAdd(r.seq, SegmentLen(r)) \in SeqNumber
  BY <1>1, SeqAddType, SMTT(60)
<1>3. (IF r.ack = None THEN 0 ELSE r.ack) \in SeqNumber
  BY <1>1
<1> QED
  BY <1>1, <1>2, <1>3, SizeAssumption DEF RstReply, Segment, Control

\* ack_reply() leaves a well-typed socket and sends a well-typed segment.
LEMMA AckReplyOK ==
  ASSUME NEW s, SocketOK(s)
  PROVE  OutcomeOK(AckReply(s))
<1> DEFINE t == [s EXCEPT !.remote_last_ack = NextAck(s), !.remote_last_win = ScaledWindow(s)]
           r == [control |-> "None", seq |-> s.remote_last_seq, ack |-> NextAck(s),
                 win |-> ScaledWindow(s), scale |-> None, mss |-> None, payload |-> << >>]
<1>1. s \in Socket /\ NextAck(s) \in SeqNumber /\ ScaledWindow(s) \in 0 .. WinMax
  BY NextAckType, ScaledWindowType DEF SocketOK
<1>2. /\ t \in Socket
      /\ t.rx_buffer = s.rx_buffer /\ t.tx_buffer = s.tx_buffer /\ t.assembler = s.assembler
  BY <1>1, ZenonT(60) DEF Socket
<1>3. r \in Segment
  BY <1>1 DEF Segment, Control, Socket
<1>4. SocketOK(t)
  BY <1>2, FrameOK, ZenonT(60)
<1>5. << r >> \in Seq(Segment)
  BY <1>3
<1> QED
  BY <1>4, <1>5, SMTT(60) DEF OutcomeOK, AckReply, Outcome

\* So does challenge_ack_reply(), whether or not it is rate-limited.
LEMMA ChallengeAckReplyOK ==
  ASSUME NEW s, SocketOK(s)
  PROVE  OutcomeOK(ChallengeAckReply(s))
<1> DEFINE t == [s EXCEPT !.challenge_ack_timer = "Silent"]
<1>1. s \in Socket
  BY DEF SocketOK
<1>2. /\ t \in Socket
      /\ t.rx_buffer = s.rx_buffer /\ t.tx_buffer = s.tx_buffer /\ t.assembler = s.assembler
  BY <1>1, ZenonT(60) DEF Socket
<1>3. OutcomeOK(AckReply(t))
  BY <1>2, FrameOK, AckReplyOK, ZenonT(60)
<1>4. OutcomeOK(Outcome(s, << >>))
  BY DEF OutcomeOK, Outcome
<1> QED
  BY <1>3, <1>4 DEF ChallengeAckReply

\* The match on the state changes no buffer.
LEMMA TransitionOK ==
  ASSUME NEW s, SocketOK(s), NEW r \in Segment, NEW isn \in SeqNumber
  PROVE  LET t == Transition(s, r, isn).sock
         IN  /\ t \in Socket
             /\ t.rx_buffer = s.rx_buffer /\ t.tx_buffer = s.tx_buffer
             /\ t.assembler = s.assembler
<1> DEFINE Good(t) == /\ t \in Socket
                      /\ t.rx_buffer = s.rx_buffer /\ t.tx_buffer = s.tx_buffer
                      /\ t.assembler = s.assembler
<1>1. /\ s \in Socket /\ s.remote_seq_no \in Int /\ s.local_seq_no \in Int
      /\ r.seq \in SeqNumber /\ r.seq \in Int /\ r.mss \in Nat \cup {None}
      /\ r.scale \in (Nat \ {0}) \cup {None} /\ s.remote_mss \in Nat
      /\ s.remote_win_shift \in Nat \ {0} /\ s.keep_alive \in BOOLEAN
  BY SeqModAssumption, SMTT(60) DEF SocketOK, Socket, Segment, SeqNumber
<1>2. /\ SeqAdd(s.remote_seq_no, 1) \in SeqNumber /\ SeqAdd(s.local_seq_no, 1) \in SeqNumber
      /\ SeqAdd(r.seq, 1) \in SeqNumber
  BY <1>1, SeqAddType
<1>3. SetForClose \in Timer /\ SetForIdle(s.keep_alive) \in Timer
  BY DEF SetForClose, SetForIdle, Interval, Timer
<1>4. Good(s)
  BY <1>1
<1>5. ASSUME NEW st \in State PROVE Good(SetState(s, st)) /\ Good(FinReceived(s, st))
  <2>1. Good(SetState(s, st))
    BY <1>1, ZenonT(60) DEF SetState, Socket
  <2>2. Good(FinReceived(s, st))
    BY <1>1, <1>2, ZenonT(60) DEF FinReceived, Socket
  <2> QED
    BY <2>1, <2>2
<1>6. ASSUME NEW t, Good(t) PROVE Good(ToTimeWait(t))
  BY <1>3, <1>6, ZenonT(60) DEF ToTimeWait, Socket, State
<1>7. Good(RstReceived(s)) /\ Good([s EXCEPT !.state = "Closed", !.tuple = FALSE])
  <2>0. s \in Socket
    BY <1>1
  <2>1. ASSUME NEW st \in State PROVE Good([s EXCEPT !.tuple = FALSE, !.state = st])
    <3> DEFINE t == [s EXCEPT !.tuple = FALSE, !.state = st]
    <3>1. t \in Socket
      BY <2>0, ZenonT(60) DEF Socket
    <3>2. /\ t.rx_buffer = s.rx_buffer /\ t.tx_buffer = s.tx_buffer
          /\ t.assembler = s.assembler
      BY <2>0 DEF Socket
    <3> QED
      BY <3>1, <3>2
  <2>2. [s EXCEPT !.state = "Closed", !.tuple = FALSE]
          = [s EXCEPT !.tuple = FALSE, !.state = "Closed"]
    BY <1>1, ZenonT(60) DEF Socket
  <2> HIDE DEF Good
  <2> QED
    BY <2>1, <2>2, ZenonT(60) DEF RstReceived, State
<1>8. Good(SynOptions(s, r))
  <2> DEFINE mss   == IF r.mss = None THEN s.remote_mss ELSE r.mss
             shift == IF r.scale = None THEN 1 ELSE s.remote_win_shift
             seq   == SeqAdd(r.seq, 1)
             scale == r.scale
             t     == SynOptions(s, r)
  <2>1. /\ s \in Socket /\ mss \in Nat /\ shift \in Nat \ {0}
        /\ seq \in SeqNumber /\ scale \in (Nat \ {0}) \cup {None}
    BY <1>1, <1>2
  <2>2. t = [s EXCEPT !.remote_mss = mss, !.remote_seq_no = seq,
                      !.remote_win_scale = scale, !.remote_win_shift = shift]
    BY DEF SynOptions
  <2> HIDE DEF mss, shift, seq, scale, t
  <2>3. t \in Socket
    BY <2>1, <2>2, ZenonT(60) DEF Socket
  <2>4. t.rx_buffer = s.rx_buffer /\ t.tx_buffer = s.tx_buffer /\ t.assembler = s.assembler
    BY <2>1, <2>2 DEF Socket
  <2> QED
    BY <2>3, <2>4, SMTT(60) DEF t
<1>9. Good(SynInListen(s, r, isn)) /\ Good(SynInSynSent(s, r))
  <2> DEFINE z == SynOptions(s, r)
  <2>1. Good(z)
    BY <1>8
  <2> HIDE DEF z
  <2>2. Good([z EXCEPT !.tuple = TRUE, !.local_seq_no = isn, !.remote_last_seq = isn,
                       !.state = "SynReceived", !.timer = SetForIdle(s.keep_alive)])
    BY <2>1, <1>3, ZenonT(60) DEF Socket, State
  <2>3. ASSUME NEW st \in State
        PROVE  Good([z EXCEPT !.remote_last_seq = SeqAdd(s.local_seq_no, 1),
                              !.remote_last_ack = r.seq, !.state = st])
    BY <2>1, <1>1, <1>2, ZenonT(60) DEF Socket
  <2> HIDE DEF Good
  <2> QED
    BY <2>2, <2>3, ZenonT(60) DEF SynInListen, SynInSynSent, z, State
<1> HIDE DEF Good
<1>10. \A b : Good(OnFin(s, b).sock)
  BY <1>4, <1>5, <1>6, SMTT(60) DEF OnFin, Goes, Stops, State
<1>11. \A b : Good(OnAck(s, b).sock)
  BY <1>4, <1>5, <1>6, <1>7, SMTT(60) DEF OnAck, Goes, Stops, State
<1>12. Good(Transition(s, r, isn).sock)
  BY <1>4, <1>7, <1>9, <1>10, <1>11, SMTT(60) DEF Transition, Goes, Stops
<1> QED
  BY <1>12 DEF Good

\* The number of acknowledged octets is never negative.
LEMMA AckLenType ==
  ASSUME NEW s, SocketOK(s), NEW r \in Segment
  PROVE  AckLen(s, r) \in Nat
<1> DEFINE d == SeqDiff(r.ack, TxStart(s))
<1>1. CASE ~ AcksSomething(s, r)
  BY <1>1 DEF AckLen
<1>2. CASE AcksSomething(s, r)
  <2>1. s.local_seq_no \in Int /\ Len(s.tx_buffer) \in Nat /\ r.ack \in Int
    BY SeqModAssumption, SMTT(60) DEF SocketOK, Socket, Segment, SeqNumber, None
  <2>2. TxStart(s) \in Int
    <3>1. (IF SentSyn(s) THEN 1 ELSE 0) \in Int
      OBVIOUS
    <3>2. TxStart(s) \in SeqNumber
      BY <2>1, <3>1, SeqAddType DEF TxStart
    <3> QED
      BY <3>2, SeqModAssumption DEF SeqNumber
  <2>3. d \in Int
    BY <2>1, <2>2, SeqDiffType, ZenonT(60)
  <2>4. d >= 0
    BY <1>2, <2>3 DEF AcksSomething, SeqLt
  <2>5. AckOfFin(s, r) => d = Len(s.tx_buffer) + 1
    BY DEF AckOfFin
  <2>6. AckLen(s, r) = d - (IF AckOfFin(s, r) THEN 1 ELSE 0)
    BY <1>2 DEF AckLen
  <2> HIDE DEF d
  <2> QED
    BY <2>1, <2>3, <2>4, <2>5, <2>6, SMTT(60)
<1> QED
  BY <1>1, <1>2

\* The acknowledgement only shortens tx_buffer.
LEMMA TakeAckOK ==
  ASSUME NEW s, SocketOK(s), NEW r \in Segment, NEW ackLen \in Nat
  PROVE  LET t == TakeAck(s, r, ackLen)
         IN  /\ SocketOK(t)
             /\ t.rx_buffer = s.rx_buffer /\ t.assembler = s.assembler
<1> DEFINE dup   == r.ack # None /\ IsDuplicateAck(s, r)
           count == IF dup THEN Least(s.local_rx_dup_acks + 1, DupAcksCap) ELSE 0
           win   == NewRemoteWinLen(s, r)
           buf   == SubSeq(s.tx_buffer, ackLen + 1, Len(s.tx_buffer))
           read  == (s.tx_read_at + ackLen) % TxCap
           acks  == IF r.ack = None THEN s.local_rx_dup_acks ELSE count
           last  == IF r.ack = None THEN s.local_rx_last_ack ELSE r.ack
           local == IF r.ack = None THEN s.local_seq_no ELSE r.ack
           sent  == IF r.ack = None THEN s.remote_last_seq ELSE SeqMax(s.remote_last_seq, r.ack)
           timer == IF dup /\ count = 3 THEN SetForFastRetransmit ELSE s.timer
           t     == TakeAck(s, r, ackLen)
<1>1. /\ s \in Socket /\ r.ack \in SeqNumber \cup {None} /\ s.local_rx_dup_acks \in 0 .. 4
      /\ s.tx_buffer \in Seq(Octet) /\ s.tx_read_at \in 0 .. (TxCap - 1) /\ s.timer \in Timer
      /\ s.local_rx_last_ack \in SeqNumber \cup {None} /\ s.local_seq_no \in SeqNumber
      /\ s.remote_last_seq \in SeqNumber
  BY DEF SocketOK, Socket, Segment
<1>2. win \in Nat
  <2>1. r.win \in Nat /\ s.remote_win_scale \in (Nat \ {0}) \cup {None}
    BY SizeAssumption DEF SocketOK, Socket, Segment
  <2>2. ASSUME NEW a \in Nat, NEW b \in Nat PROVE a * b \in Nat
    OBVIOUS
  <2>3. (IF r.control = "Syn" \/ s.remote_win_scale = None THEN 1 ELSE s.remote_win_scale) \in Nat
    BY <2>1
  <2> QED
    BY <2>1, <2>2, <2>3, SMTT(60) DEF NewRemoteWinLen
<1>3. buf \in Seq(Octet) /\ Len(buf) <= Len(s.tx_buffer)
  <2>1. ackLen + 1 \in Nat \ {0} /\ Len(s.tx_buffer) \in Nat
    BY <1>1, SMTT(60)
  <2>2. /\ buf \in Seq(Octet)
        /\ Len(buf) = IF ackLen + 1 <= Len(s.tx_buffer)
                        THEN Len(s.tx_buffer) - (ackLen + 1) + 1 ELSE 0
    BY <1>1, <2>1, SubSeqType, SMTT(60)
  <2> HIDE DEF buf
  <2> QED
    BY <2>1, <2>2, SMTT(60)
<1>4. read \in 0 .. (TxCap - 1)
  BY <1>1, SizeAssumption, SMTT(60)
<1>5. acks \in 0 .. 4
  BY <1>1, SMTT(60) DEF Least, DupAcksCap
<1>6. last \in SeqNumber \cup {None} /\ local \in SeqNumber /\ sent \in SeqNumber
  BY <1>1, SMTT(60) DEF SeqMax
<1>7. timer \in Timer
  BY <1>1 DEF SetForFastRetransmit, Timer
<1>8. t = [s EXCEPT !.remote_last_ts = "Recent", !.remote_win_len = win, !.tx_buffer = buf,
                    !.tx_read_at = read, !.local_rx_dup_acks = acks, !.local_rx_last_ack = last,
                    !.local_seq_no = local, !.remote_last_seq = sent, !.timer = timer]
  BY DEF TakeAck
<1> HIDE DEF dup, count, win, buf, read, acks, last, local, sent, timer, t
<1>9. t \in Socket
  BY <1>1, <1>2, <1>3, <1>4, <1>5, <1>6, <1>7, <1>8, ZenonT(60) DEF Socket
<1>10. t.rx_buffer = s.rx_buffer /\ t.assembler = s.assembler /\ t.tx_buffer = buf
  BY <1>1, <1>8 DEF Socket
<1>11. Len(t.tx_buffer) <= TxCap
  <2>1. Len(buf) \in Int /\ Len(s.tx_buffer) \in Int /\ Len(s.tx_buffer) <= TxCap
    BY <1>1, <1>3 DEF SocketOK
  <2> QED
    BY <1>3, <1>10, <2>1, SizeAssumption
<1>12. SocketOK(t)
  BY <1>9, <1>10, <1>11 DEF SocketOK, Window
<1> QED
  BY <1>10, <1>12, SMTT(60) DEF t

\* The timer stays a timer.
LEMMA UpdateTimersOK ==
  ASSUME NEW s, SocketOK(s), NEW ackAll, NEW ackLen \in Nat
  PROVE  LET t == UpdateTimers(s, ackAll, ackLen)
         IN  /\ SocketOK(t)
             /\ t.rx_buffer = s.rx_buffer /\ t.assembler = s.assembler
<1> DEFINE a == AckTimer(s.timer, s.keep_alive, ackAll, ackLen)
           p == ProbeTimer(s, a, ackLen)
           t == UpdateTimers(s, ackAll, ackLen)
<1>1. s \in Socket /\ s.timer \in Timer
  BY DEF SocketOK, Socket
<1>2. SetForIdle(s.keep_alive) \in Timer /\ SetForZeroWindowProbe \in Timer
  BY DEF SetForIdle, SetForZeroWindowProbe, Interval, Timer
<1>3. SetForRetransmit(s.timer) \in Timer
  BY <1>1 DEF SetForRetransmit, Timer
<1>4. a \in Timer
  BY <1>1, <1>2, <1>3, SMTT(60) DEF AckTimer
<1>5. p \in Timer
  BY <1>2, <1>4 DEF ProbeTimer
<1>6. t = [s EXCEPT !.timer = p]
  BY DEF UpdateTimers
<1> HIDE DEF p, t
<1>7. /\ t \in Socket
      /\ t.rx_buffer = s.rx_buffer /\ t.tx_buffer = s.tx_buffer /\ t.assembler = s.assembler
  BY <1>1, <1>5, <1>6, ZenonT(60) DEF Socket
<1>8. SocketOK(t)
  BY <1>7, FrameOK
<1> QED
  BY <1>7, <1>8, SMTT(60) DEF t

-----------------------------------------------------------------------------
(* The assembler and rx_buffer.                                            *)

\* A set of natural numbers that is not empty has a least element.
LEMMA LeastNatural ==
  ASSUME NEW T \in SUBSET Nat, T # {}
  PROVE  \E x \in T : \A y \in T : x <= y
<1> DEFINE R == {ss \in Nat \X Nat : ss[1] < ss[2]}
<1>1. IsWellFoundedOn(R, Nat)
  BY NatLessThanWellFounded DEF OpToRel
<1> HIDE DEF R
<1>2. PICK x \in T : \A y \in T : ~ (<< y, x >> \in R)
  BY <1>1, WFMin, ZenonT(60)
<1>3. \A y \in T : ~ (y < x)
  BY <1>2, ZenonT(60) DEF R
<1> QED
  BY <1>3

\* The run at the front ends inside the bound of the set, and at a hole.
LEMMA FrontLenBound ==
  ASSUME NEW w \in Nat, NEW have \in SUBSET (0 .. (w - 1))
  PROVE  /\ FrontLen(have) \in 0 .. w
         /\ FrontLen(have) \notin have
         /\ \A o \in 0 .. (FrontLen(have) - 1) : o \in have
<1> DEFINE missing == {n \in Nat : n \notin have}
           C == {0} \cup {o + 1 : o \in have}
           P(n) == n \notin have /\ \A o \in 0 .. (n - 1) : o \in have
<1>1. w \in missing
  OBVIOUS
<1>2. PICK x \in missing : \A y \in missing : x <= y
  BY <1>1, LeastNatural, ZenonT(60)
<1>3. x \in Nat /\ x <= w /\ P(x)
  BY <1>1, <1>2, SMTT(60)
<1>4. x \in C
  <2>1. CASE x = 0
    BY <2>1
  <2>2. CASE x # 0
    <3>1. x - 1 \in have
      BY <1>3, <2>2, SMTT(60)
    <3> QED
      BY <1>3, <3>1
  <2> QED
    BY <2>1, <2>2
<1>5. \E n \in C : P(n)
  BY <1>3, <1>4
<1>6. FrontLen(have) \in C /\ P(FrontLen(have))
  BY <1>5, Zenon, ZenonT(60) DEF FrontLen
<1>7. \A n \in C : n \in 0 .. w
  OBVIOUS
<1> QED
  BY <1>6, <1>7

\* What add_then_remove_front() hands over and what it keeps fit together
\* into the room there was.
LEMMA AddThenRemoveFrontBound ==
  ASSUME NEW w \in Nat, NEW have \in SUBSET (0 .. (w - 1)),
         NEW offset \in Nat, NEW size \in Nat, offset + size <= w
  PROVE  LET added == AddThenRemoveFront(have, offset, size)
         IN  /\ added.n \in 0 .. w
             /\ added.have \in SUBSET (0 .. (w - 1))
             /\ \A o \in added.have : o < w - added.n
<1> DEFINE new == have \cup Span(offset, size)
           n   == FrontLen(new)
           added == AddThenRemoveFront(have, offset, size)
<1>1. new \in SUBSET (0 .. (w - 1))
  BY DEF Span
<1>2. n \in 0 .. w
  BY <1>1, FrontLenBound, SMTT(60)
<1>3. ShiftDown(new, n) \in SUBSET (0 .. (w - 1)) /\ \A o \in ShiftDown(new, n) : o < w - n
  <2> HIDE DEF n, new
  <2> QED
    BY <1>1, <1>2, SMTT(60) DEF ShiftDown
<1>4. \/ added.n = 0 /\ added.have = have
      \/ added.n = n /\ added.have = ShiftDown(new, n)
  BY SMTT(60) DEF AddThenRemoveFront
<1> HIDE DEF new, n, added
<1>5. /\ added.n \in 0 .. w
      /\ added.have \in SUBSET (0 .. (w - 1))
      /\ \A o \in added.have : o < w - added.n
  <2>1. CASE added.n = 0 /\ added.have = have
    <3>1. \A o \in have : o < w - 0
      OBVIOUS
    <3>2. 0 \in 0 .. w
      OBVIOUS
    <3> QED
      BY <2>1, <3>1, <3>2, Zenon, ZenonT(60)
  <2>2. CASE added.n = n /\ added.have = ShiftDown(new, n)
    BY <1>2, <1>3, <2>2, SMTT(60)
  <2> QED
    BY <1>4, <2>1, <2>2, SMTT(60)
<1> QED
  BY <1>5 DEF added

\* write_unallocated() and enqueue_unallocated() stay within the free part
\* of rx_buffer.
LEMMA StoreOK ==
  ASSUME NEW s, SocketOK(s), NEW payload \in Seq(Octet), NEW offset \in Nat,
         offset + Len(payload) <= Window(s)
  PROVE  LET added == AddThenRemoveFront(s.assembler, offset, Len(payload))
         IN  SocketOK(Store(s, added, offset, payload))
<1> DEFINE added == AddThenRemoveFront(s.assembler, offset, Len(payload))
           n     == added.n
           have  == added.have
           dom   == 0 .. (RxCap - 1)
           ahead == [o \in DOMAIN s.rx_ahead |->
                       IF o \in Span(offset, Len(payload)) THEN payload[o - offset + 1]
                       ELSE s.rx_ahead[o]]
           front == [i \in 1 .. n |-> ahead[i - 1]]
           rest  == [o \in DOMAIN s.rx_ahead |->
                       IF o + n \in DOMAIN s.rx_ahead THEN ahead[o + n] ELSE 0]
           rx    == s.rx_buffer \o front
           t     == Store(s, added, offset, payload)
<1>1. /\ s \in Socket /\ s.rx_buffer \in Seq(Octet) /\ s.rx_ahead \in [dom -> Octet]
      /\ Len(s.rx_buffer) \in Nat /\ Len(payload) \in Nat /\ DOMAIN s.rx_ahead = dom
  BY DEF SocketOK, Socket
<1>2. Window(s) \in Nat /\ Window(s) <= RxCap /\ RxCap \in Nat
      /\ Window(s) = RxCap - Len(s.rx_buffer)
  BY ScaledWindowType, SizeAssumption, SMTT(60) DEF Window
<1>3. s.assembler \in SUBSET (0 .. (Window(s) - 1))
  <2>1. s.assembler \in SUBSET (0 .. (RxCap - 1)) /\ \A o \in s.assembler : o < Window(s)
    BY DEF SocketOK, Socket
  <2> QED
    BY <1>2, <2>1, SMTT(60)
<1>4. /\ n \in 0 .. Window(s)
      /\ have \in SUBSET (0 .. (Window(s) - 1))
      /\ \A o \in have : o < Window(s) - n
  BY <1>1, <1>2, <1>3, AddThenRemoveFrontBound, ZenonT(60)
<1>5. ahead \in [dom -> Octet]
  <2>1. ASSUME NEW o \in dom, o \in Span(offset, Len(payload))
        PROVE  payload[o - offset + 1] \in Octet
    <3>1. o - offset + 1 \in 1 .. Len(payload)
      BY <1>1, <2>1, SMTT(60) DEF Span
    <3> QED
      BY <3>1, SMTT(60)
  <2> QED
    BY <1>1, <2>1, ZenonT(60)
<1>6. t = [s EXCEPT !.assembler = have, !.rx_buffer = rx, !.rx_ahead = rest]
  BY DEF Store
<1> HIDE DEF added, n, have, ahead, t
<1>7. front \in Seq(Octet) /\ Len(front) = n
  <2>1. n \in Nat /\ \A i \in 1 .. n : i - 1 \in dom
    BY <1>2, <1>4, SMTT(60)
  <2>2. \A i \in 1 .. n : ahead[i - 1] \in Octet
    BY <1>5, <2>1, SMTT(60)
  <2> QED
    BY <2>1, <2>2, IsASeq, SMTT(60)
<1>8. rest \in [dom -> Octet]
  BY <1>1, <1>5, SMTT(60) DEF Octet
<1> HIDE DEF front, rest
<1>9. rx \in Seq(Octet) /\ Len(rx) = Len(s.rx_buffer) + n
  <2>1. rx \in Seq(Octet) /\ Len(rx) = Len(s.rx_buffer) + Len(front)
    BY <1>1, <1>7, ConcatProperties, ZenonT(60)
  <2> QED
    BY <1>7, <2>1, SMTT(60)
<1>10. have \in SUBSET (0 .. (RxCap - 1))
  BY <1>2, <1>4
<1> HIDE DEF rx
<1>11. t \in Socket
  <2>1. rx \in Seq(Octet) /\ rest \in [0 .. (RxCap - 1) -> Octet] /\ s \in Socket
    BY <1>1, <1>8, <1>9
  <2> QED
    BY <1>6, <1>10, <2>1, ZenonT(60) DEF Socket
<1>12. t.rx_buffer = rx /\ t.tx_buffer = s.tx_buffer /\ t.assembler = have
  BY <1>1, <1>6 DEF Socket
<1>13. Len(rx) <= RxCap /\ RxCap - Len(rx) = Window(s) - n
  BY <1>1, <1>2, <1>4, <1>9, SMTT(60)
<1>14. SocketOK(t)
  BY <1>4, <1>11, <1>12, <1>13, ZenonT(60) DEF SocketOK, Window
<1> QED
  BY <1>14, SMTT(60) DEF t, added

\* Arming or forcing the delayed ACK touches its timer only.
LEMMA DelayAckOK ==
  ASSUME NEW s, SocketOK(s)
  PROVE  SocketOK(DelayAck(s))
<1> DEFINE delay == CASE s.ack_delay_timer = "Idle" -> "Waiting"
                      [] s.ack_delay_timer # "Idle" /\ ImmediateAckToTransmit(s) -> "Immediate"
                      [] OTHER -> s.ack_delay_timer
           t == [s EXCEPT !.ack_delay_timer = delay]
<1>1. s \in Socket /\ s.ack_delay_timer \in AckDelayTimer
  BY DEF SocketOK, Socket
<1>2. delay \in AckDelayTimer
  BY <1>1 DEF AckDelayTimer
<1>3. DelayAck(s) = t \/ DelayAck(s) = s
  BY DEF DelayAck
<1> HIDE DEF delay
<1>4. /\ t \in Socket
      /\ t.rx_buffer = s.rx_buffer /\ t.tx_buffer = s.tx_buffer /\ t.assembler = s.assembler
  BY <1>1, <1>2, ZenonT(60) DEF Socket
<1> QED
  BY <1>3, <1>4, FrameOK, ZenonT(60)

\* Storing the payload keeps the rings within their capacity.
LEMMA TakePayloadOK ==
  ASSUME NEW s, SocketOK(s), NEW payload \in Seq(Octet), NEW offset \in Nat,
         offset + Len(payload) <= Window(s)
  PROVE  OutcomeOK(TakePayload(s, offset, payload))
<1> DEFINE added  == AddThenRemoveFront(s.assembler, offset, Len(payload))
           stored == DelayAck(Store(s, added, offset, payload))
<1>1. SocketOK(stored)
  BY StoreOK, DelayAckOK
<1>2. OutcomeOK(AckReply(stored)) /\ OutcomeOK(Outcome(stored, << >>))
  BY <1>1, AckReplyOK, SMTT(60) DEF OutcomeOK, Outcome
<1>3. OutcomeOK(Outcome(s, << >>))
  BY DEF OutcomeOK, Outcome
<1> QED
  BY <1>2, <1>3 DEF TakePayload

\* The part of an acceptable segment that overlaps the window lies in it.
LEMMA WindowPayloadBound ==
  ASSUME NEW s, SocketOK(s), NEW r \in Segment, Synchronized(s) => SegmentInWindow(s, r)
  PROVE  /\ WindowPayload(s, r) \in Seq(Octet)
         /\ PayloadOffset(s, r) \in Nat
         /\ PayloadOffset(s, r) + Len(WindowPayload(s, r)) <= Window(s)
<1> DEFINE pos == SegmentPos(s, r)
           w   == Window(s)
           len == Len(r.payload)
           m   == Greatest(-pos, 0) + 1
           n   == Least(len, w - pos)
<1>1. w \in Nat /\ r.payload \in Seq(Octet) /\ len \in Nat
  BY ScaledWindowType DEF Segment
<1>2. CASE ~ Synchronized(s)
  BY <1>1, <1>2, SMTT(60) DEF WindowPayload, PayloadOffset
<1>3. CASE Synchronized(s)
  <2>1. pos \in Int
    <3>1. r.seq \in Int /\ NextAck(s) \in Int
      BY NextAckType, SeqModAssumption, SMTT(60) DEF Segment, SeqNumber
    <3> QED
      BY <3>1, SeqDiffType, ZenonT(60) DEF SegmentPos
  <2>2. pos <= w
    BY <1>1, <1>3, <2>1, EmptySeq, SMTT(60) DEF SegmentInWindow
  <2>3. /\ WindowPayload(s, r) = SubSeq(r.payload, m, n)
        /\ PayloadOffset(s, r) = Greatest(pos, 0)
    BY <1>3, ZenonT(60) DEF WindowPayload, PayloadOffset
  <2> HIDE DEF pos, w, len
  <2>4. m \in Nat \ {0} /\ n \in Int /\ n <= len
    BY <1>1, <2>1, SMTT(60) DEF Greatest, Least
  <2>5. /\ SubSeq(r.payload, m, n) \in Seq(Octet)
        /\ Len(SubSeq(r.payload, m, n)) = IF m <= n THEN n - m + 1 ELSE 0
    <3> HIDE DEF m, n
    <3> QED
      BY <1>1, <2>4, SubSeqType, SMTT(60) DEF len
  <2>6. /\ Greatest(pos, 0) \in Nat
        /\ Greatest(pos, 0) + (IF m <= n THEN n - m + 1 ELSE 0) <= w
    BY <1>1, <2>1, <2>2, SMTT(60) DEF Greatest, Least
  <2> QED
    BY <2>3, <2>5, <2>6, SMTT(60) DEF w
<1> QED
  BY <1>2, <1>3, SMTT(60)

\* The part of process() after the window checks keeps the types.
LEMMA ProcessAcceptedOK ==
  ASSUME NEW s, SocketOK(s), NEW r \in Segment, NEW isn \in SeqNumber,
         Synchronized(s) => SegmentInWindow(s, r)
  PROVE  OutcomeOK(ProcessAccepted(s, r, isn))
<1> DEFINE moved == Transition(s, r, isn)
           taken == TakeAck(moved.sock, r, AckLen(s, r))
           acked == UpdateTimers(taken, AckAll(s, r), AckLen(s, r))
<1>1. SocketOK(moved.sock) /\ moved.sock.rx_buffer = s.rx_buffer
  BY TransitionOK, FrameOK, SMTT(60)
<1>2. AckLen(s, r) \in Nat
  BY AckLenType, SMTT(60)
<1> HIDE DEF moved
<1>3. SocketOK(taken) /\ taken.rx_buffer = s.rx_buffer
  BY <1>1, <1>2, TakeAckOK, SMTT(60)
<1> HIDE DEF taken
<1>4. SocketOK(acked) /\ acked.rx_buffer = s.rx_buffer
  BY <1>2, <1>3, UpdateTimersOK, SMTT(60)
<1> HIDE DEF acked
<1>5. Window(acked) = Window(s)
  BY <1>4, SMTT(60) DEF Window
<1>6. OutcomeOK(TakePayload(acked, PayloadOffset(s, r), WindowPayload(s, r)))
  BY <1>4, <1>5, WindowPayloadBound, TakePayloadOK, SMTT(60)
<1>7. OutcomeOK(Outcome(moved.sock, << >>))
  BY <1>1 DEF OutcomeOK, Outcome
<1> QED
  BY <1>6, <1>7, SMTT(60) DEF ProcessAccepted, moved, taken, acked

\* Whatever arrives, process_tcp() leaves a good socket and sends segments.
LEMMA ProcessTcpOK ==
  ASSUME NEW s, SocketOK(s), NEW r \in Segment, NEW isn \in SeqNumber
  PROVE  OutcomeOK(ProcessTcp(s, r, isn))
<1>1. OutcomeOK(Outcome(s, << >>))
  BY DEF OutcomeOK, Outcome
<1>2. OutcomeOK(Outcome(s, << RstReply(r) >>))
  <2>1. << RstReply(r) >> \in Seq(Segment)
    BY RstReplyOK
  <2> QED
    BY <2>1 DEF OutcomeOK, Outcome
<1>3. OutcomeOK(ChallengeAckReply(s))
  BY ChallengeAckReplyOK
<1>4. OutcomeOK(OutOfWindow(s))
  <2> DEFINE t == [s EXCEPT !.timer = SetForClose]
  <2>1. s \in Socket /\ SetForClose \in Timer
    BY DEF SocketOK, SetForClose, Timer
  <2>2. /\ t \in Socket
        /\ t.rx_buffer = s.rx_buffer /\ t.tx_buffer = s.tx_buffer /\ t.assembler = s.assembler
    BY <2>1, ZenonT(60) DEF Socket
  <2>3. OutcomeOK(ChallengeAckReply(t))
    BY <2>2, FrameOK, ChallengeAckReplyOK, ZenonT(60)
  <2> QED
    BY <1>3, <2>3, SMTT(60) DEF OutOfWindow
<1>5. (Synchronized(s) => SegmentInWindow(s, r)) => OutcomeOK(ProcessAccepted(s, r, isn))
  BY ProcessAcceptedOK
<1>6. AckVerdict(s, r) \in {"Accept", "Drop", "Reset", "Challenge"}
  BY DEF AckVerdict
<1>7. OutcomeOK(Process(s, r, isn))
  BY <1>1, <1>2, <1>3, <1>4, <1>5, <1>6, SMTT(60) DEF Process
<1> QED
  BY <1>1, <1>2, <1>7, SMTT(60) DEF ProcessTcp

-----------------------------------------------------------------------------
(* dispatch().                                                             *)

\* The timer handling at the start of dispatch() keeps the types.
LEMMA PreDispatchOK ==
  ASSUME NEW s, SocketOK(s)
  PROVE  SocketOK(PreDispatch(s))
<1> DEFINE ts == IF s.remote_last_ts = "None" THEN "Recent" ELSE s.remote_last_ts
           t  == StartTimeout(s)
<1>1. s \in Socket /\ ts \in {"None", "Recent", "Stale"}
  BY DEF SocketOK, Socket
<1>2. t = [s EXCEPT !.remote_last_ts = ts]
  BY DEF StartTimeout
<1> HIDE DEF ts, t
<1>3. /\ t \in Socket
      /\ t.rx_buffer = s.rx_buffer /\ t.tx_buffer = s.tx_buffer /\ t.assembler = s.assembler
  BY <1>1, <1>2, ZenonT(60) DEF Socket
<1>4. SocketOK(t)
  BY <1>3, FrameOK
<1>5. SocketOK(SetState(t, "Closed"))
  BY <1>4, CallsOK, SeqAddType DEF AbortCall
<1>6. SocketOK(Rewind(t))
  <2> DEFINE u == Rewind(t)
             i == SetForIdle(t.keep_alive)
             l == t.local_seq_no
  <2>1. i \in Timer /\ l \in SeqNumber
    BY <1>3 DEF SetForIdle, Interval, Timer, Socket
  <2>2. u = [t EXCEPT !.remote_last_seq = l, !.timer = i]
    BY DEF Rewind
  <2> HIDE DEF u, i, l
  <2>3. /\ u \in Socket
        /\ u.rx_buffer = t.rx_buffer /\ u.tx_buffer = t.tx_buffer /\ u.assembler = t.assembler
    BY <1>3, <2>1, <2>2, ZenonT(60) DEF Socket
  <2> QED
    BY <1>4, <2>3, FrameOK DEF u
<1> QED
  BY <1>4, <1>5, <1>6, SMTT(60) DEF PreDispatch, t

\* What dispatch() sends is a segment, unless it panics.
LEMMA ReprOK ==
  ASSUME NEW s, SocketOK(s), ~ (SendsData(s) /\ TxOffset(s) < 0)
  PROVE  Repr(s) \in Segment
<1> DEFINE e == EmptyAck(s)
<1>1. /\ s \in Socket /\ NextAck(s) \in SeqNumber /\ ScaledWindow(s) \in 0 .. WinMax
      /\ Window(s) \in Nat /\ s.remote_last_seq \in SeqNumber /\ s.local_seq_no \in SeqNumber
      /\ s.remote_win_shift \in Nat \ {0} /\ s.tx_buffer \in Seq(Octet)
      /\ Len(s.tx_buffer) \in Nat /\ s.remote_mss \in Nat /\ s.remote_win_len \in Nat
      /\ s.tx_read_at \in Nat
  <2>1. /\ NextAck(s) \in SeqNumber /\ ScaledWindow(s) \in 0 .. WinMax
        /\ Window(s) \in Nat
    BY NextAckType, ScaledWindowType
  <2>2. /\ s \in Socket /\ s.remote_last_seq \in SeqNumber /\ s.local_seq_no \in SeqNumber
        /\ s.remote_win_shift \in Nat \ {0} /\ s.tx_buffer \in Seq(Octet)
        /\ s.remote_mss \in Nat /\ s.remote_win_len \in Nat
        /\ s.tx_read_at \in 0 .. (TxCap - 1)
    BY SMTT(60) DEF SocketOK, Socket
  <2> QED
    BY <2>1, <2>2
<1>2. e \in Segment
  BY <1>1 DEF EmptyAck, Segment, Control
<1>3. [e EXCEPT !.control = "Rst"] \in Segment
  BY <1>2 DEF Segment, Control
<1>4. SynRepr(s) \in Segment
  <2> DEFINE seq   == s.local_seq_no
             win   == Least(Window(s), WinMax)
             ack   == IF s.state = "SynSent" THEN None ELSE e.ack
             scale == IF s.state = "SynSent" \/ s.remote_win_scale # None
                        THEN s.remote_win_shift ELSE None
             t     == SynRepr(s)
  <2>1. /\ seq \in SeqNumber /\ win \in 0 .. WinMax /\ LocalMss \in Nat
        /\ ack \in SeqNumber \cup {None} /\ scale \in (Nat \ {0}) \cup {None}
    BY <1>1, <1>2, SizeAssumption, SMTT(60) DEF Least, Segment
  <2>2. t = [e EXCEPT !.control = "Syn", !.seq = seq, !.win = win, !.ack = ack,
                      !.scale = scale, !.mss = LocalMss]
    BY DEF SynRepr
  <2> HIDE DEF e, seq, win, ack, scale, t
  <2>3. t \in Segment
    BY <1>2, <2>1, <2>2, ZenonT(60) DEF Segment, Control
  <2> QED
    BY <2>3, SMTT(60) DEF t
<1>5. ASSUME NEW offset \in Nat, NEW size \in Int
      PROVE  GetAllocated(s, offset, size) \in Seq(Octet)
  <2> DEFINE toEnd == TxCap - ((s.tx_read_at + offset) % TxCap)
             n     == offset + Least(Least(size, toEnd), Len(s.tx_buffer) - offset)
  <2>1. toEnd \in Int
    BY <1>1, SizeAssumption, SMTT(60)
  <2>2. n \in Int /\ n <= Len(s.tx_buffer) /\ offset + 1 \in Nat \ {0}
    <3> HIDE DEF toEnd
    <3> QED
      BY <1>1, <2>1, SMTT(60) DEF Least
  <2>3. GetAllocated(s, offset, size) = SubSeq(s.tx_buffer, offset + 1, n)
    BY DEF GetAllocated
  <2> HIDE DEF n
  <2> QED
    BY <1>1, <2>2, <2>3, SubSeqType, SMTT(60)
<1>6. ASSUME SendsData(s) PROVE DataRepr(s) \in Segment
  <2> DEFINE limit   == IF IsZeroWindowProbeRepr(s) THEN 1 ELSE Unsent(s, s.remote_win_len)
             size    == Least(limit, Least(s.remote_mss, LocalMss))
             payload == GetAllocated(s, TxOffset(s), size)
             last    == TxOffset(s) + Len(payload) = Len(s.tx_buffer)
             control == CASE last /\ WantFin(s) -> "Fin"
                          [] last /\ ~ WantFin(s) /\ payload # << >> -> "Psh"
                          [] OTHER -> "None"
             t == DataRepr(s)
  <2>1. TxOffset(s) \in Nat
    <3>1. TxOffset(s) \in Int
      BY <1>1, SeqDiffType, SeqNumberInt, ZenonT(60) DEF TxOffset
    <3> QED
      BY <1>6, <3>1
  <2>2. limit \in Int
    <3>1. SeqAdd(s.local_seq_no, s.remote_win_len) \in SeqNumber
      <4>1. s.local_seq_no \in Int /\ s.remote_win_len \in Int
        BY <1>1, SeqNumberInt
      <4> QED
        BY <4>1, SeqAddType, SMTT(60)
    <3>2. SeqDiff(SeqAdd(s.local_seq_no, s.remote_win_len), s.remote_last_seq) \in Int
      BY <1>1, <3>1, SeqDiffType, SeqNumberInt, ZenonT(60)
    <3>3. \A d \in Int : Greatest(d, 0) \in Int
      BY DEF Greatest
    <3>4. Unsent(s, s.remote_win_len) \in Int
      BY <3>2, <3>3, SMTT(60) DEF Unsent
    <3> QED
      BY <3>4
  <2>3. size \in Int
    <3> HIDE DEF limit
    <3> QED
      BY <1>1, <2>2, SizeAssumption, SMTT(60) DEF Least
  <2> HIDE DEF size
  <2>4. payload \in Seq(Octet)
    BY <1>5, <2>1, <2>3, SMTT(60)
  <2>5. control \in Control
    BY DEF Control
  <2>6. t = [e EXCEPT !.payload = payload, !.control = control]
    BY DEF DataRepr, size
  <2> HIDE DEF e, payload, control, t
  <2>7. t \in Segment
    BY <1>2, <2>4, <2>5, <2>6, ZenonT(60) DEF Segment
  <2> QED
    BY <2>7 DEF t
<1>7. PlainRepr(s) \in Segment
  BY <1>2, <1>3, <1>4, <1>6, SMTT(60) DEF PlainRepr
<1>8. [PlainRepr(s) EXCEPT !.seq = SeqAdd(PlainRepr(s).seq, -1), !.payload = << 0 >>] \in Segment
  <2> DEFINE p   == PlainRepr(s)
             seq == SeqAdd(p.seq, -1)
  <2>1. p.seq \in Int
    BY <1>7, SeqModAssumption, SMTT(60) DEF Segment, SeqNumber
  <2>2. seq \in SeqNumber
    BY <2>1, SeqAddType, SMTT(60)
  <2>3. << 0 >> \in Seq(Octet)
    BY DEF Octet
  <2> HIDE DEF p, seq
  <2>4. [p EXCEPT !.seq = seq, !.payload = << 0 >>] \in Segment
    BY <1>7, <2>2, <2>3, ZenonT(60) DEF Segment, p
  <2> QED
    BY <2>4 DEF p, seq
<1> QED
  BY <1>7, <1>8 DEF Repr

\* Sending changes no buffer.
LEMMA PostEmitOK ==
  ASSUME NEW s, SocketOK(s), Repr(s) \in Segment
  PROVE  SocketOK(PostEmit(s))
<1> DEFINE Good(t) == /\ t \in Socket
                      /\ t.rx_buffer = s.rx_buffer /\ t.tx_buffer = s.tx_buffer
                      /\ t.assembler = s.assembler
           k == RewindKeepAlive(s.timer, s.keep_alive)
           e == Emitted(s)
           r == Repr(s)
<1>1. s \in Socket /\ s.timer \in Timer
  BY SMTT(60) DEF SocketOK, Socket
<1>2. k \in Timer
  BY <1>1 DEF RewindKeepAlive, SetForIdle, Interval, Timer
<1>3. e = [s EXCEPT !.timer = k, !.ack_delay_timer = "Idle"]
  BY DEF Emitted
<1> HIDE DEF k, e, r
<1>4. Good(e)
  BY <1>1, <1>2, <1>3, ZenonT(60) DEF Socket, AckDelayTimer
<1>5. e.timer \in Timer /\ e.tuple \in BOOLEAN
  BY <1>4 DEF Socket
<1>6. Good([e EXCEPT !.timer = RewindZeroWindowProbe(e.timer)])
  <2> DEFINE p == RewindZeroWindowProbe(e.timer)
  <2>1. p \in Timer
    BY <1>5 DEF RewindZeroWindowProbe, SetForZeroWindowProbe, Timer
  <2> HIDE DEF p
  <2>2. Good([e EXCEPT !.timer = p])
    BY <1>4, <2>1, ZenonT(60) DEF Socket
  <2> QED
    BY <2>2 DEF p
<1>7. Good(Advanced(e, r))
  <2> DEFINE seq   == SeqAdd(r.seq, SegmentLen(r))
             ack   == r.ack
             win   == r.win
             timer == IF SegmentLen(r) > 0 /\ ~ IsRetransmit(e.timer)
                        THEN SetForRetransmit(e.timer) ELSE e.timer
             tuple == e.state # "Closed"
             t     == Advanced(e, r)
  <2>1. r.seq \in Int /\ SegmentLen(r) \in Int /\ r \in Segment
    <3>1. r \in Segment
      BY DEF r
    <3> QED
      BY <3>1, SeqNumberInt, SMTT(60) DEF Segment, SegmentLen, ControlLen
  <2>2. seq \in SeqNumber
    BY <2>1, SeqAddType, SMTT(60)
  <2>3. ack \in SeqNumber \cup {None} /\ win \in 0 .. WinMax
    BY <2>1, SMTT(60) DEF Segment
  <2>4. timer \in Timer
    <3>1. SetForRetransmit(e.timer) \in Timer
      BY <1>5, SMTT(60) DEF SetForRetransmit, Timer
    <3> QED
      BY <1>5, <3>1, SMTT(60)
  <2>5. tuple \in BOOLEAN
    OBVIOUS
  <2>6. t = [e EXCEPT !.remote_last_seq = seq, !.remote_last_ack = ack, !.remote_last_win = win,
                      !.timer = timer, !.tuple = tuple]
    BY DEF Advanced
  <2> HIDE DEF seq, ack, win, timer, tuple, t
  <2>7. t \in Socket
    BY <1>4, <2>2, <2>3, <2>4, <2>5, <2>6, ZenonT(60) DEF Socket
  <2>8. t.rx_buffer = e.rx_buffer /\ t.tx_buffer = e.tx_buffer /\ t.assembler = e.assembler
    BY <1>4, <2>6 DEF Socket
  <2>9. Good(t)
    BY <1>4, <2>7, <2>8
  <2> QED
    BY <2>9, SMTT(60) DEF t
<1> HIDE DEF Good
<1>8. Good(PostEmit(s))
  BY <1>4, <1>6, <1>7 DEF PostEmit, e, r
<1> QED
  BY <1>8, FrameOK, SMTT(60) DEF Good

\* dispatch() that does not panic leaves a good socket and sends segments.
LEMMA DispatchOK ==
  ASSUME NEW s, SocketOK(s), ~ DispatchPanics(s)
  PROVE  OutcomeOK(Dispatch(s)) /\ SocketOK(DispatchExhausted(s))
<1> DEFINE t == PreDispatch(s)
<1>1. SocketOK(t) /\ t \in Socket
  BY PreDispatchOK, SMTT(60) DEF SocketOK
<1>2. HasReasonToSend(t) => ~ (SendsData(t) /\ TxOffset(t) < 0)
  BY SMTT(60) DEF DispatchPanics
<1> HIDE DEF t
<1>3. ASSUME HasReasonToSend(t) PROVE OutcomeOK(Outcome(PostEmit(t), << Repr(t) >>))
  <2>1. Repr(t) \in Segment
    BY <1>1, <1>2, <1>3, ReprOK, SMTT(60)
  <2>2. SocketOK(PostEmit(t)) /\ << Repr(t) >> \in Seq(Segment)
    BY <1>1, <2>1, PostEmitOK, SMTT(60)
  <2> QED
    BY <2>2 DEF OutcomeOK, Outcome
<1>4. OutcomeOK(Outcome(Reset(t), << >>)) /\ OutcomeOK(Outcome(t, << >>))
  BY <1>1, ResetOK, SMTT(60) DEF OutcomeOK, Outcome
<1>5. OutcomeOK(Dispatch(s))
  BY <1>3, <1>4, SMTT(60) DEF Dispatch, t
<1>6. SocketOK(DispatchExhausted(s))
  BY <1>1, <1>5, SMTT(60) DEF DispatchExhausted, OutcomeOK, t
<1> QED
  BY <1>5, <1>6, SMTT(60)

-----------------------------------------------------------------------------
(* The connection.                                                         *)

\* TypeOK, said of one socket at a time.
Sockets == sock \in [Node -> Socket] /\ \A n \in Node : SocketOK(sock[n])

Others ==
  /\ net \in [Node -> Seq(Segment)]
  /\ opens \in [Node -> Nat] /\ written \in [Node -> Nat]
  /\ delivered \in [Node -> Seq(Octet)]
  /\ faults \in Nat

\* The invariant, split into what concerns the sockets and the rest.
LEMMA TypeOKParts == TypeOK <=> Sockets /\ Others
BY SMTT(60) DEF TypeOK, Sockets, Others, SocketOK

\* A new socket has the right types.
LEMMA InitTypeOK == Init => TypeOK
<1> SUFFICES ASSUME Init PROVE TypeOK
  OBVIOUS
<1>1. SocketOK(SocketNew(Timeout, FALSE, AckDelay, Nagle))
  BY SocketNewOK, ConnectionAssumption, ZenonT(60)
<1>2. Sockets
  BY <1>1, ZenonT(60) DEF Init, Sockets, SocketOK
<1>3. Others
  BY DEF Init, Others
<1> QED
  BY <1>2, <1>3, TypeOKParts

\* A step of one node that leaves it a good socket.
LEMMA StepSockets ==
  ASSUME Sockets, NEW n \in Node, NEW s, SocketOK(s), sock' = [sock EXCEPT ![n] = s]
  PROVE  Sockets'
<1>1. s \in Socket
  BY SMTT(60) DEF SocketOK
<1>2. sock' \in [Node -> Socket]
  BY <1>1, SMTT(60) DEF Sockets
<1>3. \A m \in Node : SocketOK(sock'[m])
  BY SMTT(60) DEF Sockets
<1> QED
  BY <1>2, <1>3, SMTT(60) DEF Sockets

\* Every step keeps the types.
LEMMA NextParts == Sockets /\ Others /\ [Next]_vars => Sockets' /\ Others'
<1> SUFFICES ASSUME Sockets, Others, [Next]_vars
             PROVE  Sockets' /\ Others'
  BY SMTT(60)
<1>1. CASE UNCHANGED vars
  BY <1>1 DEF vars, Sockets, Others, SocketOK, Window
<1>2. ASSUME NEW n \in Node, Listen(n) \/ Connect(n)
      PROVE  Sockets' /\ Others'
  <2>0. SocketOK(sock[n]) /\ Isn[n] \in SeqNumber
    BY ConnectionAssumption, SMTT(60) DEF Sockets
  <2>1. PICK s : SocketOK(s) /\ Opens(n, s)
    BY <1>2, <2>0, CallsOK, SMTT(60) DEF Listen, Connect
  <2>2. Sockets'
    BY <2>1, StepSockets, ZenonT(60) DEF Opens
  <2>3. Others'
    BY <2>1, SMTT(60) DEF Opens, Others
  <2> QED
    BY <2>2, <2>3, SMTT(60)
<1>3. ASSUME NEW n \in Node, Close(n) \/ Abort(n) \/ SetKeepAlive(n)
      PROVE  Sockets' /\ Others'
  <2>0. SocketOK(sock[n]) /\ Isn[n] \in SeqNumber /\ sock \in [Node -> Socket]
    BY ConnectionAssumption, SMTT(60) DEF Sockets
  <2>1. PICK s : SocketOK(s) /\ sock' = [sock EXCEPT ![n] = s]
    BY <1>3, <2>0, CallsOK, SMTT(60) DEF Close, Abort, SetKeepAlive
  <2>2. Sockets'
    BY <2>1, StepSockets, ZenonT(60)
  <2> QED
    BY <1>3, <2>2, SMTT(60) DEF Close, Abort, SetKeepAlive, Others
<1>4. ASSUME NEW n \in Node, Send(n)
      PROVE  Sockets' /\ Others'
  <2> DEFINE k    == Least(Writes[n] - written[n], TxCap - Len(sock[n].tx_buffer))
             data == [i \in 1 .. k |-> written[n] + i]
  <2>1. /\ SocketOK(sock[n]) /\ Writes[n] \in Nat /\ written[n] \in Nat
        /\ Len(sock[n].tx_buffer) \in Nat /\ Len(sock[n].tx_buffer) <= TxCap
    <3>1. SocketOK(sock[n]) /\ Writes[n] \in Nat /\ written[n] \in Nat
      BY ConnectionAssumption, SMTT(60) DEF Sockets, Others
    <3>2. sock[n] \in Socket /\ Len(sock[n].tx_buffer) <= TxCap
      BY <3>1, SMTT(60) DEF SocketOK
    <3>3. sock[n].tx_buffer \in Seq(Octet)
      BY <3>2, SMTT(60) DEF Socket
    <3> QED
      BY <3>1, <3>2, <3>3, LenProperties, SMTT(60)
  <2>2. /\ k > 0 /\ sock' = [sock EXCEPT ![n] = SendCall(sock[n], data)]
        /\ written' = [written EXCEPT ![n] = written[n] + k]
        /\ UNCHANGED << net, opens, delivered, faults >>
    BY <1>4, SMTT(60) DEF Send
  <2>3. k \in Nat /\ Len(sock[n].tx_buffer) + k <= TxCap
    BY <2>1, <2>2, SizeAssumption, SMTT(60) DEF Least
  <2> HIDE DEF k
  <2>4. data \in Seq(Octet) /\ Len(data) = k
    <3>1. \A i \in 1 .. k : written[n] + i \in Octet
      BY <2>1, <2>3, SMTT(60) DEF Octet
    <3> QED
      BY <2>3, <3>1, IsASeq
  <2> HIDE DEF data
  <2>5. SocketOK(SendCall(sock[n], data))
    BY <2>1, <2>3, <2>4, SendCallOK, ZenonT(60)
  <2>6. Sockets'
    BY <2>2, <2>5, StepSockets, ZenonT(60)
  <2>7. Others'
    BY <2>1, <2>2, <2>3, SMTT(60) DEF Others
  <2> QED
    BY <2>6, <2>7
<1>5. ASSUME NEW n \in Node, Recv(n)
      PROVE  Sockets' /\ Others'
  <2>1. PICK k \in 1 .. Len(sock[n].rx_buffer) :
          /\ sock' = [sock EXCEPT ![n] = RecvCall(sock[n], k)]
          /\ delivered' = [delivered EXCEPT ![n] = @ \o SubSeq(sock[n].rx_buffer, 1, k)]
    BY <1>5, ZenonT(60) DEF Recv
  <2>2. SocketOK(sock[n]) /\ sock[n].rx_buffer \in Seq(Octet) /\ delivered[n] \in Seq(Octet)
    BY ZenonT(60) DEF Sockets, Others, SocketOK, Socket
  <2>3. Sockets'
    BY <2>1, <2>2, RecvCallOK, StepSockets, ZenonT(60)
  <2>4. SubSeq(sock[n].rx_buffer, 1, k) \in Seq(Octet)
    <3>1. k \in Int /\ k <= Len(sock[n].rx_buffer) /\ 1 \in Nat \ {0}
      BY <2>2, SMTT(60)
    <3> QED
      BY <2>2, <3>1, SubSeqType, SMTT(60)
  <2>5. delivered[n] \o SubSeq(sock[n].rx_buffer, 1, k) \in Seq(Octet)
    BY <2>2, <2>4, ConcatProperties, SMTT(60)
  <2>6. delivered' \in [Node -> Seq(Octet)]
    BY <2>1, <2>5, SMTT(60) DEF Others
  <2>7. Others'
    BY <1>5, <2>6, SMTT(60) DEF Recv, Others
  <2> QED
    BY <2>3, <2>7, SMTT(60)
<1>6. ASSUME NEW n \in Node, NEW rest \in Seq(Segment), net[n] # << >>, Ingress(n, rest)
      PROVE  /\ Sockets' /\ net' \in [Node -> Seq(Segment)]
             /\ UNCHANGED << opens, written, delivered >>
  <2> DEFINE out == ProcessTcp(sock[n], Head(net[n]), Isn[n])
  <2>1. /\ SocketOK(sock[n]) /\ Isn[n] \in SeqNumber /\ net \in [Node -> Seq(Segment)]
        /\ Peer(n) \in Node
    BY ConnectionAssumption, SMTT(60) DEF Sockets, Others, Peer, Node
  <2>2. Head(net[n]) \in Segment
    BY <1>6, <2>1, SMTT(60)
  <2>3. OutcomeOK(out)
    BY <2>1, <2>2, ProcessTcpOK, SMTT(60)
  <2>4. /\ sock' = [sock EXCEPT ![n] = out.sock]
        /\ net' = [net EXCEPT ![n] = rest, ![Peer(n)] = Room(@, out.segments)]
        /\ UNCHANGED << opens, written, delivered >>
    BY <1>6 DEF Ingress
  <2> HIDE DEF out
  <2>5. Sockets'
    BY <2>3, <2>4, StepSockets, ZenonT(60) DEF OutcomeOK
  <2>6. ASSUME NEW q \in Seq(Segment) PROVE Room(q, out.segments) \in Seq(Segment)
    BY <2>3, ConcatProperties, SMTT(60) DEF OutcomeOK, Room
  <2>7. net' \in [Node -> Seq(Segment)]
    BY <2>1, <2>4, <2>6, SMTT(60)
  <2> QED
    BY <2>4, <2>5, <2>7, SMTT(60)
<1>7. ASSUME NEW n \in Node, Receive(n)
      PROVE  Sockets' /\ Others'
  <2>1. net[n] \in Seq(Segment) /\ net[n] # << >>
    BY <1>7, SMTT(60) DEF Others, Receive
  <2>2. Tail(net[n]) \in Seq(Segment)
    BY <2>1, SMTT(60)
  <2> QED
    BY <1>6, <1>7, <2>1, <2>2, ZenonT(60) DEF Receive, Others
<1>8. ASSUME NEW n \in Node, Duplicate(n)
      PROVE  Sockets' /\ Others'
  <2>1. net[n] \in Seq(Segment) /\ net[n] # << >> /\ faults' \in Nat
    BY <1>8, SMTT(60) DEF Others, Duplicate, Fault
  <2> QED
    BY <1>6, <1>8, <2>1, SMTT(60) DEF Duplicate, Others
<1>9. ASSUME NEW n \in Node, Transmit(n)
      PROVE  Sockets' /\ Others'
  <2> DEFINE out == Dispatch(sock[n])
  <2>1. /\ SocketOK(sock[n]) /\ net \in [Node -> Seq(Segment)] /\ Peer(n) \in Node
    BY SMTT(60) DEF Sockets, Others, Peer, Node
  <2>2. OutcomeOK(out)
    BY <1>9, <2>1, DispatchOK, SMTT(60) DEF Transmit, CanTransmit
  <2>3. /\ sock' = [sock EXCEPT ![n] = out.sock]
        /\ net' = [net EXCEPT ![Peer(n)] = @ \o out.segments]
        /\ UNCHANGED << opens, written, delivered, faults >>
    BY <1>9 DEF Transmit
  <2> HIDE DEF out
  <2>4. Sockets'
    BY <2>2, <2>3, StepSockets, ZenonT(60) DEF OutcomeOK
  <2>5. net[Peer(n)] \o out.segments \in Seq(Segment)
    BY <2>1, <2>2, ConcatProperties, SMTT(60) DEF OutcomeOK
  <2>6. net' \in [Node -> Seq(Segment)]
    BY <2>1, <2>3, <2>5, SMTT(60)
  <2> QED
    BY <2>3, <2>4, <2>6, SMTT(60) DEF Others
<1>10. ASSUME NEW n \in Node, TransmitExhausted(n)
       PROVE  Sockets' /\ Others'
  <2>1. SocketOK(sock[n])
    BY SMTT(60) DEF Sockets
  <2>2. SocketOK(DispatchExhausted(sock[n]))
    BY <1>10, <2>1, DispatchOK, SMTT(60) DEF TransmitExhausted
  <2>3. Sockets'
    BY <1>10, <2>2, StepSockets, ZenonT(60) DEF TransmitExhausted
  <2> QED
    BY <1>10, <2>3, SMTT(60) DEF TransmitExhausted, Others
<1>11. ASSUME NEW n \in Node,
              ElapseTimer(n) \/ ElapseAckDelay(n) \/ ElapseChallengeAck(n) \/ ElapseTimeout(n)
       PROVE  Sockets' /\ Others'
  <2>1. SocketOK(sock[n])
    BY DEF Sockets
  <2>2. PICK s : SocketOK(s) /\ Elapse(n, s)
    BY <1>11, <2>1, ElapseOK, SMTT(60)
    DEF ElapseTimer, ElapseAckDelay, ElapseChallengeAck, ElapseTimeout
  <2>3. Sockets'
    BY <2>2, StepSockets, ZenonT(60) DEF Elapse
  <2> QED
    BY <2>2, <2>3, SMTT(60) DEF Elapse, Others
<1>12. ASSUME NEW n \in Node, Lose(n) \/ Delay(n)
       PROVE  Sockets' /\ Others'
  <2>1. net[n] \in Seq(Segment) /\ net[n] # << >> /\ faults' \in Nat
    BY <1>12, SMTT(60) DEF Others, Lose, Delay, Fault
  <2>2. Tail(net[n]) \in Seq(Segment) /\ Append(Tail(net[n]), Head(net[n])) \in Seq(Segment)
    BY <2>1, SMTT(60)
  <2>3. Others'
    BY <1>12, <2>1, <2>2, ZenonT(60) DEF Lose, Delay, Others
  <2>4. UNCHANGED sock
    BY <1>12 DEF Lose, Delay
  <2> QED
    BY <2>3, <2>4, SMTT(60) DEF Sockets, SocketOK, Window
<1> QED
  BY <1>1, <1>2, <1>3, <1>4, <1>5, <1>7, <1>8, <1>9, <1>10, <1>11, <1>12, SMTT(60) DEF Next

\* In every reachable state each field has its type, and neither ring buffer
\* holds more than its capacity: what process() writes ahead of rx_buffer
\* stays in its free part, for every window, segment and reordering.
THEOREM TypeCorrect == Spec => []TypeOK
<1>1. Init => Sockets /\ Others
  BY InitTypeOK, TypeOKParts, SMTT(60)
<1>2. Sockets /\ Others /\ [Next]_vars => (Sockets /\ Others)'
  BY NextParts, SMTT(60)
<1> QED
  BY <1>1, <1>2, TypeOKParts, PTL DEF Spec

-----------------------------------------------------------------------------
(* The assertions of process().                                            *)

\* Sums and differences of sequence numbers without the modulus.
LEMMA SeqAddCases ==
  ASSUME NEW a \in SeqNumber, NEW k \in Nat, k < SeqMod
  PROVE  SeqAdd(a, k) = IF a + k < SeqMod THEN a + k ELSE a + k - SeqMod
<1>1. a \in Int /\ 0 <= a /\ a < SeqMod /\ SeqMod \in Nat /\ SeqMod > 1
  BY SeqModAssumption, SMTT(60) DEF SeqNumber
<1>2. CASE a + k < SeqMod
  BY <1>1, <1>2, SMTT(60) DEF SeqAdd
<1>3. CASE ~ (a + k < SeqMod)
  <2>1. SeqMod <= a + k /\ a + k < 2 * SeqMod
    BY <1>1, <1>3, SMTT(60)
  <2>2. ASSUME NEW z \in Int, SeqMod <= z, z < 2 * SeqMod PROVE z % SeqMod = z - SeqMod
    BY <1>1, <2>2, SMTT(60)
  <2> QED
    BY <1>1, <1>3, <2>1, <2>2, SMTT(60) DEF SeqAdd
<1> QED
  BY <1>2, <1>3, SMTT(60)

\* The wrapped difference is the difference, give or take the modulus.
LEMMA SeqDiffCases ==
  ASSUME NEW a \in SeqNumber, NEW b \in SeqNumber
  PROVE  LET d == IF a >= b THEN a - b ELSE a - b + SeqMod
         IN  SeqDiff(a, b) = IF 2 * d < SeqMod THEN d ELSE d - SeqMod
<1>1. /\ a \in Int /\ 0 <= a /\ a < SeqMod /\ b \in Int /\ 0 <= b /\ b < SeqMod
      /\ SeqMod \in Nat /\ SeqMod > 1
  BY SeqModAssumption, SMTT(60) DEF SeqNumber
<1>2. (a - b) % SeqMod = IF a >= b THEN a - b ELSE a - b + SeqMod
  <2>1. ASSUME NEW z \in Int, 0 <= z, z < SeqMod PROVE z % SeqMod = z
    BY <1>1, <2>1, SMTT(60)
  <2>2. ASSUME NEW z \in Int, -SeqMod <= z, z < 0 PROVE z % SeqMod = z + SeqMod
    BY <1>1, <2>2, SMTT(60)
  <2>3. CASE a >= b
    BY <1>1, <2>1, <2>3, SMTT(60)
  <2>4. CASE ~ (a >= b)
    BY <1>1, <2>2, <2>4, SMTT(60)
  <2> QED
    BY <2>3, <2>4, SMTT(60)
<1> QED
  BY <1>2, SMTT(60) DEF SeqDiff

\* A number that is not behind a and not beyond a + k is at most k ahead of a.
LEMMA SeqBetween ==
  ASSUME NEW a \in SeqNumber, NEW b \in SeqNumber, NEW k \in Nat, 2 * k < SeqMod,
         ~ SeqLt(b, a), ~ SeqLt(SeqAdd(a, k), b)
  PROVE  SeqDiff(b, a) \in 0 .. k
<1>1. /\ a \in Int /\ 0 <= a /\ a < SeqMod /\ b \in Int /\ 0 <= b /\ b < SeqMod
      /\ SeqMod \in Nat /\ SeqMod > 1
  BY SeqModAssumption, SMTT(60) DEF SeqNumber
<1>2. SeqAdd(a, k) \in SeqNumber
  BY <1>1, SeqAddType, SMTT(60)
<1>3. SeqAdd(a, k) = IF a + k < SeqMod THEN a + k ELSE a + k - SeqMod
  BY <1>1, SeqAddCases, SMTT(60)
<1> DEFINE c == SeqAdd(a, k)
           d == IF b >= a THEN b - a ELSE b - a + SeqMod
           e == IF c >= b THEN c - b ELSE c - b + SeqMod
<1>4. SeqDiff(b, a) = IF 2 * d < SeqMod THEN d ELSE d - SeqMod
  BY SeqDiffCases, SMTT(60)
<1>5. SeqDiff(c, b) = IF 2 * e < SeqMod THEN e ELSE e - SeqMod
  BY <1>2, SeqDiffCases, SMTT(60)
<1>6. ~ (SeqDiff(b, a) < 0) /\ ~ (SeqDiff(c, b) < 0)
  BY SMTT(60) DEF SeqLt
<1>7. c \in Int /\ 0 <= c /\ c < SeqMod
  BY <1>2, SeqModAssumption, SMTT(60) DEF SeqNumber
<1> HIDE DEF c
<1>8. 2 * d < SeqMod /\ 2 * e < SeqMod
  <2>1. d \in Int /\ d < SeqMod /\ e \in Int /\ e < SeqMod
    BY <1>1, <1>7, SMTT(60)
  <2> HIDE DEF d, e
  <2> QED
    BY <1>1, <1>4, <1>5, <1>6, <2>1, SMTT(60)
<1>9. c = IF a + k < SeqMod THEN a + k ELSE a + k - SeqMod
  BY <1>3, SMTT(60) DEF c
<1>10. d \in 0 .. k
  BY <1>1, <1>7, <1>8, <1>9, SMTT(60)
<1> QED
  BY <1>4, <1>8, <1>10, SMTT(60)

\* An acknowledgement that process() accepts covers no more than tx_buffer.
LEMMA AckLenBound ==
  ASSUME NEW s, SocketOK(s), NEW r \in Segment, AckVerdict(s, r) = "Accept", Accepts(s, r)
  PROVE  AckLen(s, r) <= Len(s.tx_buffer)
<1> DEFINE len == Len(s.tx_buffer)
           a   == s.local_seq_no
           b   == r.ack
<1>1. /\ s \in Socket /\ a \in SeqNumber /\ b \in SeqNumber \cup {None} /\ len \in Nat
      /\ len <= TxCap /\ s.state \in State /\ r.control \in Control
  <2>1. s \in Socket /\ len <= TxCap
    BY SMTT(60) DEF SocketOK
  <2>2. a \in SeqNumber /\ s.state \in State /\ s.tx_buffer \in Seq(Octet)
    BY <2>1, ZenonT(60) DEF Socket
  <2>3. b \in SeqNumber \cup {None} /\ r.control \in Control
    BY SMTT(60) DEF Segment
  <2> QED
    BY <2>1, <2>2, <2>3, LenProperties, SMTT(60)
<1>2. CASE ~ AcksSomething(s, r)
  BY <1>1, <1>2, SMTT(60) DEF AckLen
<1>3. CASE AcksSomething(s, r) /\ s.state \in {"SynSent", "SynReceived"}
  <2>1. b = SeqAdd(a, 1)
    BY <1>1, <1>3, ZenonT(60) DEF AcksSomething, AckVerdict, Control
  <2>2. TxStart(s) = SeqAdd(a, 1) /\ ~ SentFin(s)
    BY <1>3, SMTT(60) DEF TxStart, SentSyn, SentFin
  <2>3. SeqAdd(a, 1) \in SeqNumber
    <3>1. a \in Int /\ 1 \in Int
      BY <1>1, SeqNumberInt, SMTT(60)
    <3> QED
      BY <3>1, SeqAddType, SMTT(60)
  <2>4. SeqDiff(b, TxStart(s)) = 0
    BY <2>1, <2>2, <2>3, SeqDiffCases, SeqNumberInt, SeqModAssumption, SMTT(60)
  <2> QED
    BY <1>1, <1>3, <2>2, <2>4, SMTT(60) DEF AckLen, AckOfFin
<1>4. CASE AcksSomething(s, r) /\ s.state \notin {"SynSent", "SynReceived"}
  <2> DEFINE k == len + (IF SentFin(s) THEN 1 ELSE 0)
             d == SeqDiff(b, a)
  <2>1. b \in SeqNumber /\ r.control # "Rst"
    BY <1>1, <1>4, SMTT(60) DEF AcksSomething
  <2>2. s.state # "Listen"
    BY <1>4 DEF Accepts, AcksSomething
  <2>3. ~ SeqLt(b, a) /\ ~ SeqLt(SeqAdd(a, k), b)
    BY <1>4, <2>1, <2>2, ZenonT(60) DEF AckVerdict, AcksSomething
  <2>4. TxStart(s) = a
    <3>1. TxStart(s) = SeqAdd(a, 0)
      BY <1>4, SMTT(60) DEF TxStart, SentSyn
    <3> QED
      BY <1>1, <3>1, SeqAddCases, SeqNumberInt, SeqModAssumption, SMTT(60) DEF SeqNumber
  <2>5. k \in Nat /\ 2 * k < SeqMod
    <3>1. k = len + 0 \/ k = len + 1
      BY ZenonT(60)
    <3>2. k \in Nat /\ k <= TxCap + 1
      <4> HIDE DEF k, len
      <4> QED
        BY <1>1, <3>1, SizeAssumption, SMTT(60)
    <3> HIDE DEF k
    <3> QED
      BY <3>2, SeqSpaceAssumption, SeqModAssumption, SizeAssumption, SMTT(60)
  <2>6. d \in 0 .. k
    <3> HIDE DEF k
    <3> QED
      BY <1>1, <2>1, <2>3, <2>5, SeqBetween, SMTT(60)
  <2>7. AckOfFin(s, r) <=> SentFin(s) /\ d = len + 1
    BY <1>4, <2>4, SMTT(60) DEF AckOfFin
  <2>8. AckLen(s, r) = d - (IF AckOfFin(s, r) THEN 1 ELSE 0)
    BY <1>4, <2>4, SMTT(60) DEF AckLen
  <2> HIDE DEF d
  <2>9. CASE AckOfFin(s, r)
    BY <1>1, <2>6, <2>7, <2>8, <2>9, SMTT(60)
  <2>10. CASE ~ AckOfFin(s, r)
    <3>1. d <= len
      <4>1. CASE SentFin(s)
        BY <1>1, <2>6, <2>7, <2>10, <4>1, SMTT(60)
      <4>2. CASE ~ SentFin(s)
        BY <1>1, <2>6, <4>2, SMTT(60)
      <4> QED
        BY <4>1, <4>2, SMTT(60)
    <3> QED
      BY <1>1, <2>6, <2>8, <2>10, <3>1, SMTT(60)
  <2> QED
    BY <2>9, <2>10, SMTT(60)
<1> QED
  BY <1>2, <1>3, <1>4, SMTT(60)

\* For every buffer size that leaves sequence numbers unambiguous, no segment
\* makes process() fail its assertions.
THEOREM AssertionsNeverFail == Spec => []AssertionsHold
<1>1. ASSUME NEW s, SocketOK(s), NEW r \in Segment, Accepts(s, r)
      PROVE  ~ ProcessPanics(s, r)
  <2> DEFINE pos == SegmentPos(s, r)
             len == Len(r.payload)
  <2>1. AckVerdict(s, r) = "Accept" => ~ (AckLen(s, r) > Len(s.tx_buffer))
    <3>1. AckLen(s, r) \in Nat /\ Len(s.tx_buffer) \in Nat
      BY <1>1, AckLenType, SMTT(60) DEF SocketOK, Socket
    <3> QED
      BY <1>1, <3>1, AckLenBound, SMTT(60)
  <2>2. pos \in Int
    <3>1. r.seq \in Int /\ NextAck(s) \in Int
      BY <1>1, NextAckType, SeqNumberInt, SMTT(60) DEF Segment
    <3> QED
      BY <3>1, SeqDiffType, ZenonT(60) DEF SegmentPos
  <2>3. Window(s) \in Nat /\ len \in Nat /\ (r.payload = << >> <=> len = 0)
    BY <1>1, ScaledWindowType, EmptySeq, SMTT(60) DEF Segment
  <2>4. SegmentInWindow(s, r) =>
          ~ (Greatest(-pos, 0) > Least(len, Window(s) - pos))
    BY <2>2, <2>3, SMTT(60) DEF SegmentInWindow, Greatest, Least
  <2> QED
    BY <2>1, <2>4, SMTT(60) DEF ProcessPanics
<1>2. Sockets /\ Others => AssertionsHold
  BY <1>1, HeadTailProperties DEF Sockets, Others, AssertionsHold
<1> QED
  BY <1>2, TypeCorrect, TypeOKParts, PTL

-----------------------------------------------------------------------------
(* poll_at().                                                              *)

\* Whatever dispatch() would act on, poll_at() reports.
LEMMA PollAtMirrorsDispatch ==
  ASSUME NEW s \in Socket, s.tuple, PollAt(s) # "Now"
  PROVE  Dispatch(s) = Outcome(s, << >>)
<1> DEFINE quiet == Soonest({TimerPollAt(s.timer), TimeoutPollAt(s), DelayedAckPollAt(s)})
<1>1. /\ s.remote_last_ts # "None" /\ s.state # "Closed"
      /\ ~ SeqToTransmit(s) /\ ~ WindowToUpdate(s) /\ quiet # "Now"
  BY SMTT(60) DEF PollAt
<1>2. TimerPollAt(s.timer) # "Now" /\ TimeoutPollAt(s) # "Now" /\ DelayedAckPollAt(s) # "Now"
  BY <1>1, SMTT(60) DEF Soonest
<1>3. s.timer.at # "Due"
  BY <1>2 DEF TimerPollAt
<1>4. StartTimeout(s) = s
  BY <1>1 DEF StartTimeout, Socket
<1>5. ~ TimedOut(s)
  BY <1>2 DEF TimeoutPollAt, TimedOut
<1>6. PreDispatch(s) = s
  BY <1>3, <1>4, <1>5, SMTT(60) DEF PreDispatch, ShouldRetransmit
<1>7. ~ (AckToTransmit(s) /\ DelayedAckExpired(s))
  BY <1>2, SMTT(60) DEF DelayedAckPollAt, DelayedAckExpired
<1>8. ~ ShouldKeepAlive(s.timer) /\ ~ ShouldZeroWindowProbe(s.timer) /\ ~ ShouldClose(s.timer)
  BY <1>3, SMTT(60) DEF ShouldKeepAlive, ShouldZeroWindowProbe, ShouldClose
<1>9. ~ HasReasonToSend(s)
  BY <1>1, <1>7, <1>8, SMTT(60) DEF HasReasonToSend
<1> QED
  BY <1>6, <1>8, <1>9, SMTT(60) DEF Dispatch

\* The interface is never left asleep: whenever dispatch() would do anything,
\* poll_at() says Now.
THEOREM WakeupNeverLost == Spec => []NoLostWakeup
<1>1. TypeOK => NoLostWakeup
  BY PollAtMirrorsDispatch DEF TypeOK, NoLostWakeup
<1> QED
  BY <1>1, TypeCorrect, PTL

=============================================================================
