------------------------------ MODULE TcpIngress ----------------------------
(***************************************************************************)
(* process() of socket/tcp.rs, and process_tcp() of the interface that     *)
(* calls it: what a socket does with one received segment.                 *)
(***************************************************************************)
EXTENDS TcpSocket

-----------------------------------------------------------------------------
(* Replies.                                                                *)

RstReply(r) ==
  [control |-> "Rst", seq |-> IF r.ack = None THEN 0 ELSE r.ack,
   ack |-> IF r.control = "Syn" /\ r.ack = None THEN SeqAdd(r.seq, SegmentLen(r)) ELSE None,
   win |-> 0, scale |-> None, mss |-> None, payload |-> << >>]

\* ack_reply() also counts as having sent the acknowledgement and window.
AckReply(s) ==
  Outcome([s EXCEPT !.remote_last_ack = NextAck(s), !.remote_last_win = ScaledWindow(s)],
          << [control |-> "None", seq |-> s.remote_last_seq, ack |-> NextAck(s),
              win |-> ScaledWindow(s), scale |-> None, mss |-> None, payload |-> << >>] >>)

\* challenge_ack_reply(): at most one per second.
ChallengeAckReply(s) ==
  IF s.challenge_ack_timer = "Silent"
    THEN Outcome(s, << >>)
    ELSE AckReply([s EXCEPT !.challenge_ack_timer = "Silent"])

\* accepts(), for a segment of the peer.
Accepts(s, r) ==
  /\ s.state # "Closed"
  /\ ~ (s.state = "Listen" /\ (r.ack # None \/ r.control = "Rst"))
  /\ s.tuple \/ s.listen_endpoint

-----------------------------------------------------------------------------
(* Is the acknowledgement acceptable?                                      *)

SentSyn(s) == s.state \in {"SynSent", "SynReceived"}

SentFin(s) == s.state \in {"FinWait1", "LastAck", "Closing"}

\* Mutant of AckVerdict: an old acknowledgement is not told from a new one.
AckVerdictTakesOld(s, r) == IF r.ack = None \/ Accepts(s, r) THEN "Accept" ELSE "Drop"

\* The match on (state, control, ack_number): "Accept" goes on, the others
\* return at once.
AckVerdict(s, r) ==
  LET synAcked == r.ack = SeqAdd(s.local_seq_no, 1)
      ackMax   == SeqAdd(s.local_seq_no, Len(s.tx_buffer) + (IF SentFin(s) THEN 1 ELSE 0))
  IN  CASE r.control = "Rst" /\ s.state = "SynSent" ->
             IF synAcked THEN "Accept" ELSE "Drop"
        [] r.control = "Rst" /\ s.state # "SynSent" -> "Accept"
        [] r.control # "Rst" /\ s.state = "Listen" -> "Accept"
        [] r.control = "Syn" /\ s.state = "SynSent" ->
             IF r.ack = None \/ synAcked THEN "Accept" ELSE "Reset"
        [] r.control = "None" /\ s.state = "SynSent" /\ r.ack # None ->
             IF synAcked THEN "Drop" ELSE "Reset"
        [] r.control # "Rst" /\ s.state = "SynReceived" /\ r.ack # None ->
             IF synAcked THEN "Accept" ELSE "Reset"
        [] r.control # "Rst" /\ s.state \notin {"Listen", "SynSent", "SynReceived"}
             /\ r.ack # None ->
             CASE SeqLt(r.ack, s.local_seq_no) -> "Drop"
               [] SeqLt(ackMax, r.ack) -> "Challenge"
               [] OTHER -> "Accept"
        [] OTHER -> "Drop"

-----------------------------------------------------------------------------
(* Is the segment in the receive window, and which part of it?             *)

\* The place of the segment's first octet relative to the window start.
SegmentPos(s, r) == SeqDiff(r.seq, NextAck(s))

Synchronized(s) == s.state \notin {"Listen", "SynSent"}

SegmentInWindow(s, r) ==
  LET pos == SegmentPos(s, r)
      end == pos + Len(r.payload)
  IN  IF r.payload = << >>
        THEN \/ pos = 0
             \/ 0 < pos /\ pos < Window(s)
        ELSE /\ Window(s) > 0
             /\ \/ 0 <= pos /\ pos < Window(s)
                \/ 0 < end /\ end <= Window(s)

PayloadOffset(s, r) == IF Synchronized(s) THEN Greatest(SegmentPos(s, r), 0) ELSE 0

\* The octets of the segment that overlap the window.
WindowPayload(s, r) ==
  LET pos == SegmentPos(s, r)
  IN  IF Synchronized(s)
        THEN SubSeq(r.payload, Greatest(-pos, 0) + 1, Least(Len(r.payload), Window(s) - pos))
        ELSE << >>

-----------------------------------------------------------------------------
(* What the acknowledgement covers.                                        *)

\* The sequence number of the first octet in tx_buffer.
TxStart(s) == SeqAdd(s.local_seq_no, IF SentSyn(s) THEN 1 ELSE 0)

AcksSomething(s, r) ==
  r.control # "Rst" /\ r.ack # None /\ ~ SeqLt(r.ack, TxStart(s))

AckOfFin(s, r) ==
  /\ AcksSomething(s, r) /\ SentFin(s)
  /\ SeqDiff(r.ack, TxStart(s)) = Len(s.tx_buffer) + 1

\* Mutant of AckLen: the FIN counts as an octet of tx_buffer.
AckLenWithFin(s, r) ==
  IF AcksSomething(s, r) THEN SeqDiff(r.ack, TxStart(s)) ELSE 0

AckLen(s, r) ==
  IF AcksSomething(s, r)
    THEN SeqDiff(r.ack, TxStart(s)) - (IF AckOfFin(s, r) THEN 1 ELSE 0)
    ELSE 0

AckAll(s, r) == AcksSomething(s, r) /\ ~ SeqLt(r.ack, s.remote_last_seq)

\* Mutant of EffectiveControl: a FIN counts although data before it is missing.
EffectiveControlEager(s, r) == IF r.control = "Psh" THEN "None" ELSE r.control

\* PSH means nothing here, and a FIN is disregarded while data before the
\* segment is missing.
EffectiveControl(s, r) ==
  CASE r.control = "Psh" -> "None"
    [] r.control = "Fin" /\ 0 < SegmentPos(s, r) -> "None"
    [] OTHER -> r.control

-----------------------------------------------------------------------------
(* The match on (state, control): the next state of the connection, and    *)
(* whether processing goes on.                                             *)

Goes(s) == [sock |-> s, on |-> TRUE]

Stops(s) == [sock |-> s, on |-> FALSE]

\* What both SYN arms take from the options of a SYN.
SynOptions(s, r) ==
  [s EXCEPT !.remote_mss = IF r.mss = None THEN @ ELSE r.mss,
            !.remote_seq_no = SeqAdd(r.seq, 1),
            !.remote_win_scale = r.scale,
            !.remote_win_shift = IF r.scale = None THEN 1 ELSE @]

SynInListen(s, r, isn) ==
  [SynOptions(s, r) EXCEPT !.tuple = TRUE, !.local_seq_no = isn, !.remote_last_seq = isn,
                           !.state = "SynReceived", !.timer = SetForIdle(s.keep_alive)]

SynInSynSent(s, r) ==
  [SynOptions(s, r) EXCEPT
     !.remote_last_seq = SeqAdd(s.local_seq_no, 1), !.remote_last_ack = r.seq,
     !.state = IF r.ack = None THEN "SynReceived" ELSE "Established"]

\* A connection reset: back to LISTEN if that is where it came from.
RstReceived(s) ==
  [s EXCEPT !.tuple = FALSE,
            !.state = IF s.state = "SynReceived" /\ s.listen_endpoint
                        THEN "Listen" ELSE "Closed"]

FinReceived(s, st) ==
  [s EXCEPT !.remote_seq_no = SeqAdd(@, 1), !.rx_fin_received = TRUE, !.state = st]

ToTimeWait(s) == [s EXCEPT !.state = "TimeWait", !.timer = SetForClose]

OnFin(s, ackOfFin) ==
  CASE s.state \in {"SynReceived", "Established"} -> Goes(FinReceived(s, "CloseWait"))
    [] s.state = "FinWait1" /\ ~ ackOfFin -> Goes(FinReceived(s, "Closing"))
    [] s.state = "FinWait2" \/ (s.state = "FinWait1" /\ ackOfFin) ->
         Goes(ToTimeWait(FinReceived(s, "TimeWait")))
    [] OTHER -> Stops(s)

\* Mutant of OnAck: any ACK in FIN-WAIT-1 counts for the FIN.
OnAckAnyAck(s, ackOfFin) ==
  CASE s.state = "SynReceived" -> Goes(SetState(s, "Established"))
    [] s.state = "FinWait1" -> Goes(SetState(s, "FinWait2"))
    [] OTHER -> Goes(s)

OnAck(s, ackOfFin) ==
  CASE s.state = "SynReceived" -> Goes(SetState(s, "Established"))
    [] s.state = "FinWait1" /\ ackOfFin -> Goes(SetState(s, "FinWait2"))
    [] s.state = "Closing" /\ ackOfFin -> Goes(ToTimeWait(s))
    [] s.state = "LastAck" /\ ackOfFin -> Goes([s EXCEPT !.state = "Closed", !.tuple = FALSE])
    [] s.state \in {"Established", "FinWait1", "FinWait2", "Closing", "CloseWait", "LastAck"}
         /\ ~ ackOfFin -> Goes(s)
    [] OTHER -> Stops(s)

Transition(s, r, isn) ==
  LET control == EffectiveControl(s, r)
  IN  CASE control = "Rst" -> Stops(IF s.state = "Listen" THEN s ELSE RstReceived(s))
        [] control = "Syn" /\ s.state = "Listen" /\ r.mss # 0 -> Goes(SynInListen(s, r, isn))
        [] control = "Syn" /\ s.state = "SynSent" /\ r.mss # 0 -> Goes(SynInSynSent(s, r))
        [] control = "Fin" -> OnFin(s, AckOfFin(s, r))
        [] control = "None" -> OnAck(s, AckOfFin(s, r))
        [] OTHER -> Stops(s)

-----------------------------------------------------------------------------
(* Updates after the transition, in the order of the code.                 *)

NewRemoteWinLen(s, r) ==
  r.win * (IF r.control = "Syn" \/ s.remote_win_scale = None THEN 1 ELSE s.remote_win_scale)

IsDuplicateAck(s, r) ==
  /\ s.local_rx_last_ack = r.ack /\ r.payload = << >>
  /\ SeqLt(r.ack, s.remote_last_seq)
  /\ NewRemoteWinLen(s, r) = s.remote_win_len

\* Mutant of TakeAck: any acknowledgement empties tx_buffer.
TakeAckEmptiesBuffer(s, r, ackLen) ==
  [s EXCEPT !.remote_win_len = NewRemoteWinLen(s, r), !.tx_buffer = << >>,
            !.local_seq_no = r.ack, !.remote_last_seq = SeqMax(@, r.ack)]


\* The window, the acknowledged octets of tx_buffer, and duplicate ACKs.
TakeAck(s, r, ackLen) ==
  LET dup   == r.ack # None /\ IsDuplicateAck(s, r)
      count == IF dup THEN Least(s.local_rx_dup_acks + 1, DupAcksCap) ELSE 0
  IN  [s EXCEPT
         !.remote_last_ts = "Recent",
         !.remote_win_len = NewRemoteWinLen(s, r),
         !.tx_buffer = SubSeq(@, ackLen + 1, Len(@)),
         !.tx_read_at = (@ + ackLen) % TxCap,
         !.local_rx_dup_acks = IF r.ack = None THEN @ ELSE count,
         !.local_rx_last_ack = IF r.ack = None THEN @ ELSE r.ack,
         !.local_seq_no = IF r.ack = None THEN @ ELSE r.ack,
         !.remote_last_seq = IF r.ack = None THEN @ ELSE SeqMax(@, r.ack),
         !.timer = IF dup /\ count = 3 THEN SetForFastRetransmit ELSE @]

\* Mutant of AckTimer: every acknowledgement stops the retransmission.
AckTimerStops(t, keepAlive, ackAll, ackLen) ==
  IF IsRetransmit(t) \/ IsIdle(t) THEN SetForIdle(keepAlive) ELSE t

\* "update timers": acknowledgements stop or restart the retransmission.
AckTimer(t, keepAlive, ackAll, ackLen) ==
  CASE IsRetransmit(t) /\ ackAll -> SetForIdle(keepAlive)
    [] IsRetransmit(t) /\ ~ ackAll /\ ackLen > 0 -> SetForRetransmit(t)
    [] IsIdle(t) -> SetForIdle(keepAlive)
    [] OTHER -> t

\* Mutant of ProbeTimer: a closed window starts no probes.
ProbeTimerNeverStarts(s, t, ackLen) ==
  IF s.remote_win_len # 0 /\ IsZeroWindowProbe(t) THEN SetForIdle(s.keep_alive) ELSE t

\* "start/stop the Zero Window Probe timer".
ProbeTimer(s, t, ackLen) ==
  CASE s.remote_win_len = 0 /\ s.tx_buffer # << >> /\ (IsIdle(t) \/ ackLen > 0) ->
         SetForZeroWindowProbe
    [] s.remote_win_len # 0 /\ IsZeroWindowProbe(t) -> SetForIdle(s.keep_alive)
    [] OTHER -> t

UpdateTimers(s, ackAll, ackLen) ==
  [s EXCEPT !.timer = ProbeTimer(s, AckTimer(@, s.keep_alive, ackAll, ackLen), ackLen)]

\* Mutant of Store: the payload is written without regard to its offset.
StoreAtFront(s, added, offset, payload) ==
  LET ahead == [o \in DOMAIN s.rx_ahead |->
                  IF o < Len(payload) THEN payload[o + 1] ELSE s.rx_ahead[o]]
  IN  [s EXCEPT !.assembler = added.have, !.rx_ahead = ahead,
                !.rx_buffer = @ \o [i \in 1 .. added.n |-> ahead[i - 1]]]

\* write_unallocated(), then enqueue_unallocated(n).
Store(s, added, offset, payload) ==
  LET ahead == [o \in DOMAIN s.rx_ahead |->
                  IF o \in Span(offset, Len(payload)) THEN payload[o - offset + 1]
                  ELSE s.rx_ahead[o]]
  IN  [s EXCEPT
         !.assembler = added.have,
         !.rx_buffer = @ \o [i \in 1 .. added.n |-> ahead[i - 1]],
         !.rx_ahead = [o \in DOMAIN @ |->
                         IF o + added.n \in DOMAIN @ THEN ahead[o + added.n] ELSE 0]]

\* The delayed ACK is armed, or forced by the amount of new data.
DelayAck(s) ==
  IF s.ack_delay /\ AckToTransmit(s)
    THEN [s EXCEPT !.ack_delay_timer = CASE @ = "Idle" -> "Waiting"
                                         [] @ # "Idle" /\ ImmediateAckToTransmit(s) -> "Immediate"
                                         [] OTHER -> @]
    ELSE s

TakePayload(s, offset, payload) ==
  LET added  == AddThenRemoveFront(s.assembler, offset, Len(payload))
      stored == DelayAck(Store(s, added, offset, payload))
  IN  CASE payload = << >> \/ ~ added.ok -> Outcome(s, << >>)
        [] payload # << >> /\ added.ok /\ s.assembler \cup stored.assembler # {} ->
             AckReply(stored)
        [] OTHER -> Outcome(stored, << >>)

-----------------------------------------------------------------------------
(* process(), and process_tcp() around it.                                 *)

OutOfWindow(s) ==
  ChallengeAckReply(IF s.state = "TimeWait" THEN [s EXCEPT !.timer = SetForClose] ELSE s)

ProcessAccepted(s, r, isn) ==
  LET moved == Transition(s, r, isn)
      acked == UpdateTimers(TakeAck(moved.sock, r, AckLen(s, r)), AckAll(s, r), AckLen(s, r))
  IN  IF moved.on
        THEN TakePayload(acked, PayloadOffset(s, r), WindowPayload(s, r))
        ELSE Outcome(moved.sock, << >>)

\* The assertions of process(): the overlap of segment and window is not
\* negative, and the acknowledged octets are in tx_buffer.
ProcessPanics(s, r) ==
  LET pos == SegmentPos(s, r)
  IN  /\ AckVerdict(s, r) = "Accept"
      /\ Synchronized(s) => SegmentInWindow(s, r)
      /\ \/ /\ Synchronized(s)
            /\ Greatest(-pos, 0) > Least(Len(r.payload), Window(s) - pos)
         \/ AckLen(s, r) > Len(s.tx_buffer)

\* isn is the initial sequence number chosen for a new connection.
Process(s, r, isn) ==
  LET verdict == AckVerdict(s, r)
  IN  CASE verdict = "Drop" -> Outcome(s, << >>)
        [] verdict = "Reset" -> Outcome(s, << RstReply(r) >>)
        [] verdict = "Challenge" -> ChallengeAckReply(s)
        [] verdict = "Accept" /\ Synchronized(s) /\ ~ SegmentInWindow(s, r) -> OutOfWindow(s)
        [] OTHER -> ProcessAccepted(s, r, isn)

\* process_tcp() of the interface: a segment for nobody is answered by a RST.
ProcessTcp(s, r, isn) ==
  CASE Accepts(s, r) -> Process(s, r, isn)
    [] ~ Accepts(s, r) /\ r.control # "Rst" -> Outcome(s, << RstReply(r) >>)
    [] OTHER -> Outcome(s, << >>)

=============================================================================
