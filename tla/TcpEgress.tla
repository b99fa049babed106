------------------------------ MODULE TcpEgress -----------------------------
(***************************************************************************)
(* dispatch() and poll_at() of socket/tcp.rs: what a socket sends when the *)
(* interface gives it the chance, and when it asks for that chance.        *)
(***************************************************************************)
EXTENDS TcpSocket

-----------------------------------------------------------------------------
(* seq_to_transmit(): is there something to send that takes up sequence    *)
(* space?                                                                  *)

DataInFlight(s) == s.remote_last_seq # s.local_seq_no

WantFin(s) == s.state \in {"FinWait1", "Closing", "LastAck"}

\* Mutant of Unsent: what was sent already is forgotten.
UnsentForgetful(s, limit) == limit

\* How far the octets up to `limit` past the acknowledged ones go beyond
\* what was sent.
Unsent(s, limit) == Greatest(SeqDiff(SeqAdd(s.local_seq_no, limit), s.remote_last_seq), 0)

MaxSend(s) == Unsent(s, Least(s.remote_win_len, Len(s.tx_buffer)))

NagleHolds(s) ==
  /\ s.nagle /\ DataInFlight(s) /\ ~ WantFin(s)
  /\ MaxSend(s) < Least(LocalMss, s.remote_mss)

SeqToTransmit(s) ==
  \/ s.state \in {"SynSent", "SynReceived"} /\ ~ DataInFlight(s)
  \/ MaxSend(s) # 0 /\ ~ NagleHolds(s)
  \/ WantFin(s) /\ s.remote_last_seq = SeqAdd(s.local_seq_no, Len(s.tx_buffer))

-----------------------------------------------------------------------------
(* dispatch() up to the decision to send.                                  *)

\* The first dispatch after a quiet time starts the timeout.
StartTimeout(s) == [s EXCEPT !.remote_last_ts = IF @ = "None" THEN "Recent" ELSE @]

Rewind(s) ==
  [s EXCEPT !.remote_last_seq = s.local_seq_no, !.timer = SetForIdle(s.keep_alive)]

\* State changes because of a timer.
PreDispatch(s) ==
  LET t == StartTimeout(s)
  IN  CASE TimedOut(t) -> SetState(t, "Closed")
        [] ~ TimedOut(t) /\ ~ SeqToTransmit(t) /\ ShouldRetransmit(t.timer) -> Rewind(t)
        [] OTHER -> t

\* dispatch() comes to ask for a window update.
AsksWindowUpdate(s) == ~ SeqToTransmit(s) /\ ~ (AckToTransmit(s) /\ DelayedAckExpired(s))

HasReasonToSend(s) ==
  \/ SeqToTransmit(s)
  \/ AckToTransmit(s) /\ DelayedAckExpired(s)
  \/ WindowToUpdate(s)
  \/ s.state = "Closed"
  \/ ShouldKeepAlive(s.timer)
  \/ ShouldZeroWindowProbe(s.timer)

-----------------------------------------------------------------------------
(* The segment.                                                            *)

SendsData(s) == s.state \in {"Established", "FinWait1", "Closing", "CloseWait", "LastAck"}

EmptyAck(s) ==
  [control |-> "None", seq |-> s.remote_last_seq, ack |-> NextAck(s),
   win |-> ScaledWindow(s), scale |-> None, mss |-> None, payload |-> << >>]

SynRepr(s) ==
  [EmptyAck(s) EXCEPT
     !.control = "Syn", !.seq = s.local_seq_no, !.win = Least(Window(s), WinMax),
     !.ack = IF s.state = "SynSent" THEN None ELSE @,
     !.scale = IF s.state = "SynSent" \/ s.remote_win_scale # None
                 THEN s.remote_win_shift ELSE None,
     !.mss = LocalMss]

IsZeroWindowProbeRepr(s) ==
  SendsData(s) /\ Unsent(s, s.remote_win_len) = 0 /\ ShouldZeroWindowProbe(s.timer)

\* remote_last_seq - local_seq_no, which panics when it is negative.
TxOffset(s) == SeqDiff(s.remote_last_seq, s.local_seq_no)

\* RingBuffer::get_allocated(): up to size octets from offset on, without
\* wrapping around the end of the storage.
GetAllocated(s, offset, size) ==
  LET toEnd == TxCap - ((s.tx_read_at + offset) % TxCap)
  IN  SubSeq(s.tx_buffer, offset + 1, offset + Least(Least(size, toEnd), Len(s.tx_buffer) - offset))

DataRepr(s) ==
  LET limit   == IF IsZeroWindowProbeRepr(s) THEN 1 ELSE Unsent(s, s.remote_win_len)
      payload == GetAllocated(s, TxOffset(s), Least(limit, Least(s.remote_mss, LocalMss)))
      last    == TxOffset(s) + Len(payload) = Len(s.tx_buffer)
  IN  [EmptyAck(s) EXCEPT
         !.payload = payload,
         !.control = CASE last /\ WantFin(s) -> "Fin"
                       [] last /\ ~ WantFin(s) /\ payload # << >> -> "Psh"
                       [] OTHER -> "None"]

PlainRepr(s) ==
  CASE s.state = "Closed" -> [EmptyAck(s) EXCEPT !.control = "Rst"]
    [] s.state \in {"SynSent", "SynReceived"} -> SynRepr(s)
    [] SendsData(s) -> DataRepr(s)
    [] OTHER -> EmptyAck(s)

\* A keep-alive is one garbage octet before the next sequence number.
IsKeepAliveRepr(s) ==
  /\ ShouldKeepAlive(s.timer)
  /\ PlainRepr(s).payload = << >> /\ PlainRepr(s).control \in {"None", "Psh"}

\* Mutant of Repr: the keep-alive's garbage octet takes a new number.
ReprKeepAliveAdvances(s) ==
  IF IsKeepAliveRepr(s) THEN [PlainRepr(s) EXCEPT !.payload = << 0 >>] ELSE PlainRepr(s)

Repr(s) ==
  IF IsKeepAliveRepr(s)
    THEN [PlainRepr(s) EXCEPT !.seq = SeqAdd(@, -1), !.payload = << 0 >>]
    ELSE PlainRepr(s)

-----------------------------------------------------------------------------
(* dispatch().                                                             *)

\* Mutant of Emitted: the keep-alive timer is not rewound.
EmittedKeepsTimer(s) == [s EXCEPT !.ack_delay_timer = "Idle"]

\* After a successful emit, whatever was sent.
Emitted(s) ==
  [s EXCEPT !.timer = RewindKeepAlive(@, s.keep_alive), !.ack_delay_timer = "Idle"]

\* Mutant of Advanced: a FIN alone does not start the retransmission timer.
AdvancedDataOnly(s, r) ==
  [s EXCEPT
     !.remote_last_seq = SeqAdd(r.seq, SegmentLen(r)),
     !.remote_last_ack = r.ack, !.remote_last_win = r.win,
     !.timer = IF r.control # "Fin" /\ SegmentLen(r) > 0 /\ ~ IsRetransmit(@)
                 THEN SetForRetransmit(@) ELSE @,
     !.tuple = s.state # "Closed"]

\* After a successful emit of anything but a probe or a keep-alive.
Advanced(s, r) ==
  [s EXCEPT
     !.remote_last_seq = SeqAdd(r.seq, SegmentLen(r)),
     !.remote_last_ack = r.ack,
     !.remote_last_win = r.win,
     !.timer = IF SegmentLen(r) > 0 /\ ~ IsRetransmit(@) THEN SetForRetransmit(@) ELSE @,
     !.tuple = s.state # "Closed"]

PostEmit(s) ==
  CASE IsZeroWindowProbeRepr(s) ->
         [Emitted(s) EXCEPT !.timer = RewindZeroWindowProbe(@)]
    [] ~ IsZeroWindowProbeRepr(s) /\ IsKeepAliveRepr(s) -> Emitted(s)
    [] OTHER -> Advanced(Emitted(s), Repr(s))

\* A socket with a tuple; LISTEN never has one.
Dispatch(s) ==
  LET t == PreDispatch(s)
  IN  CASE HasReasonToSend(t) -> Outcome(PostEmit(t), << Repr(t) >>)
        [] ~ HasReasonToSend(t) /\ ShouldClose(t.timer) -> Outcome(Reset(t), << >>)
        [] OTHER -> Outcome(t, << >>)

\* The device has no room, or the neighbour is unknown: emit() fails and
\* dispatch() returns early.
DispatchExhausted(s) ==
  LET t == PreDispatch(s)
  IN  IF HasReasonToSend(t) THEN t ELSE Dispatch(s).sock

DispatchPanics(s) ==
  LET t == PreDispatch(s)
  IN  \/ AsksWindowUpdate(t) /\ WindowUpdatePanics(t)
      \/ HasReasonToSend(t) /\ SendsData(t) /\ TxOffset(t) < 0

-----------------------------------------------------------------------------
(* poll_at().  A deadline that has been reached counts as "Now".           *)

Soonest(S) == IF "Now" \in S THEN "Now" ELSE IF "Time" \in S THEN "Time" ELSE "Ingress"

TimeoutPollAt(s) ==
  CASE ~ s.timeout -> "Ingress"
    [] s.timeout /\ s.remote_last_ts = "Stale" -> "Now"
    [] OTHER -> "Time"

DelayedAckPollAt(s) ==
  CASE ~ AckToTransmit(s) -> "Ingress"
    [] AckToTransmit(s) /\ s.ack_delay_timer = "Waiting" -> "Time"
    [] OTHER -> "Now"

\* Mutant of PollAt: an aborted socket does not ask to send its RST.
PollAtForgetsAbort(s) ==
  IF s.tuple /\ s.state # "Closed" /\ (SeqToTransmit(s) \/ WindowToUpdate(s)) THEN "Now"
  ELSE Soonest({TimerPollAt(s.timer), TimeoutPollAt(s), DelayedAckPollAt(s)})

PollAt(s) ==
  CASE ~ s.tuple -> "Ingress"
    [] s.tuple /\ (\/ s.remote_last_ts = "None" \/ s.state = "Closed"
                   \/ SeqToTransmit(s) \/ WindowToUpdate(s)) -> "Now"
    [] OTHER -> Soonest({TimerPollAt(s.timer), TimeoutPollAt(s), DelayedAckPollAt(s)})

=============================================================================
