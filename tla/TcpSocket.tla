------------------------------ MODULE TcpSocket -----------------------------
(***************************************************************************)
(* One TCP socket of socket/tcp.rs: its state as a record, and each public *)
(* method as an operator from a socket to the socket it becomes.  Field    *)
(* names are those of `struct Socket`.  TcpIngress adds process(),         *)
(* TcpEgress dispatch() and poll_at().                                     *)
(*                                                                         *)
(* Data is abstracted as follows.  An octet is the number of its place in  *)
(* the stream its application writes (1, 2, ...), and 0 is an octet nobody *)
(* wrote.  Deadlines are those of TcpTimer.  Window scale factors are kept *)
(* as multipliers, 2^shift.  The four-tuple is reduced to its presence:    *)
(* TcpConnection has one peer.  RTT estimation and congestion control      *)
(* (NoControl in the default build) only choose delays and are left out,   *)
(* and so are timestamps and SACK blocks, which no receiver here acts on.  *)
(***************************************************************************)
EXTENDS TcpSeq, TcpTimer, AssemblerSpec, Sequences

CONSTANTS
  RxCap,       \* capacity of rx_buffer
  TxCap,       \* capacity of tx_buffer
  WinMax,      \* u16::MAX, the largest value of the window field
  LocalMss,    \* ip_mtu - headers: the largest payload our MTU allows
  DefaultMss   \* DEFAULT_MSS

ASSUME SizeAssumption ==
  /\ RxCap \in Nat \ {0} /\ TxCap \in Nat \ {0}
  /\ WinMax \in Nat \ {0}
  /\ LocalMss \in Nat \ {0} /\ DefaultMss \in Nat \ {0}

\* new() asserts it of rx_buffer (at most 1 GiB); a tx_buffer that large would
\* make sequence numbers ambiguous in the same way.
ASSUME SeqSpaceAssumption == 2 * (RxCap + 1) < SeqMod /\ 2 * (TxCap + 1) < SeqMod

\* 1 << rx_cap_log2.saturating_sub(16): the least power of two that brings
\* the whole receive buffer within reach of the window field.
WinFactor ==
  CHOOSE f \in {2 ^ k : k \in 0 .. 14} :
    /\ RxCap \div f <= WinMax
    /\ \A g \in {2 ^ k : k \in 0 .. 14} : RxCap \div g <= WinMax => f <= g

ASSUME WinFactorAssumption == WinFactor \in Nat \ {0}

State == {"Closed", "Listen", "SynSent", "SynReceived", "Established", "FinWait1",
          "FinWait2", "CloseWait", "Closing", "LastAck", "TimeWait"}

Control == {"None", "Psh", "Syn", "Fin", "Rst"}

Octet == Nat

\* TcpRepr: what of a segment the socket acts on.  win is the window field.
Segment ==
  [control : Control, seq : SeqNumber, ack : SeqNumber \cup {None},
   win : 0 .. WinMax, scale : (Nat \ {0}) \cup {None}, mss : Nat \cup {None},
   payload : Seq(Octet)]

Socket ==
  [state : State,
   timer : Timer,
   assembler : SUBSET (0 .. (RxCap - 1)),
   rx_buffer : Seq(Octet),                    \* the allocated part ...
   rx_ahead : [0 .. (RxCap - 1) -> Octet],    \* ... and what lies past it
   rx_fin_received : BOOLEAN,
   tx_buffer : Seq(Octet),
   tx_read_at : 0 .. (TxCap - 1),
   timeout : BOOLEAN, keep_alive : BOOLEAN, ack_delay : BOOLEAN, nagle : BOOLEAN,
   listen_endpoint : BOOLEAN,                 \* its port is not 0
   tuple : BOOLEAN,
   local_seq_no : SeqNumber,
   remote_seq_no : SeqNumber,
   remote_last_seq : SeqNumber,
   remote_last_ack : SeqNumber \cup {None},
   remote_last_win : 0 .. WinMax,
   remote_win_shift : Nat \ {0},
   remote_win_len : Nat,
   remote_win_scale : (Nat \ {0}) \cup {None},
   remote_mss : Nat,
   remote_last_ts : {"None", "Recent", "Stale"},  \* Stale: timeout has passed
   local_rx_last_ack : SeqNumber \cup {None},
   local_rx_dup_acks : 0 .. 4,
   ack_delay_timer : AckDelayTimer,
   challenge_ack_timer : {"Open", "Silent"}]

\* Counts of duplicate ACKs beyond the third are never told apart.
DupAcksCap == 4

\* RingBuffer::clear() and Assembler::new() leave stale octets in storage;
\* nothing may read them, so they become 0.
NothingAhead == [o \in 0 .. (RxCap - 1) |-> 0]

\* Socket::new(), with the options the application sets.
SocketNew(timeout, keepAlive, ackDelay, nagle) ==
  [state |-> "Closed", timer |-> TimerNew, assembler |-> {}, rx_buffer |-> << >>,
   rx_ahead |-> NothingAhead, rx_fin_received |-> FALSE, tx_buffer |-> << >>,
   tx_read_at |-> 0, timeout |-> timeout, keep_alive |-> keepAlive,
   ack_delay |-> ackDelay, nagle |-> nagle, listen_endpoint |-> FALSE,
   tuple |-> FALSE, local_seq_no |-> 0, remote_seq_no |-> 0, remote_last_seq |-> 0,
   remote_last_ack |-> None, remote_last_win |-> 0, remote_win_shift |-> WinFactor,
   remote_win_len |-> 0, remote_win_scale |-> None, remote_mss |-> DefaultMss,
   remote_last_ts |-> "None", local_rx_last_ack |-> None, local_rx_dup_acks |-> 0,
   ack_delay_timer |-> "Idle", challenge_ack_timer |-> "Open"]

\* reset(): the last ACK seen and its count of duplicates survive.
Reset(s) ==
  [SocketNew(s.timeout, s.keep_alive, s.ack_delay, s.nagle) EXCEPT
     !.local_rx_last_ack = s.local_rx_last_ack,
     !.local_rx_dup_acks = s.local_rx_dup_acks]

\* What process() and dispatch() result in: the socket afterwards, and the
\* sequence of the segments to send, of which there is at most one.
Outcome(s, segments) == [sock |-> s, segments |-> segments]

ControlLen(control) == IF control \in {"Syn", "Fin"} THEN 1 ELSE 0

\* segment_len() of a TcpRepr.
SegmentLen(r) == Len(r.payload) + ControlLen(r.control)

SetState(s, st) == [s EXCEPT !.state = st]

-----------------------------------------------------------------------------
(* The application's calls.                                                *)

IsOpen(s) == s.state \notin {"Closed", "TimeWait"}

MaySend(s) == s.state \in {"Established", "CloseWait"}

MayRecv(s) == s.state \in {"Established", "FinWait1", "FinWait2"} \/ s.rx_buffer # << >>

\* recv_error_check() returns RecvError::Finished.
RecvFinished(s) == ~ MayRecv(s) /\ s.rx_fin_received

\* listen() on a socket that is not open.
ListenCall(s) == [Reset(s) EXCEPT !.listen_endpoint = TRUE, !.state = "Listen"]

\* connect() on a socket that is not open.
ConnectCall(s, isn) ==
  [Reset(s) EXCEPT !.tuple = TRUE, !.state = "SynSent",
                   !.local_seq_no = isn, !.remote_last_seq = isn]

CloseCall(s) ==
  SetState(s, CASE s.state \in {"Listen", "SynSent"} -> "Closed"
                [] s.state \in {"SynReceived", "Established"} -> "FinWait1"
                [] s.state = "CloseWait" -> "LastAck"
                [] OTHER -> s.state)

AbortCall(s) == SetState(s, "Closed")

\* send_slice() of data that fits.  The first octets after a quiet time
\* restart the timeout; with a closed remote window the first probe is due
\* as soon as the clock is past the probe delay.
SendCall(s, data) ==
  [s EXCEPT
     !.tx_buffer = @ \o data,
     !.tx_read_at = IF s.tx_buffer = << >> THEN 0 ELSE @,
     !.remote_last_ts = IF s.tx_buffer = << >> THEN "None" ELSE @,
     !.timer = IF s.remote_win_len = 0 /\ IsIdle(@) THEN SetForZeroWindowProbe ELSE @]

\* recv_slice() of n octets.
RecvCall(s, n) ==
  [s EXCEPT !.rx_buffer = SubSeq(@, n + 1, Len(@)),
            !.remote_seq_no = SeqAdd(@, n)]

\* set_keep_alive(Some(_)).
SetKeepAliveCall(s) == [s EXCEPT !.keep_alive = TRUE, !.timer = SetKeepAliveTimer(@)]

-----------------------------------------------------------------------------
(* Windows and acknowledgements.                                           *)

Window(s) == RxCap - Len(s.rx_buffer)

NextAck(s) == SeqAdd(s.remote_seq_no, Len(s.rx_buffer))

ScaledWindow(s) == Least(Window(s) \div s.remote_win_shift, WinMax)

\* last_scaled_window() computes `last_ack + last_win - next_ack`, which
\* panics when it is negative.
LastWindowLeft(s) ==
  SeqDiff(SeqAdd(s.remote_last_ack, s.remote_last_win * s.remote_win_shift), NextAck(s))

LastScaledWindow(s) == Least(LastWindowLeft(s) \div s.remote_win_shift, WinMax)

SendsWindowUpdates(s) ==
  /\ s.state \in {"SynSent", "SynReceived", "Established", "FinWait1", "FinWait2"}
  /\ s.remote_last_ack # None

WindowToUpdate(s) ==
  /\ SendsWindowUpdates(s)
  /\ ScaledWindow(s) > 0
  /\ ScaledWindow(s) \div 2 >= LastScaledWindow(s)

WindowUpdatePanics(s) == SendsWindowUpdates(s) /\ LastWindowLeft(s) < 0

AckToTransmit(s) == s.remote_last_ack # None /\ SeqLt(s.remote_last_ack, NextAck(s))

ImmediateAckToTransmit(s) ==
  s.remote_last_ack # None /\ SeqLt(SeqAdd(s.remote_last_ack, s.remote_mss), NextAck(s))

DelayedAckExpired(s) == s.ack_delay_timer # "Waiting"

TimedOut(s) == s.timeout /\ s.remote_last_ts = "Stale"

-----------------------------------------------------------------------------
(* The passing of time: one armed deadline becomes due.                    *)

TimerArmed(s) == s.timer.at = "Armed"

TimerExpires(s) == [s EXCEPT !.timer.at = "Due"]

AckDelayExpires(s) == [s EXCEPT !.ack_delay_timer = "Expired"]

ChallengeAckAllowed(s) == [s EXCEPT !.challenge_ack_timer = "Open"]

TimeoutExpires(s) == [s EXCEPT !.remote_last_ts = "Stale"]

=============================================================================
