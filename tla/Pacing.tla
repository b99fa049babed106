------------------------------- MODULE Pacing -------------------------------
(***************************************************************************)
(* How a TCP sender is paced: the round-trip time estimator behind its     *)
(* retransmission timeout and the congestion controller (none, or Reno),   *)
(* driven by the calls of process() and dispatch() on an established       *)
(* connection.  Sequence numbers count octets from 0; when a timer fires   *)
(* is the matter of TcpTimer, here it may fire whenever data is in flight. *)
(***************************************************************************)
EXTENDS Numbers

CONSTANTS
  InitialRto, MinRto, MaxRto, MinMargin,  \* of the estimator, in milliseconds
  InitialWindow, InitialRwnd,             \* Reno's first window and remote window
  MaxWindow,                              \* usize::MAX
  Mss,                                    \* what the peer may announce
  RemoteWindows,                          \* windows the peer may offer
  Delays,                                 \* how long nothing may happen
  MaxOctets, MaxSends, MaxAge             \* bounds: octets written, sendings of each, age of a timing

ASSUME PacingAssumption ==
  /\ MinRto \in Nat /\ MaxRto \in Nat /\ InitialRto \in MinRto .. MaxRto /\ MinMargin \in Nat
  /\ InitialWindow \in Nat \ {0} /\ InitialRwnd \in Nat /\ MaxWindow \in Nat
  /\ Mss \subseteq Nat \ {0} /\ RemoteWindows \subseteq Nat /\ Delays \subseteq Nat
  /\ MaxOctets \in Nat /\ MaxSends \in Nat /\ MaxAge \in Nat

VARIABLES rtte, controller, tx

pacingVars == << rtte, controller, tx >>

----------------------------------------------------------------------------
(* The estimator.  An instant is kept as the time that passed since then.  *)

RttEstimator ==
  [have_measurement |-> FALSE, srtt |-> 0, rttvar |-> 0, rto |-> InitialRto,
   timestamp |-> {}, max_seq_sent |-> {}, rto_count |-> 0]

DivCeil(a, b) == (a + b - 1) \div b

Distance(a, b) == Greatest(a, b) - Least(a, b)

Smoothed(r, new_rtt) ==
  IF r.have_measurement
  THEN [r EXCEPT !.rttvar = DivCeil(3 * @ + Distance(r.srtt, new_rtt), 4), !.srtt = DivCeil(7 * @ + new_rtt, 8)]
  ELSE [r EXCEPT !.have_measurement = TRUE, !.srtt = new_rtt, !.rttvar = new_rtt \div 2]

Timeout(r) == Least(Greatest(r.srtt + Greatest(MinMargin, 4 * r.rttvar), MinRto), MaxRto)

RttSample(r, new_rtt) ==
  LET s == Smoothed(r, new_rtt) IN [s EXCEPT !.rto = Timeout(s), !.rto_count = 0]

RttOnSend(r, seq) ==
  IF \E m \in r.max_seq_sent : seq <= m
  THEN r
  ELSE [r EXCEPT !.max_seq_sent = {seq}, !.timestamp = IF @ = {} THEN {[age |-> 0, seq |-> seq]} ELSE @]

RttOnAck(r, seq) ==
  IF \E t \in r.timestamp : seq >= t.seq
  THEN [RttSample(r, (CHOOSE t \in r.timestamp : TRUE).age) EXCEPT !.timestamp = {}]
  ELSE r

\* Mutant: a retransmission leaves the timing of the lost segment running.
RttOnRetransmitKeeps(r) == [r EXCEPT !.rto = Least(2 * @, MaxRto)]

RttOnRetransmit(r) ==
  LET cleared == r.rto_count + 1 >= 3
  IN  [r EXCEPT !.timestamp = {}, !.rto = Least(2 * @, MaxRto),
                !.rto_count = IF cleared THEN 0 ELSE @ + 1,
                !.have_measurement = @ /\ ~cleared]

----------------------------------------------------------------------------
(* The controllers.                                                        *)

NoControl == [algorithm |-> "None"]

Reno ==
  [algorithm |-> "Reno", cwnd |-> InitialWindow, min_cwnd |-> InitialWindow,
   ssthresh |-> MaxWindow, rwnd |-> InitialRwnd]

IsReno(c) == c.algorithm = "Reno"

CongestionWindow(c) == IF IsReno(c) THEN c.cwnd ELSE MaxWindow

RenoOnAck(c, len) ==
  LET slow_start == c.cwnd < c.ssthresh
      grown == c.cwnd + (IF slow_start THEN len ELSE c.min_cwnd)
  IN  [c EXCEPT !.ssthresh = IF slow_start THEN @ ELSE c.cwnd,
                !.cwnd = Greatest(Least(Least(grown, MaxWindow), c.rwnd), c.min_cwnd)]

RenoOnDuplicateAck(c) == [c EXCEPT !.ssthresh = Greatest(c.cwnd \div 2, c.min_cwnd)]

RenoOnRetransmit(c) == [c EXCEPT !.cwnd = Greatest(@ \div 2, c.min_cwnd)]

RenoSetMss(c, mss) == [c EXCEPT !.min_cwnd = mss]

RenoSetRemoteWindow(c, remote_window) == [c EXCEPT !.rwnd = Greatest(@, remote_window)]

----------------------------------------------------------------------------
(* The sender.  "sent" counts how often each octet was sent in a segment,  *)
(* "highest" is the last octet that left, in a segment or in a probe.      *)

Established(mss, nagle, win) ==
  [remote_mss |-> mss, nagle |-> nagle, remote_win_len |-> win, local_seq_no |-> 0, remote_last_seq |-> 0,
   written |-> 0, sent |-> [o \in 1 .. MaxOctets |-> 0], highest |-> 0]

PacingInit ==
  /\ rtte = RttEstimator
  /\ \E mss \in Mss, nagle \in BOOLEAN, win \in RemoteWindows :
       /\ tx = Established(mss, nagle, win)
       /\ controller \in {NoControl, RenoSetRemoteWindow(RenoSetMss(Reno, mss), win)}

\* What the transmit buffer and the peer's window leave to send.
SendLimit(t) ==
  Greatest(t.local_seq_no + Least(t.remote_win_len, t.written - t.local_seq_no) - t.remote_last_seq, 0)

SeqToTransmit(t, c) ==
  LET max_send == Least(SendLimit(t), CongestionWindow(c))
  IN  /\ max_send # 0
      /\ t.nagle /\ t.remote_last_seq # t.local_seq_no => max_send >= t.remote_mss

SendSlice ==
  /\ tx.written < MaxOctets
  /\ tx' = [tx EXCEPT !.written = @ + 1]
  /\ UNCHANGED << rtte, controller >>

\* The rest of dispatch(), given what it has found out about the timers.
TransmitSegment(t, r, c) ==
  /\ SeqToTransmit(t, c)
  /\ \E seq \in {t.remote_last_seq + Least(SendLimit(t), t.remote_mss)} :
       LET octets == t.remote_last_seq + 1 .. seq
       IN  /\ \A o \in octets : t.sent[o] < MaxSends
           /\ tx' = [t EXCEPT !.remote_last_seq = seq, !.highest = Greatest(@, seq),
                              !.sent = [o \in DOMAIN @ |-> IF o \in octets THEN @[o] + 1 ELSE @[o]]]
           /\ rtte' = RttOnSend(r, seq)
  /\ controller' = c

DispatchSegment == TransmitSegment(tx, rtte, controller)

\* dispatch(), when the retransmission timer fired: everything since the last
\* acknowledgement counts as unsent, and is sent again unless the window has
\* closed or the device takes nothing.
DispatchRetransmits ==
  /\ ~SeqToTransmit(tx, controller)
  /\ tx.local_seq_no < tx.remote_last_seq
  /\ \E t \in {[tx EXCEPT !.remote_last_seq = tx.local_seq_no]},
        r \in {RttOnRetransmit(rtte)},
        c \in {IF IsReno(controller) THEN RenoOnRetransmit(controller) ELSE controller} :
       \/ TransmitSegment(t, r, c)
       \/ tx' = t /\ rtte' = r /\ controller' = c

\* dispatch(), when the zero-window-probe timer fired: one octet beyond the
\* window, of which the estimator is not told.
DispatchProbe ==
  /\ tx.remote_win_len = 0
  /\ tx.remote_last_seq < tx.written
  /\ tx' = [tx EXCEPT !.highest = Greatest(@, tx.remote_last_seq + 1)]
  /\ UNCHANGED << rtte, controller >>

\* process(), given an acceptable acknowledgement.
ProcessAck(ack_number, win, empty) ==
  LET ack_len == ack_number - tx.local_seq_no
      duplicate == /\ empty /\ ack_len = 0
                   /\ ack_number < tx.remote_last_seq
                   /\ win = tx.remote_win_len
      updated == RenoSetRemoteWindow(RenoOnAck(controller, ack_len), win)
  IN  /\ rtte' = RttOnAck(rtte, ack_number)
      /\ controller' = IF ~IsReno(controller) THEN controller
                       ELSE IF duplicate THEN RenoOnDuplicateAck(updated) ELSE updated
      /\ tx' = [tx EXCEPT !.remote_win_len = win, !.local_seq_no = ack_number,
                          !.remote_last_seq = Greatest(@, ack_number)]

SetCongestionControl(c) ==
  /\ controller' = c
  /\ UNCHANGED << rtte, tx >>

PacingElapse(delay) ==
  /\ \E t \in rtte.timestamp : t.age + delay <= MaxAge
  /\ rtte' = [rtte EXCEPT !.timestamp = {[t EXCEPT !.age = @ + delay] : t \in @}]
  /\ UNCHANGED << controller, tx >>

PacingNext ==
  \/ SendSlice
  \/ DispatchSegment
  \/ DispatchRetransmits
  \/ DispatchProbe
  \/ \E n \in tx.local_seq_no .. tx.highest, win \in RemoteWindows, empty \in BOOLEAN : ProcessAck(n, win, empty)
  \/ \E c \in {NoControl, Reno} : SetCongestionControl(c)
  \/ \E d \in Delays : PacingElapse(d)

PacingSpec == PacingInit /\ [][PacingNext]_pacingVars

----------------------------------------------------------------------------

\* Karn's rule: while a segment is being timed its last octet is still
\* unacknowledged and was sent in one segment only, so that the
\* acknowledgement that ends the timing answers that segment
\* (RttEstimator::on_send, on_ack and on_retransmit, across retransmissions
\* that cut the data into other segments).
TimedOnce ==
  \A t \in rtte.timestamp : tx.local_seq_no < t.seq /\ tx.sent[t.seq] = 1

\* The timeout is never shorter than the smoothed round-trip time with its
\* margin, unless that is above the longest timeout allowed, and never
\* leaves its limits, whatever samples and back-offs it went through.
TimeoutCovers ==
  /\ rtte.rto \in MinRto .. MaxRto
  /\ rtte.have_measurement => rtte.rto >= Least(rtte.srtt + MinMargin, MaxRto)

\* The congestion window never closes: at least a segment of the smallest
\* kind fits, and it never exceeds the windows the peer ever offered.
WindowStaysOpen ==
  IsReno(controller) =>
    /\ controller.cwnd >= Least(controller.min_cwnd, InitialWindow)
    /\ controller.cwnd <= Greatest(controller.rwnd, Greatest(controller.min_cwnd, InitialWindow))

\* The sender is paced by what it measured and what the peer offered: a
\* timed segment was sent once (TimedOnce), the retransmission timeout covers
\* the measured round trip (TimeoutCovers), and Reno's window stays open and
\* within bounds (WindowStaysOpen), over every sequence of sendings,
\* retransmissions, probes and acknowledgements.
SenderPaced == TimedOnce /\ TimeoutCovers /\ WindowStaysOpen

=============================================================================
