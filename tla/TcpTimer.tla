------------------------------ MODULE TcpTimer ------------------------------
(***************************************************************************)
(* The timers of socket/tcp.rs.  Time is abstracted to what the code asks  *)
(* of it: whether a deadline has passed.  A deadline is "Armed" while it   *)
(* lies in the future and "Due" once `now` has reached it; the passing of  *)
(* time turns an armed deadline into a due one at any moment (see Elapse   *)
(* in TcpConnection), so every relation between the delays is covered.     *)
(***************************************************************************)

\* enum Timer.  "at" is the keep_alive_at of Idle ("Never" when it is None)
\* and the expires_at of the others; FastRetransmit has no deadline and is
\* always due.
Timer ==
  [kind : {"Idle"}, at : {"Never", "Armed", "Due"}]
    \cup [kind : {"Retransmit", "ZeroWindowProbe", "Close"}, at : {"Armed", "Due"}]
    \cup [kind : {"FastRetransmit"}, at : {"Due"}]

\* AckDelayTimer: Waiting(t) is "Waiting" before t and "Expired" from t on.
AckDelayTimer == {"Idle", "Waiting", "Expired", "Immediate"}

Interval(keepAlive) == IF keepAlive THEN "Armed" ELSE "Never"

TimerNew == [kind |-> "Idle", at |-> "Never"]

ShouldKeepAlive(t) == t = [kind |-> "Idle", at |-> "Due"]

ShouldRetransmit(t) == t.kind \in {"Retransmit", "FastRetransmit"} /\ t.at = "Due"

ShouldClose(t) == t = [kind |-> "Close", at |-> "Due"]

ShouldZeroWindowProbe(t) == t = [kind |-> "ZeroWindowProbe", at |-> "Due"]

IsIdle(t) == t.kind = "Idle"

IsZeroWindowProbe(t) == t.kind = "ZeroWindowProbe"

IsRetransmit(t) == t.kind \in {"Retransmit", "FastRetransmit"}

SetForIdle(keepAlive) == [kind |-> "Idle", at |-> Interval(keepAlive)]

\* set_keep_alive() winds a timer that has no keep-alive deadline to a
\* deadline in the past.
SetKeepAliveTimer(t) == IF t = TimerNew THEN [t EXCEPT !.at = "Due"] ELSE t

RewindKeepAlive(t, keepAlive) == IF IsIdle(t) THEN SetForIdle(keepAlive) ELSE t

SetForRetransmit(t) ==
  IF t.kind = "Close" THEN t ELSE [kind |-> "Retransmit", at |-> "Armed"]

SetForFastRetransmit == [kind |-> "FastRetransmit", at |-> "Due"]

SetForClose == [kind |-> "Close", at |-> "Armed"]

SetForZeroWindowProbe == [kind |-> "ZeroWindowProbe", at |-> "Armed"]

RewindZeroWindowProbe(t) == IF IsZeroWindowProbe(t) THEN SetForZeroWindowProbe ELSE t

\* poll_at(): when the timer alone wants dispatch() to run.
TimerPollAt(t) ==
  CASE t.at = "Never" -> "Ingress"
    [] t.at = "Armed" -> "Time"
    [] t.at = "Due"   -> "Now"

=============================================================================
