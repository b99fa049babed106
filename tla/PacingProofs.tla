---------------------------- MODULE PacingProofs ----------------------------
(***************************************************************************)
(* SenderPaced holds for all limits of the estimator, windows, segment     *)
(* sizes, delays and bounds.  TimedOnce is not inductive: whether an octet *)
(* is sent for the first time depends on max_seq_sent covering all that    *)
(* was sent (Covered), and whether it is sent again, on the timed segment  *)
(* lying behind remote_last_seq (Timed).                                   *)
(***************************************************************************)
EXTENDS Pacing, TLAPS

Timing == [age : Nat, seq : Nat]

Estimator ==
  [have_measurement : BOOLEAN, srtt : Nat, rttvar : Nat, rto : MinRto .. MaxRto,
   timestamp : SUBSET Timing, max_seq_sent : SUBSET Nat, rto_count : Nat]

RenoType == [algorithm : {"Reno"}, cwnd : Nat, min_cwnd : Nat \ {0}, ssthresh : Nat, rwnd : Nat]

Sender ==
  [remote_mss : Nat \ {0}, nagle : BOOLEAN, remote_win_len : Nat, local_seq_no : Nat, remote_last_seq : Nat,
   written : 0 .. MaxOctets, sent : [1 .. MaxOctets -> Nat], highest : Nat]

Rtt(r) ==
  /\ r \in Estimator
  /\ r.have_measurement => r.rto >= Least(r.srtt + MinMargin, MaxRto)

Control(c) ==
  \/ c = NoControl
  \/ /\ c \in RenoType
     /\ c.cwnd >= Least(c.min_cwnd, InitialWindow)
     /\ c.cwnd <= Greatest(c.rwnd, Greatest(c.min_cwnd, InitialWindow))

Tx(t) ==
  /\ t \in Sender
  /\ t.local_seq_no <= t.remote_last_seq
  /\ t.remote_last_seq <= t.highest
  /\ t.highest <= t.written

\* Every octet that was ever sent in a segment lies within max_seq_sent.
Covered(t, r) == \A o \in 1 .. MaxOctets : t.sent[o] # 0 => \E m \in r.max_seq_sent : o <= m

\* A timed segment was sent once, is not acknowledged and will not be sent
\* again before remote_last_seq is moved back.
Timed(t, r) ==
  \A s \in r.timestamp : /\ t.local_seq_no < s.seq /\ s.seq <= t.remote_last_seq
                         /\ t.sent[s.seq] = 1

PacingInv == Rtt(rtte) /\ Control(controller) /\ Tx(tx) /\ Covered(tx, rtte) /\ Timed(tx, rtte)

----------------------------------------------------------------------------

\* min and max of naturals are naturals between their arguments.
LEMMA Bounds ==
  ASSUME NEW a \in Nat, NEW b \in Nat
  PROVE  /\ Least(a, b) \in Nat /\ Least(a, b) <= a /\ Least(a, b) <= b /\ Least(a, b) \in {a, b}
         /\ Greatest(a, b) \in Nat /\ Greatest(a, b) >= a /\ Greatest(a, b) >= b /\ Greatest(a, b) \in {a, b}
BY DEF Least, Greatest

\* Rounding up a quotient of naturals gives a natural.
LEMMA DivCeilNat ==
  ASSUME NEW a \in Nat, NEW b \in Nat \ {0}
  PROVE  DivCeil(a, b) \in Nat
BY DEF DivCeil

\* sample() gives a timeout within its limits that covers the round trip.
LEMMA SampleKeeps ==
  ASSUME NEW r \in Estimator, NEW new_rtt \in Nat
  PROVE  /\ Rtt(RttSample(r, new_rtt))
         /\ RttSample(r, new_rtt).max_seq_sent = r.max_seq_sent
<1> DEFINE s == Smoothed(r, new_rtt)
<1>1. s \in Estimator /\ s.max_seq_sent = r.max_seq_sent
  <2>1. CASE r.have_measurement
    <3> DEFINE rv == DivCeil(3 * r.rttvar + Distance(r.srtt, new_rtt), 4)
               sr == DivCeil(7 * r.srtt + new_rtt, 8)
    <3>1. r.srtt \in Nat /\ r.rttvar \in Nat
      BY DEF Estimator
    <3>2. Distance(r.srtt, new_rtt) \in Nat
      BY <3>1 DEF Distance, Least, Greatest
    <3>3. rv \in Nat /\ sr \in Nat
      <4>1. 3 * r.rttvar + Distance(r.srtt, new_rtt) \in Nat /\ 7 * r.srtt + new_rtt \in Nat
        BY <3>1, <3>2
      <4> QED BY <4>1, DivCeilNat
    <3>4. s = [r EXCEPT !.rttvar = rv, !.srtt = sr]
      BY <2>1 DEF Smoothed, Estimator
    <3> HIDE DEF rv, sr, s
    <3> QED BY <3>3, <3>4 DEF Estimator
  <2>2. CASE ~r.have_measurement
    <3>1. s = [r EXCEPT !.have_measurement = TRUE, !.srtt = new_rtt, !.rttvar = new_rtt \div 2]
      BY <2>2 DEF Smoothed
    <3>2. new_rtt \div 2 \in Nat
      OBVIOUS
    <3> HIDE DEF s
    <3> QED BY <3>1, <3>2 DEF Estimator
  <2> QED BY <2>1, <2>2
<1> DEFINE m == Greatest(MinMargin, 4 * s.rttvar)
<1>2. s.srtt \in Nat /\ m \in Nat /\ m >= MinMargin
  <2> HIDE DEF s
  <2>1. s.srtt \in Nat /\ 4 * s.rttvar \in Nat /\ MinMargin \in Nat
    BY <1>1, PacingAssumption DEF Estimator
  <2> QED BY <2>1, Bounds
<1>3. /\ Timeout(s) \in MinRto .. MaxRto
      /\ Timeout(s) >= Least(s.srtt + MinMargin, MaxRto)
  <2>1. Timeout(s) = Least(Greatest(s.srtt + m, MinRto), MaxRto)
    BY DEF Timeout
  <2> HIDE DEF s, m
  <2>2. MinRto <= MaxRto /\ MinRto \in Nat /\ MaxRto \in Nat /\ MinMargin \in Nat
    BY PacingAssumption
  <2> QED BY <1>2, <2>1, <2>2 DEF Least, Greatest
<1>4. RttSample(r, new_rtt) = [s EXCEPT !.rto = Timeout(s), !.rto_count = 0]
  BY DEF RttSample
<1> DEFINE new == RttSample(r, new_rtt)
           rto == Timeout(s)
<1> HIDE DEF s, rto
<1>5. new = [s EXCEPT !.rto = rto, !.rto_count = 0] /\ rto \in MinRto .. MaxRto
  BY <1>3, <1>4 DEF rto
<1> HIDE DEF new
<1>6. new \in Estimator
  BY <1>1, <1>5 DEF Estimator
<1>7. new.rto = rto /\ new.srtt = s.srtt /\ new.max_seq_sent = s.max_seq_sent
  BY <1>1, <1>5 DEF Estimator
<1> QED BY <1>1, <1>3, <1>6, <1>7 DEF Rtt, new, rto

\* on_ack() ends the timings that the acknowledgement reaches, and only those.
LEMMA AckKeepsRtt ==
  ASSUME NEW r, Rtt(r), NEW seq \in Nat
  PROVE  /\ Rtt(RttOnAck(r, seq))
         /\ RttOnAck(r, seq).max_seq_sent = r.max_seq_sent
         /\ \A s \in RttOnAck(r, seq).timestamp : s \in r.timestamp /\ seq < s.seq
<1>1. r \in Estimator /\ r.timestamp \in SUBSET Timing
  BY DEF Rtt, Estimator
<1>2. CASE \E t \in r.timestamp : seq >= t.seq
  <2> DEFINE age == (CHOOSE t \in r.timestamp : TRUE).age
             sampled == RttSample(r, age)
             new == RttOnAck(r, seq)
  <2>1. age \in Nat
    <3>1. (CHOOSE t \in r.timestamp : TRUE) \in r.timestamp
      BY <1>2
    <3> QED BY <3>1, <1>1 DEF Timing
  <2>2. Rtt(sampled) /\ sampled.max_seq_sent = r.max_seq_sent
    BY <2>1, <1>1, SampleKeeps
  <2>3. new = [sampled EXCEPT !.timestamp = {}]
    BY <1>2 DEF RttOnAck
  <2> HIDE DEF age, sampled, new
  <2>4. sampled \in Estimator
    BY <2>2 DEF Rtt
  <2>5. /\ new \in Estimator /\ new.timestamp = {} /\ new.max_seq_sent = r.max_seq_sent
        /\ new.rto = sampled.rto /\ new.srtt = sampled.srtt /\ new.have_measurement = sampled.have_measurement
    BY <2>2, <2>3, <2>4 DEF Estimator
  <2>6. Rtt(new)
    BY <2>2, <2>5 DEF Rtt
  <2> QED BY <2>5, <2>6 DEF new
<1>3. CASE ~ \E t \in r.timestamp : seq >= t.seq
  <2>1. RttOnAck(r, seq) = r
    BY <1>3 DEF RttOnAck
  <2>2. \A s \in r.timestamp : seq < s.seq
    BY <1>3, <1>1 DEF Timing
  <2> QED BY <2>1, <2>2
<1> QED BY <1>2, <1>3

\* on_retransmit() gives up the timing and keeps the timeout within limits.
LEMMA RetransmitKeepsRtt ==
  ASSUME NEW r, Rtt(r)
  PROVE  /\ Rtt(RttOnRetransmit(r))
         /\ RttOnRetransmit(r).max_seq_sent = r.max_seq_sent
         /\ RttOnRetransmit(r).timestamp = {}
<1> DEFINE new == RttOnRetransmit(r)
           rto == Least(2 * r.rto, MaxRto)
           cleared == r.rto_count + 1 >= 3
           count == IF cleared THEN 0 ELSE r.rto_count + 1
           measured == r.have_measurement /\ ~cleared
<1>1. /\ r \in Estimator /\ r.rto \in MinRto .. MaxRto /\ r.srtt \in Nat /\ r.rto_count \in Nat
      /\ r.have_measurement \in BOOLEAN
  BY DEF Rtt, Estimator
<1>2. new = [r EXCEPT !.timestamp = {}, !.rto = rto, !.rto_count = count, !.have_measurement = measured]
  BY <1>1 DEF RttOnRetransmit, Estimator
<1>3. rto \in MinRto .. MaxRto /\ rto >= r.rto
  BY <1>1, PacingAssumption DEF Least
<1>4. count \in Nat
  BY <1>1
<1>5. measured \in BOOLEAN /\ (measured => r.have_measurement)
  OBVIOUS
<1> HIDE DEF new, rto, count, measured
<1>6. new \in Estimator
  BY <1>1, <1>2, <1>3, <1>4, <1>5 DEF Estimator
<1>7. /\ new.rto = rto /\ new.srtt = r.srtt /\ new.have_measurement = measured
      /\ new.max_seq_sent = r.max_seq_sent /\ new.timestamp = {}
  BY <1>1, <1>2 DEF Estimator
<1>8. measured => rto >= Least(r.srtt + MinMargin, MaxRto)
  <2>1. Least(r.srtt + MinMargin, MaxRto) \in Nat
    BY <1>1, PacingAssumption DEF Least
  <2>2. r.have_measurement => r.rto >= Least(r.srtt + MinMargin, MaxRto)
    BY DEF Rtt
  <2>3. r.rto \in Nat /\ rto \in Nat
    BY <1>1, <1>3, PacingAssumption
  <2>4. r.rto >= Least(r.srtt + MinMargin, MaxRto) => rto >= Least(r.srtt + MinMargin, MaxRto)
    BY <1>3, <2>1, <2>3
  <2> QED BY <1>5, <2>2, <2>4
<1> QED BY <1>6, <1>7, <1>8 DEF Rtt, new

\* on_send() moves max_seq_sent up to what is sent, and starts a timing only
\* beyond it.
LEMMA SendKeepsRtt ==
  ASSUME NEW r, Rtt(r), NEW seq \in Nat
  PROVE  /\ Rtt(RttOnSend(r, seq))
         /\ \E m \in RttOnSend(r, seq).max_seq_sent : seq <= m
         /\ \A o \in Nat : (\E m \in r.max_seq_sent : o <= m) => \E m \in RttOnSend(r, seq).max_seq_sent : o <= m
         /\ \A s \in RttOnSend(r, seq).timestamp :
              \/ s \in r.timestamp
              \/ s.seq = seq /\ \A m \in r.max_seq_sent : m < seq
<1>1. r \in Estimator /\ r.timestamp \in SUBSET Timing /\ r.max_seq_sent \in SUBSET Nat
  BY DEF Rtt, Estimator
<1>2. CASE \E m \in r.max_seq_sent : seq <= m
  <2>1. RttOnSend(r, seq) = r
    BY <1>2 DEF RttOnSend
  <2> QED BY <1>2, <2>1
<1>3. CASE ~ \E m \in r.max_seq_sent : seq <= m
  <2> DEFINE new == RttOnSend(r, seq)
             timing == [age |-> 0, seq |-> seq]
             timings == IF r.timestamp = {} THEN {timing} ELSE r.timestamp
  <2>1. new = [r EXCEPT !.max_seq_sent = {seq}, !.timestamp = timings]
    BY <1>1, <1>3 DEF RttOnSend, Estimator
  <2>2. timings \in SUBSET Timing
    BY <1>1 DEF Timing
  <2>3. \A s \in timings : s \in r.timestamp \/ s.seq = seq
    OBVIOUS
  <2> HIDE DEF new, timings, timing
  <2>4. /\ new \in Estimator /\ new.timestamp = timings /\ new.max_seq_sent = {seq}
        /\ new.rto = r.rto /\ new.srtt = r.srtt /\ new.have_measurement = r.have_measurement
    BY <1>1, <2>1, <2>2 DEF Estimator
  <2>5. Rtt(new)
    BY <2>4 DEF Rtt
  <2>6. \A m \in r.max_seq_sent : m < seq
    BY <1>1, <1>3
  <2> QED BY <1>1, <2>3, <2>4, <2>5, <2>6 DEF new
<1> QED BY <1>2, <1>3

\* Reno's window stays within its bounds whatever the sender tells it.
LEMMA RenoKeeps ==
  ASSUME NEW c \in RenoType, Control(c)
  PROVE  /\ \A len \in Nat : RenoOnAck(c, len) \in RenoType /\ Control(RenoOnAck(c, len))
         /\ RenoOnDuplicateAck(c) \in RenoType /\ Control(RenoOnDuplicateAck(c))
         /\ RenoOnRetransmit(c) \in RenoType /\ Control(RenoOnRetransmit(c))
         /\ \A win \in Nat : RenoSetRemoteWindow(c, win) \in RenoType /\ Control(RenoSetRemoteWindow(c, win))
<1>1. /\ c.cwnd \in Nat /\ c.min_cwnd \in Nat /\ c.min_cwnd # 0 /\ c.ssthresh \in Nat /\ c.rwnd \in Nat
      /\ InitialWindow \in Nat /\ MaxWindow \in Nat
  BY PacingAssumption DEF RenoType
<1>2. c # NoControl
  BY DEF RenoType, NoControl
<1>3. /\ c.cwnd >= Least(c.min_cwnd, InitialWindow)
      /\ c.cwnd <= Greatest(c.rwnd, Greatest(c.min_cwnd, InitialWindow))
  BY <1>2 DEF Control
<1>4. ASSUME NEW len \in Nat
      PROVE  RenoOnAck(c, len) \in RenoType /\ Control(RenoOnAck(c, len))
  <2> DEFINE slow_start == c.cwnd < c.ssthresh
             grown == c.cwnd + (IF slow_start THEN len ELSE c.min_cwnd)
             threshold == IF slow_start THEN c.ssthresh ELSE c.cwnd
             cwnd == Greatest(Least(Least(grown, MaxWindow), c.rwnd), c.min_cwnd)
             new == RenoOnAck(c, len)
  <2>1. new = [c EXCEPT !.ssthresh = threshold, !.cwnd = cwnd]
    BY DEF RenoOnAck, RenoType
  <2>2. grown \in Nat /\ threshold \in Nat
    BY <1>1
  <2> HIDE DEF slow_start, grown, threshold
  <2>3. cwnd \in Nat /\ cwnd >= c.min_cwnd /\ cwnd <= Greatest(c.rwnd, c.min_cwnd)
    BY <1>1, <2>2 DEF Least, Greatest
  <2> HIDE DEF cwnd, new
  <2>4. new \in RenoType /\ new.cwnd = cwnd /\ new.min_cwnd = c.min_cwnd /\ new.rwnd = c.rwnd
    BY <2>1, <2>2, <2>3 DEF RenoType
  <2>5. cwnd >= Least(c.min_cwnd, InitialWindow) /\ cwnd <= Greatest(c.rwnd, Greatest(c.min_cwnd, InitialWindow))
    BY <1>1, <2>3 DEF Least, Greatest
  <2> QED BY <2>4, <2>5 DEF Control, new
<1>5. RenoOnDuplicateAck(c) \in RenoType /\ Control(RenoOnDuplicateAck(c))
  <2> DEFINE threshold == Greatest(c.cwnd \div 2, c.min_cwnd)
             new == RenoOnDuplicateAck(c)
  <2>1. threshold \in Nat
    BY <1>1 DEF Greatest
  <2>2. new = [c EXCEPT !.ssthresh = threshold]
    BY DEF RenoOnDuplicateAck
  <2> HIDE DEF threshold, new
  <2>3. new \in RenoType /\ new.cwnd = c.cwnd /\ new.min_cwnd = c.min_cwnd /\ new.rwnd = c.rwnd
    BY <2>1, <2>2 DEF RenoType
  <2> QED BY <1>3, <2>3 DEF Control, new
<1>6. RenoOnRetransmit(c) \in RenoType /\ Control(RenoOnRetransmit(c))
  <2> DEFINE cwnd == Greatest(c.cwnd \div 2, c.min_cwnd)
             new == RenoOnRetransmit(c)
  <2>1. new = [c EXCEPT !.cwnd = cwnd]
    BY DEF RenoOnRetransmit, RenoType
  <2>2. c.cwnd \div 2 \in Nat /\ c.cwnd \div 2 <= c.cwnd
    BY <1>1
  <2>3. /\ cwnd \in Nat
        /\ cwnd >= Least(c.min_cwnd, InitialWindow) /\ cwnd <= Greatest(c.rwnd, Greatest(c.min_cwnd, InitialWindow))
    BY <1>1, <1>3, <2>2 DEF Least, Greatest
  <2> HIDE DEF cwnd, new
  <2>4. new \in RenoType /\ new.cwnd = cwnd /\ new.min_cwnd = c.min_cwnd /\ new.rwnd = c.rwnd
    BY <2>1, <2>3 DEF RenoType
  <2> QED BY <2>3, <2>4 DEF Control, new
<1>7. ASSUME NEW win \in Nat
      PROVE  RenoSetRemoteWindow(c, win) \in RenoType /\ Control(RenoSetRemoteWindow(c, win))
  <2> DEFINE rwnd == Greatest(c.rwnd, win)
             new == RenoSetRemoteWindow(c, win)
  <2>1. rwnd \in Nat /\ rwnd >= c.rwnd
    BY <1>1 DEF Greatest
  <2>2. new = [c EXCEPT !.rwnd = rwnd]
    BY DEF RenoSetRemoteWindow, RenoType
  <2> HIDE DEF rwnd, new
  <2>3. new \in RenoType /\ new.cwnd = c.cwnd /\ new.min_cwnd = c.min_cwnd /\ new.rwnd = rwnd
    BY <2>1, <2>2 DEF RenoType
  <2>4. c.cwnd <= Greatest(rwnd, Greatest(c.min_cwnd, InitialWindow))
    BY <1>1, <1>3, <2>1 DEF Greatest
  <2> QED BY <1>3, <2>3, <2>4 DEF Control, new
<1> QED BY <1>4, <1>5, <1>6, <1>7

\* Each controller is either none or Reno, and a new Reno has its window open.
LEMMA Controllers ==
  /\ Control(NoControl) /\ ~IsReno(NoControl)
  /\ Reno \in RenoType /\ Control(Reno)
  /\ \A c : Control(c) /\ IsReno(c) => c \in RenoType
<1>1. Control(NoControl) /\ ~IsReno(NoControl)
  BY DEF Control, IsReno, NoControl
<1>2. /\ Reno \in RenoType /\ Reno.cwnd = InitialWindow /\ Reno.min_cwnd = InitialWindow
      /\ Reno.rwnd = InitialRwnd /\ InitialWindow \in Nat /\ InitialRwnd \in Nat
  BY PacingAssumption DEF Reno, RenoType
<1>3. Control(Reno)
  BY <1>2 DEF Control, Least, Greatest
<1> QED BY <1>1, <1>2, <1>3 DEF Control

\* Sending a segment, from any state of the sender that dispatch() reaches
\* before it, keeps the invariant.
LEMMA TransmitKeeps ==
  ASSUME NEW STATE t, NEW STATE r, NEW STATE c, Rtt(r), Control(c), Tx(t), Covered(t, r), Timed(t, r),
         TransmitSegment(t, r, c)
  PROVE  PacingInv'
<1> DEFINE limit == SendLimit(t)
<1> DEFINE seq == t.remote_last_seq + Least(limit, t.remote_mss)
<1> DEFINE octets == t.remote_last_seq + 1 .. seq
<1> DEFINE sent == [o \in 1 .. MaxOctets |-> IF o \in octets THEN t.sent[o] + 1 ELSE t.sent[o]]
<1> DEFINE highest == Greatest(t.highest, seq)
<1>1. /\ t \in Sender /\ t.remote_mss \in Nat \ {0} /\ t.remote_win_len \in Nat /\ t.local_seq_no \in Nat
      /\ t.remote_last_seq \in Nat /\ t.written \in 0 .. MaxOctets /\ t.highest \in Nat
      /\ t.sent \in [1 .. MaxOctets -> Nat] /\ MaxOctets \in Nat
      /\ t.local_seq_no <= t.remote_last_seq /\ t.remote_last_seq <= t.highest /\ t.highest <= t.written
  BY PacingAssumption DEF Tx, Sender
<1>2. limit \in Nat /\ limit <= t.written - t.remote_last_seq
  BY <1>1 DEF SendLimit, Least, Greatest
<1>3. limit # 0
  <2>1. Least(limit, CongestionWindow(c)) # 0
    BY DEF TransmitSegment, SeqToTransmit
  <2>2. CongestionWindow(c) \in Nat
    BY PacingAssumption, Controllers DEF CongestionWindow, RenoType
  <2> HIDE DEF limit
  <2> QED BY <1>2, <2>1, <2>2 DEF Least
<1> HIDE DEF limit
<1>4. seq \in Nat /\ t.remote_last_seq < seq /\ seq <= t.written
  <2> DEFINE len == Least(limit, t.remote_mss)
  <2>1. len \in Nat /\ len # 0 /\ len <= limit
    BY <1>1, <1>2, <1>3 DEF Least
  <2> HIDE DEF len
  <2>2. seq = t.remote_last_seq + len
    BY DEF len
  <2>3. t.remote_last_seq \in Nat /\ t.written \in Nat
    BY <1>1
  <2> HIDE DEF seq
  <2> QED BY <1>2, <2>1, <2>2, <2>3
<1>5. /\ tx' = [t EXCEPT !.remote_last_seq = seq, !.highest = highest, !.sent = sent]
      /\ rtte' = RttOnSend(r, seq) /\ controller' = c
  <2>1. DOMAIN t.sent = 1 .. MaxOctets
    BY <1>1
  <2> QED BY <1>1, <2>1 DEF TransmitSegment, limit, Sender
<1> HIDE DEF seq
<1>6. highest \in Nat /\ seq <= highest /\ highest <= t.written
  BY <1>1, <1>4 DEF Greatest
<1>7. sent \in [1 .. MaxOctets -> Nat]
  BY <1>1
<1> HIDE DEF highest
<1>8. /\ tx' \in Sender /\ tx'.local_seq_no = t.local_seq_no /\ tx'.remote_last_seq = seq
      /\ tx'.highest = highest /\ tx'.written = t.written /\ tx'.sent = sent
  <2> HIDE DEF sent
  <2> QED BY <1>1, <1>4, <1>5, <1>6, <1>7 DEF Sender
<1>9. Tx(tx')
  BY <1>1, <1>4, <1>6, <1>8 DEF Tx
<1>10. /\ Rtt(rtte')
       /\ \E m \in rtte'.max_seq_sent : seq <= m
       /\ \A o \in Nat : (\E m \in r.max_seq_sent : o <= m) => \E m \in rtte'.max_seq_sent : o <= m
       /\ \A s \in rtte'.timestamp : s \in r.timestamp \/ (s.seq = seq /\ \A m \in r.max_seq_sent : m < seq)
  BY <1>4, <1>5, SendKeepsRtt
<1>11. Covered(tx', rtte')
  <2> SUFFICES ASSUME NEW o \in 1 .. MaxOctets, sent[o] # 0
               PROVE  \E m \in rtte'.max_seq_sent : o <= m
    BY <1>8 DEF Covered
  <2>1. CASE o \in octets
    <3>1. PICK m \in rtte'.max_seq_sent : seq <= m
      BY <1>10
    <3>2. m \in Nat
      BY <1>10 DEF Rtt, Estimator
    <3>3. o \in Nat /\ o <= seq
      BY <2>1, <1>1, <1>4
    <3>4. o <= m
      BY <3>1, <3>2, <3>3, <1>4
    <3> QED BY <3>1, <3>4
  <2>2. CASE o \notin octets
    <3>1. t.sent[o] # 0
      BY <2>2
    <3>2. \E m \in r.max_seq_sent : o <= m
      BY <3>1 DEF Covered
    <3> QED BY <1>10, <3>2
  <2> QED BY <2>1, <2>2
<1>12. Timed(tx', rtte')
  <2> SUFFICES ASSUME NEW s \in rtte'.timestamp
               PROVE  t.local_seq_no < s.seq /\ s.seq <= seq /\ sent[s.seq] = 1
    BY <1>8 DEF Timed
  <2>1. s.seq \in Nat
    BY <1>10 DEF Rtt, Estimator, Timing
  <2>2. CASE s \in r.timestamp
    <3>1. t.local_seq_no < s.seq /\ s.seq <= t.remote_last_seq /\ t.sent[s.seq] = 1
      BY <2>2 DEF Timed
    <3>2. s.seq \in 1 .. MaxOctets /\ s.seq \notin octets
      BY <1>1, <2>1, <3>1
    <3> QED BY <1>1, <1>4, <2>1, <3>1, <3>2
  <2>3. CASE s.seq = seq /\ \A m \in r.max_seq_sent : m < seq
    <3>1. seq \in 1 .. MaxOctets /\ seq \in octets
      BY <1>1, <1>4
    <3>2. t.sent[seq] = 0
      <4>1. \A m \in r.max_seq_sent : m \in Nat
        BY DEF Rtt, Estimator
      <4> QED BY <2>3, <3>1, <1>4, <4>1 DEF Covered
    <3> QED BY <1>1, <1>4, <2>3, <3>1, <3>2
  <2> QED BY <1>10, <2>2, <2>3
<1> QED BY <1>5, <1>9, <1>10, <1>11, <1>12 DEF PacingInv

\* A new connection: nothing was sent, nothing is timed.
LEMMA InitPaced == PacingInit => PacingInv
<1> SUFFICES ASSUME PacingInit PROVE PacingInv
  OBVIOUS
<1>1. PICK mss \in Mss, nagle \in BOOLEAN, win \in RemoteWindows :
        /\ tx = Established(mss, nagle, win)
        /\ controller \in {NoControl, RenoSetRemoteWindow(RenoSetMss(Reno, mss), win)}
  BY DEF PacingInit
<1>2. mss \in Nat /\ mss # 0 /\ win \in Nat /\ MaxOctets \in Nat /\ InitialWindow \in Nat /\ InitialRwnd \in Nat
  BY PacingAssumption
<1>3. Rtt(rtte) /\ rtte.timestamp = {}
  BY PacingAssumption DEF PacingInit, RttEstimator, Rtt, Estimator
<1>4. Tx(tx) /\ \A o \in 1 .. MaxOctets : tx.sent[o] = 0
  BY <1>1, <1>2 DEF Established, Tx, Sender
<1>5. Control(controller)
  <2> DEFINE c == RenoSetMss(Reno, mss)
  <2>1. c \in RenoType /\ c.cwnd = InitialWindow /\ c.min_cwnd = mss
    BY <1>2, Controllers DEF RenoSetMss, Reno, RenoType
  <2>2. Control(c)
    <3> HIDE DEF c
    <3>1. c.rwnd \in Nat
      BY <2>1 DEF RenoType
    <3> QED BY <1>2, <2>1, <3>1 DEF Control, Least, Greatest
  <2>3. Control(RenoSetRemoteWindow(c, win))
    <3> HIDE DEF c
    <3> QED BY <1>2, <2>1, <2>2, RenoKeeps
  <2> QED BY <1>1, <2>3, Controllers
<1> QED BY <1>3, <1>4, <1>5 DEF PacingInv, Covered, Timed

\* dispatch() that retransmits: after the rewind nothing is timed.
LEMMA RetransmitKeeps ==
  ASSUME PacingInv, DispatchRetransmits
  PROVE  PacingInv'
<1> DEFINE t == [tx EXCEPT !.remote_last_seq = tx.local_seq_no]
           r == RttOnRetransmit(rtte)
           c == IF IsReno(controller) THEN RenoOnRetransmit(controller) ELSE controller
<1>1. TransmitSegment(t, r, c) \/ (tx' = t /\ rtte' = r /\ controller' = c)
  BY DEF DispatchRetransmits
<1>2. Rtt(r) /\ r.max_seq_sent = rtte.max_seq_sent /\ r.timestamp = {}
  BY RetransmitKeepsRtt DEF PacingInv
<1>3. Control(c)
  BY RenoKeeps, Controllers DEF PacingInv
<1>4. Tx(t) /\ t.sent = tx.sent
  BY DEF PacingInv, Tx, Sender
<1> HIDE DEF t, r, c
<1>5. Covered(t, r)
  BY <1>2, <1>4 DEF PacingInv, Covered
<1>6. Timed(t, r)
  BY <1>2 DEF Timed
<1>7. CASE TransmitSegment(t, r, c)
  BY <1>2, <1>3, <1>4, <1>5, <1>6, <1>7, TransmitKeeps
<1>8. CASE tx' = t /\ rtte' = r /\ controller' = c
  BY <1>2, <1>3, <1>4, <1>5, <1>6, <1>8 DEF PacingInv
<1> QED BY <1>1, <1>7, <1>8

\* process(): an acknowledgement ends the timing it reaches, and what is still
\* timed lies beyond it.
LEMMA AckKeeps ==
  ASSUME PacingInv, NEW n \in tx.local_seq_no .. tx.highest, NEW win \in RemoteWindows, NEW empty \in BOOLEAN,
         ProcessAck(n, win, empty)
  PROVE  PacingInv'
<1>1. /\ tx \in Sender /\ tx.local_seq_no \in Nat /\ tx.remote_last_seq \in Nat /\ tx.highest \in Nat
      /\ tx.written \in 0 .. MaxOctets /\ tx.local_seq_no <= tx.remote_last_seq
      /\ tx.remote_last_seq <= tx.highest /\ tx.highest <= tx.written /\ MaxOctets \in Nat
  BY PacingAssumption DEF PacingInv, Tx, Sender
<1>2. n \in Nat /\ n - tx.local_seq_no \in Nat /\ n <= tx.highest /\ win \in Nat
  BY <1>1, PacingAssumption
<1> DEFINE last == Greatest(tx.remote_last_seq, n)
<1>3. last \in Nat /\ n <= last /\ tx.remote_last_seq <= last /\ last <= tx.highest
  BY <1>1, <1>2 DEF Greatest
<1>4. tx' = [tx EXCEPT !.remote_win_len = win, !.local_seq_no = n, !.remote_last_seq = last]
  BY <1>1 DEF ProcessAck, Sender
<1> HIDE DEF last
<1>5. /\ tx' \in Sender /\ tx'.local_seq_no = n /\ tx'.remote_last_seq = last /\ tx'.highest = tx.highest
      /\ tx'.written = tx.written /\ tx'.sent = tx.sent
  BY <1>1, <1>2, <1>3, <1>4 DEF Sender
<1>6. Tx(tx')
  BY <1>1, <1>3, <1>5 DEF Tx
<1>7. /\ Rtt(rtte') /\ rtte'.max_seq_sent = rtte.max_seq_sent
      /\ \A s \in rtte'.timestamp : s \in rtte.timestamp /\ n < s.seq
  BY <1>2, AckKeepsRtt DEF PacingInv, ProcessAck
<1>8. Covered(tx', rtte')
  BY <1>5, <1>7 DEF PacingInv, Covered
<1>9. Timed(tx', rtte')
  <2> SUFFICES ASSUME NEW s \in rtte'.timestamp
               PROVE  n < s.seq /\ s.seq <= last /\ tx.sent[s.seq] = 1
    BY <1>5 DEF Timed
  <2>1. s.seq <= tx.remote_last_seq /\ tx.sent[s.seq] = 1 /\ n < s.seq
    BY <1>7 DEF PacingInv, Timed
  <2>2. s.seq \in Nat
    BY <1>7 DEF Rtt, Estimator, Timing
  <2> QED BY <1>1, <1>3, <2>1, <2>2
<1>10. Control(controller')
  <2>1. CASE ~IsReno(controller)
    BY <2>1 DEF ProcessAck, PacingInv
  <2>2. CASE IsReno(controller)
    <3> DEFINE acked == RenoOnAck(controller, n - tx.local_seq_no)
               updated == RenoSetRemoteWindow(acked, win)
    <3>1. controller \in RenoType /\ Control(controller)
      BY <2>2, Controllers DEF PacingInv
    <3>2. acked \in RenoType /\ Control(acked)
      BY <1>2, <3>1, RenoKeeps
    <3> HIDE DEF acked
    <3>3. updated \in RenoType /\ Control(updated)
      BY <1>2, <3>2, RenoKeeps
    <3>4. controller' \in {updated, RenoOnDuplicateAck(updated)}
      BY <2>2 DEF ProcessAck, acked
    <3> HIDE DEF updated
    <3> QED BY <3>3, <3>4, RenoKeeps
  <2> QED BY <2>1, <2>2
<1> QED BY <1>6, <1>7, <1>8, <1>9, <1>10 DEF PacingInv

\* The application writes, a probe leaves, time passes, the controller is
\* replaced: no segment is sent and no timing begins.
LEMMA OthersKeep ==
  ASSUME PacingInv,
         \/ SendSlice
         \/ DispatchProbe
         \/ \E c \in {NoControl, Reno} : SetCongestionControl(c)
         \/ \E d \in Delays : PacingElapse(d)
         \/ UNCHANGED pacingVars
  PROVE  PacingInv'
<1>1. CASE SendSlice
  <2> DEFINE written == tx.written + 1
  <2>0. tx \in Sender /\ tx.written \in 0 .. MaxOctets /\ tx.highest \in Nat /\ tx.highest <= tx.written
    BY DEF PacingInv, Tx, Sender
  <2>1. /\ tx' = [tx EXCEPT !.written = written]
        /\ written \in 0 .. MaxOctets /\ tx.highest <= written
    <3>1. tx' = [tx EXCEPT !.written = written] /\ tx.written < MaxOctets
      BY <1>1, <2>0 DEF SendSlice, Sender
    <3> QED BY <2>0, <3>1, PacingAssumption
  <2> HIDE DEF written
  <2>2. /\ tx' \in Sender /\ tx'.highest = tx.highest /\ tx'.written = written /\ tx'.sent = tx.sent
        /\ tx'.local_seq_no = tx.local_seq_no /\ tx'.remote_last_seq = tx.remote_last_seq
    BY <2>0, <2>1 DEF Sender
  <2>3. Tx(tx')
    BY <2>1, <2>2 DEF PacingInv, Tx
  <2> QED BY <1>1, <2>2, <2>3 DEF SendSlice, PacingInv, Covered, Timed
<1>2. CASE DispatchProbe
  <2> DEFINE highest == Greatest(tx.highest, tx.remote_last_seq + 1)
  <2>1. tx \in Sender /\ tx' = [tx EXCEPT !.highest = highest]
    BY <1>2 DEF DispatchProbe, PacingInv, Tx, Sender
  <2>2. /\ tx.highest \in Nat /\ tx.remote_last_seq \in Nat /\ tx.written \in Nat /\ tx.remote_last_seq < tx.written
        /\ tx.remote_last_seq <= tx.highest /\ tx.highest <= tx.written
    BY <1>2, PacingAssumption DEF DispatchProbe, PacingInv, Tx, Sender
  <2>3. highest \in Nat /\ tx.remote_last_seq <= highest /\ highest <= tx.written
    BY <2>2 DEF Greatest
  <2> HIDE DEF highest
  <2>4. /\ tx' \in Sender /\ tx'.highest = highest /\ tx'.written = tx.written /\ tx'.sent = tx.sent
        /\ tx'.local_seq_no = tx.local_seq_no /\ tx'.remote_last_seq = tx.remote_last_seq
    BY <2>1, <2>3 DEF Sender
  <2>5. Tx(tx')
    BY <2>3, <2>4 DEF PacingInv, Tx
  <2> QED BY <1>2, <2>4, <2>5 DEF DispatchProbe, PacingInv, Covered, Timed
<1>3. CASE \E c \in {NoControl, Reno} : SetCongestionControl(c)
  <2>1. controller' \in {NoControl, Reno} /\ rtte' = rtte /\ tx' = tx
    BY <1>3 DEF SetCongestionControl
  <2> QED BY <2>1, Controllers DEF PacingInv
<1>4. CASE \E d \in Delays : PacingElapse(d)
  <2>1. PICK d \in Delays : PacingElapse(d)
    BY <1>4
  <2> DEFINE aged == {[t EXCEPT !.age = @ + d] : t \in rtte.timestamp}
  <2>2. rtte \in Estimator /\ rtte.timestamp \in SUBSET Timing /\ d \in Nat
    BY PacingAssumption DEF PacingInv, Rtt, Estimator
  <2>3. rtte' = [rtte EXCEPT !.timestamp = aged] /\ tx' = tx /\ controller' = controller
    BY <2>1, <2>2 DEF PacingElapse, Estimator
  <2>4. aged \in SUBSET Timing /\ \A s \in aged : \E t \in rtte.timestamp : s.seq = t.seq
    BY <2>2 DEF Timing
  <2> HIDE DEF aged
  <2>5. /\ rtte' \in Estimator /\ rtte'.timestamp = aged /\ rtte'.max_seq_sent = rtte.max_seq_sent
        /\ rtte'.rto = rtte.rto /\ rtte'.srtt = rtte.srtt /\ rtte'.have_measurement = rtte.have_measurement
    BY <2>2, <2>3, <2>4 DEF Estimator
  <2>6. Rtt(rtte')
    BY <2>5 DEF PacingInv, Rtt
  <2>7. Covered(tx', rtte') /\ Timed(tx', rtte')
    BY <2>3, <2>4, <2>5 DEF PacingInv, Covered, Timed
  <2> QED BY <2>3, <2>6, <2>7 DEF PacingInv
<1>5. CASE UNCHANGED pacingVars
  BY <1>5 DEF pacingVars, PacingInv
<1> QED BY <1>1, <1>2, <1>3, <1>4, <1>5

\* The inductive invariant of the sender: max_seq_sent covers all that was
\* sent, and a timed segment lies between the last acknowledgement and
\* remote_last_seq and was sent once.
THEOREM PacingInvariant == PacingSpec => []PacingInv
<1>1. PacingInv /\ [PacingNext]_pacingVars => PacingInv'
  <2> SUFFICES ASSUME PacingInv, [PacingNext]_pacingVars PROVE PacingInv'
    OBVIOUS
  <2>1. CASE DispatchSegment
    BY <2>1, TransmitKeeps DEF DispatchSegment, PacingInv
  <2>2. CASE DispatchRetransmits
    BY <2>2, RetransmitKeeps
  <2>3. CASE \E n \in tx.local_seq_no .. tx.highest, win \in RemoteWindows, empty \in BOOLEAN : ProcessAck(n, win, empty)
    BY <2>3, AckKeeps
  <2> QED BY <2>1, <2>2, <2>3, OthersKeep DEF PacingNext
<1> QED BY <1>1, InitPaced, PTL DEF PacingSpec

\* For all constants: a timed segment was sent once and is unacknowledged, the
\* retransmission timeout covers the measured round trip within its limits,
\* and Reno's window stays open and within bounds.
THEOREM SenderAlwaysPaced == PacingSpec => []SenderPaced
<1>1. PacingInv => SenderPaced
  <2> SUFFICES ASSUME PacingInv PROVE SenderPaced
    OBVIOUS
  <2>1. TimedOnce
    BY DEF PacingInv, Timed, TimedOnce
  <2>2. TimeoutCovers
    BY DEF PacingInv, Rtt, Estimator, TimeoutCovers
  <2>3. WindowStaysOpen
    BY Controllers DEF PacingInv, Control, WindowStaysOpen
  <2> QED BY <2>1, <2>2, <2>3 DEF SenderPaced
<1> QED BY <1>1, PacingInvariant, PTL

=============================================================================
