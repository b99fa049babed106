---------------------------- MODULE TcpConnection ---------------------------
(***************************************************************************)
(* Two sockets of socket/tcp.rs and the network between them: every call   *)
(* an application may make, every segment that may arrive, every dispatch  *)
(* by the interface and every timer, in any order.  The network keeps      *)
(* segments in order, but it may lose, duplicate or delay some of them, or *)
(* take so long that a deadline passes first: MaxFaults times in all.      *)
(***************************************************************************)
EXTENDS TcpIngress, TcpEgress

CONSTANTS
  Openers,       \* nodes that connect()
  Listeners,     \* nodes that listen()
  Isn,           \* [Node -> SeqNumber]: the initial sequence numbers
  Writes,        \* [Node -> Nat]: octets each application sends
  CloseStates,   \* the states in which applications call close()
  Aborters,      \* nodes that may abort()
  KeepAliveNodes,           \* nodes that may set_keep_alive()
  Timeout, AckDelay, Nagle, \* the other socket options, as BOOLEANs
  MaxOpens,      \* bound on listen() and connect() calls of a node
  MaxNet,        \* bound on the segments in flight to a node
  MaxFaults      \* bound on losses, duplicates, delays and early deadlines

Node == {"A", "B"}

Peer(n) == IF n = "A" THEN "B" ELSE "A"

ASSUME ConnectionAssumption ==
  /\ Openers \subseteq Node /\ Listeners \subseteq Node
  /\ Aborters \subseteq Node /\ KeepAliveNodes \subseteq Node
  /\ Isn \in [Node -> SeqNumber] /\ Writes \in [Node -> Nat]
  /\ CloseStates \subseteq State
  /\ {Timeout, AckDelay, Nagle} \subseteq BOOLEAN
  /\ MaxOpens \in Nat /\ MaxNet \in Nat /\ MaxFaults \in Nat

VARIABLES
  sock,        \* [Node -> Socket]
  net,         \* [Node -> Seq(Segment)]: the segments on their way to a node
  opens,       \* [Node -> Nat]: listen() and connect() calls made
  written,     \* [Node -> Nat]: octets accepted by send_slice()
  delivered,   \* [Node -> Seq(Octet)]: octets returned by recv_slice()
  faults       \* faults of the network so far

vars == << sock, net, opens, written, delivered, faults >>

Init ==
  /\ sock = [n \in Node |-> SocketNew(Timeout, FALSE, AckDelay, Nagle)]
  /\ net = [n \in Node |-> << >>]
  /\ opens = [n \in Node |-> 0]
  /\ written = [n \in Node |-> 0]
  /\ delivered = [n \in Node |-> << >>]
  /\ faults = 0

-----------------------------------------------------------------------------
(* The applications.                                                       *)

Opens(n, s) ==
  /\ ~ IsOpen(sock[n]) /\ opens[n] < MaxOpens
  /\ sock' = [sock EXCEPT ![n] = s]
  /\ opens' = [opens EXCEPT ![n] = @ + 1]
  /\ written' = [written EXCEPT ![n] = 0]
  /\ delivered' = [delivered EXCEPT ![n] = << >>]
  /\ UNCHANGED << net, faults >>

Listen(n) == n \in Listeners /\ Opens(n, ListenCall(sock[n]))

Connect(n) == n \in Openers /\ Opens(n, ConnectCall(sock[n], Isn[n]))

Close(n) ==
  /\ sock[n].state \in CloseStates
  /\ sock' = [sock EXCEPT ![n] = CloseCall(@)]
  /\ UNCHANGED << net, opens, written, delivered, faults >>

Abort(n) ==
  /\ n \in Aborters /\ sock[n].state # "Closed"
  /\ sock' = [sock EXCEPT ![n] = AbortCall(@)]
  /\ UNCHANGED << net, opens, written, delivered, faults >>

\* send_slice() of the next octets of the application's stream, as many as
\* fit.
Send(n) ==
  /\ MaySend(sock[n])
  /\ LET k == Least(Writes[n] - written[n], TxCap - Len(sock[n].tx_buffer))
     IN  /\ k > 0
         /\ sock' = [sock EXCEPT ![n] = SendCall(@, [i \in 1 .. k |-> written[n] + i])]
         /\ written' = [written EXCEPT ![n] = @ + k]
  /\ UNCHANGED << net, opens, delivered, faults >>

\* recv_slice() of one or more octets.
Recv(n) ==
  /\ MayRecv(sock[n])
  /\ \E k \in 1 .. Len(sock[n].rx_buffer) :
       /\ sock' = [sock EXCEPT ![n] = RecvCall(@, k)]
       /\ delivered' = [delivered EXCEPT ![n] = @ \o SubSeq(sock[n].rx_buffer, 1, k)]
  /\ UNCHANGED << net, opens, written, faults >>

SetKeepAlive(n) ==
  /\ n \in KeepAliveNodes /\ ~ sock[n].keep_alive
  /\ sock' = [sock EXCEPT ![n] = SetKeepAliveCall(@)]
  /\ UNCHANGED << net, opens, written, delivered, faults >>

-----------------------------------------------------------------------------
(* The interface: one received segment, one dispatch.                      *)

\* Segments for which the channel has no room are dropped: the reply to a
\* received segment is sent at once or never.
Room(q, segments) == IF Len(q) < MaxNet THEN q \o segments ELSE q

Ingress(n, rest) ==
  LET out == ProcessTcp(sock[n], Head(net[n]), Isn[n])
  IN  /\ sock' = [sock EXCEPT ![n] = out.sock]
      /\ net' = [net EXCEPT ![n] = rest, ![Peer(n)] = Room(@, out.segments)]
      /\ UNCHANGED << opens, written, delivered >>

Receive(n) == net[n] # << >> /\ Ingress(n, Tail(net[n])) /\ UNCHANGED faults

CanTransmit(n) ==
  /\ sock[n].tuple /\ ~ DispatchPanics(sock[n])
  /\ Len(net[Peer(n)]) < MaxNet
  /\ Dispatch(sock[n]) # Outcome(sock[n], << >>)

\* dispatch() when the device takes what it is given.
Transmit(n) ==
  /\ CanTransmit(n)
  /\ LET out == Dispatch(sock[n])
     IN  /\ sock' = [sock EXCEPT ![n] = out.sock]
         /\ net' = [net EXCEPT ![Peer(n)] = @ \o out.segments]
  /\ UNCHANGED << opens, written, delivered, faults >>

\* dispatch() when the device has no room.
TransmitExhausted(n) ==
  /\ sock[n].tuple /\ ~ DispatchPanics(sock[n])
  /\ Len(net[Peer(n)]) = MaxNet
  /\ DispatchExhausted(sock[n]) # sock[n]
  /\ sock' = [sock EXCEPT ![n] = DispatchExhausted(@)]
  /\ UNCHANGED << net, opens, written, delivered, faults >>

-----------------------------------------------------------------------------
(* Time and the network.                                                   *)

\* Nothing is under way and no socket asks to be polled at once.
Quiet == \A n \in Node : net[n] = << >> /\ PollAt(sock[n]) # "Now"

\* A deadline passes: when all is quiet, or early, which counts as a fault.
Elapse(n, s) ==
  /\ \/ Quiet /\ UNCHANGED faults
     \/ ~ Quiet /\ faults < MaxFaults /\ faults' = faults + 1
  /\ sock' = [sock EXCEPT ![n] = s]
  /\ UNCHANGED << net, opens, written, delivered >>

ElapseTimer(n) == TimerArmed(sock[n]) /\ Elapse(n, TimerExpires(sock[n]))

ElapseAckDelay(n) ==
  sock[n].ack_delay_timer = "Waiting" /\ Elapse(n, AckDelayExpires(sock[n]))

ElapseChallengeAck(n) ==
  sock[n].challenge_ack_timer = "Silent" /\ Elapse(n, ChallengeAckAllowed(sock[n]))

ElapseTimeout(n) ==
  sock[n].timeout /\ sock[n].remote_last_ts = "Recent" /\ Elapse(n, TimeoutExpires(sock[n]))

Fault(n) == net[n] # << >> /\ faults < MaxFaults /\ faults' = faults + 1

Lose(n) ==
  /\ Fault(n)
  /\ net' = [net EXCEPT ![n] = Tail(@)]
  /\ UNCHANGED << sock, opens, written, delivered >>

\* The receiver sees the segment now and again later.
Duplicate(n) == Fault(n) /\ Ingress(n, net[n])

\* Everything behind the segment overtakes it.
Delay(n) ==
  /\ Fault(n) /\ Len(net[n]) > 1
  /\ net' = [net EXCEPT ![n] = Append(Tail(@), Head(@))]
  /\ UNCHANGED << sock, opens, written, delivered >>

Next ==
  \E n \in Node :
    \/ Listen(n) \/ Connect(n) \/ Close(n) \/ Abort(n) \/ Send(n) \/ Recv(n)
    \/ SetKeepAlive(n)
    \/ Receive(n) \/ Transmit(n) \/ TransmitExhausted(n)
    \/ ElapseTimer(n) \/ ElapseAckDelay(n) \/ ElapseChallengeAck(n) \/ ElapseTimeout(n)
    \/ Lose(n) \/ Duplicate(n) \/ Delay(n)

Spec == Init /\ [][Next]_vars

\* The interface is polled whenever a frame is there and whenever poll_at()
\* asks for it, and applications read what has arrived: weak fairness.  Clocks
\* run on whatever else happens: strong fairness of the deadlines.  (The weak
\* fairness of Receive and Transmit is written out, with the condition under
\* which each is enabled: TLC is slow to find it.)
Fairness ==
  \A n \in Node :
    /\ []<>(net[n] = << >>) \/ []<><<Receive(n)>>_vars
    /\ []<>(~ CanTransmit(n)) \/ []<><<Transmit(n)>>_vars
    /\ WF_vars(Recv(n))
    /\ SF_vars(ElapseTimer(n)) /\ SF_vars(ElapseAckDelay(n)) /\ SF_vars(ElapseChallengeAck(n))

FairSpec == Spec /\ Fairness

-----------------------------------------------------------------------------
(* Invariants.                                                             *)

\* Every field keeps its type, and neither ring holds more than it can: the
\* octets process() writes ahead of rx_buffer stay inside its free part.
TypeOK ==
  /\ sock \in [Node -> Socket]
  /\ net \in [Node -> Seq(Segment)]
  /\ opens \in [Node -> Nat] /\ written \in [Node -> Nat]
  /\ delivered \in [Node -> Seq(Octet)]
  /\ faults \in Nat
  /\ \A n \in Node :
       /\ Len(sock[n].rx_buffer) <= RxCap /\ Len(sock[n].tx_buffer) <= TxCap
       /\ \A o \in sock[n].assembler : o < Window(sock[n])

Received(n) == delivered[n] \o sock[n].rx_buffer

\* recv_slice() returns a prefix of what the peer's application sent, in
\* order, without loss, repetition or a keep-alive's garbage octet, whatever
\* the network loses, repeats or delays.
StreamIntegrity ==
  \A n \in Node :
    /\ Len(Received(n)) <= written[Peer(n)]
    /\ \A i \in 1 .. Len(Received(n)) : Received(n)[i] = i

\* recv() returns RecvError::Finished only once every octet the peer's
\* application sent has been returned.
FinishedMeansComplete ==
  \A n \in Node : RecvFinished(sock[n]) => Len(delivered[n]) = written[Peer(n)]

\* An octet is dropped from tx_buffer only when the peer has it: what
\* process() dequeues on an ACK is never needed again.  (When TIME-WAIT ends
\* reset() throws away octets the application has not read yet.)
KeepsUndelivered ==
  \A n \in Node :
    (sock[n].tuple /\ sock[Peer(n)].tuple) =>
      written[n] - Len(sock[n].tx_buffer) <= Len(Received(Peer(n)))

\* A segment in flight reaches at most one octet, a zero-window probe, beyond
\* the window its receiver has room for.
SendsWithinWindow ==
  \A n \in Node : \A i \in 1 .. Len(net[n]) :
    (net[n][i].payload # << >> /\ Synchronized(sock[n]) /\ sock[n].tuple)
      => SegmentPos(sock[n], net[n][i]) + Len(net[n][i].payload) <= Window(sock[n]) + 1

\* A socket in FIN-WAIT-2 has had its FIN received by the peer.
FinAcknowledged ==
  \A n \in Node : sock[n].state = "FinWait2" => sock[Peer(n)].rx_fin_received


\* process() never fails its assertions, whatever segment is next: it never
\* dequeues more octets than tx_buffer holds, and the part of the payload it
\* cuts out is never of negative length.
AssertionsHold ==
  \A n \in Node :
    (net[n] # << >> /\ Accepts(sock[n], Head(net[n]))) =>
      ~ ProcessPanics(sock[n], Head(net[n]))

\* While octets or a FIN are in flight some timer will bring them up again
\* (RFC 6298, 5.1).
InFlightIsTimed ==
  \A n \in Node :
    (sock[n].tuple /\ DataInFlight(sock[n]) /\ SendsData(sock[n])) => ~ IsIdle(sock[n].timer)

\* poll_at() mirrors dispatch(): when dispatch() would do anything, poll_at()
\* says so, and the interface is not left asleep.
NoLostWakeup ==
  \A n \in Node :
    (sock[n].tuple /\ Dispatch(sock[n]) # Outcome(sock[n], << >>)) => PollAt(sock[n]) = "Now"

\* When poll_at() says Now, dispatch() gets something done: it never leaves
\* the socket as it was, which would make the interface poll forever.
NoSpin ==
  \A n \in Node : PollAt(sock[n]) = "Now" => Dispatch(sock[n]).sock # sock[n]

-----------------------------------------------------------------------------
(* Action properties.                                                      *)

\* The right edge of the window a socket has advertised.
RightEdge(s) == SeqAdd(s.remote_last_ack, s.remote_last_win * s.remote_win_shift)

SameConnection(s, t) ==
  /\ s.tuple /\ t.tuple /\ s.remote_last_ack # None /\ t.remote_last_ack # None
  /\ s.state \notin {"SynSent", "SynReceived"}

\* What was acknowledged stays acknowledged, by the peer and to the peer, and a
\* window once offered is not taken back: neither process() of an old segment
\* nor dispatch() nor an ACK reply moves one of these edges to the left.
NeverTakesBack ==
  [][\A n \in Node :
       SameConnection(sock[n], sock'[n]) =>
         /\ ~ SeqLt(sock'[n].local_seq_no, sock[n].local_seq_no)
         /\ ~ SeqLt(sock'[n].remote_last_ack, sock[n].remote_last_ack)
         /\ ~ SeqLt(RightEdge(sock'[n]), RightEdge(sock[n]))]_vars

-----------------------------------------------------------------------------
(* Liveness.                                                               *)

\* Everything an application sends is eventually read by the other one, if
\* the connection is not reset: lost segments are retransmitted, and a closed
\* window is probed until it opens.
EventuallyDelivered ==
  \A n \in Node :
    Len(delivered[Peer(n)]) < written[n] ~>
      Len(delivered[Peer(n)]) = written[n] \/ sock[n].state = "Closed"

\* A close() is carried through: no socket waits forever for its FIN to be
\* acknowledged or for TIME-WAIT to end.
CloseCompletes ==
  \A n \in Node :
    LET leaving == sock[n].state \in {"FinWait1", "Closing", "LastAck", "TimeWait"}
    IN  leaving ~> ~ leaving

=============================================================================
