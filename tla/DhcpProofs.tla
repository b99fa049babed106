----------------------------- MODULE DhcpProofs -----------------------------
(***************************************************************************)
(* The safety properties of the DHCP client, for any servers, grants,      *)
(* time-outs and number of faults.                                         *)
(***************************************************************************)
EXTENDS Dhcpv4, TLAPS

Grant == [lease : Nat \cup {None}, renew : Nat \cup {None}, rebind : Nat \cup {None}]

\* What a reply that the client accepts says is of the right kind.
NetInv ==
  \A m \in dhcpNet :
    /\ m.type = "Offer" => m.server \in DhcpServer /\ m.ip \in Address
    /\ m.type = "Ack" => m.ip \in Address /\ m.grant \in Grant

\* The timer that rebinding has replaced is not set any more.
RenewInv == client.state = "Renewing" /\ client.rebinding => client.renew_at = 0

\* A poll with room in the device leaves a client whose next instant is to come,
\* or one that has just given up and starts to discover in the next poll.
PollInv ==
  polls > 0 => DhcpPollAt > 0 \/ (polls = 1 /\ client.state = "Discovering")

DhcpInv == DhcpTypeOK /\ NetInv /\ RenewInv /\ PollInv /\ ConfigReported

-----------------------------------------------------------------------------
(* Lemmas.                                                                 *)

\* Whatever an ACK grants, T1 is not after T2 and T2 not after the end of the lease.
LEMMA TimesInOrder ==
  ASSUME NEW g \in Grant
  PROVE  /\ Lease(g) \in Nat
         /\ RenewAndRebind(g)[1] \in Nat /\ RenewAndRebind(g)[2] \in Nat
         /\ RenewAndRebind(g)[1] <= RenewAndRebind(g)[2]
         /\ RenewAndRebind(g)[2] <= Lease(g)
<1>1. Lease(g) \in Nat
  BY DhcpAssumption DEF Grant, Lease, Least, None
<1>2. g.renew \in Nat \cup {-1} /\ g.rebind \in Nat \cup {-1}
  BY DEF Grant, None
<1> DEFINE lease == Lease(g)
           renew == g.renew
           rebind == g.rebind
<1>3. RenewAndRebind(g) =
        IF renew # -1 /\ rebind # -1 /\ renew < rebind /\ rebind < lease
          THEN << renew, rebind >>
        ELSE IF renew # -1 /\ rebind = -1 /\ renew < lease
          THEN << renew, renew + ((lease - renew) * 3) \div 4 >>
        ELSE IF renew = -1 /\ rebind # -1 /\ rebind < lease
          THEN << Least(lease \div 2, rebind), rebind >>
        ELSE << lease \div 2, (lease * 7) \div 8 >>
  BY DEF RenewAndRebind, None
<1>4. lease \in Nat /\ renew \in Nat \cup {-1} /\ rebind \in Nat \cup {-1}
  BY <1>1, <1>2
<1> HIDE DEF lease, renew, rebind
<1>5. /\ lease \div 2 \in Nat /\ (lease * 7) \div 8 \in Nat
      /\ lease \div 2 <= (lease * 7) \div 8 /\ (lease * 7) \div 8 <= lease
  BY <1>4
<1>6. ASSUME renew \in Nat, renew < lease
      PROVE  /\ ((lease - renew) * 3) \div 4 \in Nat
             /\ ((lease - renew) * 3) \div 4 <= lease - renew
  BY <1>4, <1>6
<1>7. CASE renew # -1 /\ rebind # -1 /\ renew < rebind /\ rebind < lease
  BY <1>3, <1>4, <1>7 DEF lease
<1>8. CASE renew # -1 /\ rebind = -1 /\ renew < lease
  <2>1. RenewAndRebind(g) = << renew, renew + ((lease - renew) * 3) \div 4 >>
    BY <1>3, <1>8
  <2>2. renew \in Nat
    BY <1>4, <1>8
  <2> QED
    BY <1>4, <1>6, <1>8, <2>1, <2>2 DEF lease
<1>9. CASE renew = -1 /\ rebind # -1 /\ rebind < lease
  BY <1>3, <1>4, <1>5, <1>9 DEF Least, lease
<1>10. CASE /\ ~ (renew # -1 /\ rebind # -1 /\ renew < rebind /\ rebind < lease)
            /\ ~ (renew # -1 /\ rebind = -1 /\ renew < lease)
            /\ ~ (renew = -1 /\ rebind # -1 /\ rebind < lease)
  <2>1. RenewAndRebind(g) = << lease \div 2, (lease * 7) \div 8 >>
    BY <1>3, <1>10
  <2> QED
    BY <1>4, <1>5, <2>1 DEF lease
<1> QED
  BY <1>7, <1>8, <1>9, <1>10

\* The states that an ACK leads to.
LEMMA AcknowledgedState ==
  ASSUME NEW m, NEW server \in DhcpServer, m.ip \in Address, m.grant \in Grant
  PROVE  /\ Acknowledged(m, server) \in Client
         /\ Acknowledged(m, server).state = "Renewing"
         /\ ~ Acknowledged(m, server).rebinding
         /\ Acknowledged(m, server).renew_at <= Acknowledged(m, server).rebind_at
         /\ Acknowledged(m, server).rebind_at <= Acknowledged(m, server).expires_at
<1> DEFINE r == RenewAndRebind(m.grant)
           l == Lease(m.grant)
<1>1. Acknowledged(m, server) =
        [state |-> "Renewing", config |-> << server, m.ip >>, renew_at |-> r[1],
         rebind_at |-> r[2], rebinding |-> FALSE, expires_at |-> l]
  BY DEF Acknowledged, Renewing, Config
<1>2. l \in Nat /\ r[1] \in Nat /\ r[2] \in Nat /\ r[1] <= r[2] /\ r[2] <= l
  BY TimesInOrder
<1> HIDE DEF r, l
<1> QED
  BY <1>1, <1>2 DEF Client

\* What is known about the fields of a state.
LEMMA ClientFields ==
  ASSUME NEW c \in Client
  PROVE  /\ c.state \in {"Discovering", "Requesting", "Renewing"}
         /\ c.state = "Discovering" => c \in [state : {"Discovering"}, retry_at : Nat]
         /\ c.state = "Requesting" =>
              c \in [state : {"Requesting"}, retry_at : Nat, retry : 0 .. RequestRetries,
                     server : DhcpServer, requested_ip : Address]
         /\ c.state = "Renewing" =>
              c \in [state : {"Renewing"}, config : DhcpServer \X Address, renew_at : Nat,
                     rebind_at : Nat, rebinding : BOOLEAN, expires_at : Nat]
BY DEF Client

\* Messages that get lost or are taken leave the others.
LEMMA NetShrinks ==
  ASSUME NetInv, dhcpNet' \subseteq dhcpNet
  PROVE  NetInv'
BY DEF NetInv

\* Answers say what they should, or are not accepted.
LEMMA NetAnswers ==
  ASSUME NetInv, NEW m, NEW server \in DhcpServer, NEW flaw,
         NEW answer \in Answers(m, server, flaw) \cup {Nak(m)}
                          \cup {Ack(m, ip, NoTime, "none") : ip \in Address},
         dhcpNet' = (dhcpNet \ {m}) \cup {answer}
  PROVE  NetInv'
<1>1. Grants \subseteq Grant /\ NoTime \in Grant
  BY DhcpAssumption DEF Grant, NoTime, None
<1>2. /\ answer.type = "Offer" => answer.server \in DhcpServer /\ answer.ip \in Address
      /\ answer.type = "Ack" => answer.ip \in Address /\ answer.grant \in Grant
  <2>1. CASE answer \in Answers(m, server, flaw)
    BY <1>1, <2>1 DEF Answers, Offer, Ack
  <2>2. CASE answer = Nak(m)
    BY <2>2 DEF Nak
  <2>3. CASE answer \in {Ack(m, ip, NoTime, "none") : ip \in Address}
    BY <1>1, <2>3 DEF Ack
  <2> QED
    BY <2>1, <2>2, <2>3
<1> QED
  BY <1>2 DEF NetInv

\* What the client sends is no reply.
LEMMA NetEmit ==
  ASSUME NetInv, NEW type \in {"Discover", "Request"}, NEW server, NEW xid,
         Emit(type, server, xid) \/ EmitFails
  PROVE  NetInv'
BY DEF NetInv, Emit, EmitFails

\* A client that starts again has its next instant now, and has told the application.
LEMMA RestartKeeps ==
  ASSUME DhcpInv, Restart, applied' = applied
  PROVE  /\ client' \in Client /\ client'.state = "Discovering" /\ config_changed' \in BOOLEAN
         /\ RenewInv' /\ ConfigReported'
<1>1. client' = [state |-> "Discovering", retry_at |-> 0]
  BY DEF Restart, Discovering
<1>2. config_changed' \in BOOLEAN
  BY DEF DhcpInv, DhcpTypeOK, Restart
<1>3. ConfigReported'
  <2>1. ConfigNow' = NoConfig
    BY <1>1 DEF ConfigNow
  <2>2. CASE client.state = "Renewing"
    BY <2>2 DEF Restart, ConfigReported
  <2>3. CASE client.state # "Renewing"
    BY <2>1, <2>3 DEF DhcpInv, Restart, ConfigReported, ConfigNow
  <2> QED
    BY <2>2, <2>3
<1> QED
  BY <1>1, <1>2, <1>3 DEF Client, RenewInv

-----------------------------------------------------------------------------
(* The steps.                                                              *)

LEMMA InitKeeps ==
  ASSUME DhcpInit
  PROVE  DhcpInv
<1>1. client = [state |-> "Discovering", retry_at |-> 0]
  BY DEF DhcpInit, Discovering
<1>2. DhcpTypeOK
  BY <1>1, DhcpAssumption DEF DhcpInit, DhcpTypeOK, Client
<1> QED
  BY <1>1, <1>2 DEF DhcpInit, DhcpInv, NetInv, RenewInv, PollInv, ConfigReported

\* A step that leaves the client, what it has reported and its polls alone.
LEMMA ClientUntouched ==
  ASSUME DhcpInv, NetInv', dhcpFaults' \in 0 .. MaxDhcpFaults,
         UNCHANGED << client, config_changed, applied, polls >>
  PROVE  DhcpInv'
<1>1. ConfigReported'
  BY DEF DhcpInv, ConfigReported, ConfigNow
<1>2. PollInv'
  BY DEF DhcpInv, PollInv, DhcpPollAt
<1> QED
  BY <1>1, <1>2 DEF DhcpInv, DhcpTypeOK, RenewInv

LEMMA NetworkKeeps ==
  ASSUME DhcpInv, NEW m \in dhcpNet, NEW server \in DhcpServer,
         Serve(m, server) \/ Misserve(m, server)
  PROVE  DhcpInv'
<1>1. dhcpFaults \in 0 .. MaxDhcpFaults /\ MaxDhcpFaults \in Nat /\ NetInv
  BY DhcpAssumption DEF DhcpInv, DhcpTypeOK
<1>2. CASE Serve(m, server)
  <2>1. PICK answer \in Answers(m, server, "none") : dhcpNet' = (dhcpNet \ {m}) \cup {answer}
    BY <1>2 DEF Serve
  <2>2. NetInv'
    BY <1>1, <2>1, NetAnswers
  <2> QED
    BY <1>1, <1>2, <2>2, ClientUntouched DEF Serve
<1>3. CASE Misserve(m, server)
  <2>1. PICK answer \in (UNION {Answers(m, server, flaw) : flaw \in Flaws})
                          \cup {Nak(m)} \cup {Ack(m, ip, NoTime, "none") : ip \in Address} :
          dhcpNet' = (dhcpNet \ {m}) \cup {answer}
    BY <1>3 DEF Misserve
  <2>2. NetInv'
    <3>1. CASE \E flaw \in Flaws : answer \in Answers(m, server, flaw)
      BY <1>1, <2>1, <3>1, NetAnswers
    <3>2. CASE answer \in {Nak(m)} \cup {Ack(m, ip, NoTime, "none") : ip \in Address}
      <4>1. answer \in Answers(m, server, "none") \cup {Nak(m)}
                        \cup {Ack(m, ip, NoTime, "none") : ip \in Address}
        BY <3>2
      <4> QED
        BY <1>1, <2>1, <4>1, NetAnswers
    <3>3. ASSUME answer \in UNION {Answers(m, server, flaw) : flaw \in Flaws}
          PROVE  \E flaw \in Flaws : answer \in Answers(m, server, flaw)
      BY <3>3
    <3> QED
      BY <2>1, <3>1, <3>2, <3>3
  <2>3. dhcpFaults' \in 0 .. MaxDhcpFaults
    BY <1>1, <1>3 DEF Misserve
  <2> QED
    BY <1>3, <2>2, <2>3, ClientUntouched DEF Misserve
<1> QED
  BY <1>2, <1>3

LEMMA ProcessKeeps ==
  ASSUME DhcpInv, NEW m \in dhcpNet, DhcpProcess(m)
  PROVE  DhcpInv'
<1>1. NetInv' /\ PollInv' /\ polls' \in 0 .. 2 /\ dhcpFaults' \in 0 .. MaxDhcpFaults
  <2>1. NetInv'
    BY NetShrinks DEF DhcpInv, DhcpProcess
  <2> QED
    BY <2>1 DEF DhcpInv, DhcpTypeOK, DhcpProcess, PollInv
<1>2. applied' = applied
  BY DEF DhcpProcess
<1>3. CASE AcceptOffer(m)
  <2>1. m.server \in DhcpServer /\ m.ip \in Address
    BY <1>3 DEF DhcpInv, NetInv, AcceptOffer
  <2>2. client' = [state |-> "Requesting", retry_at |-> 0, retry |-> 0, server |-> m.server,
                   requested_ip |-> m.ip]
    BY <1>3 DEF AcceptOffer, Requesting
  <2>3. client' \in Client /\ client'.state = "Requesting"
    BY <2>1, <2>2, DhcpAssumption DEF Client
  <2>4. ConfigReported'
    BY <1>2, <1>3, <2>3 DEF DhcpInv, AcceptOffer, ConfigReported, ConfigNow
  <2> QED
    BY <1>1, <1>3, <2>3, <2>4 DEF DhcpInv, DhcpTypeOK, RenewInv, AcceptOffer
<1>4. CASE AcceptAck(m)
  <2>1. m.ip \in Address /\ m.grant \in Grant
    BY <1>4 DEF DhcpInv, NetInv, AcceptAck
  <2>2. client.server \in DhcpServer
    BY <1>4, ClientFields DEF DhcpInv, DhcpTypeOK, AcceptAck
  <2> QED
    BY <1>1, <1>4, <2>1, <2>2, AcknowledgedState
       DEF DhcpInv, DhcpTypeOK, RenewInv, ConfigReported, AcceptAck
<1>5. CASE AcceptRenewal(m)
  <2>1. m.ip \in Address /\ m.grant \in Grant
    BY <1>5 DEF DhcpInv, NetInv, AcceptRenewal
  <2>2. Server \in DhcpServer
    BY <1>5, ClientFields DEF DhcpInv, DhcpTypeOK, AcceptRenewal, Server
  <2>3. /\ client' \in Client /\ client'.state = "Renewing" /\ ~ client'.rebinding
        /\ client'.renew_at <= client'.rebind_at /\ client'.rebind_at <= client'.expires_at
    BY <1>5, <2>1, <2>2, AcknowledgedState DEF AcceptRenewal, Renewed
  <2>4. config_changed' \in BOOLEAN
    BY <1>5 DEF AcceptRenewal, Renewed
  <2>5. ConfigReported'
    <3>1. config_changed' = (config_changed \/ client'.config # client.config \/ HasPacketBuffer)
      BY <1>5 DEF AcceptRenewal, Renewed
    <3>2. client.state = "Renewing" /\ client'.state = "Renewing"
      BY <1>5, <2>3 DEF AcceptRenewal
    <3> QED
      BY <1>2, <3>1, <3>2 DEF DhcpInv, ConfigReported, ConfigNow
  <2> QED
    BY <1>1, <2>3, <2>4, <2>5 DEF DhcpInv, DhcpTypeOK, RenewInv
<1>6. CASE AcceptNak(m)
  <2>1. /\ client' \in Client /\ client'.state = "Discovering" /\ config_changed' \in BOOLEAN
        /\ RenewInv' /\ ConfigReported'
    BY <1>2, <1>6, RestartKeeps DEF AcceptNak
  <2> QED
    BY <1>1, <2>1 DEF DhcpInv, DhcpTypeOK
<1>7. CASE UNCHANGED << client, config_changed >>
  <2>1. ConfigReported'
    BY <1>2, <1>7 DEF DhcpInv, ConfigReported, ConfigNow
  <2> QED
    BY <1>1, <1>7, <2>1 DEF DhcpInv, DhcpTypeOK, RenewInv
<1> QED
  BY <1>3, <1>4, <1>5, <1>6, <1>7 DEF DhcpProcess

\* What every way through dispatch() leaves right, and what remains to be shown
\* of the client: that it is one, and when it has to be polled next.
LEMMA DispatchRest ==
  ASSUME DhcpInv, NEW token \in BOOLEAN, NEW xid \in TransactionIds, DhcpDispatch(token, xid)
  PROVE  /\ applied' = applied /\ dhcpFaults' \in 0 .. MaxDhcpFaults /\ polls' \in 0 .. 2
         /\ polls' > 0 => token \/ polls > 0
         /\ NetInv'
<1>1. polls \in 0 .. 2 /\ polls' = IF token THEN Least(polls + 1, 2) ELSE polls
  BY DEF DhcpInv, DhcpTypeOK, DhcpDispatch
<1>2. polls' \in 0 .. 2 /\ (polls' > 0 => token \/ polls > 0)
  BY <1>1 DEF Least
<1>3. NetInv'
  <2>1. CASE dhcpNet' = dhcpNet
    BY <2>1, NetShrinks DEF DhcpInv
  <2>2. CASE DispatchDiscover(token, xid)
    BY <2>2, NetEmit DEF DhcpInv, DispatchDiscover
  <2>3. CASE DispatchRequest(token, xid)
    BY <2>3, NetEmit DEF DhcpInv, DispatchRequest
  <2>4. CASE DispatchRenew(token, xid)
    BY <2>4, NetEmit DEF DhcpInv, DispatchRenew
  <2> QED
    BY <2>1, <2>2, <2>3, <2>4 DEF DhcpDispatch, GiveUpRequest, Expire
<1> QED
  BY <1>2, <1>3 DEF DhcpInv, DhcpTypeOK, DhcpDispatch

\* A client that is polled when it is due had not been polled before at this
\* time, or it was, gave up and discovers now.
LEMMA DuePolls ==
  ASSUME DhcpInv, DhcpPollAt = 0
  PROVE  polls = 0 \/ (polls = 1 /\ client.state = "Discovering")
BY DEF DhcpInv, DhcpTypeOK, PollInv

LEMMA DiscoverKeeps ==
  ASSUME DhcpInv, NEW token \in BOOLEAN, NEW xid \in TransactionIds,
         DhcpDispatch(token, xid), DispatchDiscover(token, xid)
  PROVE  DhcpInv'
<1> USE DispatchRest
<1>1. CASE token
  <2>1. client' = [state |-> "Discovering", retry_at |-> DiscoverTimeout]
    BY <1>1 DEF DispatchDiscover, Discovering
  <2>2. client' \in Client /\ PollInv' /\ RenewInv'
    BY <2>1, DhcpAssumption DEF Client, PollInv, DhcpPollAt, RenewInv
  <2>3. ConfigReported'
    BY <2>1 DEF DhcpInv, DispatchDiscover, ConfigReported, ConfigNow
  <2> QED
    BY <2>1, <2>2, <2>3 DEF DhcpInv, DhcpTypeOK, DispatchDiscover
<1>2. CASE ~ token
  <2>1. UNCHANGED << client, config_changed, polls >>
    BY <1>2 DEF DispatchDiscover, DhcpDispatch
  <2> QED
    BY <2>1, ClientUntouched
<1> QED
  BY <1>1, <1>2

LEMMA RequestKeeps ==
  ASSUME DhcpInv, NEW token \in BOOLEAN, NEW xid \in TransactionIds,
         DhcpDispatch(token, xid), DispatchRequest(token, xid)
  PROVE  DhcpInv'
<1> USE DispatchRest
<1>1. CASE token
  <2>1. client \in [state : {"Requesting"}, retry_at : Nat, retry : 0 .. RequestRetries,
                    server : DhcpServer, requested_ip : Address]
    BY ClientFields DEF DhcpInv, DhcpTypeOK, DispatchRequest
  <2> DEFINE timeout == InitialRequestTimeout * 2^(client.retry \div 2)
  <2>2. timeout \in Nat /\ timeout > 0
    <3>1. client.retry \div 2 \in 0 .. RequestRetries
      BY <2>1, DhcpAssumption
    <3> DEFINE power == 2^(client.retry \div 2)
    <3>2. power \in Nat /\ power > 0
      BY <3>1, PowersAssumption
    <3> HIDE DEF power
    <3>3. InitialRequestTimeout * power \in Nat /\ InitialRequestTimeout * power > 0
      BY <3>2, DhcpAssumption
    <3> QED
      BY <3>3 DEF power
  <2>3. client' = [client EXCEPT !.retry_at = timeout, !.retry = @ + 1]
    BY <1>1 DEF DispatchRequest
  <2>4. client.retry < RequestRetries /\ RequestRetries \in Nat
    <3>1. ~ (client.retry >= RequestRetries)
      BY Zenon DEF DispatchRequest, RequestsExceeded
    <3> QED
      BY <2>1, <3>1, DhcpAssumption
  <2> HIDE DEF timeout
  <2>5. /\ client' \in [state : {"Requesting"}, retry_at : Nat, retry : 0 .. RequestRetries,
                        server : DhcpServer, requested_ip : Address]
        /\ client'.retry_at > 0
    <3>1. client' = [state |-> "Requesting", retry_at |-> timeout, retry |-> client.retry + 1,
                     server |-> client.server, requested_ip |-> client.requested_ip]
      BY <2>1, <2>3
    <3>2. client.retry + 1 \in 0 .. RequestRetries
      BY <2>1, <2>4
    <3> QED
      BY <2>1, <2>2, <3>1, <3>2
  <2>6. client' \in Client /\ PollInv' /\ RenewInv'
    BY <2>5 DEF Client, PollInv, DhcpPollAt, RenewInv
  <2>7. ConfigReported'
    BY <2>1, <2>5 DEF DhcpInv, DispatchRequest, ConfigReported, ConfigNow
  <2> QED
    BY <2>5, <2>6, <2>7 DEF DhcpInv, DhcpTypeOK, DispatchRequest
<1>2. CASE ~ token
  <2>1. UNCHANGED << client, config_changed, polls >>
    BY <1>2 DEF DispatchRequest, DhcpDispatch
  <2> QED
    BY <2>1, ClientUntouched
<1> QED
  BY <1>1, <1>2

\* Giving up: the next poll discovers at once.
LEMMA GiveUpKeeps ==
  ASSUME DhcpInv, NEW token \in BOOLEAN, NEW xid \in TransactionIds,
         DhcpDispatch(token, xid), GiveUpRequest \/ Expire
  PROVE  DhcpInv'
<1>1. Restart
  BY DEF GiveUpRequest, Expire
<1>2. DhcpPollAt = 0 /\ client.state # "Discovering"
  <2>1. CASE GiveUpRequest
    BY <2>1 DEF GiveUpRequest, DhcpPollAt
  <2>2. CASE Expire
    <3>1. client.expires_at = 0 /\ client.state = "Renewing"
      BY <2>2 DEF Expire
    <3>2. client.renew_at \in Nat /\ client.rebind_at \in Nat
      BY <3>1, ClientFields DEF DhcpInv, DhcpTypeOK
    <3> QED
      BY <3>1, <3>2 DEF DhcpPollAt, Least
  <2> QED
    BY <2>1, <2>2
<1>3. polls' <= 1
  BY <1>2, DuePolls DEF DhcpDispatch, Least
<1>4. /\ client' \in Client /\ client'.state = "Discovering" /\ config_changed' \in BOOLEAN
      /\ RenewInv' /\ ConfigReported'
  BY <1>1, DispatchRest, RestartKeeps
<1>5. PollInv'
  BY <1>3, <1>4, DispatchRest DEF PollInv
<1> QED
  BY <1>4, <1>5, DispatchRest DEF DhcpInv, DhcpTypeOK

LEMMA RenewKeeps ==
  ASSUME DhcpInv, NEW token \in BOOLEAN, NEW xid \in TransactionIds,
         DhcpDispatch(token, xid), DispatchRenew(token, xid)
  PROVE  DhcpInv'
<1> DEFINE Renews == [state : {"Renewing"}, config : DhcpServer \X Address, renew_at : Nat,
                      rebind_at : Nat, rebinding : BOOLEAN, expires_at : Nat]
           rebinding == client.rebinding \/ client.rebind_at = 0
           tried == [client EXCEPT !.rebinding = rebinding]
<1>1. /\ client.state = "Renewing" /\ client.expires_at > 0 /\ client.renew_at = 0
      /\ client.rebinding => client.rebind_at = 0
      /\ config_changed' = config_changed
  BY DEF DispatchRenew
<1>2. /\ client \in Renews
      /\ ~ client.rebinding => client.rebind_at <= client.expires_at
  BY <1>1, ClientFields DEF DhcpInv, DhcpTypeOK
<1>3. /\ ~ token => client' = tried
      /\ token /\ rebinding => client' = [tried EXCEPT !.rebind_at = RebindAgain]
      /\ token /\ ~ rebinding => client' = [tried EXCEPT !.renew_at = RenewAgain]
  BY DEF DispatchRenew
<1>4. DhcpPollAt = 0
  BY <1>1, <1>2 DEF DhcpPollAt, Least
<1>5. RebindAgain \in Nat /\ RebindAgain > 0
  <2>1. client.expires_at \div 2 \in Nat
    BY <1>2
  <2> QED
    BY <2>1, DhcpAssumption DEF RebindAgain, Least, Greatest
<1>6. ASSUME ~ rebinding
      PROVE  RenewAgain \in Nat /\ RenewAgain > 0 /\ RenewAgain <= client.rebind_at
  <2>1. client.rebind_at \div 2 \in Nat /\ client.rebind_at \in Nat /\ client.rebind_at > 0
    BY <1>2, <1>6
  <2> QED
    BY <2>1, DhcpAssumption DEF RenewAgain, Least, Greatest
<1>7. /\ client' \in Renews /\ client'.rebinding = rebinding /\ client'.config = client.config
      /\ client'.expires_at = client.expires_at
      /\ rebinding => client'.renew_at = 0
      /\ ~ rebinding => client'.rebind_at = client.rebind_at
  <2>0. rebinding \in BOOLEAN
    BY <1>2
  <2> HIDE DEF rebinding
  <2>1. tried \in Renews
    BY <1>2, <2>0
  <2>2. CASE ~ token
    BY <1>1, <1>2, <1>3, <2>0, <2>2
  <2>3. CASE token /\ rebinding
    BY <1>1, <1>2, <1>3, <1>5, <2>0, <2>3
  <2>4. CASE token /\ ~ rebinding
    BY <1>1, <1>2, <1>3, <1>6, <2>0, <2>4
  <2> QED
    BY <2>2, <2>3, <2>4
<1>8. ~ client'.rebinding =>
        client'.renew_at <= client'.rebind_at /\ client'.rebind_at <= client'.expires_at
  <2>1. CASE token /\ ~ rebinding
    <3>1. client' = [tried EXCEPT !.renew_at = RenewAgain]
      BY <1>3, <2>1
    <3>2. client'.renew_at = RenewAgain
      BY <1>2, <3>1
    <3> QED
      BY <1>2, <1>6, <1>7, <2>1, <3>2
  <2>2. CASE ~ token /\ ~ rebinding
    <3>1. client'.renew_at = 0 /\ client'.rebind_at \in Nat
      BY <1>1, <1>2, <1>3, <1>7, <2>2
    <3> QED
      BY <1>2, <1>7, <2>2, <3>1
  <2> QED
    BY <1>7, <2>1, <2>2
<1>9. PollInv'
  <2>1. CASE ~ token
    <3>1. polls' = 0
      BY <1>1, <1>4, <2>1, DuePolls DEF DhcpDispatch
    <3> QED
      BY <3>1 DEF PollInv
  <2>2. CASE token /\ rebinding
    <3>1. client'.rebind_at = RebindAgain
      BY <1>2, <1>3, <2>2
    <3> QED
      BY <1>1, <1>2, <1>5, <1>7, <2>2, <3>1 DEF PollInv, DhcpPollAt, Least
  <2>3. CASE token /\ ~ rebinding
    <3>1. client'.renew_at = RenewAgain
      BY <1>2, <1>3, <2>3
    <3>2. client.rebind_at > 0
      BY <1>2, <2>3
    <3> QED
      BY <1>1, <1>2, <1>6, <1>7, <2>3, <3>1, <3>2 DEF PollInv, DhcpPollAt, Least
  <2> QED
    BY <2>1, <2>2, <2>3
<1>10. ConfigReported'
  BY <1>1, <1>7, DispatchRest DEF DhcpInv, ConfigReported, ConfigNow
<1>11. client' \in Client /\ RenewInv'
  BY <1>7 DEF Client, RenewInv
<1> QED
  BY <1>1, <1>8, <1>9, <1>10, <1>11, DispatchRest DEF DhcpInv, DhcpTypeOK

LEMMA DispatchKeeps ==
  ASSUME DhcpInv, NEW token \in BOOLEAN, NEW xid \in TransactionIds, DhcpDispatch(token, xid)
  PROVE  DhcpInv'
<1>1. CASE NotDue /\ UNCHANGED << client, config_changed, transaction_id, dhcpNet >>
  <2>1. DhcpPollAt > 0
    <3>1. CASE client.state # "Renewing"
      BY <1>1, <3>1 DEF NotDue, DhcpPollAt
    <3>2. CASE client.state = "Renewing"
      <4>1. /\ client.renew_at \in Nat /\ client.rebind_at \in Nat /\ client.expires_at \in Nat
            /\ client.expires_at > 0
            /\ client.renew_at > 0 \/ (client.rebinding /\ client.rebind_at > 0)
        BY <1>1, <3>2, ClientFields DEF DhcpInv, DhcpTypeOK, NotDue
      <4>2. CASE client.rebinding
        BY <3>2, <4>1, <4>2 DEF DhcpInv, RenewInv, DhcpPollAt, Least
      <4>3. CASE ~ client.rebinding
        BY <3>2, <4>1, <4>3 DEF DhcpInv, DhcpTypeOK, DhcpPollAt, Least
      <4> QED
        BY <4>2, <4>3
    <3> QED
      BY <3>1, <3>2
  <2>2. PollInv'
    BY <1>1, <2>1 DEF PollInv, DhcpPollAt
  <2>3. ConfigReported'
    BY <1>1, DispatchRest DEF DhcpInv, ConfigReported, ConfigNow
  <2> QED
    BY <1>1, <2>2, <2>3, DispatchRest DEF DhcpInv, DhcpTypeOK, RenewInv
<1> QED
  BY <1>1, DiscoverKeeps, RequestKeeps, RenewKeeps, GiveUpKeeps DEF DhcpDispatch

LEMMA ElapseKeeps ==
  ASSUME DhcpInv, DhcpElapse
  PROVE  DhcpInv'
<1>1. /\ applied' = applied /\ config_changed' = config_changed /\ polls' = 0
      /\ dhcpFaults' \in 0 .. MaxDhcpFaults /\ NetInv'
  <2>1. NetInv'
    BY NetShrinks DEF DhcpInv, DhcpElapse
  <2> QED
    BY <2>1, DhcpAssumption DEF DhcpInv, DhcpTypeOK, DhcpElapse
<1>2. \A t \in Nat : Passes(t) \in Nat
  BY DEF Passes, Greatest
<1>3. \A t \in Nat, u \in Nat : t <= u => Passes(t) <= Passes(u)
  BY DEF Passes, Greatest
<1>4. Passes(0) = 0
  BY DEF Passes, Greatest
<1>5. CASE client.state # "Renewing"
  <2>1. client' = [client EXCEPT !.retry_at = Passes(@)]
    BY <1>5 DEF DhcpElapse
  <2>2. client' \in Client /\ client'.state # "Renewing"
    BY <1>2, <1>5, <2>1, ClientFields DEF DhcpInv, DhcpTypeOK, Client
  <2>3. ConfigReported'
    BY <1>1, <1>5, <2>2 DEF DhcpInv, ConfigReported, ConfigNow
  <2> QED
    BY <1>1, <2>2, <2>3 DEF DhcpInv, DhcpTypeOK, RenewInv, PollInv
<1>6. CASE client.state = "Renewing"
  <2>1. client' = [client EXCEPT !.renew_at = Passes(@), !.rebind_at = Passes(@),
                                 !.expires_at = Passes(@)]
    BY <1>6 DEF DhcpElapse
  <2>2. client \in [state : {"Renewing"}, config : DhcpServer \X Address, renew_at : Nat,
                    rebind_at : Nat, rebinding : BOOLEAN, expires_at : Nat]
    BY <1>6, ClientFields DEF DhcpInv, DhcpTypeOK
  <2>3. /\ client'.state = "Renewing" /\ client'.rebinding = client.rebinding
        /\ client'.config = client.config /\ client'.renew_at = Passes(client.renew_at)
        /\ client'.rebind_at = Passes(client.rebind_at)
        /\ client'.expires_at = Passes(client.expires_at)
        /\ client' \in Client
    BY <1>2, <2>1, <2>2 DEF Client
  <2>4. ~ client'.rebinding =>
          client'.renew_at <= client'.rebind_at /\ client'.rebind_at <= client'.expires_at
    BY <1>3, <1>6, <2>2, <2>3 DEF DhcpInv, DhcpTypeOK
  <2>5. RenewInv' /\ ConfigReported'
    BY <1>1, <1>4, <1>6, <2>3 DEF DhcpInv, RenewInv, ConfigReported, ConfigNow
  <2> QED
    BY <1>1, <2>3, <2>4, <2>5 DEF DhcpInv, DhcpTypeOK, PollInv
<1> QED
  BY <1>5, <1>6

\* poll() and reset().
LEMMA ApplicationKeeps ==
  ASSUME DhcpInv, DhcpPoll \/ DhcpReset
  PROVE  DhcpInv'
<1>1. CASE DhcpPoll
  <2>1. UNCHANGED << client, dhcpNet, polls, dhcpFaults >> /\ ~ config_changed' /\ applied' = ConfigNow
    BY <1>1 DEF DhcpPoll
  <2>2. ConfigReported' /\ config_changed' \in BOOLEAN
    BY <1>1, <2>1 DEF ConfigReported, ConfigNow, DhcpPoll
  <2>3. NetInv' /\ PollInv' /\ RenewInv'
    BY <2>1 DEF DhcpInv, NetInv, PollInv, RenewInv, DhcpPollAt
  <2> QED
    BY <2>1, <2>2, <2>3 DEF DhcpInv, DhcpTypeOK
<1>2. CASE DhcpReset
  <2>1. /\ Restart /\ polls' = 0 /\ applied' = applied /\ dhcpNet' = dhcpNet
        /\ dhcpFaults' \in 0 .. MaxDhcpFaults
    BY <1>2, DhcpAssumption DEF DhcpInv, DhcpTypeOK, DhcpReset
  <2>2. /\ client' \in Client /\ client'.state = "Discovering" /\ config_changed' \in BOOLEAN
        /\ RenewInv' /\ ConfigReported'
    BY <2>1, RestartKeeps
  <2>3. NetInv' /\ PollInv'
    BY <2>1 DEF DhcpInv, NetInv, PollInv
  <2> QED
    BY <2>1, <2>2, <2>3 DEF DhcpInv, DhcpTypeOK
<1> QED
  BY <1>1, <1>2

-----------------------------------------------------------------------------
(* The theorems.                                                           *)

\* The invariant holds in every state of every behaviour.
THEOREM DhcpInvariant == DhcpSpec => []DhcpInv
<1>1. DhcpInit => DhcpInv
  BY InitKeeps
<1>2. DhcpInv /\ [DhcpNext]_dhcpVars => DhcpInv'
  <2> SUFFICES ASSUME DhcpInv, [DhcpNext]_dhcpVars
               PROVE  DhcpInv'
    OBVIOUS
  <2>1. CASE DhcpServe
    BY <2>1, NetworkKeeps DEF DhcpServe
  <2>2. CASE DhcpIngress
    BY <2>2, ProcessKeeps DEF DhcpIngress
  <2>3. CASE \E token \in BOOLEAN, xid \in TransactionIds : DhcpDispatch(token, xid)
    BY <2>3, DispatchKeeps
  <2>4. CASE DhcpPoll \/ DhcpReset
    BY <2>4, ApplicationKeeps
  <2>5. CASE DhcpElapse
    BY <2>5, ElapseKeeps
  <2>6. CASE \E m \in dhcpNet, s \in DhcpServer : Misserve(m, s)
    BY <2>6, NetworkKeeps
  <2>7. CASE \E m \in dhcpNet : LoseDhcp(m)
    <3>1. NetInv' /\ dhcpFaults' \in 0 .. MaxDhcpFaults
      BY <2>7, NetShrinks, DhcpAssumption DEF DhcpInv, DhcpTypeOK, LoseDhcp
    <3> QED
      BY <2>7, <3>1, ClientUntouched DEF LoseDhcp
  <2>8. CASE UNCHANGED dhcpVars
    <3>1. NetInv' /\ dhcpFaults' \in 0 .. MaxDhcpFaults
      BY <2>8, NetShrinks DEF DhcpInv, DhcpTypeOK, dhcpVars
    <3> QED
      BY <2>8, <3>1, ClientUntouched DEF dhcpVars
  <2> QED
    BY <2>1, <2>2, <2>3, <2>4, <2>5, <2>6, <2>7, <2>8 DEF DhcpNext
<1> QED
  BY <1>1, <1>2, PTL DEF DhcpSpec

\* The client's state keeps its type, and T1, T2 and the end of the lease keep
\* their order until T2 has come.
THEOREM DhcpTypeCorrect == DhcpSpec => []DhcpTypeOK
<1>1. DhcpInv => DhcpTypeOK
  BY DEF DhcpInv
<1> QED
  BY <1>1, DhcpInvariant, PTL

\* The application never has another configuration than the client unless poll()
\* is going to report the change.
THEOREM ConfigAlwaysReported == DhcpSpec => []ConfigReported
<1>1. DhcpInv => ConfigReported
  BY DEF DhcpInv
<1> QED
  BY <1>1, DhcpInvariant, PTL

\* Once the interface was polled at the present time and poll() has nothing more
\* to report, no address is in use whose lease has run out.
THEOREM LeaseAlwaysHonoured == DhcpSpec => []LeaseHonoured
<1>1. DhcpInv => LeaseHonoured
  <2> SUFFICES ASSUME DhcpInv, polls > 0, ~ config_changed, applied # NoConfig
               PROVE  client.state = "Renewing" /\ client.expires_at > 0
    BY DEF LeaseHonoured
  <2>1. client.state = "Renewing"
    BY DEF DhcpInv, ConfigReported, ConfigNow
  <2>2. client.renew_at \in Nat /\ client.rebind_at \in Nat /\ client.expires_at \in Nat
    BY <2>1, ClientFields DEF DhcpInv, DhcpTypeOK
  <2>3. DhcpPollAt > 0
    BY <2>1 DEF DhcpInv, PollInv
  <2> QED
    BY <2>1, <2>2, <2>3 DEF DhcpPollAt, Least
<1> QED
  BY <1>1, DhcpInvariant, PTL

\* After two polls in a row poll_at() lies in the future, whatever the servers
\* have granted.
THEOREM DhcpAlwaysRests == DhcpSpec => []DhcpRests
<1>1. DhcpInv => DhcpRests
  BY DEF DhcpInv, PollInv, DhcpRests
<1> QED
  BY <1>1, DhcpInvariant, PTL

=============================================================================
