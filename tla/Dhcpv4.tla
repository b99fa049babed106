------------------------------- MODULE Dhcpv4 -------------------------------
(***************************************************************************)
(* The DHCP client (socket/dhcpv4.rs), the application that applies its    *)
(* configuration, and servers behind a network that loses and delays       *)
(* messages.  Instants are kept as the time that is left until them, 0     *)
(* when they have come, in the unit of Duration.                           *)
(***************************************************************************)
EXTENDS Numbers

CONSTANTS
  DhcpServer, Address,     \* servers, and the addresses they give
  Grants,                  \* what the options of an ACK say about the lease
  TransactionIds,
  DefaultLease, MaxLease,  \* DEFAULT_LEASE_DURATION, max_lease_duration (long, if it is not set)
  DiscoverTimeout, InitialRequestTimeout, RequestRetries, MinRenewTimeout, MaxRenewTimeout,
  IgnoreNaks, HasPacketBuffer,      \* ignore_naks, and whether receive_packet_buffer is set
  Flaws,                   \* what may be wrong with a reply
  MaxDhcpFaults            \* lost, late and flawed messages, NAKs and late polls

None == -1

ASSUME DhcpAssumption ==
  /\ Grants \subseteq [lease : Nat \cup {None}, renew : Nat \cup {None}, rebind : Nat \cup {None}]
  /\ DefaultLease \in Nat /\ MaxLease \in Nat /\ RequestRetries \in Nat
  /\ DiscoverTimeout \in Nat \ {0} /\ InitialRequestTimeout \in Nat \ {0}
  /\ MinRenewTimeout \in Nat \ {0} /\ MaxRenewTimeout \in Nat \ {0}
  /\ IgnoreNaks \in BOOLEAN /\ HasPacketBuffer \in BOOLEAN /\ MaxDhcpFaults \in Nat
  /\ Flaws \subseteq {"hardware", "identifier", "address", "mask"}

\* A fact of arithmetic that no prover of TLAPS knows.
ASSUME PowersAssumption == \A n \in 0 .. RequestRetries : 2^n \in Nat \ {0}

VARIABLES
  client,          \* state
  config_changed,
  transaction_id,
  applied,         \* the configuration that the application has applied
  dhcpNet,         \* messages on their way
  polls,           \* polls at the present time that met a willing device
  dhcpFaults

dhcpVars == << client, config_changed, transaction_id, applied, dhcpNet, polls, dhcpFaults >>

NoConfig == << >>

NoServer == "broadcast"

Config(server, address) == << server, address >>

Discovering(retry_at) == [state |-> "Discovering", retry_at |-> retry_at]

Requesting(retry_at, retry, server, ip) ==
  [state |-> "Requesting", retry_at |-> retry_at, retry |-> retry, server |-> server,
   requested_ip |-> ip]

Renewing(config, renew_at, rebind_at, expires_at) ==
  [state |-> "Renewing", config |-> config, renew_at |-> renew_at, rebind_at |-> rebind_at,
   rebinding |-> FALSE, expires_at |-> expires_at]

\* ClientState.
Client ==
  [state : {"Discovering"}, retry_at : Nat]
    \cup [state : {"Requesting"}, retry_at : Nat, retry : 0 .. RequestRetries, server : DhcpServer,
          requested_ip : Address]
    \cup [state : {"Renewing"}, config : DhcpServer \X Address, renew_at : Nat, rebind_at : Nat,
          rebinding : BOOLEAN, expires_at : Nat]

Server == client.config[1]

ConfigNow == IF client.state = "Renewing" THEN client.config ELSE NoConfig

\* poll_at(): the time that is left.
DhcpPollAt ==
  IF client.state # "Renewing" THEN client.retry_at
  ELSE Least(IF client.rebinding THEN client.rebind_at ELSE Least(client.renew_at, client.rebind_at),
             client.expires_at)

-----------------------------------------------------------------------------
(* Receiving.                                                              *)

\* What parse_ack() takes the lease to be.
Lease(grant) == Least(IF grant.lease = None THEN DefaultLease ELSE grant.lease, MaxLease)

\* T1 and T2 as given if they are in order, and else as derived from what is given.
RenewAndRebind(grant) ==
  LET lease  == Lease(grant)
      renew  == grant.renew
      rebind == grant.rebind
  IN  IF renew # None /\ rebind # None /\ renew < rebind /\ rebind < lease
        THEN << renew, rebind >>
      ELSE IF renew # None /\ rebind = None /\ renew < lease
        THEN << renew, renew + ((lease - renew) * 3) \div 4 >>
      ELSE IF renew = None /\ rebind # None /\ rebind < lease
        THEN << Least(lease \div 2, rebind), rebind >>
      ELSE << lease \div 2, (lease * 7) \div 8 >>

\* The state after an ACK that parse_ack() accepts.  The server stays the one
\* that the client knew.
Acknowledged(m, server) ==
  Renewing(Config(server, m.ip), RenewAndRebind(m.grant)[1], RenewAndRebind(m.grant)[2],
           Lease(m.grant))

\* reset(): config_changed() if there was a configuration.
Restart ==
  /\ client' = Discovering(0)
  /\ config_changed' = (config_changed \/ client.state = "Renewing")

IsAnswer(m) == m.flaw \notin {"hardware", "identifier"} /\ m.xid = transaction_id

AcceptOffer(m) ==
  /\ IsAnswer(m) /\ m.type = "Offer" /\ m.flaw # "address" /\ client.state = "Discovering"
  /\ client' = Requesting(0, 0, m.server, m.ip)
  /\ UNCHANGED config_changed

AcceptAck(m) ==
  /\ IsAnswer(m) /\ m.type = "Ack" /\ m.flaw \notin {"address", "mask"}
  /\ client.state = "Requesting"
  /\ client' = Acknowledged(m, client.server)
  /\ config_changed' = TRUE

\* Mutant of Renewed: an ACK is taken to renew the same configuration.
RenewedSilently(m) ==
  /\ client' = Acknowledged(m, Server)
  /\ config_changed' = (config_changed \/ HasPacketBuffer)

Renewed(m) ==
  /\ client' = Acknowledged(m, Server)
  /\ config_changed' = (config_changed \/ client'.config # client.config \/ HasPacketBuffer)

AcceptRenewal(m) ==
  /\ IsAnswer(m) /\ m.type = "Ack" /\ m.flaw \notin {"address", "mask"}
  /\ client.state = "Renewing"
  /\ Renewed(m)

AcceptNak(m) ==
  /\ IsAnswer(m) /\ m.type = "Nak" /\ client.state \in {"Requesting", "Renewing"} /\ ~ IgnoreNaks
  /\ Restart

\* Every other message changes nothing.
Ignores(m) ==
  \/ ~ IsAnswer(m)
  \/ m.type = "Offer" /\ (m.flaw = "address" \/ client.state # "Discovering")
  \/ m.type = "Ack" /\ (m.flaw \in {"address", "mask"} \/ client.state = "Discovering")
  \/ m.type = "Nak" /\ (IgnoreNaks \/ client.state = "Discovering")

\* process().
DhcpProcess(m) ==
  /\ m.to = "client"
  /\ UNCHANGED << transaction_id, applied, dhcpFaults >>
  /\ dhcpNet' = dhcpNet \ {m}
  /\ polls' = 0
  /\ \/ AcceptOffer(m) \/ AcceptAck(m) \/ AcceptRenewal(m) \/ AcceptNak(m)
     \/ Ignores(m) /\ UNCHANGED << client, config_changed >>

-----------------------------------------------------------------------------
(* Sending.                                                                *)

\* Mutant of Emit: the new transaction id is not kept.
EmitForgets(type, server, xid) ==
  /\ UNCHANGED transaction_id
  /\ dhcpNet' = dhcpNet \cup {[to |-> server, type |-> type, xid |-> xid]}

\* emit(): the packet leaves with a new transaction id.  The server of a lease
\* is addressed until T2, and everybody otherwise.
Emit(type, server, xid) ==
  /\ transaction_id' = xid
  /\ dhcpNet' = dhcpNet \cup {[to |-> server, type |-> type, xid |-> xid]}

\* The device or the neighbor cache refuses the packet.
EmitFails == UNCHANGED << transaction_id, dhcpNet >>

DispatchDiscover(token, xid) ==
  /\ client.state = "Discovering" /\ client.retry_at = 0
  /\ UNCHANGED config_changed
  /\ IF token
       THEN Emit("Discover", NoServer, xid) /\ client' = Discovering(DiscoverTimeout)
       ELSE EmitFails /\ UNCHANGED client

RequestsExceeded == client.retry >= RequestRetries

\* The time-out doubles every two retries.
DispatchRequest(token, xid) ==
  /\ client.state = "Requesting" /\ client.retry_at = 0 /\ ~ RequestsExceeded
  /\ UNCHANGED config_changed
  /\ IF token
       THEN /\ Emit("Request", NoServer, xid)
            /\ client' = [client EXCEPT !.retry_at = InitialRequestTimeout * 2^(client.retry \div 2),
                                        !.retry = @ + 1]
       ELSE EmitFails /\ UNCHANGED client

\* Nothing is sent: the client is polled again.
GiveUpRequest ==
  /\ client.state = "Requesting" /\ client.retry_at = 0 /\ RequestsExceeded
  /\ Restart /\ UNCHANGED << transaction_id, dhcpNet >>

Expire ==
  /\ client.state = "Renewing" /\ client.expires_at = 0
  /\ Restart /\ UNCHANGED << transaction_id, dhcpNet >>

\* When the next attempt is due after one in which T2 had passed (rebinding) or not.
RebindAgain ==
  Least(Greatest(MinRenewTimeout, client.expires_at \div 2), MaxRenewTimeout)

\* Mutant of RenewAgain: the half of the time until T2, and nothing else.
RenewAgainHalf == client.rebind_at \div 2

RenewAgain ==
  Least(Least(Greatest(MinRenewTimeout, client.rebind_at \div 2), client.rebind_at), MaxRenewTimeout)

\* rebinding is set before the packet is sent, and stays set if that fails.
DispatchRenew(token, xid) ==
  LET rebinding == client.rebinding \/ client.rebind_at = 0
      tried     == [client EXCEPT !.rebinding = rebinding]
  IN  /\ client.state = "Renewing" /\ client.expires_at > 0
      /\ client.renew_at = 0 /\ (client.rebinding => client.rebind_at = 0)
      /\ UNCHANGED config_changed
      /\ IF ~ token THEN EmitFails /\ client' = tried
         ELSE IF rebinding
           THEN Emit("Request", NoServer, xid) /\ client' = [tried EXCEPT !.rebind_at = RebindAgain]
           ELSE Emit("Request", Server, xid) /\ client' = [tried EXCEPT !.renew_at = RenewAgain]

\* Mutant of NotDue: the end of the lease is noticed only when a message is due.
NotDueUntilTimer ==
  \/ client.state # "Renewing" /\ client.retry_at > 0
  \/ client.state = "Renewing"
     /\ (client.renew_at > 0 \/ (client.rebinding /\ client.rebind_at > 0))

\* Nothing has to be done yet.
NotDue ==
  \/ client.state # "Renewing" /\ client.retry_at > 0
  \/ client.state = "Renewing" /\ client.expires_at > 0
     /\ (client.renew_at > 0 \/ (client.rebinding /\ client.rebind_at > 0))

\* dispatch(), in a poll with or without room in the device.
DhcpDispatch(token, xid) ==
  /\ UNCHANGED << applied, dhcpFaults >>
  /\ polls' = IF token THEN Least(polls + 1, 2) ELSE polls
  /\ \/ DispatchDiscover(token, xid) \/ DispatchRequest(token, xid) \/ DispatchRenew(token, xid)
     \/ GiveUpRequest \/ Expire
     \/ NotDue /\ UNCHANGED << client, config_changed, transaction_id, dhcpNet >>

-----------------------------------------------------------------------------
(* The application, the servers, the network and the clock.                *)

\* poll(): the application is told about a change once, and applies what it is told.
DhcpPoll ==
  /\ config_changed /\ config_changed' = FALSE
  /\ applied' = ConfigNow
  /\ UNCHANGED << client, transaction_id, dhcpNet, polls, dhcpFaults >>

\* The application calls reset(), when the link was down.
DhcpReset ==
  /\ dhcpFaults < MaxDhcpFaults /\ dhcpFaults' = dhcpFaults + 1
  /\ Restart /\ polls' = 0
  /\ UNCHANGED << transaction_id, applied, dhcpNet >>

Offer(m, server, ip, flaw) ==
  [to |-> "client", type |-> "Offer", xid |-> m.xid, server |-> server, ip |-> ip, flaw |-> flaw]

Ack(m, ip, grant, flaw) ==
  [to |-> "client", type |-> "Ack", xid |-> m.xid, ip |-> ip, grant |-> grant, flaw |-> flaw]

Nak(m) == [to |-> "client", type |-> "Nak", xid |-> m.xid, flaw |-> "none"]

NoTime == [lease |-> 0, renew |-> None, rebind |-> None]

\* What a server may answer.
Answers(m, server, flaw) ==
  IF m.type = "Discover" THEN {Offer(m, server, ip, flaw) : ip \in Address}
  ELSE {Ack(m, ip, grant, flaw) : ip \in Address, grant \in Grants}

\* A server that the message reaches grants what it asks for.
Serve(m, server) ==
  /\ m.to \in {server, NoServer}
  /\ \E answer \in Answers(m, server, "none") : dhcpNet' = (dhcpNet \ {m}) \cup {answer}
  /\ UNCHANGED << client, config_changed, transaction_id, applied, polls, dhcpFaults >>

\* It refuses, its answer is not as it should be, or grants a lease of no time.
Misserve(m, server) ==
  /\ dhcpFaults < MaxDhcpFaults /\ dhcpFaults' = dhcpFaults + 1
  /\ m.to \in {server, NoServer}
  /\ \E answer \in (UNION {Answers(m, server, flaw) : flaw \in Flaws})
                    \cup (IF m.type # "Request" THEN {}
                        ELSE {Nak(m)} \cup {Ack(m, ip, NoTime, "none") : ip \in Address}) :
       dhcpNet' = (dhcpNet \ {m}) \cup {answer}
  /\ UNCHANGED << client, config_changed, transaction_id, applied, polls >>

LoseDhcp(m) ==
  /\ dhcpFaults < MaxDhcpFaults /\ dhcpFaults' = dhcpFaults + 1
  /\ dhcpNet' = dhcpNet \ {m}
  /\ UNCHANGED << client, config_changed, transaction_id, applied, polls >>

Passes(t) == Greatest(t - 1, 0)

OnTime == DhcpPollAt > 0 /\ ~ config_changed /\ dhcpNet = {}

\* Time passes.  The interface and the socket are polled when it is time, and
\* messages arrive before, except for a number of times.
DhcpElapse ==
  /\ \/ OnTime /\ UNCHANGED dhcpFaults
     \/ ~ OnTime /\ dhcpFaults < MaxDhcpFaults /\ dhcpFaults' = dhcpFaults + 1
  /\ UNCHANGED << config_changed, transaction_id, applied, dhcpNet >>
  /\ polls' = 0
  /\ client' = IF client.state # "Renewing" THEN [client EXCEPT !.retry_at = Passes(@)]
               ELSE [client EXCEPT !.renew_at = Passes(@), !.rebind_at = Passes(@), !.expires_at = Passes(@)]

DhcpServe == \E m \in dhcpNet, s \in DhcpServer : Serve(m, s)

DhcpIngress == \E m \in dhcpNet : DhcpProcess(m)

DhcpInit ==
  /\ client = Discovering(0) /\ config_changed = TRUE /\ transaction_id \in TransactionIds
  /\ applied = NoConfig /\ dhcpNet = {} /\ polls = 0 /\ dhcpFaults = 0

DhcpNext ==
  \/ DhcpServe \/ DhcpIngress
  \/ \E token \in BOOLEAN, xid \in TransactionIds : DhcpDispatch(token, xid)
  \/ DhcpPoll \/ DhcpReset \/ DhcpElapse
  \/ \E m \in dhcpNet, s \in DhcpServer : Misserve(m, s)
  \/ \E m \in dhcpNet : LoseDhcp(m)

DhcpSpec == DhcpInit /\ [][DhcpNext]_dhcpVars

-----------------------------------------------------------------------------
\* Types, and the order of the timers that RenewState asks for: T1 is not after
\* T2, and as long as T2 has not come it is not after the end of the lease.
DhcpTypeOK ==
  /\ config_changed \in BOOLEAN /\ polls \in 0 .. 2 /\ dhcpFaults \in 0 .. MaxDhcpFaults
  /\ client \in Client
  /\ client.state = "Renewing" /\ ~ client.rebinding =>
       client.renew_at <= client.rebind_at /\ client.rebind_at <= client.expires_at

\* The application never has another configuration than the client unless poll()
\* is going to report the change: ACKs that change the configuration, NAKs, the
\* end of the lease and reset() all leave the flag set.
ConfigReported == config_changed \/ applied = ConfigNow

\* Once the interface was polled at the present time and poll() has nothing more
\* to report, no address is in use whose lease has run out.
LeaseHonoured ==
  polls > 0 /\ ~ config_changed /\ applied # NoConfig =>
    client.state = "Renewing" /\ client.expires_at > 0

\* After two polls in a row poll_at() lies in the future: the device is not
\* flooded with requests, whatever the servers have granted.
DhcpRests == polls = 2 => DhcpPollAt > 0

\* The client has its address again and again, although messages get lost and
\* late, are refused or flawed, leases run out and the link goes down.
ConfiguredAgain == []<>(applied # NoConfig)

=============================================================================
