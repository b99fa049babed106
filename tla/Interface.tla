------------------------------ MODULE Interface -----------------------------
(***************************************************************************)
(* An Ethernet interface (iface/interface): its addresses, routes and      *)
(* neighbor cache, the UDP, ICMP and raw sockets, and the polls that move  *)
(* packets between them and the device.  Instants are kept as the time     *)
(* that is left until them.  What a packet holds is left out, datagrams    *)
(* that the sockets send are numbered.                                     *)
(***************************************************************************)
EXTENDS Numbers, Sequences, FiniteSets

CONSTANTS
  SocketSets,          \* the kinds of the sockets, "udp", "icmp", "icmpError" or "raw", in order
  Port,                \* the port or identifier that they are bound to
  OnLink, Remote,      \* addresses in the network of the interface, and elsewhere
  Broadcast,           \* 255.255.255.255
  V6,                  \* the addresses that are IPv6 ones
  Hardware,            \* the hardware addresses that each host uses
  RouteValues,         \* routes that the application adds
  Gateways,            \* default routers that it sets
  Destinations,        \* that the sockets send to
  Packets,             \* what comes in: records of a protocol and a port
  CacheCap,            \* IFACE_NEIGHBOR_CACHE_COUNT
  RouteCap,            \* IFACE_MAX_ROUTE_COUNT
  TxCap, RxCap,        \* packets in the buffers of a socket
  EntryLifetime, SilentTime, DiscoverySilentTime,
  MaxSends,            \* datagrams
  MaxEvents            \* packets that come in unasked, changes of the configuration,
                       \* polls that are late or meet a busy device, lost answers

Socket == DOMAIN Port

Forever == 100

ASSUME InterfaceAssumption ==
  /\ \A kinds \in SocketSets : kinds \in [Socket -> {"udp", "icmp", "icmpError", "raw"}]
  /\ Port \in Seq(Nat)
  /\ CacheCap \in Nat \ {0} /\ RouteCap \in Nat /\ TxCap \in Nat /\ RxCap \in Nat
  /\ EntryLifetime \in Nat \ {0} /\ SilentTime \in Nat \ {0} /\ DiscoverySilentTime \in Nat \ {0}
  /\ MaxSends \in Nat /\ MaxEvents \in Nat
  /\ Gateways \subseteq OnLink /\ Broadcast \notin OnLink \cup Remote
  /\ Destinations \subseteq OnLink \cup Remote \cup {Broadcast}
  /\ \A r \in RouteValues : r.covers \subseteq OnLink \cup Remote /\ r.via \in OnLink /\ r.expires < Forever

VARIABLES
  configured,   \* the interface has an address, and OnLink is its network
  routes, cache, silent_until,
  meta,         \* the NeighborState of each socket
  kind, bound, tx, rx,
  sends,        \* datagrams that were accepted so far
  solicited,    \* neighbors that may answer a request
  claims,       \* how long ago a host has last used a hardware address, as time left
  quiet,        \* time since the last discovery request, up to SilentTime
  frames,       \* what the last step has transmitted
  polls,        \* polls since something else has happened
  events

ifaceVars == << kind, configured, routes, cache, silent_until, meta, bound, tx, rx, sends, solicited,
                claims, quiet, frames, polls, events >>

Active == [neighbor |-> Broadcast, silent_until |-> 0]

Waiting(neighbor) == [neighbor |-> neighbor, silent_until |-> DiscoverySilentTime]

\* One more disturbance.
Event == events < MaxEvents /\ events' = events + 1

-----------------------------------------------------------------------------
(* Routes.                                                                 *)

Default == OnLink \cup Remote

NewGateway(gateway) == [covers |-> Default, prefix_len |-> 0, via |-> gateway, expires |-> Forever]

IsDefault(r) == r.prefix_len = 0

\* remove_default_ipv4_route(): the first one.
WithoutDefault ==
  LET found == {i \in DOMAIN routes : IsDefault(routes[i]) /\ \A j \in 1 .. (i - 1) : ~ IsDefault(routes[j])}
  IN  [i \in 1 .. (Len(routes) - Cardinality(found)) |->
         IF \E j \in found : j <= i THEN routes[i + 1] ELSE routes[i]]

\* The routes that lookup() keeps: an expired one has a time in the past.
Matching(addr) == {i \in DOMAIN routes : addr \in routes[i].covers /\ routes[i].expires >= 0}

\* Routes::lookup(): the last of the most specific ones.
RouteLookup(addr) ==
  {routes[i].via : i \in
     {i \in Matching(addr) : \A j \in Matching(addr) :
        \/ routes[j].prefix_len < routes[i].prefix_len
        \/ routes[j].prefix_len = routes[i].prefix_len /\ j <= i}}

InSameNetwork(addr) == configured /\ addr \in OnLink

\* route(): the next hop, none or one.
NextHop(addr) == IF InSameNetwork(addr) \/ addr = Broadcast THEN {addr} ELSE RouteLookup(addr)

-----------------------------------------------------------------------------
(* The neighbor cache.                                                     *)

EntryOf(entries, addr) == {i \in DOMAIN entries : entries[i].addr = addr}

\* Mutant of Live: an entry is used for ever.
LiveForever(entry) == TRUE

Live(entry) == entry.expires_at > 0

\* lookup() answers Found: the hardware address, none or one.
Found(entries, addr) ==
  {entries[i].hardware : i \in {i \in EntryOf(entries, addr) : Live(entries[i])}}

HasNeighbor(addr) == \E next \in NextHop(addr) : Found(cache, next) # {}

\* The last entry takes the place of the removed one.
SwapRemoved(s, i) == SubSeq([s EXCEPT ![i] = s[Len(s)]], 1, Len(s) - 1)

\* fill(): in a full cache one of the entries that expire first makes room.
\* (Of those that have expired the model does not tell which was first.)
Filled(entries, addr, hardware) ==
  LET entry  == [addr |-> addr, hardware |-> hardware, expires_at |-> EntryLifetime]
      oldest == {i \in DOMAIN entries :
                   \A j \in DOMAIN entries : entries[i].expires_at <= entries[j].expires_at}
  IN  IF EntryOf(entries, addr) # {} THEN {[entries EXCEPT ![i] = entry] : i \in EntryOf(entries, addr)}
      ELSE IF Len(entries) < CacheCap THEN {Append(entries, entry)}
      ELSE {Append(SwapRemoved(entries, i), entry) : i \in oldest}

\* reset_expiry_if_existing().
ExpiryReset(addr, hardware) ==
  [i \in DOMAIN cache |->
     IF cache[i].addr = addr /\ cache[i].hardware = hardware
       THEN [cache[i] EXCEPT !.expires_at = EntryLifetime] ELSE cache[i]]

Claimed(addr, hardware) ==
  claims' = IF addr \in OnLink THEN [claims EXCEPT ![addr][hardware] = EntryLifetime] ELSE claims

-----------------------------------------------------------------------------
(* Transmission.  A step that transmits goes through states st with the    *)
(* fields cache, silent_until, frames, solicited and ok.                   *)

\* A frame with datagram n of socket s.  Socket 0 stands for the interface itself.
Frame(s, n, dst, hardware) == [socket |-> s, n |-> n, dst |-> dst, hardware |-> hardware]

Request(neighbor) == Frame(0, 0, neighbor, Broadcast)

Requests(set) == {f \in set : f.socket = 0 /\ f.hardware = Broadcast}

\* get_source_address(): an IPv6 source is always found.
NoSource(dst) == ~ configured /\ dst \notin V6

\* Mutant of LimitRate: requests follow each other at once.
LimitRateNot(st) == st

\* limit_rate().
LimitRate(st) == [st EXCEPT !.silent_until = SilentTime]

Transmitted(st, frame) == [st EXCEPT !.frames = @ \cup {frame}, !.ok = TRUE]

Refused(st) == [st EXCEPT !.ok = FALSE]

\* lookup_hardware_addr() for a next hop that is not in the cache.
Discover(st, next) ==
  IF st.silent_until > 0 \/ NoSource(next) THEN Refused(st)
  ELSE Refused(LimitRate([st EXCEPT !.frames = @ \cup {Request(next)}, !.solicited = @ \cup {next}]))

\* dispatch_ip() on Ethernet.
DispatchIp(st, s, n, dst) ==
  IF dst = Broadcast THEN Transmitted(st, Frame(s, n, dst, Broadcast))
  ELSE IF NextHop(dst) = {} THEN Refused(st)
  ELSE LET next == CHOOSE a \in NextHop(dst) : TRUE
       IN  IF Found(st.cache, next) = {} THEN Discover(st, next)
           ELSE Transmitted(st, Frame(s, n, dst, CHOOSE h \in Found(st.cache, next) : TRUE))

Quiet(set) == quiet' = IF Requests(set) # {} THEN 0 ELSE quiet

-----------------------------------------------------------------------------
(* poll_egress().                                                          *)

\* Mutant of Permitted: the end of the silence is missed.
PermittedNoRetry(m) == m = Active \/ HasNeighbor(m.neighbor)

\* egress_permitted().
Permitted(m) == m = Active \/ HasNeighbor(m.neighbor) \/ m.silent_until = 0

Unsilenced(m) == IF m # Active /\ HasNeighbor(m.neighbor) THEN Active ELSE m

\* A raw socket's packet comes with its source.
SourceGiven(s) == kind[s] = "raw"

\* dispatch() of the others drops a packet without a source.
Dropped(s, dst) == ~ SourceGiven(s) /\ NoSource(dst)

\* Mutant of Dequeued: dequeue_with() removes a packet that was refused, too.
DequeuedAnyway(st, s) == [st EXCEPT !.tx[s] = Tail(@)]

\* dequeue_with(): only a packet that was dealt with is removed.
Dequeued(st, s) == IF st.ok THEN [st EXCEPT !.tx[s] = Tail(@)] ELSE st

\* Mutant of NeighborMissing: the socket is not silenced.
NeighborMissingNot(st, s, dst) == st

\* neighbor_missing(), when the dispatch has failed.
NeighborMissing(st, s, dst) == IF st.ok THEN st ELSE [st EXCEPT !.meta[s] = Waiting(dst)]

\* socket_egress() at one socket, of a device that takes `tokens` frames.
EgressOf(st, s, tokens) ==
  LET permitted == [st EXCEPT !.meta[s] = Unsilenced(@), !.ok = TRUE]
      head == Head(st.tx[s])
  IN  IF st.exhausted \/ ~ Permitted(st.meta[s]) THEN st
      ELSE IF st.tx[s] = << >> THEN permitted
      ELSE IF Dropped(s, head.dst) THEN Dequeued(permitted, s)
      ELSE IF Cardinality(st.frames) = tokens THEN [permitted EXCEPT !.exhausted = TRUE]
      ELSE NeighborMissing(Dequeued(DispatchIp(permitted, s, head.n, head.dst), s), s, head.dst)

\* The state after the loop over the sockets, as a set of one.
SocketEgress(tokens) ==
  LET start == [cache |-> cache, silent_until |-> silent_until, frames |-> {}, solicited |-> solicited,
                meta |-> meta, tx |-> tx, ok |-> TRUE, exhausted |-> FALSE]
      after[s \in 0 .. Len(Port)] ==
        IF s = 0 THEN {start} ELSE {EgressOf(st, s, tokens) : st \in after[s - 1]}
  IN  after[Len(Port)]

PollIfaceEgress(tokens) ==
  /\ \/ tokens = Len(Port) /\ polls' = Least(polls + 1, TxCap) /\ UNCHANGED events
     \/ tokens < Len(Port) /\ Event /\ UNCHANGED polls
  /\ UNCHANGED << kind, configured, routes, cache, bound, rx, sends, claims >>
  /\ \E st \in SocketEgress(tokens) :
       /\ silent_until' = st.silent_until /\ frames' = st.frames /\ solicited' = st.solicited
       /\ meta' = st.meta /\ tx' = st.tx /\ Quiet(st.frames)

\* poll_at() of a socket is now.  (One that waits with nothing to send is left
\* out: its silent_until may stay in the past.)
SocketDue(s) == tx[s] # << >> /\ Permitted(meta[s])

-----------------------------------------------------------------------------
(* socket_ingress().                                                       *)

\* process_arp() of a message aimed at the interface: only of the own network.
LearnArp(host, hardware) ==
  IF InSameNetwork(host) THEN cache' \in Filled(cache, host, hardware) ELSE UNCHANGED cache

\* process_ipv6() and process_ndisc() of an advertisement, for the interface or for
\* all nodes, with the flag `override` or not.
LearnNdisc(host, hardware, unicast, override) ==
  LET heard == IF unicast THEN ExpiryReset(host, hardware) ELSE cache
  IN  IF unicast /\ ~ configured THEN UNCHANGED cache
      ELSE IF override \/ Found(heard, host) = {} THEN cache' \in Filled(heard, host, hardware)
      ELSE cache' = heard

\* A solicited host answers.
Answer(host, hardware) ==
  /\ host \in solicited /\ solicited' = solicited \ {host}
  /\ \/ host \notin V6 /\ LearnArp(host, hardware)
     \/ host \in V6 /\ \E unicast, override \in BOOLEAN : LearnNdisc(host, hardware, unicast, override)
  /\ Claimed(host, hardware)
  /\ frames' = {} /\ polls' = 0
  /\ UNCHANGED << kind, configured, routes, silent_until, meta, bound, tx, rx, sends, quiet, events >>

LoseAnswer(host) ==
  /\ host \in solicited /\ solicited' = solicited \ {host} /\ Event
  /\ frames' = {} /\ polls' = 0
  /\ UNCHANGED << kind, configured, routes, cache, silent_until, meta, bound, tx, rx, sends, claims, quiet >>

\* A host asks for the address of the interface.  It is learnt, and answered
\* unless it asks by IPv6 and not through the multicast address that is meant for it.
AnswerRequest(host, hardware, unicast) ==
  /\ Event /\ configured
  /\ cache' \in Filled(cache, host, hardware) /\ Claimed(host, hardware)
  /\ frames' = IF host \in V6 /\ unicast THEN {} ELSE {Frame(0, 0, host, hardware)}
  /\ polls' = 0
  /\ UNCHANGED << kind, configured, routes, silent_until, meta, bound, tx, rx, sends, solicited, quiet >>

TakesUdp(s, packet) == kind[s] = "udp" /\ packet.protocol = "udp" /\ bound[s] /\ Port[s] = packet.port

\* The two ways of binding an ICMP socket.
TakesIcmp(s, packet) ==
  /\ bound[s] /\ Port[s] = packet.port
  /\ \/ kind[s] = "icmp" /\ packet.protocol \in {"echo", "echoReply"}
     \/ kind[s] = "icmpError" /\ packet.protocol = "error"

\* A raw socket for all protocols.  What is meant for another host it sees only in IPv4.
TakesRaw(s, src, to) == kind[s] = "raw" /\ (src \in V6 => to # "other")

\* raw_socket_filter(), process_udp(), process_icmpv4() and process_icmpv6(): all raw
\* and ICMP sockets that accept the packet, and the first UDP socket.
Receivers(src, packet, to) ==
  {s \in Socket :
     \/ TakesRaw(s, src, to)
     \/ to # "other" /\ TakesIcmp(s, packet)
     \/ to # "other" /\ TakesUdp(s, packet) /\ \A t \in 1 .. (s - 1) : ~ TakesUdp(t, packet)}

\* Another packet in the receive buffer, if there is room.
Enqueued(n) == Least(n + 1, RxCap)

\* The packet is answered by an error: not if a socket has taken it.
Unreachable(src, packet, to) ==
  to # "other" /\ packet.protocol \in {"udp", "unknown"} /\ Receivers(src, packet, to) = {}

Echoes(packet, to) == to # "other" /\ packet.protocol = "echo"

\* icmpv4_reply() and icmpv6_reply(): an IPv4 broadcast is not answered by errors,
\* and not without an address.
Replies(src, packet, to) ==
  \/ Unreachable(src, packet, to) /\ (to = "broadcast" => src \in V6)
  \/ Echoes(packet, to) /\ (to = "broadcast" => src \in V6 \/ configured)

\* process_ipv4() and process_ipv6() of a packet from src in a frame from `hardware`,
\* to the interface, to all hosts or to another one; then the reply.  A reply that is
\* refused is gone.
IngressIp(src, hardware, packet, to) ==
  LET heard == IF to = "own" THEN ExpiryReset(src, hardware) ELSE cache
      st0 == [cache |-> heard, silent_until |-> silent_until, frames |-> {}, solicited |-> solicited,
              ok |-> TRUE]
      st  == IF Replies(src, packet, to) THEN DispatchIp(st0, 0, 0, src) ELSE st0
  IN  /\ to = "own" => configured
      /\ Event
      /\ cache' = heard /\ Claimed(src, hardware)
      /\ rx' = [s \in Socket |-> IF s \in Receivers(src, packet, to) THEN Enqueued(rx[s]) ELSE rx[s]]
      /\ silent_until' = st.silent_until /\ frames' = st.frames /\ solicited' = st.solicited
      /\ Quiet(st.frames) /\ polls' = 0
      /\ UNCHANGED << kind, configured, routes, meta, bound, tx, sends >>

-----------------------------------------------------------------------------
(* The application and the clock.                                          *)

\* An unbound UDP socket refuses, an ICMP one does not.
Sendable(s) == kind[s] = "udp" => bound[s]

Send(s, dst) ==
  /\ sends < MaxSends /\ sends' = sends + 1
  /\ Sendable(s)
  /\ Len(tx[s]) < TxCap
  /\ tx' = [tx EXCEPT ![s] = Append(@, [n |-> sends + 1, dst |-> dst])]
  /\ frames' = {} /\ polls' = 0
  /\ UNCHANGED << kind, configured, routes, cache, silent_until, meta, bound, rx, solicited, claims, quiet, events >>

Recv(s) ==
  /\ rx[s] > 0 /\ rx' = [rx EXCEPT ![s] = @ - 1]
  /\ frames' = {}
  /\ UNCHANGED << kind, configured, routes, cache, silent_until, meta, bound, tx, sends, solicited, claims,
                  quiet, polls, events >>

Bind(s) ==
  /\ kind[s] # "raw" /\ ~ bound[s] /\ bound' = [bound EXCEPT ![s] = TRUE]
  /\ frames' = {}
  /\ UNCHANGED << kind, configured, routes, cache, silent_until, meta, tx, rx, sends, solicited, claims,
                  quiet, polls, events >>

\* close() of a UDP socket.  Its NeighborState stays as it is.
CloseUdp(s) ==
  /\ kind[s] = "udp" /\ bound[s] /\ Event
  /\ bound' = [bound EXCEPT ![s] = FALSE]
  /\ tx' = [tx EXCEPT ![s] = << >>] /\ rx' = [rx EXCEPT ![s] = 0]
  /\ frames' = {} /\ polls' = 0
  /\ UNCHANGED << kind, configured, routes, cache, silent_until, meta, sends, solicited, claims, quiet >>

\* update_ip_addrs() flushes the cache.
UpdateIpAddrs ==
  /\ Event
  /\ configured' = ~ configured /\ cache' = << >>
  /\ frames' = {} /\ polls' = 0
  /\ UNCHANGED << kind, routes, silent_until, meta, bound, tx, rx, sends, solicited, claims, quiet >>

\* add_default_ipv4_route(): the old one is gone even if the table is full.
AddDefaultRoute(gateway) ==
  /\ Event
  /\ routes' = IF Len(WithoutDefault) < RouteCap
                 THEN Append(WithoutDefault, NewGateway(gateway)) ELSE WithoutDefault
  /\ frames' = {} /\ polls' = 0
  /\ UNCHANGED << kind, configured, cache, silent_until, meta, bound, tx, rx, sends, solicited, claims, quiet >>

RemoveDefaultRoute ==
  /\ Event
  /\ routes' = WithoutDefault
  /\ frames' = {} /\ polls' = 0
  /\ UNCHANGED << kind, configured, cache, silent_until, meta, bound, tx, rx, sends, solicited, claims, quiet >>

\* Routes::update() with a function that adds a route.
PushRoute(route) ==
  /\ Event
  /\ Len(routes) < RouteCap /\ routes' = Append(routes, route)
  /\ frames' = {} /\ polls' = 0
  /\ UNCHANGED << kind, configured, cache, silent_until, meta, bound, tx, rx, sends, solicited, claims, quiet >>

Sooner(time, end) == IF time = Forever THEN time ELSE Greatest(time - 1, end)

\* Time passes.  Neighbors answer and the application polls sooner than that;
\* if not, it is a delay.
IfaceElapse ==
  /\ IF solicited # {} \/ \E s \in Socket : SocketDue(s) THEN Event ELSE UNCHANGED events
  /\ routes' = [i \in DOMAIN routes |-> [routes[i] EXCEPT !.expires = Sooner(@, -1)]]
  /\ cache' = [i \in DOMAIN cache |-> [cache[i] EXCEPT !.expires_at = Sooner(@, 0)]]
  /\ silent_until' = Sooner(silent_until, 0)
  /\ meta' = [s \in Socket |-> [meta[s] EXCEPT !.silent_until = Sooner(@, 0)]]
  /\ claims' = [a \in OnLink |-> [h \in Hardware[a] |-> Sooner(claims[a][h], 0)]]
  /\ quiet' = Least(quiet + 1, SilentTime)
  /\ frames' = {} /\ polls' = 0
  /\ UNCHANGED << kind, configured, bound, tx, rx, sends, solicited >>

\* An interface that is set up: it has an address and a default router, and the
\* sockets are bound.
IfaceInit ==
  /\ kind \in SocketSets /\ configured = TRUE /\ routes \in {<< NewGateway(g) >> : g \in Gateways} /\ cache = << >> /\ silent_until = 0
  /\ meta = [s \in Socket |-> Active] /\ bound = [s \in Socket |-> TRUE]
  /\ tx = [s \in Socket |-> << >>] /\ rx = [s \in Socket |-> 0]
  /\ sends = 0 /\ solicited = {} /\ claims = [a \in OnLink |-> [h \in Hardware[a] |-> 0]]
  /\ quiet = SilentTime /\ frames = {} /\ polls = 0 /\ events = 0

\* The hosts that may send a frame with src as the source of its packet: src, or any router.
Senders(src) == IF src \in OnLink THEN Hardware[src] ELSE UNION {Hardware[g] : g \in Gateways}

IfaceAnswer ==
  \E host \in solicited : \E h \in Hardware[host] : Answer(host, h)

\* The steps that take place sooner or later.
IfaceProgress == PollIfaceEgress(Len(Port)) \/ IfaceAnswer \/ IfaceElapse

IfaceNext ==
  \/ \E tokens \in 0 .. Len(Port) : PollIfaceEgress(tokens)
  \/ IfaceAnswer
  \/ \E host \in solicited : LoseAnswer(host)
  \/ \E host \in OnLink : \E h \in Hardware[host], unicast \in BOOLEAN : AnswerRequest(host, h, unicast)
  \/ \E src \in OnLink \cup Remote : \E h \in Senders(src), p \in Packets, to \in {"own", "broadcast", "other"} :
       IngressIp(src, h, p, to)
  \/ \E s \in Socket, dst \in Destinations : Send(s, dst)
  \/ \E s \in Socket : Recv(s) \/ Bind(s) \/ CloseUdp(s)
  \/ UpdateIpAddrs \/ RemoveDefaultRoute
  \/ \E g \in Gateways : AddDefaultRoute(g)
  \/ \E r \in RouteValues : PushRoute(r)
  \/ IfaceElapse

-----------------------------------------------------------------------------
\* The hosts that a frame for dst may be handed to: dst itself on the own
\* network, elsewhere the router of a route that covers it, has not expired and
\* is as specific as any such route.
Hops(dst) ==
  IF InSameNetwork(dst) THEN {dst}
  ELSE {routes[i].via : i \in {i \in DOMAIN routes :
          /\ dst \in routes[i].covers /\ routes[i].expires >= 0
          /\ \A j \in DOMAIN routes :
               dst \in routes[j].covers /\ routes[j].expires >= 0 => routes[j].prefix_len <= routes[i].prefix_len}}

\* A unicast frame goes to a hardware address that its next hop has used within
\* ENTRY_LIFETIME: through evictions, refreshed and expired entries, hosts that
\* change their hardware address and routes that come and go.
FramesReachNextHop ==
  \A f \in frames : f.hardware # Broadcast =>
    \E hop \in Hops(f.dst) : f.hardware \in Hardware[hop] /\ claims[hop][f.hardware] > 0

\* The datagrams of a socket leave in the order of send(), each of them once,
\* and none is lost because a neighbor is missing or the device is busy: one
\* leaves its queue in a frame, by close(), or for want of a source address.
KeptUntilSent ==
  [][\A s \in Socket : tx'[s] # tx[s] =>
       \/ \E d \in Destinations : tx'[s] = Append(tx[s], [n |-> sends + 1, dst |-> d])
       \/ ~ bound'[s] /\ tx'[s] = << >>
       \/ /\ tx'[s] = Tail(tx[s])
          /\ \/ \E f \in frames' : f.socket = s /\ f.n = Head(tx[s]).n
             \/ NoSource(Head(tx[s]).dst)]_ifaceVars

\* Discovery requests, of all sockets and of replies together, keep SILENT_TIME
\* between them.
RequestsSpaced ==
  [][/\ Requests(frames') # {} => quiet = SilentTime
     /\ Cardinality(Requests(frames')) <= 1]_ifaceVars

\* The sockets come to rest: after as many polls as a queue holds, none that has
\* something to send is due, whether it was sent or has to wait for a neighbor.
SocketsRest == polls = TxCap => \A s \in Socket : ~ SocketDue(s)

\* What is sent to a host that can be reached leaves the socket, in spite of the
\* other sockets that discover their neighbors at the same time.
EventuallySent ==
  \A s \in Socket :
    tx[s] # << >> ~> \/ tx[s] = << >>
                     \/ Head(tx[s]).dst # Broadcast /\ Hops(Head(tx[s]).dst) = {}
                     \/ ~ configured

=============================================================================
