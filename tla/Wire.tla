-------------------------------- MODULE Wire --------------------------------
(***************************************************************************)
(* A packet on its way from emit() to parse(): it is emitted into a buffer *)
(* that holds what was there before, and it may be padded at its end,      *)
(* damaged in one octet or handed to the wrong host before it is parsed.   *)
(* A sample is [format, repr, src_addr, dst_addr, checksums].              *)
(***************************************************************************)
EXTENDS WireLink, WireApp, WireSixlowpan

CONSTANTS
  Samples,      \* packets, with the addresses and the checksum capabilities
                \* that emit() and parse() are given
  Fills,        \* what the buffer is filled with before
  Flips         \* what is added to a damaged octet, modulo 256

VARIABLES
  sample,       \* the packet
  octets,       \* the buffer; of a compressed IPv6 packet, what each of its frames carries
  room,         \* how many octets buffer_len() has asked for
  clean,        \* whether the buffer holds nothing of what it was filled with
  fate,         \* what has happened to it
  parsed        \* the result of parse(), if any

wireVars == << sample, octets, room, clean, fate, parsed >>

NoSample == << >>

NotParsed == [ok |-> FALSE, repr |-> << >>]

\* buffer_len() of the representation.
BufferLenOf(s) ==
  LET r == s.repr
  IN  CASE s.format = "ethernet" -> EthernetBufferLen(r)
        [] s.format = "arp" -> ArpBufferLen
        [] s.format = "ipv4" -> Ipv4BufferLen(r)
        [] s.format = "ipv6" -> Ipv6BufferLen(r)
        [] s.format = "udp" -> UdpBufferLen(r)
        [] s.format = "tcp" -> TcpBufferLen(r)
        [] s.format = "icmpv4" -> Icmpv4BufferLen(r)
        [] s.format = "igmp" -> IgmpBufferLen
        [] s.format = "icmpv6" -> Icmpv6BufferLen(r)
        [] s.format = "rpl_option" -> RplOptionBufferLen(r)
        [] s.format = "ext" -> 2 + Len(r.data)
        [] s.format = "fragment" -> FragmentField.IDENT[2]
        [] s.format = "ipv6_option" -> Ipv6OptionBufferLen(r)
        [] s.format = "hbh" -> HbhBufferLen(r)
        [] s.format = "routing" -> RoutingBufferLen(r)
        [] s.format = "ah" -> AhBufferLen(r)
        [] s.format = "esp" -> EspField.SEQUENCE_NUMBER[2]
        [] s.format = "dhcp" -> DhcpBufferLen(r)
        [] s.format = "dns" -> DnsBufferLen(r)
        [] s.format = "dns_answer" -> Len(DnsAnswer(r))
        [] s.format = "ieee802154" -> FrameBufferLen(r) + Len(r.payload)
        [] s.format = "lowpan_frag" -> FragBufferLen(r)
        [] s.format = "iphc" -> IphcBufferLen(r)
        [] s.format = "iphc_peer" -> Len(r.octets)
        [] s.format = "ext_nhc" -> ExtHeaderLen(r.next_header)
        [] s.format = "udp_nhc" -> UdpNhcHeaderLen(r) + Len(r.payload)
        [] s.format = "lowpan" -> CompressedPacketSize(r).total

EmitInto(b, s) ==
  LET r == s.repr
  IN  CASE s.format = "ethernet" -> EthernetEmit(b, r)
        [] s.format = "arp" -> ArpEmit(b, r)
        [] s.format = "ipv4" -> Ipv4Emit(b, r, s.checksums)
        [] s.format = "ipv6" -> Ipv6Emit(b, r)
        [] s.format = "udp" -> UdpEmit(b, r, s.src_addr, s.dst_addr, s.checksums)
        [] s.format = "tcp" -> TcpEmit(b, r, s.src_addr, s.dst_addr, s.checksums)
        [] s.format = "icmpv4" -> Icmpv4Emit(b, r, s.checksums)
        [] s.format = "igmp" -> IgmpEmit(b, r)
        [] s.format = "icmpv6" -> Icmpv6Emit(b, r, s.src_addr, s.dst_addr, s.checksums)
        [] s.format = "rpl_option" -> RplOptionEmit(b, r)
        [] s.format = "ext" -> ExtEmit(b, r)
        [] s.format = "fragment" -> FragmentEmit(b, r)
        [] s.format = "ipv6_option" -> Ipv6OptionEmit(b, r)
        [] s.format = "hbh" -> HbhEmit(b, r)
        [] s.format = "routing" -> RoutingEmit(b, r)
        [] s.format = "ah" -> AhEmit(b, r)
        [] s.format = "esp" -> EspEmit(b, r)
        [] s.format = "dhcp" -> DhcpEmit(b, r)
        [] s.format = "dns" -> DnsEmit(b, r)
        [] s.format = "dns_answer" -> DnsAnswer(r)
        [] s.format = "ieee802154" -> FrameEmit(b, r)
        [] s.format = "lowpan_frag" -> FragEmit(b, r)
        [] s.format = "iphc" -> IphcEmit(b, r)
        [] s.format = "iphc_peer" -> r.octets
        [] s.format = "ext_nhc" -> ExtHeaderEmit(b, r, << >>)
        [] s.format = "udp_nhc" -> UdpNhcEmit(b, r, s.src_addr, s.dst_addr, s.checksums)
        [] s.format = "lowpan" -> SixlowpanFrames(r, s.checksums)

\* parse() at the host with address dst_addr.
ParseAt(b, s, dst_addr) ==
  LET r == s.repr
  IN  CASE s.format = "ethernet" -> EthernetParse(b)
        [] s.format = "arp" -> ArpParse(b)
        [] s.format = "ipv4" -> Ipv4Parse(b, s.checksums)
        [] s.format = "ipv6" -> Ipv6Parse(b)
        [] s.format = "udp" -> UdpParse(b, s.src_addr, dst_addr, s.checksums)
        [] s.format = "tcp" -> TcpParse(b, s.src_addr, dst_addr, s.checksums)
        [] s.format = "icmpv4" -> Icmpv4Parse(b, s.checksums)
        [] s.format = "igmp" -> IgmpParse(b)
        [] s.format = "icmpv6" -> Icmpv6Parse(b, s.src_addr, dst_addr, s.checksums)
        [] s.format = "rpl_option" -> RplOptionParse(b)
        [] s.format = "ext" -> ExtParse(b)
        [] s.format = "fragment" -> FragmentParse(b)
        [] s.format = "ipv6_option" -> Ipv6OptionParse(b)
        [] s.format = "hbh" -> HbhParse(b)
        [] s.format = "routing" -> RoutingParse(b)
        [] s.format = "ah" -> AhParse(b)
        [] s.format = "esp" -> EspParse(b)
        [] s.format = "dhcp" -> DhcpParse(b)
        [] s.format = "dns" -> DnsParse(b)
        [] s.format = "dns_answer" -> Ok(AnswersFor(b, CopyName(r.labels)).addresses)
        [] s.format = "ieee802154" -> FrameParse(b)
        [] s.format = "lowpan_frag" -> FragParse(b)
        [] s.format \in {"iphc", "iphc_peer"} -> IphcParse(b, r.ll_src_addr, r.ll_dst_addr, s.contexts)
        [] s.format = "ext_nhc" -> ExtHeaderParse(b)
        [] s.format = "udp_nhc" -> UdpNhcParse(b, s.src_addr, dst_addr, s.checksums)
        [] s.format = "lowpan" -> SixlowpanReceive(b, r.ll_src_addr, r.ll_dst_addr, s.contexts)

\* Formats that say how long they are.
SelfDelimiting == {"arp", "ipv4", "ipv6", "udp", "ext", "ipv6_option", "ah", "dns"}

\* Formats whose checksum covers a pseudo header as well.
WithPseudoHeader == {"udp", "tcp", "icmpv6"}

\* How many octets the checksum covers.
Covered(s) ==
  IF ~ s.checksums THEN 0
  ELSE IF s.format = "ipv4" THEN Ipv4HeaderLen
  ELSE IF s.format \in WithPseudoHeader \cup {"icmpv4"} THEN Len(octets)
  ELSE 0

\* What the buffer may hold before: some formats are only ever emitted into zeroes,
\* as their flags are set and never cleared, or not all written.
FillsOf(s) ==
  IF \/ s.format \in {"dns", "ieee802154"} \/ (s.format = "udp_nhc" /\ ~ s.checksums)
     \/ (s.format = "icmpv6" /\ s.repr.type = Icmpv6Message.RplControl /\ s.repr.code = RplControlMessage.DestinationAdvertisementObjectAck)
    THEN {0} ELSE Fills

-----------------------------------------------------------------------------
WireInit(samples) ==
  sample \in samples /\ octets = << >> /\ room = 0 /\ clean = TRUE /\ fate = "new" /\ parsed = NotParsed

EmitPacket(fill) ==
  /\ fate = "new" /\ fate' = "sent" /\ fill \in FillsOf(sample)
  /\ room' = BufferLenOf(sample)
  /\ \E emitted \in {[f \in {0, fill} |-> EmitInto([i \in 1 .. room' |-> f], sample)]} :
       octets' = emitted[fill] /\ clean' = (emitted[fill] = emitted[0])
  /\ UNCHANGED << sample, parsed >>

OnItsWay == fate = "sent" /\ parsed = NotParsed

\* More follows: a device's padding, or what else is in the packet.
PadPacket ==
  /\ OnItsWay /\ sample.format \in SelfDelimiting /\ fate' = "padded"
  /\ octets' = octets \o << 1, 2, 3 >>
  /\ UNCHANGED << sample, room, clean, parsed >>

DamagePacket(at, flip) ==
  /\ OnItsWay /\ at <= Covered(sample) /\ fate' = "damaged"
  /\ octets' = [octets EXCEPT ![at] = (@ + flip) % 256]
  /\ UNCHANGED << sample, room, clean, parsed >>

\* The destination in the IP header was damaged.
Misdeliver ==
  /\ OnItsWay /\ sample.format \in WithPseudoHeader /\ sample.checksums /\ fate' = "misdelivered"
  /\ UNCHANGED << sample, octets, room, clean, parsed >>

Elsewhere(addr) == [addr EXCEPT ![Len(addr)] = (@ + 1) % 256]

ParsePacket ==
  /\ fate # "new" /\ parsed = NotParsed
  /\ parsed' = ParseAt(octets, sample, IF fate = "misdelivered" THEN Elsewhere(sample.dst_addr) ELSE sample.dst_addr)
  /\ UNCHANGED << sample, octets, room, clean, fate >>

WireNext ==
  \/ \E fill \in Fills : EmitPacket(fill)
  \/ PadPacket \/ Misdeliver \/ ParsePacket
  \/ \E at \in DOMAIN octets, flip \in Flips : DamagePacket(at, flip)

-----------------------------------------------------------------------------
\* The longest time that IGMP can express, of those that are not longer.
ExpressibleTime(time) ==
  LET times == (0 .. 127) \cup {m * 2^(e + 3) : m \in 16 .. 31, e \in 0 .. 7}
  IN  CHOOSE t \in times : t <= time /\ \A u \in times : u <= time => u <= t

\* Extension headers before a payload, and the protocol of the first.
Prefixed(packet, protocol, header) ==
  IF header = << >> THEN packet
  ELSE [next_header |-> protocol,
        payload |-> ExtEmit(Zeros(2 + Len(header[1])),
                            [next_header |-> packet.next_header, length |-> Len(header[1]) \div 8, data |-> header[1]])
                    \o packet.payload]

\* A compressed packet as it would be without compression, but for a UDP checksum.
PlainPacket(r, checksums) ==
  Ipv6Emit(Zeros(Ipv6HeaderLen),
           [src_addr |-> r.src_addr, dst_addr |-> r.dst_addr, hop_limit |-> r.hop_limit]
           @@ Prefixed(Prefixed([next_header |-> r.proto,
                                 payload |-> IF r.proto = IpProtocolUdp
                                               THEN UdpEmit(Zeros(UdpBufferLen(r.payload)), r.payload, r.src_addr, r.dst_addr, FALSE)
                                               ELSE UncompressedPayload(r, checksums)],
                                IpProtocolRouting, [i \in DOMAIN r.routing |-> RoutingData(r)]),
                       IpProtocolHopByHop, [i \in DOMAIN r.hop_by_hop |-> HopByHopData(r)]))

\* What parse() is to return: what was emitted, but for what the format or emit()
\* leaves out.
Recovered(s) ==
  LET r == s.repr
  IN  CASE s.format = "igmp" /\ r.type = "MembershipQuery" ->
             [r EXCEPT !.max_resp_time = IF r.version = 1 THEN 0 ELSE ExpressibleTime(@)]
        [] s.format = "icmpv6" /\ "records" \in DOMAIN r ->
             [type |-> r.type, nr_mcast_addr_rcrds |-> Len(r.records),
              data |-> FlattenSeq([i \in DOMAIN r.records |-> AddressRecordEmit(r.records[i])])]
        [] s.format = "icmpv6" /\ r.type \in Icmpv6ErrorTypes ->
             [r EXCEPT !.data = SubSeq(@, 1, Least(Len(@), MaxErrorPacketLen - Icmpv6Field.HEADER_END - Ipv6HeaderLen))]
        [] s.format = "dhcp" -> [r EXCEPT !.renew_duration = << >>, !.rebind_duration = << >>, !.additional_options = << >>]
        [] s.format = "dns" -> r @@ [rcode |-> 0, counts |-> << 1, 0, 0, 0 >>]
        [] s.format = "dns_answer" -> s.expected
        [] s.format = "ieee802154" -> [r EXCEPT !.src_pan_id = IF r.pan_id_compression THEN << >> ELSE @]
        [] s.format = "iphc" -> r @@ [ecn |-> << >>, dscp |-> << >>, flow_label |-> << >>]
        [] s.format = "iphc_peer" -> s.expected
        [] s.format = "lowpan" -> PlainPacket(r, s.checksums)
        [] OTHER -> r

\* Messages with reserved octets that emit() leaves as they are.
LeavesOctets(s) ==
  LET r == s.repr
      M == Icmpv6Message
      rpl(options) == \E i \in DOMAIN options : options[i].type = Ipv6OptionType.Rpl
  IN  \/ s.format = "icmpv4" /\ ~ IsEcho(r)
      \/ s.format = "igmp" /\ r.type = "LeaveGroup"
      \/ /\ s.format = "icmpv6"
         /\ \/ r.type \in {M.DstUnreachable, M.TimeExceeded}
            \/ r.type = M.RplControl /\ r.code # RplControlMessage.DodagInformationSolicitation
            \/ r.type = M.RouterAdvert /\ r.mtu # << >>
            \/ r.type = M.Redirect /\ r.redirected_hdr # << >>
      \/ s.format = "rpl_option" /\ r.type = RplOptionType.DodagConfiguration
      \/ s.format = "hbh" /\ rpl(r.options)
      \/ s.format = "ipv6_option" /\ rpl(<< r >>)

\* parse() returns what emit() was given, whatever the buffer held before and
\* whatever follows the packet; an IPv6 packet that is compressed and cut into
\* frames comes out as it would without.
RoundTrip == fate \in {"sent", "padded"} /\ parsed # NotParsed => parsed = Ok(Recovered(sample))

\* emit() writes the octets that buffer_len() has asked for, all of them and none
\* beyond: nothing that the buffer held before is sent, as the comments in
\* wire/ipv6.rs and wire/tcp.rs ask for.
ExactlyFilled ==
  fate = "sent" =>
    IF sample.format = "lowpan"
      THEN \A i \in DOMAIN octets : Len(octets[i]) + FrameBufferLen(FrameOf(sample.repr, << >>)) <= FrameRoom
      ELSE Len(octets) = room /\ (clean \/ LeavesOctets(sample))

\* A packet with a checksum that has a damaged octet, or that comes to the
\* wrong host, is never taken for another packet.
DamageSeen ==
  fate \in {"damaged", "misdelivered"} /\ parsed # NotParsed =>
    ~ parsed.ok \/ (fate = "damaged" /\ parsed.repr = sample.repr)

=============================================================================
