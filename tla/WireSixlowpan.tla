---------------------------- MODULE WireSixlowpan ---------------------------
(***************************************************************************)
(* IPv6 packets over 802.15.4: how iface/interface/sixlowpan.rs compresses *)
(* a packet, cuts it into fragments that fit into frames, and makes an     *)
(* IPv6 packet of what is received.  A packet here is                      *)
(* [src_addr, dst_addr, hop_limit, ll_src_addr, ll_dst_addr, hop_by_hop,   *)
(* routing, proto, payload].                                               *)
(***************************************************************************)
EXTENDS WireIphc, WireExt, WireIcmp

\* Octets of a frame, as dispatch_sixlowpan() has it.
FrameRoom == 125

IpProtocolHopByHop == 0

IpProtocolRouting == 43

\* as_sixlowpan_next_header().
LastHeader(repr) == IF repr.proto = IpProtocolUdp THEN Compressed ELSE repr.proto

IphcOf(repr) ==
  [k \in {"src_addr", "dst_addr", "hop_limit", "ll_src_addr", "ll_dst_addr"} |-> repr[k]]
  @@ [next_header |-> IF repr.hop_by_hop # << >> \/ repr.routing # << >> THEN Compressed ELSE LastHeader(repr)]

\* The data of the extension headers, and the headers.  The one of a routing
\* header always says that the next is compressed.
HopByHopData(repr) == HbhEmit(Zeros(HbhBufferLen(repr.hop_by_hop[1])), repr.hop_by_hop[1])

RoutingData(repr) == RoutingEmit(Zeros(RoutingBufferLen(repr.routing[1])), repr.routing[1])

CompressedExt(id, next_header, data) ==
  ExtHeaderEmit(Zeros(ExtHeaderLen(next_header) + Len(data)),
                [ext_header_id |-> id, next_header |-> next_header, length |-> Len(data)], data)

HopByHopNext(repr) == IF repr.routing # << >> THEN Compressed ELSE LastHeader(repr)

\* What follows the compressed headers: a UDP header is one of them, others are not.
UncompressedPayload(repr, checksums) ==
  CASE repr.proto = IpProtocolIcmpv6 ->
         Icmpv6Emit(Zeros(Icmpv6BufferLen(repr.payload)), repr.payload, repr.src_addr, repr.dst_addr, checksums)
    [] repr.proto = IpProtocolTcp ->
         TcpEmit(Zeros(TcpBufferLen(repr.payload)), repr.payload, repr.src_addr, repr.dst_addr, checksums)

CompressedUdp(repr, checksums) ==
  UdpNhcEmit(Zeros(UdpNhcHeaderLen(repr.payload) + Len(repr.payload.payload)), repr.payload, repr.src_addr, repr.dst_addr, checksums)

\* ipv6_to_sixlowpan().
Ipv6ToSixlowpan(repr, checksums) ==
  IphcEmit(Zeros(IphcBufferLen(IphcOf(repr))), IphcOf(repr))
  \o (IF repr.hop_by_hop = << >> THEN << >>
      ELSE CompressedExt(ExtHeaderId.HopByHopHeader, HopByHopNext(repr), HopByHopData(repr)))
  \o (IF repr.routing = << >> THEN << >> ELSE CompressedExt(ExtHeaderId.RoutingHeader, Compressed, RoutingData(repr)))
  \o (IF repr.proto = IpProtocolUdp THEN CompressedUdp(repr, checksums) ELSE UncompressedPayload(repr, checksums))

\* payload_len of the IPv6 header, which does not count extension headers here.
PayloadLen(repr) ==
  CASE repr.proto = IpProtocolUdp -> UdpBufferLen(repr.payload)
    [] repr.proto = IpProtocolTcp -> TcpBufferLen(repr.payload)
    [] OTHER -> Icmpv6BufferLen(repr.payload)

\* compressed_packet_size(): of the packet, of its headers after and before.  The
\* options of a hop-by-hop header count twice among the latter.
CompressedPacketSize(repr) ==
  LET iphc == IphcBufferLen(IphcOf(repr))
      hbh == IF repr.hop_by_hop = << >> THEN 0 ELSE HbhBufferLen(repr.hop_by_hop[1])
      routing == IF repr.routing = << >> THEN 0 ELSE RoutingBufferLen(repr.routing[1])
      ext == (IF repr.hop_by_hop = << >> THEN 0 ELSE ExtHeaderLen(HopByHopNext(repr)) + hbh)
             + (IF repr.routing = << >> THEN 0 ELSE ExtHeaderLen(Compressed) + routing)
      udp == IF repr.proto = IpProtocolUdp THEN UdpNhcHeaderLen(repr.payload) ELSE 0
      rest == IF repr.proto = IpProtocolUdp THEN Len(repr.payload.payload) ELSE PayloadLen(repr)
  IN  [total |-> iphc + ext + udp + rest, compressed |-> iphc + ext + udp,
       uncompressed |-> Ipv6HeaderLen + (2 * hbh) + routing + (IF udp > 0 THEN UdpHeaderLen ELSE 0)]

-----------------------------------------------------------------------------
(* What is received.                                                       *)

\* decompress_next_header().
DecompressNextHeader(next_header, data) ==
  IF next_header # Compressed THEN Ok(next_header)
  ELSE IF ~ NhcDispatch(data).ok THEN Err
  ELSE IF NhcDispatch(data).repr = "UdpHeader" THEN Ok(IpProtocolUdp)
  ELSE Ok(ExtHeaderProtocol(BitsOf(data[1], 1, 3)))

\* decompress_udp(), at an offset of the packet.  The checksum is neither looked at
\* nor kept, and the length of a fragment's datagram is that of the whole.
DecompressUdp(data, iphc, at, total_len) ==
  LET udp == UdpNhcParse(data, iphc.src_addr, iphc.dst_addr, FALSE)
      payload_len == IF total_len = << >> THEN Len(udp.repr.payload) ELSE total_len[1] - at - UdpHeaderLen
  IN  IF ~ udp.ok THEN Err
      ELSE Ok(Emitted(Zeros(UdpHeaderLen), UdpSetters(
             [src_port |-> udp.repr.src_port, dst_port |-> udp.repr.dst_port, len |-> UdpHeaderLen + payload_len,
              payload |-> udp.repr.payload])))

\* The loop of sixlowpan_to_ipv6(), with decompress_ext_hdr().
RECURSIVE DecompressHeaders(_, _, _, _, _)
DecompressHeaders(next_header, data, iphc, at, total_len) ==
  LET ext == ExtHeaderParse(data)
      past == ExtHeaderLen(ext.repr.next_header) + ext.repr.length
      protocol == DecompressNextHeader(ext.repr.next_header, Beyond(data, past))
      header == ExtEmit(Zeros(2 + ext.repr.length),
                        [next_header |-> protocol.repr, length |-> ext.repr.length \div 8,
                         data |-> Octets(data, << past - ext.repr.length, past >>)])
      rest == DecompressHeaders(ext.repr.next_header, Beyond(data, past), iphc, at + 2 + ext.repr.length, total_len)
  IN  IF next_header # Compressed
        THEN IF next_header \in {IpProtocolTcp, IpProtocolUdp, IpProtocolIcmpv6} THEN Ok(data) ELSE Err
      ELSE IF ~ NhcDispatch(data).ok THEN Err
      ELSE IF NhcDispatch(data).repr = "UdpHeader" THEN DecompressUdp(data, iphc, at, total_len)
      ELSE IF ~ ext.ok THEN Err
      ELSE IF ~ protocol.ok THEN Err
      ELSE IF ~ rest.ok THEN Err
      ELSE Ok(header \o rest.repr)

\* The IPv6 header before what the other headers were decompressed to.
Ipv6With(header, rest, total_len) ==
  IF ~ rest.ok THEN Err
  ELSE Ok(Ipv6EmitHeader(Zeros(Ipv6HeaderLen), header,
                         IF total_len = << >> THEN Len(rest.repr) ELSE total_len[1] - Ipv6HeaderLen) \o rest.repr)

Decompressed(iphc, data, total_len) ==
  IF ~ iphc.ok THEN Err
  ELSE Ipv6With([iphc.repr EXCEPT !.next_header = DecompressNextHeader(@, data).repr],
                DecompressHeaders(iphc.repr.next_header, data, iphc.repr, Ipv6HeaderLen, total_len), total_len)

\* sixlowpan_to_ipv6(): the octets of the IPv6 packet, or of its first fragment.
SixlowpanToIpv6(b, ll_src_addr, ll_dst_addr, contexts, total_len) ==
  Decompressed(IphcParse(b, ll_src_addr, ll_dst_addr, contexts), IphcPayload(b), total_len)

-----------------------------------------------------------------------------
(* Fragments.                                                              *)

\* The frame that carries a packet, as dispatch_ieee802154() makes it.
FrameOf(repr, payload) ==
  [frame_type |-> FrameType.Data, security_enabled |-> FALSE, frame_pending |-> FALSE, ack_request |-> FALSE,
   sequence_number |-> 1, pan_id_compression |-> TRUE, frame_version |-> FrameVersion.Ieee802154_2003,
   dst_pan_id |-> << 65535 >>, dst_addr |-> repr.ll_dst_addr, src_pan_id |-> << 65535 >>, src_addr |-> repr.ll_src_addr,
   payload |-> payload]

\* The first part of dispatch_sixlowpan() for a packet that is too long: how much
\* of it goes into the first fragment, and how much into the others.
FragmentSizes(size, frame_header) ==
  LET diff == size.uncompressed - size.compressed
      room == FrameRoom - frame_header
  IN  [first |-> (((room - 4 + diff) \div 8) * 8) - diff, next |-> ((room - 5) \div 8) * 8, diff |-> diff, total |-> size.total]

\* Mutant of FragmentOffset: what the headers have grown by is forgotten.
FragmentOffsetCompressed(sizes, sent) == sent

\* datagram_offset, when so much of the compressed packet has been sent.
FragmentOffset(sizes, sent) == sent + sizes.diff

\* The fragments from there on, by dispatch_sixlowpan_frag().
RECURSIVE FragmentsFrom(_, _, _, _)
FragmentsFrom(packet, sizes, datagram_size, sent) ==
  LET data == SubSeq(packet, sent + 1, Least(sizes.total, sent + sizes.next))
      header == FragEmit(Zeros(5), [size |-> datagram_size, tag |-> 7, offset |-> << FragmentOffset(sizes, sent) \div 8 >>])
  IN  IF sent >= sizes.total THEN << >>
      ELSE << header \o data >> \o FragmentsFrom(packet, sizes, datagram_size, sent + Len(data))

\* What the frames carry: one packet, or its fragments.
Frames(packet, sizes, datagram_size, frame_header) ==
  LET header == FragEmit(Zeros(4), [size |-> datagram_size, tag |-> 7, offset |-> << >>])
      buffer == Copied(Zeros(sizes.total), 0, packet)
  IN  IF sizes.total + frame_header <= FrameRoom THEN << buffer >>
      ELSE << header \o SubSeq(buffer, 1, sizes.first) >> \o FragmentsFrom(buffer, sizes, datagram_size, sizes.first)

SixlowpanFrames(repr, checksums) ==
  LET frame_header == FrameBufferLen(FrameOf(repr, << >>))
  IN  Frames(Ipv6ToSixlowpan(repr, checksums), FragmentSizes(CompressedPacketSize(repr), frame_header),
             PayloadLen(repr) + Ipv6HeaderLen, frame_header)

\* process_sixlowpan_fragment(), with all fragments at hand: the first has been
\* decompressed, the others are put where their offset says.
Reassembled(first, frames) ==
  LET put(b, frame) == Copied(b, 8 * FragParse(frame).repr.offset[1], Beyond(frame, 5))
  IN  IF first.ok THEN Ok(FoldLeft(put, first.repr, frames)) ELSE Err

\* process_sixlowpan().
SixlowpanReceive(frames, ll_src_addr, ll_dst_addr, contexts) ==
  LET whole == SixlowpanDispatch(frames[1]).repr = "IphcHeader"
      head == FragParse(frames[1]).repr
      header_len == IF whole THEN 0 ELSE FragBufferLen(head)
      total_len == IF whole THEN << >> ELSE << head.size >>
  IN  IF ~ SixlowpanDispatch(frames[1]).ok THEN Err
      ELSE Reassembled(SixlowpanToIpv6(Beyond(frames[1], header_len), ll_src_addr, ll_dst_addr, contexts, total_len),
                       Beyond(frames, 1))

=============================================================================
