------------------------------- MODULE WireIp -------------------------------
(***************************************************************************)
(* IP headers: wire/ipv4.rs and wire/ipv6.rs.                              *)
(***************************************************************************)
EXTENDS WireOps

Ipv4Field ==
  [VER_IHL |-> One(0), DSCP_ECN |-> One(1), LENGTH |-> << 2, 4 >>, IDENT |-> << 4, 6 >>,
   FLG_OFF |-> << 6, 8 >>, TTL |-> One(8), PROTOCOL |-> One(9), CHECKSUM |-> << 10, 12 >>,
   SRC_ADDR |-> << 12, 16 >>, DST_ADDR |-> << 16, 20 >>]

Ipv4HeaderLen == Ipv4Field.DST_ADDR[2]

Ipv4Packet(b) ==
  LET header_len == 4 * Bits(b, Ipv4Field.VER_IHL, 0, 4)
      total_len  == Num(b, Ipv4Field.LENGTH)
  IN  [version |-> Bits(b, Ipv4Field.VER_IHL, 4, 4), header_len |-> header_len,
       dscp |-> Bits(b, Ipv4Field.DSCP_ECN, 2, 6), ecn |-> Bits(b, Ipv4Field.DSCP_ECN, 0, 2),
       total_len |-> total_len, ident |-> Num(b, Ipv4Field.IDENT),
       dont_frag |-> Flag(b, Ipv4Field.FLG_OFF, 14), more_frags |-> Flag(b, Ipv4Field.FLG_OFF, 13),
       frag_offset |-> (Num(b, Ipv4Field.FLG_OFF) * 8) % 65536,
       hop_limit |-> Num(b, Ipv4Field.TTL), next_header |-> Num(b, Ipv4Field.PROTOCOL),
       src_addr |-> Octets(b, Ipv4Field.SRC_ADDR), dst_addr |-> Octets(b, Ipv4Field.DST_ADDR),
       payload |-> Octets(b, << header_len, total_len >>)]

Ipv4CheckLen(b) ==
  /\ Len(b) >= Ipv4HeaderLen /\ Len(b) >= Ipv4Packet(b).header_len
  /\ Ipv4Packet(b).header_len <= Ipv4Packet(b).total_len /\ Len(b) >= Ipv4Packet(b).total_len

Ipv4VerifyChecksum(b) == ChecksumData(Octets(b, << 0, Ipv4Packet(b).header_len >>)) = 65535

\* The build with proto-ipv4-fragmentation: fragments are parsed as well.
Ipv4Parse(b, checksums) ==
  LET packet == Ipv4Packet(b)
  IN  IF ~ Ipv4CheckLen(b) THEN Err
      ELSE IF packet.version # 4 THEN Err
      ELSE IF checksums /\ ~ Ipv4VerifyChecksum(b) THEN Err
      ELSE Ok([k \in {"src_addr", "dst_addr", "next_header", "hop_limit", "payload"} |-> packet[k]])

Ipv4Setters(h) ==
  << PutBits(Ipv4Field.VER_IHL, 4, 4, h.version), PutBits(Ipv4Field.VER_IHL, 0, 4, h.header_len \div 4),
     PutBits(Ipv4Field.DSCP_ECN, 2, 6, h.dscp), PutBits(Ipv4Field.DSCP_ECN, 0, 2, h.ecn),
     Put(Ipv4Field.LENGTH, h.total_len), Put(Ipv4Field.IDENT, h.ident),
     PutBits(Ipv4Field.FLG_OFF, 13, 3, 0),
     PutFlag(Ipv4Field.FLG_OFF, 13, h.more_frags), PutFlag(Ipv4Field.FLG_OFF, 14, h.dont_frag),
     PutBits(Ipv4Field.FLG_OFF, 0, 13, h.frag_offset \div 8),
     Put(Ipv4Field.TTL, h.hop_limit), Put(Ipv4Field.PROTOCOL, h.next_header),
     Copy(Ipv4Field.SRC_ADDR[1], h.src_addr), Copy(Ipv4Field.DST_ADDR[1], h.dst_addr),
     Put(Ipv4Field.CHECKSUM, 0) >>

Ipv4FillChecksum(b) ==
  Emitted(b, << Put(Ipv4Field.CHECKSUM, Complement(ChecksumData(Octets(b, << 0, Ipv4HeaderLen >>)))) >>)

Ipv4BufferLen(repr) == Ipv4HeaderLen + Len(repr.payload)

\* emit(), for a payload of this length.
Ipv4EmitHeader(b, repr, payload_len, checksums) ==
  LET header == Emitted(b, Ipv4Setters(
        [version |-> 4, header_len |-> Ipv4HeaderLen, dscp |-> 0, ecn |-> 0,
         total_len |-> Ipv4HeaderLen + payload_len, ident |-> 0, more_frags |-> FALSE,
         dont_frag |-> TRUE, frag_offset |-> 0, hop_limit |-> repr.hop_limit,
         next_header |-> repr.next_header, src_addr |-> repr.src_addr, dst_addr |-> repr.dst_addr]))
  IN  IF checksums THEN Ipv4FillChecksum(header) ELSE header

Ipv4Emit(b, repr, checksums) ==
  Copied(Ipv4EmitHeader(b, repr, Len(repr.payload), checksums), Ipv4HeaderLen, repr.payload)

-----------------------------------------------------------------------------
Ipv6Field ==
  [VER |-> One(0), VER_TC |-> << 0, 2 >>, TC_FLOW |-> << 1, 4 >>, LENGTH |-> << 4, 6 >>,
   NXT_HDR |-> One(6), HOP_LIMIT |-> One(7), SRC_ADDR |-> << 8, 24 >>, DST_ADDR |-> << 24, 40 >>]

Ipv6HeaderLen == Ipv6Field.DST_ADDR[2]

Ipv6Packet(b) ==
  [version |-> Bits(b, Ipv6Field.VER, 4, 4), traffic_class |-> Bits(b, Ipv6Field.VER_TC, 4, 8),
   flow_label |-> Bits(b, Ipv6Field.TC_FLOW, 0, 20), payload_len |-> Num(b, Ipv6Field.LENGTH),
   next_header |-> Num(b, Ipv6Field.NXT_HDR), hop_limit |-> Num(b, Ipv6Field.HOP_LIMIT),
   src_addr |-> Octets(b, Ipv6Field.SRC_ADDR), dst_addr |-> Octets(b, Ipv6Field.DST_ADDR),
   payload |-> Octets(b, << Ipv6HeaderLen, Ipv6HeaderLen + Num(b, Ipv6Field.LENGTH) >>)]

Ipv6CheckLen(b) == Len(b) >= Ipv6HeaderLen /\ Len(b) >= Ipv6HeaderLen + Ipv6Packet(b).payload_len

Ipv6Parse(b) ==
  LET packet == Ipv6Packet(b)
  IN  IF ~ Ipv6CheckLen(b) THEN Err
      ELSE IF packet.version # 6 THEN Err
      ELSE Ok([k \in {"src_addr", "dst_addr", "next_header", "hop_limit", "payload"} |-> packet[k]])

\* The traffic class is written in two halves.
Ipv6Setters(h) ==
  << PutBits(Ipv6Field.VER, 4, 4, h.version),
     PutBits(Ipv6Field.VER, 0, 4, h.traffic_class \div 16), PutBits(One(1), 4, 4, h.traffic_class),
     PutBits(Ipv6Field.TC_FLOW, 0, 20, h.flow_label), Put(Ipv6Field.LENGTH, h.payload_len),
     Put(Ipv6Field.HOP_LIMIT, h.hop_limit), Put(Ipv6Field.NXT_HDR, h.next_header),
     Copy(Ipv6Field.SRC_ADDR[1], h.src_addr), Copy(Ipv6Field.DST_ADDR[1], h.dst_addr) >>

Ipv6BufferLen(repr) == Ipv6HeaderLen + Len(repr.payload)

Ipv6EmitHeader(b, repr, payload_len) ==
  Emitted(b, Ipv6Setters(
    [version |-> 6, traffic_class |-> 0, flow_label |-> 0, payload_len |-> payload_len,
     hop_limit |-> repr.hop_limit, next_header |-> repr.next_header,
     src_addr |-> repr.src_addr, dst_addr |-> repr.dst_addr]))

Ipv6Emit(b, repr) == Copied(Ipv6EmitHeader(b, repr, Len(repr.payload)), Ipv6HeaderLen, repr.payload)

=============================================================================
