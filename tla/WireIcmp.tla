------------------------------ MODULE WireIcmp ------------------------------
(***************************************************************************)
(* ICMPv4, IGMP and ICMPv6 messages: wire/icmpv4.rs, wire/igmp.rs and      *)
(* wire/icmpv6.rs.                                                         *)
(***************************************************************************)
EXTENDS Numbers, WireRpl

CONSTANT Ipv6MinMtu     \* IPV6_MIN_MTU

Icmpv4Message == [EchoReply |-> 0, DstUnreachable |-> 3, EchoRequest |-> 8, TimeExceeded |-> 11]

Icmpv4Field ==
  [TYPE |-> One(0), CODE |-> One(1), CHECKSUM |-> << 2, 4 >>, UNUSED |-> << 4, 8 >>,
   ECHO_IDENT |-> << 4, 6 >>, ECHO_SEQNO |-> << 6, 8 >>, HEADER_END |-> 8]

Icmpv4CheckLen(b) == Len(b) >= Icmpv4Field.HEADER_END

\* header_len() is the same for every message.
Icmpv4Packet(b) ==
  [msg_type |-> Num(b, Icmpv4Field.TYPE), msg_code |-> Num(b, Icmpv4Field.CODE),
   echo_ident |-> Num(b, Icmpv4Field.ECHO_IDENT), echo_seq_no |-> Num(b, Icmpv4Field.ECHO_SEQNO),
   data |-> Beyond(b, Icmpv4Field.UNUSED[2])]

\* The header of the packet that an error is about, and at least eight octets of it.
Icmpv4ParseError(packet) ==
  LET ip_packet == Ipv4Packet(packet.data)
      payload   == Beyond(packet.data, ip_packet.header_len)
  IN  IF ~ Ipv4CheckLen(packet.data) THEN Err
      ELSE IF Len(payload) < 8 THEN Err
      ELSE Ok([type |-> packet.msg_type, reason |-> packet.msg_code, data |-> payload,
               header |-> [src_addr |-> ip_packet.src_addr, dst_addr |-> ip_packet.dst_addr,
                           next_header |-> ip_packet.next_header, payload_len |-> Len(payload),
                           hop_limit |-> ip_packet.hop_limit]])

Icmpv4Parse(b, checksums) ==
  LET packet == Icmpv4Packet(b)
  IN  IF ~ Icmpv4CheckLen(b) THEN Err
      ELSE IF checksums /\ ChecksumData(b) # 65535 THEN Err
      ELSE IF packet.msg_type \in {Icmpv4Message.EchoRequest, Icmpv4Message.EchoReply} /\ packet.msg_code = 0
        THEN Ok([type |-> packet.msg_type, ident |-> packet.echo_ident, seq_no |-> packet.echo_seq_no,
                 data |-> packet.data])
      ELSE IF packet.msg_type \in {Icmpv4Message.DstUnreachable, Icmpv4Message.TimeExceeded}
        THEN Icmpv4ParseError(packet)
      ELSE Err

IsEcho(repr) == "ident" \in DOMAIN repr

Icmpv4BufferLen(repr) ==
  Icmpv4Field.UNUSED[2] + (IF IsEcho(repr) THEN 0 ELSE Ipv4HeaderLen) + Len(repr.data)

Icmpv4Setters(repr) ==
  IF IsEcho(repr)
    THEN << Put(Icmpv4Field.TYPE, repr.type), Put(Icmpv4Field.CODE, 0),
            Put(Icmpv4Field.ECHO_IDENT, repr.ident), Put(Icmpv4Field.ECHO_SEQNO, repr.seq_no),
            Copy(Icmpv4Field.HEADER_END, repr.data) >>
    ELSE << Put(Icmpv4Field.TYPE, repr.type), Put(Icmpv4Field.CODE, repr.reason) >>

\* fill_checksum(), of ICMPv4 and of IGMP, or a checksum of zero.
FillChecksum(b, field, checksums) ==
  LET zeroed == Copied(b, field[1], Zeros(2))
  IN  IF checksums THEN Copied(zeroed, field[1], BigEndian(Complement(ChecksumData(zeroed)), 2)) ELSE zeroed

Icmpv4Emit(b, repr, checksums) ==
  LET error(d) == IF IsEcho(repr) THEN d
                  ELSE Copied(Ipv4EmitHeader(d, repr.header, repr.header.payload_len, checksums), Ipv4HeaderLen, repr.data)
  IN  FillChecksum(Within(Emitted(b, Icmpv4Setters(repr)), Icmpv4Field.HEADER_END, error), Icmpv4Field.CHECKSUM, checksums)

-----------------------------------------------------------------------------
IgmpMessage ==
  [MembershipQuery |-> 17, MembershipReportV2 |-> 22, LeaveGroup |-> 23, MembershipReportV1 |-> 18]

IgmpField == [TYPE |-> One(0), MAX_RESP_CODE |-> One(1), CHECKSUM |-> << 2, 4 >>, GROUP_ADDRESS |-> << 4, 8 >>]

IgmpCheckLen(b) == Len(b) >= IgmpField.GROUP_ADDRESS[2]

IgmpPacket(b) ==
  [msg_type |-> Num(b, IgmpField.TYPE), max_resp_code |-> Num(b, IgmpField.MAX_RESP_CODE),
   group_addr |-> Octets(b, IgmpField.GROUP_ADDRESS)]

\* Durations are in tenths of a second.
MaxRespCodeToDuration(value) ==
  IF value < 128 THEN value ELSE ((value % 16) + 16) * 2^(BitsOf(value, 4, 3) + 3)

DurationToMaxRespCode(decisecs) ==
  LET mant(exp) == (decisecs \div 8) \div 2^exp
      exp == CHOOSE e \in 0 .. 8 : (mant(e) <= 31 \/ e = 8) /\ \A f \in 0 .. (e - 1) : mant(f) > 31
  IN  IF decisecs < 128 THEN decisecs
      ELSE IF decisecs < 31744 THEN 128 + 16 * exp + (mant(exp) % 16)
      ELSE 255

\* The checksum is not looked at.
IgmpParse(b) ==
  LET packet == IgmpPacket(b)
      addr   == packet.group_addr
      report(version) == Ok([type |-> "MembershipReport", group_addr |-> addr, version |-> version])
  IN  IF ~ IgmpCheckLen(b) THEN Err
      ELSE IF addr # Zeros(4) /\ addr[1] \notin 224 .. 239 THEN Err
      ELSE CASE packet.msg_type = IgmpMessage.MembershipQuery ->
                  Ok([type |-> "MembershipQuery", max_resp_time |-> MaxRespCodeToDuration(packet.max_resp_code),
                      group_addr |-> addr, version |-> IF packet.max_resp_code = 0 THEN 1 ELSE 2])
             [] packet.msg_type = IgmpMessage.MembershipReportV2 -> report(2)
             [] packet.msg_type = IgmpMessage.LeaveGroup -> Ok([type |-> "LeaveGroup", group_addr |-> addr])
             [] packet.msg_type = IgmpMessage.MembershipReportV1 -> report(1)
             [] OTHER -> Err

IgmpBufferLen == IgmpField.GROUP_ADDRESS[2]

\* Nothing is written to the response code of a LeaveGroup.
IgmpSetters(repr) ==
  CASE repr.type = "MembershipQuery" ->
         << Put(IgmpField.TYPE, IgmpMessage.MembershipQuery),
            Put(IgmpField.MAX_RESP_CODE,
                IF repr.version = 1 THEN 0 ELSE DurationToMaxRespCode(repr.max_resp_time)),
            Copy(IgmpField.GROUP_ADDRESS[1], repr.group_addr) >>
    [] repr.type = "MembershipReport" ->
         << Put(IgmpField.TYPE, IF repr.version = 1 THEN IgmpMessage.MembershipReportV1
                                ELSE IgmpMessage.MembershipReportV2),
            Put(IgmpField.MAX_RESP_CODE, 0), Copy(IgmpField.GROUP_ADDRESS[1], repr.group_addr) >>
    [] repr.type = "LeaveGroup" ->
         << Put(IgmpField.TYPE, IgmpMessage.LeaveGroup), Copy(IgmpField.GROUP_ADDRESS[1], repr.group_addr) >>

IgmpEmit(b, repr) == FillChecksum(Emitted(b, IgmpSetters(repr)), IgmpField.CHECKSUM, TRUE)

-----------------------------------------------------------------------------
(* ICMPv6.                                                                 *)

MaxErrorPacketLen == Ipv6MinMtu - Ipv6HeaderLen

IpProtocolIcmpv6 == 58

Icmpv6ErrorTypes ==
  {Icmpv6Message.DstUnreachable, Icmpv6Message.PktTooBig, Icmpv6Message.TimeExceeded, Icmpv6Message.ParamProblem}

Icmpv6EchoTypes == {Icmpv6Message.EchoRequest, Icmpv6Message.EchoReply}

IsNdisc(type) ==
  type \in {Icmpv6Message.RouterSolicit, Icmpv6Message.RouterAdvert, Icmpv6Message.NeighborSolicit,
            Icmpv6Message.NeighborAdvert, Icmpv6Message.Redirect}

IsMld(type) == type \in {Icmpv6Message.MldQuery, Icmpv6Message.MldReport}

Icmpv6CheckLen(b) ==
  /\ Len(b) >= 4
  /\ \/ /\ Icmpv6Type(b) \in Icmpv6ErrorTypes \cup Icmpv6EchoTypes \/ IsNdisc(Icmpv6Type(b)) \/ IsMld(Icmpv6Type(b))
        /\ Len(b) >= Icmpv6Field.HEADER_END /\ Len(b) >= Icmpv6HeaderLen(Icmpv6Type(b))
     \/ Icmpv6Type(b) = Icmpv6Message.RplControl /\ RplCheckLen(b)

Icmpv6Sum(b, src_addr, dst_addr) ==
  Combine(<< PseudoHeader(src_addr, dst_addr, IpProtocolIcmpv6, Len(b)), ChecksumData(b) >>)

\* The packet that an error is about: its header is there, the rest may be truncated.
Icmpv6ParseError(b, type, payload) ==
  IF Len(payload) < Ipv6HeaderLen THEN Err
  ELSE Ok([type |-> type, data |-> Beyond(payload, Ipv6HeaderLen),
           header |-> [k \in {"src_addr", "dst_addr", "next_header", "payload_len", "hop_limit"} |-> Ipv6Packet(payload)[k]]]
          @@ (IF type = Icmpv6Message.PktTooBig THEN [mtu |-> Octets(b, Icmpv6Field.MTU)] ELSE [reason |-> b[2]])
          @@ (IF type = Icmpv6Message.ParamProblem THEN [pointer |-> Octets(b, Icmpv6Field.POINTER)] ELSE << >>))

Icmpv6Parse(b, src_addr, dst_addr, checksums) ==
  LET type == Icmpv6Type(b)
      code == Num(b, Icmpv6Field.CODE)
  IN  IF ~ Icmpv6CheckLen(b) THEN Err
      ELSE IF checksums /\ Icmpv6Sum(b, src_addr, dst_addr) # 65535 THEN Err
      ELSE IF type \in Icmpv6ErrorTypes /\ (type = Icmpv6Message.PktTooBig => code = 0) 
        THEN Icmpv6ParseError(b, type, Icmpv6Payload(b))
      ELSE IF type = Icmpv6Message.RplControl THEN RplParse(b)
      ELSE IF code # 0 THEN Err
      ELSE IF type \in Icmpv6EchoTypes
        THEN Ok([type |-> type, ident |-> Num(b, Icmpv6Field.ECHO_IDENT), seq_no |-> Num(b, Icmpv6Field.ECHO_SEQNO),
                 data |-> Icmpv6Payload(b)])
      ELSE IF IsNdisc(type) THEN NdiscParse(b)
      ELSE MldParse(b)

Icmpv6BufferLen(repr) ==
  IF repr.type \in Icmpv6ErrorTypes
    THEN Least(Icmpv6Field.HEADER_END + Ipv6HeaderLen + Len(repr.data), MaxErrorPacketLen)
  ELSE IF repr.type \in Icmpv6EchoTypes THEN Icmpv6Field.ECHO_SEQNO[2] + Len(repr.data)
  ELSE IF IsNdisc(repr.type) THEN NdiscBufferLen(repr)
  ELSE IF IsMld(repr.type) THEN MldBufferLen(repr)
  ELSE RplBufferLen(repr)

\* emit_contained_packet(): as much of the packet as there is room for.
EmitContainedPacket(b, repr) ==
  LET room == MaxErrorPacketLen - Icmpv6Field.HEADER_END - Ipv6HeaderLen
      packet(d) == Copied(Ipv6EmitHeader(d, repr.header, repr.header.payload_len), Ipv6HeaderLen,
                          SubSeq(repr.data, 1, Least(Len(repr.data), room)))
  IN  Within(b, Icmpv6Field.HEADER_END, packet)

Icmpv6Setters(repr) ==
  CASE repr.type = Icmpv6Message.PktTooBig ->
         Icmpv6SetType(repr.type) \o << Copy(Icmpv6Field.MTU[1], repr.mtu) >>
    [] repr.type = Icmpv6Message.ParamProblem ->
         << Put(Icmpv6Field.TYPE, repr.type), Put(Icmpv6Field.CODE, repr.reason),
            Copy(Icmpv6Field.POINTER[1], repr.pointer) >>
    [] repr.type \in Icmpv6EchoTypes ->
         Icmpv6SetType(repr.type)
         \o << Put(Icmpv6Field.ECHO_IDENT, repr.ident), Put(Icmpv6Field.ECHO_SEQNO, repr.seq_no),
               Copy(Icmpv6Field.HEADER_END, repr.data) >>
    [] OTHER -> << Put(Icmpv6Field.TYPE, repr.type), Put(Icmpv6Field.CODE, repr.reason) >>

\* fill_checksum(), or a checksum of zero.
Icmpv6FillChecksum(b, src_addr, dst_addr, checksums) ==
  LET zeroed == Copied(b, Icmpv6Field.CHECKSUM[1], Zeros(2))
  IN  IF ~ checksums THEN zeroed
      ELSE Copied(zeroed, Icmpv6Field.CHECKSUM[1], BigEndian(Complement(Icmpv6Sum(zeroed, src_addr, dst_addr)), 2))

Icmpv6Emit(b, repr, src_addr, dst_addr, checksums) ==
  Icmpv6FillChecksum(
    IF IsNdisc(repr.type) THEN NdiscEmit(b, repr)
    ELSE IF IsMld(repr.type) THEN Emitted(b, MldSetters(repr))
    ELSE IF repr.type = Icmpv6Message.RplControl THEN RplEmit(b, repr)
    ELSE IF repr.type \in Icmpv6ErrorTypes THEN EmitContainedPacket(Emitted(b, Icmpv6Setters(repr)), repr)
    ELSE Emitted(b, Icmpv6Setters(repr)),
    src_addr, dst_addr, checksums)

=============================================================================
