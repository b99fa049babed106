------------------------------ MODULE WireIphc ------------------------------
(***************************************************************************)
(* The compressed headers of 6LoWPAN: IPv6 headers by wire/sixlowpan/      *)
(* iphc.rs and mod.rs, extension headers and UDP headers by nhc.rs.        *)
(***************************************************************************)
EXTENDS WireLowpan

\* NextHeader::Compressed; an uncompressed one is its number.
Compressed == 256

Unspecified6 == Zeros(16)

LinkLocalPrefix == << 254, 128 >> \o Zeros(6)

Eui64Middle == << 255, 254 >>

IsLinkLocal(addr) == SubSeq(addr, 1, 8) = LinkLocalPrefix

IsMulticast6(addr) == addr[1] = 255

\* The interface identifier of a short address.
ShortIid(short) == Zeros(3) \o Eui64Middle \o Zeros(1) \o short

\* get_field!() of the two octets that an IPHC header begins with.
IphcField(b) ==
  LET raw == Num(b, << 0, 2 >>)
  IN  [dispatch |-> BitsOf(raw, 13, 3), tf |-> BitsOf(raw, 11, 2), nh |-> BitsOf(raw, 10, 1), hlim |-> BitsOf(raw, 8, 2),
       cid |-> BitsOf(raw, 7, 1), sac |-> BitsOf(raw, 6, 1), sam |-> BitsOf(raw, 4, 2), m |-> BitsOf(raw, 3, 1),
       dac |-> BitsOf(raw, 2, 1), dam |-> BitsOf(raw, 0, 2)]

\* traffic_class_size(), src_address_size() and dst_address_size().
TrafficClassSize(f) == << 4, 3, 1, 0 >>[f.tf + 1]

SrcAddressSize(f) == IF f.sac = 1 /\ f.sam = 0 THEN 0 ELSE << 16, 8, 2, 0 >>[f.sam + 1]

DstAddressSize(f) ==
  CASE f.m = 0 /\ f.dac = 0 -> << 16, 8, 2, 0 >>[f.dam + 1]
    [] f.m = 0 /\ f.dac = 1 -> << 0, 8, 2, 0 >>[f.dam + 1]
    [] f.m = 1 /\ f.dac = 0 -> << 16, 6, 4, 1 >>[f.dam + 1]
    [] OTHER -> << 6, 0, 0, 0 >>[f.dam + 1]

\* The offsets of the fields that are carried in-line.
IphcStart(f) ==
  LET nh == 2 + f.cid + TrafficClassSize(f)
      hlim == nh + 1 - f.nh
      src == hlim + (IF f.hlim = 0 THEN 1 ELSE 0)
      dst == src + SrcAddressSize(f)
  IN  [tf |-> 2 + f.cid, nh |-> nh, hlim |-> hlim, src |-> src, dst |-> dst, payload |-> dst + DstAddressSize(f)]

\* resolve() of an address that is not multicast: by its in-line octets, the
\* link-layer address and, where one is used, a context that replaces the prefix.
ResolveUnicast(inline, ll_address, prefix) ==
  LET iid == CASE Len(inline) = 8 -> inline
               [] Len(inline) = 2 -> (IF prefix = LinkLocalPrefix THEN ShortIid(inline) ELSE Zeros(6) \o inline)
               [] Len(ll_address) = 2 -> ShortIid(ll_address)
               [] Len(ll_address) = 8 -> AsEui64(ll_address)[1]
               [] OTHER -> << >>
  IN  IF Len(inline) = 16 THEN Ok(inline)
      ELSE IF Len(inline) = 0 /\ ll_address = << >> THEN Err
      ELSE Ok(prefix \o iid)

ResolveWithContext(inline, ll_address, contexts, id) ==
  IF id = << >> THEN Err
  ELSE IF id[1] + 1 \notin DOMAIN contexts THEN Err
  ELSE ResolveUnicast(inline, ll_address, contexts[id[1] + 1])

\* resolve() of the forms ff02::00XX, ffXX::00XX:XXXX and ffXX::00XX:XXXX:XXXX.
ResolveMulticast(inline) ==
  CASE Len(inline) = 16 -> inline
    [] Len(inline) = 1 -> << 255, 2 >> \o Zeros(13) \o inline
    [] OTHER -> << 255, inline[1] >> \o Zeros(15 - Len(inline)) \o Beyond(inline, 1)

\* src_context_id() and dst_context_id().
SrcContextId(b, f) == IF f.cid = 1 THEN << b[3] \div 16 >> ELSE << >>

DstContextId(b, f) == IF f.cid = 1 THEN << b[3] % 16 >> ELSE << >>

\* src_addr() and dst_addr().
SrcAddr(inline, f, ll_address, contexts, id) ==
  IF f.sac = 0 THEN ResolveUnicast(inline, ll_address, LinkLocalPrefix)
  ELSE IF f.sam = 0 THEN Ok(Unspecified6)
  ELSE ResolveWithContext(inline, ll_address, contexts, id)

DstAddr(inline, f, ll_address, contexts, id) ==
  IF f.m = 1 THEN IF f.dac = 0 THEN Ok(ResolveMulticast(inline)) ELSE Err
  ELSE IF f.dac = 0 THEN ResolveUnicast(inline, ll_address, LinkLocalPrefix)
  ELSE IF f.dam = 0 THEN Err
  ELSE ResolveWithContext(inline, ll_address, contexts, id)

\* ecn_field(), dscp_field() and flow_label_field().
FlowFields(b, tf, at) ==
  [ecn |-> IF tf = 3 THEN << >> ELSE << (b[at + 1] \div 64) * 64 >>,
   dscp |-> IF tf \in {1, 3} THEN << >> ELSE << b[at + 1] % 64 >>,
   flow_label |-> IF tf \in {0, 1} THEN << Num(b, << at + 2 - tf, at + 4 - tf >>) >> ELSE << >>]

IphcRepr(b, f, at, ll_src_addr, ll_dst_addr, src, dst) ==
  IF ~ src.ok \/ ~ dst.ok THEN Err
  ELSE Ok([src_addr |-> src.repr, ll_src_addr |-> ll_src_addr, dst_addr |-> dst.repr, ll_dst_addr |-> ll_dst_addr,
           next_header |-> IF f.nh = 1 THEN Compressed ELSE b[at.nh + 1],
           hop_limit |-> IF f.hlim = 0 THEN b[at.hlim + 1] ELSE << 1, 64, 255 >>[f.hlim]]
          @@ FlowFields(b, f.tf, at.tf))

IphcFields(b, f, at, ll_src_addr, ll_dst_addr, contexts) ==
  IF Len(b) < at.payload \/ f.dispatch # Dispatch.Iphc THEN Err
  ELSE IphcRepr(b, f, at, ll_src_addr, ll_dst_addr,
                SrcAddr(Octets(b, << at.src, at.dst >>), f, ll_src_addr, contexts, SrcContextId(b, f)),
                DstAddr(Octets(b, << at.dst, at.payload >>), f, ll_dst_addr, contexts, DstContextId(b, f)))

IphcParse(b, ll_src_addr, ll_dst_addr, contexts) ==
  IF Len(b) < 2 THEN Err
  ELSE IphcFields(b, IphcField(b), IphcStart(IphcField(b)), ll_src_addr, ll_dst_addr, contexts)

IphcPayload(b) == Beyond(b, IphcStart(IphcField(b)).payload)

\* set_src_address() and the part of set_dst_address() for unicast: the mode, and
\* the octets that the link-layer address does not tell.
CompressUnicast(addr, ll_address) ==
  LET iid == Beyond(addr, 8)
      short == Beyond(addr, 14)
  IN  IF ~ IsLinkLocal(addr) THEN [mode |-> 0, inline |-> addr]
      ELSE IF iid = ShortIid(short)
        THEN IF ll_address = short THEN [mode |-> 3, inline |-> << >>] ELSE [mode |-> 2, inline |-> short]
      ELSE IF AsEui64(ll_address) = << iid >> THEN [mode |-> 3, inline |-> << >>]
      ELSE [mode |-> 1, inline |-> iid]

\* The other part.  An address that has no short form is given the mode of the shortest.
CompressMulticast(addr) ==
  IF addr[2] = 2 /\ SubSeq(addr, 3, 15) = Zeros(13) THEN [mode |-> 3, inline |-> Beyond(addr, 15)]
  ELSE IF SubSeq(addr, 3, 13) = Zeros(11) THEN [mode |-> 2, inline |-> << addr[2] >> \o Beyond(addr, 13)]
  ELSE IF SubSeq(addr, 3, 11) = Zeros(9) THEN [mode |-> 1, inline |-> << addr[2] >> \o Beyond(addr, 11)]
  ELSE [mode |-> 3, inline |-> addr]

CompressSrc(repr) ==
  IF repr.src_addr = Unspecified6 THEN [mode |-> 0, inline |-> << >>] ELSE CompressUnicast(repr.src_addr, repr.ll_src_addr)

CompressDst(repr) ==
  IF IsMulticast6(repr.dst_addr) THEN CompressMulticast(repr.dst_addr) ELSE CompressUnicast(repr.dst_addr, repr.ll_dst_addr)

\* set_hop_limit(): three values have a code of their own.
HopLimitCode(hop_limit) == CASE hop_limit = 255 -> 3 [] hop_limit = 64 -> 2 [] hop_limit = 1 -> 1 [] OTHER -> 0

IphcInline(repr) ==
  (IF repr.next_header = Compressed THEN << >> ELSE << repr.next_header >>)
  \o (IF HopLimitCode(repr.hop_limit) = 0 THEN << repr.hop_limit >> ELSE << >>)
  \o CompressSrc(repr).inline \o CompressDst(repr).inline

\* buffer_len() computes the same sizes, and room for a traffic class that emit() never writes.
IphcBufferLen(repr) == 2 + Len(IphcInline(repr))

IphcEmit(b, repr) ==
  LET put(low, width, n) == PutBits(<< 0, 2 >>, low, width, n)
      unspecified == repr.src_addr = Unspecified6
  IN  Emitted(b, << put(13, 3, Dispatch.Iphc), put(11, 2, 3), put(10, 1, IF repr.next_header = Compressed THEN 1 ELSE 0),
                    put(8, 2, HopLimitCode(repr.hop_limit)), put(7, 1, 0), put(6, 1, IF unspecified THEN 1 ELSE 0),
                    put(4, 2, CompressSrc(repr).mode), put(2, 1, 0), put(3, 1, IF IsMulticast6(repr.dst_addr) THEN 1 ELSE 0),
                    put(0, 2, CompressDst(repr).mode), Copy(2, IphcInline(repr)) >>)

-----------------------------------------------------------------------------
(* Next headers.                                                           *)

\* ExtHeaderId, and the protocol that it stands for.
ExtHeaderId == [HopByHopHeader |-> 0, RoutingHeader |-> 1, FragmentHeader |-> 2, DestinationOptionsHeader |-> 3]

ExtHeaderProtocol(id) == << 0, 43, 44, 60 >>[id + 1]

NhcDispatch(b) ==
  IF b = << >> THEN Err
  ELSE IF b[1] \div 16 = Dispatch.Ext THEN Ok("ExtHeader")
  ELSE IF b[1] \div 8 = Dispatch.Udp THEN Ok("UdpHeader")
  ELSE Err

ExtHeaderLen(next_header) == IF next_header = Compressed THEN 2 ELSE 3

ExtHeaderNext(b) == IF b[1] % 2 = 1 THEN Compressed ELSE b[2]

ExtHeaderParse(b) ==
  IF b = << >> THEN Err
  ELSE IF Len(b) < 3 - (b[1] % 2) THEN Err
  ELSE IF b[1] \div 16 # Dispatch.Ext THEN Err
  ELSE Ok([ext_header_id |-> BitsOf(b[1], 1, 3), next_header |-> ExtHeaderNext(b), length |-> b[ExtHeaderLen(ExtHeaderNext(b))]])

\* The header, and the data that the caller puts behind it.
ExtHeaderEmit(b, repr, data) ==
  LET length == ExtHeaderLen(repr.next_header)
  IN  Emitted(b, << PutBits(One(0), 4, 4, Dispatch.Ext), PutBits(One(0), 1, 3, repr.ext_header_id),
                    PutBits(One(0), 0, 1, IF repr.next_header = Compressed THEN 1 ELSE 0) >>
                 \o (IF repr.next_header = Compressed THEN << >> ELSE << Put(One(1), repr.next_header) >>)
                 \o << Put(One(length - 1), repr.length), Copy(length, data) >>)

\* Ports of the ranges that are compressed.
InByte(port) == port \in 61440 .. 61695

InNibble(port) == port \in 61616 .. 61631

\* set_ports(): the mode and the octets.  Two short ports are combined by a bitwise
\* and of one that is shifted and one that is not: nothing is left of either.
CompressPorts(src_port, dst_port) ==
  IF InNibble(src_port) /\ InNibble(dst_port) THEN [mode |-> 3, octets |-> << 0 >>]
  ELSE IF InByte(src_port) THEN [mode |-> 2, octets |-> << src_port - 61440 >> \o BigEndian(dst_port, 2)]
  ELSE IF InByte(dst_port) THEN [mode |-> 1, octets |-> BigEndian(src_port, 2) \o << dst_port - 61440 >>]
  ELSE [mode |-> 0, octets |-> BigEndian(src_port, 2) \o BigEndian(dst_port, 2)]

UdpNhcHeaderLen(repr) == 1 + Len(CompressPorts(repr.src_port, repr.dst_port).octets) + 2

\* src_port() and dst_port().  The latter reads the first octet of the source port
\* where only the destination is compressed, and a whole octet where both are.
UdpNhcPorts(b) ==
  LET mode == b[1] % 4
  IN  [src_port |-> CASE mode \in {0, 1} -> Num(b, << 1, 3 >>) [] mode = 2 -> 61440 + b[2] [] OTHER -> 61616 + (b[2] \div 16),
       dst_port |-> CASE mode = 0 -> Num(b, << 3, 5 >>) [] mode = 1 -> 61440 + b[2] [] mode = 2 -> Num(b, << 2, 4 >>)
                      [] OTHER -> 61616 + b[2]]

PortsSize(b) == << 4, 3, 3, 1 >>[(b[1] % 4) + 1]

UdpNhcStart(b) == 1 + PortsSize(b) + (IF BitsOf(b[1], 2, 1) = 0 THEN 2 ELSE 0)

UdpNhcSum(ports, payload, src_addr, dst_addr) ==
  Combine(<< PseudoHeader(src_addr, dst_addr, IpProtocolUdp, Len(payload) + 8), ports.src_port, ports.dst_port,
             Len(payload) + 8, ChecksumData(payload) >>)

UdpNhcParse(b, src_addr, dst_addr, checksums) ==
  LET at == UdpNhcStart(b)
      payload == Beyond(b, at)
      ports == UdpNhcPorts(b)
      inline == BitsOf(b[1], 2, 1) = 0
  IN  IF b = << >> THEN Err
      ELSE IF Len(b) < at \/ b[1] \div 8 # Dispatch.Udp THEN Err
      ELSE IF checksums /\ inline /\ Num(b, << at - 2, at >>) # Complement(UdpNhcSum(ports, payload, src_addr, dst_addr)) THEN Err
      ELSE Ok(ports @@ [payload |-> payload])

\* emit(): the payload leaves room for a checksum, which is only written if it is computed.
UdpNhcEmit(b, repr, src_addr, dst_addr, checksums) ==
  LET ports == CompressPorts(repr.src_port, repr.dst_port)
      at == UdpNhcHeaderLen(repr)
      sum == Complement(UdpNhcSum(repr, repr.payload, src_addr, dst_addr))
  IN  Emitted(b, << PutBits(One(0), 3, 5, Dispatch.Udp), PutBits(One(0), 0, 2, ports.mode), Copy(1, ports.octets), Copy(at, repr.payload) >>
                 \o (IF checksums THEN << PutBits(One(0), 2, 1, 0), Put(<< at - 2, at >>, sum) >> ELSE << >>))

=============================================================================
