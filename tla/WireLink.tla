------------------------------ MODULE WireLink ------------------------------
(***************************************************************************)
(* Ethernet frames and ARP packets: wire/ethernet.rs and wire/arp.rs.      *)
(***************************************************************************)
EXTENDS WireOps

EthernetField == [DESTINATION |-> << 0, 6 >>, SOURCE |-> << 6, 12 >>, ETHERTYPE |-> << 12, 14 >>, PAYLOAD |-> 14]

EthernetCheckLen(b) == Len(b) >= EthernetField.PAYLOAD

\* The accessors, and the payload with the header.
EthernetFrame(b) ==
  [dst_addr |-> Octets(b, EthernetField.DESTINATION), src_addr |-> Octets(b, EthernetField.SOURCE),
   ethertype |-> Num(b, EthernetField.ETHERTYPE), payload |-> Beyond(b, EthernetField.PAYLOAD)]

EthernetParse(b) == IF EthernetCheckLen(b) THEN Ok(EthernetFrame(b)) ELSE Err

EthernetBufferLen(repr) == EthernetField.PAYLOAD + Len(repr.payload)

EthernetSetters(h) ==
  << Copy(EthernetField.SOURCE[1], h.src_addr), Copy(EthernetField.DESTINATION[1], h.dst_addr),
     Put(EthernetField.ETHERTYPE, h.ethertype), Copy(EthernetField.PAYLOAD, h.payload) >>

EthernetEmit(b, repr) == Emitted(b, EthernetSetters(repr))

-----------------------------------------------------------------------------
ArpField ==
  [HTYPE |-> << 0, 2 >>, PTYPE |-> << 2, 4 >>, HLEN |-> One(4), PLEN |-> One(5), OPER |-> << 6, 8 >>]

\* The places of the addresses depend on their lengths.
SHA(hlen, plen) == << 8, 8 + hlen >>

SPA(hlen, plen) == << SHA(hlen, plen)[2], SHA(hlen, plen)[2] + plen >>

THA(hlen, plen) == << SPA(hlen, plen)[2], SPA(hlen, plen)[2] + hlen >>

TPA(hlen, plen) == << THA(hlen, plen)[2], THA(hlen, plen)[2] + plen >>

ArpCheckLen(b) ==
  Len(b) >= ArpField.OPER[2] /\ Len(b) >= TPA(Num(b, ArpField.HLEN), Num(b, ArpField.PLEN))[2]

ArpPacket(b) ==
  LET hlen == Num(b, ArpField.HLEN)
      plen == Num(b, ArpField.PLEN)
  IN  [hardware_type |-> Num(b, ArpField.HTYPE), protocol_type |-> Num(b, ArpField.PTYPE),
       hardware_len |-> hlen, protocol_len |-> plen, operation |-> Num(b, ArpField.OPER),
       source_hardware_addr |-> Octets(b, SHA(hlen, plen)),
       source_protocol_addr |-> Octets(b, SPA(hlen, plen)),
       target_hardware_addr |-> Octets(b, THA(hlen, plen)),
       target_protocol_addr |-> Octets(b, TPA(hlen, plen))]

\* EthernetIpv4, the only kind of packet there is.
ArpParse(b) ==
  LET packet == ArpPacket(b)
  IN  IF ~ ArpCheckLen(b) THEN Err
      ELSE IF << packet.hardware_type, packet.protocol_type, packet.hardware_len,
                 packet.protocol_len >> # << 1, 2048, 6, 4 >> THEN Err
      ELSE Ok([k \in {"operation", "source_hardware_addr", "source_protocol_addr",
                      "target_hardware_addr", "target_protocol_addr"} |-> packet[k]])

ArpBufferLen == TPA(6, 4)[2]

ArpSetters(h) ==
  << Put(ArpField.HTYPE, 1), Put(ArpField.PTYPE, 2048), Put(ArpField.HLEN, 6), Put(ArpField.PLEN, 4),
     Put(ArpField.OPER, h.operation),
     Copy(SHA(6, 4)[1], h.source_hardware_addr), Copy(SPA(6, 4)[1], h.source_protocol_addr),
     Copy(THA(6, 4)[1], h.target_hardware_addr), Copy(TPA(6, 4)[1], h.target_protocol_addr) >>

ArpEmit(b, repr) == Emitted(b, ArpSetters(repr))

=============================================================================
