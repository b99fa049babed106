------------------------------- MODULE MCBase -------------------------------
(***************************************************************************)
(* Packets to check the wire formats with.                                 *)
(***************************************************************************)
EXTENDS Base

Mac1 == << 2, 0, 0, 0, 0, 1 >>

Mac2 == << 2, 255, 254, 129, 0, 2 >>

V4a == << 192, 168, 1, 7 >>

V4b == << 10, 255, 0, 254 >>

V6a == << 254, 128, 0, 0, 0, 0, 0, 0, 0, 0, 0, 255, 254, 0, 18, 52 >>

V6b == << 255, 2, 0, 0, 0, 0, 0, 0, 0, 0, 0, 1, 255, 171, 205, 239 >>

Sample(format, repr) ==
  [format |-> format, repr |-> repr, src_addr |-> V4a, dst_addr |-> V4b, checksums |-> TRUE]

Sample6(format, repr) == [Sample(format, repr) EXCEPT !.src_addr = V6a, !.dst_addr = V6b]

Payloads == {<< >>, << 7 >>, << 255, 255 >>, << 1, 2, 3, 4, 5 >>}

LinkSamples ==
  {Sample("ethernet", [src_addr |-> Mac1, dst_addr |-> Mac2, ethertype |-> t, payload |-> p]) :
     t \in {2048, 34525}, p \in Payloads}
  \cup {Sample("arp", [operation |-> o, source_hardware_addr |-> Mac1, source_protocol_addr |-> V4a,
                        target_hardware_addr |-> Mac2, target_protocol_addr |-> V4b]) : o \in {1, 2, 999}}

IpSamples ==
  {[Sample("ipv4", [src_addr |-> V4a, dst_addr |-> V4b, next_header |-> n, hop_limit |-> h, payload |-> p])
      EXCEPT !.checksums = c] : n \in {6, 255}, h \in {1, 64}, p \in Payloads, c \in BOOLEAN}
  \cup {Sample("ipv6", [src_addr |-> V6a, dst_addr |-> V6b, next_header |-> n, hop_limit |-> h, payload |-> p]) :
     n \in {6, 255}, h \in {1, 64}, p \in Payloads}

UdpReprs == [src_port : {0, 53}, dst_port : {1, 65535}, payload : Payloads]

\* A datagram whose sum is zero.
UdpZeroSum == [src_port |-> 12793, dst_port |-> 53, payload |-> << 0, 0 >>]

TcpRepr ==
  [src_port |-> 48896, dst_port |-> 80, control |-> "None", seq_number |-> << 255, 255, 255, 254 >>,
   ack_number |-> << << 0, 1, 2, 128 >> >>, window_len |-> 291, window_scale |-> << >>, max_seg_size |-> << >>,
   sack_permitted |-> FALSE, sack_ranges |-> << >>, timestamp |-> << >>, payload |-> << >>]

Block(n) == << << 0, 0, 0, n >>, << 128, 0, 1, n >> >>

TcpReprs ==
  {[TcpRepr EXCEPT !.control = c, !.payload = p] : c \in {"None", "Psh", "Fin", "Rst"}, p \in Payloads}
  \cup {[TcpRepr EXCEPT !.control = "Syn", !.ack_number = a, !.max_seg_size = m, !.window_scale = w,
                        !.sack_permitted = s, !.timestamp = t] :
          a \in {<< >>, << << 0, 0, 0, 0 >> >>}, m \in {<< >>, << 1460 >>}, w \in {<< >>, << 0 >>, << 14 >>},
          s \in BOOLEAN, t \in {<< >>, << << << 1, 2, 3, 4 >>, << 0, 0, 0, 0 >> >> >>}}
  \cup {[TcpRepr EXCEPT !.sack_ranges = r, !.timestamp = t, !.payload = << 9 >>] :
          r \in {<< Block(1) >>, << Block(1), Block(2) >>, << Block(1), Block(2), Block(3) >>},
          t \in {<< >>, << << << 1, 2, 3, 4 >>, << 0, 0, 0, 5 >> >> >>}}

TransportSamples ==
  {Sample("udp", r) : r \in UdpReprs} \cup {Sample("udp", UdpZeroSum)}
  \cup {[Sample6("udp", r) EXCEPT !.checksums = c] : r \in UdpReprs, c \in BOOLEAN}
  \cup {Sample("tcp", r) : r \in TcpReprs}
  \cup {[Sample6("tcp", [TcpRepr EXCEPT !.payload = p]) EXCEPT !.checksums = c] : p \in Payloads, c \in BOOLEAN}

-----------------------------------------------------------------------------
Group == << 224, 0, 0, 22 >>

Ipv4Header(payload) == [src_addr |-> V4b, dst_addr |-> V4a, next_header |-> 17, payload_len |-> Len(payload), hop_limit |-> 64]

Eight == << 0, 53, 48, 57, 0, 12, 0, 0 >>

IcmpSamples ==
  {[Sample("icmpv4", [type |-> t, ident |-> 4660, seq_no |-> 65535, data |-> p]) EXCEPT !.checksums = c] :
     t \in {0, 8}, p \in {<< >>, << 170, 0, 255 >>}, c \in BOOLEAN}
  \cup {Sample("icmpv4", [type |-> t, reason |-> 3, header |-> Ipv4Header(p), data |-> p]) :
          t \in {3, 11}, p \in {Eight, Eight \o << 1 >>}}
  \cup {Sample("igmp", [type |-> "MembershipQuery", max_resp_time |-> t, group_addr |-> g, version |-> 2]) :
          t \in {1, 127, 128, 135, 1000, 4095, 31743, 40000}, g \in {Zeros(4), Group}}
  \cup {Sample("igmp", [type |-> "MembershipQuery", max_resp_time |-> 0, group_addr |-> Zeros(4), version |-> 1]),
        Sample("igmp", [type |-> "LeaveGroup", group_addr |-> Group])}
  \cup {Sample("igmp", [type |-> "MembershipReport", group_addr |-> Group, version |-> v]) : v \in {1, 2}}

Ipv6Header(payload) == [src_addr |-> V6b, dst_addr |-> V6a, next_header |-> 17, payload_len |-> Len(payload), hop_limit |-> 64]

\* Packets that fit into an error message, and that do not.
ErrorData == {Eight, Eight \o Eight}

Icmpv6Samples ==
  {[Sample6("icmpv6", [type |-> t, ident |-> 4660, seq_no |-> 65535, data |-> p]) EXCEPT !.checksums = c] :
     t \in {128, 129}, p \in {<< >>, << 170, 0, 255 >>}, c \in BOOLEAN}
  \cup {Sample6("icmpv6", [type |-> t, reason |-> 3, header |-> Ipv6Header(p), data |-> p]) : t \in {1, 3}, p \in ErrorData}
  \cup {Sample6("icmpv6", [type |-> 2, mtu |-> << 0, 0, 5, 0 >>, header |-> Ipv6Header(p), data |-> p]) : p \in ErrorData}
  \cup {Sample6("icmpv6", [type |-> 4, reason |-> 1, pointer |-> << 0, 0, 0, 40 >>, header |-> Ipv6Header(p), data |-> p]) : p \in ErrorData}

Lladdrs == {<< >>, << Mac1 >>}

PrefixInfo ==
  [prefix_len |-> 64, flags |-> 192, valid_lifetime |-> << 0, 0, 3, 132 >>, preferred_lifetime |-> << 255, 255, 255, 255 >>, prefix |-> V6a]

RedirectedPacket == [src_addr |-> V6b, dst_addr |-> V6a, next_header |-> 17, hop_limit |-> 64, payload |-> Eight \o << 3 >>]

NdiscSamples ==
  {Sample6("icmpv6", [type |-> 133, lladdr |-> l]) : l \in Lladdrs}
  \cup {Sample6("icmpv6", [type |-> 134, hop_limit |-> 64, flags |-> 128, router_lifetime |-> 900, reachable_time |-> << 0, 0, 3, 132 >>,
                           retrans_time |-> << 0, 1, 0, 0 >>, lladdr |-> l, mtu |-> m, prefix_info |-> i]) :
          l \in Lladdrs, m \in {<< >>, << << 0, 0, 5, 220 >> >>}, i \in {<< >>, << PrefixInfo >>}}
  \cup {Sample6("icmpv6", [type |-> 135, target_addr |-> V6a, lladdr |-> l]) : l \in Lladdrs}
  \cup {Sample6("icmpv6", [type |-> 136, flags |-> f, target_addr |-> V6a, lladdr |-> l]) : f \in {0, 96, 224}, l \in Lladdrs}
  \cup {Sample6("icmpv6", [type |-> 137, target_addr |-> V6a, dest_addr |-> V6b, lladdr |-> << >>, redirected_hdr |-> h]) :
          h \in {<< >>, << RedirectedPacket >>}}

Record(n) == [record_type |-> n, aux_data_len |-> 0, num_srcs |-> 0, mcast_addr |-> V6b]

MldSamples ==
  {Sample6("icmpv6", [type |-> 130, max_resp_code |-> 1000, mcast_addr |-> V6b, s_flag |-> f, qrv |-> q, qqic |-> 18, num_srcs |-> 1, data |-> V6a]) :
     f \in BOOLEAN, q \in {2, 7}}
  \cup {Sample6("icmpv6", [type |-> 143, nr_mcast_addr_rcrds |-> 1, data |-> << 4, 0, 0, 0 >> \o V6b]),
        Sample6("icmpv6", [type |-> 143, records |-> << Record(3), Record(4) >>])}

-----------------------------------------------------------------------------
Instances == {[local |-> FALSE, id |-> 30], [local |-> TRUE, id |-> 127]}

RplMessages ==
  {[type |-> 155, code |-> 0, options |-> << 0 >>]}
  \cup [type : {155}, code : {1}, rpl_instance_id : Instances, version_number : {240}, rank : {128}, grounded : BOOLEAN,
        mode_of_operation : {2, 3}, dodag_preference : {7}, dtsn : {241}, dodag_id : {V6a}, options : {<< >>, << 1, 1, 0 >>}]
  \cup [type : {155}, code : {2}, rpl_instance_id : Instances, expect_ack : BOOLEAN, sequence : {241}, dodag_id : {<< >>, << V6a >>},
        options : {<< >>, << 1, 1, 0 >>}]
  \cup [type : {155}, code : {3}, rpl_instance_id : Instances, sequence : {241}, status : {0, 200}, dodag_id : {<< >>, << V6a >>}]

RplOptions ==
  {[type |-> 0], [type |-> 1, size |-> 0], [type |-> 1, size |-> 3], [type |-> 9, descriptor |-> << 1, 2, 3, 255 >>],
   [type |-> 7, rpl_instance_id |-> [local |-> TRUE, id |-> 5], version_predicate |-> TRUE, instance_id_predicate |-> FALSE,
    dodag_id_predicate |-> TRUE, dodag_id |-> V6a, version_number |-> 240],
   [type |-> 8, prefix_length |-> 64, on_link |-> FALSE, autonomous_address_configuration |-> TRUE, router_address |-> FALSE,
    valid_lifetime |-> << 0, 0, 3, 132 >>, preferred_lifetime |-> << 255, 255, 255, 255 >>, destination_prefix |-> V6a]}
  \cup [type : {4}, authentication_enabled : BOOLEAN, path_control_size : {0, 5}, dio_interval_doublings : {8}, dio_interval_min : {12},
        dio_redundancy_constant : {10}, max_rank_increase : {1792}, minimum_hop_rank_increase : {256}, objective_code_point : {1},
        default_lifetime : {30}, lifetime_unit : {60}]
  \cup {[type |-> 5, prefix_length |-> 8 * n, prefix |-> SubSeq(V6a, 1, n)] : n \in {0, 8, 16}}
  \cup {[type |-> 6, external |-> e, path_control |-> 128, path_sequence |-> 255, path_lifetime |-> 30, parent_address |-> a] :
          e \in BOOLEAN, a \in {<< >>, << V6a >>}}

RplHop == [down |-> TRUE, rank_error |-> FALSE, forwarding_error |-> TRUE, instance_id |-> [local |-> FALSE, id |-> 30], sender_rank |-> 768]

Ipv6OptionReprs ==
  {[type |-> 0], [type |-> 1, length |-> 0], [type |-> 1, length |-> 3], [type |-> 5, alert |-> 0], [type |-> 99, rpl |-> RplHop],
   [type |-> 194, length |-> 4, data |-> << 9, 8, 7, 6 >>]}

Hbhs == {Mldv2RouterAlert, [options |-> << [type |-> 99, rpl |-> RplHop] >>], [options |-> << [type |-> 0], [type |-> 1, length |-> 3] >>],
         [options |-> << [type |-> 0], [type |-> 0], [type |-> 0], [type |-> 1, length |-> 1] >>]}

Routings ==
  {[type |-> 2, segments_left |-> 1, home_address |-> V6a],
   [type |-> 3, segments_left |-> 2, cmpr_i |-> 0, cmpr_e |-> 14, pad |-> 6, addresses |-> V6a \o << 1, 2, 0, 0, 0, 0, 0, 0 >>]}

ExtSamples ==
  {Sample6("icmpv6", m) : m \in RplMessages} \cup {Sample6("rpl_option", o) : o \in RplOptions}
  \cup {Sample6("ext", [next_header |-> 58, length |-> n, data |-> [i \in 1 .. ((8 * n) + 6) |-> i]]) : n \in {0, 1}}
  \cup {Sample6("fragment", [frag_offset |-> o, more_frags |-> m, ident |-> << 0, 1, 2, 255 >>]) : o \in {0, 8191}, m \in BOOLEAN}
  \cup {Sample6("ipv6_option", o) : o \in Ipv6OptionReprs} \cup {Sample6("hbh", h) : h \in Hbhs} \cup {Sample6("routing", r) : r \in Routings}
  \cup {Sample6("ah", [next_header |-> 6, security_parameters_index |-> V4a, sequence_number |-> V4b, integrity_check_value |-> i]) :
          i \in {<< >>, V6a}}
  \cup {Sample6("esp", [security_parameters_index |-> V4a, sequence_number |-> V4b])}

-----------------------------------------------------------------------------
DhcpRepr ==
  [message_type |-> 1, transaction_id |-> << 61, 29, 0, 255 >>, secs |-> 0, client_hardware_address |-> Mac1, client_ip |-> Zeros(4),
   your_ip |-> Zeros(4), server_ip |-> Zeros(4), relay_agent_ip |-> Zeros(4), broadcast |-> TRUE, requested_ip |-> << >>,
   client_identifier |-> << Mac1 >>, server_identifier |-> << >>, router |-> << >>, subnet_mask |-> << >>, max_size |-> << 1432 >>,
   lease_duration |-> << >>, renew_duration |-> << >>, rebind_duration |-> << >>, parameter_request_list |-> << << 1, 3, 6 >> >>,
   dns_servers |-> << >>, additional_options |-> << >>]

DhcpReprs ==
  {DhcpRepr, [DhcpRepr EXCEPT !.message_type = 3, !.requested_ip = << V4a >>, !.server_identifier = << V4b >>, !.broadcast = FALSE,
                              !.additional_options = << [kind |-> 214, data |-> << 7 >>] >>],
   [DhcpRepr EXCEPT !.message_type = 7, !.client_ip = V4a, !.parameter_request_list = << >>, !.max_size = << >>, !.client_identifier = << >>]}
  \cup {[DhcpRepr EXCEPT !.message_type = m, !.your_ip = V4a, !.server_ip = V4b, !.server_identifier = << V4b >>, !.router = << V4b >>,
                         !.subnet_mask = << << 255, 255, 255, 0 >> >>, !.lease_duration = << << 0, 1, 81, 128 >> >>,
                         !.renew_duration = << << 0, 0, 168, 192 >> >>, !.dns_servers = d, !.parameter_request_list = << >>] :
          m \in {2, 5}, d \in {<< >>, << << V4b >> >>, << << V4b, V4a, Group >> >>}}

Label1 == << 119, 119, 119 >>

Label2 == << 97 >>

Label3 == << 98, 99 >>

A(name, address) == [name |-> name, type |-> DnsType.A, data |-> address]

Cname(name, target) == [name |-> name, type |-> DnsType.Cname, data |-> target]

Answer(labels, records, expected) ==
  Sample("dns_answer", [transaction_id |-> 4660, labels |-> labels, type |-> DnsType.A, records |-> records]) @@ [expected |-> expected]

\* Aliases one after the other, records of other names, and names that end in one another.
DnsAnswers ==
  {Answer(<< Label1, Label2, Label3 >>, << A(<< Label1, Label2, Label3 >>, V4a), A(<< Label1, Label2, Label3 >>, V4b) >>, << V4a, V4b >>),
   Answer(<< Label1, Label2, Label3 >>,
          << Cname(<< Label1, Label2, Label3 >>, << Label2, Label3 >>), A(<< Label1, Label2, Label3 >>, V4b), A(<< Label2, Label3 >>, V4a) >>, << V4a >>),
   Answer(<< Label2, Label3 >>,
          << A(<< Label3 >>, Group), Cname(<< Label2, Label3 >>, << Label1, Label2 >>), Cname(<< Label1, Label2 >>, << Label1, Label2, Label3 >>),
             A(<< Label1, Label2 >>, V4b), A(<< Label1, Label2, Label3 >>, V4a) >>, << V4a >>),
   Answer(<< Label2 >>, << >>, << >>)}

AppSamples ==
  {Sample("dhcp", r) : r \in DhcpReprs} \cup DnsAnswers
  \cup {Sample("dns", [transaction_id |-> 65281, opcode |-> 0, flags |-> {8}, name |-> CopyName(l), type |-> t]) :
          l \in {<< Label3 >>, << Label1, Label2 >>}, t \in {1, 28}}

-----------------------------------------------------------------------------
Ext1 == << 2, 0, 0, 255, 254, 0, 0, 1 >>

Ext2 == << 128, 1, 2, 3, 4, 5, 6, 7 >>

Short1 == << 18, 52 >>

LinkLocal(iid) == LinkLocalPrefix \o iid

FrameReprs ==
  {[frame_type |-> 1, security_enabled |-> FALSE, frame_pending |-> p, ack_request |-> ~ p, sequence_number |-> 255, pan_id_compression |-> c,
    frame_version |-> v, dst_pan_id |-> << 43981 >>, dst_addr |-> d, src_pan_id |-> << 4660 >>, src_addr |-> s, payload |-> << 126, 255 >>] :
     p \in BOOLEAN, c \in BOOLEAN, v \in {0, 1}, d \in {Ext1, Short1}, s \in {Ext2, Short1}}
  \cup {[frame_type |-> 1, security_enabled |-> FALSE, frame_pending |-> FALSE, ack_request |-> FALSE, sequence_number |-> 1, pan_id_compression |-> c,
         frame_version |-> 2, dst_pan_id |-> << 43981 >>, dst_addr |-> Short1, src_pan_id |-> << 4660 >>, src_addr |-> s, payload |-> << >>] :
          c \in BOOLEAN, s \in {Ext2, Short1}}

\* Addresses that are elided, partly elided or carried in full, with the address of the frame.
Sources ==
  {<< Unspecified6, Ext1 >>, << LinkLocal(AsEui64(Ext1)[1]), Ext1 >>, << LinkLocal(AsEui64(Ext1)[1]), Ext2 >>, << LinkLocal(ShortIid(Short1)), Short1 >>,
   << LinkLocal(ShortIid(Short1)), Ext1 >>, << << 32, 1 >> \o Zeros(13) \o << 9 >>, Ext1 >>}

Multicasts ==
  {<< 255, 2 >> \o Zeros(13) \o << 26 >>, << 255, 5 >> \o Zeros(13) \o << 26 >>, << 255, 2 >> \o Zeros(11) \o << 1, 2, 3 >>, V6b}

Destinations == (Sources \ {<< Unspecified6, Ext1 >>}) \cup {<< m, << 255, 255 >> >> : m \in Multicasts}

\* No addresses are agreed on beforehand, or two prefixes.
Contexts == << << 32, 1, 13, 184, 0, 0, 0, 1 >>, << 253, 0, 0, 0, 0, 0, 0, 2 >> >>

Iphc(src, dst, next_header, hop_limit) ==
  [src_addr |-> src[1], ll_src_addr |-> src[2], dst_addr |-> dst[1], ll_dst_addr |-> dst[2], next_header |-> next_header, hop_limit |-> hop_limit]

\* Headers of a peer that uses contexts and traffic classes (external).
Peer(b, src_addr, dst_addr, next_header, hop_limit, flow) ==
  Sample("iphc_peer", [octets |-> b, ll_src_addr |-> Ext1, ll_dst_addr |-> Short1])
  @@ [contexts |-> Contexts,
      expected |-> [src_addr |-> src_addr, ll_src_addr |-> Ext1, dst_addr |-> dst_addr, ll_dst_addr |-> Short1,
                    next_header |-> next_header, hop_limit |-> hop_limit] @@ flow]

NoFlow == [ecn |-> << >>, dscp |-> << >>, flow_label |-> << >>]

IphcPeers ==
  {Peer(<< 127, 245, 1, 1, 2, 3, 4, 5, 6, 7, 8 >>, Contexts[1] \o AsEui64(Ext1)[1], Contexts[2] \o << 1, 2, 3, 4, 5, 6, 7, 8 >>, Compressed, 255, NoFlow),
   Peer(<< 122, 230, 16, 58, 9, 9, 7, 7 >>, Contexts[2] \o Zeros(6) \o << 9, 9 >>, Contexts[1] \o Zeros(6) \o << 7, 7 >>, 58, 64, NoFlow),
   Peer(<< 122, 215, 16, 58, 1, 2, 3, 4, 5, 6, 7, 8 >>, Contexts[2] \o << 1, 2, 3, 4, 5, 6, 7, 8 >>, Contexts[1] \o ShortIid(Short1), 58, 64, NoFlow),
   Peer(<< 98, 51, 197, 0, 18, 52, 58 >>, LinkLocal(AsEui64(Ext1)[1]), LinkLocal(ShortIid(Short1)), 58, 64,
        [ecn |-> << 192 >>, dscp |-> << 5 >>, flow_label |-> << 4660 >>]),
   Peer(<< 106, 51, 128, 18, 52, 58 >>, LinkLocal(AsEui64(Ext1)[1]), LinkLocal(ShortIid(Short1)), 58, 64,
        [ecn |-> << 128 >>, dscp |-> << >>, flow_label |-> << 4660 >>]),
   Peer(<< 114, 51, 69, 58 >>, LinkLocal(AsEui64(Ext1)[1]), LinkLocal(ShortIid(Short1)), 58, 64, [ecn |-> << 64 >>, dscp |-> << 5 >>, flow_label |-> << >>])}

\* Ports in no range, and a source in the range of one octet.
NhcPorts == {<< 53, 4660 >>, << 61520, 53 >>, << 61616, 61616 >>, << 61617, 61440 >>}

Lowpan(src, dst, hbh, routing, proto, payload) ==
  Sample("lowpan", [src_addr |-> src[1], ll_src_addr |-> src[2], dst_addr |-> dst[1], ll_dst_addr |-> dst[2], hop_limit |-> 64,
                    hop_by_hop |-> hbh, routing |-> routing, proto |-> proto, payload |-> payload]) @@ [contexts |-> << >>]

Datagram(ports, n) == [src_port |-> ports[1], dst_port |-> ports[2], payload |-> [i \in 1 .. n |-> i % 256]]

Far == << << 32, 1 >> \o Zeros(13) \o << 9 >>, Ext1 >>

Near == << LinkLocal(AsEui64(Ext2)[1]), Ext2 >>

Echo(n) == [type |-> 128, ident |-> 7, seq_no |-> 9, data |-> [i \in 1 .. n |-> i % 256]]

\* Packets of one frame, and of two and three.
LowpanSamples ==
  {Lowpan(s, d, << >>, << >>, 17, Datagram(p, n)) : s \in {Far, Near}, d \in {Far, Near}, p \in NhcPorts, n \in {0, 60, 120, 200}}
  \cup {Lowpan(s, d, << >>, << >>, 58, Echo(n)) : s \in {Far, Near}, d \in {Far, Near}, n \in {0, 50, 100, 200}}
  \cup {Lowpan(Near, Far, << >>, << >>, 6, [TcpRepr EXCEPT !.payload = [i \in 1 .. n |-> i % 256]]) : n \in {1, 120}}
  \cup {Lowpan(Near, Far, << [options |-> << [type |-> 99, rpl |-> RplHop] >>] >>, << >>, 58, Echo(4)),
        Lowpan(Near, Far, << >>, << [type |-> 2, segments_left |-> 1, home_address |-> V6a] >>, 17, Datagram(<< 53, 4660 >>, 3)),
        Lowpan(Near, Far, << Mldv2RouterAlert >>, << [type |-> 2, segments_left |-> 1, home_address |-> V6a] >>, 17, Datagram(<< 53, 4660 >>, 3))}

SixlowpanSamples ==
  {Sample("ieee802154", r) : r \in FrameReprs} \cup IphcPeers \cup LowpanSamples
  \cup {Sample("lowpan_frag", [size |-> z, tag |-> 4660, offset |-> o]) : z \in {1280, 2047}, o \in {<< >>, << 0 >>, << 255 >>}}
  \cup {Sample("iphc", Iphc(s, d, n, 255)) @@ [contexts |-> << >>] : s \in Sources, d \in Destinations, n \in {Compressed, 58}}
  \cup {Sample("iphc", Iphc(Near, Near, 58, h)) @@ [contexts |-> << >>] : h \in {1, 64, 63}}
  \cup {Sample("ext_nhc", [ext_header_id |-> i, next_header |-> n, length |-> 14]) : i \in 0 .. 3, n \in {Compressed, 58}}
  \cup {[Sample6("udp_nhc", Datagram(p, n)) EXCEPT !.checksums = c] : p \in NhcPorts, n \in {0, 5}, c \in BOOLEAN}

MCSamples ==
  LinkSamples \cup IpSamples \cup TransportSamples \cup IcmpSamples \cup Icmpv6Samples \cup NdiscSamples \cup MldSamples
  \cup ExtSamples \cup AppSamples \cup SixlowpanSamples

=============================================================================
