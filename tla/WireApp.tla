------------------------------- MODULE WireApp ------------------------------
(***************************************************************************)
(* DHCP and DNS messages: wire/dhcpv4.rs, wire/dns.rs, and how             *)
(* socket/dns.rs compares and copies names.                                *)
(***************************************************************************)
EXTENDS WireOps

CONSTANT MaxDnsServers     \* MAX_DNS_SERVER_COUNT

DhcpField ==
  [OP |-> One(0), HTYPE |-> One(1), HLEN |-> One(2), HOPS |-> One(3), XID |-> << 4, 8 >>, SECS |-> << 8, 10 >>,
   FLAGS |-> << 10, 12 >>, CIADDR |-> << 12, 16 >>, YIADDR |-> << 16, 20 >>, SIADDR |-> << 20, 24 >>,
   GIADDR |-> << 24, 28 >>, CHADDR |-> << 28, 34 >>, SNAME |-> << 34, 108 >>, FILE |-> << 108, 236 >>,
   MAGIC_NUMBER |-> << 236, 240 >>, OPTIONS |-> 240]

DhcpOpt ==
  [PAD |-> 0, SUBNET_MASK |-> 1, ROUTER |-> 3, DOMAIN_NAME_SERVER |-> 6, REQUESTED_IP |-> 50, IP_LEASE_TIME |-> 51,
   DHCP_MESSAGE_TYPE |-> 53, SERVER_IDENTIFIER |-> 54, PARAMETER_REQUEST_LIST |-> 55, MAX_DHCP_MESSAGE_SIZE |-> 57,
   RENEWAL_TIME_VALUE |-> 58, REBINDING_TIME_VALUE |-> 59, CLIENT_ID |-> 61, END |-> 255]

DhcpMagicNumber == << 99, 130, 83, 99 >>

HardwareEthernet == 1

\* MessageType::opcode(): Request, Reply or unknown.
DhcpOpcode(message_type) ==
  CASE message_type \in {1, 3, 4, 7, 8} -> 1
    [] message_type \in {2, 5, 6} -> 2
    [] OTHER -> 0

\* options(): up to the end option, or to one that is cut off.
RECURSIVE DhcpOptions(_)
DhcpOptions(octets) ==
  IF octets = << >> \/ octets[1] = DhcpOpt.END THEN << >>
  ELSE IF octets[1] = DhcpOpt.PAD THEN DhcpOptions(Beyond(octets, 1))
  ELSE IF Len(octets) < 2 \/ Len(octets) < 2 + octets[2] THEN << >>
  ELSE << [kind |-> octets[1], data |-> Octets(octets, << 2, 2 + octets[2] >>)] >>
       \o DhcpOptions(Beyond(octets, 2 + octets[2]))

\* The data of the last option, if any.
LastData(options) == IF options = << >> THEN << >> ELSE << Last(options).data >>

\* Whole addresses, as many as there is room for.
DnsServersFrom(data) ==
  LET n == IF Len(data) \div 4 < MaxDnsServers THEN Len(data) \div 4 ELSE MaxDnsServers
  IN  [i \in 1 .. n |-> Octets(data, << (i - 1) * 4, i * 4 >>)]

DhcpParse(b) ==
  LET F == DhcpField
      O == DhcpOpt
      options == DhcpOptions(Beyond(b, F.OPTIONS))
      given(kind, size) == LastData(SelectSeq(options, LAMBDA o : o.kind = kind /\ Len(o.data) = size))
      any(kind) == LastData(SelectSeq(options, LAMBDA o : o.kind = kind))
      mapped(optional, Op(_)) == [i \in DOMAIN optional |-> Op(optional[i])]
      client_id == {o \in {options[i] : i \in DOMAIN options} : o.kind = O.CLIENT_ID /\ Len(o.data) = 7}
      message_type == LastData(SelectSeq(options, LAMBDA o : /\ o.kind = O.DHCP_MESSAGE_TYPE /\ Len(o.data) = 1
                                                             /\ DhcpOpcode(o.data[1]) = Num(b, F.OP)))
  IN  IF Len(b) < F.OPTIONS THEN Err
      ELSE IF Num(b, F.HTYPE) # HardwareEthernet \/ Num(b, F.HLEN) # 6 \/ Octets(b, F.MAGIC_NUMBER) # DhcpMagicNumber THEN Err
      ELSE IF (\E o \in client_id : o.data[1] # HardwareEthernet) \/ message_type = << >> THEN Err
      ELSE Ok([message_type |-> message_type[1][1], transaction_id |-> Octets(b, F.XID), secs |-> Num(b, F.SECS),
               client_hardware_address |-> Octets(b, F.CHADDR), client_ip |-> Octets(b, F.CIADDR),
               your_ip |-> Octets(b, F.YIADDR), server_ip |-> Octets(b, F.SIADDR), relay_agent_ip |-> Octets(b, F.GIADDR),
               broadcast |-> Flag(b, F.FLAGS, 15), requested_ip |-> given(O.REQUESTED_IP, 4),
               client_identifier |-> mapped(given(O.CLIENT_ID, 7), LAMBDA d : Beyond(d, 1)),
               server_identifier |-> given(O.SERVER_IDENTIFIER, 4), router |-> given(O.ROUTER, 4),
               subnet_mask |-> given(O.SUBNET_MASK, 4), max_size |-> mapped(given(O.MAX_DHCP_MESSAGE_SIZE, 2), Number),
               lease_duration |-> given(O.IP_LEASE_TIME, 4), renew_duration |-> given(O.RENEWAL_TIME_VALUE, 4),
               rebind_duration |-> given(O.REBINDING_TIME_VALUE, 4),
               parameter_request_list |-> any(O.PARAMETER_REQUEST_LIST),
               dns_servers |-> mapped(any(O.DOMAIN_NAME_SERVER), DnsServersFrom), additional_options |-> << >>])

DhcpBufferLen(repr) ==
  DhcpField.OPTIONS + 3 + 1 + 6 * Len(repr.requested_ip) + 9 * Len(repr.client_identifier)
  + 6 * Len(repr.server_identifier) + 4 * Len(repr.max_size) + 6 * Len(repr.router) + 6 * Len(repr.subnet_mask)
  + 6 * Len(repr.lease_duration) + Total([i \in DOMAIN repr.dns_servers |-> 2 + 4 * Len(repr.dns_servers[i])])
  + Total([i \in DOMAIN repr.parameter_request_list |-> Len(repr.parameter_request_list[i]) + 2])
  + Total([i \in DOMAIN repr.additional_options |-> 2 + Len(repr.additional_options[i].data)])

\* DhcpOptionWriter::emit().
DhcpOption(kind, data) == << kind, Len(data) >> \o data

DhcpOptionsOf(repr) ==
  LET O == DhcpOpt
      optional(kind, value) == IF value = << >> THEN << >> ELSE DhcpOption(kind, value[1])
      client_id == IF repr.client_identifier = << >> THEN << >> ELSE << << HardwareEthernet >> \o repr.client_identifier[1] >>
      max_size == IF repr.max_size = << >> THEN << >> ELSE << BigEndian(repr.max_size[1], 2) >>
      servers == IF repr.dns_servers = << >> THEN << >> ELSE << FlattenSeq(repr.dns_servers[1]) >>
  IN  DhcpOption(O.DHCP_MESSAGE_TYPE, << repr.message_type >>) \o optional(O.CLIENT_ID, client_id)
      \o optional(O.SERVER_IDENTIFIER, repr.server_identifier) \o optional(O.ROUTER, repr.router)
      \o optional(O.SUBNET_MASK, repr.subnet_mask) \o optional(O.REQUESTED_IP, repr.requested_ip)
      \o optional(O.MAX_DHCP_MESSAGE_SIZE, max_size) \o optional(O.IP_LEASE_TIME, repr.lease_duration)
      \o optional(O.PARAMETER_REQUEST_LIST, repr.parameter_request_list) \o optional(O.DOMAIN_NAME_SERVER, servers)
      \o FlattenSeq([i \in DOMAIN repr.additional_options |->
           DhcpOption(repr.additional_options[i].kind, repr.additional_options[i].data)])
      \o << O.END >>

\* emit().  The renewal and the rebinding time are not among the options.
DhcpEmit(b, repr) ==
  LET F == DhcpField
  IN  Emitted(b, << Copy(F.SNAME[1], Zeros(74)), Copy(F.FILE[1], Zeros(128)), Put(F.OP, DhcpOpcode(repr.message_type)),
                    Put(F.HTYPE, HardwareEthernet), Put(F.HLEN, 6), Copy(F.XID[1], repr.transaction_id),
                    Copy(F.CHADDR[1], repr.client_hardware_address), Put(F.HOPS, 0), Put(F.SECS, repr.secs),
                    Copy(F.MAGIC_NUMBER[1], DhcpMagicNumber), Copy(F.CIADDR[1], repr.client_ip),
                    Copy(F.YIADDR[1], repr.your_ip), Copy(F.SIADDR[1], repr.server_ip),
                    Copy(F.GIADDR[1], repr.relay_agent_ip), Put(F.FLAGS, IF repr.broadcast THEN 2^15 ELSE 0),
                    Copy(F.OPTIONS, DhcpOptionsOf(repr)) >>)

-----------------------------------------------------------------------------
(* DNS.                                                                    *)

DnsField ==
  [ID |-> << 0, 2 >>, FLAGS |-> << 2, 4 >>, QDCOUNT |-> << 4, 6 >>, ANCOUNT |-> << 6, 8 >>, NSCOUNT |-> << 8, 10 >>,
   ARCOUNT |-> << 10, 12 >>, HEADER_END |-> 12]

DnsType == [A |-> 1, Cname |-> 5, Aaaa |-> 28]

DnsClassIn == 1

\* Bits of RESPONSE, AUTHORITATIVE, TRUNCATED, RECURSION_DESIRED, RECURSION_AVAILABLE,
\* AUTHENTIC_DATA and CHECK_DISABLED.
DnsFlagBits == << 15, 10, 9, 8, 7, 5, 4 >>

\* The top bits of an octet tell a label from a pointer.
IsLabel(octet) == octet \div 64 = 0

IsPointer(octet) == octet \div 64 = 3

\* parse_name(): the labels.  A pointer leads to an earlier part of the packet,
\* and only what is before it can be pointed to from there.
RECURSIVE ParseName(_, _)
ParseName(packet, bytes) ==
  LET label == Octets(bytes, << 1, 1 + bytes[1] >>)
      rest == ParseName(packet, Beyond(bytes, 1 + bytes[1]))
      ptr == (256 * (bytes[1] % 64)) + bytes[2]
  IN  IF bytes = << >> THEN Err
      ELSE IF bytes[1] = 0 THEN Ok(<< >>)
      ELSE IF IsLabel(bytes[1])
        THEN IF Len(bytes) < 1 + bytes[1] \/ ~ rest.ok THEN Err ELSE Ok(<< label >> \o rest.repr)
      ELSE IF ~ IsPointer(bytes[1]) \/ Len(bytes) < 2 \/ Len(packet) <= ptr THEN Err
      ELSE ParseName(SubSeq(packet, 1, ptr), Beyond(packet, ptr))

\* parse_name_part(): what follows a name, which ends with a pointer or with a zero.
RECURSIVE ParseNamePart(_)
ParseNamePart(bytes) ==
  IF bytes = << >> THEN Err
  ELSE IF bytes[1] = 0 THEN Ok(Beyond(bytes, 1))
  ELSE IF IsLabel(bytes[1])
    THEN IF Len(bytes) < 1 + bytes[1] THEN Err ELSE ParseNamePart(Beyond(bytes, 1 + bytes[1]))
  ELSE IF ~ IsPointer(bytes[1]) \/ Len(bytes) < 2 THEN Err
  ELSE Ok(Beyond(bytes, 2))

QuestionParse(buffer) ==
  LET part == ParseNamePart(buffer)
      rest == part.repr
  IN  IF ~ part.ok THEN Err
      ELSE IF Len(rest) < 4 \/ Num(rest, << 2, 4 >>) # DnsClassIn THEN Err
      ELSE Ok([name |-> SubSeq(buffer, 1, Len(buffer) - Len(rest)), type |-> Num(rest, << 0, 2 >>), rest |-> Beyond(rest, 4)])

\* Record::parse() and RecordData::parse().
RecordParse(buffer) ==
  LET part == ParseNamePart(buffer)
      rest == part.repr
      type == Num(rest, << 0, 2 >>)
      len == Num(rest, << 8, 10 >>)
      data == Octets(rest, << 10, 10 + len >>)
  IN  IF ~ part.ok THEN Err
      ELSE IF Len(rest) < 10 \/ Num(rest, << 2, 4 >>) # DnsClassIn \/ Len(rest) < 10 + len THEN Err
      ELSE IF (type = DnsType.A /\ len # 4) \/ (type = DnsType.Aaaa /\ len # 16) THEN Err
      ELSE Ok([name |-> SubSeq(buffer, 1, Len(buffer) - Len(rest)), type |-> type, ttl |-> Octets(rest, << 4, 8 >>),
               data |-> data, rest |-> Beyond(rest, 10 + len)])

\* The getters of a packet, and its question.
DnsParse(b) ==
  LET question == QuestionParse(Beyond(b, DnsField.HEADER_END))
  IN  IF Len(b) < DnsField.HEADER_END THEN Err
      ELSE IF ~ question.ok THEN Err
      ELSE Ok([transaction_id |-> Num(b, DnsField.ID), opcode |-> Bits(b, DnsField.FLAGS, 11, 4),
               flags |-> {bit \in Range(DnsFlagBits) : Flag(b, DnsField.FLAGS, bit)}, rcode |-> Bits(b, DnsField.FLAGS, 0, 4),
               counts |-> << Num(b, DnsField.QDCOUNT), Num(b, DnsField.ANCOUNT), Num(b, DnsField.NSCOUNT), Num(b, DnsField.ARCOUNT) >>,
               name |-> question.repr.name, type |-> question.repr.type])

DnsBufferLen(repr) == DnsField.HEADER_END + Len(repr.name) + 4

\* set_flags() and set_opcode() leave bits 14, 6 and 3 to 0 as they are.
DnsSetFlags(repr) ==
  [i \in DOMAIN DnsFlagBits |-> PutFlag(DnsField.FLAGS, DnsFlagBits[i], DnsFlagBits[i] \in repr.flags)]
  \o << PutBits(DnsField.FLAGS, 11, 3, repr.opcode) >>

DnsEmit(b, repr) ==
  LET F == DnsField
      past == F.HEADER_END + Len(repr.name)
  IN  Emitted(b, << Put(F.ID, repr.transaction_id) >> \o DnsSetFlags(repr)
                 \o << Put(F.QDCOUNT, 1), Put(F.ANCOUNT, 0), Put(F.NSCOUNT, 0), Put(F.ARCOUNT, 0),
                       Copy(F.HEADER_END, repr.name), Put(<< past, past + 2 >>, repr.type),
                       Put(<< past + 2, past + 4 >>, DnsClassIn) >>)

-----------------------------------------------------------------------------
(* Answers: a server's, with names that point to earlier ones, and what    *)
(* the socket makes of them.                                               *)

\* copy_name(): a name without pointers.
CopyName(labels) == FlattenSeq([i \in DOMAIN labels |-> << Len(labels[i]) >> \o labels[i]]) \o << 0 >>

\* eq_names() of two names that are well formed.
EqNames(packet, name, other) == ParseName(packet, name).ok /\ ParseName(packet, name) = ParseName(packet, other)

\* The records of a response, in the order in which process() reads them.
RECURSIVE AnswerRecords(_, _)
AnswerRecords(payload, count) ==
  LET record == RecordParse(payload)
  IN  IF count = 0 THEN << >> ELSE IF ~ record.ok THEN << >>
      ELSE << record.repr >> \o AnswerRecords(record.repr.rest, count - 1)

\* The loop of process(): addresses of the name that is asked for, which a CNAME
\* record replaces by its target.
AnswersFor(b, name) ==
  LET records == AnswerRecords(QuestionParse(Beyond(b, DnsField.HEADER_END)).repr.rest, Num(b, DnsField.ANCOUNT))
      take(st, record) ==
        IF ~ EqNames(b, record.name, st.name) THEN st
        ELSE IF record.type = DnsType.Cname THEN [st EXCEPT !.name = CopyName(ParseName(b, record.data).repr)]
        ELSE IF record.type \in {DnsType.A, DnsType.Aaaa} THEN [st EXCEPT !.addresses = Append(@, record.data)]
        ELSE st
  IN  FoldLeft(take, [name |-> name, addresses |-> << >>], records)

\* A server (external) writes a name: the labels up to one from which on the rest
\* is written already, then a pointer to that.
EncodeName(message, labels) ==
  LET places(i) == {at \in 0 .. (Len(message) - 1) :
                      ParseName(SubSeq(message, 1, at), Beyond(message, at)) = Ok(SubSeq(labels, i, Len(labels)))}
      known == {i \in DOMAIN labels : places(i) # {}}
      first == CHOOSE i \in known : \A j \in known : i <= j
      at == CHOOSE p \in places(first) : \A q \in places(first) : p <= q
  IN  IF known = {} THEN CopyName(labels)
      ELSE FlattenSeq([i \in 1 .. (first - 1) |-> << Len(labels[i]) >> \o labels[i]]) \o << 192 + (at \div 256), at % 256 >>

\* The response (external): records are [name, type, data], a CNAME's data are labels.
DnsAnswer(repr) ==
  LET sized(data) == BigEndian(Len(data), 2) \o data
      valued(message, record) ==
        message \o sized(IF record.type = DnsType.Cname THEN EncodeName(message \o << 0, 0 >>, record.data) ELSE record.data)
      add(message, record) ==
        valued(message \o EncodeName(message, record.name) \o BigEndian(record.type, 2) \o << 0, DnsClassIn, 0, 0, 1, 44 >>, record)
  IN  FoldLeft(add, BigEndian(repr.transaction_id, 2) \o << 129, 128, 0, 1 >> \o BigEndian(Len(repr.records), 2) \o Zeros(4)
                    \o CopyName(repr.labels) \o BigEndian(repr.type, 2) \o << 0, DnsClassIn >>, repr.records)

=============================================================================
