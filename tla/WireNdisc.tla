------------------------------ MODULE WireNdisc -----------------------------
(***************************************************************************)
(* Neighbor discovery and multicast listener discovery: wire/ndisc.rs,     *)
(* wire/ndiscoption.rs and wire/mld.rs, on top of the fields of ICMPv6.    *)
(* A duration is in the unit of its field.                                 *)
(***************************************************************************)
EXTENDS WireIp

Icmpv6Message ==
  [DstUnreachable |-> 1, PktTooBig |-> 2, TimeExceeded |-> 3, ParamProblem |-> 4, EchoRequest |-> 128,
   EchoReply |-> 129, MldQuery |-> 130, RouterSolicit |-> 133, RouterAdvert |-> 134,
   NeighborSolicit |-> 135, NeighborAdvert |-> 136, Redirect |-> 137, MldReport |-> 143, RplControl |-> 155]

Icmpv6Field ==
  [TYPE |-> One(0), CODE |-> One(1), CHECKSUM |-> << 2, 4 >>,
   UNUSED |-> << 4, 8 >>, MTU |-> << 4, 8 >>, POINTER |-> << 4, 8 >>,
   ECHO_IDENT |-> << 4, 6 >>, ECHO_SEQNO |-> << 6, 8 >>, HEADER_END |-> 8,
   CUR_HOP_LIMIT |-> One(4), ROUTER_FLAGS |-> One(5), ROUTER_LT |-> << 6, 8 >>,
   REACHABLE_TM |-> << 8, 12 >>, RETRANS_TM |-> << 12, 16 >>, TARGET_ADDR |-> << 8, 24 >>,
   NEIGH_FLAGS |-> One(4), DEST_ADDR |-> << 24, 40 >>,
   MAX_RESP_CODE |-> << 4, 6 >>, QUERY_RESV |-> << 6, 8 >>, QUERY_MCAST_ADDR |-> << 8, 24 >>,
   SQRV |-> One(24), QQIC |-> One(25), QUERY_NUM_SRCS |-> << 26, 28 >>,
   RECORD_RESV |-> << 4, 6 >>, NR_MCAST_RCRDS |-> << 6, 8 >>,
   RECORD_TYPE |-> One(0), AUX_DATA_LEN |-> One(1), RECORD_NUM_SRCS |-> << 2, 4 >>, RECORD_MCAST_ADDR |-> << 4, 20 >>]

Icmpv6Type(b) == Num(b, Icmpv6Field.TYPE)

\* header_len().
Icmpv6HeaderLen(type) ==
  LET M == Icmpv6Message
  IN  CASE type \in {M.DstUnreachable, M.PktTooBig, M.TimeExceeded, M.ParamProblem, M.EchoRequest,
                     M.EchoReply, M.RouterSolicit, M.MldReport} -> Icmpv6Field.HEADER_END
        [] type = M.RouterAdvert -> Icmpv6Field.RETRANS_TM[2]
        [] type \in {M.NeighborSolicit, M.NeighborAdvert} -> Icmpv6Field.TARGET_ADDR[2]
        [] type = M.Redirect -> Icmpv6Field.DEST_ADDR[2]
        [] type = M.MldQuery -> Icmpv6Field.QUERY_NUM_SRCS[2]
        [] OTHER -> Icmpv6Field.CHECKSUM[2]

Icmpv6Payload(b) == Beyond(b, Icmpv6HeaderLen(Icmpv6Type(b)))

\* set_msg_type() and set_msg_code(), of a message without codes.
Icmpv6SetType(type) == << Put(Icmpv6Field.TYPE, type), Put(Icmpv6Field.CODE, 0) >>

\* Mutant of ClearReserved: messages of neighbor discovery are forgotten.
ClearReservedMld(type) ==
  IF type = Icmpv6Message.MldQuery
    THEN << Put(Icmpv6Field.QUERY_RESV, 0), PutBits(Icmpv6Field.SQRV, 4, 4, 0) >>
  ELSE IF type = Icmpv6Message.MldReport THEN << Put(Icmpv6Field.RECORD_RESV, 0) >>
  ELSE << >>

\* clear_reserved().
ClearReserved(type) ==
  IF type = Icmpv6Message.MldQuery
    THEN << Put(Icmpv6Field.QUERY_RESV, 0), PutBits(Icmpv6Field.SQRV, 4, 4, 0) >>
  ELSE IF type = Icmpv6Message.MldReport THEN << Put(Icmpv6Field.RECORD_RESV, 0) >>
  ELSE << Copy(Icmpv6Field.UNUSED[1], Zeros(4)) >>

-----------------------------------------------------------------------------
(* Options.                                                                *)

NdiscOptionType ==
  [SourceLinkLayerAddr |-> 1, TargetLinkLayerAddr |-> 2, PrefixInformation |-> 3, RedirectedHeader |-> 4, Mtu |-> 5]

NdiscOptionField ==
  [TYPE |-> One(0), LENGTH |-> One(1), MIN_OPT_LEN |-> 8, PREFIX_LEN |-> One(2), FLAGS |-> One(3),
   VALID_LT |-> << 4, 8 >>, PREF_LT |-> << 8, 12 >>, PREF_RESERVED |-> << 12, 16 >>, PREFIX |-> << 16, 32 >>,
   REDIRECTED_RESERVED |-> << 2, 8 >>, REDIR_MIN_SZ |-> 48, MTU |-> << 4, 8 >>]

MaxHardwareAddressLen == 8

NdiscOption(type, value) == [type |-> type, value |-> value]

\* new_checked(): a data length of 0 is invalid.
NdiscOptionCheckLen(b) ==
  LET end == 8 * Num(b, NdiscOptionField.LENGTH)
  IN  /\ Len(b) >= NdiscOptionField.MIN_OPT_LEN /\ Len(b) >= end /\ end > 0
      /\ b[1] = NdiscOptionType.PrefixInformation => end >= NdiscOptionField.PREFIX[2]
      /\ b[1] = NdiscOptionType.RedirectedHeader => end >= NdiscOptionField.REDIR_MIN_SZ

NdiscOptionPacket(b) ==
  LET end == 8 * b[2]
      F == NdiscOptionField
  IN  [option_type |-> b[1], data_len |-> b[2],
       link_layer_addr |-> SubSeq(b, 3, IF end < MaxHardwareAddressLen + 2 THEN end ELSE MaxHardwareAddressLen + 2),
       mtu |-> Octets(b, F.MTU), data |-> Octets(b, << 2, end >>),
       prefix_info |-> [prefix_len |-> Num(b, F.PREFIX_LEN), flags |-> 64 * Bits(b, F.FLAGS, 6, 2),
                        valid_lifetime |-> Octets(b, F.VALID_LT), preferred_lifetime |-> Octets(b, F.PREF_LT),
                        prefix |-> Octets(b, F.PREFIX)]]

\* parse() of the packet in a redirected header, where data_len is long enough.
NdiscRedirected(data) ==
  LET packet == Ipv6Parse(Beyond(data, 6)) IN IF packet.ok THEN << packet.repr >> ELSE << >>

\* The value of an option; there is none if it does not parse.
NdiscOptionValue(opt) ==
  LET when(test, values) == IF test THEN values ELSE << >>
      T == NdiscOptionType
  IN  CASE opt.option_type \in {T.SourceLinkLayerAddr, T.TargetLinkLayerAddr} -> << opt.link_layer_addr >>
        [] opt.option_type = T.PrefixInformation -> when(opt.data_len = 4, << opt.prefix_info >>)
        [] opt.option_type = T.RedirectedHeader -> when(opt.data_len >= 6, NdiscRedirected(opt.data))
        [] opt.option_type = T.Mtu -> when(opt.data_len = 1, << opt.mtu >>)
        [] OTHER -> << opt.data >>

\* parse(): the option, if it parses.
NdiscOptionParse(b) ==
  LET value == NdiscOptionValue(NdiscOptionPacket(b)) IN [i \in DOMAIN value |-> NdiscOption(b[1], value[i])]

NdiscOptionBufferLen(option) ==
  LET T == NdiscOptionType
  IN  CASE option.type \in {T.SourceLinkLayerAddr, T.TargetLinkLayerAddr} -> RoundUp(2 + Len(option.value), 8)
        [] option.type = T.PrefixInformation -> NdiscOptionField.PREFIX[2]
        [] option.type = T.RedirectedHeader -> RoundUp(8 + Ipv6BufferLen(option.value), 8)
        [] option.type = T.Mtu -> NdiscOptionField.MTU[2]

NdiscOptionSetters(option) ==
  LET F == NdiscOptionField
      T == NdiscOptionType
      v == option.value
      head == << Put(F.TYPE, option.type), Put(F.LENGTH, NdiscOptionBufferLen(option) \div 8) >>
  IN  CASE option.type \in {T.SourceLinkLayerAddr, T.TargetLinkLayerAddr} -> head \o << Copy(2, v) >>
        [] option.type = T.PrefixInformation ->
             << Copy(F.PREF_RESERVED[1], Zeros(4)) >> \o head
             \o << Put(F.PREFIX_LEN, v.prefix_len), Put(F.FLAGS, v.flags), Copy(F.VALID_LT[1], v.valid_lifetime),
                   Copy(F.PREF_LT[1], v.preferred_lifetime), Copy(F.PREFIX[1], v.prefix) >>
        [] option.type = T.RedirectedHeader -> << Copy(F.REDIRECTED_RESERVED[1], Zeros(6)) >> \o head
        [] option.type = T.Mtu -> head \o << Copy(F.MTU[1], v) >>

NdiscOptionEmit(b, option) ==
  LET header == Emitted(b, NdiscOptionSetters(option))
      packet(d) == Ipv6Emit(d, option.value)
  IN  IF option.type = NdiscOptionType.RedirectedHeader
        THEN Within(header, NdiscOptionField.REDIRECTED_RESERVED[2], packet) ELSE header

-----------------------------------------------------------------------------
(* Messages.                                                               *)

\* The options in the payload, in order; << >> and not ok when one is too short.
NdiscOptions(payload) ==
  LET after[i \in 0 .. (Len(payload) \div 8) + 1] ==
        LET st == after[i - 1]
        IN  IF i = 0 THEN [ok |-> TRUE, left |-> payload, options |-> << >>]
            ELSE IF ~ st.ok \/ st.left = << >> THEN st
            ELSE IF ~ NdiscOptionCheckLen(st.left) THEN [st EXCEPT !.ok = FALSE]
            ELSE [st EXCEPT !.left = Beyond(@, 8 * st.left[2]), !.options = @ \o NdiscOptionParse(st.left)]
  IN  after[(Len(payload) \div 8) + 1]

\* The last option of a type, if any.
LastOption(options, type) ==
  LET found == SelectSeq(options, LAMBDA o : o.type = type)
  IN  IF found = << >> THEN << >> ELSE << Last(found).value >>

NdiscMessage(b, type, options) ==
  LET F == Icmpv6Field
      option(t) == LastOption(options, t)
      source == option(NdiscOptionType.SourceLinkLayerAddr)
  IN  CASE type = Icmpv6Message.RouterSolicit -> [type |-> type, lladdr |-> source]
        [] type = Icmpv6Message.RouterAdvert ->
             [type |-> type, hop_limit |-> Num(b, F.CUR_HOP_LIMIT), flags |-> 64 * Bits(b, F.ROUTER_FLAGS, 6, 2),
              router_lifetime |-> Num(b, F.ROUTER_LT), reachable_time |-> Octets(b, F.REACHABLE_TM),
              retrans_time |-> Octets(b, F.RETRANS_TM), lladdr |-> source,
              mtu |-> option(NdiscOptionType.Mtu), prefix_info |-> option(NdiscOptionType.PrefixInformation)]
        [] type = Icmpv6Message.NeighborSolicit ->
             [type |-> type, target_addr |-> Octets(b, F.TARGET_ADDR), lladdr |-> source]
        [] type = Icmpv6Message.NeighborAdvert ->
             [type |-> type, flags |-> 32 * Bits(b, F.NEIGH_FLAGS, 5, 3),
              target_addr |-> Octets(b, F.TARGET_ADDR), lladdr |-> option(NdiscOptionType.TargetLinkLayerAddr)]
        [] type = Icmpv6Message.Redirect ->
             [type |-> type, target_addr |-> Octets(b, F.TARGET_ADDR), dest_addr |-> Octets(b, F.DEST_ADDR),
              lladdr |-> source, redirected_hdr |-> option(NdiscOptionType.RedirectedHeader)]

NdiscParse(b) ==
  LET all == NdiscOptions(Icmpv6Payload(b))
  IN  IF all.ok THEN Ok(NdiscMessage(b, Icmpv6Type(b), all.options)) ELSE Err

\* The options that are sent with a message, in order.
NdiscOptionsOf(repr) ==
  LET T == NdiscOptionType
      all(type, values) == [i \in DOMAIN values |-> NdiscOption(type, values[i])]
      lladdr == all(IF repr.type \in {Icmpv6Message.NeighborAdvert, Icmpv6Message.Redirect}
                      THEN T.TargetLinkLayerAddr ELSE T.SourceLinkLayerAddr, repr.lladdr)
  IN  CASE repr.type = Icmpv6Message.RouterAdvert ->
             lladdr \o all(T.Mtu, repr.mtu) \o all(T.PrefixInformation, repr.prefix_info)
        [] repr.type = Icmpv6Message.Redirect -> lladdr \o all(T.RedirectedHeader, repr.redirected_hdr)
        [] OTHER -> lladdr

NdiscBufferLen(repr) ==
  LET options == NdiscOptionsOf(repr)
  IN  Icmpv6HeaderLen(repr.type) + Total([i \in DOMAIN options |-> NdiscOptionBufferLen(options[i])])

NdiscSetters(repr) ==
  LET F == Icmpv6Field
      clear == Icmpv6SetType(repr.type) \o ClearReserved(repr.type)
      target == << Copy(F.TARGET_ADDR[1], repr.target_addr) >>
  IN  CASE repr.type = Icmpv6Message.RouterSolicit -> clear
        [] repr.type = Icmpv6Message.RouterAdvert ->
             Icmpv6SetType(repr.type)
             \o << Put(F.CUR_HOP_LIMIT, repr.hop_limit), Put(F.ROUTER_FLAGS, repr.flags),
                   Put(F.ROUTER_LT, repr.router_lifetime), Copy(F.REACHABLE_TM[1], repr.reachable_time),
                   Copy(F.RETRANS_TM[1], repr.retrans_time) >>
        [] repr.type = Icmpv6Message.NeighborSolicit -> clear \o target
        [] repr.type = Icmpv6Message.NeighborAdvert -> clear \o << Put(F.NEIGH_FLAGS, repr.flags) >> \o target
        [] repr.type = Icmpv6Message.Redirect -> clear \o target \o << Copy(F.DEST_ADDR[1], repr.dest_addr) >>

NdiscEmit(b, repr) ==
  LET emit(st, option) ==
        LET one(d) == NdiscOptionEmit(d, option)
        IN  [b |-> Within(st.b, st.at, one), at |-> st.at + NdiscOptionBufferLen(option)]
  IN  FoldLeft(emit, [b |-> Emitted(b, NdiscSetters(repr)), at |-> Icmpv6HeaderLen(repr.type)],
               NdiscOptionsOf(repr)).b

-----------------------------------------------------------------------------
(* Multicast listener discovery.                                           *)

AddressRecordEmit(record) ==
  << record.record_type, record.aux_data_len >> \o BigEndian(record.num_srcs, 2) \o record.mcast_addr

MldParse(b) ==
  LET F == Icmpv6Field
      type == Icmpv6Type(b)
  IN  IF type = Icmpv6Message.MldQuery
        THEN Ok([type |-> type, max_resp_code |-> Num(b, F.MAX_RESP_CODE), mcast_addr |-> Octets(b, F.QUERY_MCAST_ADDR),
                 s_flag |-> Flag(b, F.SQRV, 3), qrv |-> Bits(b, F.SQRV, 0, 3), qqic |-> Num(b, F.QQIC),
                 num_srcs |-> Num(b, F.QUERY_NUM_SRCS), data |-> Icmpv6Payload(b)])
        ELSE Ok([type |-> type, nr_mcast_addr_rcrds |-> Num(b, F.NR_MCAST_RCRDS), data |-> Icmpv6Payload(b)])

\* The records of a ReportRecordReprs are not counted by buffer_len(); the
\* interface adds them.
MldBufferLen(repr) ==
  Icmpv6HeaderLen(repr.type)
  + (IF "records" \in DOMAIN repr THEN Icmpv6Field.RECORD_MCAST_ADDR[2] * Len(repr.records) ELSE Len(repr.data))

MldSetters(repr) ==
  LET F == Icmpv6Field
      clear == Icmpv6SetType(repr.type) \o ClearReserved(repr.type)
  IN  IF repr.type = Icmpv6Message.MldQuery
        THEN clear \o << Put(F.MAX_RESP_CODE, repr.max_resp_code), Copy(F.QUERY_MCAST_ADDR[1], repr.mcast_addr),
                         PutBits(F.SQRV, 3, 5, IF repr.s_flag THEN 1 ELSE 0), PutBits(F.SQRV, 4, 4, 0),
                         PutBits(F.SQRV, 0, 3, repr.qrv), Put(F.QQIC, repr.qqic), Put(F.QUERY_NUM_SRCS, repr.num_srcs),
                         Copy(F.QUERY_NUM_SRCS[2], repr.data) >>
      ELSE IF "records" \in DOMAIN repr
        THEN clear \o << Put(F.NR_MCAST_RCRDS, Len(repr.records)),
                         Copy(F.HEADER_END, FlattenSeq([i \in DOMAIN repr.records |-> AddressRecordEmit(repr.records[i])])) >>
        ELSE clear \o << Put(F.NR_MCAST_RCRDS, repr.nr_mcast_addr_rcrds), Copy(F.HEADER_END, repr.data) >>

=============================================================================
