------------------------------- MODULE WireExt ------------------------------
(***************************************************************************)
(* IPv6 extension headers: wire/ipv6ext_header.rs, ipv6fragment.rs,        *)
(* ipv6option.rs, ipv6hbh.rs and ipv6routing.rs, and the IPsec headers of  *)
(* wire/ipsec_ah.rs and ipsec_esp.rs.                                      *)
(***************************************************************************)
EXTENDS WireRpl

CONSTANT HbhMaxOptions     \* IPV6_HBH_MAX_OPTIONS

-----------------------------------------------------------------------------
(* What every extension header begins with.                                *)

ExtField == [MIN_HEADER_SIZE |-> 8, NXT_HDR |-> One(0), LENGTH |-> One(1)]

ExtPayload(length) == << 2, (8 * length) + 8 >>

ExtCheckLen(b) == Len(b) >= ExtField.MIN_HEADER_SIZE /\ Len(b) >= ExtPayload(Num(b, ExtField.LENGTH))[2]

ExtParse(b) ==
  IF ~ ExtCheckLen(b) THEN Err
  ELSE Ok([next_header |-> Num(b, ExtField.NXT_HDR), length |-> Num(b, ExtField.LENGTH),
           data |-> Octets(b, ExtPayload(Num(b, ExtField.LENGTH)))])

\* The header, and the data that the caller puts behind it.
ExtEmit(b, repr) ==
  Emitted(b, << Put(ExtField.NXT_HDR, repr.next_header), Put(ExtField.LENGTH, repr.length), Copy(2, repr.data) >>)

-----------------------------------------------------------------------------
(* Fragment headers.                                                       *)

FragmentField == [FR_OF_M |-> << 0, 2 >>, IDENT |-> << 2, 6 >>]

FragmentParse(b) ==
  IF Len(b) < FragmentField.IDENT[2] THEN Err
  ELSE Ok([frag_offset |-> Bits(b, FragmentField.FR_OF_M, 3, 13), more_frags |-> Flag(b, FragmentField.FR_OF_M, 0),
           ident |-> Octets(b, FragmentField.IDENT)])

\* clear_reserved() and the setters.
FragmentEmit(b, repr) ==
  Emitted(b, << PutBits(FragmentField.FR_OF_M, 1, 2, 0), PutBits(FragmentField.FR_OF_M, 3, 13, repr.frag_offset),
                PutFlag(FragmentField.FR_OF_M, 0, repr.more_frags), Copy(FragmentField.IDENT[1], repr.ident) >>)

-----------------------------------------------------------------------------
(* Options.                                                                *)

Ipv6OptionType == [Pad1 |-> 0, PadN |-> 1, RouterAlert |-> 5, Rpl |-> 99]

Ipv6OptionField == [TYPE |-> One(0), LENGTH |-> One(1)]

Ipv6OptionCheckLen(b) == Len(b) >= 1 /\ (b[1] = Ipv6OptionType.Pad1 \/ (Len(b) >= 2 /\ Len(b) >= 2 + b[2]))

Ipv6OptionParse(b) ==
  LET T == Ipv6OptionType
      data == Octets(b, << 2, 2 + b[2] >>)
      rpl == HopByHopOptionParse(data)
  IN  IF ~ Ipv6OptionCheckLen(b) THEN Err
      ELSE CASE b[1] = T.Pad1 -> Ok([type |-> T.Pad1])
             [] b[1] = T.PadN -> Ok([type |-> T.PadN, length |-> b[2]])
             [] b[1] = T.RouterAlert -> IF b[2] = 2 THEN Ok([type |-> T.RouterAlert, alert |-> Number(data)]) ELSE Err
             [] b[1] = T.Rpl -> IF rpl.ok THEN Ok([type |-> T.Rpl, rpl |-> rpl.repr]) ELSE Err
             [] OTHER -> Ok([type |-> b[1], length |-> b[2], data |-> data])

Ipv6OptionBufferLen(o) ==
  LET T == Ipv6OptionType
  IN  CASE o.type = T.Pad1 -> 1
        [] o.type = T.RouterAlert -> 2 + 2
        [] o.type = T.Rpl -> 2 + HopByHopOptionLen
        [] OTHER -> 2 + o.length

Ipv6OptionEmit(b, o) ==
  LET T == Ipv6OptionType
      head(length) == << Put(Ipv6OptionField.TYPE, o.type), Put(Ipv6OptionField.LENGTH, length) >>
      rpl(d) == HopByHopOptionEmit(d, o.rpl)
  IN  CASE o.type = T.Pad1 -> Emitted(b, << Put(Ipv6OptionField.TYPE, o.type) >>)
        [] o.type = T.PadN -> Emitted(b, head(o.length) \o << Copy(2, Zeros(o.length)) >>)
        [] o.type = T.RouterAlert -> Emitted(b, head(2) \o << Put(<< 2, 4 >>, o.alert) >>)
        [] o.type = T.Rpl -> Within(Emitted(b, head(4)), 2, rpl)
        [] OTHER -> Emitted(b, head(o.length) \o << Copy(2, o.data) >>)

\* Ipv6OptionsIterator: the options up to the first that does not parse.
Ipv6Options(octets) ==
  LET after[i \in 0 .. Len(octets)] ==
        LET st == after[i - 1]
            next == Ipv6OptionParse(st.left)
        IN  IF i = 0 THEN [ok |-> TRUE, left |-> octets, options |-> << >>]
            ELSE IF ~ st.ok \/ st.left = << >> THEN st
            ELSE IF ~ next.ok THEN [st EXCEPT !.ok = FALSE]
            ELSE [st EXCEPT !.left = Beyond(@, Ipv6OptionBufferLen(next.repr)), !.options = Append(@, next.repr)]
  IN  after[Len(octets)]

-----------------------------------------------------------------------------
(* Hop-by-hop headers.                                                     *)

\* parse(): once there is no room for an option the rest is not looked at.
HbhParse(b) ==
  LET found == Ipv6Options(b)
  IN  IF b = << >> \/ (~ found.ok /\ Len(found.options) <= HbhMaxOptions) THEN Err
      ELSE Ok([options |-> SubSeq(found.options, 1,
                                  IF Len(found.options) < HbhMaxOptions THEN Len(found.options) ELSE HbhMaxOptions)])

HbhBufferLen(repr) == Total([i \in DOMAIN repr.options |-> Ipv6OptionBufferLen(repr.options[i])])

HbhEmit(b, repr) ==
  LET emit(st, option) ==
        LET one(d) == Ipv6OptionEmit(d, option)
        IN  [b |-> Within(st.b, st.at, one), at |-> st.at + Ipv6OptionBufferLen(option)]
  IN  FoldLeft(emit, [b |-> b, at |-> 0], repr.options).b

\* mldv2_router_alert() with push_padn_option(0): what a report is sent with.
Mldv2RouterAlert == [options |-> << [type |-> Ipv6OptionType.RouterAlert, alert |-> 0], [type |-> Ipv6OptionType.PadN, length |-> 0] >>]

-----------------------------------------------------------------------------
(* Routing headers.                                                        *)

RoutingType == [Type2 |-> 2, Rpl |-> 3]

RoutingField ==
  [TYPE |-> One(0), SEG_LEFT |-> One(1), MIN_HEADER_SIZE |-> 2, HOME_ADDRESS |-> << 6, 22 >>,
   CMPR |-> One(2), PAD |-> One(3), ADDRESSES |-> 6]

RoutingCheckLen(b) ==
  /\ Len(b) >= RoutingField.MIN_HEADER_SIZE
  /\ b[1] = RoutingType.Type2 => Len(b) >= RoutingField.HOME_ADDRESS[2]
  /\ b[1] = RoutingType.Rpl => Len(b) >= RoutingField.ADDRESSES

RoutingParse(b) ==
  LET F == RoutingField
      head == [type |-> b[1], segments_left |-> b[2]]
  IN  IF ~ RoutingCheckLen(b) THEN Err
      ELSE CASE b[1] = RoutingType.Type2 -> Ok(head @@ [home_address |-> Octets(b, F.HOME_ADDRESS)])
             [] b[1] = RoutingType.Rpl ->
                  Ok(head @@ [cmpr_i |-> Bits(b, F.CMPR, 4, 4), cmpr_e |-> Bits(b, F.CMPR, 0, 4), pad |-> Bits(b, F.PAD, 4, 4),
                              addresses |-> Beyond(b, F.ADDRESSES)])
             [] OTHER -> Err

RoutingBufferLen(repr) == 6 + (IF repr.type = RoutingType.Type2 THEN Len(repr.home_address) ELSE Len(repr.addresses))

RoutingClearReserved(type) ==
  IF type = RoutingType.Type2 THEN << Copy(2, Zeros(4)) >>
  ELSE << PutBits(RoutingField.PAD, 0, 4, 0), Copy(4, Zeros(2)) >>

RoutingEmit(b, repr) ==
  LET F == RoutingField
      head == << Put(F.TYPE, repr.type), Put(F.SEG_LEFT, repr.segments_left) >>
  IN  IF repr.type = RoutingType.Type2
        THEN Emitted(b, head \o RoutingClearReserved(repr.type) \o << Copy(F.HOME_ADDRESS[1], repr.home_address) >>)
        ELSE Emitted(b, head \o << PutBits(F.CMPR, 4, 4, repr.cmpr_i), PutBits(F.CMPR, 0, 4, repr.cmpr_e), Put(F.PAD, 16 * repr.pad) >>
                             \o RoutingClearReserved(repr.type) \o << Copy(F.ADDRESSES, repr.addresses) >>)

-----------------------------------------------------------------------------
(* IPsec.                                                                  *)

AhField ==
  [NEXT_HEADER |-> One(0), PAYLOAD_LEN |-> One(1), RESERVED |-> << 2, 4 >>, SPI |-> << 4, 8 >>, SEQUENCE_NUMBER |-> << 8, 12 >>]

AhIcv(payload_len) == << AhField.SEQUENCE_NUMBER[2], (payload_len + 2) * 4 >>

AhCheckLen(b) ==
  /\ Len(b) >= AhField.SEQUENCE_NUMBER[2]
  /\ Len(b) >= AhIcv(Num(b, AhField.PAYLOAD_LEN))[2]

AhParse(b) ==
  IF ~ AhCheckLen(b) THEN Err
  ELSE Ok([next_header |-> Num(b, AhField.NEXT_HEADER), security_parameters_index |-> Octets(b, AhField.SPI),
           sequence_number |-> Octets(b, AhField.SEQUENCE_NUMBER),
           integrity_check_value |-> Octets(b, AhIcv(Num(b, AhField.PAYLOAD_LEN)))])

AhBufferLen(repr) == AhField.SEQUENCE_NUMBER[2] + Len(repr.integrity_check_value)

AhEmit(b, repr) ==
  Emitted(b, << Put(AhField.NEXT_HEADER, repr.next_header), Put(AhField.PAYLOAD_LEN, (AhBufferLen(repr) \div 4) - 2),
                Put(AhField.RESERVED, 0), Copy(AhField.SPI[1], repr.security_parameters_index),
                Copy(AhField.SEQUENCE_NUMBER[1], repr.sequence_number),
                Copy(AhField.SEQUENCE_NUMBER[2], repr.integrity_check_value) >>)

EspField == [SPI |-> << 0, 4 >>, SEQUENCE_NUMBER |-> << 4, 8 >>]

EspParse(b) ==
  IF Len(b) < EspField.SEQUENCE_NUMBER[2] THEN Err
  ELSE Ok([security_parameters_index |-> Octets(b, EspField.SPI), sequence_number |-> Octets(b, EspField.SEQUENCE_NUMBER)])

EspEmit(b, repr) ==
  Emitted(b, << Copy(EspField.SPI[1], repr.security_parameters_index), Copy(EspField.SEQUENCE_NUMBER[1], repr.sequence_number) >>)

=============================================================================
