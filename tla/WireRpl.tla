------------------------------- MODULE WireRpl ------------------------------
(***************************************************************************)
(* RPL: the control messages, which are ICMPv6 messages, their options and *)
(* the option in the hop-by-hop header.  From wire/rpl.rs.                 *)
(***************************************************************************)
EXTENDS WireNdisc

\* InstanceId, from and to an octet.
InstanceIdFrom(octet) == [local |-> octet >= 128, id |-> octet % 128]

InstanceIdInto(instance) == (IF instance.local THEN 128 ELSE 0) + instance.id

RplControlMessage ==
  [DodagInformationSolicitation |-> 0, DodagInformationObject |-> 1, DestinationAdvertisementObject |-> 2,
   DestinationAdvertisementObjectAck |-> 3]

RplField ==
  [RPL_INSTANCE_ID |-> One(4), DIS_FLAGS |-> One(4), DIS_RESERVED |-> One(5),
   DIO_VERSION_NUMBER |-> One(5), DIO_RANK |-> << 6, 8 >>, DIO_GROUNDED |-> One(8), DIO_MOP |-> One(8),
   DIO_PRF |-> One(8), DIO_DTSN |-> One(9), DIO_DODAG_ID |-> << 12, 28 >>,
   DAO_K |-> One(5), DAO_D |-> One(5), DAO_SEQUENCE |-> One(7), DAO_DODAG_ID |-> << 8, 24 >>,
   DAO_ACK_D |-> One(5), DAO_ACK_SEQUENCE |-> One(6), DAO_ACK_STATUS |-> One(7), DAO_ACK_DODAG_ID |-> << 8, 24 >>]

RplCode(b) == Num(b, Icmpv6Field.CODE)

-----------------------------------------------------------------------------
(* DODAG information objects.                                              *)

DioPacket(b) ==
  [version_number |-> Num(b, RplField.DIO_VERSION_NUMBER), rank |-> Num(b, RplField.DIO_RANK),
   grounded |-> Flag(b, RplField.DIO_GROUNDED, 7), mode_of_operation |-> Bits(b, RplField.DIO_MOP, 3, 3),
   dodag_preference |-> Bits(b, RplField.DIO_PRF, 0, 3), dtsn |-> Num(b, RplField.DIO_DTSN),
   dodag_id |-> Octets(b, RplField.DIO_DODAG_ID)]

DioSetters(repr) ==
  << Put(RplField.DIO_VERSION_NUMBER, repr.version_number), Put(RplField.DIO_RANK, repr.rank),
     PutFlag(RplField.DIO_GROUNDED, 7, repr.grounded), PutBits(RplField.DIO_MOP, 3, 3, repr.mode_of_operation),
     PutBits(RplField.DIO_PRF, 0, 3, repr.dodag_preference), Put(RplField.DIO_DTSN, repr.dtsn),
     Copy(RplField.DIO_DODAG_ID[1], repr.dodag_id) >>

-----------------------------------------------------------------------------
(* Destination advertisement objects.                                      *)

DaoDodagIdPresent(b) == Flag(b, RplField.DAO_D, 6)

DaoPacket(b) ==
  [expect_ack |-> Flag(b, RplField.DAO_K, 7), sequence |-> Num(b, RplField.DAO_SEQUENCE),
   dodag_id |-> IF DaoDodagIdPresent(b) THEN << Octets(b, RplField.DAO_DODAG_ID) >> ELSE << >>]

\* The address, if any, and the flag that tells.
SetDodagId(address, field, flag, bit) ==
  [i \in DOMAIN address |-> Copy(field[1], address[i])] \o << PutFlag(flag, bit, address # << >>) >>

DaoSetters(repr) ==
  << PutFlag(RplField.DAO_K, 7, repr.expect_ack), Put(RplField.DAO_SEQUENCE, repr.sequence) >>
  \o SetDodagId(repr.dodag_id, RplField.DAO_DODAG_ID, RplField.DAO_D, 6)

DaoAckDodagIdPresent(b) == Flag(b, RplField.DAO_ACK_D, 7)

DaoAckPacket(b) ==
  [sequence |-> Num(b, RplField.DAO_ACK_SEQUENCE), status |-> Num(b, RplField.DAO_ACK_STATUS),
   dodag_id |-> IF DaoAckDodagIdPresent(b) THEN << Octets(b, RplField.DAO_ACK_DODAG_ID) >> ELSE << >>]

DaoAckSetters(repr) ==
  << Put(RplField.DAO_ACK_SEQUENCE, repr.sequence), Put(RplField.DAO_ACK_STATUS, repr.status) >>
  \o SetDodagId(repr.dodag_id, RplField.DAO_ACK_DODAG_ID, RplField.DAO_ACK_D, 7)

-----------------------------------------------------------------------------
(* Control messages.                                                       *)

\* check_len() of ICMPv6 packets, for these messages.  An acknowledgement is
\* asked for the flag of an advertisement.
RplCheckLen(b) ==
  LET M == RplControlMessage
  IN  \/ RplCode(b) = M.DodagInformationSolicitation /\ Len(b) >= 6
      \/ RplCode(b) = M.DodagInformationObject /\ Len(b) >= 28
      \/ /\ RplCode(b) \in {M.DestinationAdvertisementObject, M.DestinationAdvertisementObjectAck}
         /\ Len(b) >= 8 /\ (DaoDodagIdPresent(b) => Len(b) >= 24)

\* The offset of options() and options_mut().
RplOptionsStart(b) ==
  LET M == RplControlMessage
  IN  CASE RplCode(b) = M.DodagInformationSolicitation -> RplField.DIS_RESERVED[2]
        [] RplCode(b) = M.DodagInformationObject -> RplField.DIO_DODAG_ID[2]
        [] RplCode(b) = M.DestinationAdvertisementObject ->
             IF DaoDodagIdPresent(b) THEN RplField.DAO_DODAG_ID[2] ELSE RplField.DAO_SEQUENCE[2]
        [] RplCode(b) = M.DestinationAdvertisementObjectAck ->
             IF DaoAckDodagIdPresent(b) THEN RplField.DAO_ACK_DODAG_ID[2] ELSE RplField.DAO_ACK_STATUS[2]

RplParse(b) ==
  LET M == RplControlMessage
      head == [type |-> Icmpv6Message.RplControl, code |-> RplCode(b)]
      options == [options |-> Beyond(b, RplOptionsStart(b))]
      instance == [rpl_instance_id |-> InstanceIdFrom(Num(b, RplField.RPL_INSTANCE_ID))]
  IN  IF Len(b) < RplOptionsStart(b) THEN Err
      ELSE CASE RplCode(b) = M.DodagInformationSolicitation -> Ok(head @@ options)
             [] RplCode(b) = M.DodagInformationObject -> Ok(head @@ instance @@ DioPacket(b) @@ options)
             [] RplCode(b) = M.DestinationAdvertisementObject -> Ok(head @@ instance @@ DaoPacket(b) @@ options)
             [] RplCode(b) = M.DestinationAdvertisementObjectAck -> Ok(head @@ instance @@ DaoAckPacket(b))

RplOptionsOf(repr) ==
  IF repr.code = RplControlMessage.DestinationAdvertisementObjectAck THEN << >> ELSE repr.options

RplBufferLen(repr) ==
  LET M == RplControlMessage
  IN  4 + Len(RplOptionsOf(repr))
      + (CASE repr.code = M.DodagInformationSolicitation -> 2
           [] repr.code = M.DodagInformationObject -> 24
           [] OTHER -> IF repr.dodag_id # << >> THEN 20 ELSE 4)

RplEmit(b, repr) ==
  LET M == RplControlMessage
      head == << Put(Icmpv6Field.TYPE, Icmpv6Message.RplControl), Put(Icmpv6Field.CODE, repr.code) >>
      instance == << Put(RplField.RPL_INSTANCE_ID, InstanceIdInto(repr.rpl_instance_id)) >>
      body == CASE repr.code = M.DodagInformationSolicitation ->
                     << Put(RplField.DIS_FLAGS, 0), Put(RplField.DIS_RESERVED, 0) >>
                [] repr.code = M.DodagInformationObject -> instance \o DioSetters(repr)
                [] repr.code = M.DestinationAdvertisementObject -> instance \o DaoSetters(repr)
                [] repr.code = M.DestinationAdvertisementObjectAck -> instance \o DaoAckSetters(repr)
      message == Emitted(b, head \o body)
  IN  Copied(message, RplOptionsStart(message), RplOptionsOf(repr))

-----------------------------------------------------------------------------
(* Options.  RouteInformation and DagMetricContainer cannot be emitted:    *)
(* their setters are todo!().                                              *)

RplOptionType ==
  [Pad1 |-> 0, PadN |-> 1, DodagConfiguration |-> 4, RplTarget |-> 5, TransitInformation |-> 6,
   SolicitedInformation |-> 7, PrefixInformation |-> 8, RplTargetDescriptor |-> 9]

RplOptionField ==
  [TYPE |-> One(0), LENGTH |-> One(1), PADN |-> 2,
   DODAG_CONF_FLAGS |-> One(2), DODAG_CONF_DIO_INTERVAL_DOUBLINGS |-> One(3), DODAG_CONF_DIO_INTERVAL_MINIMUM |-> One(4),
   DODAG_CONF_DIO_REDUNDANCY_CONSTANT |-> One(5), DODAG_CONF_DIO_MAX_RANK_INCREASE |-> << 6, 8 >>,
   DODAG_CONF_MIN_HOP_RANK_INCREASE |-> << 8, 10 >>, DODAG_CONF_OBJECTIVE_CODE_POINT |-> << 10, 12 >>,
   DODAG_CONF_DEFAULT_LIFETIME |-> One(13), DODAG_CONF_LIFETIME_UNIT |-> << 14, 16 >>,
   RPL_TARGET_FLAGS |-> One(2), RPL_TARGET_PREFIX_LENGTH |-> One(3),
   TRANSIT_INFO_FLAGS |-> One(2), TRANSIT_INFO_PATH_CONTROL |-> One(3), TRANSIT_INFO_PATH_SEQUENCE |-> One(4),
   TRANSIT_INFO_PATH_LIFETIME |-> One(5), TRANSIT_INFO_PARENT_ADDRESS |-> << 6, 22 >>,
   SOLICITED_INFO_RPL_INSTANCE_ID |-> One(2), SOLICITED_INFO_FLAGS |-> One(3),
   SOLICITED_INFO_DODAG_ID |-> << 4, 20 >>, SOLICITED_INFO_VERSION_NUMBER |-> One(20),
   PREFIX_INFO_PREFIX_LENGTH |-> One(2), PREFIX_INFO_RESERVED1 |-> One(3), PREFIX_INFO_VALID_LIFETIME |-> << 4, 8 >>,
   PREFIX_INFO_PREFERRED_LIFETIME |-> << 8, 12 >>, PREFIX_INFO_RESERVED2 |-> << 12, 16 >>,
   PREFIX_INFO_PREFIX |-> << 16, 32 >>, TARGET_DESCRIPTOR |-> << 2, 6 >>]

DodagConfigurationPacket(b) ==
  LET F == RplOptionField
  IN  [authentication_enabled |-> Flag(b, F.DODAG_CONF_FLAGS, 3), path_control_size |-> Bits(b, F.DODAG_CONF_FLAGS, 0, 3),
       dio_interval_doublings |-> Num(b, F.DODAG_CONF_DIO_INTERVAL_DOUBLINGS),
       dio_interval_min |-> Num(b, F.DODAG_CONF_DIO_INTERVAL_MINIMUM),
       dio_redundancy_constant |-> Num(b, F.DODAG_CONF_DIO_REDUNDANCY_CONSTANT),
       max_rank_increase |-> Num(b, F.DODAG_CONF_DIO_MAX_RANK_INCREASE),
       minimum_hop_rank_increase |-> Num(b, F.DODAG_CONF_MIN_HOP_RANK_INCREASE),
       objective_code_point |-> Num(b, F.DODAG_CONF_OBJECTIVE_CODE_POINT),
       default_lifetime |-> Num(b, F.DODAG_CONF_DEFAULT_LIFETIME), lifetime_unit |-> Num(b, F.DODAG_CONF_LIFETIME_UNIT)]

DodagConfigurationSetters(o) ==
  LET F == RplOptionField
  IN  << Put(F.DODAG_CONF_FLAGS, 0), PutFlag(F.DODAG_CONF_FLAGS, 3, o.authentication_enabled),
         PutBits(F.DODAG_CONF_FLAGS, 0, 3, o.path_control_size),
         Put(F.DODAG_CONF_DIO_INTERVAL_DOUBLINGS, o.dio_interval_doublings),
         Put(F.DODAG_CONF_DIO_INTERVAL_MINIMUM, o.dio_interval_min),
         Put(F.DODAG_CONF_DIO_REDUNDANCY_CONSTANT, o.dio_redundancy_constant),
         Put(F.DODAG_CONF_DIO_MAX_RANK_INCREASE, o.max_rank_increase),
         Put(F.DODAG_CONF_MIN_HOP_RANK_INCREASE, o.minimum_hop_rank_increase),
         Put(F.DODAG_CONF_OBJECTIVE_CODE_POINT, o.objective_code_point),
         Put(F.DODAG_CONF_DEFAULT_LIFETIME, o.default_lifetime), Put(F.DODAG_CONF_LIFETIME_UNIT, o.lifetime_unit) >>

\* target_prefix(): what the length says, without flags and prefix length.
RplTargetPacket(b) ==
  LET from == RplOptionField.RPL_TARGET_PREFIX_LENGTH[2]
  IN  [prefix_length |-> Num(b, RplOptionField.RPL_TARGET_PREFIX_LENGTH),
       prefix |-> Octets(b, << from, (from + Num(b, RplOptionField.LENGTH) - RplOptionField.RPL_TARGET_PREFIX_LENGTH[1]) + 1 >>)]

RplTargetSetters(o) ==
  << Put(RplOptionField.RPL_TARGET_FLAGS, 0), Put(RplOptionField.RPL_TARGET_PREFIX_LENGTH, o.prefix_length),
     Copy(RplOptionField.RPL_TARGET_PREFIX_LENGTH[2], o.prefix) >>

TransitInformationPacket(b) ==
  LET F == RplOptionField
  IN  [external |-> Flag(b, F.TRANSIT_INFO_FLAGS, 7), path_control |-> Num(b, F.TRANSIT_INFO_PATH_CONTROL),
       path_sequence |-> Num(b, F.TRANSIT_INFO_PATH_SEQUENCE), path_lifetime |-> Num(b, F.TRANSIT_INFO_PATH_LIFETIME),
       parent_address |-> IF Num(b, F.LENGTH) > 5 THEN << Octets(b, F.TRANSIT_INFO_PARENT_ADDRESS) >> ELSE << >>]

TransitInformationSetters(o) ==
  LET F == RplOptionField
  IN  << Put(F.TRANSIT_INFO_FLAGS, 0), PutFlag(F.TRANSIT_INFO_FLAGS, 7, o.external),
         Put(F.TRANSIT_INFO_PATH_CONTROL, o.path_control), Put(F.TRANSIT_INFO_PATH_SEQUENCE, o.path_sequence),
         Put(F.TRANSIT_INFO_PATH_LIFETIME, o.path_lifetime) >>
      \o [i \in DOMAIN o.parent_address |-> Copy(F.TRANSIT_INFO_PARENT_ADDRESS[1], o.parent_address[i])]

SolicitedInformationPacket(b) ==
  LET F == RplOptionField
  IN  [rpl_instance_id |-> InstanceIdFrom(Num(b, F.SOLICITED_INFO_RPL_INSTANCE_ID)),
       version_predicate |-> Flag(b, F.SOLICITED_INFO_FLAGS, 7), instance_id_predicate |-> Flag(b, F.SOLICITED_INFO_FLAGS, 6),
       dodag_id_predicate |-> Flag(b, F.SOLICITED_INFO_FLAGS, 5), dodag_id |-> Octets(b, F.SOLICITED_INFO_DODAG_ID),
       version_number |-> Num(b, F.SOLICITED_INFO_VERSION_NUMBER)]

SolicitedInformationSetters(o) ==
  LET F == RplOptionField
  IN  << Put(F.SOLICITED_INFO_FLAGS, 0), Put(F.SOLICITED_INFO_RPL_INSTANCE_ID, InstanceIdInto(o.rpl_instance_id)),
         PutFlag(F.SOLICITED_INFO_FLAGS, 7, o.version_predicate), PutFlag(F.SOLICITED_INFO_FLAGS, 6, o.instance_id_predicate),
         PutFlag(F.SOLICITED_INFO_FLAGS, 5, o.dodag_id_predicate),
         Put(F.SOLICITED_INFO_VERSION_NUMBER, o.version_number), Copy(F.SOLICITED_INFO_DODAG_ID[1], o.dodag_id) >>

PrefixInformationPacket(b) ==
  LET F == RplOptionField
  IN  [prefix_length |-> Num(b, F.PREFIX_INFO_PREFIX_LENGTH), on_link |-> Flag(b, F.PREFIX_INFO_RESERVED1, 7),
       autonomous_address_configuration |-> Flag(b, F.PREFIX_INFO_RESERVED1, 6),
       router_address |-> Flag(b, F.PREFIX_INFO_RESERVED1, 5), valid_lifetime |-> Octets(b, F.PREFIX_INFO_VALID_LIFETIME),
       preferred_lifetime |-> Octets(b, F.PREFIX_INFO_PREFERRED_LIFETIME),
       destination_prefix |-> Octets(b, F.PREFIX_INFO_PREFIX)]

PrefixInformationSetters(o) ==
  LET F == RplOptionField
  IN  << Put(F.PREFIX_INFO_RESERVED1, 0), Copy(F.PREFIX_INFO_RESERVED2[1], Zeros(4)),
         Put(F.PREFIX_INFO_PREFIX_LENGTH, o.prefix_length), PutFlag(F.PREFIX_INFO_RESERVED1, 7, o.on_link),
         PutFlag(F.PREFIX_INFO_RESERVED1, 6, o.autonomous_address_configuration),
         PutFlag(F.PREFIX_INFO_RESERVED1, 5, o.router_address), Copy(F.PREFIX_INFO_VALID_LIFETIME[1], o.valid_lifetime),
         Copy(F.PREFIX_INFO_PREFERRED_LIFETIME[1], o.preferred_lifetime),
         Copy(F.PREFIX_INFO_PREFIX[1], o.destination_prefix) >>

\* A padding is the number of octets that follow its length.
RplOptionParse(b) ==
  LET T == RplOptionType
      type == [type |-> b[1]]
  IN  CASE b[1] = T.Pad1 -> Ok(type)
        [] b[1] = T.PadN -> Ok(type @@ [size |-> b[2]])
        [] b[1] = T.DodagConfiguration -> Ok(type @@ DodagConfigurationPacket(b))
        [] b[1] = T.RplTarget -> Ok(type @@ RplTargetPacket(b))
        [] b[1] = T.TransitInformation -> Ok(type @@ TransitInformationPacket(b))
        [] b[1] = T.SolicitedInformation -> Ok(type @@ SolicitedInformationPacket(b))
        [] b[1] = T.PrefixInformation -> Ok(type @@ PrefixInformationPacket(b))
        [] b[1] = T.RplTargetDescriptor -> Ok(type @@ [descriptor |-> Octets(b, RplOptionField.TARGET_DESCRIPTOR)])
        [] OTHER -> Err

RplOptionBufferLen(o) ==
  LET T == RplOptionType
  IN  CASE o.type = T.Pad1 -> 1
        [] o.type = T.PadN -> 2 + o.size
        [] o.type = T.DodagConfiguration -> 16
        [] o.type = T.RplTarget -> 4 + Len(o.prefix)
        [] o.type = T.TransitInformation -> 6 + 16 * Len(o.parent_address)
        [] o.type = T.SolicitedInformation -> 21
        [] o.type = T.PrefixInformation -> 32
        [] o.type = T.RplTargetDescriptor -> 6

RplOptionEmit(b, o) ==
  LET T == RplOptionType
      length == << Put(RplOptionField.LENGTH, RplOptionBufferLen(o) - 2) >>
      body == CASE o.type = T.Pad1 -> << >>
                [] o.type = T.PadN -> length \o << Copy(RplOptionField.PADN, Zeros(o.size)) >>
                [] o.type = T.DodagConfiguration -> length \o DodagConfigurationSetters(o)
                [] o.type = T.RplTarget -> length \o RplTargetSetters(o)
                [] o.type = T.TransitInformation -> length \o TransitInformationSetters(o)
                [] o.type = T.SolicitedInformation -> length \o SolicitedInformationSetters(o)
                [] o.type = T.PrefixInformation -> length \o PrefixInformationSetters(o)
                [] o.type = T.RplTargetDescriptor -> length \o << Copy(RplOptionField.TARGET_DESCRIPTOR[1], o.descriptor) >>
  IN  Emitted(b, << Put(RplOptionField.TYPE, o.type) >> \o body)

-----------------------------------------------------------------------------
(* The option in the hop-by-hop header.                                    *)

RplDataField == [FLAGS |-> One(0), INSTANCE_ID |-> One(1), SENDER_RANK |-> << 2, 4 >>]

HopByHopOptionLen == 4

HopByHopOptionParse(b) ==
  IF Len(b) # HopByHopOptionLen THEN Err
  ELSE Ok([down |-> Flag(b, RplDataField.FLAGS, 7), rank_error |-> Flag(b, RplDataField.FLAGS, 6),
           forwarding_error |-> Flag(b, RplDataField.FLAGS, 5),
           instance_id |-> InstanceIdFrom(Num(b, RplDataField.INSTANCE_ID)), sender_rank |-> Num(b, RplDataField.SENDER_RANK)])

HopByHopOptionEmit(b, o) ==
  Emitted(b, << PutFlag(RplDataField.FLAGS, 7, o.down), PutFlag(RplDataField.FLAGS, 6, o.rank_error),
                PutFlag(RplDataField.FLAGS, 5, o.forwarding_error),
                Put(RplDataField.INSTANCE_ID, InstanceIdInto(o.instance_id)), Put(RplDataField.SENDER_RANK, o.sender_rank) >>)

=============================================================================
