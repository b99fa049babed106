----------------------------- MODULE WireLowpan -----------------------------
(***************************************************************************)
(* IEEE 802.15.4 frames and the headers of 6LoWPAN: wire/ieee802154.rs and *)
(* wire/sixlowpan (mod.rs, frag.rs, iphc.rs and nhc.rs).  A link-layer     *)
(* address is its octets: none, two or eight.                              *)
(***************************************************************************)
EXTENDS WireTransport

LittleEndian(n, size) == Reverse(BigEndian(n, size))

-----------------------------------------------------------------------------
(* Frames.                                                                 *)

FrameType == [Beacon |-> 0, Data |-> 1, Acknowledgement |-> 2, MacCommand |-> 3, Multipurpose |-> 5]

FrameVersion == [Ieee802154_2003 |-> 0, Ieee802154_2006 |-> 1, Ieee802154 |-> 2]

AddressingMode == [Absent |-> 0, Short |-> 2, Extended |-> 3]

\* size() of an addressing mode.
AddressSize(mode) == CASE mode = AddressingMode.Short -> 2 [] mode = AddressingMode.Extended -> 8 [] OTHER -> 0

ModeOf(address) ==
  CASE Len(address) = 2 -> AddressingMode.Short [] Len(address) = 8 -> AddressingMode.Extended [] OTHER -> AddressingMode.Absent

\* The frame control field has its low octet first.
FrameControl(b) == b[1] + (256 * b[2])

FrameControlOf(b) ==
  LET raw == FrameControl(b)
      bit(n) == BitsOf(raw, n, 1) = 1
  IN  [frame_type |-> BitsOf(raw, 0, 3), security_enabled |-> bit(3), frame_pending |-> bit(4), ack_request |-> bit(5),
       pan_id_compression |-> bit(6), frame_version |-> BitsOf(raw, 12, 2),
       dst_mode |-> BitsOf(raw, 10, 2), src_mode |-> BitsOf(raw, 14, 2)]

\* addr_present_flags(): whether there are PAN ids, in frames of a version that is known.
AddrPresent(fc) ==
  LET absent == AddressingMode.Absent
      both == fc.dst_mode # absent /\ fc.src_mode # absent
      extended == fc.dst_mode = AddressingMode.Extended /\ fc.src_mode = AddressingMode.Extended
  IN  IF fc.frame_version # FrameVersion.Ieee802154
        THEN [dst_pan |-> fc.dst_mode # absent,
              src_pan |-> fc.dst_mode = absent \/ (both /\ ~ fc.pan_id_compression)]
      ELSE IF ~ both
        THEN [dst_pan |-> (fc.dst_mode # absent /\ ~ fc.pan_id_compression)
                          \/ (fc.dst_mode = absent /\ fc.src_mode = absent /\ fc.pan_id_compression),
              src_pan |-> fc.src_mode # absent]
      ELSE [dst_pan |-> ~ extended \/ ~ fc.pan_id_compression, src_pan |-> ~ extended /\ ~ fc.pan_id_compression]

\* Where the addressing fields are, with the sizes that there are.
AddressingFields(fc) ==
  LET present == AddrPresent(fc)
      dst == 3 + (IF present.dst_pan THEN 2 ELSE 0)
      src_pan == dst + AddressSize(fc.dst_mode)
      src == src_pan + (IF present.src_pan THEN 2 ELSE 0)
  IN  [dst_pan |-> << 3, dst >>, dst |-> << dst, src_pan >>, src_pan |-> << src_pan, src >>,
       src |-> << src, src + AddressSize(fc.src_mode) >>]

\* security_header_len(): a control octet, a frame counter unless suppressed, a key identifier.
SecurityHeaderLen(control) ==
  1 + (IF BitsOf(control, 5, 1) = 1 THEN 0 ELSE 4) + << 0, 1, 5, 9 >>[BitsOf(control, 3, 2) + 1]

FramePayloadStart(b) ==
  LET fc == FrameControlOf(b)
      start == AddressingFields(fc).src[2]
  IN  start + (IF fc.security_enabled THEN SecurityHeaderLen(b[start + 1]) ELSE 0)

\* new_checked() and check_len(), for frames with addresses.
FrameCheckLen(b) ==
  LET fc == FrameControlOf(b)
      start == AddressingFields(fc).src[2]
  IN  /\ Len(b) \in 3 .. 127
      /\ fc.frame_version # 3 /\ fc.dst_mode # 1 /\ fc.src_mode # 1
      /\ ~ (/\ fc.frame_version # FrameVersion.Ieee802154 /\ fc.pan_id_compression
            /\ fc.dst_mode = AddressingMode.Absent /\ fc.src_mode = AddressingMode.Absent)
      /\ Len(b) >= start /\ (fc.security_enabled => Len(b) >= start + 1 /\ Len(b) >= FramePayloadStart(b))

\* parse(), and payload() of a data frame.
FrameParse(b) ==
  LET fc == FrameControlOf(b)
      F == AddressingFields(fc)
      pan(field) == IF field[1] = field[2] THEN << >> ELSE << b[field[1] + 1] + (256 * b[field[1] + 2]) >>
  IN  IF ~ FrameCheckLen(b) THEN Err
      ELSE Ok([k \in {"frame_type", "security_enabled", "frame_pending", "ack_request", "pan_id_compression", "frame_version"} |-> fc[k]]
              @@ [sequence_number |-> b[3], dst_pan_id |-> pan(F.dst_pan), dst_addr |-> Reverse(Octets(b, F.dst)),
                  src_pan_id |-> pan(F.src_pan), src_addr |-> Reverse(Octets(b, F.src)),
                  payload |-> Beyond(b, FramePayloadStart(b))])

FrameBufferLen(repr) ==
  3 + 2 + Len(repr.dst_addr) + (IF repr.pan_id_compression THEN 0 ELSE 2) + Len(repr.src_addr)

\* What the setters of emit() make of the frame control field: the flags are only
\* ever set, bits 7 to 9 are left alone.
FrameControlSet(raw, repr) ==
  LET set(n, bit, on) == IF on \/ BitsOf(n, bit, 1) = 1 THEN Masked(n, bit, 1, 1) ELSE n
      flags == set(set(set(set(Masked(raw, 0, 3, repr.frame_type), 3, repr.security_enabled), 4, repr.frame_pending),
                       5, repr.ack_request), 6, repr.pan_id_compression)
  IN  Masked(Masked(Masked(flags, 12, 2, repr.frame_version), 10, 2, ModeOf(repr.dst_addr)), 14, 2, ModeOf(repr.src_addr))

\* emit(), with a destination PAN id, and the payload behind it.
FrameEmit(b, repr) ==
  LET src_pan == 5 + Len(repr.dst_addr)
      src == src_pan + (IF repr.pan_id_compression THEN 0 ELSE 2)
  IN  Emitted(b, << Copy(0, LittleEndian(FrameControlSet(FrameControl(b), repr), 2)), Put(One(2), repr.sequence_number),
                    Copy(3, LittleEndian(repr.dst_pan_id[1], 2)), Copy(5, Reverse(repr.dst_addr)),
                    Copy(src_pan, IF repr.pan_id_compression THEN << >> ELSE LittleEndian(repr.src_pan_id[1], 2)),
                    Copy(src, Reverse(repr.src_addr)), Copy(FrameBufferLen(repr), repr.payload) >>)

\* as_eui_64(): of an extended address, with the universal bit turned over.
AsEui64(address) ==
  IF Len(address) # 8 THEN << >>
  ELSE << [address EXCEPT ![1] = IF BitsOf(@, 1, 1) = 1 THEN @ - 2 ELSE @ + 2] >>

-----------------------------------------------------------------------------
(* 6LoWPAN: what a packet begins with, and fragment headers.               *)

Dispatch == [FirstFragment |-> 24, Fragment |-> 28, Iphc |-> 3, Udp |-> 30, Ext |-> 14]

SixlowpanDispatch(b) ==
  IF b = << >> THEN Err
  ELSE IF b[1] \div 8 \in {Dispatch.FirstFragment, Dispatch.Fragment} THEN Ok("FragmentHeader")
  ELSE IF b[1] \div 32 = Dispatch.Iphc THEN Ok("IphcHeader")
  ELSE Err

FragField == [DISPATCH |-> One(0), DATAGRAM_SIZE |-> << 0, 2 >>, DATAGRAM_TAG |-> << 2, 4 >>, DATAGRAM_OFFSET |-> One(4)]

FragBufferLen(repr) == IF repr.offset = << >> THEN 4 ELSE 5

FragParse(b) ==
  LET dispatch == b[1] \div 8
      head == [size |-> Bits(b, FragField.DATAGRAM_SIZE, 0, 11), tag |-> Num(b, FragField.DATAGRAM_TAG)]
  IN  IF b = << >> THEN Err
      ELSE IF dispatch = Dispatch.FirstFragment /\ Len(b) >= 4 THEN Ok(head @@ [offset |-> << >>])
      ELSE IF dispatch = Dispatch.Fragment /\ Len(b) >= 5 THEN Ok(head @@ [offset |-> << b[5] >>])
      ELSE Err

\* emit(): a first fragment has no offset.
FragEmit(b, repr) ==
  LET first == repr.offset = << >>
  IN  Emitted(b, << PutBits(FragField.DISPATCH, 3, 5, IF first THEN Dispatch.FirstFragment ELSE Dispatch.Fragment),
                    PutBits(FragField.DATAGRAM_SIZE, 0, 11, repr.size), Put(FragField.DATAGRAM_TAG, repr.tag) >>
                 \o (IF first THEN << >> ELSE << Put(FragField.DATAGRAM_OFFSET, repr.offset[1]) >>))

=============================================================================
