---------------------------- MODULE WireTransport ---------------------------
(***************************************************************************)
(* UDP and TCP headers: wire/udp.rs and wire/tcp.rs.  The addresses of the *)
(* pseudo header are those of the packet in src_addr and dst_addr.         *)
(***************************************************************************)
EXTENDS WireOps

IpProtocolTcp == 6

IpProtocolUdp == 17

UdpField == [SRC_PORT |-> << 0, 2 >>, DST_PORT |-> << 2, 4 >>, LENGTH |-> << 4, 6 >>, CHECKSUM |-> << 6, 8 >>]

UdpHeaderLen == UdpField.CHECKSUM[2]

UdpPacket(b) ==
  [src_port |-> Num(b, UdpField.SRC_PORT), dst_port |-> Num(b, UdpField.DST_PORT),
   len |-> Num(b, UdpField.LENGTH), checksum |-> Num(b, UdpField.CHECKSUM),
   payload |-> Octets(b, << UdpHeaderLen, Num(b, UdpField.LENGTH) >>)]

UdpCheckLen(b) ==
  Len(b) >= UdpHeaderLen /\ UdpPacket(b).len \in UdpHeaderLen .. Len(b)

UdpSum(b, src_addr, dst_addr) ==
  LET len == UdpPacket(b).len
  IN  Combine(<< PseudoHeader(src_addr, dst_addr, IpProtocolUdp, len), ChecksumData(Octets(b, << 0, len >>)) >>)

\* No checksum at all is accepted.
UdpVerifyChecksum(b, src_addr, dst_addr) ==
  UdpPacket(b).checksum = 0 \/ UdpSum(b, src_addr, dst_addr) = 65535

UdpParse(b, src_addr, dst_addr, checksums) ==
  LET packet == UdpPacket(b)
  IN  IF ~ UdpCheckLen(b) THEN Err
      ELSE IF packet.dst_port = 0 THEN Err
      ELSE IF checksums /\ ~ UdpVerifyChecksum(b, src_addr, dst_addr) THEN Err
      ELSE Ok([k \in {"src_port", "dst_port", "payload"} |-> packet[k]])

UdpSetters(h) ==
  << Put(UdpField.SRC_PORT, h.src_port), Put(UdpField.DST_PORT, h.dst_port), Put(UdpField.LENGTH, h.len),
     Copy(UdpHeaderLen, h.payload), Put(UdpField.CHECKSUM, 0) >>

\* Mutant of UdpFillChecksum: a sum of zero is sent as it is.
UdpFillChecksumZero(b, src_addr, dst_addr) ==
  Emitted(b, << Put(UdpField.CHECKSUM, Complement(UdpSum(b, src_addr, dst_addr))) >>)

\* A checksum of zero would mean that there is none.
UdpFillChecksum(b, src_addr, dst_addr) ==
  LET checksum == Complement(UdpSum(b, src_addr, dst_addr))
  IN  Emitted(b, << Put(UdpField.CHECKSUM, IF checksum = 0 THEN 65535 ELSE checksum) >>)

UdpBufferLen(repr) == UdpHeaderLen + Len(repr.payload)

UdpEmit(b, repr, src_addr, dst_addr, checksums) ==
  LET packet == Emitted(b, UdpSetters(
        [src_port |-> repr.src_port, dst_port |-> repr.dst_port, len |-> UdpBufferLen(repr), payload |-> repr.payload]))
  IN  IF checksums THEN UdpFillChecksum(packet, src_addr, dst_addr) ELSE packet

-----------------------------------------------------------------------------
TcpField ==
  [SRC_PORT |-> << 0, 2 >>, DST_PORT |-> << 2, 4 >>, SEQ_NUM |-> << 4, 8 >>, ACK_NUM |-> << 8, 12 >>,
   FLAGS |-> << 12, 14 >>, WIN_SIZE |-> << 14, 16 >>, CHECKSUM |-> << 16, 18 >>, URGENT |-> << 18, 20 >>,
   FLG_FIN |-> 0, FLG_SYN |-> 1, FLG_RST |-> 2, FLG_PSH |-> 3, FLG_ACK |-> 4,
   OPT_END |-> 0, OPT_NOP |-> 1, OPT_MSS |-> 2, OPT_WS |-> 3, OPT_SACKPERM |-> 4, OPT_SACKRNG |-> 5,
   OPT_TSTAMP |-> 8]

TcpHeaderMin == TcpField.URGENT[2]

\* The flags that nobody reads are left out.
TcpPacket(b) ==
  LET header_len == 4 * Bits(b, TcpField.FLAGS, 12, 4)
  IN  [src_port |-> Num(b, TcpField.SRC_PORT), dst_port |-> Num(b, TcpField.DST_PORT),
       seq_number |-> Octets(b, TcpField.SEQ_NUM), ack_number |-> Octets(b, TcpField.ACK_NUM),
       fin |-> Flag(b, TcpField.FLAGS, TcpField.FLG_FIN), syn |-> Flag(b, TcpField.FLAGS, TcpField.FLG_SYN),
       rst |-> Flag(b, TcpField.FLAGS, TcpField.FLG_RST), psh |-> Flag(b, TcpField.FLAGS, TcpField.FLG_PSH),
       ack |-> Flag(b, TcpField.FLAGS, TcpField.FLG_ACK), header_len |-> header_len,
       window_len |-> Num(b, TcpField.WIN_SIZE), urgent_at |-> Num(b, TcpField.URGENT),
       options |-> Octets(b, << TcpHeaderMin, header_len >>), payload |-> Beyond(b, header_len)]

TcpCheckLen(b) == Len(b) >= TcpHeaderMin /\ TcpPacket(b).header_len \in TcpHeaderMin .. Len(b)

TcpSum(b, src_addr, dst_addr) ==
  Combine(<< PseudoHeader(src_addr, dst_addr, IpProtocolTcp, Len(b)), ChecksumData(b) >>)

\* The blocks of a SACK option, at most three.
SackRanges(data) ==
  [i \in 1 .. (IF Len(data) > 24 THEN 3 ELSE Len(data) \div 8) |->
     << Octets(data, << 8 * (i - 1), 8 * (i - 1) + 4 >>), Octets(data, << 8 * (i - 1) + 4, 8 * i >>) >>]

\* TcpOption::parse(): the option at the start of the buffer, and its length.
TcpOptionParse(b) ==
  LET kind == b[1]
      length == IF kind \in {TcpField.OPT_END, TcpField.OPT_NOP} THEN 1 ELSE b[2]
      data == Octets(b, << 2, length >>)
      option(v) == [ok |-> TRUE, kind |-> kind, length |-> length, value |-> v]
  IN  IF kind \in {TcpField.OPT_END, TcpField.OPT_NOP} THEN option(<< >>)
      ELSE IF Len(b) < 2 THEN Err
      ELSE IF length \notin 2 .. Len(b) THEN Err
      ELSE IF kind = TcpField.OPT_MSS THEN IF length = 4 THEN option(<< Number(data) >>) ELSE Err
      ELSE IF kind = TcpField.OPT_WS THEN IF length = 3 THEN option(data) ELSE Err
      ELSE IF kind = TcpField.OPT_SACKPERM THEN IF length = 2 THEN option(<< >>) ELSE Err
      ELSE IF kind = TcpField.OPT_SACKRNG
        THEN IF length < 10 \/ (length - 2) % 8 # 0 THEN Err ELSE option(SackRanges(data))
      ELSE IF kind = TcpField.OPT_TSTAMP /\ length = 10
        THEN option(<< << Octets(data, << 0, 4 >>), Octets(data, << 4, 8 >>) >> >>)
      ELSE [option(<< >>) EXCEPT !.kind = 255]

\* An option that was recognised.
TakeOption(repr, option) ==
  CASE option.kind = TcpField.OPT_MSS -> [repr EXCEPT !.max_seg_size = option.value]
    [] option.kind = TcpField.OPT_WS ->
         [repr EXCEPT !.window_scale = << IF option.value[1] > 14 THEN 14 ELSE option.value[1] >>]
    [] option.kind = TcpField.OPT_SACKPERM -> [repr EXCEPT !.sack_permitted = TRUE]
    [] option.kind = TcpField.OPT_SACKRNG -> [repr EXCEPT !.sack_ranges = option.value]
    [] option.kind = TcpField.OPT_TSTAMP -> [repr EXCEPT !.timestamp = option.value]
    [] OTHER -> repr

\* The loop over the options, which ends with them or with an EndOfList.
TakeOptions(repr, options) ==
  LET step(st) ==
        LET option == TcpOptionParse(st.left)
        IN  IF ~ st.ok \/ st.left = << >> THEN st
            ELSE IF ~ option.ok THEN [st EXCEPT !.ok = FALSE]
            ELSE IF option.kind = TcpField.OPT_END THEN [st EXCEPT !.left = << >>]
            ELSE [st EXCEPT !.left = Beyond(@, option.length), !.repr = TakeOption(@, option)]
      after[i \in 0 .. Len(options)] ==
        IF i = 0 THEN [ok |-> TRUE, left |-> options, repr |-> repr] ELSE step(after[i - 1])
      done == after[Len(options)]
  IN  IF done.ok THEN Ok(done.repr) ELSE Err

TcpControls(packet) ==
  LET flags == << packet.syn, packet.fin, packet.rst >>
  IN  CASE flags = << FALSE, FALSE, FALSE >> -> IF packet.psh THEN {"Psh"} ELSE {"None"}
        [] flags = << TRUE, FALSE, FALSE >> -> {"Syn"}
        [] flags = << FALSE, TRUE, FALSE >> -> {"Fin"}
        [] flags = << FALSE, FALSE, TRUE >> -> {"Rst"}
        [] OTHER -> {}

TcpParse(b, src_addr, dst_addr, checksums) ==
  LET packet == TcpPacket(b)
  IN  IF ~ TcpCheckLen(b) THEN Err
      ELSE IF packet.src_port = 0 \/ packet.dst_port = 0 THEN Err
      ELSE IF checksums /\ TcpSum(b, src_addr, dst_addr) # 65535 THEN Err
      ELSE IF TcpControls(packet) = {} THEN Err
      ELSE TakeOptions(
             [src_port |-> packet.src_port, dst_port |-> packet.dst_port,
              control |-> CHOOSE c \in TcpControls(packet) : TRUE, seq_number |-> packet.seq_number,
              ack_number |-> IF packet.ack THEN << packet.ack_number >> ELSE << >>,
              window_len |-> packet.window_len, window_scale |-> << >>, max_seg_size |-> << >>,
              sack_permitted |-> FALSE, sack_ranges |-> << >>, timestamp |-> << >>,
              payload |-> packet.payload], packet.options)

TcpOptionsLen(repr) ==
  4 * Len(repr.max_seg_size) + 3 * Len(repr.window_scale) + (IF repr.sack_permitted THEN 2 ELSE 0)
  + 10 * Len(repr.timestamp)
  + (IF repr.sack_ranges = << >> THEN 0 ELSE 8 * Len(repr.sack_ranges) + 2)

\* header_len(): a multiple of four.
TcpHeaderLen(repr) == TcpHeaderMin + 4 * ((TcpOptionsLen(repr) + 3) \div 4)

TcpBufferLen(repr) == TcpHeaderLen(repr) + Len(repr.payload)

\* TcpOption::emit(), for an option with this data.
TcpOptionEmit(kind, data) == << kind, 2 + Len(data) >> \o data

TcpOptionsEmit(repr) ==
  LET if(there, octets) == IF there THEN octets ELSE << >>
      emitted ==
        if(repr.max_seg_size # << >>, TcpOptionEmit(TcpField.OPT_MSS, BigEndian(repr.max_seg_size[1], 2)))
        \o if(repr.window_scale # << >>, TcpOptionEmit(TcpField.OPT_WS, repr.window_scale))
        \o if(repr.sack_permitted, TcpOptionEmit(TcpField.OPT_SACKPERM, << >>))
        \o if(~ repr.sack_permitted /\ repr.ack_number # << >> /\ repr.sack_ranges # << >>,
              TcpOptionEmit(TcpField.OPT_SACKRNG, FlattenSeq(FlattenSeq(repr.sack_ranges))))
        \o if(repr.timestamp # << >>, TcpOptionEmit(TcpField.OPT_TSTAMP, FlattenSeq(repr.timestamp[1])))
      room == TcpHeaderLen(repr) - TcpHeaderMin
  IN  emitted \o [i \in 1 .. (room - Len(emitted)) |-> TcpField.OPT_END]

\* clear_flags() comes before the flags that are set.
TcpSetters(h) ==
  << Put(TcpField.SRC_PORT, h.src_port), Put(TcpField.DST_PORT, h.dst_port),
     Copy(TcpField.SEQ_NUM[1], h.seq_number), Copy(TcpField.ACK_NUM[1], h.ack_number),
     Put(TcpField.WIN_SIZE, h.window_len), PutBits(TcpField.FLAGS, 12, 4, h.header_len \div 4),
     PutBits(TcpField.FLAGS, 0, 12, 0),
     PutFlag(TcpField.FLAGS, TcpField.FLG_PSH, h.psh), PutFlag(TcpField.FLAGS, TcpField.FLG_SYN, h.syn),
     PutFlag(TcpField.FLAGS, TcpField.FLG_FIN, h.fin), PutFlag(TcpField.FLAGS, TcpField.FLG_RST, h.rst),
     PutFlag(TcpField.FLAGS, TcpField.FLG_ACK, h.ack), Copy(TcpHeaderMin, h.options),
     Put(TcpField.URGENT, 0), Copy(h.header_len, h.payload), Put(TcpField.CHECKSUM, 0) >>

TcpFillChecksum(b, src_addr, dst_addr) ==
  Emitted(b, << Put(TcpField.CHECKSUM, Complement(TcpSum(b, src_addr, dst_addr))) >>)

TcpEmit(b, repr, src_addr, dst_addr, checksums) ==
  LET packet == Emitted(b, TcpSetters(
        [src_port |-> repr.src_port, dst_port |-> repr.dst_port, seq_number |-> repr.seq_number,
         ack_number |-> IF repr.ack_number = << >> THEN Zeros(4) ELSE repr.ack_number[1],
         window_len |-> repr.window_len, header_len |-> TcpHeaderLen(repr),
         psh |-> repr.control = "Psh", syn |-> repr.control = "Syn", fin |-> repr.control = "Fin",
         rst |-> repr.control = "Rst", ack |-> repr.ack_number # << >>,
         options |-> TcpOptionsEmit(repr), payload |-> repr.payload]))
  IN  IF checksums THEN TcpFillChecksum(packet, src_addr, dst_addr) ELSE packet

=============================================================================
