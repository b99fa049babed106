---------------------------- MODULE Fragmentation ---------------------------
(***************************************************************************)
(* Fragmentation of outgoing datagrams and reassembly of incoming ones     *)
(* (iface/fragmentation.rs and its users in iface/interface), for IPv4 and *)
(* for 6LoWPAN.  One host sends, another one receives; the network between *)
(* them delivers frames in any order.  Octet i of datagram d is the pair   *)
(* << d, i >>.  Lengths are those of what is reassembled: the payload of   *)
(* an IPv4 packet, and the whole IPv6 packet for 6LoWPAN, whose headers    *)
(* are HeaderDiff octets shorter in a frame.                               *)
(***************************************************************************)
EXTENDS AssemblerSpec, Numbers, Sequences

CONSTANTS
  Length,            \* the lengths of the datagrams, in the order they are sent
  Mediums,           \* a subset of {"Ip", "Ieee802154"}
  Mtu,               \* ip_mtu(), or what IEEE 802.15.4 leaves for 6LoWPAN
  HeaderLen,         \* of an IPv4 header
  HeaderDiff,        \* what 6LoWPAN compression saves
  Frag1Header,       \* length of the header of a first 6LoWPAN fragment
  FragNHeader,       \* and of the other ones
  Unit,              \* offsets are sent in units of this many octets: 8
  FragmentationCap,  \* FRAGMENTATION_BUFFER_SIZE
  ReassemblyCap,     \* REASSEMBLY_BUFFER_SIZE
  SlotCount,         \* REASSEMBLY_BUFFER_COUNT
  ReassemblyTimeout, \* reassembly_timeout, in ticks
  IdentMod,          \* identifications are counted modulo this: 2^16
  MaxBurst,          \* sockets that may dispatch in one poll
  MaxFragFaults          \* lost and repeated frames

ASSUME FragmentationAssumption ==
  /\ Length \in Seq(Nat \ {0}) /\ Len(Length) < IdentMod
  /\ Mediums \subseteq {"Ip", "Ieee802154"}
  /\ Mtu \in Nat /\ HeaderLen \in Nat /\ HeaderLen < Mtu
  /\ HeaderDiff \in Nat /\ Frag1Header \in Nat /\ FragNHeader \in Nat
  /\ Unit \in Nat \ {0} /\ FragmentationCap \in Nat /\ ReassemblyCap \in Nat
  /\ SlotCount \in Nat \ {0} /\ ReassemblyTimeout \in Nat /\ MaxBurst \in Nat /\ MaxFragFaults \in Nat

VARIABLES
  medium,       \* of both devices
  dispatched,   \* datagrams that the sockets have handed over
  ident,        \* ipv4_id, or tag: the next identification
  fragmenter,   \* the datagram that is being sent in fragments
  network,      \* frames on their way
  assemblers,   \* the slots of the PacketAssemblerSet
  received,     \* datagrams that were handed on to the sockets
  disturbed,    \* datagrams that were overwritten in the fragmenter, lost a
                \* frame, found no slot, or lost their slot for want of time
  fragFaults

fragVars == << medium, dispatched, ident, fragmenter, network, assemblers, received,
           disturbed, fragFaults >>

Datagram == DOMAIN Length

Octets(d) == [i \in 1 .. Length[d] |-> << d, i >>]

Slot == 1 .. SlotCount

NoKey == << >>

NoSize == -1

Zero == << 0, 0 >>

-----------------------------------------------------------------------------
(* The sender.                                                             *)

NoPacket == [datagram |-> 0, packet_len |-> 0, sent_bytes |-> 0, offset |-> 0, key |-> NoKey]

Finished(f) == f.packet_len = f.sent_bytes

FragmenterIsEmpty(f) == f.packet_len = 0

Unfinished(f) == IF Finished(f) THEN {} ELSE {f.datagram}

\* A frame with the octets of a datagram: key is NoKey in one that is not a
\* fragment, offset is in units, and wire is the length without the Ethernet
\* or IEEE 802.15.4 header.  A compressed header stands as the octets it means.
Fragment(key, first, offset, more, data, wire) ==
  [key |-> key, first |-> first, offset |-> offset, more |-> more, data |-> data, wire |-> wire]

\* Fragments of 6LoWPAN end at a multiple of the unit.
RoundDown(n) == (n \div Unit) * Unit

\* The IPv4 packet, or the compressed 6LoWPAN packet.
PacketLen(d) == IF medium = "Ip" THEN HeaderLen + Length[d] ELSE Length[d] - HeaderDiff

\* The key that both sides derive from the identification and, in 6LoWPAN, the size.
KeyOf(id, d) == IF medium = "Ip" THEN << id >> ELSE << id, Length[d] >>

\* sent_bytes after the first fragment, and the offset of the second one.
FirstSent ==
  IF medium = "Ip" THEN Mtu ELSE RoundDown(Mtu - Frag1Header + HeaderDiff) - HeaderDiff

SecondOffset == IF medium = "Ip" THEN Mtu - HeaderLen ELSE FirstSent + HeaderDiff

FirstWire == IF medium = "Ip" THEN Mtu ELSE Frag1Header + FirstSent

\* How much the next fragment carries.
NextSize(f) ==
  IF medium = "Ip"
    THEN Least(f.packet_len - f.sent_bytes + HeaderLen, Mtu) - HeaderLen
    ELSE Least(f.packet_len - f.sent_bytes, RoundDown(Mtu - FragNHeader))

NextWire(f) == NextSize(f) + (IF medium = "Ip" THEN HeaderLen ELSE FragNHeader)

MoreFrags(f) == f.packet_len - f.sent_bytes # NextSize(f)

\* dispatch_ipv4_frag() and dispatch_sixlowpan_frag().
NextFragment(f) ==
  Fragment(f.key, FALSE, f.offset \div Unit, MoreFrags(f),
        SubSeq(Octets(f.datagram), f.offset + 1, f.offset + NextSize(f)), NextWire(f))

Advance(f) == [f EXCEPT !.sent_bytes = @ + NextSize(f), !.offset = @ + NextSize(f)]

\* dispatch_ip() of datagram d, in a poll that has got as far as st: in one
\* frame, in fragments of which the first one leaves now, or not at all when the
\* fragmentation buffer is too small.
DispatchDatagram(st, d) ==
  LET next    == (st.ident + 1) % IdentMod
      key     == KeyOf(st.ident, d)
      first   == Fragment(key, TRUE, 0, TRUE, SubSeq(Octets(d), 1, SecondOffset), FirstWire)
      packet  == [datagram |-> d, packet_len |-> PacketLen(d), sent_bytes |-> FirstSent,
                  offset |-> SecondOffset, key |-> key]
      counted == [st EXCEPT !.ident = IF medium = "Ip" THEN next ELSE @]
  IN  IF PacketLen(d) <= Mtu
        THEN [counted EXCEPT !.out = @ \cup {Fragment(NoKey, TRUE, 0, FALSE, Octets(d), PacketLen(d))}]
      ELSE IF FragmentationCap < PacketLen(d) THEN counted
      ELSE [st EXCEPT !.ident = next, !.out = @ \cup {first}, !.fragmenter = packet,
                      !.lost = @ \cup Unfinished(st.fragmenter)]

\* The beginning of ipv4_egress() and sixlowpan_egress().
Reset(f) == IF Finished(f) THEN NoPacket ELSE f

\* The fragment that is due, if the device takes it.
FragmentEgress(token) ==
  LET f == Reset(fragmenter)
      due == token /\ ~ FragmenterIsEmpty(f) /\ f.packet_len > f.sent_bytes
  IN  [ident |-> ident, lost |-> {},
       fragmenter |-> IF due THEN Advance(f) ELSE f,
       out |-> IF due THEN {NextFragment(f)} ELSE {}]

\* socket_egress(): n sockets have something to send and the device takes it.
\* The state after that, as a set of one.
BurstEgress(token, n) ==
  LET after[i \in 0 .. n] ==
        IF i = 0 THEN {FragmentEgress(token)} ELSE {DispatchDatagram(st, dispatched + i) : st \in after[i - 1]}
  IN  after[n]

\* poll_egress().
PollFragEgress(token, n) ==
  /\ dispatched + n \in {0} \cup Datagram /\ dispatched' = dispatched + n
  /\ UNCHANGED << medium, fragFaults, received, assemblers >>
  /\ \E st \in BurstEgress(token, n) :
       /\ ident' = st.ident /\ fragmenter' = st.fragmenter /\ disturbed' = disturbed \cup st.lost
       /\ network' = network \cup st.out

-----------------------------------------------------------------------------
(* The receiver.                                                           *)

\* PacketAssembler::new().
NewSlot ==
  [key |-> NoKey, have |-> {}, total_size |-> NoSize, expires_at |-> 0,
   buffer |-> [o \in 0 .. (ReassemblyCap - 1) |-> Zero]]

\* reset(): the buffer keeps its octets.
ResetSlot(slot) ==
  [slot EXCEPT !.key = NoKey, !.have = {}, !.total_size = NoSize, !.expires_at = 0]

IsFree(slot) == slot.key = NoKey

\* set_total_size() succeeds.  (With the feature alloc the buffer grows, as if
\* ReassemblyCap were never reached.)
SizeAccepted(slot, size) == slot.total_size \in {NoSize, size} /\ size <= ReassemblyCap

\* add() and add_with(): the octets are copied even if the assembler has no room
\* to record them.
AddData(slot, offset, data) ==
  [slot EXCEPT
     !.have = Add(@, offset, Len(data)).have,
     !.buffer = [o \in DOMAIN @ |->
                   IF o \in Span(offset, Len(data)) THEN data[o - offset + 1] ELSE @[o]]]

\* Mutant of IsComplete: the last octet has come, earlier ones may be missing.
IsCompleteAtEnd(slot) == slot.total_size - 1 \in slot.have

IsComplete(slot) == slot.total_size = FrontLen(slot.have)

SlotExpired(slot) == ~ IsFree(slot) /\ slot.expires_at < 0

\* Mutant of RemoveExpired: the other comparison.
RemoveExpiredNever(slots) == slots

RemoveExpired(slots) ==
  [s \in Slot |-> IF SlotExpired(slots[s]) THEN ResetSlot(slots[s]) ELSE slots[s]]

\* The datagrams whose slots are timed out.
SlotsTimedOut == UNION {{assemblers[s].buffer[o][1] : o \in assemblers[s].have} :
                     s \in {t \in Slot : SlotExpired(assemblers[t])}}

\* The slot that get() finds: that of the key, or else the last free one; none
\* if the set is full.
SlotFor(slots, key) ==
  LET own  == {s \in Slot : slots[s].key = key}
      free == {s \in Slot : IsFree(slots[s])}
  IN  IF own # {} THEN own ELSE {s \in free : \A t \in free : t <= s}

\* get(): a slot that is new to the key gets its time.
Taken(slot, key) ==
  IF slot.key = key THEN slot ELSE [slot EXCEPT !.key = key, !.expires_at = ReassemblyTimeout]

\* The size that this fragment tells, if any: the end of the last one in IPv4,
\* the field datagram_size of the first one in 6LoWPAN.
SizeTold(frame) ==
  IF medium = "Ip"
    THEN IF frame.more THEN NoSize ELSE Len(frame.data) + frame.offset * Unit
    ELSE IF frame.first THEN frame.key[2] ELSE NoSize

\* process_ipv4() and process_sixlowpan_fragment() up to assemble(): an error
\* leaves the slot taken.
WithFragment(slot, frame) ==
  LET size  == SizeTold(frame)
      sized == IF size = NoSize THEN slot ELSE [slot EXCEPT !.total_size = size]
  IN  IF size # NoSize /\ ~ SizeAccepted(slot, size) THEN slot
      ELSE IF frame.offset * Unit + Len(frame.data) > ReassemblyCap THEN sized
      ELSE AddData(sized, frame.offset * Unit, frame.data)

Assembled(slot) == [i \in 1 .. slot.total_size |-> slot.buffer[i - 1]]

\* Frames that the receiver has taken from the network leave it, or come again.
Consume(frame) ==
  \/ network' = network \ {frame} /\ UNCHANGED fragFaults
  \/ fragFaults < MaxFragFaults /\ fragFaults' = fragFaults + 1 /\ UNCHANGED network

\* poll_ingress_single() with a frame that is no fragment.
IngressWhole(frame) ==
  /\ frame.key = NoKey
  /\ Consume(frame)
  /\ assemblers' = RemoveExpired(assemblers)
  /\ received' = received \cup {frame.data}
  /\ disturbed' = disturbed \cup SlotsTimedOut
  /\ UNCHANGED << medium, dispatched, ident, fragmenter >>

\* poll_ingress_single() with a fragment for which there is no slot.
IngressFull(frame) ==
  LET slots == RemoveExpired(assemblers)
  IN  /\ frame.key # NoKey
      /\ Consume(frame)
      /\ SlotFor(slots, frame.key) = {}
      /\ assemblers' = slots
      /\ disturbed' = disturbed \cup SlotsTimedOut \cup {frame.data[1][1]}
      /\ UNCHANGED << medium, dispatched, ident, fragmenter, received >>

\* poll_ingress_single() with a fragment for slot s.
IngressFragment(frame, s) ==
  LET slots == RemoveExpired(assemblers)
  IN  /\ frame.key # NoKey
      /\ Consume(frame)
      /\ s \in SlotFor(slots, frame.key)
      /\ \E slot \in {WithFragment(Taken(slots[s], frame.key), frame)} :
           /\ assemblers' = [slots EXCEPT ![s] = IF IsComplete(slot) THEN ResetSlot(slot) ELSE slot]
           /\ received' = IF IsComplete(slot) THEN received \cup {Assembled(slot)} ELSE received
      /\ disturbed' = disturbed \cup SlotsTimedOut
      /\ UNCHANGED << medium, dispatched, ident, fragmenter >>

\* poll() without a frame.
PollFragIdle ==
  /\ UNCHANGED << medium, dispatched, ident, fragmenter, network, received, fragFaults >>
  /\ \E s \in Slot : SlotExpired(assemblers[s])
  /\ assemblers' = RemoveExpired(assemblers)
  /\ disturbed' = disturbed \cup SlotsTimedOut

-----------------------------------------------------------------------------
(* The network and the clock.                                              *)

LoseFrame(frame) ==
  /\ fragFaults < MaxFragFaults /\ fragFaults' = fragFaults + 1
  /\ network' = network \ {frame}
  /\ disturbed' = disturbed \cup {frame.data[1][1]}
  /\ UNCHANGED << medium, dispatched, ident, fragmenter, assemblers, received >>

\* A slot's expires_at counts down to -1, which is a time in the past.
FragElapse ==
  /\ UNCHANGED << medium, dispatched, ident, fragmenter, network, received, disturbed, fragFaults >>
  /\ \E s \in Slot : ~ IsFree(assemblers[s]) /\ ~ SlotExpired(assemblers[s])
  /\ assemblers' = [s \in Slot |-> IF IsFree(assemblers[s]) THEN assemblers[s]
                                   ELSE [assemblers[s] EXCEPT !.expires_at = Greatest(@ - 1, -1)]]

FragIngress ==
  \E frame \in network :
    \/ IngressWhole(frame)
    \/ IngressFull(frame)
    \/ \E s \in Slot : IngressFragment(frame, s)

FragInit ==
  /\ medium \in Mediums
  /\ dispatched = 0 /\ ident = IdentMod - 1 /\ fragmenter = NoPacket
  /\ network = {} /\ assemblers = [s \in Slot |-> NewSlot]
  /\ received = {} /\ disturbed = {} /\ fragFaults = 0

FragNext ==
  \/ \E token \in BOOLEAN, n \in 0 .. MaxBurst : PollFragEgress(token, n)
  \/ FragIngress
  \/ PollFragIdle
  \/ \E frame \in network : LoseFrame(frame)
  \/ FragElapse

\* The steps that take place sooner or later: poll_at() asks for a poll while the
\* fragmenter holds a packet, the application polls both hosts, time passes.
FragProgress ==
  \/ \E n \in 0 .. MaxBurst : PollFragEgress(TRUE, n)
  \/ FragIngress \/ PollFragIdle \/ FragElapse

-----------------------------------------------------------------------------
\* Whatever is handed on to the sockets is a datagram that was dispatched, whole
\* and in order: fragments may come late, twice, in any order and to a slot whose
\* buffer still holds the octets of another datagram.
Integrity == \A data \in received : \E d \in 1 .. dispatched : data = Octets(d)

Fits(d) ==
  \/ PacketLen(d) <= Mtu
  \/ PacketLen(d) <= FragmentationCap /\ Length[d] <= ReassemblyCap

\* Again and again everything has come to its end: the datagrams that fit the
\* buffers have reached the sockets of the other host, unless they were
\* disturbed, and no datagram, whole or not, occupies the fragmenter or a slot.
ReassemblyEnds ==
  []<>(/\ FragmenterIsEmpty(fragmenter) /\ \A s \in Slot : IsFree(assemblers[s])
       /\ \A d \in 1 .. dispatched : Fits(d) => Octets(d) \in received \/ d \in disturbed)

=============================================================================
