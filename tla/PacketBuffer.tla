---------------------------- MODULE PacketBuffer ----------------------------
(***************************************************************************)
(* storage/packet_buffer.rs: packets of different sizes in a ring of       *)
(* octets, each in one piece.  A packet that would be cut by the end of    *)
(* the ring is preceded by padding, which takes a place in the metadata.   *)
(* The metadata ring is used one element at a time, as the queue that      *)
(* RingBuffer is shown to implement; of the payload ring the indices       *)
(* matter.                                                                 *)
(***************************************************************************)
EXTENDS RingOps

CONSTANTS
  Header,       \* headers of packets; their octets carry the same value
  Sizes,        \* sizes of packets that callers ask for
  PacketCap,    \* the capacity of the metadata ring
  PayloadCap,   \* the capacity of the payload ring
  None,         \* the header of padding
  SlotsForWith  \* metadata entries that callers leave free for
                \* enqueue_with_infallible()

ASSUME PacketAssumption ==
  /\ PacketCap \in Nat /\ PayloadCap \in Nat /\ SlotsForWith \in Nat
  /\ Sizes \subseteq Nat /\ None \notin Header

VARIABLES
  metadata_ring,   \* sequence of sizes and headers
  payload_ring,    \* ring of octets
  packetCall,      \* the last method called, with its arguments
  packetRet        \* what it returned

rings == << metadata_ring, payload_ring >>

packetVars == << metadata_ring, payload_ring, packetCall, packetRet >>

Metadata(size, header) == [size |-> size, header |-> header]

Copies(header, size) == [i \in 1 .. size |-> header]

PacketResult(ok, header, data) == [ok |-> ok, header |-> header, data |-> data]

Nothing(ok) == PacketResult(ok, None, << >>)

PacketInit ==
  /\ metadata_ring = << >> /\ payload_ring = RingNew(PayloadCap, None)
  /\ packetCall = << "new" >> /\ packetRet = Nothing(TRUE)

-----------------------------------------------------------------------------
IsEmpty == metadata_ring = << >>

IsFull(metadata) == Len(metadata) = PacketCap

\* No room in one piece, not even past the end of the ring.
NoRoom(payload, size) ==
  LET window == RingWindow(payload)
      contig == ContiguousWindow(payload)
  IN  window < size \/ (contig < size /\ window - contig < size)

\* Mutant of NeedsPadding: a packet may be cut by the end of the ring.
NeverPads(payload, size) == FALSE

NeedsPadding(payload, size) == ContiguousWindow(payload) < size

\* enqueue_many(): octets that nobody writes.
Allocate(payload, size) ==
  [Rewound(payload) EXCEPT !.length = @ + EnqueueSize(payload, size)]

MetadataPadded(payload, size) ==
  IF NeedsPadding(payload, size)
    THEN Append(metadata_ring, Metadata(ContiguousWindow(payload), None))
    ELSE metadata_ring

PayloadPadded(payload, size) ==
  IF NeedsPadding(payload, size) THEN Allocate(payload, ContiguousWindow(payload)) ELSE payload

\* Mutant of Cleared: an empty ring goes on where it was.
NeverCleared(payload) == payload

Cleared(payload) == IF RingIsEmpty(payload) THEN RingClear(payload) ELSE payload

\* enqueue(), and the caller filling the slice it returns.
Enqueue(size, header) ==
  LET payload  == Cleared(payload_ring)
      metadata == MetadataPadded(payload, size)
      padded   == PayloadPadded(payload, size)
      tooLarge == PayloadCap < size \/ IsFull(metadata_ring)
  IN  /\ packetCall' = << "enqueue", size, header >>
      /\ \/ tooLarge /\ packetRet' = Nothing(FALSE) /\ UNCHANGED rings
         \/ /\ ~ tooLarge /\ NoRoom(payload, size)
            /\ packetRet' = Nothing(FALSE) /\ payload_ring' = payload /\ UNCHANGED metadata_ring
         \/ /\ ~ tooLarge /\ ~ NoRoom(payload, size) /\ IsFull(metadata)
            /\ packetRet' = Nothing(FALSE) /\ metadata_ring' = metadata /\ payload_ring' = padded
         \/ /\ ~ tooLarge /\ ~ NoRoom(payload, size) /\ ~ IsFull(metadata)
            /\ packetRet' = Nothing(TRUE)
            /\ metadata_ring' = Append(metadata, Metadata(size, header))
            /\ payload_ring' = EnqueueMany(padded, Copies(header, size))

\* enqueue_with_infallible(), where the closure fills size of max_size octets.
\* The payload is enqueued before it is known whether the metadata has room.
EnqueueWith(max_size, size, header) ==
  LET metadata == MetadataPadded(payload_ring, max_size)
      padded   == PayloadPadded(payload_ring, max_size)
      refused  == \/ PayloadCap < max_size \/ IsFull(metadata_ring)
                  \/ NoRoom(payload_ring, max_size)
  IN  /\ packetCall' = << "enqueue_with_infallible", max_size, size, header >>
      /\ \/ refused /\ packetRet' = Nothing(FALSE) /\ UNCHANGED rings
         \/ /\ ~ refused
            /\ payload_ring' = EnqueueMany(padded, Copies(header, size))
            /\ metadata_ring' = IF IsFull(metadata) THEN metadata
                                ELSE Append(metadata, Metadata(size, header))
            /\ packetRet' = Nothing(~ IsFull(metadata))

-----------------------------------------------------------------------------
(* The buffer after dequeue_padding().                                     *)

PaddingFirst == metadata_ring # << >> /\ metadata_ring[1].header = None

MetadataUnpadded == IF PaddingFirst THEN Tail(metadata_ring) ELSE metadata_ring

PayloadUnpadded ==
  IF PaddingFirst THEN DequeueMany(payload_ring, metadata_ring[1].size) ELSE payload_ring

\* A caller gets the front packet, or Err(Empty); it is removed if takes.
Shows(takes) ==
  \/ /\ MetadataUnpadded = << >> /\ packetRet' = Nothing(FALSE)
     /\ metadata_ring' = << >> /\ payload_ring' = PayloadUnpadded
  \/ /\ MetadataUnpadded # << >>
     /\ LET meta == MetadataUnpadded[1]
        IN  /\ packetRet' = PacketResult(TRUE, meta.header, DequeuedMany(PayloadUnpadded, meta.size))
            /\ metadata_ring' = IF takes THEN Tail(MetadataUnpadded) ELSE MetadataUnpadded
            /\ payload_ring' = IF takes THEN DequeueMany(PayloadUnpadded, meta.size)
                                        ELSE PayloadUnpadded

Dequeue == packetCall' = << "dequeue" >> /\ Shows(TRUE)

\* The closure returns Ok, and the packet goes, or Err, and it stays.
DequeueWith(takes) == packetCall' = << "dequeue_with", takes >> /\ Shows(takes)

Peek == packetCall' = << "peek" >> /\ Shows(FALSE)

PacketReset ==
  /\ packetCall' = << "reset" >> /\ packetRet' = Nothing(TRUE)
  /\ metadata_ring' = << >> /\ payload_ring' = RingClear(payload_ring)

PacketNext ==
  \/ \E size \in Sizes, header \in Header : Enqueue(size, header)
  \/ \E max_size, size \in Sizes, header \in Header :
       /\ size <= max_size /\ PacketCap - Len(metadata_ring) >= SlotsForWith
       /\ EnqueueWith(max_size, size, header)
  \/ Dequeue \/ Peek \/ PacketReset
  \/ \E takes \in BOOLEAN : DequeueWith(takes)

PacketSpec == PacketInit /\ [][PacketNext]_packetVars

-----------------------------------------------------------------------------
Packets == SelectSeq(metadata_ring, LAMBDA m : m.header # None)

PacketsQueue == INSTANCE PacketQueue WITH packets <- Packets, call <- packetCall, ret <- packetRet

\* A packet that was accepted comes out once, in order, in one piece, with
\* its own octets; one that was refused never does.  Padding never comes out:
\* dequeue() skips one, and there are never two in a row.
ImplementsPackets == PacketsQueue!Spec

\* enqueue() accepts whatever fits the storage when the buffer is drained:
\* neither the place where the last packet ended nor padding is in the way.
AcceptsWhenDrained ==
  [][IsEmpty /\ PacketCap > 0 /\ packetCall'[1] = "enqueue" =>
       (packetCall'[2] <= PayloadCap => packetRet'.ok)]_packetVars

=============================================================================
