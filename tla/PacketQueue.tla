----------------------------- MODULE PacketQueue ----------------------------
(***************************************************************************)
(* What storage/packet_buffer.rs promises: a queue of packets, limited in  *)
(* number by the metadata storage and in size by the payload storage.  The *)
(* octets of a packet are copies of its header, so that a packet with the  *)
(* octets of another one is seen.                                          *)
(***************************************************************************)
EXTENDS Integers, Sequences, Folds

CONSTANTS Header, Sizes, PacketCap, PayloadCap, None

VARIABLES packets, call, ret

Copies(header, size) == [i \in 1 .. size |-> header]

\* What a call returns: whether it succeeded, and the packet it showed.
Result(ok, header, data) == [ok |-> ok, header |-> header, data |-> data]

Nothing(ok) == Result(ok, None, << >>)

\* The octets of all packets of a queue.
TotalSize(queue) ==
  MapThenFoldSet(+, 0, LAMBDA i : queue[i].size, LAMBDA S : CHOOSE i \in S : TRUE, DOMAIN queue)

Init == packets = << >> /\ call = << "new" >> /\ ret = Nothing(TRUE)

Accept(size, header) ==
  /\ Len(packets) < PacketCap /\ TotalSize(packets) + size <= PayloadCap
  /\ packets' = Append(packets, [size |-> size, header |-> header])
  /\ ret' = Nothing(TRUE)

\* A packet may be refused although it would fit: the free octets need not
\* be in a row.  One that is refused leaves the queue alone.
Refuse == ret' = Nothing(FALSE) /\ UNCHANGED packets

Enqueue(size, header) ==
  call' = << "enqueue", size, header >> /\ (Accept(size, header) \/ Refuse)

\* The closure shrinks a packet of max_size octets to size octets.
EnqueueWith(max_size, size, header) ==
  call' = << "enqueue_with_infallible", max_size, size, header >> /\ (Accept(size, header) \/ Refuse)

Front == Result(TRUE, packets[1].header, Copies(packets[1].header, packets[1].size))

Shows == IF packets = << >> THEN Nothing(FALSE) ELSE Front

Rest == IF packets = << >> THEN << >> ELSE Tail(packets)

Dequeue == call' = << "dequeue" >> /\ ret' = Shows /\ packets' = Rest

\* The closure sees the front packet and keeps it in the buffer or not.
DequeueWith(takes) ==
  /\ call' = << "dequeue_with", takes >> /\ ret' = Shows
  /\ packets' = IF takes THEN Rest ELSE packets

Peek == call' = << "peek" >> /\ ret' = Shows /\ UNCHANGED packets

Reset == call' = << "reset" >> /\ ret' = Nothing(TRUE) /\ packets' = << >>

Next ==
  \/ \E size \in Sizes, header \in Header : Enqueue(size, header)
  \/ \E max_size, size \in Sizes, header \in Header :
       size <= max_size /\ EnqueueWith(max_size, size, header)
  \/ Dequeue \/ Peek \/ Reset
  \/ \E takes \in BOOLEAN : DequeueWith(takes)

Spec == Init /\ [][Next]_<< packets, call, ret >>

=============================================================================
