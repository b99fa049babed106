------------------------------ MODULE RxStorage -----------------------------
(***************************************************************************)
(* The receive side of a TCP socket down to its storage: the assembler     *)
(* with its contigs and the ring buffer with its wrapping indices, used as *)
(* process(), recv_slice() and reset() of socket/tcp.rs use them.  Octets  *)
(* are numbered modulo OctetMod, more than the buffer can hold.            *)
(***************************************************************************)
EXTENDS Assembler, RingOps

CONSTANTS
  RxCap,       \* the capacity of rx_buffer
  OctetMod     \* how many different octets there are

ASSUME RxAssumption ==
  /\ MaxContigs \in Nat \ {0} /\ RxCap \in Nat \ {0} /\ OctetMod \in Nat /\ OctetMod > RxCap

VARIABLES
  assembler,   \* the contigs
  rx_buffer,   \* the ring
  next,        \* number of the octet the application reads next
  rxCall,        \* what happened last
  rxRet          \* what the assembler answered

rxVars == << assembler, rx_buffer, next, rxCall, rxRet >>

Octet == 0 .. (OctetMod - 1)

\* The octet at an offset past the contiguous data.
OctetAt(offset) == (next + rx_buffer.length + offset) % OctetMod

RxInit ==
  /\ assembler = AssemblerNew /\ rx_buffer = RingNew(RxCap, 0) /\ next = 0
  /\ rxCall = << "new" >> /\ rxRet = [ok |-> TRUE, n |-> 0]

\* process() with a payload that lies within the window.
Segment(offset, size) ==
  LET payload == [i \in 1 .. size |-> OctetAt(offset + i - 1)]
  IN  /\ offset + size <= RingWindow(rx_buffer)
      /\ rxCall' = << "segment", offset, size >>
      /\ \E added \in {AssemblerAddThenRemoveFront(assembler, offset, size)} :
           /\ rxRet' = [ok |-> added.ok, n |-> added.n]
           /\ assembler' = added.contigs
           /\ rx_buffer' = IF added.ok
                THEN EnqueueUnallocated(WriteUnallocated(rx_buffer, offset, payload), added.n)
                ELSE rx_buffer
      /\ UNCHANGED next

\* recv_slice().
Recv(size) ==
  LET data == DequeuedSlice(rx_buffer, size)
  IN  /\ data # << >>
      /\ rxCall' = << "recv_slice", data >> /\ UNCHANGED rxRet
      /\ rx_buffer' = DequeueSlice(rx_buffer, size)
      /\ next' = (next + Len(data)) % OctetMod
      /\ UNCHANGED assembler

\* reset(), and a new stream.
RxReset ==
  /\ rxCall' = << "reset" >> /\ UNCHANGED rxRet
  /\ assembler' = AssemblerNew /\ rx_buffer' = RingClear(rx_buffer) /\ next' = 0

RxNext ==
  \/ \E offset \in 0 .. RxCap, size \in 1 .. RxCap : Segment(offset, size)
  \/ \E size \in 1 .. RxCap : Recv(size)
  \/ RxReset

RxSpec == RxInit /\ [][RxNext]_rxVars

-----------------------------------------------------------------------------
\* The octets in rx_buffer are the next ones of the stream, and those in the
\* ranges that iter_data() lists past them lie at their offsets, wherever the
\* ring wraps around.  The ranges are what the assembler has recorded, in order,
\* with holes in between, and inside the free part of rx_buffer.
OctetsInPlace ==
  LET ranges == IterData(assembler, 0)
      range(i) == ranges[i][1] .. (ranges[i][2] - 1)
  IN  /\ \A i \in 0 .. (rx_buffer.length - 1) :
           rx_buffer.storage[GetIdx(rx_buffer, i)] = (next + i) % OctetMod
      /\ Have(assembler) = UNION {range(i) : i \in DOMAIN ranges}
      /\ \A i \in DOMAIN ranges :
           /\ i > 1 => ranges[i - 1][2] < ranges[i][1]
           /\ \A o \in range(i) :
                /\ o < RingWindow(rx_buffer)
                /\ rx_buffer.storage[GetIdx(rx_buffer, rx_buffer.length + o)] = OctetAt(o)

Promised == INSTANCE AssemblerSpec

\* The contigs do what AssemblerSpec, on which the TCP model is built, says
\* of them: the same octets are recorded, the same run is handed over, and the
\* same segments are refused.
ImplementsAssembler ==
  [][rxCall'[1] = "segment" =>
       LET promised == Promised!AddThenRemoveFront(Have(assembler), rxCall'[2], rxCall'[3])
       IN  /\ rxRet' = [ok |-> promised.ok, n |-> promised.n]
           /\ Have(assembler') = promised.have]_rxVars

\* The next expected octet is never refused, however many holes there are.
NextExpectedAccepted ==
  [][rxCall'[1] = "segment" /\ rxCall'[2] = 0 => rxRet'.ok /\ rxRet'.n >= rxCall'[3]]_rxVars

=============================================================================
