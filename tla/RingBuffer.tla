------------------------------ MODULE RingBuffer ----------------------------
(***************************************************************************)
(* A ring buffer of storage/ring_buffer.rs in use: any method, any time.   *)
(* The machine implements RingQueue, which says what the methods promise   *)
(* without indices that wrap around.                                       *)
(***************************************************************************)
EXTENDS RingOps

CONSTANTS Elem, Cap, MaxSlice

ASSUME RingAssumption == Cap \in Nat /\ MaxSlice \in Nat /\ Elem # {}

VARIABLES
  rb,    \* the ring
  call,  \* the last method called, with its arguments
  ret    \* what it returned

vars == << rb, call, ret >>

Slices == UNION {[1 .. n -> Elem] : n \in 0 .. MaxSlice}

Result(ok, count, data) == [ok |-> ok, count |-> count, data |-> data]

Init ==
  /\ rb \in {RingNew(Cap, e) : e \in Elem}
  /\ call = << "new" >> /\ ret = Result(TRUE, 0, << >>)

Clear ==
  /\ call' = << "clear" >>
  /\ rb' = RingClear(rb) /\ ret' = Result(TRUE, 0, << >>)

EnqueueOne(elem) ==
  /\ call' = << "enqueue_one", elem >>
  /\ \/ ~ RingIsFull(rb) /\ rb' = RingEnqueueOne(rb, elem) /\ ret' = Result(TRUE, 1, << >>)
     \/ RingIsFull(rb) /\ ret' = Result(FALSE, 0, << >>) /\ UNCHANGED rb

DequeueOne ==
  /\ call' = << "dequeue_one" >>
  /\ \/ ~ RingIsEmpty(rb) /\ rb' = RingDequeueOne(rb) /\ ret' = Result(TRUE, 1, << RingFront(rb) >>)
     \/ RingIsEmpty(rb) /\ ret' = Result(FALSE, 0, << >>) /\ UNCHANGED rb

EnqueueManyOf(data) ==
  /\ call' = << "enqueue_many", data >>
  /\ rb' = EnqueueMany(rb, data) /\ ret' = Result(TRUE, EnqueueSize(rb, Len(data)), << >>)

EnqueueSliceOf(data) ==
  /\ call' = << "enqueue_slice", data >>
  /\ rb' = EnqueueSlice(rb, data)
  /\ ret' = Result(TRUE, rb'.length - rb.length, << >>)

DequeueManyOf(size) ==
  /\ call' = << "dequeue_many", size >>
  /\ rb' = DequeueMany(rb, size)
  /\ ret' = Result(TRUE, DequeueSize(rb, size), DequeuedMany(rb, size))

DequeueSliceOf(size) ==
  LET data == DequeuedSlice(rb, size)
  IN  /\ call' = << "dequeue_slice", size >>
      /\ rb' = DequeueSlice(rb, size) /\ ret' = Result(TRUE, Len(data), data)

Write(offset, data) ==
  /\ call' = << "write_unallocated", offset, data >>
  /\ rb' = WriteUnallocated(rb, offset, data)
  /\ ret' = Result(TRUE, WrittenUnallocated(rb, offset, Len(data)), << >>)

EnqueueWritten(count) ==
  /\ call' = << "enqueue_unallocated", count >>
  /\ count <= RingWindow(rb)
  /\ rb' = EnqueueUnallocated(rb, count) /\ ret' = Result(TRUE, count, << >>)

Read(offset, size) ==
  LET data == ReadAllocated(rb, offset, size)
  IN  /\ call' = << "read_allocated", offset, size >>
      /\ ret' = Result(TRUE, Len(data), data) /\ UNCHANGED rb

Drop(count) ==
  /\ call' = << "dequeue_allocated", count >>
  /\ count <= rb.length
  /\ rb' = DequeueAllocated(rb, count) /\ ret' = Result(TRUE, count, << >>)

Next ==
  \/ Clear \/ DequeueOne
  \/ \E elem \in Elem : EnqueueOne(elem)
  \/ \E data \in Slices : EnqueueManyOf(data) \/ EnqueueSliceOf(data)
  \/ \E size \in 0 .. MaxSlice : DequeueManyOf(size) \/ DequeueSliceOf(size)
  \/ \E offset \in 0 .. Cap, data \in Slices : Write(offset, data)
  \/ \E offset \in 0 .. Cap, size \in 0 .. MaxSlice : Read(offset, size)
  \/ \E count \in 0 .. Cap : EnqueueWritten(count) \/ Drop(count)

Spec == Init /\ [][Next]_vars

-----------------------------------------------------------------------------
\* The fields stay in range: read_at is an index of the storage, and the
\* length never exceeds the capacity.
TypeOK == rb \in Ring(Elem, Cap)

\* The k-th place of a ring, counted from read_at.
Cell(r, k) == r.storage[GetIdx(r, k)]

\* The queue and the free part of a ring as its client sees them.
Items(r) == [i \in 1 .. r.length |-> Cell(r, i - 1)]

Spare(r) == [o \in 0 .. (Cap - r.length - 1) |-> Cell(r, r.length + o)]

Queue == INSTANCE RingQueue WITH queue <- Items(rb), ahead <- Spare(rb)

\* Every method does to the queue what RingQueue says and returns what it
\* says: wrapped around or not, slices are complete and in order, and what
\* was written ahead is what enqueue_unallocated() enqueues.
ImplementsQueue == Queue!Spec

=============================================================================
