------------------------------- MODULE RingOps ------------------------------
(***************************************************************************)
(* The ring buffer of storage/ring_buffer.rs: every method as an operator  *)
(* from rings to rings.  A ring is the record of its fields; its storage   *)
(* is a function from indices, which start at 0 as in the code.  A method  *)
(* that is given a closure is modelled by what its callers do in it: copy  *)
(* in or out as many elements as the slice they are shown allows.          *)
(***************************************************************************)
EXTENDS Numbers, Sequences

Ring(Elem, cap) ==
  [capacity : {cap}, storage : [0 .. (cap - 1) -> Elem], read_at : 0 .. Greatest(cap - 1, 0),
   length : 0 .. cap]

RingNew(cap, elem) ==
  [capacity |-> cap, storage |-> [i \in 0 .. (cap - 1) |-> elem], read_at |-> 0, length |-> 0]

RingClear(rb) == [rb EXCEPT !.read_at = 0, !.length = 0]

RingWindow(rb) == rb.capacity - rb.length

RingIsEmpty(rb) == rb.length = 0

RingIsFull(rb) == RingWindow(rb) = 0

\* get_idx(): the index of the idx-th element after read_at.
GetIdx(rb, idx) == IF rb.capacity > 0 THEN (rb.read_at + idx) % rb.capacity ELSE 0

\* Mutant of ContiguousWindow: the end of the storage is forgotten.
ContiguousWindowPastEnd(rb) == RingWindow(rb)

ContiguousWindow(rb) == Least(RingWindow(rb), rb.capacity - GetIdx(rb, rb.length))

\* copy_from_slice() into storage[at ..].
CopyIn(rb, at, data) ==
  [rb EXCEPT !.storage = [i \in DOMAIN @ |-> IF i - at \in 0 .. (Len(data) - 1)
                                               THEN data[i - at + 1] ELSE @[i]]]

\* The slice storage[at .. at + n].
CopyOut(rb, at, n) == [i \in 1 .. n |-> rb.storage[at + i - 1]]

-----------------------------------------------------------------------------
(* One element at a time.                                                  *)

RingEnqueueOne(rb, elem) ==
  [CopyIn(rb, GetIdx(rb, rb.length), << elem >>) EXCEPT !.length = @ + 1]

RingFront(rb) == rb.storage[rb.read_at]

RingDequeueOne(rb) == [rb EXCEPT !.length = @ - 1, !.read_at = GetIdx(rb, 1)]

-----------------------------------------------------------------------------
(* Slices.                                                                 *)

\* An empty ring starts over at index 0, to have all of its space in a row.
Rewound(rb) == IF rb.length = 0 THEN [rb EXCEPT !.read_at = 0] ELSE rb

\* How many elements enqueue_many_with() shows to a closure that wants n.
EnqueueSize(rb, n) == Least(n, ContiguousWindow(Rewound(rb)))

\* enqueue_many_with(), where the closure copies the beginning of data.
EnqueueMany(rb, data) ==
  LET r == Rewound(rb)
      n == EnqueueSize(rb, Len(data))
  IN  [CopyIn(r, GetIdx(r, r.length), SubSeq(data, 1, n)) EXCEPT !.length = @ + n]

\* What data holds beyond its first n elements.
From(data, n) == SubSeq(data, n + 1, Len(data))

\* enqueue_slice(): once up to the end of the storage, once from its start.
EnqueueSlice(rb, data) ==
  EnqueueMany(EnqueueMany(rb, data), From(data, EnqueueSize(rb, Len(data))))

DequeueSize(rb, n) == Least(n, Least(rb.length, rb.capacity - rb.read_at))

\* dequeue_many_with(), where the closure takes n elements if it can.
DequeueMany(rb, n) ==
  LET size == DequeueSize(rb, n)
  IN  [rb EXCEPT !.read_at = GetIdx(rb, size), !.length = @ - size]

DequeuedMany(rb, n) == CopyOut(rb, rb.read_at, DequeueSize(rb, n))

\* dequeue_slice(): the ring, and the elements copied out.
DequeueSlice(rb, n) == DequeueMany(DequeueMany(rb, n), n - DequeueSize(rb, n))

DequeuedSlice(rb, n) ==
  DequeuedMany(rb, n) \o DequeuedMany(DequeueMany(rb, n), n - DequeueSize(rb, n))

-----------------------------------------------------------------------------
(* Random access.                                                          *)

\* The length of the slice get_unallocated() returns.
UnallocatedSize(rb, offset, size) ==
  IF offset > RingWindow(rb) THEN 0
  ELSE Least(Least(size, RingWindow(rb) - offset), rb.capacity - GetIdx(rb, rb.length + offset))

WritePiece(rb, offset, data) ==
  CopyIn(rb, GetIdx(rb, rb.length + offset),
         SubSeq(data, 1, UnallocatedSize(rb, offset, Len(data))))

\* write_unallocated(): the ring, and how many elements were written.
WriteUnallocated(rb, offset, data) ==
  LET n == UnallocatedSize(rb, offset, Len(data))
  IN  WritePiece(WritePiece(rb, offset, data), offset + n, From(data, n))

WrittenUnallocated(rb, offset, size) ==
  LET n == UnallocatedSize(rb, offset, size)
  IN  n + UnallocatedSize(rb, offset + n, size - n)

\* enqueue_unallocated() asserts count <= window().
EnqueueUnallocated(rb, count) == [rb EXCEPT !.length = @ + count]

\* get_allocated().
AllocatedSize(rb, offset, size) ==
  IF offset > rb.length THEN 0
  ELSE Least(Least(size, rb.length - offset), rb.capacity - GetIdx(rb, offset))

GetAllocated(rb, offset, size) ==
  CopyOut(rb, GetIdx(rb, offset), AllocatedSize(rb, offset, size))

\* read_allocated().
ReadAllocated(rb, offset, size) ==
  LET n == AllocatedSize(rb, offset, size)
  IN  GetAllocated(rb, offset, size) \o GetAllocated(rb, offset + n, size - n)

\* dequeue_allocated() asserts count <= len().
DequeueAllocated(rb, count) == [rb EXCEPT !.length = @ - count, !.read_at = GetIdx(rb, count)]

=============================================================================
