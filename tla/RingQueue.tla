------------------------------ MODULE RingQueue -----------------------------
(***************************************************************************)
(* What storage/ring_buffer.rs promises: a queue of at most Cap elements,  *)
(* with a free part past its end into which elements may be written before *)
(* they are enqueued.  `ahead` is that free part, counted from the end of  *)
(* the queue, `call` the last call with its arguments and `ret` what it    *)
(* returned: an implementation has to do what it was asked to, not what    *)
(* some other call would have asked for.                                   *)
(***************************************************************************)
EXTENDS Numbers, Sequences

CONSTANTS
  Elem,      \* what the buffer stores
  Cap,       \* its capacity
  MaxSlice   \* bound on the slices callers pass

VARIABLES queue, ahead, call, ret

Slices == UNION {[1 .. n -> Elem] : n \in 0 .. MaxSlice}

Free == Cap - Len(queue)

\* What a call returns: whether it succeeded, a count, and elements.
Result(ok, count, data) == [ok |-> ok, count |-> count, data |-> data]

Init ==
  /\ queue = << >> /\ ahead \in [0 .. (Cap - 1) -> Elem]
  /\ call = << "new" >> /\ ret = Result(TRUE, 0, << >>)

FreeFits == ahead' \in [0 .. (Cap - Len(queue') - 1) -> Elem]

\* data joins the queue and covers the beginning of the free part.  When the
\* queue was empty the free part may be lost, since the ring starts over.
Joins(data, mayStartOver) ==
  /\ queue' = queue \o data
  /\ FreeFits
  /\ \/ mayStartOver /\ queue = << >>
     \/ \A o \in DOMAIN ahead' : ahead'[o] = ahead[o + Len(data)]

\* n elements leave the queue; their places come after the free part.
Leaves(n) ==
  /\ queue' = SubSeq(queue, n + 1, Len(queue))
  /\ FreeFits
  /\ \A o \in DOMAIN ahead : ahead'[o] = ahead[o]

Clear ==
  /\ call' = << "clear" >>
  /\ queue' = << >> /\ FreeFits /\ ret' = Result(TRUE, 0, << >>)

EnqueueOne(elem) ==
  /\ call' = << "enqueue_one", elem >>
  /\ \/ Free > 0 /\ Joins(<< elem >>, FALSE) /\ ret' = Result(TRUE, 1, << >>)
     \/ Free = 0 /\ ret' = Result(FALSE, 0, << >>) /\ UNCHANGED << queue, ahead >>

DequeueOne ==
  /\ call' = << "dequeue_one" >>
  /\ \/ queue # << >> /\ Leaves(1) /\ ret' = Result(TRUE, 1, << queue[1] >>)
     \/ queue = << >> /\ ret' = Result(FALSE, 0, << >>) /\ UNCHANGED << queue, ahead >>

\* enqueue_many_with() takes some of what fits, and all of it into an empty
\* queue.
EnqueueMany(data) ==
  /\ call' = << "enqueue_many", data >>
  /\ \E n \in 0 .. Least(Len(data), Free) :
       /\ Free > 0 /\ data # << >> => n > 0
       /\ queue = << >> => n = Least(Len(data), Free)
       /\ Joins(SubSeq(data, 1, n), TRUE)
       /\ ret' = Result(TRUE, n, << >>)

\* enqueue_slice() takes all that fits.
EnqueueSlice(data) ==
  LET n == Least(Len(data), Free)
  IN  /\ call' = << "enqueue_slice", data >>
      /\ Joins(SubSeq(data, 1, n), TRUE) /\ ret' = Result(TRUE, n, << >>)

DequeueMany(size) ==
  /\ call' = << "dequeue_many", size >>
  /\ \E n \in 0 .. Least(size, Len(queue)) :
       /\ queue # << >> /\ size > 0 => n > 0
       /\ Leaves(n)
       /\ ret' = Result(TRUE, n, SubSeq(queue, 1, n))

DequeueSlice(size) ==
  LET n == Least(size, Len(queue))
  IN  /\ call' = << "dequeue_slice", size >>
      /\ Leaves(n) /\ ret' = Result(TRUE, n, SubSeq(queue, 1, n))

WriteUnallocated(offset, data) ==
  LET n == Greatest(Least(Len(data), Free - offset), 0)
  IN  /\ call' = << "write_unallocated", offset, data >>
      /\ ahead' = [o \in DOMAIN ahead |-> IF o - offset \in 0 .. (n - 1)
                                            THEN data[o - offset + 1] ELSE ahead[o]]
      /\ ret' = Result(TRUE, n, << >>)
      /\ UNCHANGED queue

EnqueueUnallocated(count) ==
  /\ call' = << "enqueue_unallocated", count >>
  /\ count <= Free
  /\ Joins([i \in 1 .. count |-> ahead[i - 1]], FALSE)
  /\ ret' = Result(TRUE, count, << >>)

ReadAllocated(offset, size) ==
  LET n == Greatest(Least(size, Len(queue) - offset), 0)
  IN  /\ call' = << "read_allocated", offset, size >>
      /\ ret' = Result(TRUE, n, SubSeq(queue, offset + 1, offset + n))
      /\ UNCHANGED << queue, ahead >>

DequeueAllocated(count) ==
  /\ call' = << "dequeue_allocated", count >>
  /\ count <= Len(queue) /\ Leaves(count) /\ ret' = Result(TRUE, count, << >>)

Next ==
  \/ Clear \/ DequeueOne
  \/ \E elem \in Elem : EnqueueOne(elem)
  \/ \E data \in Slices : EnqueueMany(data) \/ EnqueueSlice(data)
  \/ \E size \in 0 .. MaxSlice : DequeueMany(size) \/ DequeueSlice(size)
  \/ \E offset \in 0 .. Cap, data \in Slices : WriteUnallocated(offset, data)
  \/ \E offset \in 0 .. Cap, size \in 0 .. MaxSlice : ReadAllocated(offset, size)
  \/ \E count \in 0 .. Cap : EnqueueUnallocated(count) \/ DequeueAllocated(count)

Spec == Init /\ [][Next]_<< queue, ahead, call, ret >>

=============================================================================
