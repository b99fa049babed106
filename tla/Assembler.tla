------------------------------ MODULE Assembler -----------------------------
(***************************************************************************)
(* The reassembler of storage/assembler.rs as the code keeps it: an array  *)
(* of contigs, each a hole followed by data.  The used contigs come first. *)
(* AssemblerSpec says what the methods promise.                            *)
(***************************************************************************)
EXTENDS Integers, Sequences

CONSTANT MaxContigs   \* ASSEMBLER_MAX_SEGMENT_COUNT

Contig(hole_size, data_size) == [hole_size |-> hole_size, data_size |-> data_size]

Unused == Contig(0, 0)

HasHole(contig) == contig.hole_size # 0

HasData(contig) == contig.data_size # 0

ContigSize(contig) == contig.hole_size + contig.data_size

\* Mutant of ShrinkHoleTo: the data moves instead of growing.
ShrinkHoleToMoves(contig, size) == Contig(size, contig.data_size)

\* shrink_hole_to(): the data grows to the left.
ShrinkHoleTo(contig, size) == Contig(size, ContigSize(contig) - size)

Index == 0 .. (MaxContigs - 1)

AssemblerNew == [i \in Index |-> Unused]

AssemblerIsEmpty(a) == ~ HasData(a[0])

PeekFront(a) == IF HasHole(a[0]) THEN 0 ELSE a[0].data_size

\* remove_contig_at(): those behind move up, as far as there are any.
RemoveContigAt(a, at) ==
  [i \in Index |-> IF i < at \/ ~ (\A j \in at .. i : HasData(a[j])) THEN a[i]
                   ELSE IF i + 1 \in Index THEN a[i + 1] ELSE Unused]

\* add_contig_at(), which is refused when the last contig is in use.
AddContigAt(a, at, contig) ==
  [i \in Index |-> IF i < at THEN a[i] ELSE IF i = at THEN contig ELSE a[i - 1]]

\* Where each contig starts, and the last one ends.
Starts(a) ==
  LET start[i \in 0 .. MaxContigs] ==
        IF i = 0 THEN 0 ELSE start[i - 1] + ContigSize(a[i - 1])
  IN  start

\* Where a loop from index i on stops, given where it would.
FirstFrom(i, stops) ==
  CHOOSE j \in stops : j >= i /\ \A k \in stops : k >= i => j <= k

-----------------------------------------------------------------------------
(* add(), in the steps of the code.                                        *)

Added(a) == [ok |-> TRUE, contigs |-> a]

TooManyHoles(a) == [ok |-> FALSE, contigs |-> a]

\* The contig that contains the start of the range.
ContigAt(a, offset) ==
  LET start == Starts(a)
  IN  FirstFrom(0, {i \in 0 .. MaxContigs : \/ i = MaxContigs \/ ~ HasData(a[i])
                                            \/ offset - start[i] <= ContigSize(a[i])})

\* Contigs that the range reaches are swallowed by contig i, and the ones
\* behind them move up.
Coalesced(a, i, end) ==
  LET start == Starts(a)
      j     == FirstFrom(i + 1, {k \in 0 .. MaxContigs : \/ k = MaxContigs \/ ~ HasData(a[k])
                                                         \/ end < start[k] - start[i] + a[k].hole_size})
      shift == j - i - 1
  IN  [x \in Index |->
         IF x = i THEN [a[i] EXCEPT !.data_size = @ + start[j] - start[i + 1]]
         ELSE IF x > i /\ (\A y \in (i + 1) .. x : HasData(a[y]))
                THEN IF x + shift \in Index THEN a[x + shift] ELSE Unused
                ELSE a[x]]

\* Mutant of Extended: the hole behind keeps its size.
ExtendedOnly(a, i, end) ==
  LET left == end - ContigSize(a[i])
  IN  IF left > 0 THEN [a EXCEPT ![i].data_size = @ + left] ELSE a

\* The range may still end in the next hole.
Extended(a, i, end) ==
  LET left == end - ContigSize(a[i])
      grown == [a EXCEPT ![i].data_size = @ + left]
  IN  IF left <= 0 THEN a
      ELSE IF i + 1 \in Index /\ HasData(a[i + 1])
             THEN [grown EXCEPT ![i + 1].hole_size = @ - left]
             ELSE grown

AssemblerAdd(a, offset, size) ==
  LET i     == ContigAt(a, offset)
      start == offset - Starts(a)[i]
      end   == start + size
      \* The range starts and ends within the hole of contig i.
      split == AddContigAt([a EXCEPT ![i].hole_size = @ - end], i, Contig(start, size))
      wide  == IF start < a[i].hole_size THEN [a EXCEPT ![i] = ShrinkHoleTo(@, start)] ELSE a
  IN  IF size = 0 THEN Added(a)
      ELSE IF i = MaxContigs THEN TooManyHoles(a)
      ELSE IF ~ HasData(a[i]) THEN Added([a EXCEPT ![i] = Contig(start, size)])
      ELSE IF end < a[i].hole_size
             THEN IF HasData(a[MaxContigs - 1]) THEN TooManyHoles(a) ELSE Added(split)
             ELSE Added(Extended(Coalesced(wide, i, end), i, end))

-----------------------------------------------------------------------------
\* remove_front(): how much it returns, and what is left.
RemovedFront(a) == IF HasHole(a[0]) \/ ~ HasData(a[0]) THEN 0 ELSE a[0].data_size

AssemblerRemoveFront(a) == IF RemovedFront(a) = 0 THEN a ELSE RemoveContigAt(a, 0)

\* Mutant of FillsFront: a segment that only shortens the first hole is added
\* like any other.
FillsFrontNever(a, offset, size) == FALSE

FillsFront(a, offset, size) == offset = 0 /\ size < a[0].hole_size

AssemblerAddThenRemoveFront(a, offset, size) ==
  LET added == AssemblerAdd(a, offset, size)
  IN  IF FillsFront(a, offset, size)
        THEN [ok |-> TRUE, n |-> size, contigs |-> [a EXCEPT ![0].hole_size = @ - size]]
      ELSE IF ~ added.ok THEN [ok |-> FALSE, n |-> 0, contigs |-> a]
      ELSE [ok |-> TRUE, n |-> RemovedFront(added.contigs),
            contigs |-> AssemblerRemoveFront(added.contigs)]

\* iter_data(): the ranges of data, as pairs of their first offset and the one
\* after their last, counted from first_offset.
IterData(a, first_offset) ==
  LET start  == Starts(a)
      ranges == [i \in 1 .. MaxContigs |->
                   << start[i - 1] + a[i - 1].hole_size + first_offset,
                      start[i] + first_offset >>]
  IN  SelectSeq(ranges, LAMBDA range : range[1] < range[2])

-----------------------------------------------------------------------------
\* The offsets that are present: the state of AssemblerSpec.
Have(a) ==
  LET start == Starts(a)
  IN  UNION {(start[i] + a[i].hole_size) .. (start[i + 1] - 1) : i \in Index}

=============================================================================
