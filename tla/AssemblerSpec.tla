---------------------------- MODULE AssemblerSpec ---------------------------
(***************************************************************************)
(* What storage/assembler.rs promises: it remembers WHICH octets ahead of  *)
(* the contiguous data have arrived, as long as they form no more than     *)
(* MaxContigs separate runs.  The state is just the set of offsets that    *)
(* are present.  The TCP socket model is built on these operators; the     *)
(* module Assembler refines them to the array of contigs of the code.      *)
(***************************************************************************)
EXTENDS Integers, FiniteSets

CONSTANT MaxContigs   \* ASSEMBLER_MAX_SEGMENT_COUNT

ASSUME MaxContigsAssumption == MaxContigs \in Nat \ {0}

Span(offset, size) == offset .. (offset + size - 1)

\* The first offsets of the maximal runs of have.
RunStarts(have) == {o \in have : o - 1 \notin have}

\* The length of the run that starts at offset 0: the least offset that is
\* missing.
FrontLen(have) ==
  CHOOSE n \in {0} \cup {o + 1 : o \in have} :
    n \notin have /\ \A o \in 0 .. (n - 1) : o \in have

\* The set after its first n offsets were handed over.
ShiftDown(have, n) == {o - n : o \in {p \in have : p >= n}}

\* add(): refused, leaving everything as it was, when the runs would be too
\* many.
Add(have, offset, size) ==
  LET new == have \cup Span(offset, size)
  IN  IF Cardinality(RunStarts(new)) > MaxContigs
        THEN [ok |-> FALSE, have |-> have]
        ELSE [ok |-> TRUE, have |-> new]

\* remove_front().
RemoveFront(have) ==
  [n |-> FrontLen(have), have |-> ShiftDown(have, FrontLen(have))]

\* add_then_remove_front(): the run at the front does not count against the
\* limit when the segment starts at offset 0, because it is removed at once.
AddThenRemoveFront(have, offset, size) ==
  LET new  == have \cup Span(offset, size)
      rest == RunStarts(new) \ (IF offset = 0 THEN {0} ELSE {})
  IN  IF Cardinality(rest) > MaxContigs
        THEN [ok |-> FALSE, n |-> 0, have |-> have]
        ELSE [ok |-> TRUE, n |-> FrontLen(new),
              have |-> ShiftDown(new, FrontLen(new))]

=============================================================================
