------------------------------- MODULE TcpSeq -------------------------------
(***************************************************************************)
(* Sequence numbers of wire/tcp.rs: 32-bit integers that wrap around and   *)
(* are compared by the sign of their wrapped difference.  SeqMod stands    *)
(* for 2^32; the model checker uses a small even number.                   *)
(***************************************************************************)
EXTENDS Numbers

CONSTANT SeqMod

ASSUME SeqModAssumption == SeqMod \in Nat /\ SeqMod > 1

SeqNumber == 0 .. (SeqMod - 1)

\* Option<...>::None for the fields that hold a number.
None == -1

\* SeqNumber + usize and SeqNumber - usize: wrapping_add, wrapping_sub.
SeqAdd(a, n) == (a + n) % SeqMod

\* The wrapping difference read as a signed number.  The Rust operator
\* `a - b` panics when it is negative; `a < b` holds exactly then.
SeqDiff(a, b) ==
  LET d == (a - b) % SeqMod
  IN  IF 2 * d < SeqMod THEN d ELSE d - SeqMod

SeqLt(a, b) == SeqDiff(a, b) < 0

SeqMax(a, b) == IF SeqLt(b, a) THEN a ELSE b

=============================================================================
