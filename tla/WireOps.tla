------------------------------- MODULE WireOps ------------------------------
(***************************************************************************)
(* Buffers of octets, as the packet wrappers in wire/ read and write them. *)
(* A buffer is a sequence of octets; offsets count from 0 and a field is   *)
(* the pair of its first offset and the one past its end, as in wire/.     *)
(* Numbers of up to three octets are numbers; addresses, sequence numbers  *)
(* and other numbers of four octets and more are the octets themselves.    *)
(* An optional value is a sequence of at most one element.                 *)
(***************************************************************************)
EXTENDS Integers, Sequences, SequencesExt

\* The field of one octet.
One(at) == << at, at + 1 >>

Ok(repr) == [ok |-> TRUE, repr |-> repr]

Err == [ok |-> FALSE]

Zeros(n) == [i \in 1 .. n |-> 0]

-----------------------------------------------------------------------------
(* Reading.                                                                *)

\* A field past the end of the buffer, which check_len() keeps from being used,
\* is empty.
Octets(b, field) == IF field[2] <= Len(b) THEN SubSeq(b, field[1] + 1, field[2]) ELSE << >>

Beyond(b, at) == SubSeq(b, at + 1, Len(b))

Number(octets) ==
  LET upto[i \in 0 .. Len(octets)] == IF i = 0 THEN 0 ELSE (256 * upto[i - 1]) + octets[i]
  IN  upto[Len(octets)]

\* read_u8, read_u16 and read_u24 of NetworkEndian.
Num(b, field) == Number(Octets(b, field))

\* Some bits of a number: shifted down and masked.
BitsOf(n, low, width) == (n \div 2^low) % 2^width

Bits(b, field, low, width) == BitsOf(Num(b, field), low, width)

Flag(b, field, bit) == Bits(b, field, bit, 1) = 1

-----------------------------------------------------------------------------
(* Writing.  What emit() does is a sequence of writes.                     *)

BigEndian(n, size) == [i \in 1 .. size |-> (n \div 256^(size - i)) % 256]

\* copy_from_slice().
Copy(at, octets) == [at |-> at, octets |-> octets]

Put(field, n) == Copy(field[1], BigEndian(n, field[2] - field[1]))

\* Some bits of a field, the others are read and written back.
PutBits(field, low, width, n) == [field |-> field, low |-> low, width |-> width, value |-> n]

PutFlag(field, bit, on) == PutBits(field, bit, 1, IF on THEN 1 ELSE 0)

Masked(old, low, width, n) ==
  ((old \div 2^(low + width)) * 2^(low + width)) + ((n % 2^width) * 2^low) + (old % 2^low)

\* A write past the end, at which the program would panic, makes the buffer longer.
Copied(b, at, octets) ==
  LET end == at + Len(octets)
      room == IF Len(b) < end THEN b \o Zeros(end - Len(b)) ELSE b
  IN  SubSeq(room, 1, at) \o octets \o SubSeq(room, end + 1, Len(room))

Written(b, w) ==
  IF "octets" \in DOMAIN w THEN Copied(b, w.at, w.octets)
  ELSE LET old == Num(b, w.field)
       IN  Copied(b, w.field[1],
                  BigEndian(Masked(old, w.low, w.width, w.value), w.field[2] - w.field[1]))

Emitted(b, writes) ==
  LET after[i \in 0 .. Len(writes)] == IF i = 0 THEN b ELSE Written(after[i - 1], writes[i])
  IN  after[Len(writes)]

\* What is done to a slice of the buffer, from an offset on.
Within(b, at, Op(_)) == SubSeq(b, 1, at) \o Op(Beyond(b, at))

\* The length that is a multiple of a unit.
RoundUp(n, unit) == ((n + unit - 1) \div unit) * unit

-----------------------------------------------------------------------------
(* The Internet checksum, from wire/ip.rs.                                 *)

PropagateCarries(word) ==
  LET sum == (word \div 65536) + (word % 65536) IN ((sum \div 65536) + sum) % 65536

\* By halves, which keeps the recursion shallow.
RECURSIVE Total(_)
Total(numbers) ==
  LET half == Len(numbers) \div 2
  IN  IF numbers = << >> THEN 0
      ELSE IF half = 0 THEN numbers[1]
      ELSE Total(SubSeq(numbers, 1, half)) + Total(Beyond(numbers, half))

\* checksum::data(): octets in pairs, and an odd one at the end.
ChecksumData(octets) ==
  PropagateCarries(Total([i \in DOMAIN octets |-> IF i % 2 = 1 THEN 256 * octets[i] ELSE octets[i]]))

Combine(checksums) == PropagateCarries(Total(checksums))

PseudoHeader(src_addr, dst_addr, next_header, length) ==
  Combine(<< ChecksumData(src_addr), ChecksumData(dst_addr),
             ChecksumData(<< 0, next_header >> \o BigEndian(length, 2)) >>)

Complement(n) == 65535 - n

=============================================================================
