------------------------------ MODULE RingProofs ----------------------------
(***************************************************************************)
(* The ring buffer implements the queue, for every capacity.  All of it    *)
(* rests on Cell(r, k), the k-th place of the ring counted from read_at:   *)
(* storing changes some cells and dequeueing renumbers them, whether or    *)
(* not the indices wrap around.                                            *)
(***************************************************************************)
EXTENDS RingBuffer, SequenceTheorems, TLAPS

Rings == Ring(Elem, Cap)

-----------------------------------------------------------------------------
\* The fields of a ring.
LEMMA RingFields ==
  ASSUME NEW r \in Rings
  PROVE  /\ r.capacity = Cap /\ r.capacity \in Nat
         /\ r.storage \in [0 .. (Cap - 1) -> Elem]
         /\ r.length \in Nat /\ r.length <= Cap
         /\ r.read_at \in Nat /\ (Cap > 0 => r.read_at < Cap) /\ (Cap = 0 => r.read_at = 0)
BY RingAssumption DEF Rings, Ring, Greatest

\* The remainder of a number below twice the capacity.
LEMMA Remainder ==
  ASSUME NEW a \in Nat, a < 2 * Cap
  PROVE  a % Cap = IF a < Cap THEN a ELSE a - Cap
<1>1. Cap \in Nat
  BY RingAssumption
<1>2. CASE a < Cap
  BY <1>1, <1>2
<1>3. CASE a >= Cap
  BY <1>1, <1>3
<1> QED
  BY <1>1, <1>2, <1>3

\* get_idx() wraps at most once.
LEMMA GetIdxCases ==
  ASSUME NEW r \in Rings, NEW k \in Nat, k <= Cap, Cap > 0
  PROVE  /\ r.read_at + k < Cap => GetIdx(r, k) = r.read_at + k
         /\ r.read_at + k >= Cap => GetIdx(r, k) = r.read_at + k - Cap
         /\ GetIdx(r, k) \in 0 .. (Cap - 1)
<1>1. r.read_at \in Nat /\ r.read_at < Cap /\ Cap \in Nat /\ r.capacity = Cap
  BY RingFields, RingAssumption
<1>2. r.read_at + k \in Nat /\ r.read_at + k < 2 * Cap
  BY <1>1
<1>3. (r.read_at + k) % Cap = IF r.read_at + k < Cap THEN r.read_at + k ELSE r.read_at + k - Cap
  <2> DEFINE z == r.read_at + k
  <2>1. z \in Nat /\ z < 2 * Cap
    BY <1>2
  <2> HIDE DEF z
  <2>2. z % Cap = IF z < Cap THEN z ELSE z - Cap
    BY <2>1, Remainder
  <2> QED
    BY <1>1, <1>2, <2>2 DEF z
<1> QED
  BY <1>1, <1>3 DEF GetIdx

\* The first place is read_at.
LEMMA GetIdxZero ==
  ASSUME NEW r \in Rings
  PROVE  GetIdx(r, 0) = r.read_at
<1> DEFINE R == r.read_at
<1>1. R \in Nat /\ (Cap > 0 => R < Cap) /\ (Cap = 0 => R = 0) /\ Cap \in Nat
  BY RingFields, RingAssumption
<1>2. CASE Cap = 0
  <2>1. r.capacity = 0 /\ R = 0
    BY <1>2, RingFields
  <2> QED
    BY <2>1 DEF GetIdx
<1>3. CASE Cap > 0
  <2>1. R + 0 < Cap /\ R + 0 = R
    BY <1>1, <1>3
  <2> QED
    BY <1>1, <1>3, <2>1, GetIdxCases
<1> QED
  BY <1>1, <1>2, <1>3

\* copy_from_slice() into consecutive free or allocated places, which reach
\* neither past the end of the storage nor all the way round.
LEMMA CopyInCells ==
  ASSUME NEW r \in Rings, NEW p \in Nat, NEW data \in Seq(Elem), p <= Cap,
         p + Len(data) <= Cap, Len(data) <= Cap - GetIdx(r, p), Cap > 0
  PROVE  /\ CopyIn(r, GetIdx(r, p), data) \in Rings
         /\ CopyIn(r, GetIdx(r, p), data).read_at = r.read_at
         /\ CopyIn(r, GetIdx(r, p), data).length = r.length
         /\ \A k \in 0 .. (Cap - 1) :
              Cell(CopyIn(r, GetIdx(r, p), data), k) =
                IF k - p \in 0 .. (Len(data) - 1) THEN data[k - p + 1] ELSE Cell(r, k)
<1> DEFINE n == Len(data)
           R == r.read_at
           at == GetIdx(r, p)
           st == [i \in DOMAIN r.storage |-> IF i - at \in 0 .. (n - 1)
                                               THEN data[i - at + 1] ELSE r.storage[i]]
           q == [r EXCEPT !.storage = st]
<1>0. CopyIn(r, GetIdx(r, p), data) = q
  BY DEF CopyIn
<1>1. Cap \in Nat /\ n \in Nat /\ p + n <= Cap
  BY RingAssumption
<1>2. /\ R \in Nat /\ R < Cap
      /\ at \in Int /\ n <= Cap - at
      /\ R + p < Cap => at = R + p
      /\ R + p >= Cap => at = R + p - Cap
  <2> HIDE DEF st, q
  <2>1. R \in Nat /\ R < Cap
    BY RingFields
  <2>2. /\ R + p < Cap => at = R + p
        /\ R + p >= Cap => at = R + p - Cap
        /\ at \in 0 .. (Cap - 1)
    BY GetIdxCases
  <2>3. n <= Cap - at
    OBVIOUS
  <2> HIDE DEF at, n, R
  <2> QED
    BY <1>1, <2>1, <2>2, <2>3
<1> HIDE DEF at, n, R
<1>3. st \in [0 .. (Cap - 1) -> Elem]
  <2>1. r.storage \in [0 .. (Cap - 1) -> Elem]
    BY RingFields
  <2>2. ASSUME NEW i \in 0 .. (Cap - 1)
        PROVE  (IF i - at \in 0 .. (n - 1) THEN data[i - at + 1] ELSE r.storage[i]) \in Elem
    <3>1. CASE i - at \in 0 .. (n - 1)
      <4>1. i - at + 1 \in 1 .. n
        BY <1>1, <1>2, <3>1
      <4> QED
        BY <3>1, <4>1 DEF n
    <3>2. CASE i - at \notin 0 .. (n - 1)
      BY <2>1, <3>2, ZenonT(60)
    <3> QED
      BY <3>1, <3>2
  <2> QED
    BY <2>1, <2>2
<1>4. q \in Rings /\ q.read_at = r.read_at /\ q.length = r.length /\ q.storage = st
      /\ q.capacity = r.capacity
  <2> HIDE DEF st
  <2> QED
    BY <1>3 DEF Rings, Ring
<1>5. \A i \in 0 .. (Cap - 1) :
        st[i] = IF i - at \in 0 .. (n - 1) THEN data[i - at + 1] ELSE r.storage[i]
  BY RingFields
<1> HIDE DEF st, q
<1>6. ASSUME NEW k \in 0 .. (Cap - 1)
      PROVE  Cell(q, k) = IF k - p \in 0 .. (n - 1) THEN data[k - p + 1] ELSE Cell(r, k)
  <2> DEFINE g == GetIdx(r, k)
  <2>0. k \in Nat /\ k <= Cap
    BY <1>1
  <2>1. /\ g \in 0 .. (Cap - 1)
        /\ R + k < Cap => g = R + k
        /\ R + k >= Cap => g = R + k - Cap
    BY <2>0, GetIdxCases DEF R
  <2> HIDE DEF g
  <2>2. Cell(q, k) = st[g] /\ Cell(r, k) = r.storage[g]
    BY <1>4 DEF Cell, GetIdx, g
  <2>3. g - at \in 0 .. (n - 1) <=> k - p \in 0 .. (n - 1)
    BY <1>1, <1>2, <2>1
  <2>4. k - p \in 0 .. (n - 1) => g - at = k - p
    BY <1>1, <1>2, <2>1
  <2> QED
    BY <1>5, <2>1, <2>2, <2>3, <2>4
<1> QED
  BY <1>0, <1>4, <1>6 DEF at, n

\* Copying nothing changes nothing.
LEMMA CopyInNothing ==
  ASSUME NEW r \in Rings, NEW at
  PROVE  CopyIn(r, at, << >>) = r
<1> DEFINE st == [i \in DOMAIN r.storage |-> IF i - at \in 0 .. (Len(<< >>) - 1)
                                               THEN << >>[i - at + 1] ELSE r.storage[i]]
<1>1. Len(<< >>) = 0 /\ 0 .. (0 - 1) = {}
  OBVIOUS
<1>2. st = [i \in DOMAIN r.storage |-> r.storage[i]]
  BY <1>1
<1>3. r.storage \in [0 .. (Cap - 1) -> Elem]
  BY RingFields
<1>4. st = r.storage
  BY <1>2, <1>3
<1>5. CopyIn(r, at, << >>) = [r EXCEPT !.storage = st]
  BY DEF CopyIn
<1> HIDE DEF st
<1> QED
  BY <1>4, <1>5 DEF Rings, Ring

\* Every place holds an element.
LEMMA CellType ==
  ASSUME NEW r \in Rings, NEW k \in Nat, k < Cap
  PROVE  Cell(r, k) \in Elem
<1>1. GetIdx(r, k) \in 0 .. (Cap - 1)
  BY GetIdxCases, RingAssumption
<1> QED
  BY <1>1, RingFields DEF Cell

\* The two views of a ring.
LEMMA Views ==
  ASSUME NEW r \in Rings
  PROVE  /\ Items(r) \in Seq(Elem) /\ Len(Items(r)) = r.length
         /\ \A i \in 1 .. r.length : Items(r)[i] = Cell(r, i - 1)
         /\ Spare(r) \in [0 .. (Cap - r.length - 1) -> Elem]
         /\ \A o \in 0 .. (Cap - r.length - 1) : Spare(r)[o] = Cell(r, r.length + o)
<1>1. r.length \in Nat /\ r.length <= Cap /\ Cap \in Nat
  BY RingFields, RingAssumption
<1>2. ASSUME NEW i \in 1 .. r.length
      PROVE  Cell(r, i - 1) \in Elem
  BY <1>1, CellType
<1>3. ASSUME NEW o \in 0 .. (Cap - r.length - 1)
      PROVE  Cell(r, r.length + o) \in Elem
  BY <1>1, CellType
<1>4. Items(r) \in [1 .. r.length -> Elem]
  BY <1>2 DEF Items
<1>5. Items(r) \in Seq(Elem) /\ Len(Items(r)) = r.length
  BY <1>1, <1>4
<1>6. \A i \in 1 .. r.length : Items(r)[i] = Cell(r, i - 1)
  BY DEF Items
<1>7. Spare(r) \in [0 .. (Cap - r.length - 1) -> Elem]
  BY <1>3 DEF Spare
<1>8. \A o \in 0 .. (Cap - r.length - 1) : Spare(r)[o] = Cell(r, r.length + o)
  BY DEF Spare
<1> QED
  BY <1>5, <1>6, <1>7, <1>8

\* Storing data right behind the queue and counting it in.
Stored(r, data) ==
  [CopyIn(r, GetIdx(r, r.length), data) EXCEPT !.length = @ + Len(data)]

\* Elements copied in behind the queued ones, as the enqueue methods do,
\* join the end of the queue and leave the others as they were.
LEMMA StoredJoins ==
  ASSUME NEW r \in Rings, NEW data \in Seq(Elem), r.length + Len(data) <= Cap,
         Len(data) <= Cap - GetIdx(r, r.length)
  PROVE  /\ Stored(r, data) \in Rings
         /\ Stored(r, data).length = r.length + Len(data)
         /\ Stored(r, data).read_at = r.read_at
         /\ Items(Stored(r, data)) = Items(r) \o data
         /\ \A o \in 0 .. (Cap - Stored(r, data).length - 1) :
              Spare(Stored(r, data))[o] = Spare(r)[o + Len(data)]
<1> DEFINE n == Len(data)
           c == CopyIn(r, GetIdx(r, r.length), data)
           q == Stored(r, data)
           L == r.length
<1>1. n \in Nat /\ L \in Nat /\ Cap \in Nat /\ L + n <= Cap
  BY RingFields, RingAssumption
<1>2. /\ c \in Rings /\ c.read_at = r.read_at /\ c.length = L
      /\ \A k \in 0 .. (Cap - 1) :
           Cell(c, k) = IF k - L \in 0 .. (n - 1) THEN data[k - L + 1] ELSE Cell(r, k)
  <2>1. CASE Cap = 0
    <3>1. n = 0
      BY <1>1, <2>1
    <3>2. data = << >>
      BY <3>1
    <3>3. c = r
      BY <3>2, CopyInNothing
    <3> QED
      BY <2>1, <3>3
  <2>2. CASE Cap > 0
    <3>1. L <= Cap /\ L + Len(data) <= Cap /\ Len(data) <= Cap - GetIdx(r, L)
      BY <1>1
    <3>2. c = CopyIn(r, GetIdx(r, L), data)
      OBVIOUS
    <3>3. L = r.length
      OBVIOUS
    <3> HIDE DEF L, c
    <3> QED
      BY <1>1, <2>2, <3>1, <3>2, <3>3, CopyInCells, SMTT(60)
  <2> QED
    BY <1>1, <2>1, <2>2
<1>3. q = [c EXCEPT !.length = c.length + n]
  BY DEF Stored
<1> HIDE DEF n, c, q, L
<1>4. /\ q \in Rings /\ q.length = L + n /\ q.read_at = r.read_at
      /\ q.storage = c.storage /\ q.capacity = c.capacity
  <2> DEFINE m == c.length + n
  <2>1. m \in 0 .. Cap /\ m = L + n
    BY <1>1, <1>2
  <2>2. q = [c EXCEPT !.length = m]
    BY <1>3
  <2> HIDE DEF m
  <2> QED
    BY <1>2, <2>1, <2>2 DEF Rings, Ring
<1>5. ASSUME NEW k
      PROVE  Cell(q, k) = Cell(c, k)
  BY <1>2, <1>4 DEF Cell, GetIdx
<1>6. Items(q) = Items(r) \o data
  <2>1. Items(q) \in Seq(Elem) /\ Len(Items(q)) = L + n
    BY <1>4, Views
  <2>2. Items(r) \o data \in Seq(Elem) /\ Len(Items(r) \o data) = L + n
    <3> DEFINE s == Items(r)
    <3>1. s \in Seq(Elem) /\ Len(s) = L
      BY Views DEF L
    <3> HIDE DEF s
    <3>2. s \o data \in Seq(Elem) /\ Len(s \o data) = L + n
      BY <3>1, ConcatProperties, ZenonT(60) DEF n
    <3> QED
      BY <3>2 DEF s
  <2>3. ASSUME NEW i \in 1 .. (L + n)
        PROVE  Items(q)[i] = (Items(r) \o data)[i]
    <3>1. Items(q)[i] = Cell(c, i - 1)
      BY <1>4, <1>5, Views
    <3>2. i - 1 \in 0 .. (Cap - 1)
      BY <1>1
    <3>3. CASE i <= L
      <4>1. Items(r)[i] = Cell(r, i - 1)
        BY <1>1, <3>3, Views DEF L
      <4>2. Cell(c, i - 1) = Cell(r, i - 1)
        BY <1>1, <1>2, <3>2, <3>3
      <4>3. (Items(r) \o data)[i] = Items(r)[i]
        BY <1>1, <3>3, Views DEF L, n
      <4> QED
        BY <3>1, <4>1, <4>2, <4>3
    <3>4. CASE i > L
      <4>2. Cell(c, i - 1) = data[i - L]
        BY <1>1, <1>2, <3>2, <3>4
      <4>3. (Items(r) \o data)[i] = data[i - L]
        BY <1>1, <3>4, Views, SMTT(60) DEF L, n
      <4> QED
        BY <3>1, <4>2, <4>3
    <3>5. i <= L \/ i > L
      BY <1>1
    <3> QED
      BY <3>3, <3>4, <3>5, ZenonT(60)
  <2> QED
    BY <2>1, <2>2, <2>3, SeqEqual, SMTT(60)
<1>7. ASSUME NEW o \in 0 .. (Cap - q.length - 1)
      PROVE  Spare(q)[o] = Spare(r)[o + n]
  <2>1. Spare(q)[o] = Cell(c, L + n + o)
    BY <1>4, <1>5, Views
  <2>2. o + n \in 0 .. (Cap - L - 1) /\ L + n + o \in 0 .. (Cap - 1) /\ L + (o + n) = L + n + o
    BY <1>1, <1>4, SMTT(60)
  <2>3. Spare(r)[o + n] = Cell(r, L + n + o)
    BY <2>2, Views DEF L
  <2>4. Cell(c, L + n + o) = Cell(r, L + n + o)
    BY <1>1, <1>2, <2>2
  <2> QED
    BY <2>1, <2>3, <2>4
<1> QED
  BY <1>4, <1>6, <1>7 DEF n, q, L

\* Moving read_at over the first n elements renumbers the places.
Advanced(r, n) == [r EXCEPT !.read_at = GetIdx(r, n), !.length = @ - n]

\* Moving read_at past n elements, as the dequeue methods do, removes just
\* the first n elements of the queue.
LEMMA AdvancedLeaves ==
  ASSUME NEW r \in Rings, NEW n \in Nat, n <= r.length
  PROVE  /\ Advanced(r, n) \in Rings
         /\ Advanced(r, n).length = r.length - n
         /\ Items(Advanced(r, n)) = SubSeq(Items(r), n + 1, r.length)
         /\ \A o \in 0 .. (Cap - r.length - 1) : Spare(Advanced(r, n))[o] = Spare(r)[o]
<1> DEFINE q == Advanced(r, n)
           L == r.length
           R == r.read_at
           a == GetIdx(r, n)
           m == L - n
<1>1. /\ L \in Nat /\ Cap \in Nat /\ L <= Cap /\ n <= L /\ n <= Cap
      /\ m \in 0 .. Cap /\ R \in Nat /\ (Cap > 0 => R < Cap)
  BY RingFields, RingAssumption
<1>2. a \in 0 .. Greatest(Cap - 1, 0)
  <2>1. CASE Cap = 0
    <3>1. a = 0
      BY <2>1, RingFields DEF GetIdx
    <3> HIDE DEF a
    <3> QED
      BY <2>1, <3>1 DEF Greatest
  <2>2. CASE Cap > 0
    <3>1. a \in 0 .. (Cap - 1)
      BY <1>1, <2>2, GetIdxCases
    <3> HIDE DEF a
    <3> QED
      BY <1>1, <2>2, <3>1 DEF Greatest
  <2> QED
    BY <1>1, <2>1, <2>2
<1>3. q = [r EXCEPT !.read_at = a, !.length = m]
  BY DEF Advanced
<1>4. /\ q \in Rings /\ q.length = m /\ q.read_at = a
      /\ q.storage = r.storage /\ q.capacity = Cap
  <2> HIDE DEF q, L, R, a, m
  <2> QED
    BY <1>1, <1>2, <1>3, ZenonT(60) DEF Rings, Ring
<1>5. ASSUME NEW k \in Nat, n + k < Cap
      PROVE  Cell(q, k) = Cell(r, n + k)
  <2> DEFINE nk == n + k
             g == GetIdx(r, nk)
             h == GetIdx(q, k)
  <2>1. nk \in Nat /\ nk <= Cap /\ Cap > 0 /\ k <= Cap /\ nk = n + k
    BY <1>1, <1>5
  <2> HIDE DEF nk, q
  <2>2. /\ R + n < Cap => a = R + n
        /\ R + n >= Cap => a = R + n - Cap
        /\ a \in Int
    BY <1>1, <2>1, GetIdxCases
  <2>3. /\ R + nk < Cap => g = R + nk
        /\ R + nk >= Cap => g = R + nk - Cap
        /\ g \in Int
    BY <1>1, <2>1, GetIdxCases
  <2>4. /\ a + k < Cap => h = a + k
        /\ a + k >= Cap => h = a + k - Cap
        /\ h \in Int
    BY <1>1, <1>4, <2>1, GetIdxCases
  <2>5. g = h
    <3> HIDE DEF g, h, a, R
    <3> QED
      BY <1>1, <2>1, <2>2, <2>3, <2>4
  <2> QED
    BY <1>4, <2>5 DEF Cell, nk
<1> HIDE DEF q, L, R, a, m
<1>6. Items(q) = SubSeq(Items(r), n + 1, L)
  <2> DEFINE s == Items(r)
             t == SubSeq(s, n + 1, L)
  <2>1. Items(q) \in Seq(Elem) /\ Len(Items(q)) = m
        /\ \A i \in 1 .. m : Items(q)[i] = Cell(q, i - 1)
    BY <1>4, Views
  <2>2. s \in Seq(Elem) /\ Len(s) = L /\ \A i \in 1 .. L : s[i] = Cell(r, i - 1)
    BY Views DEF L
  <2> HIDE DEF s
  <2>3. t \in Seq(Elem) /\ Len(t) = m /\ \A i \in 1 .. m : t[i] = s[n + i]
    BY <1>1, <2>2 DEF m
  <2> HIDE DEF t
  <2>4. ASSUME NEW i \in 1 .. m
        PROVE  Items(q)[i] = t[i]
    <3>1. i - 1 \in Nat /\ n + (i - 1) < Cap /\ n + i \in 1 .. L /\ n + (i - 1) = (n + i) - 1
      BY <1>1 DEF m
    <3>2. Cell(q, i - 1) = Cell(r, (n + i) - 1)
      BY <1>5, <3>1
    <3>3. s[n + i] = Cell(r, (n + i) - 1)
      BY <2>2, <3>1
    <3> QED
      BY <2>1, <2>3, <3>2, <3>3
  <2>5. Items(q) = t
    BY <2>1, <2>3, <2>4, SeqEqual
  <2> QED
    BY <2>5 DEF t, s
<1>7. ASSUME NEW o \in 0 .. (Cap - L - 1)
      PROVE  Spare(q)[o] = Spare(r)[o]
  <2>1. /\ m + o \in Nat /\ n + (m + o) < Cap /\ n + (m + o) = L + o
        /\ o \in 0 .. (Cap - m - 1)
    BY <1>1 DEF m
  <2>2. Spare(q)[o] = Cell(q, m + o)
    BY <1>4, <2>1, Views
  <2>3. Spare(r)[o] = Cell(r, L + o)
    BY Views DEF L
  <2>4. Cell(q, m + o) = Cell(r, L + o)
    BY <1>5, <2>1
  <2> QED
    BY <2>2, <2>3, <2>4
<1> QED
  BY <1>4, <1>6, <1>7 DEF q, L, m

\* A slice of the storage that holds elements of the queue.
LEMMA CopyOutItems ==
  ASSUME NEW r \in Rings, NEW p \in Nat, NEW n \in Nat, p + n <= r.length,
         n <= Cap - GetIdx(r, p)
  PROVE  CopyOut(r, GetIdx(r, p), n) = SubSeq(Items(r), p + 1, p + n)
<1> DEFINE L == r.length
           R == r.read_at
           a == GetIdx(r, p)
           s == Items(r)
           t == SubSeq(s, p + 1, p + n)
           u == CopyOut(r, a, n)
<1>1. /\ L \in Nat /\ Cap \in Nat /\ L <= Cap /\ p + n <= L
      /\ R \in Nat /\ (Cap > 0 => R < Cap)
  BY RingFields, RingAssumption
<1>2. s \in Seq(Elem) /\ Len(s) = L /\ \A i \in 1 .. L : s[i] = Cell(r, i - 1)
  BY Views
<1> HIDE DEF s
<1>3. t \in Seq(Elem) /\ Len(t) = n /\ \A i \in 1 .. n : t[i] = s[p + i]
  <2> HIDE DEF L, R
  <2> DEFINE e == p + n
  <2>1. e \in Nat /\ e <= L /\ n = e - p
    BY <1>1
  <2> HIDE DEF e
  <2>2. /\ SubSeq(s, p + 1, e) \in Seq(Elem) /\ Len(SubSeq(s, p + 1, e)) = e - p
        /\ \A i \in 1 .. (e - p) : SubSeq(s, p + 1, e)[i] = s[p + i]
    BY <1>1, <1>2, <2>1
  <2> QED
    BY <2>1, <2>2 DEF e
<1>4. ASSUME NEW i \in 1 .. n
      PROVE  r.storage[a + i - 1] = t[i]
  <2> DEFINE k == p + i - 1
             g == GetIdx(r, k)
  <2>1. k \in Nat /\ k < Cap /\ k + 1 \in 1 .. L /\ k = p + i - 1 /\ Cap > 0 /\ p <= Cap
        /\ p + i = k + 1 /\ (k + 1) - 1 = k
    <3> HIDE DEF L
    <3> QED
      BY <1>1
  <2> HIDE DEF k
  <2>2. /\ R + p < Cap => a = R + p
        /\ R + p >= Cap => a = R + p - Cap
        /\ a \in Int /\ n <= Cap - a
    BY <1>1, <2>1, GetIdxCases
  <2>3. /\ R + k < Cap => g = R + k
        /\ R + k >= Cap => g = R + k - Cap
        /\ g \in Int
    BY <1>1, <2>1, GetIdxCases
  <2>4. g = a + i - 1
    <3> HIDE DEF g, a, R
    <3> QED
      BY <1>1, <2>1, <2>2, <2>3
  <2>5. s[k + 1] = r.storage[g]
    <3> HIDE DEF L
    <3> QED
      BY <1>2, <2>1, SMTT(60) DEF Cell
  <2>6. t[i] = s[k + 1]
    <3> HIDE DEF t
    <3> QED
      BY <1>3, <2>1
  <2> QED
    BY <2>4, <2>5, <2>6
<1> HIDE DEF t, a
<1>5. u = [i \in 1 .. n |-> t[i]]
  BY <1>4 DEF CopyOut
<1>6. u \in Seq(Elem) /\ Len(u) = n /\ \A i \in 1 .. n : u[i] = t[i]
  <2>1. \A i \in 1 .. n : t[i] \in Elem
    BY <1>3
  <2>2. u \in [1 .. n -> Elem]
    BY <1>5, <2>1
  <2> HIDE DEF u
  <2> QED
    BY <1>5, <2>2
<1> HIDE DEF u
<1>7. u = t
  BY <1>3, <1>6, SeqEqual
<1> QED
  BY <1>7 DEF u, t, a, s

-----------------------------------------------------------------------------
(* Sequences: the beginning of a slice, and the beginning of what remains. *)

\* The slice of the elements after the first m, up to the n-th.
LEMMA Slice ==
  ASSUME NEW s \in Seq(Elem), NEW m \in Nat, NEW n \in Nat, m <= n, n <= Len(s)
  PROVE  /\ SubSeq(s, m + 1, n) \in Seq(Elem) /\ Len(SubSeq(s, m + 1, n)) = n - m
         /\ \A i \in 1 .. (n - m) : SubSeq(s, m + 1, n)[i] = s[m + i]
BY LenProperties

\* The first n elements of data are a sequence of n of its elements.
LEMMA Prefix ==
  ASSUME NEW s \in Seq(Elem), NEW n \in Nat, n <= Len(s)
  PROVE  /\ SubSeq(s, 1, n) \in Seq(Elem) /\ Len(SubSeq(s, 1, n)) = n
         /\ \A i \in 1 .. n : SubSeq(s, 1, n)[i] = s[i]
BY LenProperties

\* A slice taken in two pieces.
LEMMA TwoPieces ==
  ASSUME NEW s \in Seq(Elem), NEW m \in Nat, NEW n \in Nat, NEW k \in Nat,
         m + n + k <= Len(s)
  PROVE  SubSeq(s, m + 1, m + n) \o SubSeq(s, m + n + 1, m + n + k)
           = SubSeq(s, m + 1, m + n + k)
<1> DEFINE b == m + n
           c == m + n + k
           s1 == SubSeq(s, m + 1, b)
           s2 == SubSeq(s, b + 1, c)
           s3 == SubSeq(s, m + 1, c)
<1>1. b \in Nat /\ c \in Nat /\ m <= b /\ b <= c /\ b <= Len(s) /\ c <= Len(s) /\ m <= c
      /\ b - m = n /\ c - b = k /\ c - m = n + k
  BY LenProperties
<1> HIDE DEF b, c
<1>2. s1 \in Seq(Elem) /\ Len(s1) = n /\ \A i \in 1 .. n : s1[i] = s[m + i]
  BY <1>1, Slice, SMTT(60)
<1>3. s2 \in Seq(Elem) /\ Len(s2) = k /\ \A i \in 1 .. k : s2[i] = s[b + i]
  BY <1>1, Slice
<1>4. s3 \in Seq(Elem) /\ Len(s3) = n + k /\ \A i \in 1 .. (n + k) : s3[i] = s[m + i]
  BY <1>1, Slice
<1> HIDE DEF s1, s2, s3
<1> DEFINE s12 == s1 \o s2
<1>5. /\ s12 \in Seq(Elem) /\ Len(s12) = n + k
      /\ \A i \in 1 .. (n + k) : s12[i] = IF i <= n THEN s1[i] ELSE s2[i - n]
  BY <1>2, <1>3, ConcatProperties
<1> HIDE DEF s12
<1>6. ASSUME NEW i \in 1 .. (n + k)
      PROVE  s12[i] = s3[i]
  <2>0. s3[i] = s[m + i]
    BY <1>4
  <2>1. CASE i <= n
    <3>1. i \in 1 .. n
      BY <2>1
    <3>2. s12[i] = s1[i]
      BY <1>5, <2>1
    <3> QED
      BY <1>2, <2>0, <3>1, <3>2
  <2>2. CASE i > n
    <3>1. i - n \in 1 .. k /\ b + (i - n) = m + i
      BY <1>1, <2>2
    <3>2. s12[i] = s2[i - n]
      BY <1>5, <2>2
    <3> QED
      BY <1>3, <2>0, <3>1, <3>2
  <2>3. i <= n \/ i > n
    OBVIOUS
  <2> QED
    BY <2>1, <2>2, <2>3
<1>7. s12 = s3
  BY <1>4, <1>5, <1>6, SeqEqual
<1> QED
  BY <1>7 DEF b, c, s1, s2, s3, s12

\* Concatenation is associative: two pieces written by enqueue_slice() one
\* after the other are the slice they were cut from.
LEMMA Associative ==
  \A s1, s2, s3 \in Seq(Elem) : (s1 \o s2) \o s3 = s1 \o (s2 \o s3)
<1> SUFFICES ASSUME NEW s1 \in Seq(Elem), NEW s2 \in Seq(Elem), NEW s3 \in Seq(Elem)
             PROVE  (s1 \o s2) \o s3 = s1 \o (s2 \o s3)
  BY SMTT(60)
<1> QED
  BY ConcatAssociative, SMTT(60)

\* The same, when the second piece is taken from what remains.
LEMMA PieceOfRest ==
  ASSUME NEW s \in Seq(Elem), NEW n \in Nat, NEW k \in Nat, n + k <= Len(s)
  PROVE  /\ SubSeq(SubSeq(s, n + 1, Len(s)), 1, k) = SubSeq(s, n + 1, n + k)
         /\ SubSeq(s, 1, n) \o SubSeq(SubSeq(s, n + 1, Len(s)), 1, k) = SubSeq(s, 1, n + k)
<1> DEFINE L == Len(s)
           c == n + k
           u == SubSeq(s, n + 1, L)
           s1 == SubSeq(u, 1, k)
           s2 == SubSeq(s, n + 1, c)
<1>1. L \in Nat /\ n <= L /\ c \in Nat /\ n <= c /\ c <= L /\ c - n = k /\ k <= L - n
  BY LenProperties
<1>2. L <= Len(s)
  BY <1>1
<1> HIDE DEF L, c
<1>3. u \in Seq(Elem) /\ Len(u) = L - n /\ \A i \in 1 .. (L - n) : u[i] = s[n + i]
  BY <1>1, <1>2, Slice, SMTT(60)
<1> HIDE DEF u
<1>4. s1 \in Seq(Elem) /\ Len(s1) = k /\ \A i \in 1 .. k : s1[i] = u[i]
  BY <1>1, <1>3, Prefix
<1>5. s2 \in Seq(Elem) /\ Len(s2) = k /\ \A i \in 1 .. k : s2[i] = s[n + i]
  <2>1. c <= Len(s)
    BY <1>1 DEF L
  <2> QED
    BY <1>1, <2>1, Slice
<1> HIDE DEF s1, s2
<1>6. ASSUME NEW i \in 1 .. k
      PROVE  s1[i] = s2[i]
  <2>1. i \in 1 .. (L - n)
    BY <1>1
  <2> QED
    BY <1>3, <1>4, <1>5, <2>1, SMTT(60)
<1>7. s1 = s2
  BY <1>4, <1>5, <1>6, SeqEqual
<1>8. SubSeq(s, 1, n) \o s2 = SubSeq(s, 1, c)
  <2>1. 0 + n + k <= Len(s) /\ 0 + 1 = 1 /\ 0 + n = n /\ 0 \in Nat
    BY <1>1 DEF c, L
  <2>2. SubSeq(s, 0 + 1, 0 + n) \o SubSeq(s, 0 + n + 1, 0 + n + k) = SubSeq(s, 0 + 1, 0 + n + k)
    BY <2>1, TwoPieces
  <2> QED
    BY <2>1, <2>2 DEF s2, c
<1> QED
  BY <1>7, <1>8 DEF s1, s2, u, c, L

\* What remains of what remains.
LEMMA RestOfRest ==
  ASSUME NEW s \in Seq(Elem), NEW n \in Nat, NEW k \in Nat, NEW L, L = Len(s), n + k <= L
  PROVE  SubSeq(SubSeq(s, n + 1, L), k + 1, L - n) = SubSeq(s, (n + k) + 1, L)
<1> DEFINE v == n + k
           j == L - n
           u == SubSeq(s, n + 1, L)
           s1 == SubSeq(u, k + 1, j)
           s2 == SubSeq(s, v + 1, L)
<1>1. /\ L \in Nat /\ n <= L /\ v \in Nat /\ v <= L /\ j \in Nat /\ k <= j /\ j - k = L - v
      /\ j = L - n /\ v = n + k
  BY LenProperties
<1> HIDE DEF v, j
<1>2. u \in Seq(Elem) /\ Len(u) = j /\ \A i \in 1 .. j : u[i] = s[n + i]
  <2>1. L <= Len(s)
    BY <1>1
  <2> QED
    BY <1>1, <2>1, Slice
<1> HIDE DEF u
<1>3. s1 \in Seq(Elem) /\ Len(s1) = L - v /\ \A i \in 1 .. (L - v) : s1[i] = u[k + i]
  <2>1. j <= Len(u)
    BY <1>1, <1>2
  <2> QED
    BY <1>1, <1>2, <2>1, Slice
<1>4. s2 \in Seq(Elem) /\ Len(s2) = L - v /\ \A i \in 1 .. (L - v) : s2[i] = s[v + i]
  <2>1. L <= Len(s)
    BY <1>1
  <2> QED
    BY <1>1, <2>1, Slice
<1> HIDE DEF s1, s2
<1>5. ASSUME NEW i \in 1 .. (L - v)
      PROVE  s1[i] = s2[i]
  <2>1. k + i \in 1 .. j /\ n + (k + i) = v + i
    BY <1>1
  <2> QED
    BY <1>2, <1>3, <1>4, <2>1, SMTT(60)
<1>6. s1 = s2
  BY <1>3, <1>4, <1>5, SeqEqual
<1> QED
  BY <1>6 DEF s1, s2, u, v, j

-----------------------------------------------------------------------------
(* Each method of the ring, in terms of the two views.                     *)

JoinsRing(r, q, data, over) ==
  /\ q \in Rings /\ q.length = r.length + Len(data)
  /\ Items(q) = Items(r) \o data
  /\ \/ over /\ r.length = 0
     \/ \A o \in 0 .. (Cap - q.length - 1) : Spare(q)[o] = Spare(r)[o + Len(data)]

LeavesRing(r, q, n) ==
  /\ q \in Rings /\ q.length = r.length - n
  /\ Items(q) = SubSeq(Items(r), n + 1, r.length)
  /\ \A o \in 0 .. (Cap - r.length - 1) : Spare(q)[o] = Spare(r)[o]

\* enqueue_one() into a ring that is not full.
LEMMA EnqueueOneJoins ==
  ASSUME NEW r \in Rings, NEW e \in Elem, r.length < Cap
  PROVE  JoinsRing(r, RingEnqueueOne(r, e), << e >>, FALSE)
<1> DEFINE data == << e >>
           L == r.length
<1>1. data \in Seq(Elem) /\ Len(data) = 1
  OBVIOUS
<1>2. L \in Nat /\ L <= Cap /\ Cap \in Nat /\ Cap > 0 /\ L + 1 <= Cap
  BY RingFields, RingAssumption
<1>3. GetIdx(r, L) \in 0 .. (Cap - 1)
  <2>1. L = r.length
    OBVIOUS
  <2> HIDE DEF L
  <2> QED
    BY <1>2, GetIdxCases
<1>4. 1 <= Cap - GetIdx(r, L)
  BY <1>2, <1>3
<1>5. RingEnqueueOne(r, e) = Stored(r, data)
  BY <1>1 DEF RingEnqueueOne, Stored
<1> HIDE DEF data
<1>6. JoinsRing(r, Stored(r, data), data, FALSE)
  BY <1>1, <1>2, <1>4, StoredJoins, ZenonT(60) DEF JoinsRing
<1> QED
  BY <1>5, <1>6, ZenonT(60) DEF data

\* Starting over keeps the (empty) queue.
LEMMA RewoundKeeps ==
  ASSUME NEW r \in Rings
  PROVE  /\ Rewound(r) \in Rings /\ Rewound(r).length = r.length
         /\ Items(Rewound(r)) = Items(r)
         /\ r.length # 0 => Rewound(r) = r
         /\ r.length = 0 => Rewound(r).read_at = 0
<1>1. CASE r.length # 0
  BY <1>1 DEF Rewound
<1>2. CASE r.length = 0
  <2> DEFINE q == [r EXCEPT !.read_at = 0]
  <2>1. Rewound(r) = q
    BY <1>2 DEF Rewound
  <2>2. 0 \in 0 .. Greatest(Cap - 1, 0)
    BY RingAssumption DEF Greatest
  <2>3. q \in Rings /\ q.length = 0 /\ q.read_at = 0
    BY <1>2, <2>2 DEF Rings, Ring
  <2> HIDE DEF q
  <2>4. Items(q) = << >> /\ Items(r) = << >>
    BY <1>2, <2>3, Views
  <2> QED
    BY <1>2, <2>1, <2>3, <2>4
<1> QED
  BY <1>1, <1>2

\* The contiguous space behind the queue is the free space, or it ends at the
\* end of the storage, where the next place is index 0.
LEMMA Contiguous ==
  ASSUME NEW r \in Rings
  PROVE  /\ ContiguousWindow(r) \in Nat
         /\ ContiguousWindow(r) <= Cap - r.length
         /\ ContiguousWindow(r) <= Cap - GetIdx(r, r.length)
         /\ r.length < Cap => ContiguousWindow(r) > 0
         /\ r.read_at = 0 => ContiguousWindow(r) = Cap - r.length
         /\ ContiguousWindow(r) < Cap - r.length =>
              GetIdx(r, r.length + ContiguousWindow(r)) = 0
<1> DEFINE L == r.length
           R == r.read_at
           a == GetIdx(r, L)
           w == ContiguousWindow(r)
<1>1. L \in Nat /\ L <= Cap /\ Cap \in Nat /\ R \in Nat /\ (Cap > 0 => R < Cap)
  BY RingFields, RingAssumption
<1>2. L = r.length /\ r.capacity = Cap
  BY RingFields
<1>3. /\ Cap - L <= Cap - a => w = Cap - L
      /\ ~ (Cap - L <= Cap - a) => w = Cap - a
  BY <1>2 DEF ContiguousWindow, RingWindow, Least
<1>4. CASE Cap = 0
  <2>1. a = 0
    BY <1>2, <1>4 DEF GetIdx
  <2> HIDE DEF L, R, a, w
  <2>2. L = 0 /\ w = 0
    BY <1>1, <1>3, <1>4, <2>1
  <2>3. r.length = 0 /\ ContiguousWindow(r) = 0 /\ GetIdx(r, r.length) = 0
    BY <1>2, <2>1, <2>2 DEF a, w
  <2> QED
    BY <1>4, <2>3
<1>5. CASE Cap > 0
  <2> HIDE DEF L, w
  <2>1. /\ R + L < Cap => a = R + L
        /\ R + L >= Cap => a = R + L - Cap
        /\ a \in Int /\ a < Cap /\ 0 <= a
    BY <1>1, <1>5, <1>2, GetIdxCases
  <2> HIDE DEF R, a
  <2>2. /\ w \in Nat /\ w <= Cap - L /\ w <= Cap - a
        /\ L < Cap => w > 0
        /\ R = 0 => w = Cap - L
        /\ w < Cap - L => R + L + w = Cap
    BY <1>1, <1>3, <1>5, <2>1
  <2>3. ASSUME w < Cap - L
        PROVE  GetIdx(r, L + w) = 0
    <3> DEFINE k == L + w
    <3>1. k \in Nat /\ k <= Cap /\ R + k = Cap
      BY <1>1, <2>2, <2>3
    <3> HIDE DEF k
    <3>2. GetIdx(r, k) = 0
      BY <1>1, <1>5, <3>1, GetIdxCases DEF R
    <3> QED
      BY <3>2 DEF k
  <2> QED
    BY <1>2, <2>2, <2>3 DEF w, a, R
<1> QED
  BY <1>1, <1>4, <1>5

\* enqueue_many_with(): how much it takes, and where it stops.
LEMMA EnqueueManyJoins ==
  ASSUME NEW r \in Rings, NEW data \in Seq(Elem)
  PROVE  /\ EnqueueSize(r, Len(data)) \in Nat
         /\ EnqueueSize(r, Len(data)) <= Len(data)
         /\ EnqueueSize(r, Len(data)) <= Cap - r.length
         /\ r.length < Cap /\ Len(data) > 0 => EnqueueSize(r, Len(data)) > 0
         /\ r.length = 0 => EnqueueSize(r, Len(data)) = Least(Len(data), Cap - r.length)
         /\ JoinsRing(r, EnqueueMany(r, data), SubSeq(data, 1, EnqueueSize(r, Len(data))), TRUE)
         /\ \/ EnqueueSize(r, Len(data)) = Len(data)
            \/ EnqueueMany(r, data).length = Cap
            \/ /\ r.length # 0
               /\ GetIdx(EnqueueMany(r, data), EnqueueMany(r, data).length) = 0
<1> DEFINE t == Rewound(r)
           d == Len(data)
           n == EnqueueSize(r, d)
           w == ContiguousWindow(t)
           part == SubSeq(data, 1, n)
           q == EnqueueMany(r, data)
           L == r.length
<1>1. /\ t \in Rings /\ t.length = L /\ Items(t) = Items(r)
      /\ L # 0 => t = r
      /\ L = 0 => t.read_at = 0
  BY RewoundKeeps
<1>2. L \in Nat /\ L <= Cap /\ Cap \in Nat /\ d \in Nat
  BY RingFields, RingAssumption, LenProperties
<1>3. n = Least(d, w)
  BY DEF EnqueueSize
<1> HIDE DEF t, d, n
<1>4. /\ w \in Nat /\ w <= Cap - L /\ w <= Cap - GetIdx(t, t.length)
      /\ L < Cap => w > 0
      /\ t.read_at = 0 => w = Cap - L
      /\ w < Cap - L => GetIdx(t, t.length + w) = 0
  BY <1>1, Contiguous
<1>5. L = 0 => w = Cap - L
  BY <1>1, <1>4
<1> HIDE DEF w, L
<1>6. /\ n \in Nat /\ n <= d /\ n <= w /\ n <= Cap - L
      /\ L < Cap /\ d > 0 => n > 0
      /\ n = d \/ n = w
  BY <1>2, <1>3, <1>4 DEF Least
<1>7. L = 0 => n = Least(d, Cap - L)
  BY <1>3, <1>5
<1>8. part \in Seq(Elem) /\ Len(part) = n
  BY <1>6, Prefix DEF d
<1>9. q = Stored(t, part)
  <2>1. q = [CopyIn(t, GetIdx(t, t.length), part) EXCEPT !.length = @ + n]
    BY DEF EnqueueMany, t, n, d
  <2> QED
    BY <1>8, <2>1, ZenonT(60) DEF Stored
<1> HIDE DEF part, q
<1>10. t.length + Len(part) <= Cap /\ Len(part) <= Cap - GetIdx(t, t.length)
  <2> DEFINE a == GetIdx(t, t.length)
  <2>1. a \in Int
    <3>1. CASE Cap = 0
      BY <1>1, <3>1, RingFields DEF GetIdx
    <3>2. CASE Cap > 0
      BY <1>1, <1>2, <3>2, GetIdxCases
    <3> QED
      BY <1>2, <3>1, <3>2
  <2>2. w <= Cap - a
    BY <1>4
  <2> HIDE DEF a
  <2>3. L + n <= Cap /\ n <= Cap - a
    BY <1>2, <1>4, <1>6, <2>1, <2>2
  <2> QED
    BY <1>1, <1>8, <2>3 DEF a
<1>11. /\ q \in Rings /\ q.length = L + n /\ q.read_at = t.read_at
       /\ Items(q) = Items(t) \o part
       /\ \A o \in 0 .. (Cap - q.length - 1) : Spare(q)[o] = Spare(t)[o + Len(part)]
  BY <1>1, <1>8, <1>9, <1>10, StoredJoins, ZenonT(60)
<1>12. JoinsRing(r, q, part, TRUE)
  BY <1>1, <1>8, <1>11 DEF JoinsRing, L
<1>13. n = d \/ q.length = Cap \/ (L # 0 /\ GetIdx(q, q.length) = 0)
  <2> SUFFICES ASSUME n # d, q.length # Cap
               PROVE  L # 0 /\ GetIdx(q, q.length) = 0
    OBVIOUS
  <2>1. n = w /\ w < Cap - L
    BY <1>2, <1>4, <1>6, <1>11
  <2>2. L # 0
    BY <1>2, <1>5, <2>1
  <2>3. GetIdx(t, L + n) = 0
    BY <1>1, <1>4, <2>1
  <2>4. q.capacity = t.capacity
    BY <1>1, <1>11, RingFields
  <2> QED
    BY <1>11, <2>2, <2>3, <2>4 DEF GetIdx
<1> QED
  BY <1>6, <1>7, <1>12, <1>13, ZenonT(60) DEF n, d, part, q, L

\* enqueue_slice() takes all that fits: its second call starts at index 0.
LEMMA EnqueueSliceJoins ==
  ASSUME NEW r \in Rings, NEW data \in Seq(Elem)
  PROVE  /\ EnqueueSlice(r, data).length - r.length = Least(Len(data), Cap - r.length)
         /\ JoinsRing(r, EnqueueSlice(r, data),
                      SubSeq(data, 1, Least(Len(data), Cap - r.length)), TRUE)
<1> DEFINE d == Len(data)
           L == r.length
           n == EnqueueSize(r, d)
           q == EnqueueMany(r, data)
           rest == From(data, n)
           k == EnqueueSize(q, Len(rest))
           z == EnqueueMany(q, rest)
           p1 == SubSeq(data, 1, n)
           p2 == SubSeq(rest, 1, k)
           m == Least(d, Cap - L)
           p == SubSeq(data, 1, m)
<1>1. L \in Nat /\ L <= Cap /\ Cap \in Nat /\ d \in Nat
  BY RingFields, RingAssumption, LenProperties
<1>2. EnqueueSlice(r, data) = z
  BY DEF EnqueueSlice
<1>3. /\ n \in Nat /\ n <= d /\ n <= Cap - L
      /\ JoinsRing(r, q, p1, TRUE)
      /\ n = d \/ q.length = Cap \/ (L # 0 /\ GetIdx(q, q.length) = 0)
  BY EnqueueManyJoins, ZenonT(60)
<1> HIDE DEF n, q
<1>4. p1 \in Seq(Elem) /\ Len(p1) = n
  BY <1>3, Prefix
<1>5. rest \in Seq(Elem) /\ Len(rest) = d - n
  <2> HIDE DEF d
  <2>1. rest = SubSeq(data, n + 1, d)
    BY DEF From, d
  <2>2. d <= Len(data)
    BY <1>1 DEF d
  <2> QED
    BY <1>1, <1>3, <2>1, <2>2, Slice
<1>6. q \in Rings /\ q.length = L + n /\ Items(q) = Items(r) \o p1
      /\ (L = 0 \/ \A o \in 0 .. (Cap - q.length - 1) : Spare(q)[o] = Spare(r)[o + n])
  BY <1>3, <1>4 DEF JoinsRing
<1> HIDE DEF rest, d
<1>7. /\ k \in Nat /\ k <= Len(rest) /\ k <= Cap - q.length
      /\ JoinsRing(q, z, p2, TRUE)
  BY <1>5, <1>6, EnqueueManyJoins, ZenonT(60)
<1> HIDE DEF z
<1>8. n + k = m
  <2> HIDE DEF L, k, m
  <2>0. /\ d <= Cap - L => m = d
        /\ ~ (d <= Cap - L) => m = Cap - L
    BY DEF m, Least
  <2>1. CASE n = d
    BY <1>1, <1>3, <1>5, <1>7, <2>0, <2>1
  <2>2. CASE q.length = Cap
    <3>1. k <= 0 /\ L + n = Cap
      BY <1>1, <1>6, <1>7, <2>2
    <3> QED
      BY <1>1, <1>3, <1>7, <2>0, <3>1
  <2>3. CASE L # 0 /\ GetIdx(q, q.length) = 0
    <3>1. q.length # 0 /\ q.capacity = Cap
      BY <1>1, <1>3, <1>6, <2>3, RingFields
    <3>2. Rewound(q) = q
      BY <1>6, <3>1, RewoundKeeps
    <3>3. k = Least(d - n, Least(Cap - (L + n), Cap - 0))
      BY <1>5, <1>6, <2>3, <3>1, <3>2 DEF k, EnqueueSize, ContiguousWindow, RingWindow
    <3>4. Least(Cap - (L + n), Cap - 0) = Cap - (L + n)
      BY <1>1, <1>3 DEF Least
    <3>5. /\ d - n <= Cap - (L + n) => k = d - n
          /\ ~ (d - n <= Cap - (L + n)) => k = Cap - (L + n)
      BY <3>3, <3>4 DEF Least
    <3> QED
      BY <1>1, <1>3, <1>7, <2>0, <3>5
  <2> QED
    BY <1>3, <2>1, <2>2, <2>3
<1>9. p2 \in Seq(Elem) /\ Len(p2) = k
  BY <1>5, <1>7, Prefix
<1>10. p1 \o p2 = p
  <2>1. n + k <= Len(data)
    BY <1>1, <1>3, <1>5, <1>7 DEF d
  <2>2. rest = SubSeq(data, n + 1, Len(data))
    BY DEF rest, From
  <2> HIDE DEF k, m
  <2>3. p1 \o p2 = SubSeq(data, 1, n + k)
    BY <1>3, <1>7, <2>1, <2>2, PieceOfRest, SMTT(60)
  <2> QED
    BY <1>8, <2>3, ZenonT(60)
<1> HIDE DEF k, p1, p2
<1>11. /\ z \in Rings /\ z.length = L + n + k /\ Items(z) = Items(q) \o p2
       /\ (q.length = 0 \/ \A o \in 0 .. (Cap - z.length - 1) : Spare(z)[o] = Spare(q)[o + k])
  BY <1>6, <1>7, <1>9 DEF JoinsRing
<1> HIDE DEF m
<1>12. p \in Seq(Elem) /\ Len(p) = m /\ z.length = L + m /\ z.length - L = m
  <2>1. m \in Nat /\ m <= Len(data)
    BY <1>1, <1>3, <1>5, <1>7, <1>8 DEF d
  <2>2. p \in Seq(Elem) /\ Len(p) = m
    BY <2>1, Prefix
  <2> DEFINE y == z.length
  <2>3. y = L + n + k
    BY <1>11
  <2> HIDE DEF L, y
  <2>4. y = L + m /\ y - L = m
    BY <1>1, <1>3, <1>7, <1>8, <2>3
  <2> QED
    BY <2>2, <2>4 DEF y
<1>13. Items(z) = Items(r) \o p
  <2> DEFINE s == Items(r)
  <2>1. s \in Seq(Elem)
    BY Views
  <2> HIDE DEF s, p
  <2>2. (s \o p1) \o p2 = s \o (p1 \o p2)
    <3>1. p1 \in Seq(Elem) /\ p2 \in Seq(Elem)
      BY <1>4, <1>9
    <3> QED
      BY <2>1, <3>1, Associative, Zenon, ZenonT(60)
  <2> QED
    BY <1>6, <1>10, <1>11, <2>2 DEF s
<1>14. L = 0 \/ \A o \in 0 .. (Cap - z.length - 1) : Spare(z)[o] = Spare(r)[o + m]
  <2> SUFFICES ASSUME L # 0, NEW o \in 0 .. (Cap - z.length - 1)
               PROVE  Spare(z)[o] = Spare(r)[o + m]
    OBVIOUS
  <2> HIDE DEF L
  <2>1. q.length # 0
    BY <1>1, <1>3, <1>6
  <2>2. o + k \in 0 .. (Cap - q.length - 1) /\ o + k + n = o + m
    BY <1>1, <1>3, <1>6, <1>7, <1>8, <1>11, SMTT(60)
  <2> QED
    BY <1>6, <1>11, <2>1, <2>2, SMTT(60)
<1> HIDE DEF p
<1>15. JoinsRing(r, z, p, TRUE)
  BY <1>11, <1>12, <1>13, <1>14 DEF JoinsRing
<1> QED
  BY <1>2, <1>12, <1>15, ZenonT(60) DEF p, m, d

\* What lies in a row in the ring is at most two slices of the storage: up to
\* its end and from its start.
LEMMA TwoChunks ==
  ASSUME NEW r \in Rings, NEW p \in Nat, NEW v \in Nat, p + v <= Cap,
         NEW n, n = Least(v, Cap - GetIdx(r, p)),
         NEW k, k = Least(v - n, Cap - GetIdx(r, p + n))
  PROVE  /\ n \in Nat /\ k \in Nat /\ n + k = v
         /\ n <= Cap - GetIdx(r, p) /\ k <= Cap - GetIdx(r, p + n)
         /\ v > 0 => n > 0
<1> DEFINE R == r.read_at
           a == GetIdx(r, p)
           e == p + n
           b == GetIdx(r, e)
<1>1. Cap \in Nat /\ R \in Nat /\ (Cap > 0 => R < Cap)
  BY RingFields, RingAssumption
<1>2. CASE Cap = 0
  <2>1. GetIdx(r, p) = 0 /\ GetIdx(r, p + n) = 0
    BY <1>2, RingFields DEF GetIdx
  <2>2. v = 0
    BY <1>2
  <2>3. n = 0
    BY <1>2, <2>1, <2>2 DEF Least
  <2>4. k = 0
    BY <1>2, <2>1, <2>2, <2>3 DEF Least
  <2> QED
    BY <1>2, <2>1, <2>2, <2>3, <2>4, SMTT(60)
<1>3. CASE Cap > 0
  <2>1. /\ R + p < Cap => a = R + p
        /\ R + p >= Cap => a = R + p - Cap
        /\ a \in Int /\ 0 <= a /\ a < Cap
    BY <1>1, <1>3, GetIdxCases
  <2>2. /\ v <= Cap - a => n = v
        /\ ~ (v <= Cap - a) => n = Cap - a
    BY DEF Least
  <2> HIDE DEF R, a
  <2>3. n \in Nat /\ n <= v /\ n <= Cap - a /\ e \in Nat /\ e <= Cap /\ e = p + n /\ (v > 0 => n > 0)
    BY <1>1, <1>3, <2>1, <2>2
  <2> HIDE DEF e
  <2>4. /\ R + e < Cap => b = R + e
        /\ R + e >= Cap => b = R + e - Cap
        /\ b \in Int /\ 0 <= b /\ b < Cap
    <3>1. e \in Nat /\ e <= Cap
      BY <2>3
    <3>2. Cap \in Nat
      BY <1>1
    <3>3. /\ R + e < Cap => b = R + e
          /\ R + e >= Cap => b = R + e - Cap
          /\ b \in 0 .. (Cap - 1)
      BY <1>3, <3>1, GetIdxCases DEF R
    <3> HIDE DEF b
    <3> QED
      BY <3>2, <3>3
  <2>5. /\ v - n <= Cap - b => k = v - n
        /\ ~ (v - n <= Cap - b) => k = Cap - b
    BY DEF Least, e
  <2> HIDE DEF b
  <2>6. k = v - n
    BY <1>1, <1>3, <2>1, <2>2, <2>3, <2>4, <2>5, SMTT(60)
  <2>7. k \in Nat /\ n + k = v /\ k <= Cap - b
    BY <1>1, <2>3, <2>4, <2>5, <2>6
  <2> QED
    BY <2>3, <2>7 DEF a, b, e
<1> QED
  BY <1>1, <1>2, <1>3

\* dequeue_many_with() and the slice it shows.
LEMMA DequeueManyLeaves ==
  ASSUME NEW r \in Rings, NEW size \in Nat, NEW n, n = DequeueSize(r, size)
  PROVE  /\ n \in Nat /\ n <= size /\ n <= r.length
         /\ r.length > 0 /\ size > 0 => n > 0
         /\ n = Least(Least(size, r.length), Cap - GetIdx(r, 0))
         /\ DequeueMany(r, size) = Advanced(r, n)
         /\ LeavesRing(r, DequeueMany(r, size), n)
         /\ DequeuedMany(r, size) = SubSeq(Items(r), 1, n)
<1> DEFINE L == r.length
           R == r.read_at
<1>1. L \in Nat /\ L <= Cap /\ Cap \in Nat /\ R \in Nat /\ (Cap > 0 => R < Cap)
      /\ (Cap = 0 => R = 0)
  BY RingFields, RingAssumption
<1>2. GetIdx(r, 0) = R
  BY GetIdxZero
<1>3. n = Least(size, Least(L, Cap - R))
  BY RingFields DEF DequeueSize
<1> HIDE DEF L, R
<1>4. /\ n \in Nat /\ n <= size /\ n <= L /\ n <= Cap - R
      /\ L > 0 /\ size > 0 => n > 0
      /\ n = Least(Least(size, L), Cap - R)
  BY <1>1, <1>3 DEF Least
<1>5. DequeueMany(r, size) = Advanced(r, n)
  BY DEF DequeueMany, Advanced
<1>6. LeavesRing(r, DequeueMany(r, size), n)
  BY <1>4, <1>5, AdvancedLeaves DEF LeavesRing, L
<1>7. DequeuedMany(r, size) = SubSeq(Items(r), 1, n)
  <2>1. 0 + n <= L /\ 0 + n = n /\ 0 + 1 = 1 /\ 0 \in Nat
    BY <1>4
  <2>2. CopyOut(r, GetIdx(r, 0), n) = SubSeq(Items(r), 0 + 1, 0 + n)
    BY <1>2, <1>4, <2>1, CopyOutItems, SMTT(60) DEF L
  <2> QED
    BY <1>2, <2>1, <2>2 DEF DequeuedMany, R
<1> QED
  BY <1>2, <1>4, <1>5, <1>6, <1>7 DEF L

\* dequeue_slice() takes all that is asked for and there.
LEMMA DequeueSliceLeaves ==
  ASSUME NEW r \in Rings, NEW size \in Nat, NEW v, v = Least(size, r.length)
  PROVE  /\ v \in Nat /\ v <= r.length
         /\ LeavesRing(r, DequeueSlice(r, size), v)
         /\ DequeuedSlice(r, size) = SubSeq(Items(r), 1, v)
         /\ Len(DequeuedSlice(r, size)) = v
<1> DEFINE L == r.length
           s == Items(r)
           n == DequeueSize(r, size)
           q == DequeueMany(r, size)
           size2 == size - n
           k == DequeueSize(q, size2)
           z == DequeueMany(q, size2)
<1>1. L \in Nat /\ L <= Cap /\ Cap \in Nat
  BY RingFields, RingAssumption
<1>2. v \in Nat /\ v <= L /\ v <= size
  <2> HIDE DEF L
  <2>1. v = Least(size, L)
    BY DEF L
  <2> QED
    BY <1>1, <2>1 DEF Least
<1>3. s \in Seq(Elem) /\ Len(s) = L
  BY Views
<1>4. DequeueSlice(r, size) = z /\ DequeuedSlice(r, size) = DequeuedMany(r, size) \o DequeuedMany(q, size2)
  BY DEF DequeueSlice, DequeuedSlice
<1>5. /\ n \in Nat /\ n <= size /\ n <= L
      /\ n = Least(v, Cap - GetIdx(r, 0))
      /\ q = Advanced(r, n)
      /\ LeavesRing(r, q, n)
      /\ DequeuedMany(r, size) = SubSeq(s, 1, n)
  <2>1. n = DequeueSize(r, size)
    OBVIOUS
  <2> HIDE DEF n
  <2> QED
    BY <2>1, DequeueManyLeaves, ZenonT(60)
<1> HIDE DEF n, q
<1>6. /\ q \in Rings /\ q.length = L - n /\ Items(q) = SubSeq(s, n + 1, L)
      /\ \A o \in 0 .. (Cap - L - 1) : Spare(q)[o] = Spare(r)[o]
  BY <1>5 DEF LeavesRing
<1>7. size2 \in Nat /\ size2 = size - n
  BY <1>5
<1> HIDE DEF size2
<1>8. /\ k \in Nat /\ k <= size2 /\ k <= q.length
      /\ k = Least(Least(size2, q.length), Cap - GetIdx(q, 0))
      /\ LeavesRing(q, z, k)
      /\ DequeuedMany(q, size2) = SubSeq(Items(q), 1, k)
  <2>1. k = DequeueSize(q, size2)
    OBVIOUS
  <2> HIDE DEF k
  <2> QED
    BY <1>6, <1>7, <2>1, DequeueManyLeaves, ZenonT(60)
<1> HIDE DEF k, z
<1>9. n + k = v
  <2>1. GetIdx(q, 0) = GetIdx(r, 0 + n)
    <3>1. q.read_at = GetIdx(r, n)
      <4>1. r = [capacity |-> r.capacity, storage |-> r.storage, read_at |-> r.read_at, length |-> r.length]
        BY DEF Rings, Ring
      <4> QED
        BY <1>5, <4>1 DEF Advanced
    <3>2. n \in Nat
      BY <1>5
    <3>3. 0 + n = n
      BY <3>2
    <3> QED
      BY <1>6, <3>1, <3>3, GetIdxZero
  <2> HIDE DEF L
  <2>2. Least(size2, q.length) = v - n
    <3>1. v = Least(size, L)
      BY DEF L
    <3> QED
      BY <1>1, <1>5, <1>6, <1>7, <3>1, SMTT(60) DEF Least
  <2>3. k = Least(v - n, Cap - GetIdx(r, 0 + n))
    BY <1>8, <2>1, <2>2
  <2>4. 0 \in Nat /\ 0 + v <= Cap
    BY <1>1, <1>2
  <2> QED
    BY <1>2, <1>5, <2>3, <2>4, TwoChunks, SMTT(60)
<1>10. SubSeq(s, 1, n) \o SubSeq(Items(q), 1, k) = SubSeq(s, 1, v)
  <2> HIDE DEF s, L
  <2>1. n + k <= Len(s)
    BY <1>1, <1>2, <1>3, <1>9
  <2>2. SubSeq(s, 1, n) \o SubSeq(SubSeq(s, n + 1, Len(s)), 1, k) = SubSeq(s, 1, n + k)
    <3>1. n \in Nat /\ k \in Nat /\ s \in Seq(Elem)
      BY <1>3, <1>5, <1>8
    <3> QED
      BY <2>1, <3>1, PieceOfRest
  <2> QED
    BY <1>3, <1>6, <1>9, <2>2, ZenonT(60)
<1>11. Len(SubSeq(s, 1, v)) = v
  <2> HIDE DEF s
  <2> QED
    BY <1>2, <1>3, Prefix
<1>12. LeavesRing(r, z, v)
  <2>1. /\ z \in Rings /\ z.length = q.length - k
        /\ Items(z) = SubSeq(Items(q), k + 1, q.length)
        /\ \A o \in 0 .. (Cap - q.length - 1) : Spare(z)[o] = Spare(q)[o]
    BY <1>8 DEF LeavesRing
  <2> HIDE DEF s, L
  <2>2. SubSeq(SubSeq(s, n + 1, L), k + 1, L - n) = SubSeq(s, (n + k) + 1, L)
    <3>1. n + k <= L /\ L = Len(s)
      BY <1>2, <1>3, <1>9
    <3>2. n \in Nat /\ k \in Nat /\ s \in Seq(Elem)
      BY <1>3, <1>5, <1>8
    <3> QED
      BY <3>1, <3>2, RestOfRest
  <2>3. Items(z) = SubSeq(s, v + 1, L)
    BY <1>6, <1>9, <2>1, <2>2, ZenonT(60)
  <2>4. z.length = L - v
    BY <1>1, <1>2, <1>5, <1>6, <1>8, <1>9, <2>1
  <2>5. ASSUME NEW o \in 0 .. (Cap - L - 1)
        PROVE  Spare(z)[o] = Spare(r)[o]
    <3>1. o \in 0 .. (Cap - q.length - 1)
      BY <1>1, <1>5, <1>6, SMTT(60)
    <3> QED
      BY <1>6, <2>1, <3>1
  <2> QED
    BY <2>1, <2>3, <2>4, <2>5, ZenonT(60) DEF LeavesRing, L, s
<1> QED
  BY <1>2, <1>4, <1>5, <1>8, <1>10, <1>11, <1>12, ZenonT(60)

\* z is r with n elements of data at the p-th place and after it.
PieceWritten(r, z, p, data, n) ==
  /\ n \in Nat /\ n <= Len(data)
  /\ z \in Rings /\ z.length = r.length /\ z.read_at = r.read_at
  /\ \A k \in 0 .. (Cap - 1) :
       Cell(z, k) = IF k - p \in 0 .. (n - 1) THEN data[k - p + 1] ELSE Cell(r, k)

\* One of the two slices write_unallocated() writes.
LEMMA WritePieceCells ==
  ASSUME NEW r \in Rings, NEW offset \in Nat, NEW data \in Seq(Elem)
  PROVE  PieceWritten(r, WritePiece(r, offset, data), r.length + offset, data,
                      UnallocatedSize(r, offset, Len(data)))
<1> DEFINE L == r.length
           F == Cap - L
           d == Len(data)
           p == L + offset
           n == UnallocatedSize(r, offset, d)
           a == GetIdx(r, p)
           part == SubSeq(data, 1, n)
           z == WritePiece(r, offset, data)
<1>1. L \in Nat /\ L <= Cap /\ Cap \in Nat /\ d \in Nat
  BY RingFields, RingAssumption, LenProperties
<1>2. z = CopyIn(r, GetIdx(r, p), part)
  BY DEF WritePiece
<1>3. RingWindow(r) = F /\ r.capacity = Cap
  BY RingFields DEF RingWindow
<1>4. n = IF offset > F THEN 0 ELSE Least(Least(d, F - offset), Cap - a)
  BY <1>3 DEF UnallocatedSize
<1> HIDE DEF n
<1>5. ASSUME offset > F \/ Cap = 0
      PROVE  PieceWritten(r, z, p, data, n)
  <2>1. n = 0
    <3>1. CASE offset > F
      BY <1>4, <3>1
    <3>2. CASE ~ (offset > F)
      <4>1. Cap = 0 /\ a = 0
        BY <1>3, <1>5, <3>2 DEF GetIdx
      <4> HIDE DEF L, a
      <4>2. F - offset = 0
        BY <1>1, <3>2, <4>1
      <4>3. Least(d, F - offset) = 0
        BY <1>1, <4>2 DEF Least
      <4>4. Least(0, Cap - a) = 0
        BY <4>1 DEF Least
      <4> QED
        BY <1>4, <3>2, <4>3, <4>4
    <3> QED
      BY <3>1, <3>2
  <2>2. part = << >>
    BY <2>1
  <2>3. z = r
    BY <1>2, <2>2, CopyInNothing, ZenonT(60)
  <2>4. 0 .. (n - 1) = {}
    BY <2>1
  <2>5. n \in Nat /\ n <= Len(data)
    BY <1>1, <2>1
  <2> HIDE DEF z, p
  <2>6. \A k \in 0 .. (Cap - 1) :
          Cell(z, k) = IF k - p \in 0 .. (n - 1) THEN data[k - p + 1] ELSE Cell(r, k)
    BY <2>3, <2>4
  <2> QED
    BY <2>3, <2>5, <2>6 DEF PieceWritten
<1>6. ASSUME offset <= F, Cap > 0
      PROVE  PieceWritten(r, z, p, data, n)
  <2>1. L = r.length
    OBVIOUS
  <2> HIDE DEF L
  <2>2. p \in Nat /\ p <= Cap /\ p = L + offset
    BY <1>1, <1>6
  <2> HIDE DEF p
  <2>3. a \in 0 .. (Cap - 1)
    BY <1>6, <2>2, GetIdxCases
  <2>4. n = Least(Least(d, F - offset), Cap - a)
    <3>1. ~ (offset > F)
      BY <1>1, <1>6
    <3> QED
      BY <1>4, <3>1
  <2> HIDE DEF a
  <2>5. n \in Nat /\ n <= d /\ n <= F - offset /\ n <= Cap - a
    <3> DEFINE x == Least(d, F - offset)
    <3> HIDE DEF d
    <3>1. x \in Nat /\ x <= d /\ x <= F - offset
      BY <1>1, <1>6 DEF Least
    <3>2. n = Least(x, Cap - a)
      BY <2>4
    <3> HIDE DEF x
    <3>3. n \in Nat /\ n <= x /\ n <= Cap - a
      BY <1>1, <2>3, <3>1, <3>2 DEF Least
    <3> QED
      BY <1>1, <3>1, <3>3
  <2>6. part \in Seq(Elem) /\ Len(part) = n /\ \A i \in 1 .. n : part[i] = data[i]
    BY <2>5, Prefix
  <2> HIDE DEF part, d
  <2>7. p + Len(part) <= Cap /\ Len(part) <= Cap - GetIdx(r, p)
    <3>1. p + n <= Cap
      BY <1>1, <2>2, <2>5, SMTT(60)
    <3> QED
      BY <2>5, <2>6, <3>1 DEF a
  <2>8. /\ z \in Rings /\ z.read_at = r.read_at /\ z.length = r.length
        /\ \A k \in 0 .. (Cap - 1) :
             Cell(z, k) = IF k - p \in 0 .. (Len(part) - 1) THEN part[k - p + 1] ELSE Cell(r, k)
    <3>1. p \in Nat /\ p <= Cap /\ Cap > 0 /\ part \in Seq(Elem)
      BY <1>6, <2>2, <2>6
    <3> HIDE DEF z
    <3> QED
      BY <1>2, <2>7, <3>1, CopyInCells, SMTT(60)
  <2> HIDE DEF z
  <2>9. ASSUME NEW k \in 0 .. (Cap - 1)
        PROVE  Cell(z, k) = IF k - p \in 0 .. (n - 1) THEN data[k - p + 1] ELSE Cell(r, k)
    <3>1. CASE k - p \in 0 .. (n - 1)
      <4>1. k - p + 1 \in 1 .. n
        BY <1>1, <2>2, <2>5, <3>1
      <4>2. part[k - p + 1] = data[k - p + 1]
        BY <2>6, <4>1
      <4>3. Cell(z, k) = part[k - p + 1]
        BY <2>6, <2>8, <3>1
      <4> QED
        BY <3>1, <4>2, <4>3
    <3>2. CASE k - p \notin 0 .. (n - 1)
      BY <2>6, <2>8, <3>2
    <3> QED
      BY <3>1, <3>2
  <2> QED
    BY <2>5, <2>8, <2>9 DEF PieceWritten, d
<1>7. offset > F \/ Cap = 0 \/ (offset <= F /\ Cap > 0)
  <2> HIDE DEF L
  <2> QED
    BY <1>1
<1> HIDE DEF z, p
<1>8. PieceWritten(r, z, p, data, n)
  BY <1>5, <1>6, <1>7, SMTT(60)
<1> QED
  BY <1>8 DEF z, p, n

\* What a write of m of these elements past the end of the queue does to a ring.
WritesSpare(r, offset, data, m) ==
  /\ WrittenUnallocated(r, offset, Len(data)) = m
  /\ WriteUnallocated(r, offset, data) \in Rings
  /\ WriteUnallocated(r, offset, data).length = r.length
  /\ Items(WriteUnallocated(r, offset, data)) = Items(r)
  /\ \A o \in 0 .. (Cap - r.length - 1) :
       Spare(WriteUnallocated(r, offset, data))[o] =
         IF o - offset \in 0 .. (m - 1) THEN data[o - offset + 1] ELSE Spare(r)[o]

\* write_unallocated(): the queue stays, and the free part takes what fits.
LEMMA WriteUnallocatedSpare ==
  ASSUME NEW r \in Rings, NEW offset \in Nat, NEW data \in Seq(Elem),
         NEW m, m = Greatest(Least(Len(data), Cap - r.length - offset), 0)
  PROVE  WritesSpare(r, offset, data, m)
<1> SUFFICES /\ WrittenUnallocated(r, offset, Len(data)) = m
             /\ WriteUnallocated(r, offset, data) \in Rings
             /\ WriteUnallocated(r, offset, data).length = r.length
             /\ Items(WriteUnallocated(r, offset, data)) = Items(r)
             /\ \A o \in 0 .. (Cap - r.length - 1) :
                  Spare(WriteUnallocated(r, offset, data))[o] =
                    IF o - offset \in 0 .. (m - 1) THEN data[o - offset + 1] ELSE Spare(r)[o]
  BY DEF WritesSpare
<1> DEFINE L == r.length
           F == Cap - L
           d == Len(data)
           p == L + offset
           n == UnallocatedSize(r, offset, d)
           q == WritePiece(r, offset, data)
           rest == From(data, n)
           off2 == offset + n
           k == UnallocatedSize(q, off2, Len(rest))
           z == WritePiece(q, off2, rest)
<1>1. L \in Nat /\ L <= Cap /\ Cap \in Nat /\ d \in Nat
  BY RingFields, RingAssumption, LenProperties
<1>2. WriteUnallocated(r, offset, data) = z
  BY DEF WriteUnallocated
<1>3. /\ n \in Nat /\ n <= d
      /\ q \in Rings /\ q.length = L /\ q.read_at = r.read_at
      /\ \A i \in 0 .. (Cap - 1) :
           Cell(q, i) = IF i - p \in 0 .. (n - 1) THEN data[i - p + 1] ELSE Cell(r, i)
  <2>1. PieceWritten(r, q, p, data, n)
    BY WritePieceCells
  <2> HIDE DEF n, q, p
  <2> QED
    BY <2>1 DEF PieceWritten
<1>4. WrittenUnallocated(r, offset, d) = n + UnallocatedSize(r, off2, d - n)
  BY DEF WrittenUnallocated
<1>5. n = IF offset > F THEN 0 ELSE Least(Least(d, F - offset), Cap - GetIdx(r, p))
  BY RingFields DEF UnallocatedSize, RingWindow
<1> HIDE DEF n, q
<1>6. /\ rest \in Seq(Elem) /\ Len(rest) = d - n
      /\ \A i \in 1 .. (d - n) : rest[i] = data[n + i]
  <2>1. rest = SubSeq(data, n + 1, d)
    BY DEF From
  <2>2. d <= Len(data)
    BY <1>1
  <2>3. n \in Nat /\ n <= d
    BY <1>3
  <2> HIDE DEF d, rest
  <2> QED
    BY <1>1, <2>1, <2>2, <2>3, Slice
<1>7. off2 \in Nat /\ off2 = offset + n
  BY <1>3
<1> HIDE DEF rest, d, off2
<1>8. /\ k \in Nat /\ k <= d - n
      /\ z \in Rings /\ z.length = L /\ z.read_at = r.read_at
      /\ \A i \in 0 .. (Cap - 1) :
           Cell(z, i) = IF i - (L + off2) \in 0 .. (k - 1)
                          THEN rest[i - (L + off2) + 1] ELSE Cell(q, i)
  <2>1. q \in Rings /\ off2 \in Nat /\ rest \in Seq(Elem) /\ q.length = L /\ Len(rest) = d - n
    BY <1>3, <1>6, <1>7
  <2>2. PieceWritten(q, z, q.length + off2, rest, k)
    BY <2>1, WritePieceCells
  <2> HIDE DEF k, z, L
  <2>3. PieceWritten(q, z, L + off2, rest, k)
    BY <2>1, <2>2
  <2>4. q.read_at = r.read_at
    BY <1>3
  <2> QED
    BY <2>1, <2>3, <2>4 DEF PieceWritten
<1>9. k = UnallocatedSize(r, off2, d - n)
  <2>1. q.capacity = r.capacity
    BY <1>3, RingFields
  <2>2. \A i : GetIdx(q, i) = GetIdx(r, i)
    BY <1>3, <2>1 DEF GetIdx
  <2> QED
    BY <1>3, <1>6, <2>1, <2>2, SMTT(60) DEF UnallocatedSize, RingWindow
<1>10. k = IF off2 > F THEN 0 ELSE Least(Least(d - n, F - off2), Cap - GetIdx(r, L + off2))
  <2> HIDE DEF k
  <2> QED
    BY <1>9, RingFields DEF UnallocatedSize, RingWindow
<1> HIDE DEF k, z
<1>11. n + k = m
  <2>0. m = Greatest(Least(d, F - offset), 0)
    BY DEF d
  <2> HIDE DEF L
  <2>1. CASE offset > F
    <3>1. n = 0
      BY <1>5, <2>1
    <3>2. off2 > F
      BY <1>1, <1>7, <2>1, <3>1, SMTT(60)
    <3>3. k = 0
      BY <1>10, <3>2
    <3>4. m = 0
      <4>1. Least(d, F - offset) <= 0 /\ Least(d, F - offset) \in Int
        BY <1>1, <2>1, SMTT(60) DEF Least
      <4> QED
        BY <2>0, <4>1 DEF Greatest
    <3> QED
      BY <3>1, <3>3, <3>4
  <2>2. CASE offset <= F
    <3>1. m = Least(d, F - offset) /\ m \in Nat /\ m <= d /\ m <= F - offset
      BY <1>1, <2>0, <2>2 DEF Least, Greatest
    <3>2. p \in Nat /\ p = L + offset /\ p + m <= Cap
      BY <1>1, <3>1
    <3> HIDE DEF p
    <3>3. n = Least(m, Cap - GetIdx(r, p))
      <4>1. ~ (offset > F)
        BY <1>1, <2>2
      <4> QED
        BY <1>5, <3>1, <4>1
    <3>4. n <= m
      <4> DEFINE a == GetIdx(r, p)
      <4>1. a \in Int
        <5>1. CASE Cap = 0
          <6>1. r.capacity = 0
            BY <5>1, RingFields
          <6> QED
            BY <6>1 DEF GetIdx
        <5>2. CASE Cap > 0
          <6>1. p <= Cap
            BY <1>1, <3>1, <3>2, SMTT(60)
          <6>2. a \in 0 .. (Cap - 1)
            BY <3>2, <5>2, <6>1, GetIdxCases
          <6> QED
            BY <6>2
        <5> QED
          BY <1>1, <5>1, <5>2
      <4>2. n = Least(m, Cap - a)
        BY <3>3
      <4> HIDE DEF a
      <4> QED
        BY <1>1, <3>1, <4>1, <4>2 DEF Least
    <3>5. n \in Nat
      BY <1>3
    <3>6. ~ (off2 > F) /\ L + off2 = p + n
      BY <1>1, <1>7, <3>1, <3>2, <3>4, <3>5, SMTT(60)
    <3>7. Least(d - n, F - off2) = m - n
      BY <1>1, <1>7, <3>1, <3>5, SMTT(60) DEF Least
    <3>8. k = Least(m - n, Cap - GetIdx(r, p + n))
      BY <1>10, <3>6, <3>7
    <3> QED
      BY <3>1, <3>2, <3>3, <3>8, TwoChunks, SMTT(60)
  <2>3. offset > F \/ offset <= F
    BY <1>1
  <2> QED
    BY <2>1, <2>2, <2>3
<1>12. ASSUME NEW i \in 0 .. (Cap - 1)
       PROVE  Cell(z, i) = IF i - p \in 0 .. (m - 1) THEN data[i - p + 1] ELSE Cell(r, i)
  <2> DEFINE p2 == L + off2
  <2>1. n \in Nat /\ k \in Nat /\ n <= d /\ k <= d - n
    BY <1>3, <1>8
  <2>2. Cell(z, i) = IF i - p2 \in 0 .. (k - 1) THEN rest[i - p2 + 1] ELSE Cell(q, i)
    BY <1>8
  <2>3. Cell(q, i) = IF i - p \in 0 .. (n - 1) THEN data[i - p + 1] ELSE Cell(r, i)
    BY <1>3
  <2> HIDE DEF L
  <2>4. p \in Nat /\ p2 = p + n
    BY <1>1, <1>7, <2>1
  <2> HIDE DEF p, p2
  <2>5. /\ i - p2 \in 0 .. (k - 1) => i - p \in 0 .. (m - 1) /\ i - p2 + 1 \in 1 .. (d - n)
                                    /\ n + (i - p2 + 1) = i - p + 1
        /\ i - p \in 0 .. (n - 1) => i - p \in 0 .. (m - 1)
        /\ i - p \in 0 .. (m - 1) => i - p \in 0 .. (n - 1) \/ i - p2 \in 0 .. (k - 1)
    BY <1>1, <1>11, <2>1, <2>4, SMTT(60)
  <2>6. CASE i - p2 \in 0 .. (k - 1)
    <3>1. Cell(z, i) = rest[i - p2 + 1]
      BY <2>2, <2>6, SMTT(60)
    <3>2. rest[i - p2 + 1] = data[i - p + 1]
      BY <1>6, <2>5, <2>6, SMTT(60)
    <3> QED
      BY <2>5, <2>6, <3>1, <3>2, SMTT(60)
  <2>7. CASE i - p2 \notin 0 .. (k - 1)
    BY <2>2, <2>3, <2>5, <2>7, SMTT(60)
  <2> QED
    BY <2>6, <2>7, SMTT(60)
<1>13. Items(z) = Items(r)
  <2>1. Items(z) \in Seq(Elem) /\ Len(Items(z)) = L /\ \A i \in 1 .. L : Items(z)[i] = Cell(z, i - 1)
    BY <1>8, Views
  <2>2. Items(r) \in Seq(Elem) /\ Len(Items(r)) = L /\ \A i \in 1 .. L : Items(r)[i] = Cell(r, i - 1)
    BY Views
  <2> HIDE DEF L
  <2>3. ASSUME NEW i \in 1 .. L
        PROVE  Cell(z, i - 1) = Cell(r, i - 1)
    <3>1. i - 1 \in 0 .. (Cap - 1) /\ (i - 1) - p \notin 0 .. (m - 1)
      BY <1>1
    <3> QED
      BY <1>12, <3>1
  <2> QED
    BY <2>1, <2>2, <2>3, SeqEqual, SMTT(60)
<1>14. ASSUME NEW o \in 0 .. (Cap - L - 1)
       PROVE  Spare(z)[o] = IF o - offset \in 0 .. (m - 1) THEN data[o - offset + 1] ELSE Spare(r)[o]
  <2>1. Spare(z)[o] = Cell(z, L + o) /\ Spare(r)[o] = Cell(r, L + o)
    BY <1>8, Views
  <2> HIDE DEF L
  <2>2. L + o \in 0 .. (Cap - 1) /\ (L + o) - p = o - offset
    BY <1>1
  <2> HIDE DEF p
  <2> QED
    BY <1>12, <2>1, <2>2, SMTT(60)
<1> QED
  BY <1>2, <1>4, <1>8, <1>9, <1>11, <1>13, <1>14, SMTT(60) DEF d

\* read_allocated() returns what the queue holds at offset and after it.
LEMMA ReadAllocatedItems ==
  ASSUME NEW r \in Rings, NEW offset \in Nat, NEW size \in Nat,
         NEW m, m = Greatest(Least(size, r.length - offset), 0)
  PROVE  /\ ReadAllocated(r, offset, size) = SubSeq(Items(r), offset + 1, offset + m)
         /\ Len(ReadAllocated(r, offset, size)) = m
<1> DEFINE L == r.length
           s == Items(r)
           n == AllocatedSize(r, offset, size)
           off2 == offset + n
           k == AllocatedSize(r, off2, size - n)
           u1 == CopyOut(r, GetIdx(r, offset), n)
           u2 == CopyOut(r, GetIdx(r, off2), k)
<1>1. L \in Nat /\ L <= Cap /\ Cap \in Nat
  BY RingFields, RingAssumption
<1>2. s \in Seq(Elem) /\ Len(s) = L
  BY Views
<1>3. ReadAllocated(r, offset, size) = u1 \o u2
  BY DEF ReadAllocated, GetAllocated
<1>4. n = IF offset > L THEN 0 ELSE Least(Least(size, L - offset), Cap - GetIdx(r, offset))
  BY RingFields DEF AllocatedSize
<1> HIDE DEF n
<1>5. k = IF off2 > L THEN 0 ELSE Least(Least(size - n, L - off2), Cap - GetIdx(r, off2))
  BY RingFields DEF AllocatedSize
<1>0. m = Greatest(Least(size, L - offset), 0)
  OBVIOUS
<1> HIDE DEF s, k, L, off2
<1>6. CASE offset > L
  <2>1. n = 0
    BY <1>4, <1>6
  <2>2. off2 > L
    BY <1>1, <1>6, <2>1 DEF off2
  <2>3. k = 0
    BY <1>5, <2>2
  <2>4. u1 = << >> /\ u2 = << >>
    BY <2>1, <2>3 DEF CopyOut
  <2>5. m = 0
    <3>1. Least(size, L - offset) <= 0 /\ Least(size, L - offset) \in Int
      BY <1>1, <1>6 DEF Least
    <3> QED
      BY <1>0, <3>1 DEF Greatest
  <2>6. SubSeq(s, offset + 1, offset + m) = << >>
    BY <2>5, SubSeqEmpty
  <2>7. << >> \o << >> = << >> /\ Len(<< >>) = 0
    OBVIOUS
  <2> QED
    BY <1>3, <2>4, <2>5, <2>6, <2>7 DEF s
<1>7. CASE offset <= L
  <2>1. m = Least(size, L - offset) /\ m \in Nat /\ m <= size /\ m <= L - offset
    BY <1>0, <1>1, <1>7 DEF Least, Greatest
  <2>2. n = Least(m, Cap - GetIdx(r, offset))
    <3>1. ~ (offset > L)
      BY <1>1, <1>7
    <3> QED
      BY <1>4, <2>1, <3>1
  <2>3. n \in Int /\ n <= m
    <3> DEFINE a == GetIdx(r, offset)
    <3>1. a \in Int
      <4>1. CASE Cap = 0
        <5>1. r.capacity = 0
          BY <4>1, RingFields
        <5> QED
          BY <5>1 DEF GetIdx
      <4>2. CASE Cap > 0
        <5>1. offset <= Cap
          BY <1>1, <1>7
        <5>2. a \in 0 .. (Cap - 1)
          BY <4>2, <5>1, GetIdxCases
        <5> QED
          BY <5>2
      <4> QED
        BY <1>1, <4>1, <4>2
    <3>2. n = Least(m, Cap - a)
      BY <2>2
    <3> HIDE DEF a
    <3> QED
      BY <1>1, <2>1, <3>1, <3>2 DEF Least
  <2>4. off2 = offset + n
    BY DEF off2
  <2>5. ~ (off2 > L)
    BY <1>1, <2>1, <2>3, <2>4
  <2>6. Least(size - n, L - off2) = m - n
    BY <1>1, <2>1, <2>3, <2>4 DEF Least
  <2>7. k = Least(m - n, Cap - GetIdx(r, offset + n))
    BY <1>5, <2>4, <2>5, <2>6
  <2>8. offset + m <= Cap
    BY <1>1, <2>1
  <2>9. /\ n \in Nat /\ k \in Nat /\ n + k = m
        /\ n <= Cap - GetIdx(r, offset) /\ k <= Cap - GetIdx(r, off2)
    BY <2>1, <2>2, <2>4, <2>7, <2>8, TwoChunks, SMTT(60)
  <2>10. offset + n <= L /\ off2 + k <= L /\ off2 \in Nat
    BY <1>1, <2>1, <2>4, <2>9
  <2>11. u1 = SubSeq(s, offset + 1, offset + n)
    BY <2>9, <2>10, CopyOutItems DEF L, s
  <2>12. u2 = SubSeq(s, off2 + 1, off2 + k)
    BY <2>9, <2>10, CopyOutItems, SMTT(60) DEF L, s
  <2> HIDE DEF u1, u2
  <2>13. u1 \o u2 = SubSeq(s, offset + 1, offset + n + k)
    <3>1. offset + n + k <= Len(s)
      BY <1>2, <2>4, <2>10
    <3>2. n \in Nat /\ k \in Nat /\ s \in Seq(Elem)
      BY <1>2, <2>9
    <3>3. SubSeq(s, offset + 1, offset + n) \o SubSeq(s, offset + n + 1, offset + n + k)
            = SubSeq(s, offset + 1, offset + n + k)
      BY <3>1, <3>2, TwoPieces
    <3> QED
      BY <2>4, <2>11, <2>12, <3>3, ZenonT(60)
  <2>14. offset + n + k = offset + m
    BY <2>9
  <2> DEFINE e == offset + m
  <2>15. e \in Nat /\ offset <= e /\ e <= Len(s) /\ e - offset = m
    BY <1>1, <1>2, <2>1
  <2> HIDE DEF e
  <2>16. Len(SubSeq(s, offset + 1, e)) = m
    BY <1>2, <2>15, Slice
  <2> QED
    BY <1>3, <2>13, <2>14, <2>16, ZenonT(60) DEF e, s
<1>8. offset > L \/ offset <= L
  BY <1>1
<1> QED
  BY <1>6, <1>7, <1>8

\* enqueue_unallocated() turns the beginning of the free part into the end of
\* the queue.
LEMMA EnqueueUnallocatedJoins ==
  ASSUME NEW r \in Rings, NEW count \in Nat, count <= Cap - r.length
  PROVE  JoinsRing(r, EnqueueUnallocated(r, count), [i \in 1 .. count |-> Spare(r)[i - 1]], FALSE)
<1> DEFINE L == r.length
           data == [i \in 1 .. count |-> Spare(r)[i - 1]]
           y == L + count
           z == EnqueueUnallocated(r, count)
<1>1. L \in Nat /\ L <= Cap /\ Cap \in Nat
  BY RingFields, RingAssumption
<1>2. y \in 0 .. Cap /\ y = L + count
  BY <1>1
<1>3. z = [r EXCEPT !.length = y]
  BY DEF EnqueueUnallocated
<1> HIDE DEF L, y, z
<1>4. z \in Rings /\ z.length = y /\ z.read_at = r.read_at /\ z.storage = r.storage
      /\ z.capacity = r.capacity
  BY <1>2, <1>3 DEF Rings, Ring
<1>5. ASSUME NEW k
      PROVE  Cell(z, k) = Cell(r, k)
  BY <1>4 DEF Cell, GetIdx
<1>6. /\ Spare(r) \in [0 .. (Cap - L - 1) -> Elem]
      /\ \A o \in 0 .. (Cap - L - 1) : Spare(r)[o] = Cell(r, L + o)
  BY Views DEF L
<1>7. /\ data \in Seq(Elem) /\ Len(data) = count
      /\ \A i \in 1 .. count : data[i] = Spare(r)[i - 1]
  <2>1. ASSUME NEW i \in 1 .. count
        PROVE  Spare(r)[i - 1] \in Elem
    <3>1. i - 1 \in 0 .. (Cap - L - 1)
      BY <1>1, <1>2
    <3> QED
      BY <1>6, <3>1
  <2>2. data \in [1 .. count -> Elem]
    BY <2>1
  <2> QED
    BY <2>2
<1> HIDE DEF data
<1>8. Items(z) = Items(r) \o data
  <2> DEFINE s == Items(r)
             t == s \o data
  <2>1. s \in Seq(Elem) /\ Len(s) = L /\ \A i \in 1 .. L : s[i] = Cell(r, i - 1)
    BY Views DEF L
  <2>2. Items(z) \in Seq(Elem) /\ Len(Items(z)) = y /\ \A i \in 1 .. y : Items(z)[i] = Cell(z, i - 1)
    BY <1>4, Views
  <2> HIDE DEF s
  <2>3. /\ t \in Seq(Elem) /\ Len(t) = L + count
        /\ \A i \in 1 .. (L + count) : t[i] = IF i <= L THEN s[i] ELSE data[i - L]
    BY <1>7, <2>1, ConcatProperties, ZenonT(60)
  <2> HIDE DEF t
  <2>4. ASSUME NEW i \in 1 .. y
        PROVE  Items(z)[i] = t[i]
    <3>0. i \in 1 .. (L + count)
      BY <1>2
    <3>1. Items(z)[i] = Cell(r, i - 1)
      BY <1>5, <2>2
    <3>2. CASE i <= L
      <4>1. i \in 1 .. L
        BY <1>1, <3>2
      <4>2. t[i] = s[i]
        BY <2>3, <3>0, <3>2
      <4> QED
        BY <2>1, <3>1, <4>1, <4>2
    <3>3. CASE i > L
      <4>1. i - L \in 1 .. count /\ (i - L) - 1 \in 0 .. (Cap - L - 1) /\ L + ((i - L) - 1) = i - 1
            /\ ~ (i <= L)
        BY <1>1, <1>2, <3>0, <3>3
      <4>2. t[i] = data[i - L]
        BY <2>3, <3>0, <4>1
      <4>3. data[i - L] = Spare(r)[(i - L) - 1]
        BY <1>7, <4>1
      <4>4. Spare(r)[(i - L) - 1] = Cell(r, i - 1)
        BY <1>6, <4>1
      <4> QED
        BY <3>1, <4>2, <4>3, <4>4
    <3>4. i <= L \/ i > L
      BY <1>1, SMTT(60)
    <3> QED
      BY <3>2, <3>3, <3>4
  <2>5. Items(z) = t
    BY <1>2, <2>2, <2>3, <2>4, SeqEqual, SMTT(60)
  <2> QED
    BY <2>5 DEF t, s
<1>9. ASSUME NEW o \in 0 .. (Cap - z.length - 1)
      PROVE  Spare(z)[o] = Spare(r)[o + Len(data)]
  <2>1. Spare(z)[o] = Cell(r, y + o)
    BY <1>4, <1>5, Views
  <2>2. o + count \in 0 .. (Cap - L - 1) /\ L + (o + count) = y + o
    BY <1>1, <1>2, <1>4
  <2>3. Spare(r)[o + count] = Cell(r, y + o)
    BY <1>6, <2>2, SMTT(60)
  <2> QED
    BY <1>7, <2>1, <2>3
<1>10. z.length = r.length + Len(data)
  BY <1>2, <1>4, <1>7 DEF L
<1>11. JoinsRing(r, z, data, FALSE)
  BY <1>4, <1>8, <1>9, <1>10 DEF JoinsRing
<1> QED
  BY <1>11, ZenonT(60) DEF z, data

-----------------------------------------------------------------------------
(* The steps of the machine.                                               *)

\* The type invariant in the form the lemmas use it, and the views after a
\* step.
LEMMA NextViews ==
  ASSUME rb' \in Rings
  PROVE  /\ TypeOK' /\ Items(rb)' = Items(rb') /\ Spare(rb)' = Spare(rb')
         /\ Queue!FreeFits
<1>1. TypeOK'
  BY DEF TypeOK, Rings
<1>2. Items(rb)' = Items(rb') /\ Spare(rb)' = Spare(rb')
  BY DEF Items, Spare, Cell, GetIdx
<1>3. Spare(rb') \in [0 .. (Cap - Len(Items(rb')) - 1) -> Elem]
  BY Views
<1> QED
  BY <1>1, <1>2, <1>3 DEF Queue!FreeFits

\* A ring that elements joined is a queue that they joined.
LEMMA JoinMaps ==
  ASSUME rb \in Rings, NEW data \in Seq(Elem), NEW over \in BOOLEAN, JoinsRing(rb, rb', data, over)
  PROVE  TypeOK' /\ Queue!Joins(data, over)
<1>1. /\ rb' \in Rings /\ rb'.length = rb.length + Len(data)
      /\ Items(rb') = Items(rb) \o data
      /\ \/ over /\ rb.length = 0
         \/ \A o \in 0 .. (Cap - rb'.length - 1) : Spare(rb')[o] = Spare(rb)[o + Len(data)]
  BY DEF JoinsRing
<1>2. /\ TypeOK' /\ Items(rb)' = Items(rb') /\ Spare(rb)' = Spare(rb')
      /\ Queue!FreeFits
  BY <1>1, NextViews
<1>3. rb.length = 0 => Items(rb) = << >>
  BY Views
<1>4. DOMAIN Spare(rb') = 0 .. (Cap - rb'.length - 1)
  BY <1>1, Views
<1> QED
  BY <1>1, <1>2, <1>3, <1>4, SMTT(60) DEF Queue!Joins

\* A ring that elements left is a queue that they left.
LEMMA LeaveMaps ==
  ASSUME rb \in Rings, NEW n \in Nat, LeavesRing(rb, rb', n)
  PROVE  TypeOK' /\ Queue!Leaves(n)
<1>1. /\ rb' \in Rings /\ rb'.length = rb.length - n
      /\ Items(rb') = SubSeq(Items(rb), n + 1, rb.length)
      /\ \A o \in 0 .. (Cap - rb.length - 1) : Spare(rb')[o] = Spare(rb)[o]
  BY DEF LeavesRing
<1>2. /\ TypeOK' /\ Items(rb)' = Items(rb') /\ Spare(rb)' = Spare(rb')
      /\ Queue!FreeFits
  BY <1>1, NextViews
<1>3. Len(Items(rb)) = rb.length /\ DOMAIN Spare(rb) = 0 .. (Cap - rb.length - 1)
  BY Views
<1> QED
  BY <1>1, <1>2, <1>3 DEF Queue!Leaves

\* The slices the callers pass are sequences of elements.
LEMMA SlicesAreSeqs ==
  Slices \subseteq Seq(Elem)
<1> SUFFICES ASSUME NEW n \in 0 .. MaxSlice, NEW data \in [1 .. n -> Elem]
             PROVE  data \in Seq(Elem)
  BY DEF Slices
<1>1. n \in Nat
  BY RingAssumption
<1> QED
  BY <1>1

\* The initial ring is the empty queue.
LEMMA InitMaps ==
  ASSUME Init
  PROVE  TypeOK /\ Queue!Init
<1>1. PICK e \in Elem : rb = RingNew(Cap, e)
  BY DEF Init
<1>2. rb \in Rings /\ rb.length = 0
  <2> DEFINE st == [i \in 0 .. (Cap - 1) |-> e]
  <2>1. st \in [0 .. (Cap - 1) -> Elem]
    OBVIOUS
  <2>2. rb = [capacity |-> Cap, storage |-> st, read_at |-> 0, length |-> 0]
    BY <1>1 DEF RingNew
  <2> HIDE DEF st
  <2>3. 0 \in 0 .. Greatest(Cap - 1, 0) /\ 0 \in 0 .. Cap
    BY RingAssumption DEF Greatest
  <2> QED
    BY <2>1, <2>2, <2>3 DEF Rings, Ring
<1>3. Items(rb) = << >>
  BY <1>2, Views
<1>4. Spare(rb) \in [0 .. (Cap - 1) -> Elem]
  <2>1. Cap - rb.length - 1 = Cap - 1
    BY <1>2, RingAssumption
  <2> QED
    BY <1>2, <2>1, Views
<1>5. call = << "new" >> /\ ret = Result(TRUE, 0, << >>)
  BY DEF Init
<1> QED
  BY <1>2, <1>3, <1>4, <1>5 DEF TypeOK, Rings, Queue!Init, Queue!Result, Result

\* min and max mean the same to RingQueue and to the ring.
LEMMA SameNumbers ==
  \A a, b : Queue!Least(a, b) = Least(a, b) /\ Queue!Greatest(a, b) = Greatest(a, b)
BY DEF Queue!Least, Least, Queue!Greatest, Greatest

\* The enqueue methods for slices do what RingQueue promises of them.
LEMMA EnqueueMaps ==
  ASSUME rb \in Rings, NEW data \in Seq(Elem)
  PROVE  /\ EnqueueManyOf(data) => TypeOK' /\ Queue!EnqueueMany(data)
         /\ EnqueueSliceOf(data) => TypeOK' /\ Queue!EnqueueSlice(data)
<1> DEFINE L == rb.length
           d == Len(data)
           n == EnqueueSize(rb, d)
           v == Least(d, Cap - L)
<1>1. L \in Nat /\ L <= Cap /\ Cap \in Nat /\ d \in Nat
  BY RingFields, RingAssumption, LenProperties
<1>2. Queue!Free = Cap - L /\ (Items(rb) = << >> <=> L = 0)
  <2>1. Items(rb) \in Seq(Elem) /\ Len(Items(rb)) = L
    BY Views
  <2> QED
    BY <2>1 DEF Queue!Free
<1>3. ASSUME EnqueueManyOf(data)
      PROVE  TypeOK' /\ Queue!EnqueueMany(data)
  <2>1. rb' = EnqueueMany(rb, data) /\ ret' = Result(TRUE, n, << >>)
        /\ call' = << "enqueue_many", data >>
    BY <1>3 DEF EnqueueManyOf
  <2>2. /\ n \in Nat /\ n <= d /\ n <= Cap - L
        /\ L < Cap /\ d > 0 => n > 0
        /\ L = 0 => n = Least(d, Cap - L)
        /\ JoinsRing(rb, rb', SubSeq(data, 1, n), TRUE)
    BY <2>1, EnqueueManyJoins, ZenonT(60)
  <2> HIDE DEF n
  <2>3. SubSeq(data, 1, n) \in Seq(Elem)
    BY <2>2, Prefix
  <2>4. TypeOK' /\ Queue!Joins(SubSeq(data, 1, n), TRUE)
    <3> DEFINE part == SubSeq(data, 1, n)
    <3>1. part \in Seq(Elem) /\ JoinsRing(rb, rb', part, TRUE) /\ TRUE \in BOOLEAN
      BY <2>2, <2>3, ZenonT(60)
    <3> HIDE DEF part
    <3>2. TypeOK' /\ Queue!Joins(part, TRUE)
      BY <3>1, JoinMaps, ZenonT(60)
    <3> QED
      BY <3>2, ZenonT(60) DEF part
  <2> HIDE DEF L, d
  <2>5. n \in 0 .. Least(d, Cap - L) /\ (Cap - L > 0 /\ d > 0 => n > 0)
    BY <1>1, <2>2 DEF Least
  <2>6. data # << >> => d > 0
    BY <1>1 DEF d
  <2> QED
    BY <1>2, SameNumbers, <2>1, <2>2, <2>4, <2>5, <2>6, ZenonT(60) DEF Queue!EnqueueMany, Queue!Result, Result, d
<1>4. ASSUME EnqueueSliceOf(data)
      PROVE  TypeOK' /\ Queue!EnqueueSlice(data)
  <2>1. rb' = EnqueueSlice(rb, data) /\ ret' = Result(TRUE, rb'.length - L, << >>)
        /\ call' = << "enqueue_slice", data >>
    BY <1>4 DEF EnqueueSliceOf
  <2>2. rb'.length - L = v /\ JoinsRing(rb, rb', SubSeq(data, 1, v), TRUE)
    BY <2>1, EnqueueSliceJoins, ZenonT(60)
  <2> DEFINE part == SubSeq(data, 1, v)
  <2>3. v \in Nat /\ v <= Len(data)
    <3>1. v = Least(d, Cap - L) /\ d = Len(data)
      OBVIOUS
    <3> HIDE DEF v, d, L
    <3> QED
      BY <1>1, <3>1 DEF Least
  <2> HIDE DEF v
  <2>4. part \in Seq(Elem) /\ TRUE \in BOOLEAN
    BY <2>3, Prefix
  <2>5. JoinsRing(rb, rb', part, TRUE)
    BY <2>2, ZenonT(60)
  <2> HIDE DEF part
  <2>6. TypeOK' /\ Queue!Joins(part, TRUE)
    BY <2>4, <2>5, JoinMaps, ZenonT(60)
  <2> QED
    BY <1>2, SameNumbers, <2>1, <2>2, <2>6, ZenonT(60) DEF Queue!EnqueueSlice, Queue!Result, Result, part, v
<1> QED
  BY <1>3, <1>4

\* The dequeue methods for slices do what RingQueue promises of them.
LEMMA DequeueMaps ==
  ASSUME rb \in Rings, NEW size \in Nat
  PROVE  /\ DequeueManyOf(size) => TypeOK' /\ Queue!DequeueMany(size)
         /\ DequeueSliceOf(size) => TypeOK' /\ Queue!DequeueSlice(size)
<1> DEFINE L == rb.length
           n == DequeueSize(rb, size)
           v == Least(size, L)
<1>1. L \in Nat
  BY RingFields
<1>2. Len(Items(rb)) = L /\ (Items(rb) = << >> <=> L = 0)
  <2>1. Items(rb) \in Seq(Elem) /\ Len(Items(rb)) = L
    BY Views
  <2> QED
    BY <2>1
<1>3. ASSUME DequeueManyOf(size)
      PROVE  TypeOK' /\ Queue!DequeueMany(size)
  <2>1. rb' = DequeueMany(rb, size) /\ ret' = Result(TRUE, n, DequeuedMany(rb, size))
        /\ call' = << "dequeue_many", size >>
    BY <1>3 DEF DequeueManyOf
  <2>2. n = DequeueSize(rb, size)
    OBVIOUS
  <2> HIDE DEF n
  <2>3. /\ n \in Nat /\ n <= size /\ n <= L
        /\ L > 0 /\ size > 0 => n > 0
        /\ LeavesRing(rb, rb', n)
        /\ DequeuedMany(rb, size) = SubSeq(Items(rb), 1, n)
    BY <2>1, <2>2, DequeueManyLeaves, ZenonT(60)
  <2>4. TypeOK' /\ Queue!Leaves(n)
    BY <2>3, LeaveMaps
  <2> HIDE DEF L
  <2>5. n \in 0 .. Least(size, L) /\ (L # 0 /\ size > 0 => n > 0)
    BY <1>1, <2>3 DEF Least
  <2> QED
    BY <1>2, SameNumbers, <2>1, <2>3, <2>4, <2>5, ZenonT(60) DEF Queue!DequeueMany, Queue!Result, Result
<1>4. ASSUME DequeueSliceOf(size)
      PROVE  TypeOK' /\ Queue!DequeueSlice(size)
  <2>1. rb' = DequeueSlice(rb, size)
        /\ ret' = Result(TRUE, Len(DequeuedSlice(rb, size)), DequeuedSlice(rb, size))
        /\ call' = << "dequeue_slice", size >>
    BY <1>4 DEF DequeueSliceOf
  <2>2. v = Least(size, rb.length)
    OBVIOUS
  <2> HIDE DEF v
  <2>3. /\ v \in Nat
        /\ LeavesRing(rb, rb', v)
        /\ DequeuedSlice(rb, size) = SubSeq(Items(rb), 1, v)
        /\ Len(DequeuedSlice(rb, size)) = v
    BY <2>1, <2>2, DequeueSliceLeaves
  <2>4. TypeOK' /\ Queue!Leaves(v)
    BY <2>3, LeaveMaps
  <2> QED
    BY <1>2, SameNumbers, <2>1, <2>2, <2>3, <2>4, ZenonT(60) DEF Queue!DequeueSlice, Queue!Result, Result
<1> QED
  BY <1>3, <1>4

\* The methods for one element do what RingQueue promises of them.
LEMMA OneMaps ==
  ASSUME rb \in Rings
  PROVE  /\ Clear => TypeOK' /\ Queue!Clear
         /\ DequeueOne => TypeOK' /\ Queue!DequeueOne
         /\ \A e \in Elem : EnqueueOne(e) => TypeOK' /\ Queue!EnqueueOne(e)
<1> DEFINE L == rb.length
           s == Items(rb)
<1>1. L \in Nat /\ L <= Cap /\ Cap \in Nat
  BY RingFields, RingAssumption, SMTT(60)
<1>2. s \in Seq(Elem) /\ Len(s) = L /\ (s = << >> <=> L = 0)
      /\ \A i \in 1 .. L : s[i] = Cell(rb, i - 1)
  <2>1. s \in Seq(Elem) /\ Len(s) = L /\ \A i \in 1 .. L : s[i] = Cell(rb, i - 1)
    BY Views
  <2> HIDE DEF s
  <2> QED
    BY <2>1
<1>3. ASSUME Clear
      PROVE  TypeOK' /\ Queue!Clear
  <2>1. 0 \in 0 .. Greatest(Cap - 1, 0) /\ 0 \in 0 .. Cap
    BY <1>1 DEF Greatest
  <2>2. rb' = [rb EXCEPT !.read_at = 0, !.length = 0] /\ ret' = Result(TRUE, 0, << >>)
        /\ call' = << "clear" >>
    BY <1>3 DEF Clear, RingClear
  <2>3. rb' \in Rings /\ rb'.length = 0
    BY <2>1, <2>2, ZenonT(60) DEF Rings, Ring
  <2>4. TypeOK' /\ Items(rb)' = Items(rb') /\ Queue!FreeFits
    BY <2>3, NextViews
  <2>5. Items(rb') = << >>
    BY <2>3, Views
  <2> QED
    BY <2>2, <2>4, <2>5 DEF Queue!Clear, Queue!Result, Result
<1>4. ASSUME DequeueOne
      PROVE  TypeOK' /\ Queue!DequeueOne
  <2>1. CASE RingIsEmpty(rb)
    <3>1. rb' = rb /\ ret' = Result(FALSE, 0, << >>) /\ L = 0
          /\ call' = << "dequeue_one" >>
      BY <1>4, <2>1 DEF DequeueOne, RingIsEmpty
    <3>2. TypeOK' /\ Items(rb)' = Items(rb') /\ Spare(rb)' = Spare(rb')
      BY <3>1, NextViews
    <3> QED
      BY <1>2, <3>1, <3>2 DEF Queue!DequeueOne, Queue!Result, Result
  <2>2. CASE ~ RingIsEmpty(rb)
    <3>1. /\ rb' = RingDequeueOne(rb) /\ ret' = Result(TRUE, 1, << RingFront(rb) >>)
          /\ L # 0 /\ call' = << "dequeue_one" >>
      BY <1>4, <2>2, ZenonT(60) DEF DequeueOne, RingIsEmpty
    <3>2. RingDequeueOne(rb) = Advanced(rb, 1)
      BY ZenonT(60) DEF RingDequeueOne, Advanced
    <3>3. 1 \in Nat /\ 1 <= L
      BY <1>1, <3>1
    <3>4. LeavesRing(rb, rb', 1)
      BY <3>1, <3>2, <3>3, AdvancedLeaves DEF LeavesRing
    <3>5. TypeOK' /\ Queue!Leaves(1)
      BY <3>3, <3>4, LeaveMaps, SMTT(60)
    <3>6. RingFront(rb) = s[1]
      <4> HIDE DEF s
      <4>1. 1 \in 1 .. L /\ 1 - 1 = 0
        BY <1>1, <3>3
      <4> QED
        BY <1>2, <4>1, GetIdxZero, SMTT(60) DEF RingFront, Cell
    <3> QED
      BY <1>2, <3>1, <3>5, <3>6, SMTT(60) DEF Queue!DequeueOne, Queue!Result, Result
  <2> QED
    BY <2>1, <2>2
<1>5. ASSUME NEW e \in Elem, EnqueueOne(e)
      PROVE  TypeOK' /\ Queue!EnqueueOne(e)
  <2>0. Queue!Free = Cap - L /\ RingWindow(rb) = Cap - L
    BY <1>2, RingFields, SMTT(60) DEF Queue!Free, RingWindow
  <2>1. CASE RingIsFull(rb)
    <3>1. rb' = rb /\ ret' = Result(FALSE, 0, << >>) /\ Cap - L = 0
          /\ call' = << "enqueue_one", e >>
      BY <1>5, <2>0, <2>1, ZenonT(60) DEF EnqueueOne, RingIsFull
    <3>2. TypeOK' /\ Items(rb)' = Items(rb') /\ Spare(rb)' = Spare(rb')
      BY <3>1, NextViews
    <3> QED
      BY <2>0, <3>1, <3>2, ZenonT(60) DEF Queue!EnqueueOne, Queue!Result, Result
  <2>2. CASE ~ RingIsFull(rb)
    <3>1. /\ rb' = RingEnqueueOne(rb, e) /\ ret' = Result(TRUE, 1, << >>)
          /\ Cap - L # 0 /\ call' = << "enqueue_one", e >>
      BY <1>5, <2>0, <2>2, ZenonT(60) DEF EnqueueOne, RingIsFull
    <3>2. L < Cap /\ Cap - L > 0
      <4> HIDE DEF L
      <4> QED
        BY <1>1, <3>1
    <3>3. JoinsRing(rb, rb', << e >>, FALSE)
      BY <3>1, <3>2, EnqueueOneJoins, ZenonT(60)
    <3> DEFINE data == << e >>
    <3>4. data \in Seq(Elem) /\ FALSE \in BOOLEAN
      OBVIOUS
    <3>5. JoinsRing(rb, rb', data, FALSE)
      BY <3>3, ZenonT(60)
    <3> HIDE DEF data
    <3>6. TypeOK' /\ Queue!Joins(data, FALSE)
      BY <3>4, <3>5, JoinMaps, ZenonT(60)
    <3> QED
      BY <2>0, <3>1, <3>2, <3>6, ZenonT(60) DEF Queue!EnqueueOne, Queue!Result, Result, data
  <2> QED
    BY <2>1, <2>2, SMTT(60)
<1> QED
  BY <1>3, <1>4, <1>5

\* Reads and writes at an offset do what RingQueue promises of them.
LEMMA RandomAccessMaps ==
  ASSUME rb \in Rings, NEW offset \in Nat
  PROVE  /\ \A data \in Seq(Elem) : Write(offset, data) => TypeOK' /\ Queue!WriteUnallocated(offset, data)
         /\ \A size \in Nat : Read(offset, size) => TypeOK' /\ Queue!ReadAllocated(offset, size)
<1> DEFINE L == rb.length
<1>1. L \in Nat /\ L <= Cap /\ Cap \in Nat
  BY RingFields, RingAssumption
<1>2. Len(Items(rb)) = L /\ Queue!Free = Cap - L
      /\ Spare(rb) \in [0 .. (Cap - L - 1) -> Elem]
  BY Views DEF Queue!Free
<1>3. ASSUME NEW data \in Seq(Elem), Write(offset, data)
      PROVE  TypeOK' /\ Queue!WriteUnallocated(offset, data)
  <2> DEFINE m == Greatest(Least(Len(data), Cap - L - offset), 0)
  <2>1. /\ rb' = WriteUnallocated(rb, offset, data)
        /\ ret' = Result(TRUE, WrittenUnallocated(rb, offset, Len(data)), << >>)
        /\ call' = << "write_unallocated", offset, data >>
    BY <1>3 DEF Write
  <2>2. m = Greatest(Least(Len(data), Cap - rb.length - offset), 0)
    OBVIOUS
  <2> HIDE DEF m
  <2>3. /\ WrittenUnallocated(rb, offset, Len(data)) = m
        /\ rb' \in Rings /\ rb'.length = L
        /\ Items(rb') = Items(rb)
        /\ \A o \in 0 .. (Cap - L - 1) :
             Spare(rb')[o] = IF o - offset \in 0 .. (m - 1) THEN data[o - offset + 1] ELSE Spare(rb)[o]
    <3> DEFINE w == WriteUnallocated(rb, offset, data)
    <3>1. /\ WrittenUnallocated(rb, offset, Len(data)) = m
          /\ w \in Rings
          /\ w.length = rb.length
          /\ Items(w) = Items(rb)
          /\ \A o \in 0 .. (Cap - rb.length - 1) :
               Spare(w)[o] = IF o - offset \in 0 .. (m - 1) THEN data[o - offset + 1] ELSE Spare(rb)[o]
      <4>1. WritesSpare(rb, offset, data, m)
        BY <2>2, WriteUnallocatedSpare, ZenonT(60)
      <4> QED
        BY <4>1, ZenonT(60) DEF WritesSpare
    <3>2. rb' = w
      BY <2>1
    <3> HIDE DEF w
    <3> QED
      BY <3>1, <3>2, ZenonT(60)
  <2>4. TypeOK' /\ Items(rb)' = Items(rb') /\ Spare(rb)' = Spare(rb')
    BY <2>3, NextViews, SMTT(60)
  <2>5. Spare(rb') = [o \in DOMAIN Spare(rb) |-> IF o - offset \in 0 .. (m - 1)
                                                  THEN data[o - offset + 1] ELSE Spare(rb)[o]]
    <3>1. Spare(rb') \in [0 .. (Cap - L - 1) -> Elem]
      BY <2>3, Views
    <3>2. DOMAIN Spare(rb) = 0 .. (Cap - L - 1)
      BY <1>2, SMTT(60)
    <3> QED
      BY <2>3, <3>1, <3>2, SMTT(60)
  <2> QED
    BY <1>2, SameNumbers, <2>1, <2>2, <2>3, <2>4, <2>5, ZenonT(60)
       DEF Queue!WriteUnallocated, Queue!Result, Result
<1>4. ASSUME NEW size \in Nat, Read(offset, size)
      PROVE  TypeOK' /\ Queue!ReadAllocated(offset, size)
  <2> DEFINE m == Greatest(Least(size, L - offset), 0)
             data == ReadAllocated(rb, offset, size)
  <2>1. rb' = rb /\ ret' = Result(TRUE, Len(data), data)
        /\ call' = << "read_allocated", offset, size >>
    BY <1>4 DEF Read
  <2>2. m = Greatest(Least(size, rb.length - offset), 0)
    OBVIOUS
  <2> HIDE DEF m
  <2>3. data = SubSeq(Items(rb), offset + 1, offset + m) /\ Len(data) = m
    BY <2>2, ReadAllocatedItems, ZenonT(60)
  <2>4. TypeOK' /\ Items(rb)' = Items(rb') /\ Spare(rb)' = Spare(rb')
    BY <2>1, NextViews
  <2> QED
    BY <1>2, SameNumbers, <2>1, <2>2, <2>3, <2>4, ZenonT(60) DEF Queue!ReadAllocated, Queue!Result, Result
<1> QED
  BY <1>3, <1>4

\* enqueue_unallocated() and dequeue_allocated() do what RingQueue promises
\* of them.
LEMMA CountMaps ==
  ASSUME rb \in Rings, NEW count \in Nat
  PROVE  /\ EnqueueWritten(count) => TypeOK' /\ Queue!EnqueueUnallocated(count)
         /\ Drop(count) => TypeOK' /\ Queue!DequeueAllocated(count)
<1>1. Len(Items(rb)) = rb.length /\ Queue!Free = Cap - rb.length /\ RingWindow(rb) = Cap - rb.length
  BY Views, RingFields DEF Queue!Free, RingWindow
<1>2. ASSUME EnqueueWritten(count)
      PROVE  TypeOK' /\ Queue!EnqueueUnallocated(count)
  <2> DEFINE data == [i \in 1 .. count |-> Spare(rb)[i - 1]]
  <2>1. count <= Cap - rb.length /\ rb' = EnqueueUnallocated(rb, count)
        /\ ret' = Result(TRUE, count, << >>) /\ call' = << "enqueue_unallocated", count >>
    BY <1>1, <1>2 DEF EnqueueWritten
  <2>2. JoinsRing(rb, rb', data, FALSE) /\ FALSE \in BOOLEAN
    BY <2>1, EnqueueUnallocatedJoins, ZenonT(60)
  <2>3. data \in Seq(Elem)
    <3> DEFINE L == rb.length
    <3>1. L \in Nat /\ L <= Cap /\ Cap \in Nat /\ count <= Cap - L
      BY <2>1, RingFields, RingAssumption
    <3>2. Spare(rb) \in [0 .. (Cap - L - 1) -> Elem]
      BY Views
    <3> HIDE DEF L
    <3>3. ASSUME NEW i \in 1 .. count
          PROVE  Spare(rb)[i - 1] \in Elem
      <4>1. i - 1 \in 0 .. (Cap - L - 1)
        BY <3>1
      <4> QED
        BY <3>2, <4>1
    <3>4. data \in [1 .. count -> Elem]
      BY <3>3
    <3> QED
      BY <3>4
  <2> HIDE DEF data
  <2>4. TypeOK' /\ Queue!Joins(data, FALSE)
    BY <2>2, <2>3, JoinMaps, ZenonT(60)
  <2> QED
    BY <1>1, <2>1, <2>4, ZenonT(60) DEF Queue!EnqueueUnallocated, Queue!Result, Result, data
<1>3. ASSUME Drop(count)
      PROVE  TypeOK' /\ Queue!DequeueAllocated(count)
  <2>1. count <= rb.length /\ rb' = DequeueAllocated(rb, count) /\ ret' = Result(TRUE, count, << >>)
        /\ call' = << "dequeue_allocated", count >>
    BY <1>3 DEF Drop
  <2>2. DequeueAllocated(rb, count) = Advanced(rb, count)
    BY ZenonT(60) DEF DequeueAllocated, Advanced
  <2>3. LeavesRing(rb, rb', count)
    BY <2>1, <2>2, AdvancedLeaves DEF LeavesRing
  <2>4. TypeOK' /\ Queue!Leaves(count)
    BY <2>3, LeaveMaps
  <2> QED
    BY <1>1, <2>1, <2>4 DEF Queue!DequeueAllocated, Queue!Result, Result
<1> QED
  BY <1>2, <1>3

\* Every step of the ring is a step of the queue.
LEMMA StepMaps ==
  ASSUME TypeOK, [Next]_vars
  PROVE  TypeOK' /\ [Queue!Next]_<< Items(rb), Spare(rb), call, ret >>
<1>0. rb \in Rings
  BY DEF TypeOK, Rings
<1>1. CASE UNCHANGED vars
  <2>1. rb' = rb /\ call' = call /\ ret' = ret
    BY <1>1 DEF vars
  <2>2. TypeOK' /\ Items(rb)' = Items(rb') /\ Spare(rb)' = Spare(rb')
    BY <1>0, <2>1, NextViews, SMTT(60)
  <2> QED
    BY <2>1, <2>2
<1>2. CASE Clear \/ DequeueOne \/ \E e \in Elem : EnqueueOne(e)
  BY <1>0, <1>2, OneMaps, SMTT(60) DEF Queue!Next
<1>3. CASE \E data \in Slices : EnqueueManyOf(data) \/ EnqueueSliceOf(data)
  <2>1. PICK data \in Slices : EnqueueManyOf(data) \/ EnqueueSliceOf(data)
    BY <1>3
  <2>2. data \in Seq(Elem) /\ Queue!Slices = Slices
    BY SlicesAreSeqs DEF Queue!Slices, Slices
  <2> QED
    BY <1>0, <2>1, <2>2, EnqueueMaps DEF Queue!Next
<1>4. CASE \E size \in 0 .. MaxSlice : DequeueManyOf(size) \/ DequeueSliceOf(size)
  <2>1. PICK size \in 0 .. MaxSlice : DequeueManyOf(size) \/ DequeueSliceOf(size)
    BY <1>4
  <2>2. size \in Nat
    BY RingAssumption
  <2> QED
    BY <1>0, <2>1, <2>2, DequeueMaps, SMTT(60) DEF Queue!Next
<1>5. CASE \E offset \in 0 .. Cap, data \in Slices : Write(offset, data)
  <2>1. PICK offset \in 0 .. Cap, data \in Slices : Write(offset, data)
    BY <1>5
  <2>2. offset \in Nat /\ data \in Seq(Elem) /\ Queue!Slices = Slices
    BY SlicesAreSeqs, RingAssumption DEF Queue!Slices, Slices
  <2>3. TypeOK' /\ Queue!WriteUnallocated(offset, data)
    BY <1>0, <2>1, <2>2, RandomAccessMaps, SMTT(60)
  <2> QED
    BY <2>2, <2>3 DEF Queue!Next
<1>6. CASE \E offset \in 0 .. Cap, size \in 0 .. MaxSlice : Read(offset, size)
  <2>1. PICK offset \in 0 .. Cap, size \in 0 .. MaxSlice : Read(offset, size)
    BY <1>6
  <2>2. offset \in Nat /\ size \in Nat
    BY RingAssumption
  <2>3. TypeOK' /\ Queue!ReadAllocated(offset, size)
    BY <1>0, <2>1, <2>2, RandomAccessMaps, SMTT(60)
  <2> QED
    BY <2>3 DEF Queue!Next
<1>7. CASE \E count \in 0 .. Cap : EnqueueWritten(count) \/ Drop(count)
  <2>1. PICK count \in 0 .. Cap : EnqueueWritten(count) \/ Drop(count)
    BY <1>7
  <2>2. count \in Nat
    BY RingAssumption
  <2> QED
    BY <1>0, <2>1, <2>2, CountMaps, SMTT(60) DEF Queue!Next
<1> QED
  BY <1>1, <1>2, <1>3, <1>4, <1>5, <1>6, <1>7 DEF Next

-----------------------------------------------------------------------------
\* For every capacity, every element type and every slice: read_at stays an
\* index of the storage and length never exceeds the capacity.
THEOREM RingTypeCorrect == Spec => []TypeOK
<1>1. Init => TypeOK
  BY InitMaps
<1>2. TypeOK /\ [Next]_vars => TypeOK'
  BY StepMaps
<1> QED
  BY <1>1, <1>2, PTL DEF Spec

\* The ring buffer is a queue: every method does and returns what RingQueue
\* says, for every capacity (0 included), wherever the indices wrap around.
THEOREM RingImplementsQueue == Spec => ImplementsQueue
<1>1. Init => Queue!Init
  BY InitMaps
<1>2. TypeOK /\ [Next]_vars => [Queue!Next]_<< Items(rb), Spare(rb), call, ret >>
  BY StepMaps
<1> QED
  BY <1>1, <1>2, RingTypeCorrect, PTL DEF Spec, ImplementsQueue, Queue!Spec

=============================================================================
