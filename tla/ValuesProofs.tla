---------------------------- MODULE ValuesProofs ----------------------------
(***************************************************************************)
(* What is stored comes back, for values of every size, any base of bytes  *)
(* and any number of groups: elements and lists of them are read where     *)
(* they stand, and whole values from the start of a byte string; what a    *)
(* decoder accepts is what an encoder writes; longer bytes are read the    *)
(* same way.  Varints are the digits of their number.  From these facts    *)
(* follow the three properties of ValueCodec.                              *)
(***************************************************************************)
EXTENDS ValueCodec, SequenceTheorems, WellFoundedInduction, TLAPS

\* A byte string of data at position p.
HoldsAt(data, p, s) ==
    /\ p \in Nat /\ p + Len(s) <= Len(data)
    /\ \A m \in 1 .. Len(s) : data[p + m] = s[m]

-----------------------------------------------------------------------------
(* Integers.                                                               *)

\* Digits are bytes, and put together again they are the number.
LEMMA Division ==
    ASSUME NEW n \in Nat
    PROVE  /\ n % Base \in Byte /\ n \div Base \in Nat
           /\ n = (n % Base) + Base * (n \div Base)
  BY ByteAssumption DEF Byte

LEMMA DivisionBelow ==
    ASSUME NEW n \in Nat, NEW b \in Nat, n < Base * b
    PROVE  n \div Base < b
  <1>1. Base \in Nat /\ Base > 1
    BY ByteAssumption
  <1> QED
    BY <1>1

LEMMA DivisionTwice ==
    ASSUME NEW n \in Nat
    PROVE  (n \div Base) \div Base = n \div U16Limit
  <1>1. Base \in Nat /\ Base > 1
    BY ByteAssumption
  <1> QED
    BY <1>1 DEF U16Limit

LEMMA HighIsNat ==
    ASSUME NEW n \in Nat
    PROVE  n \div U16Limit \in Nat
  <1>1. n \div Base \in Nat
    BY Division
  <1>2. (n \div Base) \div Base \in Nat
    BY <1>1, Division
  <1> QED
    BY <1>2, DivisionTwice

LEMMA LimitsAreNat ==
    /\ Base \in Nat /\ Base > 1
    /\ U16Limit \in Nat /\ U16Limit >= Base /\ U32Limit \in Nat /\ U32Limit >= U16Limit
  <1>1. Base \in Nat /\ Base > 1
    BY ByteAssumption
  <1>2. U16Limit \in Nat /\ U16Limit >= Base
    BY <1>1 DEF U16Limit
  <1>3. U32Limit \in Nat /\ U32Limit >= U16Limit
    <2> DEFINE u == U16Limit
    <2>1. u \in Nat /\ u > 1 /\ U32Limit = u * u
      BY <1>1, <1>2 DEF U32Limit
    <2> HIDE DEF u
    <2>2. u * u \in Nat /\ u * u >= u
      BY <2>1
    <2> QED
      BY <2>1, <2>2 DEF u
  <1> QED
    BY <1>1, <1>2, <1>3

-----------------------------------------------------------------------------
(* Byte strings.                                                           *)

\* What holds both of two strings in a row holds each.
LEMMA HoldsParts ==
    ASSUME NEW data, Len(data) \in Nat, NEW p, NEW s \in Seq(Byte), NEW t \in Seq(Byte),
           HoldsAt(data, p, s \o t)
    PROVE  HoldsAt(data, p, s) /\ HoldsAt(data, p + Len(s), t)
  <1> DEFINE a == Len(s)
             b == Len(t)
  <1>1. /\ a \in Nat /\ b \in Nat /\ Len(s \o t) = a + b
        /\ \A m \in 1 .. a : (s \o t)[m] = s[m]
        /\ \A m \in 1 .. b : (s \o t)[a + m] = t[m]
    OBVIOUS
  <1>2. /\ p \in Nat /\ p + (a + b) <= Len(data)
        /\ \A m \in 1 .. a + b : data[p + m] = (s \o t)[m]
    BY <1>1 DEF HoldsAt
  <1> HIDE DEF a, b
  <1>3. ASSUME NEW m \in 1 .. a PROVE data[p + m] = s[m]
    <2>1. m \in 1 .. a + b
      BY <1>1
    <2> QED
      BY <1>1, <1>2, <2>1
  <1>4. ASSUME NEW m \in 1 .. b PROVE data[p + a + m] = t[m]
    <2>1. a + m \in 1 .. a + b /\ p + a + m = p + (a + m)
      BY <1>1, <1>2
    <2> QED
      BY <1>1, <1>2, <2>1
  <1>5. p + a \in Nat /\ p + a + b <= Len(data) /\ p + a <= Len(data)
    BY <1>1, <1>2
  <1> QED
    BY <1>2, <1>3, <1>4, <1>5 DEF HoldsAt, a, b

\* A string is held at its own start.
LEMMA HoldsItself ==
    ASSUME NEW data \in Seq(Byte)
    PROVE  HoldsAt(data, 0, data)
  BY DEF HoldsAt

LEMMA PutU16Type ==
    ASSUME NEW n \in Nat
    PROVE  PutU16(n) \in Seq(Byte) /\ Len(PutU16(n)) = 2
  <1>1. n % Base \in Byte /\ (n \div Base) % Base \in Byte
    BY Division
  <1> QED
    BY <1>1 DEF PutU16

LEMMA PutU32Type ==
    ASSUME NEW n \in Nat
    PROVE  PutU32(n) \in Seq(Byte) /\ Len(PutU32(n)) = 4
  <1> DEFINE a == PutU16(n)
             b == PutU16(n \div U16Limit)
  <1>1. n \div U16Limit \in Nat
    BY HighIsNat
  <1>2. a \in Seq(Byte) /\ Len(a) = 2 /\ b \in Seq(Byte) /\ Len(b) = 2
    BY <1>1, PutU16Type
  <1>3. PutU32(n) = a \o b
    BY DEF PutU32
  <1> HIDE DEF a, b
  <1>4. a \o b \in Seq(Byte) /\ Len(a \o b) = Len(a) + Len(b)
    BY <1>2, ConcatProperties
  <1> QED
    BY <1>2, <1>3, <1>4

\* Two bytes are read back as the lower digits of the number.
LEMMA U16Low ==
    ASSUME NEW data, NEW p, NEW n \in Nat, HoldsAt(data, p, PutU16(n))
    PROVE  U16At(data, p) \in Nat /\ U16At(data, p) + U16Limit * (n \div U16Limit) = n
  <1> DEFINE q == n \div Base
             x == n % Base
             y == q % Base
             r == q \div Base
  <1>1. x \in Nat /\ q \in Nat /\ n = x + Base * q
    BY Division DEF Byte
  <1>2. y \in Nat /\ r \in Nat /\ q = y + Base * r
    BY <1>1, Division DEF Byte
  <1>3. n \div U16Limit = r
    BY DivisionTwice
  <1>4. U16At(data, p) = x + Base * y
    <2>1. /\ PutU16(n) = <<x, y>> /\ Len(PutU16(n)) = 2
      BY DEF PutU16
    <2>2. p \in Nat /\ data[p + 1] = PutU16(n)[1] /\ data[p + 2] = PutU16(n)[2]
      BY <2>1 DEF HoldsAt
    <2>3. PutU16(n)[1] = x /\ PutU16(n)[2] = y
      BY <2>1
    <2> QED
      BY <2>2, <2>3 DEF U16At
  <1> HIDE DEF q, x, y, r
  <1>5. Base \in Nat
    BY LimitsAreNat
  <1>6. x + Base * y \in Nat /\ (x + Base * y) + (Base * Base) * r = n
    BY <1>1, <1>2, <1>5
  <1> QED
    BY <1>3, <1>4, <1>6 DEF U16Limit

\* A number that fits two bytes is read back.
LEMMA U16RoundTrip ==
    ASSUME NEW data, NEW p, NEW n \in 0 .. U16Limit - 1, HoldsAt(data, p, PutU16(n))
    PROVE  U16At(data, p) = n
  <1>1. n \in Nat /\ U16Limit \in Nat /\ U16Limit > 0
    BY LimitsAreNat
  <1>2. n \div U16Limit = 0
    BY <1>1
  <1> QED
    BY <1>1, <1>2, U16Low

\* A number that fits four bytes is read back.
LEMMA U32RoundTrip ==
    ASSUME NEW data, Len(data) \in Nat, NEW p, NEW n \in 0 .. U32Limit - 1,
           HoldsAt(data, p, PutU32(n))
    PROVE  U32At(data, p) = n
  <1> DEFINE h == n \div U16Limit
  <1>1. n \in Nat /\ h \in Nat
    BY LimitsAreNat, HighIsNat
  <1>2. h \in 0 .. U16Limit - 1
    <2> DEFINE u == U16Limit
    <2>1. u \in Nat /\ u > 0 /\ n < u * u /\ n \in Nat
      BY LimitsAreNat DEF U32Limit
    <2> HIDE DEF u
    <2>2. n \div u \in 0 .. u - 1
      BY <2>1
    <2> QED
      BY <2>2 DEF u
  <1>3. /\ PutU16(n) \in Seq(Byte) /\ Len(PutU16(n)) = 2
        /\ PutU16(h) \in Seq(Byte) /\ Len(PutU16(h)) = 2
    BY <1>1, PutU16Type
  <1>4. HoldsAt(data, p, PutU16(n)) /\ HoldsAt(data, p + 2, PutU16(h))
    BY <1>3, HoldsParts DEF PutU32
  <1>5. U16At(data, p + 2) = h
    BY <1>2, <1>4, U16RoundTrip
  <1>6. U16At(data, p) + U16Limit * h = n
    BY <1>1, <1>4, U16Low
  <1> QED
    BY <1>5, <1>6 DEF U32At

\* The bytes held at a position are those cut out there.
LEMMA HeldBytes ==
    ASSUME NEW data \in Seq(Byte), NEW p, NEW s \in Seq(Byte), HoldsAt(data, p, s)
    PROVE  BytesAt(data, p, Len(s)) = s
  <1> DEFINE lo == p + 1
             hi == p + Len(s)
             cut == SubSeq(data, lo, hi)
  <1>1. /\ Len(s) \in Nat /\ p \in Nat /\ p + Len(s) <= Len(data) /\ Len(data) \in Nat
        /\ \A m \in 1 .. Len(s) : data[p + m] = s[m]
    BY DEF HoldsAt
  <1>2. lo \in Int /\ hi \in Int /\ \A i \in lo .. hi : data[i] \in Byte
    BY <1>1
  <1>3. /\ (IF lo <= hi THEN hi - lo + 1 ELSE 0) = Len(s) /\ hi - lo + 1 = Len(s)
        /\ \A m \in 1 .. Len(s) : data[lo + m - 1] = s[m]
    <2>1. \A m \in 1 .. Len(s) : lo + m - 1 = p + m
      BY <1>1
    <2>2. \A m \in 1 .. Len(s) : data[lo + m - 1] = s[m]
      BY <1>1, <2>1
    <2> QED
      BY <1>1, <2>2
  <1>4. BytesAt(data, p, Len(s)) = cut
    BY DEF BytesAt
  <1> HIDE DEF lo, hi
  <1>5. /\ cut \in Seq(Byte)
        /\ Len(cut) = IF lo <= hi THEN hi - lo + 1 ELSE 0
        /\ \A i \in 1 .. hi - lo + 1 : cut[i] = data[lo + i - 1]
    BY <1>2, SubSeqProperties
  <1> HIDE DEF cut
  <1>6. cut = s
    BY <1>3, <1>5, SeqEqual
  <1> QED
    BY <1>4, <1>6

\* What is held in two strings in a row is held in one.
LEMMA HoldsJoined ==
    ASSUME NEW data, Len(data) \in Nat, NEW p, NEW s \in Seq(Byte), NEW t \in Seq(Byte),
           HoldsAt(data, p, s), HoldsAt(data, p + Len(s), t)
    PROVE  HoldsAt(data, p, s \o t)
  <1> DEFINE a == Len(s)
             b == Len(t)
  <1>1. /\ a \in Nat /\ b \in Nat /\ Len(s \o t) = a + b
        /\ \A m \in 1 .. a + b : (s \o t)[m] = IF m <= a THEN s[m] ELSE t[m - a]
    OBVIOUS
  <1>2. /\ p \in Nat /\ p + a + b <= Len(data)
        /\ \A m \in 1 .. a : data[p + m] = s[m]
        /\ \A m \in 1 .. b : data[p + a + m] = t[m]
    BY DEF HoldsAt
  <1> HIDE DEF a, b
  <1>3. ASSUME NEW m \in 1 .. a + b PROVE data[p + m] = (s \o t)[m]
    <2>1. CASE m <= a
      <3>1. m \in 1 .. a
        BY <2>1
      <3> QED
        BY <1>1, <1>2, <2>1, <3>1
    <2>2. CASE ~ (m <= a)
      <3>1. m - a \in 1 .. b /\ p + a + (m - a) = p + m
        BY <1>1, <1>2, <2>2
      <3> QED
        BY <1>1, <1>2, <2>2, <3>1
    <2> QED
      BY <2>1, <2>2
  <1>4. p + (a + b) <= Len(data)
    BY <1>1, <1>2
  <1> QED
    BY <1>1, <1>2, <1>3, <1>4 DEF HoldsAt

\* Bytes cut out at a position are held there.
LEMMA CutOutIsHeld ==
    ASSUME NEW data \in Seq(Byte), NEW p \in Nat, NEW n \in Nat, p + n <= Len(data)
    PROVE  /\ BytesAt(data, p, n) \in Seq(Byte) /\ Len(BytesAt(data, p, n)) = n
           /\ HoldsAt(data, p, BytesAt(data, p, n))
  <1> DEFINE lo == p + 1
             hi == p + n
             cut == SubSeq(data, lo, hi)
  <1>1. lo \in Int /\ hi \in Int /\ Len(data) \in Nat /\ \A i \in lo .. hi : data[i] \in Byte
    OBVIOUS
  <1>2. /\ (IF lo <= hi THEN hi - lo + 1 ELSE 0) = n /\ hi - lo + 1 = n
        /\ \A m \in 1 .. n : lo + m - 1 = p + m
    OBVIOUS
  <1>3. BytesAt(data, p, n) = cut
    BY DEF BytesAt
  <1> HIDE DEF lo, hi
  <1>4. /\ cut \in Seq(Byte)
        /\ Len(cut) = IF lo <= hi THEN hi - lo + 1 ELSE 0
        /\ \A i \in 1 .. hi - lo + 1 : cut[i] = data[lo + i - 1]
    BY <1>1, SubSeqProperties
  <1> HIDE DEF cut
  <1>5. Len(cut) = n /\ \A m \in 1 .. n : data[p + m] = cut[m]
    BY <1>2, <1>4
  <1> QED
    BY <1>3, <1>4, <1>5 DEF HoldsAt

\* Two bytes are the encoding of the number they are read as.
LEMMA U16Canonical ==
    ASSUME NEW data \in Seq(Byte), NEW p \in Nat, p + 2 <= Len(data)
    PROVE  U16At(data, p) \in 0 .. U16Limit - 1 /\ HoldsAt(data, p, PutU16(U16At(data, p)))
  <1> DEFINE x == data[p + 1]
             y == data[p + 2]
             n == x + Base * y
  <1>1. Base \in Nat /\ Base > 1
    BY LimitsAreNat
  <1>2. x \in Byte /\ y \in Byte
    <2>1. p + 1 \in 1 .. Len(data) /\ p + 2 \in 1 .. Len(data)
      OBVIOUS
    <2> QED
      BY <2>1
  <1>3. U16At(data, p) = n
    BY DEF U16At
  <1> HIDE DEF x, y
  <1>4. x \in 0 .. Base - 1 /\ y \in 0 .. Base - 1
    BY <1>2 DEF Byte
  <1>5. n \in Nat /\ n % Base = x /\ n \div Base = y /\ y % Base = y
    BY <1>1, <1>4
  <1>6. n \in 0 .. U16Limit - 1
    BY <1>1, <1>4 DEF U16Limit
  <1>7. PutU16(n) = <<x, y>> /\ Len(PutU16(n)) = 2
    BY <1>5 DEF PutU16
  <1> HIDE DEF n
  <1>8. HoldsAt(data, p, PutU16(n))
    <2>1. \A m \in 1 .. 2 : data[p + m] = <<x, y>>[m]
      BY DEF x, y
    <2> QED
      BY <1>7, <2>1 DEF HoldsAt
  <1> QED
    BY <1>3, <1>6, <1>8

\* So are four.
LEMMA U32Canonical ==
    ASSUME NEW data \in Seq(Byte), NEW p \in Nat, p + 4 <= Len(data)
    PROVE  U32At(data, p) \in U32 /\ HoldsAt(data, p, PutU32(U32At(data, p)))
  <1> DEFINE x == U16At(data, p)
             y == U16At(data, p + 2)
             n == x + U16Limit * y
  <1>1. /\ x \in 0 .. U16Limit - 1 /\ y \in 0 .. U16Limit - 1
        /\ HoldsAt(data, p, PutU16(x)) /\ HoldsAt(data, p + 2, PutU16(y))
    BY U16Canonical
  <1>2. U32At(data, p) = n
    BY DEF U32At
  <1>3. Base \in Nat /\ Base > 1 /\ U16Limit \in Nat /\ U16Limit = Base * Base
    BY LimitsAreNat DEF U16Limit
  <1> HIDE DEF x, y
  <1>4. n \in 0 .. U32Limit - 1 /\ n \div U16Limit = y
    <2> DEFINE u == U16Limit
    <2>1. u \in Nat /\ U32Limit = u * u /\ x \in 0 .. u - 1 /\ y \in 0 .. u - 1
          /\ n = x + u * y
      BY <1>1, <1>3 DEF U32Limit
    <2> HIDE DEF u, n
    <2>2. n \in Nat /\ n < u * u
      <3>1. u * y \in Nat /\ u * y <= u * (u - 1) /\ u * (u - 1) = u * u - u
        BY <2>1
      <3> QED
        BY <2>1, <3>1
    <2>3. n \div u = y
      BY <2>1
    <2>4. n \in 0 .. U32Limit - 1
      <3>1. u * u \in Int
        BY <2>1
      <3> QED
        BY <2>1, <2>2, <3>1
    <2> QED
      BY <2>3, <2>4 DEF u
  <1>5. PutU16(n) = PutU16(x)
    <2> DEFINE q == x \div Base
               r == x % Base
    <2>1. r \in 0 .. Base - 1 /\ q \in Nat /\ x = r + Base * q
      BY <1>1, Division DEF Byte
    <2> HIDE DEF q, r
    <2>2. n = r + Base * (q + Base * y) /\ q + Base * y \in Nat
      BY <1>1, <1>3, <2>1
    <2>3. n % Base = r /\ n \div Base = q + Base * y
      <3> DEFINE k == q + Base * y
      <3>1. k \in Nat /\ n = r + Base * k
        BY <2>2
      <3> HIDE DEF k, n
      <3>2. n % Base = r /\ n \div Base = k
        BY <1>3, <2>1, <3>1
      <3> QED
        BY <3>2 DEF k
    <2>4. (q + Base * y) % Base = q % Base
      <3> DEFINE a == q % Base
                 b == q \div Base
      <3>1. a \in 0 .. Base - 1 /\ b \in Nat /\ q = a + Base * b
        BY <2>1, Division DEF Byte
      <3> HIDE DEF a, b
      <3>2. q + Base * y = a + Base * (b + y) /\ b + y \in Nat
        BY <1>1, <1>3, <3>1
      <3> DEFINE k == b + y
      <3> HIDE DEF k
      <3>3. \A k1 \in Nat : (a + Base * k1) % Base = a
        BY <1>3, <3>1
      <3>4. (q + Base * y) % Base = a
        BY <3>2, <3>3
      <3> QED
        BY <3>4 DEF a
    <2>5. (n \div Base) % Base = (x \div Base) % Base /\ n % Base = x % Base
      BY <2>3, <2>4 DEF q, r
    <2> QED
      BY <2>5 DEF PutU16
  <1>6. PutU32(n) = PutU16(x) \o PutU16(y)
    BY <1>4, <1>5 DEF PutU32
  <1>7. /\ PutU16(x) \in Seq(Byte) /\ Len(PutU16(x)) = 2 /\ PutU16(y) \in Seq(Byte)
    BY <1>1, <1>3, PutU16Type
  <1>8. HoldsAt(data, p, PutU32(n))
    <2> DEFINE a == PutU16(x)
               b == PutU16(y)
    <2>1. a \in Seq(Byte) /\ b \in Seq(Byte) /\ HoldsAt(data, p, a) /\ HoldsAt(data, p + Len(a), b)
      BY <1>1, <1>7
    <2>2. Len(data) \in Nat
      OBVIOUS
    <2> HIDE DEF a, b
    <2>3. HoldsAt(data, p, a \o b)
      BY <2>1, <2>2, HoldsJoined
    <2> QED
      BY <1>6, <2>3 DEF a, b
  <1> QED
    BY <1>2, <1>4, <1>8 DEF U32

\* What a prefix holds, the whole holds.
IsPrefixOf(data, whole) ==
    Len(data) <= Len(whole) /\ \A i \in 1 .. Len(data) : data[i] = whole[i]

LEMMA PrefixHolds ==
    ASSUME NEW data, NEW whole, Len(data) \in Nat, Len(whole) \in Nat, IsPrefixOf(data, whole),
           NEW p, NEW s, Len(s) \in Nat, HoldsAt(data, p, s)
    PROVE  HoldsAt(whole, p, s)
  <1>1. ASSUME NEW m \in 1 .. Len(s) PROVE whole[p + m] = s[m]
    <2>1. p + m \in 1 .. Len(data) /\ data[p + m] = s[m]
      BY DEF HoldsAt
    <2> QED
      BY <2>1 DEF IsPrefixOf
  <1> QED
    BY <1>1 DEF HoldsAt, IsPrefixOf

-----------------------------------------------------------------------------
(* Strings.                                                                *)
\* The strings that a u16 length has room for.
IsString(s) == s \in Text /\ Len(s) < U16Limit

LEMMA PutStringType ==
    ASSUME NEW s \in Seq(Byte)
    PROVE  PutString(s) \in Seq(Byte) /\ Len(PutString(s)) = Len(s) + 2
  <1> DEFINE a == PutU16(Len(s))
  <1>1. a \in Seq(Byte) /\ Len(a) = 2 /\ Len(s) \in Nat
    BY PutU16Type
  <1> HIDE DEF a
  <1>2. a \o s \in Seq(Byte) /\ Len(a \o s) = Len(a) + Len(s)
    BY <1>1, ConcatProperties
  <1>3. PutString(s) = a \o s
    BY DEF PutString, a
  <1> QED
    BY <1>1, <1>2, <1>3

\* A string is read back.
LEMMA StringRoundTrip ==
    ASSUME NEW data \in Seq(Byte), NEW p, NEW rest \in Nat, NEW s, IsString(s),
           HoldsAt(data, p, PutString(s)), p + Len(s) + 2 + rest <= Len(data)
    PROVE  ReadString(data, p, rest) = Ok(p + Len(s) + 2, s)
  <1>1. /\ s \in Seq(Byte) /\ IsUtf8(s) /\ Len(s) \in 0 .. U16Limit - 1
        /\ Len(data) \in Nat
    BY LimitsAreNat DEF IsString, Text
  <1>2. PutU16(Len(s)) \in Seq(Byte) /\ Len(PutU16(Len(s))) = 2
    BY <1>1, PutU16Type
  <1>3. HoldsAt(data, p, PutU16(Len(s))) /\ HoldsAt(data, p + 2, s)
    BY <1>1, <1>2, HoldsParts DEF PutString
  <1>4. U16At(data, p) = Len(s)
    BY <1>1, <1>3, U16RoundTrip
  <1>5. BytesAt(data, p + 2, Len(s)) = s
    BY <1>1, <1>3, HeldBytes
  <1>6. p \in Nat /\ p + 2 + Len(s) = p + Len(s) + 2
    BY <1>1, <1>3 DEF HoldsAt
  <1>7. ~ (p + 2 > Len(data)) /\ ~ (p + 2 + Len(s) + rest > Len(data))
    BY <1>1, <1>6
  <1> QED
    BY <1>1, <1>4, <1>5, <1>6, <1>7, Zenon DEF ReadString

\* No error has the status of a value.
LEMMA ErrorsAreNotOk ==
    /\ Error("TooShort").status # "Ok" /\ Error("InvalidUtf8").status # "Ok"
    /\ Error("InvalidFormat").status # "Ok" /\ Error("Deleted").status # "Ok"
    /\ \A q, v : Ok(q, v).status = "Ok" /\ Ok(q, v).pos = q /\ Ok(q, v).value = v
  BY DEF Error, Ok

\* A string that is read fits its length, and the bytes it was read from are its
\* encoding.
ReadIsString(data, p, rest, res) ==
    /\ IsString(res.value) /\ res.value \in Seq(Byte)
    /\ res.pos = p + Len(res.value) + 2 /\ res.pos + rest <= Len(data)
    /\ HoldsAt(data, p, PutString(res.value))
    /\ res = Ok(res.pos, res.value)

LEMMA StringIsRead ==
    ASSUME NEW data \in Seq(Byte), NEW p \in Nat, NEW rest \in Nat,
           ReadString(data, p, rest).status = "Ok"
    PROVE  ReadIsString(data, p, rest, ReadString(data, p, rest))
  <1> DEFINE len == U16At(data, p)
             end == p + 2 + len
             s == BytesAt(data, p + 2, len)
             res == ReadString(data, p, rest)
  <1>1. ~ (p + 2 > Len(data)) /\ ~ (end + rest > Len(data)) /\ IsUtf8(s) /\ res = Ok(end, s)
    BY ErrorsAreNotOk, Zenon DEF ReadString
  <1>2. len \in 0 .. U16Limit - 1 /\ HoldsAt(data, p, PutU16(len)) /\ len \in Nat
    BY <1>1, U16Canonical, LimitsAreNat
  <1>3. Len(data) \in Nat /\ p + 2 \in Nat /\ p + 2 + len <= Len(data)
    BY <1>1, <1>2
  <1>4. s \in Seq(Byte) /\ Len(s) = len /\ HoldsAt(data, p + 2, s)
    BY <1>2, <1>3, CutOutIsHeld
  <1>5. res.value = s /\ res.pos = end
    BY <1>1, ErrorsAreNotOk
  <1> HIDE DEF s, len, res
  <1>6. PutU16(len) \in Seq(Byte) /\ Len(PutU16(len)) = 2 /\ PutString(s) = PutU16(len) \o s
    BY <1>2, <1>4, PutU16Type DEF PutString
  <1>7. HoldsAt(data, p, PutString(s))
    BY <1>2, <1>3, <1>4, <1>6, HoldsJoined
  <1>8. IsString(s)
    BY <1>1, <1>2, <1>4, LimitsAreNat DEF IsString, Text, s
  <1>9. end = p + Len(s) + 2 /\ end + rest <= Len(data)
    BY <1>1, <1>2, <1>3, <1>4
  <1> QED
    BY <1>1, <1>4, <1>5, <1>7, <1>8, <1>9 DEF ReadIsString, res, s

-----------------------------------------------------------------------------
(* The elements of lists: locations, path entries and edges.               *)

Kinds == {"location", "entry", "edge"}

Element(t) ==
    CASE t = "location" -> EntityLocation
      [] t = "entry"    -> PathEntry
      [] t = "edge"     -> Edge

\* Those that fit their lengths.
Fitting(t) ==
    {v \in Element(t) :
        CASE t = "location" -> IsString(v.file_key)
          [] t = "entry"    -> IsString(v.entity_id)
          [] t = "edge"     -> IsString(v.entity_id) /\ IsString(v.rel_kind.name)}

PutElement(t, v) ==
    CASE t = "location" -> PutLocation(v)
      [] t = "entry"    -> PutPathEntry(v)
      [] t = "edge"     -> PutEdge(v)

ReadElement(t, data, p) ==
    CASE t = "location" -> ReadLocation(data, p)
      [] t = "entry"    -> ReadPathEntry(data, p)
      [] t = "edge"     -> ReadEdge(data, p)

LEMMA KindCases ==
    /\ Element("location") = EntityLocation /\ Element("entry") = PathEntry
    /\ Element("edge") = Edge
    /\ \A v : /\ PutElement("location", v) = PutLocation(v)
              /\ PutElement("entry", v) = PutPathEntry(v)
              /\ PutElement("edge", v) = PutEdge(v)
    /\ \A data, p : /\ ReadElement("location", data, p) = ReadLocation(data, p)
                    /\ ReadElement("entry", data, p) = ReadPathEntry(data, p)
                    /\ ReadElement("edge", data, p) = ReadEdge(data, p)
    /\ \A v : /\ v \in Fitting("location") <=> v \in EntityLocation /\ IsString(v.file_key)
              /\ v \in Fitting("entry") <=> v \in PathEntry /\ IsString(v.entity_id)
              /\ v \in Fitting("edge") <=> /\ v \in Edge /\ IsString(v.entity_id)
                                           /\ IsString(v.rel_kind.name)
  BY DEF Element, Fitting, PutElement, ReadElement
\* What a reader returns for an element: it fits, and the bytes it was read from
\* are its encoding, as far as kinds of path entries are known.
ReadIsElement(t, data, p, res) ==
    /\ res.value \in Fitting(t)
    /\ res.pos = p + Len(PutElement(t, res.value)) /\ res.pos <= Len(data)
    /\ t # "entry" => HoldsAt(data, p, PutElement(t, res.value))
    /\ res = Ok(res.pos, res.value)

\* A location is encoded in ten bytes and those of its path.
LEMMA PutLocationType ==
    ASSUME NEW loc \in EntityLocation
    PROVE  /\ PutString(loc.file_key) \o PutU32(loc.row_group) \in Seq(Byte)
           /\ PutLocation(loc) \in Seq(Byte)
           /\ Len(PutLocation(loc)) = Len(loc.file_key) + 10
           /\ Len(PutString(loc.file_key) \o PutU32(loc.row_group)) = Len(loc.file_key) + 6
  <1> DEFINE a == PutString(loc.file_key)
             b == PutU32(loc.row_group)
             c == PutU32(loc.row_offset)
  <1>1. loc.row_group \in Nat /\ loc.row_offset \in Nat /\ loc.file_key \in Seq(Byte)
    BY LimitsAreNat DEF EntityLocation, Text, U32
  <1>2. a \in Seq(Byte) /\ Len(a) = Len(loc.file_key) + 2 /\ Len(loc.file_key) \in Nat
    BY <1>1, PutStringType
  <1>3. b \in Seq(Byte) /\ Len(b) = 4 /\ c \in Seq(Byte) /\ Len(c) = 4
    BY <1>1, PutU32Type
  <1>4. PutLocation(loc) = (a \o b) \o c
    BY DEF PutLocation
  <1> HIDE DEF a, b, c
  <1>5. a \o b \in Seq(Byte) /\ Len(a \o b) = Len(a) + Len(b)
    BY <1>2, <1>3, ConcatProperties
  <1>6. (a \o b) \o c \in Seq(Byte) /\ Len((a \o b) \o c) = Len(a \o b) + Len(c)
    BY <1>3, <1>5, ConcatProperties
  <1> QED
    BY <1>2, <1>3, <1>4, <1>5, <1>6 DEF a, b

\* A location is read back.
LEMMA LocationRoundTrip ==
    ASSUME NEW data \in Seq(Byte), NEW p, NEW loc \in Fitting("location"),
           HoldsAt(data, p, PutLocation(loc))
    PROVE  ReadLocation(data, p) = Ok(p + Len(PutLocation(loc)), loc)
  <1> DEFINE s == loc.file_key
             a == PutString(s)
             b == PutU32(loc.row_group)
             c == PutU32(loc.row_offset)
             e == p + Len(s) + 2
  <1>1. /\ s \in Seq(Byte) /\ IsString(s) /\ Len(s) \in Nat /\ Len(data) \in Nat
        /\ loc.row_group \in 0 .. U32Limit - 1 /\ loc.row_offset \in 0 .. U32Limit - 1
        /\ loc = [file_key |-> s, row_group |-> loc.row_group, row_offset |-> loc.row_offset]
        /\ loc \in EntityLocation
    BY KindCases DEF EntityLocation, U32, Text
  <1>2. /\ a \o b \in Seq(Byte) /\ Len(a \o b) = Len(s) + 6
        /\ Len(PutLocation(loc)) = Len(s) + 10
    BY <1>1, PutLocationType
  <1>3. a \in Seq(Byte) /\ Len(a) = Len(s) + 2
    BY <1>1, PutStringType
  <1>4. b \in Seq(Byte) /\ c \in Seq(Byte) /\ Len(b) = 4 /\ Len(c) = 4
    BY <1>1, LimitsAreNat, PutU32Type
  <1>5. HoldsAt(data, p, a \o b) /\ HoldsAt(data, p + Len(a \o b), c)
    BY <1>1, <1>2, <1>4, HoldsParts DEF PutLocation
  <1>6. HoldsAt(data, p, a) /\ HoldsAt(data, p + Len(a), b)
    BY <1>1, <1>3, <1>4, <1>5, HoldsParts
  <1>7. p \in Nat /\ p + Len(PutLocation(loc)) <= Len(data)
    BY DEF HoldsAt
  <1> HIDE DEF s, a, b, c
  <1>8. /\ p + Len(s) + 2 + 8 <= Len(data)
         /\ p + Len(a) = e /\ p + Len(a \o b) = e + 4 /\ p + Len(PutLocation(loc)) = e + 8
    <2> DEFINE l == Len(s)
               put == Len(PutLocation(loc))
    <2>1. l \in Nat /\ Len(data) \in Nat /\ put = l + 10
      BY <1>1, <1>2
    <2>2. Len(a) = l + 2 /\ Len(a \o b) = l + 6
      BY <1>2, <1>3
    <2> HIDE DEF l, put
    <2>3. p \in Nat /\ p + put <= Len(data)
      BY <1>7 DEF put
    <2>4. p + l + 2 + 8 <= Len(data) /\ p + put = p + l + 2 + 8
      BY <2>1, <2>3
    <2>5. p + Len(a) = p + l + 2 /\ p + Len(a \o b) = p + l + 2 + 4
      BY <2>1, <2>2, <2>3
    <2> QED
      BY <2>4, <2>5 DEF l, put
  <1>9. ReadString(data, p, 8) = Ok(e, s)
    BY <1>1, <1>6, <1>8, StringRoundTrip DEF a
  <1>10. U32At(data, e) = loc.row_group /\ U32At(data, e + 4) = loc.row_offset
    BY <1>1, <1>5, <1>6, <1>8, U32RoundTrip DEF b, c
  <1>11. ReadLocation(data, p) =
            Ok(e + 8, [file_key |-> s, row_group |-> U32At(data, e),
                       row_offset |-> U32At(data, e + 4)])
    BY <1>9 DEF ReadLocation, Follow, Ok
  <1> QED
    BY <1>1, <1>8, <1>10, <1>11

LEMMA LocationIsRead ==
    ASSUME NEW data \in Seq(Byte), NEW p \in Nat, ReadLocation(data, p).status = "Ok"
    PROVE  ReadIsElement("location", data, p, ReadLocation(data, p))
  <1> DEFINE str == ReadString(data, p, 8)
             s == str.value
             e == str.pos
             g == U32At(data, e)
             o == U32At(data, e + 4)
             loc == [file_key |-> s, row_group |-> g, row_offset |-> o]
             a == PutString(s)
             b == PutU32(g)
             c == PutU32(o)
  <1>1. str.status = "Ok" /\ ReadLocation(data, p) = Ok(e + 8, loc)
    <2>1. ReadLocation(data, p) = IF str.status = "Ok" THEN Ok(e + 8, loc) ELSE str
      BY DEF ReadLocation, Follow
    <2> HIDE DEF str
    <2> QED
      BY <2>1
  <1>2. ReadIsString(data, p, 8, str)
    BY <1>1, StringIsRead
  <1>3. /\ IsString(s) /\ s \in Seq(Byte) /\ Len(s) \in Nat /\ e = p + Len(s) + 2
        /\ e + 8 <= Len(data) /\ Len(data) \in Nat /\ HoldsAt(data, p, a)
    BY <1>2 DEF ReadIsString
  <1> HIDE DEF str, s, e
  <1>4. e \in Nat /\ e + 4 \in Nat /\ e + 4 <= Len(data) /\ (e + 4) + 4 <= Len(data)
    BY <1>3
  <1>5. g \in U32 /\ o \in U32 /\ HoldsAt(data, e, b) /\ HoldsAt(data, e + 4, c)
    BY <1>4, U32Canonical
  <1> HIDE DEF g, o
  <1>6. loc \in EntityLocation /\ loc \in Fitting("location") /\ PutElement("location", loc) = PutLocation(loc)
    <2>1. loc \in EntityLocation /\ loc.file_key = s
      BY <1>3, <1>5 DEF EntityLocation, IsString
    <2> HIDE DEF loc
    <2> QED
      BY <1>3, <2>1, KindCases
  <1>7. /\ PutString(s) \o PutU32(g) \in Seq(Byte) /\ PutLocation(loc) \in Seq(Byte)
        /\ Len(PutLocation(loc)) = Len(s) + 10 /\ Len(PutString(s) \o PutU32(g)) = Len(s) + 6
    BY <1>6, PutLocationType
  <1>8. a \in Seq(Byte) /\ Len(a) = Len(s) + 2 /\ b \in Seq(Byte) /\ c \in Seq(Byte)
    BY <1>3, <1>5, PutStringType, PutU32Type, LimitsAreNat DEF U32
  <1>9. PutLocation(loc) = (a \o b) \o c
    BY DEF PutLocation
  <1> HIDE DEF a, b, c
  <1>10. p + Len(a) = e /\ p + Len(a \o b) = e + 4
    BY <1>3, <1>7, <1>8 DEF a, b
  <1>11. HoldsAt(data, p, a \o b)
    BY <1>3, <1>5, <1>8, <1>10, HoldsJoined DEF a
  <1>12. HoldsAt(data, p, (a \o b) \o c)
    <2> DEFINE ab == a \o b
    <2>1. ab \in Seq(Byte) /\ HoldsAt(data, p, ab) /\ HoldsAt(data, p + Len(ab), c)
      BY <1>5, <1>7, <1>10, <1>11 DEF a, b
    <2> HIDE DEF ab
    <2>2. HoldsAt(data, p, ab \o c)
      BY <1>3, <1>8, <2>1, HoldsJoined
    <2> QED
      BY <2>2 DEF ab
  <1> HIDE DEF loc
  <1>13. e + 8 = p + Len(PutLocation(loc)) /\ e + 8 <= Len(data)
    BY <1>3, <1>7
  <1> DEFINE res == ReadLocation(data, p)
  <1>14. res = Ok(e + 8, loc) /\ res.pos = e + 8 /\ res.value = loc
    <2>1. res = Ok(e + 8, loc)
      BY <1>1
    <2> HIDE DEF res
    <2> QED
      BY <2>1 DEF Ok
  <1> HIDE DEF res
  <1>15. HoldsAt(data, p, PutElement("location", loc))
    BY <1>6, <1>9, <1>12
  <1> QED
    BY <1>6, <1>13, <1>14, <1>15 DEF ReadIsElement, res
\* A byte behind a string.
LEMMA HoldsByte ==
    ASSUME NEW data \in Seq(Byte), NEW p \in Nat, p + 1 <= Len(data)
    PROVE  data[p + 1] \in Byte /\ HoldsAt(data, p, <<data[p + 1]>>)
  <1>1. Len(data) \in Nat /\ p + 1 \in 1 .. Len(data)
    OBVIOUS
  <1>2. data[p + 1] \in Byte
    BY <1>1
  <1>3. \A m \in 1 .. 1 : data[p + m] = <<data[p + 1]>>[m]
    OBVIOUS
  <1> QED
    BY <1>2, <1>3 DEF HoldsAt

LEMMA HeldByte ==
    ASSUME NEW data, NEW p, NEW b, HoldsAt(data, p, <<b>>)
    PROVE  p \in Nat /\ p + 1 <= Len(data) /\ data[p + 1] = b
  <1>1. 1 \in 1 .. Len(<<b>>) /\ Len(<<b>>) = 1 /\ <<b>>[1] = b
    OBVIOUS
  <1> QED
    BY <1>1 DEF HoldsAt

LEMMA KindsAreBytes ==
    /\ \A k \in 0 .. MaxKind \cup {Other} : k \in Byte /\ KindOf(k) = k
    /\ \A b \in Byte : KindOf(b) \in 0 .. MaxKind \cup {Other}
  BY ByteAssumption DEF KindOf, Other, Byte

\* A string and a byte behind it.
LEMMA PutStringByteType ==
    ASSUME NEW s \in Seq(Byte), NEW b \in Byte
    PROVE  PutString(s) \o <<b>> \in Seq(Byte) /\ Len(PutString(s) \o <<b>>) = Len(s) + 3
  <1> DEFINE a == PutString(s)
  <1>1. a \in Seq(Byte) /\ Len(a) = Len(s) + 2 /\ Len(s) \in Nat
    BY PutStringType
  <1> HIDE DEF a
  <1>2. <<b>> \in Seq(Byte) /\ Len(<<b>>) = 1
    OBVIOUS
  <1>3. a \o <<b>> \in Seq(Byte) /\ Len(a \o <<b>>) = Len(a) + Len(<<b>>)
    BY <1>1, <1>2, ConcatProperties
  <1> QED
    BY <1>1, <1>2, <1>3 DEF a

LEMMA PutPathEntryType ==
    ASSUME NEW e \in PathEntry
    PROVE  PutPathEntry(e) \in Seq(Byte) /\ Len(PutPathEntry(e)) = Len(e.entity_id) + 3
  <1>1. e.entity_id \in Seq(Byte) /\ e.kind \in Byte
    BY KindsAreBytes DEF PathEntry, Text
  <1> QED
    BY <1>1, PutStringByteType DEF PutPathEntry

\* An entry is read from its string and any byte, whose kind it is.
LEMMA EntryFromBytes ==
    ASSUME NEW data \in Seq(Byte), NEW p, NEW s, IsString(s), NEW b \in Byte,
           HoldsAt(data, p, PutString(s) \o <<b>>)
    PROVE  ReadPathEntry(data, p) = Ok(p + Len(s) + 3, [entity_id |-> s, kind |-> KindOf(b)])
  <1> DEFINE a == PutString(s)
             end == p + Len(s) + 2
  <1>1. s \in Seq(Byte) /\ Len(s) \in Nat /\ Len(data) \in Nat
    BY DEF IsString, Text
  <1>2. a \in Seq(Byte) /\ Len(a) = Len(s) + 2 /\ <<b>> \in Seq(Byte)
    BY <1>1, PutStringType
  <1>3. HoldsAt(data, p, a) /\ HoldsAt(data, p + Len(a), <<b>>)
    BY <1>1, <1>2, HoldsParts
  <1>4. p \in Nat /\ p + Len(a) + 1 <= Len(data) /\ data[p + Len(a) + 1] = b
    <2>1. p \in Nat
      BY <1>3 DEF HoldsAt
    <2> QED
      BY <1>2, <1>3, <2>1, HeldByte
  <1> HIDE DEF a
  <1>5. p + Len(a) = end /\ p + Len(s) + 2 + 1 <= Len(data) /\ end + 1 = p + Len(s) + 3
    BY <1>1, <1>2, <1>4
  <1>6. ReadString(data, p, 1) = Ok(end, s)
    BY <1>3, <1>5, StringRoundTrip DEF a
  <1> HIDE DEF end
  <1>7. ReadPathEntry(data, p) = Ok(end + 1, [entity_id |-> s, kind |-> KindOf(data[end + 1])])
    BY <1>6 DEF ReadPathEntry, Follow, Ok
  <1>8. data[end + 1] = b
    BY <1>4, <1>5
  <1> QED
    BY <1>5, <1>7, <1>8

LEMMA PathEntryRoundTrip ==
    ASSUME NEW data \in Seq(Byte), NEW p, NEW e \in Fitting("entry"),
           HoldsAt(data, p, PutPathEntry(e))
    PROVE  ReadPathEntry(data, p) = Ok(p + Len(PutPathEntry(e)), e)
  <1>1. /\ e \in PathEntry /\ IsString(e.entity_id) /\ e.kind \in Byte /\ KindOf(e.kind) = e.kind
        /\ e = [entity_id |-> e.entity_id, kind |-> e.kind] /\ Len(e.entity_id) \in Nat
    BY KindCases, KindsAreBytes DEF PathEntry, Text
  <1>2. ReadPathEntry(data, p) = Ok(p + Len(e.entity_id) + 3, e)
    BY <1>1, EntryFromBytes DEF PutPathEntry
  <1>3. p \in Nat /\ p + Len(e.entity_id) + 3 = p + Len(PutPathEntry(e))
    <2> DEFINE n == Len(e.entity_id)
    <2>1. p \in Nat
      BY DEF HoldsAt
    <2>2. Len(PutPathEntry(e)) = n + 3 /\ n \in Nat
      BY <1>1, PutPathEntryType
    <2> HIDE DEF n
    <2>3. p + n + 3 = p + Len(PutPathEntry(e))
      BY <2>1, <2>2
    <2> QED
      BY <2>1, <2>3 DEF n
  <1> QED
    BY <1>2, <1>3

\* The bytes that a path entry was read from.
LEMMA PathEntryBytes ==
    ASSUME NEW data \in Seq(Byte), NEW p \in Nat, ReadPathEntry(data, p).status = "Ok"
    PROVE  \E s, b : /\ IsString(s) /\ b \in Byte /\ HoldsAt(data, p, PutString(s) \o <<b>>)
                     /\ ReadPathEntry(data, p) =
                            Ok(p + Len(s) + 3, [entity_id |-> s, kind |-> KindOf(b)])
  <1> DEFINE str == ReadString(data, p, 1)
             s == str.value
             a == PutString(s)
             b == data[p + Len(s) + 2 + 1]
  <1>1. str.status = "Ok"
    <2>1. ReadPathEntry(data, p) =
              IF str.status = "Ok"
              THEN Ok(str.pos + 1, [entity_id |-> s, kind |-> KindOf(data[str.pos + 1])])
              ELSE str
      BY DEF ReadPathEntry, Follow
    <2> HIDE DEF str
    <2> QED
      BY <2>1
  <1>2. ReadIsString(data, p, 1, str)
    BY <1>1, StringIsRead
  <1>3. /\ IsString(s) /\ s \in Seq(Byte) /\ Len(s) \in Nat /\ str.pos = p + Len(s) + 2
        /\ str.pos + 1 <= Len(data) /\ HoldsAt(data, p, a) /\ Len(data) \in Nat
    BY <1>2 DEF ReadIsString
  <1> HIDE DEF str, s
  <1>4. p + Len(s) + 2 \in Nat /\ p + Len(s) + 2 + 1 <= Len(data)
    BY <1>3
  <1>5. b \in Byte /\ HoldsAt(data, p + Len(s) + 2, <<b>>)
    BY <1>4, HoldsByte
  <1>6. a \in Seq(Byte) /\ Len(a) = Len(s) + 2 /\ p + Len(a) = p + Len(s) + 2
    <2>1. a \in Seq(Byte) /\ Len(a) = Len(s) + 2
      BY <1>3, PutStringType
    <2> HIDE DEF a
    <2> QED
      BY <1>3, <2>1
  <1> HIDE DEF b
  <1>7. <<b>> \in Seq(Byte)
    BY <1>5
  <1>8. HoldsAt(data, p, a \o <<b>>)
    <2>1. HoldsAt(data, p + Len(a), <<b>>)
      BY <1>5, <1>6
    <2> HIDE DEF a
    <2> QED
      BY <1>3, <1>6, <1>7, <2>1, HoldsJoined DEF a
  <1>9. ReadPathEntry(data, p) = Ok(p + Len(s) + 3, [entity_id |-> s, kind |-> KindOf(b)])
    <2>1. IsString(s) /\ b \in Byte
      BY <1>3, <1>5
    <2> HIDE DEF a
    <2> QED
      BY <1>8, <2>1, EntryFromBytes DEF a
  <1> QED
    BY <1>3, <1>5, <1>8, <1>9

LEMMA PathEntryIsRead ==
    ASSUME NEW data \in Seq(Byte), NEW p \in Nat, ReadPathEntry(data, p).status = "Ok"
    PROVE  ReadIsElement("entry", data, p, ReadPathEntry(data, p))
  <1>1. PICK s, b : /\ IsString(s) /\ b \in Byte /\ HoldsAt(data, p, PutString(s) \o <<b>>)
                    /\ ReadPathEntry(data, p) =
                           Ok(p + Len(s) + 3, [entity_id |-> s, kind |-> KindOf(b)])
    BY PathEntryBytes
  <1> DEFINE e == [entity_id |-> s, kind |-> KindOf(b)]
             res == ReadPathEntry(data, p)
  <1>2. e \in PathEntry /\ e.entity_id = s /\ s \in Seq(Byte) /\ Len(s) \in Nat
    BY <1>1, KindsAreBytes DEF PathEntry, IsString, Text
  <1>3. res = Ok(p + Len(s) + 3, e)
    BY <1>1
  <1> HIDE DEF e, res
  <1>4. res.pos = p + Len(s) + 3 /\ res.value = e
    BY <1>3 DEF Ok
  <1>5. e \in Fitting("entry") /\ PutElement("entry", e) = PutPathEntry(e)
    BY <1>1, <1>2, KindCases
  <1>6. Len(PutPathEntry(e)) = Len(s) + 3
    BY <1>2, PutPathEntryType
  <1>7. p + Len(s) + 3 <= Len(data) /\ p + Len(s) + 3 = p + (Len(s) + 3)
    <2>1. p + Len(PutString(s) \o <<b>>) <= Len(data)
      BY <1>1 DEF HoldsAt
    <2>2. Len(PutString(s) \o <<b>>) = Len(s) + 3
      BY <1>1, <1>2, PutStringByteType
    <2> QED
      BY <1>2, <2>1, <2>2
  <1> QED
    BY <1>3, <1>4, <1>5, <1>6, <1>7 DEF ReadIsElement, res
\* The two forms of a relation.
IsKnown(rel) ==
    /\ rel.byte \in 0 .. MaxRel /\ rel.byte \in Byte /\ rel.byte # Custom /\ rel.name = <<>>
    /\ PutRel(rel) = <<rel.byte>>
IsNamed(rel) ==
    /\ rel.byte = Custom /\ rel.name \in Text /\ rel.name \in Seq(Byte)
    /\ PutRel(rel) = <<Custom>> \o PutString(rel.name)

LEMMA CustomIsByte == Custom \in Byte /\ \A b \in 0 .. MaxRel : b \in Byte /\ b # Custom
  BY ByteAssumption DEF Custom, Byte

LEMMA RelForms ==
    ASSUME NEW rel \in RelKind
    PROVE  rel = [byte |-> rel.byte, name |-> rel.name] /\ (IsKnown(rel) \/ IsNamed(rel))
  <1>1. CASE rel \in [byte : 0 .. MaxRel, name : {<<>>}]
    <2>1. /\ rel = [byte |-> rel.byte, name |-> rel.name] /\ rel.byte \in 0 .. MaxRel
          /\ rel.name = <<>>
      BY <1>1
    <2>2. rel.byte \in Byte /\ rel.byte # Custom
      BY <2>1, CustomIsByte
    <2>3. <<rel.byte>> \o <<>> = <<rel.byte>>
      BY <2>2
    <2>4. PutRel(rel) = <<rel.byte>>
      BY <2>2, <2>3 DEF PutRel
    <2> QED
      BY <2>1, <2>2, <2>4 DEF IsKnown
  <1>2. CASE rel \in [byte : {Custom}, name : Text]
    <2>1. /\ rel = [byte |-> rel.byte, name |-> rel.name] /\ rel.byte = Custom
          /\ rel.name \in Text
      BY <1>2
    <2> QED
      BY <2>1 DEF IsNamed, PutRel, Text
  <1> QED
    BY <1>1, <1>2 DEF RelKind

LEMMA PutRelType ==
    ASSUME NEW rel \in RelKind
    PROVE  PutRel(rel) \in Seq(Byte) /\ Len(PutRel(rel)) >= 1 /\ Len(PutRel(rel)) \in Nat
  <1>1. CASE IsKnown(rel)
    <2>1. PutRel(rel) = <<rel.byte>> /\ rel.byte \in Byte
      BY <1>1 DEF IsKnown
    <2> QED
      BY <2>1
  <1>2. CASE IsNamed(rel)
    <2> DEFINE a == <<Custom>>
               b == PutString(rel.name)
    <2>1. a \in Seq(Byte) /\ Len(a) = 1
      BY CustomIsByte
    <2>2. b \in Seq(Byte) /\ Len(b) \in Nat
      BY <1>2, PutStringType DEF IsNamed
    <2>3. PutRel(rel) = a \o b
      BY <1>2 DEF IsNamed
    <2> HIDE DEF a, b
    <2>4. a \o b \in Seq(Byte) /\ Len(a \o b) = Len(a) + Len(b)
      BY <2>1, <2>2, ConcatProperties
    <2> QED
      BY <2>1, <2>2, <2>3, <2>4
  <1> QED
    BY <1>1, <1>2, RelForms

\* A relation is read back.
LEMMA RelRoundTrip ==
    ASSUME NEW data \in Seq(Byte), NEW p, NEW rel \in RelKind, IsString(rel.name),
           HoldsAt(data, p, PutRel(rel))
    PROVE  ReadRel(data, p) = Ok(p + Len(PutRel(rel)), rel)
  <1>1. rel = [byte |-> rel.byte, name |-> rel.name]
    BY RelForms
  <1>2. CASE IsKnown(rel)
    <2>1. /\ PutRel(rel) = <<rel.byte>> /\ rel.byte \in 0 .. MaxRel /\ MaxRel \in Int
          /\ rel.name = <<>>
      BY <1>2, ByteAssumption DEF IsKnown
    <2>2. data[p + 1] = rel.byte
      BY <2>1, HeldByte
    <2>3. ReadRel(data, p) = Ok(p + 1, [byte |-> rel.byte, name |-> <<>>])
      BY <2>1, <2>2 DEF ReadRel
    <2>4. Len(PutRel(rel)) = 1
      BY <2>1
    <2> QED
      BY <1>1, <2>1, <2>3, <2>4
  <1>3. CASE IsNamed(rel)
    <2> DEFINE s == rel.name
               a == <<Custom>>
               b == PutString(s)
    <2>1. /\ PutRel(rel) = a \o b /\ rel.byte = Custom /\ s \in Seq(Byte) /\ Len(s) \in Nat
      BY <1>3 DEF IsNamed
    <2>2. a \in Seq(Byte) /\ Len(a) = 1 /\ b \in Seq(Byte) /\ Len(b) = Len(s) + 2
      <3>1. b \in Seq(Byte) /\ Len(b) = Len(s) + 2
        BY <2>1, PutStringType
      <3>2. a \in Seq(Byte) /\ Len(a) = 1
        BY <2>1, CustomIsByte
      <3> QED
        BY <3>1, <3>2
    <2>3. Len(a \o b) = Len(s) + 3
      <3> HIDE DEF a, b, s
      <3>1. Len(a \o b) = Len(a) + Len(b)
        BY <2>2, ConcatProperties
      <3> QED
        BY <2>1, <2>2, <3>1
    <2>4. Len(data) \in Nat
      OBVIOUS
    <2>5. HoldsAt(data, p, a) /\ HoldsAt(data, p + Len(a), b)
      <3>1. HoldsAt(data, p, a \o b)
        BY <2>1
      <3> HIDE DEF a, b
      <3> QED
        BY <2>2, <2>4, <3>1, HoldsParts
    <2>6. data[p + 1] = Custom /\ p \in Nat
      BY <2>5, HeldByte
    <2>7. HoldsAt(data, p + 1, b)
      BY <2>2, <2>5
    <2> HIDE DEF a, b
    <2>8. p + 1 + Len(s) + 2 + 0 <= Len(data) /\ p + 1 + Len(s) + 2 = p + (Len(s) + 3)
      <3>1. p + 1 + Len(b) <= Len(data)
        BY <2>7 DEF HoldsAt
      <3> HIDE DEF s
      <3> QED
        BY <2>1, <2>2, <2>4, <2>6, <3>1
    <2>9. ReadString(data, p + 1, 0) = Ok(p + 1 + Len(s) + 2, s)
      <3>1. p + 1 + Len(s) + 2 + 0 <= Len(data) /\ 0 \in Nat
        BY <2>8
      <3> QED
        BY <2>6, <2>7, <3>1, StringRoundTrip DEF b
    <2>10. ~ (Custom <= MaxRel)
      BY ByteAssumption DEF Custom
    <2> DEFINE e == p + 1 + Len(s) + 2
    <2> HIDE DEF s, e
    <2>11. ReadRel(data, p) = Ok(e, [byte |-> Custom, name |-> s])
      <3> DEFINE str == ReadString(data, p + 1, 0)
      <3>1. ReadRel(data, p) =
                IF str.status = "Ok"
                THEN Ok(str.pos, [byte |-> Custom, name |-> str.value]) ELSE str
        BY <2>6, <2>10 DEF ReadRel, Follow
      <3>2. str = Ok(e, s)
        BY <2>9 DEF e
      <3> HIDE DEF str
      <3> QED
        BY <3>1, <3>2, ErrorsAreNotOk
    <2>12. [byte |-> Custom, name |-> s] = rel
      BY <1>1, <2>1 DEF s
    <2>13. e = p + Len(PutRel(rel))
      BY <2>1, <2>3, <2>8 DEF e
    <2> QED
      BY <2>11, <2>12, <2>13
  <1> QED
    BY <1>2, <1>3, RelForms

\* The bytes that a relation was read from.
ReadIsRel(data, p, res) ==
    /\ res.value \in RelKind /\ IsString(res.value.name)
    /\ res.pos = p + Len(PutRel(res.value)) /\ res.pos <= Len(data)
    /\ HoldsAt(data, p, PutRel(res.value))
    /\ res = Ok(res.pos, res.value)

LEMMA EmptyIsString == IsString(<<>>) /\ <<>> \in Text
  <1>1. <<>> \in Seq(Byte) /\ Len(<<>>) = 0 /\ DOMAIN <<>> = {}
    OBVIOUS
  <1>2. <<>> \in Text
    BY <1>1 DEF Text, IsUtf8
  <1> QED
    BY <1>1, <1>2, LimitsAreNat DEF IsString
LEMMA RelIsRead ==
    ASSUME NEW data \in Seq(Byte), NEW p \in Nat, p + 1 <= Len(data),
           ReadRel(data, p).status = "Ok"
    PROVE  ReadIsRel(data, p, ReadRel(data, p))
  <1> DEFINE b == data[p + 1]
             str == ReadString(data, p + 1, 0)
             res == ReadRel(data, p)
  <1>1. b \in Byte /\ HoldsAt(data, p, <<b>>) /\ Len(data) \in Nat
    BY HoldsByte
  <1>2. res = IF b <= MaxRel THEN Ok(p + 1, [byte |-> b, name |-> <<>>])
              ELSE IF b # Custom THEN Error("InvalidFormat")
              ELSE IF str.status = "Ok" THEN Ok(str.pos, [byte |-> Custom, name |-> str.value])
              ELSE str
    BY DEF ReadRel, Follow
  <1> HIDE DEF b
  <1>3. CASE b <= MaxRel
    <2> DEFINE rel == [byte |-> b, name |-> <<>>]
    <2>1. b \in 0 .. MaxRel
      BY <1>1, <1>3, ByteAssumption DEF Byte
    <2>2. rel \in RelKind /\ rel.byte = b /\ rel.name = <<>>
      BY <2>1 DEF RelKind
    <2>3. res = Ok(p + 1, rel)
      BY <1>2, <1>3
    <2> HIDE DEF rel, res
    <2>4. res.pos = p + 1 /\ res.value = rel
      BY <2>3 DEF Ok
    <2>5. PutRel(rel) = <<b>>
      BY <2>1, <2>2, RelForms, CustomIsByte DEF IsKnown, IsNamed
    <2>6. Len(PutRel(rel)) = 1
      BY <2>5
    <2> QED
      BY <1>1, <2>2, <2>3, <2>4, <2>5, <2>6, EmptyIsString DEF ReadIsRel, res
  <1>4. CASE ~ (b <= MaxRel)
    <2> DEFINE s == str.value
               rel == [byte |-> Custom, name |-> s]
    <2>1. b = Custom /\ str.status = "Ok" /\ res = Ok(str.pos, rel)
      <3> HIDE DEF str
      <3>1. res.status = "Ok"
        OBVIOUS
      <3> HIDE DEF res
      <3> QED
        BY <1>2, <1>4, <3>1, ErrorsAreNotOk
    <2>2. ReadIsString(data, p + 1, 0, str)
      <3>1. p + 1 \in Nat /\ 0 \in Nat
        OBVIOUS
      <3>2. ReadString(data, p + 1, 0).status = "Ok"
        BY <2>1
      <3> DEFINE q == p + 1
      <3> HIDE DEF q
      <3>3. ReadIsString(data, q, 0, ReadString(data, q, 0))
        BY <3>1, <3>2, StringIsRead DEF q
      <3> QED
        BY <3>3 DEF q
    <2> HIDE DEF str
    <2>3. /\ IsString(s) /\ s \in Seq(Byte) /\ Len(s) \in Nat /\ str.pos = p + 1 + Len(s) + 2
          /\ str.pos \in Nat /\ str.pos <= Len(data) /\ HoldsAt(data, p + 1, PutString(s))
      <3>1. /\ IsString(s) /\ s \in Seq(Byte) /\ str.pos = p + 1 + Len(s) + 2
            /\ str.pos + 0 <= Len(data) /\ HoldsAt(data, p + 1, PutString(s))
        BY <2>2 DEF ReadIsString
      <3>2. Len(s) \in Nat
        BY <3>1
      <3> HIDE DEF s
      <3> QED
        BY <1>1, <3>1, <3>2
    <2> HIDE DEF s, res
    <2>4. rel \in RelKind /\ rel.byte = Custom /\ rel.name = s
      BY <2>3 DEF RelKind, IsString
    <2> HIDE DEF rel
    <2>5. PutRel(rel) = <<Custom>> \o PutString(s)
      BY <2>4 DEF PutRel
    <2> DEFINE a == <<Custom>>
               c == PutString(s)
    <2>6. a \in Seq(Byte) /\ Len(a) = 1 /\ c \in Seq(Byte) /\ Len(c) = Len(s) + 2
          /\ HoldsAt(data, p, a) /\ HoldsAt(data, p + Len(a), c)
      BY <1>1, <2>1, <2>3, CustomIsByte, PutStringType
    <2> HIDE DEF a, c
    <2>7. HoldsAt(data, p, a \o c) /\ Len(a \o c) = Len(s) + 3
      <3>1. Len(a \o c) = Len(a) + Len(c)
        BY <2>6, ConcatProperties
      <3>2. Len(a) + Len(c) = Len(s) + 3
        BY <2>3, <2>6
      <3>3. HoldsAt(data, p, a \o c)
        BY <1>1, <2>6, HoldsJoined
      <3> QED
        BY <3>1, <3>2, <3>3
    <2>8. PutRel(rel) = a \o c
      BY <2>5 DEF a, c
    <2>9. res.pos = str.pos /\ res.value = rel
      BY <2>1 DEF Ok
    <2>10. str.pos = p + Len(PutRel(rel)) /\ str.pos <= Len(data)
      <3>1. Len(PutRel(rel)) = Len(s) + 3
        BY <2>7, <2>8
      <3> QED
        BY <2>3, <3>1
    <2> QED
      BY <2>1, <2>3, <2>4, <2>7, <2>8, <2>9, <2>10 DEF ReadIsRel, res
  <1> QED
    BY <1>3, <1>4

\* An edge is a string and a relation.
LEMMA PutEdgeType ==
    ASSUME NEW edge \in Edge
    PROVE  /\ PutEdge(edge) \in Seq(Byte)
           /\ Len(PutEdge(edge)) = Len(edge.entity_id) + 2 + Len(PutRel(edge.rel_kind))
           /\ Len(PutEdge(edge)) >= 1
  <1> DEFINE a == PutString(edge.entity_id)
             b == PutRel(edge.rel_kind)
  <1>1. edge.entity_id \in Seq(Byte) /\ edge.rel_kind \in RelKind
    BY DEF Edge, Text
  <1>2. a \in Seq(Byte) /\ Len(a) = Len(edge.entity_id) + 2 /\ Len(edge.entity_id) \in Nat
    BY <1>1, PutStringType
  <1>3. b \in Seq(Byte) /\ Len(b) \in Nat
    BY <1>1, PutRelType
  <1>4. PutEdge(edge) = a \o b
    BY DEF PutEdge
  <1> DEFINE n == Len(edge.entity_id)
  <1> HIDE DEF a, b, n
  <1>5. a \o b \in Seq(Byte) /\ Len(a \o b) = Len(a) + Len(b)
    BY <1>2, <1>3, ConcatProperties
  <1>6. Len(a) = n + 2 /\ n \in Nat
    BY <1>2 DEF n
  <1>7. Len(a \o b) = n + 2 + Len(b) /\ Len(a \o b) >= 1
    BY <1>3, <1>5, <1>6
  <1> QED
    BY <1>4, <1>5, <1>7 DEF b, n

LEMMA EdgeRoundTrip ==
    ASSUME NEW data \in Seq(Byte), NEW p, NEW edge \in Fitting("edge"),
           HoldsAt(data, p, PutEdge(edge))
    PROVE  ReadEdge(data, p) = Ok(p + Len(PutEdge(edge)), edge)
  <1> DEFINE s == edge.entity_id
             rel == edge.rel_kind
             a == PutString(s)
             b == PutRel(rel)
             e == p + Len(s) + 2
  <1>1. /\ edge \in Edge /\ IsString(s) /\ s \in Seq(Byte) /\ rel \in RelKind
        /\ IsString(rel.name) /\ edge = [entity_id |-> s, rel_kind |-> rel]
        /\ Len(s) \in Nat /\ Len(data) \in Nat
    BY KindCases DEF Edge, Text
  <1>2. /\ a \in Seq(Byte) /\ Len(a) = Len(s) + 2
        /\ b \in Seq(Byte) /\ Len(b) >= 1 /\ Len(b) \in Nat
    BY <1>1, PutStringType, PutRelType
  <1>3. HoldsAt(data, p, a) /\ HoldsAt(data, p + Len(a), b)
    <2>1. HoldsAt(data, p, a \o b)
      BY DEF PutEdge
    <2> HIDE DEF a, b
    <2> QED
      BY <1>1, <1>2, <2>1, HoldsParts
  <1>4. Len(PutEdge(edge)) = Len(s) + 2 + Len(b)
    BY <1>1, PutEdgeType
  <1>5. p \in Nat /\ p + Len(PutEdge(edge)) <= Len(data)
    BY DEF HoldsAt
  <1> HIDE DEF s, rel, a, b
  <1>6. p + Len(s) + 2 + 1 <= Len(data) /\ p + Len(a) = e /\ p + Len(PutEdge(edge)) = e + Len(b)
    <2> DEFINE n == Len(s)
               m == Len(b)
               all == Len(PutEdge(edge))
    <2>1. /\ n \in Nat /\ m \in Nat /\ m >= 1 /\ all = n + 2 + m /\ p \in Nat
          /\ p + all <= Len(data) /\ Len(data) \in Nat /\ Len(a) = n + 2
      BY <1>1, <1>2, <1>4, <1>5
    <2> HIDE DEF n, m, all
    <2>2. p + n + 2 + 1 <= Len(data) /\ p + Len(a) = p + n + 2 /\ p + all = p + n + 2 + m
      BY <2>1
    <2> QED
      BY <2>2 DEF n, m, all
  <1>7. ReadString(data, p, 1) = Ok(e, s)
    BY <1>1, <1>3, <1>6, StringRoundTrip DEF a
  <1>8. ReadRel(data, e) = Ok(e + Len(b), rel)
    BY <1>1, <1>3, <1>6, RelRoundTrip DEF b
  <1> HIDE DEF e
  <1>9. ReadEdge(data, p) = Ok(e + Len(b), [entity_id |-> s, rel_kind |-> rel])
    <2> DEFINE str == ReadString(data, p, 1)
               r == ReadRel(data, str.pos)
    <2>1. ReadEdge(data, p) =
              IF str.status = "Ok"
              THEN IF r.status = "Ok" THEN Ok(r.pos, [entity_id |-> str.value, rel_kind |-> r.value])
                   ELSE r
              ELSE str
      BY DEF ReadEdge, Follow
    <2>2. str.status = "Ok" /\ str.value = s /\ str.pos = e
      BY <1>7, ErrorsAreNotOk
    <2> HIDE DEF str
    <2>3. r.status = "Ok" /\ r.pos = e + Len(b) /\ r.value = rel
      BY <1>8, <2>2, ErrorsAreNotOk
    <2> HIDE DEF r
    <2> QED
      BY <2>1, <2>2, <2>3
  <1> QED
    BY <1>1, <1>6, <1>9

LEMMA EdgeIsRead ==
    ASSUME NEW data \in Seq(Byte), NEW p \in Nat, ReadEdge(data, p).status = "Ok"
    PROVE  ReadIsElement("edge", data, p, ReadEdge(data, p))
  <1> DEFINE str == ReadString(data, p, 1)
             e == str.pos
             s == str.value
             r == ReadRel(data, e)
             rel == r.value
             edge == [entity_id |-> s, rel_kind |-> rel]
             a == PutString(s)
             b == PutRel(rel)
             res == ReadEdge(data, p)
  <1>1. str.status = "Ok" /\ r.status = "Ok" /\ res = Ok(r.pos, edge)
    <2>1. res = IF str.status = "Ok"
                THEN IF r.status = "Ok" THEN Ok(r.pos, edge) ELSE r
                ELSE str
      BY DEF ReadEdge, Follow
    <2>2. res.status = "Ok"
      OBVIOUS
    <2> HIDE DEF res, r, str, e, edge
    <2> QED
      BY <2>1, <2>2
  <1>2. ReadIsString(data, p, 1, str)
    BY <1>1, StringIsRead
  <1>3. /\ IsString(s) /\ s \in Seq(Byte) /\ Len(s) \in Nat /\ e = p + Len(s) + 2
        /\ e + 1 <= Len(data) /\ HoldsAt(data, p, a) /\ Len(data) \in Nat
    BY <1>2 DEF ReadIsString
  <1> HIDE DEF str, s, e
  <1>4. e \in Nat
    BY <1>3
  <1>5. ReadIsRel(data, e, r)
    BY <1>1, <1>3, <1>4, RelIsRead
  <1>6. /\ rel \in RelKind /\ IsString(rel.name) /\ r.pos = e + Len(b) /\ r.pos <= Len(data)
        /\ HoldsAt(data, e, b)
    BY <1>5 DEF ReadIsRel
  <1> HIDE DEF r, rel, res
  <1>7. edge \in Edge /\ edge.entity_id = s /\ edge.rel_kind = rel
    BY <1>3, <1>6 DEF Edge, IsString
  <1> HIDE DEF edge
  <1>8. edge \in Fitting("edge") /\ PutElement("edge", edge) = PutEdge(edge)
    BY <1>3, <1>6, <1>7, KindCases
  <1>9. a \in Seq(Byte) /\ Len(a) = Len(s) + 2 /\ b \in Seq(Byte) /\ Len(b) \in Nat
    BY <1>3, <1>6, PutStringType, PutRelType
  <1>10. PutEdge(edge) = a \o b
    BY <1>7 DEF PutEdge
  <1>11. Len(PutEdge(edge)) = Len(s) + 2 + Len(b)
    BY <1>7, PutEdgeType
  <1> HIDE DEF a, b
  <1>12. p + Len(a) = e /\ p + Len(PutEdge(edge)) = e + Len(b)
    BY <1>3, <1>9, <1>11
  <1>13. HoldsAt(data, p, a \o b)
    BY <1>3, <1>6, <1>9, <1>12, HoldsJoined
  <1>14. res.pos = r.pos /\ res.value = edge
    BY <1>1 DEF Ok
  <1> QED
    BY <1>1, <1>6, <1>8, <1>10, <1>12, <1>13, <1>14 DEF ReadIsElement, res

-----------------------------------------------------------------------------
(* All elements.                                                           *)

LEMMA FittingIsElement ==
    ASSUME NEW t, NEW v \in Fitting(t)
    PROVE  v \in Element(t)
  BY DEF Fitting

LEMMA PutElementType ==
    ASSUME NEW t \in Kinds, NEW v \in Element(t)
    PROVE  PutElement(t, v) \in Seq(Byte)
  BY PutLocationType, PutPathEntryType, PutEdgeType, KindCases DEF Kinds

LEMMA ElementRoundTrip ==
    ASSUME NEW t \in Kinds, NEW data \in Seq(Byte), NEW p, NEW v \in Fitting(t),
           HoldsAt(data, p, PutElement(t, v))
    PROVE  ReadElement(t, data, p) = Ok(p + Len(PutElement(t, v)), v)
  BY LocationRoundTrip, PathEntryRoundTrip, EdgeRoundTrip, KindCases DEF Kinds

LEMMA ElementIsRead ==
    ASSUME NEW t \in Kinds, NEW data \in Seq(Byte), NEW p \in Nat,
           ReadElement(t, data, p).status = "Ok"
    PROVE  ReadIsElement(t, data, p, ReadElement(t, data, p))
  BY LocationIsRead, PathEntryIsRead, EdgeIsRead, KindCases DEF Kinds

LEMMA ElementIsReadWithin ==
    ASSUME NEW t \in Kinds, NEW data \in Seq(Byte), NEW p \in Nat,
           ReadElement(t, data, p).status = "Ok"
    PROVE  ReadElement(t, data, p).pos \in 0 .. Len(data)
  <1> DEFINE res == ReadElement(t, data, p)
             w == PutElement(t, res.value)
  <1>1. ReadIsElement(t, data, p, res)
    BY ElementIsRead
  <1> HIDE DEF res
  <1>2. res.value \in Fitting(t) /\ res.pos = p + Len(w) /\ res.pos <= Len(data)
    BY <1>1 DEF ReadIsElement
  <1>3. w \in Seq(Byte) /\ Len(data) \in Nat /\ Len(w) \in Nat
    <2>1. res.value \in Element(t)
      BY <1>2, FittingIsElement
    <2>2. w \in Seq(Byte)
      BY <2>1, PutElementType
    <2> HIDE DEF w
    <2> QED
      BY <2>2
  <1> HIDE DEF w
  <1>4. res.pos \in 0 .. Len(data)
    BY <1>2, <1>3
  <1> QED
    BY <1>4 DEF res

\* What is read of data is read of longer data.
LEMMA ElementIsReadLonger ==
    ASSUME NEW t \in Kinds, NEW data \in Seq(Byte), NEW whole \in Seq(Byte),
           IsPrefixOf(data, whole), NEW p \in Nat, ReadElement(t, data, p).status = "Ok"
    PROVE  ReadElement(t, whole, p) = ReadElement(t, data, p)
  <1> DEFINE res == ReadElement(t, data, p)
  <1>1. Len(data) \in Nat /\ Len(whole) \in Nat
    OBVIOUS
  <1>2. CASE t # "entry"
    <2>1. ReadIsElement(t, data, p, res)
      BY ElementIsRead
    <2>2. /\ res.value \in Fitting(t) /\ HoldsAt(data, p, PutElement(t, res.value))
          /\ res = Ok(p + Len(PutElement(t, res.value)), res.value)
      BY <1>2, <2>1 DEF ReadIsElement
    <2> HIDE DEF res
    <2>3. PutElement(t, res.value) \in Seq(Byte)
      BY <2>2, PutElementType DEF Fitting
    <2>4. HoldsAt(whole, p, PutElement(t, res.value))
      BY <1>1, <2>2, <2>3, PrefixHolds
    <2> QED
      BY <2>2, <2>4, ElementRoundTrip DEF res
  <1>3. CASE t = "entry"
    <2>1. res = ReadPathEntry(data, p) /\ ReadElement(t, whole, p) = ReadPathEntry(whole, p)
      BY <1>3, KindCases
    <2>2. PICK s, b : /\ IsString(s) /\ b \in Byte /\ HoldsAt(data, p, PutString(s) \o <<b>>)
                      /\ ReadPathEntry(data, p) =
                             Ok(p + Len(s) + 3, [entity_id |-> s, kind |-> KindOf(b)])
      BY <2>1, PathEntryBytes
    <2>3. PutString(s) \o <<b>> \in Seq(Byte)
      BY <2>2, PutStringByteType DEF IsString, Text
    <2>4. HoldsAt(whole, p, PutString(s) \o <<b>>)
      BY <1>1, <2>2, <2>3, PrefixHolds
    <2>5. ReadPathEntry(whole, p) = ReadPathEntry(data, p)
      BY <2>2, <2>4, EntryFromBytes
    <2> QED
      BY <2>1, <2>5
  <1> QED
    BY <1>2, <1>3
-----------------------------------------------------------------------------
(* Lists of elements.                                                      *)

\* Induction up to n.
LEMMA UpTo ==
    ASSUME NEW n \in Nat, NEW S, 0 \in S, \A m \in 0 .. n - 1 : m \in S => m + 1 \in S
    PROVE  \A m \in 0 .. n : m \in S
  <1> DEFINE Wrong == {m \in 0 .. n : m \notin S}
  <1>1. ASSUME Wrong # {} PROVE FALSE
    <2>1. Wrong \in SUBSET Nat
      OBVIOUS
    <2>2. PICK w \in Wrong : \A m \in Wrong : ~ (<<m, w>> \in OpToRel(<, Nat))
      BY <1>1, <2>1, NatLessThanWellFounded, WFMin
    <2>3. \A m \in Wrong : ~ (m < w)
      BY <2>1, <2>2 DEF OpToRel
    <2>4. w \in 0 .. n /\ w \notin S /\ w # 0
      OBVIOUS
    <2>5. w - 1 \in 0 .. n - 1 /\ w - 1 < w /\ w - 1 \in 0 .. n
      BY <2>4
    <2>6. w - 1 \in S
      <3>1. w - 1 \notin Wrong
        BY <2>3, <2>5
      <3> QED
        BY <2>5, <3>1
    <2>7. w - 1 + 1 \in S
      BY <2>5, <2>6
    <2> QED
      BY <2>4, <2>7
  <1> QED
    BY <1>1

\* join[i] is the encodings of the first i elements, up to the n-th.
Joins(t, vs, n, join) ==
    /\ join \in [0 .. n -> Seq(Byte)] /\ join[0] = <<>>
    /\ \A i \in 1 .. n : join[i] = join[i - 1] \o PutElement(t, vs[i])

LEMMA JoinExists ==
    ASSUME NEW t \in Kinds, NEW vs, NEW n \in Nat, \A i \in 1 .. n : vs[i] \in Element(t)
    PROVE  \E join : Joins(t, vs, n, join)
  <1> DEFINE S == {m \in 0 .. n : \E join : Joins(t, vs, m, join)}
  <1>1. 0 \in S
    <2> DEFINE join == [i \in 0 .. 0 |-> <<>>]
    <2>1. join \in [0 .. 0 -> Seq(Byte)] /\ join[0] = <<>>
      OBVIOUS
    <2> HIDE DEF join
    <2>2. Joins(t, vs, 0, join)
      BY <2>1 DEF Joins
    <2> QED
      BY <2>2
  <1>2. ASSUME NEW m \in 0 .. n - 1, m \in S PROVE m + 1 \in S
    <2>1. PICK join : Joins(t, vs, m, join)
      BY <1>2
    <2> DEFINE last == join[m] \o PutElement(t, vs[m + 1])
               more == [i \in 0 .. m + 1 |-> IF i = m + 1 THEN last ELSE join[i]]
    <2>2. /\ join \in [0 .. m -> Seq(Byte)] /\ join[0] = <<>>
          /\ \A i \in 1 .. m : join[i] = join[i - 1] \o PutElement(t, vs[i])
      BY <2>1 DEF Joins
    <2>3. last \in Seq(Byte)
      <3>1. m \in 0 .. m /\ m + 1 \in 1 .. n
        OBVIOUS
      <3>2. join[m] \in Seq(Byte) /\ PutElement(t, vs[m + 1]) \in Seq(Byte)
        BY <2>2, <3>1, PutElementType
      <3> QED
        BY <3>2, ConcatProperties
    <2> HIDE DEF last
    <2>4. /\ more \in [0 .. m + 1 -> Seq(Byte)] /\ more[0] = <<>> /\ more[m + 1] = last
          /\ \A i \in 0 .. m : more[i] = join[i]
      BY <2>2, <2>3
    <2> HIDE DEF more
    <2>5. ASSUME NEW i \in 1 .. m + 1 PROVE more[i] = more[i - 1] \o PutElement(t, vs[i])
      <3>1. CASE i = m + 1
        <4>1. i - 1 = m /\ m \in 0 .. m
          BY <3>1
        <4>2. more[i - 1] = join[m]
          BY <2>4, <4>1
        <4> QED
          BY <2>4, <3>1, <4>2 DEF last
      <3>2. CASE i \in 1 .. m
        <4>1. i \in 0 .. m /\ i - 1 \in 0 .. m
          BY <3>2
        <4> QED
          BY <2>2, <2>4, <3>2, <4>1
      <3>3. i = m + 1 \/ i \in 1 .. m
        OBVIOUS
      <3> QED
        BY <3>1, <3>2, <3>3, Zenon
    <2>6. Joins(t, vs, m + 1, more)
      BY <2>4, <2>5 DEF Joins
    <2> QED
      BY <2>6
  <1> HIDE DEF S
  <1>3. n \in S
    BY <1>1, <1>2, UpTo
  <1> QED
    BY <1>3 DEF S

\* The encodings in a row, which are the last join.
PutList(t, vs) == FlattenSeq([i \in DOMAIN vs |-> PutElement(t, vs[i])])

LEMMA PutListIs ==
    ASSUME NEW t \in Kinds, NEW vs, Len(vs) \in Nat, DOMAIN vs = 1 .. Len(vs),
           \A i \in 1 .. Len(vs) : vs[i] \in Element(t),
           NEW join, Joins(t, vs, Len(vs), join)
    PROVE  PutList(t, vs) = join[Len(vs)]
  <1> DEFINE n == Len(vs)
             seqs == [i \in 1 .. n |-> PutElement(t, vs[i])]
             D == 1 .. n
             Is(f) == f = [i \in D |-> IF i = 1 THEN seqs[i] ELSE f[i - 1] \o seqs[i]]
             d == CHOOSE f : Is(f)
             w == [i \in D |-> join[i]]
  <1>1. /\ join \in [0 .. n -> Seq(Byte)] /\ join[0] = <<>> /\ n \in Nat
        /\ \A i \in 1 .. n : join[i] = join[i - 1] \o PutElement(t, vs[i])
    BY DEF Joins
  <1>2. /\ seqs \in Seq(Seq(Byte)) /\ Len(seqs) = n
        /\ \A i \in 1 .. n : seqs[i] = PutElement(t, vs[i])
    <2>1. \A i \in 1 .. n : PutElement(t, vs[i]) \in Seq(Byte)
      BY PutElementType
    <2> QED
      BY <2>1
  <1>3. PutList(t, vs) = FlattenSeq(seqs)
    BY DEF PutList
  <1> HIDE DEF n, seqs
  <1>4. CASE n = 0
    <2>1. FlattenSeq(seqs) = seqs
      BY <1>2, <1>4 DEF FlattenSeq
    <2>2. seqs = <<>>
      BY <1>2, <1>4
    <2> QED
      BY <1>1, <1>3, <1>4, <2>1, <2>2 DEF n
  <1>5. CASE n # 0
    <2>1. join[1] = seqs[1]
      <3>1. 1 \in 1 .. n /\ 1 - 1 = 0
        BY <1>1, <1>5
      <3>2. join[1] = <<>> \o PutElement(t, vs[1])
        BY <1>1, <3>1
      <3>3. PutElement(t, vs[1]) \in Seq(Byte)
        BY <3>1, PutElementType DEF n
      <3> QED
        BY <1>2, <3>1, <3>2, <3>3
    <2>2. ASSUME NEW i \in D PROVE w[i] = IF i = 1 THEN seqs[i] ELSE w[i - 1] \o seqs[i]
      <3>1. CASE i = 1
        BY <2>1, <3>1
      <3>2. CASE i # 1
        <4>1. i - 1 \in D
          BY <1>1, <3>2
        <4> QED
          BY <1>1, <1>2, <3>2, <4>1
      <3> QED
        BY <3>1, <3>2
    <2>3. Is(w)
      <3> DEFINE g == [i \in D |-> IF i = 1 THEN seqs[i] ELSE w[i - 1] \o seqs[i]]
      <3>1. \A i \in D : w[i] = g[i]
        BY <2>2
      <3>2. w = [i \in D |-> w[i]] /\ g = [i \in D |-> g[i]]
        OBVIOUS
      <3>3. w = g
        <4> HIDE DEF w, g
        <4> QED
          BY <3>1, <3>2
      <3> HIDE DEF w
      <3> QED
        BY <3>3
    <2> HIDE DEF w
    <2>4. Is(d)
      BY <2>3, Zenon
    <2>5. FlattenSeq(seqs) = d[n]
      BY <1>2, <1>5 DEF FlattenSeq
    <2>6. \A i \in D : d[i] = IF i = 1 THEN seqs[i] ELSE d[i - 1] \o seqs[i]
      <3> HIDE DEF d
      <3> QED
        BY <2>4
    <2> HIDE DEF d, Is
    <2> DEFINE S == {0} \cup {i \in D : d[i] = join[i]}
    <2>7. ASSUME NEW m \in 0 .. n - 1, m \in S PROVE m + 1 \in S
      <3> DEFINE k == m + 1
      <3>1. k \in D /\ k - 1 = m /\ (k = 1 \/ (k # 1 /\ m \in D))
        BY <1>1
      <3> HIDE DEF k
      <3>2. CASE k = 1
        <4>1. d[k] = join[k]
          BY <2>1, <2>6, <3>1, <3>2, Zenon
        <4> QED
          BY <3>1, <4>1 DEF k
      <3>3. CASE k # 1
        <4>1. m \in D /\ m # 0
          BY <3>1, <3>3
        <4>2. d[m] = join[m]
          BY <2>7, <4>1, Zenon
        <4>3. d[k] = d[k - 1] \o seqs[k]
          BY <2>6, <3>1, <3>3, Zenon
        <4>4. join[k] = join[k - 1] \o seqs[k]
          BY <1>1, <1>2, <3>1, Zenon
        <4>5. d[k] = join[k]
          BY <3>1, <4>2, <4>3, <4>4, Zenon
        <4> QED
          BY <3>1, <4>5, Zenon DEF k
      <3> QED
        BY <3>2, <3>3
    <2>8. 0 \in S
      OBVIOUS
    <2> HIDE DEF S
    <2>9. n \in S
      <3>1. n \in Nat /\ n \in 0 .. n
        BY <1>1
      <3> QED
        BY <2>7, <2>8, <3>1, UpTo
    <2>10. d[n] = join[n]
      BY <1>5, <2>9 DEF S
    <2> QED
      BY <1>3, <2>5, <2>10 DEF n
  <1> QED
    BY <1>4, <1>5

\* The first n of a list are elements.
AreElements(t, vs, n) == \A i \in 1 .. n : vs[i] \in Element(t)

\* Each element is held behind those before it.
HeldInTurn(t, data, p, vs, n, join) ==
    \A i \in 1 .. n :
        /\ HoldsAt(data, p, join[i - 1])
        /\ HoldsAt(data, p + Len(join[i - 1]), PutElement(t, vs[i]))
        /\ Len(join[i]) = Len(join[i - 1]) + Len(PutElement(t, vs[i]))

\* Where the joins are held, each element is held behind those before it.
LEMMA JoinsAreHeldInTurn ==
    ASSUME NEW t \in Kinds, NEW data \in Seq(Byte), NEW p, NEW vs, NEW n \in Nat,
           AreElements(t, vs, n),
           NEW join, Joins(t, vs, n, join), HoldsAt(data, p, join[n])
    PROVE  HeldInTurn(t, data, p, vs, n, join)
  <1> DEFINE S == {m \in 0 .. n : HoldsAt(data, p, join[n - m])}
  <1>1. /\ join \in [0 .. n -> Seq(Byte)]
        /\ \A i \in 1 .. n : join[i] = join[i - 1] \o PutElement(t, vs[i])
    BY DEF Joins
  <1>2. \A i \in 1 .. n : PutElement(t, vs[i]) \in Seq(Byte)
    BY PutElementType DEF AreElements
  <1>3. 0 \in S
    BY HoldsAt(data, p, join[n])
  <1>4. ASSUME NEW i \in 1 .. n, HoldsAt(data, p, join[i])
        PROVE  /\ HoldsAt(data, p, join[i - 1])
               /\ HoldsAt(data, p + Len(join[i - 1]), PutElement(t, vs[i]))
    <2>1. join[i - 1] \in Seq(Byte)
      BY <1>1
    <2>2. HoldsAt(data, p, join[i - 1] \o PutElement(t, vs[i]))
      BY <1>1, <1>4
    <2>3. PutElement(t, vs[i]) \in Seq(Byte)
      BY <1>2
    <2> QED
      BY <2>1, <2>2, <2>3, HoldsParts
  <1>5. ASSUME NEW m \in 0 .. n - 1, m \in S PROVE m + 1 \in S
    <2>1. n - m \in 1 .. n /\ n - m - 1 = n - (m + 1) /\ m + 1 \in 0 .. n
      OBVIOUS
    <2>2. HoldsAt(data, p, join[n - m])
      BY <1>5
    <2>3. HoldsAt(data, p, join[n - m - 1])
      BY <1>4, <2>1, <2>2
    <2> QED
      BY <2>1, <2>3
  <1> HIDE DEF S
  <1>6. \A m \in 0 .. n : m \in S
    BY <1>3, <1>5, UpTo
  <1> SUFFICES ASSUME NEW i \in 1 .. n
               PROVE  /\ HoldsAt(data, p, join[i - 1])
                      /\ HoldsAt(data, p + Len(join[i - 1]), PutElement(t, vs[i]))
                      /\ Len(join[i]) = Len(join[i - 1]) + Len(PutElement(t, vs[i]))
    BY DEF HeldInTurn
  <1>7. HoldsAt(data, p, join[i])
    <2>1. n - i \in 0 .. n /\ n - (n - i) = i
      OBVIOUS
    <2> QED
      BY <1>6, <2>1 DEF S
  <1>8. Len(join[i]) = Len(join[i - 1]) + Len(PutElement(t, vs[i]))
    <2>1. join[i - 1] \in Seq(Byte)
      BY <1>1
    <2> QED
      BY <1>1, <1>2, <2>1, ConcatProperties
  <1> QED
    BY <1>4, <1>7, <1>8

\* One round of the decode loop at a position with some elements left, whose
\* later rounds are from.
Round(t, data, from, at) ==
    IF at[2] = 0 THEN Ok(at[1], <<>>)
    ELSE Follow(ReadElement(t, data, at[1]), LAMBDA next :
           Follow(from[<<next.pos, at[2] - 1>>], LAMBDA more :
             Ok(more.pos, <<next.value>> \o more.value)))

Ats(data, count) == (0 .. Len(data)) \X (0 .. count)
Rounds(t, data, count, from) == from = [at \in Ats(data, count) |-> Round(t, data, from, at)]

LEMMA RoundsAre ==
    ASSUME NEW t, NEW data, NEW count, NEW from, Rounds(t, data, count, from),
           NEW at \in Ats(data, count)
    PROVE  from[at] = Round(t, data, from, at)
  BY DEF Rounds

LEMMA RoundsFrom ==
    ASSUME NEW t, NEW data, NEW count, NEW from, DOMAIN from = Ats(data, count),
           from = [at \in DOMAIN from |-> from[at]],
           \A at \in Ats(data, count) : from[at] = Round(t, data, from, at)
    PROVE  Rounds(t, data, count, from)
  <1> DEFINE g == [at \in Ats(data, count) |-> Round(t, data, from, at)]
  <1>1. \A at \in Ats(data, count) : from[at] = g[at]
    OBVIOUS
  <1>2. g = [at \in Ats(data, count) |-> g[at]]
    OBVIOUS
  <1> HIDE DEF g
  <1>3. from = g
    BY <1>1, <1>2
  <1> QED
    BY <1>3 DEF Rounds, g

\* A round that reads a element puts it ahead of what the later rounds read.
LEMMA RoundReads ==
    ASSUME NEW t, NEW data, NEW f, NEW p, NEW c, NEW next, NEW v, NEW stop, NEW more, c # 0,
           ReadElement(t, data, p) = Ok(next, v), f[<<next, c - 1>>] = Ok(stop, more)
    PROVE  Round(t, data, f, <<p, c>>) = Ok(stop, <<v>> \o more)
  <1> DEFINE res == ReadElement(t, data, p)
             rest == f[<<res.pos, c - 1>>]
  <1>1. Round(t, data, f, <<p, c>>) =
            IF res.status = "Ok"
            THEN IF rest.status = "Ok" THEN Ok(rest.pos, <<res.value>> \o rest.value) ELSE rest
            ELSE res
    BY DEF Round, Follow
  <1>2. res.status = "Ok" /\ res.pos = next /\ res.value = v
    BY DEF Ok
  <1>3. rest.status = "Ok" /\ rest.pos = stop /\ rest.value = more
    BY <1>2 DEF Ok
  <1> HIDE DEF res, rest
  <1> QED
    BY <1>1, <1>2, <1>3

\* A round that has some elements left only asks for fewer.
AgreeBelow(data, c, f, g) ==
    c # 0 => \A q \in 0 .. Len(data) : f[<<q, c - 1>>] = g[<<q, c - 1>>]

LEMMA RoundAsksLess ==
    ASSUME NEW t \in Kinds, NEW data \in Seq(Byte), NEW p \in 0 .. Len(data), NEW c \in Nat,
           NEW f, NEW g, AgreeBelow(data, c, f, g)
    PROVE  Round(t, data, f, <<p, c>>) = Round(t, data, g, <<p, c>>)
  <1> DEFINE next == ReadElement(t, data, p)
  <1>1. \A h : Round(t, data, h, <<p, c>>) =
            IF c = 0 THEN Ok(p, <<>>)
            ELSE IF next.status = "Ok"
            THEN IF h[<<next.pos, c - 1>>].status = "Ok"
                 THEN Ok(h[<<next.pos, c - 1>>].pos,
                         <<next.value>> \o h[<<next.pos, c - 1>>].value)
                 ELSE h[<<next.pos, c - 1>>]
            ELSE next
    BY DEF Round, Follow
  <1>2. next.status = "Ok" => next.pos \in 0 .. Len(data)
    BY ElementIsReadWithin
  <1> HIDE DEF next
  <1>3. CASE c # 0 /\ next.status = "Ok"
    <2>1. f[<<next.pos, c - 1>>] = g[<<next.pos, c - 1>>]
      BY <1>2, <1>3 DEF AgreeBelow
    <2> QED
      BY <1>1, <2>1, Zenon
  <1> QED
    BY <1>1, <1>3, Zenon

LEMMA RoundsExist ==
    ASSUME NEW t \in Kinds, NEW data \in Seq(Byte), NEW count \in Nat
    PROVE  \E from : Rounds(t, data, count, from)
  <1> DEFINE L == 0 .. Len(data)
             S == {m \in 0 .. count : \E from : Rounds(t, data, m, from)}
  <1>1. 0 \in S
    <2> DEFINE from == [at \in Ats(data, 0) |-> Ok(at[1], <<>>)]
    <2>1. \A at \in Ats(data, 0) : from[at] = Round(t, data, from, at)
      BY DEF Round, Ats
    <2>2. DOMAIN from = Ats(data, 0) /\ from = [at \in DOMAIN from |-> from[at]]
      OBVIOUS
    <2> HIDE DEF from
    <2>3. Rounds(t, data, 0, from)
      BY <2>1, <2>2, RoundsFrom
    <2> QED
      BY <2>3
  <1>2. ASSUME NEW m \in 0 .. count - 1, m \in S PROVE m + 1 \in S
    <2>1. PICK from : Rounds(t, data, m, from)
      BY <1>2
    <2> DEFINE longer == [at \in Ats(data, m + 1) |->
                            IF at[2] = m + 1 THEN Round(t, data, from, at) ELSE from[at]]
    <2>2. DOMAIN longer = Ats(data, m + 1) /\ longer = [at \in DOMAIN longer |-> longer[at]]
      OBVIOUS
    <2>3. ASSUME NEW q \in L, NEW c \in 0 .. m PROVE longer[<<q, c>>] = from[<<q, c>>]
      <3>1. <<q, c>> \in Ats(data, m + 1) /\ c # m + 1
        BY DEF Ats
      <3> QED
        BY <3>1
    <2>4. \A q \in L : longer[<<q, m + 1>>] = Round(t, data, from, <<q, m + 1>>)
      BY DEF Ats
    <2> HIDE DEF longer
    <2>5. ASSUME NEW q \in L, NEW c \in 0 .. m + 1
          PROVE  longer[<<q, c>>] = Round(t, data, longer, <<q, c>>)
      <3>1. c # 0 => \A r \in L : longer[<<r, c - 1>>] = from[<<r, c - 1>>]
        BY <2>3
      <3>2. c \in Nat
        OBVIOUS
      <3>3. Round(t, data, longer, <<q, c>>) = Round(t, data, from, <<q, c>>)
        <4>1. AgreeBelow(data, c, longer, from)
          BY <3>1 DEF AgreeBelow
        <4>2. q \in 0 .. Len(data)
          OBVIOUS
        <4> HIDE DEF L, S
        <4> QED
          BY <3>2, <4>1, <4>2, RoundAsksLess
      <3>4. CASE c = m + 1
        BY <2>4, <3>3, <3>4, Zenon
      <3>5. CASE c \in 0 .. m
        <4>1. <<q, c>> \in Ats(data, m)
          BY <3>5 DEF Ats
        <4>2. from[<<q, c>>] = Round(t, data, from, <<q, c>>)
          BY <2>1, <4>1, RoundsAre
        <4> QED
          BY <2>3, <3>3, <3>5, <4>2, Zenon
      <3>6. c = m + 1 \/ c \in 0 .. m
        OBVIOUS
      <3> QED
        BY <3>4, <3>5, <3>6, Zenon
    <2>6. \A at \in Ats(data, m + 1) : longer[at] = Round(t, data, longer, at)
      BY <2>5 DEF Ats
    <2>7. Rounds(t, data, m + 1, longer)
      BY <2>2, <2>6, RoundsFrom
    <2> QED
      BY <2>7
  <1> HIDE DEF S
  <1>3. count \in S
    <2>1. count \in 0 .. count
      OBVIOUS
    <2>2. \A m \in 0 .. count : m \in S
      BY <1>1, <1>2, UpTo
    <2> QED
      BY <2>1, <2>2
  <1> QED
    BY <1>3 DEF S

\* The elements of vs from i on.
Behind(vs, i) == [m \in 1 .. Len(vs) + 1 - i |-> vs[i + m - 1]]

LEMMA BehindFirst ==
    ASSUME NEW vs, Len(vs) \in Nat, NEW i \in 1 .. Len(vs)
    PROVE  <<vs[i]>> \o Behind(vs, i + 1) = Behind(vs, i)
  <1> DEFINE n == Len(vs) - i
             S == {vs[m] : m \in 1 .. Len(vs)}
             later == Behind(vs, i + 1)
             u == Behind(vs, i)
  <1>1. n \in Nat /\ vs[i] \in S
    OBVIOUS
  <1>2. later = [m \in 1 .. n |-> vs[i + m]]
    <2>1. Len(vs) + 1 - (i + 1) = n /\ \A m \in 1 .. n : i + 1 + m - 1 = i + m
      OBVIOUS
    <2> QED
      BY <2>1 DEF Behind
  <1>3. u = [m \in 1 .. n + 1 |-> vs[i + m - 1]]
    <2>1. Len(vs) + 1 - i = n + 1
      OBVIOUS
    <2> QED
      BY <2>1 DEF Behind
  <1>4. /\ \A m \in 1 .. n : i + m \in 1 .. Len(vs)
        /\ \A m \in 1 .. n + 1 : i + m - 1 \in 1 .. Len(vs)
    OBVIOUS
  <1>5. later \in Seq(S) /\ Len(later) = n
    <2>1. \A m \in 1 .. n : vs[i + m] \in S
      BY <1>4
    <2> HIDE DEF S, n, later
    <2> QED
      BY <1>1, <1>2, <2>1
  <1>6. u \in Seq(S) /\ Len(u) = n + 1
    <2>1. \A m \in 1 .. n + 1 : vs[i + m - 1] \in S
      BY <1>4
    <2> HIDE DEF S, n
    <2> QED
      BY <1>1, <1>3, <2>1
  <1> DEFINE v == <<vs[i]>> \o later
  <1>7. /\ v \in Seq(S) /\ Len(v) = n + 1
        /\ \A m \in 1 .. n + 1 : v[m] = IF m = 1 THEN vs[i] ELSE later[m - 1]
    <2> DEFINE w == <<vs[i]>>
    <2>1. w \in Seq(S) /\ Len(w) = 1 /\ w[1] = vs[i]
      BY <1>1
    <2> HIDE DEF S, n, later, w
    <2>2. /\ w \o later \in Seq(S) /\ Len(w \o later) = Len(w) + Len(later)
          /\ \A m \in 1 .. Len(w) + Len(later) : (w \o later)[m] =
                 IF m <= Len(w) THEN w[m] ELSE later[m - Len(w)]
      BY <1>5, <2>1, ConcatProperties
    <2>3. 1 + n = n + 1
      BY <1>1
    <2>4. /\ w \o later \in Seq(S) /\ Len(w \o later) = n + 1
          /\ \A m \in 1 .. n + 1 : (w \o later)[m] = IF m <= 1 THEN w[m] ELSE later[m - 1]
      BY <1>5, <2>1, <2>2, <2>3
    <2>5. \A m \in 1 .. n + 1 : m <= 1 <=> m = 1
      BY <1>1
    <2> QED
      BY <2>1, <2>4, <2>5 DEF w
  <1>8. ASSUME NEW m \in 1 .. n + 1 PROVE v[m] = u[m]
    <2>1. CASE m = 1
      BY <1>3, <1>7, <2>1
    <2>2. CASE m # 1
      <3>1. m - 1 \in 1 .. n /\ i + (m - 1) = i + m - 1
        BY <2>2
      <3>2. later[m - 1] = vs[i + m - 1]
        <4> HIDE DEF later, n
        <4> QED
          BY <1>2, <3>1
      <3> HIDE DEF later, u, v
      <3> QED
        BY <1>3, <1>7, <2>2, <3>2
    <2> QED
      BY <2>1, <2>2
  <1> HIDE DEF v, u, n, S
  <1>9. v = u
    BY <1>6, <1>7, <1>8, SeqEqual
  <1> QED
    BY <1>9 DEF u, v
\* The places at which n elements were read one behind the other, and what.
Chain(t, data, n, at, vs) ==
    /\ at \in [0 .. n -> 0 .. Len(data)] /\ vs \in [1 .. n -> Fitting(t)]
    /\ \A i \in 1 .. n : ReadElement(t, data, at[i - 1]) = Ok(at[i], vs[i])

\* The decode loop follows such a chain.
LEMMA ChainIsRead ==
    ASSUME NEW t \in Kinds, NEW data \in Seq(Byte), NEW n \in Nat, NEW at, NEW vs,
           Chain(t, data, n, at, vs), Len(vs) = n, NEW from, Rounds(t, data, n, from)
    PROVE  from[<<at[0], n>>] = Ok(at[n], vs)
  <1> DEFINE S == {m \in 0 .. n : from[<<at[n - m], m>>] = Ok(at[n], Behind(vs, n + 1 - m))}
  <1>1. /\ at \in [0 .. n -> 0 .. Len(data)] /\ vs \in [1 .. n -> Fitting(t)]
        /\ \A i \in 1 .. n : ReadElement(t, data, at[i - 1]) = Ok(at[i], vs[i])
    BY DEF Chain
  <1>2. 0 \in S
    <2>1. n \in 0 .. n /\ 0 \in 0 .. n /\ n - 0 = n
      OBVIOUS
    <2>2. <<at[n], 0>> \in Ats(data, n)
      BY <1>1, <2>1 DEF Ats
    <2>3. from[<<at[n], 0>>] = Round(t, data, from, <<at[n], 0>>)
      BY <2>2, RoundsAre
    <2>4. Round(t, data, from, <<at[n], 0>>) = Ok(at[n], <<>>)
      BY DEF Round
    <2>5. Behind(vs, n + 1 - 0) = <<>>
      <3>1. n + 1 - (n + 1 - 0) = 0
        OBVIOUS
      <3> QED
        BY <3>1 DEF Behind
    <2> QED
      BY <2>1, <2>3, <2>4, <2>5
  <1>3. ASSUME NEW m \in 0 .. n - 1, m \in S PROVE m + 1 \in S
    <2> DEFINE i == n - m
               q == at[i - 1]
               r == at[i]
    <2>1. i \in 1 .. n /\ i - 1 \in 0 .. n /\ n - (m + 1) = i - 1 /\ n + 1 - m = i + 1
          /\ n + 1 - (m + 1) = i /\ m + 1 \in 0 .. n /\ m + 1 # 0 /\ m + 1 - 1 = m
      OBVIOUS
    <2>2. from[<<r, m>>] = Ok(at[n], Behind(vs, i + 1))
      BY <1>3, <2>1
    <2> HIDE DEF i
    <2>3. ReadElement(t, data, q) = Ok(r, vs[i]) /\ q \in 0 .. Len(data)
      BY <1>1, <2>1
    <2>4. <<q, m + 1>> \in Ats(data, n)
      BY <2>1, <2>3 DEF Ats
    <2> HIDE DEF q, r
    <2>5. from[<<q, m + 1>>] = Round(t, data, from, <<q, m + 1>>)
      BY <2>4, RoundsAre
    <2>6. Round(t, data, from, <<q, m + 1>>) = Ok(at[n], <<vs[i]>> \o Behind(vs, i + 1))
      <3>1. m + 1 # 0 /\ from[<<r, m + 1 - 1>>] = Ok(at[n], Behind(vs, i + 1))
        BY <2>1, <2>2
      <3> QED
        BY <2>3, <3>1, RoundReads
    <2>7. <<vs[i]>> \o Behind(vs, i + 1) = Behind(vs, i)
      BY <2>1, BehindFirst
    <2>8. from[<<q, m + 1>>] = Ok(at[n], Behind(vs, i))
      BY <2>5, <2>6, <2>7
    <2> QED
      BY <2>1, <2>8 DEF q
  <1> HIDE DEF S
  <1>4. n \in S
    <2>1. n \in 0 .. n
      OBVIOUS
    <2>2. \A m \in 0 .. n : m \in S
      BY <1>2, <1>3, UpTo
    <2> QED
      BY <2>1, <2>2
  <1>5. from[<<at[n - n], n>>] = Ok(at[n], Behind(vs, n + 1 - n))
    BY <1>4 DEF S
  <1>6. n - n = 0 /\ Behind(vs, n + 1 - n) = vs
    <2>1. n + 1 - n = 1 /\ n + 1 - 1 = n /\ n - n = 0 /\ \A m \in 1 .. n : 1 + m - 1 = m
      OBVIOUS
    <2>2. vs = [m \in 1 .. n |-> vs[m]]
      BY <1>1
    <2> QED
      BY <2>1, <2>2 DEF Behind
  <1> QED
    BY <1>5, <1>6

\* A value in front of a chain.
Lengthened(t, data, n, at, vs, p, v) ==
    \E later, more : /\ Chain(t, data, n + 1, later, more)
                     /\ later[0] = p /\ later[n + 1] = at[n] /\ more = <<v>> \o vs
                     /\ Len(vs) = n /\ Len(more) = n + 1

LEMMA ChainLonger ==
    ASSUME NEW t, NEW data, NEW n \in Nat, NEW at, NEW vs, Chain(t, data, n, at, vs),
           NEW p \in 0 .. Len(data), NEW v \in Fitting(t),
           ReadElement(t, data, p) = Ok(at[0], v)
    PROVE  Lengthened(t, data, n, at, vs, p, v)
  <1> DEFINE later == [i \in 0 .. n + 1 |-> IF i = 0 THEN p ELSE at[i - 1]]
             more == <<v>> \o vs
             F == Fitting(t)
             L == 0 .. Len(data)
  <1>1. /\ at \in [0 .. n -> L] /\ vs \in [1 .. n -> F] /\ v \in F /\ p \in L
        /\ \A i \in 1 .. n : ReadElement(t, data, at[i - 1]) = Ok(at[i], vs[i])
    BY DEF Chain
  <1> HIDE DEF F, L
  <1>2. vs \in Seq(F) /\ Len(vs) = n /\ <<v>> \in Seq(F) /\ Len(<<v>>) = 1 /\ <<v>>[1] = v
    BY <1>1
  <1>3. /\ more \in Seq(F) /\ Len(more) = n + 1 /\ more[1] = v
        /\ \A i \in 1 .. n : more[i + 1] = vs[i]
    <2> DEFINE one == <<v>>
    <2> HIDE DEF one
    <2>1. /\ one \o vs \in Seq(F) /\ Len(one \o vs) = Len(one) + Len(vs)
          /\ \A m \in 1 .. Len(one) + Len(vs) : (one \o vs)[m] =
                 IF m <= Len(one) THEN one[m] ELSE vs[m - Len(one)]
      BY <1>2, ConcatProperties DEF one
    <2>2. one \o vs \in Seq(F) /\ Len(one \o vs) = n + 1 /\ one[1] = v
          /\ \A m \in 1 .. n + 1 : (one \o vs)[m] = IF m <= 1 THEN one[m] ELSE vs[m - 1]
      BY <1>2, <2>1 DEF one
    <2>3. \A i \in 1 .. n : i + 1 \in 1 .. n + 1 /\ ~ (i + 1 <= 1) /\ i + 1 - 1 = i
      OBVIOUS
    <2>4. 1 \in 1 .. n + 1 /\ 1 <= 1
      OBVIOUS
    <2> QED
      BY <2>2, <2>3, <2>4 DEF one
  <1> HIDE DEF more
  <1>4. more \in [1 .. n + 1 -> F]
    BY <1>3
  <1>5. /\ later \in [0 .. n + 1 -> L] /\ later[0] = p
        /\ \A i \in 0 .. n : later[i + 1] = at[i]
    <2>1. \A i \in 1 .. n + 1 : i - 1 \in 0 .. n /\ i # 0
      OBVIOUS
    <2>2. later \in [0 .. n + 1 -> L] /\ later[0] = p
      BY <1>1, <2>1
    <2>3. \A i \in 0 .. n : i + 1 \in 0 .. n + 1 /\ i + 1 # 0 /\ i + 1 - 1 = i
      OBVIOUS
    <2> QED
      BY <2>2, <2>3
  <1> HIDE DEF later
  <1>6. ASSUME NEW i \in 1 .. n + 1
        PROVE  ReadElement(t, data, later[i - 1]) = Ok(later[i], more[i])
    <2>1. CASE i = 1
      <3>1. i - 1 = 0 /\ 0 \in 0 .. n /\ 0 + 1 = i
        BY <2>1
      <3> QED
        BY <1>3, <1>5, <2>1, <3>1
    <2>2. CASE i # 1
      <3> DEFINE k == i - 1
      <3>1. k \in 1 .. n /\ k - 1 \in 0 .. n /\ k \in 0 .. n /\ k + 1 = i /\ k - 1 + 1 = k
        BY <2>2
      <3>2. later[k] = at[k - 1] /\ later[i] = at[k] /\ more[i] = vs[k]
        <4> HIDE DEF k
        <4>1. later[k - 1 + 1] = at[k - 1] /\ later[k + 1] = at[k] /\ more[k + 1] = vs[k]
          BY <1>3, <1>5, <3>1
        <4> QED
          BY <3>1, <4>1
      <3> QED
        BY <1>1, <3>1, <3>2
    <2> QED
      BY <2>1, <2>2
  <1>7. Chain(t, data, n + 1, later, more)
    BY <1>4, <1>5, <1>6 DEF Chain, F, L
  <1>8. later[n + 1] = at[n]
    BY <1>5
  <1> QED
    BY <1>2, <1>3, <1>5, <1>7, <1>8 DEF more, Lengthened

\* What from read at p, with c elements left, is a chain.
Chained(t, data, from, p, c) ==
    \E at, vs : /\ Chain(t, data, c, at, vs) /\ Len(vs) = c
                /\ at[0] = p /\ from[<<p, c>>] = Ok(at[c], vs)

\* A round that ends well has read an element, and the later rounds ended well.
HasRead(t, data, f, p, c) ==
    /\ ReadElement(t, data, p).status = "Ok"
    /\ f[<<ReadElement(t, data, p).pos, c - 1>>].status = "Ok"

LEMMA RoundHasRead ==
    ASSUME NEW t, NEW data, NEW f, NEW p, NEW c, c # 0,
           Round(t, data, f, <<p, c>>).status = "Ok"
    PROVE  HasRead(t, data, f, p, c)
  <1> DEFINE res == ReadElement(t, data, p)
             rest == f[<<res.pos, c - 1>>]
  <1>1. Round(t, data, f, <<p, c>>) =
            IF res.status = "Ok"
            THEN IF rest.status = "Ok" THEN Ok(rest.pos, <<res.value>> \o rest.value) ELSE rest
            ELSE res
    BY DEF Round, Follow
  <1> HIDE DEF res, rest
  <1>2. res.status = "Ok" /\ rest.status = "Ok"
    BY <1>1, Zenon
  <1> QED
    BY <1>2 DEF res, rest, HasRead

\* What the decode loop accepts is a chain.
LEMMA ReadIsChain ==
    ASSUME NEW t \in Kinds, NEW data \in Seq(Byte), NEW n \in Nat, NEW from,
           Rounds(t, data, n, from), NEW p \in 0 .. Len(data), from[<<p, n>>].status = "Ok"
    PROVE  Chained(t, data, from, p, n)
  <1> DEFINE L == 0 .. Len(data)
             S == {c \in 0 .. n :
                     \A q \in L : from[<<q, c>>].status = "Ok" => Chained(t, data, from, q, c)}
  <1>1. 0 \in S
    <2>1. ASSUME NEW q \in L PROVE Chained(t, data, from, q, 0)
      <3> DEFINE at == [i \in 0 .. 0 |-> q]
      <3>1. <<q, 0>> \in Ats(data, n)
        BY DEF Ats
      <3>2. from[<<q, 0>>] = Ok(q, <<>>)
        <4>1. from[<<q, 0>>] = Round(t, data, from, <<q, 0>>)
          BY <3>1, RoundsAre
        <4> QED
          BY <4>1 DEF Round
      <3>3. at \in [0 .. 0 -> L] /\ at[0] = q /\ <<>> \in [1 .. 0 -> Fitting(t)]
            /\ Len(<<>>) = 0 /\ \A i \in 1 .. 0 : FALSE
        OBVIOUS
      <3> HIDE DEF at
      <3>4. Chain(t, data, 0, at, <<>>)
        BY <3>3 DEF Chain
      <3> QED
        BY <3>2, <3>3, <3>4 DEF Chained
    <2> QED
      BY <2>1
  <1> HIDE DEF L, S
  <1>2. ASSUME NEW m \in 0 .. n - 1, m \in S PROVE m + 1 \in S
    <2>1. ASSUME NEW q \in L, from[<<q, m + 1>>].status = "Ok"
          PROVE  Chained(t, data, from, q, m + 1)
      <3> DEFINE res == ReadElement(t, data, q)
                 r == res.pos
                 v == res.value
      <3>1. <<q, m + 1>> \in Ats(data, n) /\ m + 1 # 0 /\ m + 1 - 1 = m
        BY DEF Ats, L
      <3>2. from[<<q, m + 1>>] = Round(t, data, from, <<q, m + 1>>)
        BY <3>1, RoundsAre
      <3>3. res.status = "Ok" /\ from[<<r, m>>].status = "Ok"
        <4>1. Round(t, data, from, <<q, m + 1>>).status = "Ok"
          BY <2>1, <3>2
        <4>2. HasRead(t, data, from, q, m + 1)
          BY <3>1, <4>1, RoundHasRead
        <4> QED
          BY <3>1, <4>2 DEF HasRead
      <3>4. q \in Nat
        BY DEF L
      <3>5. r \in L
        BY <3>3, <3>4, ElementIsReadWithin DEF L
      <3>6. v \in Fitting(t) /\ res = Ok(r, v)
        <4>1. ReadIsElement(t, data, q, res)
          BY <3>3, <3>4, ElementIsRead
        <4> QED
          BY <4>1 DEF ReadIsElement
      <3> HIDE DEF r, v
      <3>7. Chained(t, data, from, r, m)
        BY <1>2, <3>3, <3>5 DEF S
      <3>8. PICK at, vs : /\ Chain(t, data, m, at, vs) /\ Len(vs) = m
                          /\ at[0] = r /\ from[<<r, m>>] = Ok(at[m], vs)
        BY <3>7 DEF Chained
      <3>9. from[<<q, m + 1>>] = Ok(at[m], <<v>> \o vs)
        <4>1. ReadElement(t, data, q) = Ok(r, v)
          BY <3>6
        <4>2. from[<<r, m + 1 - 1>>] = Ok(at[m], vs)
          BY <3>1, <3>8
        <4> QED
          BY <3>1, <3>2, <4>1, <4>2, RoundReads
      <3>10. ReadElement(t, data, q) = Ok(at[0], v) /\ q \in 0 .. Len(data) /\ m \in Nat
        BY <3>6, <3>8 DEF L
      <3> HIDE DEF res
      <3>11. PICK later, more : /\ Chain(t, data, m + 1, later, more)
                                /\ later[0] = q /\ later[m + 1] = at[m] /\ more = <<v>> \o vs
                                /\ Len(vs) = m /\ Len(more) = m + 1
        <4>1. Lengthened(t, data, m, at, vs, q, v)
          BY <3>6, <3>8, <3>10, ChainLonger
        <4> QED
          BY <4>1 DEF Lengthened
      <3>12. from[<<q, m + 1>>] = Ok(later[m + 1], more)
        BY <3>9, <3>11
      <3> QED
        BY <3>11, <3>12 DEF Chained
    <2>2. m + 1 \in 0 .. n
      OBVIOUS
    <2> QED
      BY <2>1, <2>2 DEF S
  <1>3. n \in S
    <2>1. n \in 0 .. n
      OBVIOUS
    <2>2. \A m \in 0 .. n : m \in S
      BY <1>1, <1>2, UpTo
    <2> QED
      BY <2>1, <2>2
  <1> QED
    BY <1>3 DEF S, L

\* The decode loops of the three kinds of elements.
ReadList(t, data, p, n) ==
    CASE t = "location" -> ReadMany(ReadLocation, data, p, n)
      [] t = "entry"    -> ReadMany(ReadPathEntry, data, p, n)
      [] t = "edge"     -> ReadMany(ReadEdge, data, p, n)

LEMMA ListCases ==
    ASSUME NEW data, NEW p, NEW n
    PROVE  /\ ReadList("location", data, p, n) = ReadMany(ReadLocation, data, p, n)
           /\ ReadList("entry", data, p, n) = ReadMany(ReadPathEntry, data, p, n)
           /\ ReadList("edge", data, p, n) = ReadMany(ReadEdge, data, p, n)
  BY DEF ReadList

\* A round in which res is what is read.
Continue(res, from, at) ==
    IF at[2] = 0 THEN Ok(at[1], <<>>)
    ELSE Follow(res, LAMBDA next :
           Follow(from[<<next.pos, at[2] - 1>>], LAMBDA more :
             Ok(more.pos, <<next.value>> \o more.value)))

LEMMA RoundIs ==
    ASSUME NEW t, NEW data, NEW from, NEW at
    PROVE  Round(t, data, from, at) = Continue(ReadElement(t, data, at[1]), from, at)
  BY DEF Round, Continue

LoopsLocation(data, n, f) ==
    f = [at \in Ats(data, n) |-> Continue(ReadLocation(data, at[1]), f, at)]
LoopsEntry(data, n, f) ==
    f = [at \in Ats(data, n) |-> Continue(ReadPathEntry(data, at[1]), f, at)]
LoopsEdge(data, n, f) ==
    f = [at \in Ats(data, n) |-> Continue(ReadEdge(data, at[1]), f, at)]

Loops(t, data, n, f) ==
    CASE t = "location" -> LoopsLocation(data, n, f)
      [] t = "entry"    -> LoopsEntry(data, n, f)
      [] t = "edge"     -> LoopsEdge(data, n, f)

LEMMA LoopsAreRounds ==
    ASSUME NEW t \in Kinds, NEW data, NEW n, NEW f
    PROVE  Loops(t, data, n, f) <=> Rounds(t, data, n, f)
  <1>1. \A at : Round(t, data, f, at) = Continue(ReadElement(t, data, at[1]), f, at)
    BY RoundIs
  <1>2. Rounds(t, data, n, f)
        <=> f = [at \in Ats(data, n) |-> Continue(ReadElement(t, data, at[1]), f, at)]
    BY <1>1 DEF Rounds
  <1>3. CASE t = "location"
    BY <1>2, <1>3, KindCases DEF Loops, LoopsLocation
  <1>4. CASE t = "entry"
    BY <1>2, <1>4, KindCases DEF Loops, LoopsEntry
  <1>5. CASE t = "edge"
    BY <1>2, <1>5, KindCases DEF Loops, LoopsEdge
  <1> QED
    BY <1>3, <1>4, <1>5 DEF Kinds

LEMMA ReadListIsLoop ==
    ASSUME NEW t \in Kinds, NEW data, NEW p, NEW n
    PROVE  ReadList(t, data, p, n) = (CHOOSE f : Loops(t, data, n, f))[<<p, n>>]
  <1>1. CASE t = "location"
    <2>1. \A f : Loops(t, data, n, f) <=> LoopsLocation(data, n, f)
      BY <1>1 DEF Loops
    <2>2. (CHOOSE f : Loops(t, data, n, f)) = CHOOSE f : LoopsLocation(data, n, f)
      BY <2>1
    <2>3. ReadMany(ReadLocation, data, p, n) =
              (CHOOSE f : LoopsLocation(data, n, f))[<<p, n>>]
      BY DEF ReadMany, LoopsLocation, Continue, Ats
    <2> QED
      BY <1>1, <2>2, <2>3, ListCases
  <1>2. CASE t = "entry"
    <2>1. \A f : Loops(t, data, n, f) <=> LoopsEntry(data, n, f)
      BY <1>2 DEF Loops
    <2>2. (CHOOSE f : Loops(t, data, n, f)) = CHOOSE f : LoopsEntry(data, n, f)
      BY <2>1
    <2>3. ReadMany(ReadPathEntry, data, p, n) =
              (CHOOSE f : LoopsEntry(data, n, f))[<<p, n>>]
      BY DEF ReadMany, LoopsEntry, Continue, Ats
    <2> QED
      BY <1>2, <2>2, <2>3, ListCases
  <1>3. CASE t = "edge"
    <2>1. \A f : Loops(t, data, n, f) <=> LoopsEdge(data, n, f)
      BY <1>3 DEF Loops
    <2>2. (CHOOSE f : Loops(t, data, n, f)) = CHOOSE f : LoopsEdge(data, n, f)
      BY <2>1
    <2>3. ReadMany(ReadEdge, data, p, n) = (CHOOSE f : LoopsEdge(data, n, f))[<<p, n>>]
      BY DEF ReadMany, LoopsEdge, Continue, Ats
    <2> QED
      BY <1>3, <2>2, <2>3, ListCases
  <1> QED
    BY <1>1, <1>2, <1>3 DEF Kinds

LEMMA ReadListIs ==
    ASSUME NEW t \in Kinds, NEW data \in Seq(Byte), NEW p, NEW n \in Nat
    PROVE  \E from : Rounds(t, data, n, from) /\ ReadList(t, data, p, n) = from[<<p, n>>]
  <1> DEFINE from == CHOOSE f : Loops(t, data, n, f)
  <1>1. \E f : Loops(t, data, n, f)
    BY RoundsExist, LoopsAreRounds
  <1>2. Loops(t, data, n, from)
    BY <1>1
  <1>3. Rounds(t, data, n, from)
    BY <1>2, LoopsAreRounds
  <1>4. ReadList(t, data, p, n) = from[<<p, n>>]
    BY ReadListIsLoop
  <1> QED
    BY <1>3, <1>4

LEMMA PutListCases ==
    ASSUME NEW vs
    PROVE  /\ PutMany(PutLocation, vs) = PutList("location", vs)
           /\ PutMany(PutPathEntry, vs) = PutList("entry", vs)
           /\ PutMany(PutEdge, vs) = PutList("edge", vs)
  BY KindCases DEF PutMany, PutList

\* The elements of a list are joined.
LEMMA ListIsJoined ==
    ASSUME NEW t \in Kinds, NEW vs \in Seq(Element(t))
    PROVE  \E join : Joins(t, vs, Len(vs), join) /\ PutList(t, vs) = join[Len(vs)]
  <1> DEFINE n == Len(vs)
  <1>1. n \in Nat /\ DOMAIN vs = 1 .. n /\ \A i \in 1 .. n : vs[i] \in Element(t)
    OBVIOUS
  <1>2. PICK join : Joins(t, vs, n, join)
    BY <1>1, JoinExists
  <1>3. PutList(t, vs) = join[n]
    BY <1>1, <1>2, PutListIs
  <1> QED
    BY <1>2, <1>3

LEMMA PutListType ==
    ASSUME NEW t \in Kinds, NEW vs \in Seq(Element(t))
    PROVE  PutList(t, vs) \in Seq(Byte) /\ Len(PutList(t, vs)) \in Nat
  <1>1. PICK join : Joins(t, vs, Len(vs), join) /\ PutList(t, vs) = join[Len(vs)]
    BY ListIsJoined
  <1>2. Len(vs) \in 0 .. Len(vs)
    OBVIOUS
  <1>3. join[Len(vs)] \in Seq(Byte)
    BY <1>1, <1>2 DEF Joins
  <1> QED
    BY <1>1, <1>3

LEMMA FittingLists ==
    ASSUME NEW t \in Kinds, NEW vs \in Seq(Fitting(t))
    PROVE  vs \in Seq(Element(t))
  <1>1. \A i \in 1 .. Len(vs) : vs[i] \in Element(t)
    BY FittingIsElement
  <1> QED
    BY <1>1

\* A held list is decoded to itself, and the decoder ends behind it.
LEMMA ListRoundTrip ==
    ASSUME NEW t \in Kinds, NEW data \in Seq(Byte), NEW p, NEW vs \in Seq(Fitting(t)),
           HoldsAt(data, p, PutList(t, vs))
    PROVE  ReadList(t, data, p, Len(vs)) = Ok(p + Len(PutList(t, vs)), vs)
  <1> DEFINE n == Len(vs)
  <1>1. n \in Nat /\ vs \in [1 .. n -> Fitting(t)] /\ vs \in Seq(Element(t))
    BY FittingLists
  <1>2. PICK join : Joins(t, vs, n, join) /\ PutList(t, vs) = join[n]
    BY <1>1, ListIsJoined
  <1>3. /\ join \in [0 .. n -> Seq(Byte)] /\ join[0] = <<>>
        /\ \A i \in 0 .. n : join[i] \in Seq(Byte) /\ Len(join[i]) \in Nat
    <2>1. join \in [0 .. n -> Seq(Byte)] /\ join[0] = <<>>
      BY <1>2 DEF Joins
    <2> QED
      BY <2>1
  <1> HIDE DEF n
  <1>4. AreElements(t, vs, n)
    BY <1>1, FittingIsElement DEF AreElements
  <1>15. HoldsAt(data, p, join[n])
    BY <1>2
  <1>5. HeldInTurn(t, data, p, vs, n, join)
    BY <1>1, <1>2, <1>4, <1>15, JoinsAreHeldInTurn
  <1>6. ASSUME NEW i \in 0 .. n PROVE HoldsAt(data, p, join[i])
    <2>1. CASE i = n
      BY <1>15, <2>1, Zenon
    <2>2. CASE i # n
      <3> DEFINE k == i + 1
      <3>1. k \in 1 .. n /\ k - 1 = i
        BY <1>1, <2>2
      <3> HIDE DEF k
      <3>2. HoldsAt(data, p, join[k - 1])
        BY <1>5, <3>1 DEF HeldInTurn
      <3> QED
        BY <3>1, <3>2
    <2> QED
      BY <2>1, <2>2
  <1> DEFINE at == [i \in 0 .. n |-> p + Len(join[i])]
  <1>7. p \in Nat /\ \A i \in 0 .. n : p + Len(join[i]) \in 0 .. Len(data)
    <2>1. p \in Nat
      BY DEF HoldsAt
    <2>2. ASSUME NEW i \in 0 .. n PROVE p + Len(join[i]) \in 0 .. Len(data)
      <3>1. p + Len(join[i]) <= Len(data)
        BY <1>6 DEF HoldsAt
      <3>2. Len(join[i]) \in Nat /\ Len(data) \in Nat
        BY <1>3
      <3> QED
        BY <2>1, <3>1, <3>2
    <2> QED
      BY <2>1, <2>2
  <1>8. at \in [0 .. n -> 0 .. Len(data)] /\ \A i \in 0 .. n : at[i] = p + Len(join[i])
    BY <1>7
  <1> HIDE DEF at
  <1>9. ASSUME NEW i \in 1 .. n
        PROVE  ReadElement(t, data, at[i - 1]) = Ok(at[i], vs[i])
    <2>1. i - 1 \in 0 .. n /\ i \in 0 .. n /\ vs[i] \in Fitting(t)
      BY <1>1
    <2> DEFINE put == PutElement(t, vs[i])
    <2>2. HoldsAt(data, at[i - 1], put) /\ Len(join[i]) = Len(join[i - 1]) + Len(put)
      BY <1>5, <1>8, <2>1 DEF HeldInTurn
    <2>3. ReadElement(t, data, at[i - 1]) = Ok(at[i - 1] + Len(put), vs[i])
      BY <2>1, <2>2, ElementRoundTrip
    <2>4. Len(put) \in Nat
      <3>1. put \in Seq(Byte)
        BY <2>1, FittingIsElement, PutElementType
      <3> QED
        BY <3>1
    <2>5. at[i - 1] + Len(put) = at[i]
      <3> DEFINE a == Len(join[i - 1])
                 b == Len(put)
      <3>1. a \in Nat /\ p \in Nat
        BY <1>3, <1>7, <2>1
      <3>2. at[i - 1] = p + a /\ at[i] = p + Len(join[i])
        BY <1>8, <2>1
      <3>3. Len(join[i]) = a + b
        BY <2>2
      <3> HIDE DEF a, b
      <3>4. p + a + b = p + (a + b)
        BY <2>4, <3>1 DEF b
      <3> QED
        BY <3>2, <3>3, <3>4 DEF b
    <2> QED
      BY <2>3, <2>5
  <1>10. Chain(t, data, n, at, vs) /\ Len(vs) = n
    BY <1>1, <1>8, <1>9 DEF Chain, n
  <1>11. PICK from : Rounds(t, data, n, from) /\ ReadList(t, data, p, n) = from[<<p, n>>]
    BY <1>1, ReadListIs
  <1>12. from[<<at[0], n>>] = Ok(at[n], vs)
    BY <1>1, <1>10, <1>11, ChainIsRead
  <1>13. at[0] = p /\ at[n] = p + Len(join[n])
    <2>1. 0 \in 0 .. n /\ n \in 0 .. n /\ Len(<<>>) = 0 /\ p + 0 = p
      BY <1>1, <1>7
    <2>2. at[0] = p + Len(<<>>) /\ at[n] = p + Len(join[n])
      BY <1>3, <1>8, <2>1
    <2> QED
      BY <2>1, <2>2
  <1> QED
    BY <1>2, <1>11, <1>12, <1>13 DEF n

\* The places of a chain follow from what was read.
LEMMA ChainIsJoined ==
    ASSUME NEW t \in Kinds, NEW data \in Seq(Byte), NEW n \in Nat, NEW at, NEW vs,
           Chain(t, data, n, at, vs), NEW join, Joins(t, vs, n, join)
    PROVE  /\ at[n] = at[0] + Len(join[n])
           /\ t # "entry" => HoldsAt(data, at[0], join[n])
  <1> DEFINE p == at[0]
             S == {i \in 0 .. n : /\ at[i] = p + Len(join[i])
                                  /\ t # "entry" => HoldsAt(data, p, join[i])}
  <1>1. /\ at \in [0 .. n -> 0 .. Len(data)] /\ vs \in [1 .. n -> Fitting(t)]
        /\ \A i \in 1 .. n : ReadElement(t, data, at[i - 1]) = Ok(at[i], vs[i])
    BY DEF Chain
  <1>2. /\ join \in [0 .. n -> Seq(Byte)] /\ join[0] = <<>>
        /\ \A i \in 1 .. n : join[i] = join[i - 1] \o PutElement(t, vs[i])
    BY DEF Joins
  <1>7. \A i \in 0 .. n : at[i] \in Nat /\ join[i] \in Seq(Byte)
    <2>1. at \in [0 .. n -> 0 .. Len(data)] /\ join \in [0 .. n -> Seq(Byte)]
      BY <1>1, <1>2
    <2> QED
      BY <2>1
  <1>3. 0 \in 0 .. n /\ p \in Nat /\ p <= Len(data) /\ Len(data) \in Nat
    <2>1. 0 \in 0 .. n /\ Len(data) \in Nat
      OBVIOUS
    <2> QED
      BY <1>1, <2>1
  <1> HIDE DEF p, S
  <1>4. 0 \in S
    <2>1. Len(<<>>) = 0 /\ \A m \in 1 .. 0 : FALSE
      OBVIOUS
    <2>2. HoldsAt(data, p, <<>>)
      BY <1>3, <2>1 DEF HoldsAt
    <2> QED
      BY <1>2, <1>3, <2>1, <2>2 DEF p, S
  <1>5. ASSUME NEW m \in 0 .. n - 1, m \in S PROVE m + 1 \in S
    <2>1. m + 1 \in 1 .. n /\ m + 1 \in 0 .. n /\ m \in 0 .. n /\ m + 1 - 1 = m
      OBVIOUS
    <2> DEFINE v == vs[m + 1]
               q == at[m]
               r == at[m + 1]
               put == PutElement(t, v)
    <2>2. /\ ReadElement(t, data, q) = Ok(r, v) /\ q \in Nat
          /\ join[m + 1] = join[m] \o put /\ join[m] \in Seq(Byte) /\ v \in Fitting(t)
      <3> DEFINE k == m + 1
      <3>1. k \in 1 .. n /\ k - 1 = m
        BY <2>1
      <3> HIDE DEF k
      <3>2. /\ ReadElement(t, data, at[k - 1]) = Ok(at[k], vs[k]) /\ vs[k] \in Fitting(t)
            /\ join[k] = join[k - 1] \o PutElement(t, vs[k])
        BY <1>1, <1>2, <3>1
      <3>3. at[m] \in Nat /\ join[m] \in Seq(Byte)
        BY <1>7, <2>1
      <3>4. ReadElement(t, data, at[m]) = Ok(at[k], vs[k])
        BY <3>1, <3>2, Zenon
      <3>5. join[k] = join[m] \o PutElement(t, vs[k])
        BY <3>1, <3>2, Zenon
      <3> QED
        BY <3>2, <3>3, <3>4, <3>5, Zenon DEF k
    <2>3. q = p + Len(join[m]) /\ (t # "entry" => HoldsAt(data, p, join[m]))
      BY <1>5 DEF S
    <2> HIDE DEF q, r, v
    <2>4. ReadIsElement(t, data, q, Ok(r, v))
      <3>1. ReadElement(t, data, q).status = "Ok"
        BY <2>2, ErrorsAreNotOk
      <3> QED
        BY <2>2, <3>1, ElementIsRead
    <2>5. r = q + Len(put) /\ (t # "entry" => HoldsAt(data, q, put))
      BY <2>4, ErrorsAreNotOk DEF ReadIsElement
    <2>6. put \in Seq(Byte) /\ Len(put) \in Nat
      <3>1. put \in Seq(Byte)
        BY <2>2, FittingIsElement, PutElementType
      <3> QED
        BY <3>1
    <2> DEFINE front == join[m]
    <2> HIDE DEF put, front
    <2>7. front \in Seq(Byte) /\ Len(front) \in Nat
      BY <2>2 DEF front
    <2>8. Len(front \o put) = Len(front) + Len(put)
      BY <2>6, <2>7, ConcatProperties
    <2>9. r = p + Len(front \o put)
      BY <1>3, <2>3, <2>5, <2>6, <2>7, <2>8 DEF front
    <2>10. t # "entry" => HoldsAt(data, p, front \o put)
      <3>1. ASSUME t # "entry" PROVE HoldsAt(data, p, front \o put)
        <4>1. HoldsAt(data, p, front) /\ HoldsAt(data, p + Len(front), put)
          BY <2>3, <2>5, <3>1 DEF front
        <4> QED
          BY <1>3, <2>6, <2>7, <4>1, HoldsJoined
      <3> QED
        BY <3>1
    <2>11. join[m + 1] = front \o put
      BY <2>2 DEF front
    <2> QED
      BY <2>1, <2>9, <2>10, <2>11 DEF S, r
  <1>6. n \in S
    <2>1. n \in 0 .. n
      OBVIOUS
    <2>2. \A m \in 0 .. n : m \in S
      BY <1>4, <1>5, UpTo
    <2> QED
      BY <2>1, <2>2
  <1> QED
    BY <1>6 DEF S, p

\* What the decode loop returns when it accepts n elements at p.
ReadIsList(t, data, p, n, res) ==
    /\ res.value \in Seq(Fitting(t)) /\ Len(res.value) = n
    /\ res.pos = p + Len(PutList(t, res.value)) /\ res.pos \in 0 .. Len(data)
    /\ t # "entry" => HoldsAt(data, p, PutList(t, res.value))
    /\ res = Ok(res.pos, res.value)

\* An accepted list is a chain of elements.
LEMMA ListIsChain ==
    ASSUME NEW t \in Kinds, NEW data \in Seq(Byte), NEW p \in 0 .. Len(data), NEW n \in Nat,
           ReadList(t, data, p, n).status = "Ok"
    PROVE  \E at, vs : /\ Chain(t, data, n, at, vs) /\ Len(vs) = n /\ at[0] = p
                       /\ ReadList(t, data, p, n) = Ok(at[n], vs)
  <1>1. PICK from : Rounds(t, data, n, from) /\ ReadList(t, data, p, n) = from[<<p, n>>]
    BY ReadListIs
  <1>2. Chained(t, data, from, p, n)
    BY <1>1, ReadIsChain
  <1> QED
    BY <1>1, <1>2 DEF Chained

LEMMA ListIsRead ==
    ASSUME NEW t \in Kinds, NEW data \in Seq(Byte), NEW p \in 0 .. Len(data), NEW n \in Nat,
           ReadList(t, data, p, n).status = "Ok"
    PROVE  ReadIsList(t, data, p, n, ReadList(t, data, p, n))
  <1> DEFINE res == ReadList(t, data, p, n)
  <1>1. PICK at, vs : /\ Chain(t, data, n, at, vs) /\ Len(vs) = n /\ at[0] = p
                      /\ res = Ok(at[n], vs)
    BY ListIsChain
  <1>2. vs \in Seq(Fitting(t)) /\ at[n] \in 0 .. Len(data)
    <2>1. vs \in [1 .. n -> Fitting(t)] /\ at \in [0 .. n -> 0 .. Len(data)]
      BY <1>1 DEF Chain
    <2>2. n \in 0 .. n
      OBVIOUS
    <2> QED
      BY <2>1, <2>2
  <1>3. PICK join : Joins(t, vs, n, join) /\ PutList(t, vs) = join[n]
    <2>1. vs \in Seq(Element(t))
      BY <1>2, FittingLists
    <2> QED
      BY <1>1, <2>1, ListIsJoined
  <1>4. /\ at[n] = p + Len(PutList(t, vs))
        /\ t # "entry" => HoldsAt(data, p, PutList(t, vs))
    BY <1>1, <1>3, ChainIsJoined
  <1> HIDE DEF res
  <1>5. res.pos = at[n] /\ res.value = vs
    BY <1>1, ErrorsAreNotOk
  <1>6. ReadIsList(t, data, p, n, res)
    BY <1>1, <1>2, <1>4, <1>5 DEF ReadIsList
  <1> QED
    BY <1>6 DEF res

\* Bytes behind an accepted list change nothing.
LEMMA ListIsReadLonger ==
    ASSUME NEW t \in Kinds, NEW data \in Seq(Byte), NEW whole \in Seq(Byte),
           IsPrefixOf(data, whole), NEW p \in 0 .. Len(data), NEW n \in Nat,
           ReadList(t, data, p, n).status = "Ok"
    PROVE  ReadList(t, whole, p, n) = ReadList(t, data, p, n)
  <1>1. PICK at, vs : /\ Chain(t, data, n, at, vs) /\ Len(vs) = n /\ at[0] = p
                      /\ ReadList(t, data, p, n) = Ok(at[n], vs)
    BY ListIsChain
  <1>2. /\ at \in [0 .. n -> 0 .. Len(data)] /\ vs \in [1 .. n -> Fitting(t)]
        /\ \A i \in 1 .. n : ReadElement(t, data, at[i - 1]) = Ok(at[i], vs[i])
    BY <1>1 DEF Chain
  <1>3. 0 .. Len(data) \subseteq 0 .. Len(whole)
    <2>1. Len(data) <= Len(whole) /\ Len(data) \in Nat /\ Len(whole) \in Nat
      BY DEF IsPrefixOf
    <2> QED
      BY <2>1
  <1>4. ASSUME NEW i \in 1 .. n PROVE ReadElement(t, whole, at[i - 1]) = Ok(at[i], vs[i])
    <2>1. i - 1 \in 0 .. n
      OBVIOUS
    <2>2. at[i - 1] \in 0 .. Len(data)
      BY <1>2, <2>1
    <2>3. at[i - 1] \in Nat
      BY <2>2
    <2>4. ReadElement(t, data, at[i - 1]) = Ok(at[i], vs[i])
      BY <1>2
    <2>5. ReadElement(t, data, at[i - 1]).status = "Ok"
      BY <2>4, ErrorsAreNotOk
    <2>6. ReadElement(t, whole, at[i - 1]) = ReadElement(t, data, at[i - 1])
      BY <2>3, <2>5, ElementIsReadLonger
    <2> QED
      BY <2>4, <2>6
  <1>5. Chain(t, whole, n, at, vs)
    <2>1. at \in [0 .. n -> 0 .. Len(whole)]
      BY <1>2, <1>3
    <2> QED
      BY <1>2, <1>4, <2>1 DEF Chain
  <1>6. PICK from : Rounds(t, whole, n, from) /\ ReadList(t, whole, p, n) = from[<<p, n>>]
    BY ReadListIs
  <1>7. from[<<at[0], n>>] = Ok(at[n], vs)
    BY <1>1, <1>5, <1>6, ChainIsRead
  <1> QED
    BY <1>1, <1>6, <1>7

-----------------------------------------------------------------------------
(* Whole values.                                                           *)

\* The types that are made of elements.
Structures == {"location", "locations", "path", "adjacency"}

\* The values of such a type whose counts and lengths the format has room for.
Proper(t) ==
    CASE t = "location"  -> Fitting("location")
      [] t = "locations" -> {v \in Seq(Fitting("location")) : Len(v) < U32Limit}
      [] t = "path"      -> {v \in Seq(Fitting("entry")) : Len(v) < U16Limit}
      [] t = "adjacency" -> {v \in [outgoing : Seq(Fitting("edge")),
                                    incoming : Seq(Fitting("edge"))] :
                                /\ Len(v.outgoing) < U16Limit
                                /\ Len(v.incoming) < U16Limit}

LEMMA StructureCases ==
    /\ \A v : /\ Encode("location", v) = PutLocation(v)
              /\ Encode("locations", v) = PutLocationSet(v)
              /\ Encode("path", v) = PutPathEntries(v)
              /\ Encode("adjacency", v) = PutAdjacency(v)
              /\ Encode("raw", v) = v
              /\ Encode("varint", v) = PutVarint(v)
    /\ \A data : /\ ReadAs("location", data) = ReadLocation(data, 0)
                 /\ ReadAs("locations", data) = ReadLocationSet(data)
                 /\ ReadAs("path", data) = ReadPathEntries(data)
                 /\ ReadAs("adjacency", data) = ReadAdjacency(data)
                 /\ ReadAs("raw", data) = Ok(Len(data), data)
                 /\ ReadAs("varint", data) = ReadVarint(data, 0)
    /\ ValueOf("location") = EntityLocation
    /\ ValueOf("locations") = Seq(EntityLocation)
    /\ ValueOf("path") = Seq(PathEntry)
    /\ ValueOf("adjacency") = [outgoing : Seq(Edge), incoming : Seq(Edge)]
    /\ ValueOf("raw") = Seq(Byte)
    /\ ValueOf("varint") = 0 .. Limit - 1
  BY DEF Encode, ReadAs, ValueOf

LEMMA ProperCases ==
    /\ Proper("location") = Fitting("location")
    /\ \A v : /\ v \in Proper("locations")
                     <=> v \in Seq(Fitting("location")) /\ Len(v) < U32Limit
              /\ v \in Proper("path") <=> v \in Seq(Fitting("entry")) /\ Len(v) < U16Limit
              /\ v \in Proper("adjacency")
                     <=> /\ v \in [outgoing : Seq(Fitting("edge")),
                                   incoming : Seq(Fitting("edge"))]
                         /\ Len(v.outgoing) < U16Limit /\ Len(v.incoming) < U16Limit
  BY DEF Proper

\* What a decoder returns when it accepts the bytes.
ReadIsProper(t, data, res) ==
    /\ res.value \in Proper(t)
    /\ res.pos = Len(Encode(t, res.value)) /\ res.pos <= Len(data)
    /\ t # "path" => HoldsAt(data, 0, Encode(t, res.value))
    /\ res = Ok(res.pos, res.value)

\* A head of k bytes in front of a list.
Headed(data, head, k, list) ==
    /\ head \o list \in Seq(Byte) /\ Len(head \o list) = k + Len(list)
    /\ HoldsAt(data, 0, head \o list) <=> HoldsAt(data, 0, head) /\ HoldsAt(data, k, list)

LEMMA HeadAndList ==
    ASSUME NEW data \in Seq(Byte), NEW head \in Seq(Byte), NEW k, Len(head) = k,
           NEW t \in Kinds, NEW vs \in Seq(Element(t))
    PROVE  Headed(data, head, k, PutList(t, vs))
  <1> DEFINE list == PutList(t, vs)
  <1>1. list \in Seq(Byte) /\ Len(list) \in Nat
    BY PutListType
  <1> HIDE DEF list
  <1>2. head \o list \in Seq(Byte) /\ Len(head \o list) = Len(head) + Len(list)
    BY <1>1, ConcatProperties
  <1>3. Len(data) \in Nat /\ Len(head) \in Nat
    OBVIOUS
  <1>4. 0 + Len(head) = Len(head)
    BY <1>3
  <1>5. HoldsAt(data, 0, head \o list) => HoldsAt(data, 0, head) /\ HoldsAt(data, 0 + Len(head), list)
    BY <1>1, <1>3, HoldsParts
  <1>6. HoldsAt(data, 0, head) /\ HoldsAt(data, 0 + Len(head), list) => HoldsAt(data, 0, head \o list)
    BY <1>1, <1>3, HoldsJoined
  <1>7. HoldsAt(data, 0, head \o list) <=> HoldsAt(data, 0, head) /\ HoldsAt(data, Len(head), list)
    BY <1>4, <1>5, <1>6
  <1> QED
    BY <1>2, <1>7 DEF list, Headed

LEMMA LocationSetForm ==
    /\ \A v : PutLocationSet(v) = PutU32(Len(v)) \o PutList("location", v)
    /\ \A data : ReadLocationSet(data) =
                     IF Len(data) < 4 THEN Error("TooShort")
                     ELSE ReadList("location", data, 4, U32At(data, 0))
  BY PutListCases, ListCases DEF PutLocationSet, ReadLocationSet

LEMMA LocationsRoundTrip ==
    ASSUME NEW data \in Seq(Byte), NEW v \in Proper("locations"),
           HoldsAt(data, 0, PutLocationSet(v))
    PROVE  ReadLocationSet(data) = Ok(Len(PutLocationSet(v)), v)
  <1> DEFINE n == Len(v)
             list == PutList("location", v)
  <1>1. /\ v \in Seq(Fitting("location")) /\ v \in Seq(Element("location"))
        /\ n \in Nat /\ n < U32Limit /\ "location" \in Kinds
    BY ProperCases, FittingLists DEF Kinds
  <1>2. PutU32(n) \in Seq(Byte) /\ Len(PutU32(n)) = 4
    BY <1>1, PutU32Type
  <1>3. PutLocationSet(v) = PutU32(n) \o list
    BY LocationSetForm
  <1>4. /\ HoldsAt(data, 0, PutU32(n)) /\ HoldsAt(data, 4, list)
        /\ Len(PutLocationSet(v)) = 4 + Len(list)
    <2>1. Headed(data, PutU32(n), 4, list)
      BY <1>1, <1>2, HeadAndList
    <2> QED
      BY <1>3, <2>1, Zenon DEF Headed
  <1>5. U32At(data, 0) = n
    <2>1. n \in 0 .. U32Limit - 1 /\ Len(data) \in Nat
      BY <1>1, LimitsAreNat
    <2> HIDE DEF n
    <2> QED
      BY <1>4, <2>1, U32RoundTrip
  <1>6. ~ (Len(data) < 4)
    <2>1. 4 + Len(list) <= Len(data) /\ Len(list) \in Nat /\ Len(data) \in Nat
      BY <1>1, <1>4, PutListType DEF HoldsAt
    <2> QED
      BY <2>1
  <1>7. ReadLocationSet(data) = ReadList("location", data, 4, n)
    BY <1>5, <1>6, LocationSetForm
  <1>8. ReadList("location", data, 4, n) = Ok(4 + Len(list), v)
    BY <1>1, <1>4, ListRoundTrip
  <1> QED
    BY <1>4, <1>7, <1>8

LEMMA LocationsIsRead ==
    ASSUME NEW data \in Seq(Byte), ReadLocationSet(data).status = "Ok"
    PROVE  ReadIsProper("locations", data, ReadLocationSet(data))
  <1> DEFINE n == U32At(data, 0)
             res == ReadLocationSet(data)
             v == res.value
             list == PutList("location", v)
  <1>1. Len(data) >= 4 /\ res = ReadList("location", data, 4, n)
    <2>1. ~ (Len(data) < 4)
      BY LocationSetForm, ErrorsAreNotOk
    <2>2. Len(data) \in Nat
      OBVIOUS
    <2> QED
      BY <2>1, <2>2, LocationSetForm
  <1>2. n \in U32 /\ HoldsAt(data, 0, PutU32(n))
    BY <1>1, U32Canonical
  <1>3. n \in Nat /\ n < U32Limit /\ "location" \in Kinds /\ 4 \in 0 .. Len(data)
    BY <1>1, <1>2, LimitsAreNat DEF U32, Kinds
  <1> HIDE DEF n, res
  <1>4. ReadIsList("location", data, 4, n, res)
    BY <1>1, <1>3, ListIsRead DEF res
  <1>5. /\ v \in Seq(Fitting("location")) /\ Len(v) = n /\ v \in Seq(Element("location"))
        /\ res.pos = 4 + Len(list) /\ res.pos <= Len(data)
        /\ HoldsAt(data, 4, list) /\ res = Ok(res.pos, v)
    BY <1>3, <1>4, FittingLists DEF ReadIsList
  <1>6. PutU32(n) \in Seq(Byte) /\ Len(PutU32(n)) = 4
    BY <1>3, PutU32Type
  <1>7. Encode("locations", v) = PutU32(n) \o list
    BY <1>5, LocationSetForm, StructureCases
  <1> HIDE DEF v
  <1>8. Len(PutU32(n) \o list) = 4 + Len(list) /\ HoldsAt(data, 0, PutU32(n) \o list)
    <2>1. Headed(data, PutU32(n), 4, list)
      BY <1>3, <1>5, <1>6, HeadAndList
    <2> QED
      BY <1>2, <1>5, <2>1, Zenon DEF Headed
  <1>9. v \in Proper("locations")
    BY <1>3, <1>5, ProperCases
  <1>10. ReadIsProper("locations", data, res)
    BY <1>5, <1>7, <1>8, <1>9 DEF ReadIsProper, v
  <1> QED
    BY <1>10 DEF res

LEMMA PathForm ==
    /\ \A v : PutPathEntries(v) = PutU16(Len(v)) \o PutList("entry", v)
    /\ \A data : ReadPathEntries(data) =
                     IF Len(data) < 2 THEN Error("TooShort")
                     ELSE ReadList("entry", data, 2, U16At(data, 0))
  BY PutListCases, ListCases DEF PutPathEntries, ReadPathEntries

LEMMA PathRoundTrip ==
    ASSUME NEW data \in Seq(Byte), NEW v \in Proper("path"),
           HoldsAt(data, 0, PutPathEntries(v))
    PROVE  ReadPathEntries(data) = Ok(Len(PutPathEntries(v)), v)
  <1> DEFINE n == Len(v)
             list == PutList("entry", v)
  <1>1. /\ v \in Seq(Fitting("entry")) /\ v \in Seq(Element("entry"))
        /\ n \in Nat /\ n < U16Limit /\ "entry" \in Kinds
    BY ProperCases, FittingLists DEF Kinds
  <1>2. PutU16(n) \in Seq(Byte) /\ Len(PutU16(n)) = 2
    BY <1>1, PutU16Type
  <1>3. PutPathEntries(v) = PutU16(n) \o list
    BY PathForm
  <1>4. /\ HoldsAt(data, 0, PutU16(n)) /\ HoldsAt(data, 2, list)
        /\ Len(PutPathEntries(v)) = 2 + Len(list)
    <2>1. Headed(data, PutU16(n), 2, list)
      BY <1>1, <1>2, HeadAndList
    <2> QED
      BY <1>3, <2>1, Zenon DEF Headed
  <1>5. U16At(data, 0) = n
    <2>1. n \in 0 .. U16Limit - 1
      BY <1>1, LimitsAreNat
    <2> HIDE DEF n
    <2> QED
      BY <1>4, <2>1, U16RoundTrip
  <1>6. ~ (Len(data) < 2)
    <2>1. 2 + Len(list) <= Len(data) /\ Len(list) \in Nat /\ Len(data) \in Nat
      BY <1>1, <1>4, PutListType DEF HoldsAt
    <2> QED
      BY <2>1
  <1>7. ReadPathEntries(data) = ReadList("entry", data, 2, n)
    BY <1>5, <1>6, PathForm
  <1>8. ReadList("entry", data, 2, n) = Ok(2 + Len(list), v)
    BY <1>1, <1>4, ListRoundTrip
  <1> QED
    BY <1>4, <1>7, <1>8

LEMMA PathIsRead ==
    ASSUME NEW data \in Seq(Byte), ReadPathEntries(data).status = "Ok"
    PROVE  ReadIsProper("path", data, ReadPathEntries(data))
  <1> DEFINE n == U16At(data, 0)
             res == ReadPathEntries(data)
             v == res.value
             list == PutList("entry", v)
  <1>1. Len(data) >= 2 /\ res = ReadList("entry", data, 2, n)
    <2>1. ~ (Len(data) < 2)
      BY PathForm, ErrorsAreNotOk
    <2>2. Len(data) \in Nat
      OBVIOUS
    <2> QED
      BY <2>1, <2>2, PathForm
  <1>2. n \in 0 .. U16Limit - 1
    BY <1>1, U16Canonical
  <1>3. n \in Nat /\ n < U16Limit /\ "entry" \in Kinds /\ 2 \in 0 .. Len(data)
    BY <1>1, <1>2, LimitsAreNat DEF Kinds
  <1> HIDE DEF n, res
  <1>4. ReadIsList("entry", data, 2, n, res)
    BY <1>1, <1>3, ListIsRead DEF res
  <1>5. /\ v \in Seq(Fitting("entry")) /\ Len(v) = n /\ v \in Seq(Element("entry"))
        /\ res.pos = 2 + Len(list) /\ res.pos <= Len(data) /\ res = Ok(res.pos, v)
    BY <1>3, <1>4, FittingLists DEF ReadIsList
  <1>6. PutU16(n) \in Seq(Byte) /\ Len(PutU16(n)) = 2
    BY <1>3, PutU16Type
  <1>7. Encode("path", v) = PutU16(n) \o list
    BY <1>5, PathForm, StructureCases
  <1> HIDE DEF v
  <1>8. Len(PutU16(n) \o list) = 2 + Len(list)
    <2>1. Headed(data, PutU16(n), 2, list)
      BY <1>3, <1>5, <1>6, HeadAndList
    <2> QED
      BY <2>1, Zenon DEF Headed
  <1>9. v \in Proper("path")
    BY <1>3, <1>5, ProperCases
  <1>10. ReadIsProper("path", data, res)
    BY <1>5, <1>7, <1>8, <1>9 DEF ReadIsProper, v
  <1> QED
    BY <1>10 DEF res

LEMMA AdjacencyForm ==
    /\ \A v : PutAdjacency(v) =
           PutU16(Len(v.outgoing)) \o PutU16(Len(v.incoming))
               \o PutList("edge", v.outgoing) \o PutList("edge", v.incoming)
    /\ \A data :
         LET out == ReadList("edge", data, 4, U16At(data, 0))
             back == ReadList("edge", data, out.pos, U16At(data, 2))
         IN  ReadAdjacency(data) =
                 IF Len(data) < 4 THEN Error("TooShort")
                 ELSE IF out.status = "Ok"
                 THEN IF back.status = "Ok"
                      THEN Ok(back.pos, [outgoing |-> out.value, incoming |-> back.value])
                      ELSE back
                 ELSE out
  <1>1. \A v : PutAdjacency(v) =
            PutU16(Len(v.outgoing)) \o PutU16(Len(v.incoming))
                \o PutList("edge", v.outgoing) \o PutList("edge", v.incoming)
    BY PutListCases DEF PutAdjacency
  <1>2. \A data, p, n : ReadList("edge", data, p, n) = ReadMany(ReadEdge, data, p, n)
    BY ListCases
  <1> QED
    BY <1>1, <1>2 DEF ReadAdjacency, Follow

\* Two counts, and two lists behind them.
Pair(a, b) == PutU16(a) \o PutU16(b)

LEMMA PairType ==
    ASSUME NEW a \in Nat, NEW b \in Nat
    PROVE  Pair(a, b) \in Seq(Byte) /\ Len(Pair(a, b)) = 4
  <1> DEFINE s == PutU16(a)
             t == PutU16(b)
  <1>1. s \in Seq(Byte) /\ Len(s) = 2 /\ t \in Seq(Byte) /\ Len(t) = 2
    BY PutU16Type
  <1> HIDE DEF s, t
  <1>2. s \o t \in Seq(Byte) /\ Len(s \o t) = Len(s) + Len(t)
    BY <1>1, ConcatProperties
  <1>3. s \o t \in Seq(Byte) /\ Len(s \o t) = 4
    BY <1>1, <1>2
  <1> QED
    BY <1>3 DEF s, t, Pair

LEMMA PairHeld ==
    ASSUME NEW data \in Seq(Byte), NEW a \in Nat, NEW b \in Nat
    PROVE  HoldsAt(data, 0, Pair(a, b))
           <=> HoldsAt(data, 0, PutU16(a)) /\ HoldsAt(data, 2, PutU16(b))
  <1> DEFINE s == PutU16(a)
             t == PutU16(b)
  <1>1. s \in Seq(Byte) /\ Len(s) = 2 /\ t \in Seq(Byte) /\ Len(data) \in Nat
    BY PutU16Type
  <1> HIDE DEF s, t
  <1>2. HoldsAt(data, 0, s \o t) => HoldsAt(data, 0, s) /\ HoldsAt(data, 0 + Len(s), t)
    BY <1>1, HoldsParts
  <1>3. HoldsAt(data, 0, s) /\ HoldsAt(data, 0 + Len(s), t) => HoldsAt(data, 0, s \o t)
    BY <1>1, HoldsJoined
  <1>4. 0 + Len(s) = 2
    BY <1>1
  <1>5. HoldsAt(data, 0, s \o t) <=> HoldsAt(data, 0, s) /\ HoldsAt(data, 2, t)
    BY <1>2, <1>3, <1>4, Zenon
  <1> QED
    BY <1>5 DEF s, t, Pair

\* The parts of an adjacency list whose counts are a and b.
AdjacencyAt(data, a, b, out, back) ==
    /\ HoldsAt(data, 0, PutU16(a)) /\ HoldsAt(data, 2, PutU16(b))
    /\ HoldsAt(data, 4, out) /\ HoldsAt(data, 4 + Len(out), back)

AdjacencyJoined(data, a, b, out, back) ==
    /\ Pair(a, b) \o out \o back \in Seq(Byte)
    /\ Len(Pair(a, b) \o out \o back) = 4 + Len(out) + Len(back)
    /\ HoldsAt(data, 0, Pair(a, b) \o out \o back) <=> AdjacencyAt(data, a, b, out, back)

LEMMA AdjacencyParts ==
    ASSUME NEW data \in Seq(Byte), NEW a \in Nat, NEW b \in Nat,
           NEW vs \in Seq(Element("edge")), NEW ws \in Seq(Element("edge"))
    PROVE  AdjacencyJoined(data, a, b, PutList("edge", vs), PutList("edge", ws))
  <1> DEFINE out == PutList("edge", vs)
             back == PutList("edge", ws)
             head == Pair(a, b)
             front == head \o out
  <1>1. head \in Seq(Byte) /\ Len(head) = 4 /\ "edge" \in Kinds
    BY PairType DEF Kinds
  <1>2. Headed(data, head, 4, out)
    BY <1>1, HeadAndList
  <1> HIDE DEF head
  <1>3. front \in Seq(Byte) /\ Len(front) = 4 + Len(out)
    BY <1>2 DEF Headed
  <1> HIDE DEF front
  <1>4. Headed(data, front, 4 + Len(out), back)
    BY <1>1, <1>3, HeadAndList
  <1>5. HoldsAt(data, 0, head) <=> HoldsAt(data, 0, PutU16(a)) /\ HoldsAt(data, 2, PutU16(b))
    BY PairHeld DEF head
  <1>6. HoldsAt(data, 0, front) <=> HoldsAt(data, 0, head) /\ HoldsAt(data, 4, out)
    BY <1>2 DEF Headed, front
  <1>7. HoldsAt(data, 0, front \o back)
        <=> HoldsAt(data, 0, front) /\ HoldsAt(data, 4 + Len(out), back)
    BY <1>4 DEF Headed
  <1>8. HoldsAt(data, 0, front \o back) <=> AdjacencyAt(data, a, b, out, back)
    BY <1>5, <1>6, <1>7 DEF AdjacencyAt
  <1>9. front \o back \in Seq(Byte) /\ Len(front \o back) = 4 + Len(out) + Len(back)
    BY <1>4 DEF Headed
  <1> QED
    BY <1>8, <1>9 DEF AdjacencyJoined, front, head

LEMMA ProperAdjacency ==
    ASSUME NEW v
    PROVE  v \in Proper("adjacency")
           <=> /\ v = [outgoing |-> v.outgoing, incoming |-> v.incoming]
               /\ v.outgoing \in Seq(Fitting("edge")) /\ Len(v.outgoing) < U16Limit
               /\ v.incoming \in Seq(Fitting("edge")) /\ Len(v.incoming) < U16Limit
  <1>1. v \in [outgoing : Seq(Fitting("edge")), incoming : Seq(Fitting("edge"))]
        <=> /\ v = [outgoing |-> v.outgoing, incoming |-> v.incoming]
            /\ v.outgoing \in Seq(Fitting("edge")) /\ v.incoming \in Seq(Fitting("edge"))
    OBVIOUS
  <1> QED
    BY <1>1, ProperCases

LEMMA AdjacencyRoundTrip ==
    ASSUME NEW data \in Seq(Byte), NEW v \in Proper("adjacency"),
           HoldsAt(data, 0, PutAdjacency(v))
    PROVE  ReadAdjacency(data) = Ok(Len(PutAdjacency(v)), v)
  <1> DEFINE vs == v.outgoing
             ws == v.incoming
             a == Len(vs)
             b == Len(ws)
             out == PutList("edge", vs)
             back == PutList("edge", ws)
  <1>1. /\ v = [outgoing |-> vs, incoming |-> ws]
        /\ vs \in Seq(Fitting("edge")) /\ a < U16Limit
        /\ ws \in Seq(Fitting("edge")) /\ b < U16Limit
    BY ProperAdjacency
  <1>2. PutAdjacency(v) = Pair(a, b) \o out \o back
    BY AdjacencyForm DEF Pair
  <1> HIDE DEF vs, ws
  <1>3. /\ vs \in Seq(Element("edge")) /\ ws \in Seq(Element("edge"))
        /\ a \in Nat /\ b \in Nat /\ "edge" \in Kinds
    BY <1>1, FittingLists DEF Kinds
  <1> HIDE DEF a, b
  <1>4. AdjacencyJoined(data, a, b, out, back)
    BY <1>3, AdjacencyParts
  <1>5. /\ AdjacencyAt(data, a, b, out, back)
        /\ Len(PutAdjacency(v)) = 4 + Len(out) + Len(back)
    BY <1>2, <1>4 DEF AdjacencyJoined
  <1>6. U16At(data, 0) = a /\ U16At(data, 2) = b
    <2>1. a \in 0 .. U16Limit - 1 /\ b \in 0 .. U16Limit - 1
      BY <1>1, <1>3, LimitsAreNat DEF a, b
    <2>2. HoldsAt(data, 0, PutU16(a)) /\ HoldsAt(data, 2, PutU16(b))
      BY <1>5 DEF AdjacencyAt
    <2> QED
      BY <2>1, <2>2, U16RoundTrip
  <1>7. /\ ReadList("edge", data, 4, a) = Ok(4 + Len(out), vs)
        /\ ReadList("edge", data, 4 + Len(out), b) = Ok(4 + Len(out) + Len(back), ws)
    <2>1. HoldsAt(data, 4, out) /\ HoldsAt(data, 4 + Len(out), back)
      BY <1>5 DEF AdjacencyAt
    <2> QED
      BY <1>1, <1>3, <2>1, ListRoundTrip DEF a, b
  <1>8. ~ (Len(data) < 4)
    <2>1. 4 + Len(out) <= Len(data)
      BY <1>5 DEF AdjacencyAt, HoldsAt
    <2>2. Len(out) \in Nat /\ Len(data) \in Nat
      BY <1>3, PutListType
    <2> HIDE DEF out
    <2> QED
      BY <2>1, <2>2
  <1> DEFINE first == ReadList("edge", data, 4, U16At(data, 0))
             next == ReadList("edge", data, first.pos, U16At(data, 2))
  <1>9. ReadAdjacency(data) =
            IF Len(data) < 4 THEN Error("TooShort")
            ELSE IF first.status = "Ok"
            THEN IF next.status = "Ok"
                 THEN Ok(next.pos, [outgoing |-> first.value, incoming |-> next.value])
                 ELSE next
            ELSE first
    BY AdjacencyForm
  <1>10. first.status = "Ok" /\ first.pos = 4 + Len(out) /\ first.value = vs
    BY <1>6, <1>7, ErrorsAreNotOk
  <1>11. next.status = "Ok" /\ next.pos = 4 + Len(out) + Len(back) /\ next.value = ws
    BY <1>6, <1>7, <1>10, ErrorsAreNotOk
  <1> HIDE DEF first, next, out, back
  <1>12. ReadAdjacency(data) =
             Ok(4 + Len(out) + Len(back), [outgoing |-> vs, incoming |-> ws])
    BY <1>8, <1>9, <1>10, <1>11
  <1> QED
    BY <1>1, <1>5, <1>12

LEMMA AdjacencyIsRead ==
    ASSUME NEW data \in Seq(Byte), ReadAdjacency(data).status = "Ok"
    PROVE  ReadIsProper("adjacency", data, ReadAdjacency(data))
  <1> DEFINE a == U16At(data, 0)
             b == U16At(data, 2)
             first == ReadList("edge", data, 4, a)
             next == ReadList("edge", data, first.pos, b)
             vs == first.value
             ws == next.value
             out == PutList("edge", vs)
             back == PutList("edge", ws)
             v == [outgoing |-> vs, incoming |-> ws]
  <1>1. ReadAdjacency(data) =
            IF Len(data) < 4 THEN Error("TooShort")
            ELSE IF first.status = "Ok"
            THEN IF next.status = "Ok" THEN Ok(next.pos, v) ELSE next
            ELSE first
    BY AdjacencyForm
  <1> HIDE DEF first, next, v
  <1>2. /\ Len(data) >= 4 /\ first.status = "Ok" /\ next.status = "Ok"
        /\ ReadAdjacency(data) = Ok(next.pos, v)
    <2>1. /\ ~ (Len(data) < 4) /\ first.status = "Ok" /\ next.status = "Ok"
          /\ ReadAdjacency(data) = Ok(next.pos, v)
      BY <1>1, ErrorsAreNotOk
    <2>2. Len(data) \in Nat
      OBVIOUS
    <2> QED
      BY <2>1, <2>2
  <1>3. /\ a \in 0 .. U16Limit - 1 /\ HoldsAt(data, 0, PutU16(a))
        /\ b \in 0 .. U16Limit - 1 /\ HoldsAt(data, 2, PutU16(b))
    <2>1. 0 \in Nat /\ 2 \in Nat /\ 0 + 2 <= Len(data) /\ 2 + 2 <= Len(data)
      BY <1>2
    <2> QED
      BY <2>1, U16Canonical
  <1>4. a \in Nat /\ a < U16Limit /\ b \in Nat /\ b < U16Limit /\ "edge" \in Kinds
    BY <1>3, LimitsAreNat DEF Kinds
  <1> HIDE DEF a, b
  <1>5. ReadIsList("edge", data, 4, a, first)
    <2>1. 4 \in 0 .. Len(data)
      BY <1>2
    <2> QED
      BY <1>2, <1>4, <2>1, ListIsRead DEF first
  <1>6. /\ vs \in Seq(Fitting("edge")) /\ Len(vs) = a
        /\ first.pos = 4 + Len(out) /\ first.pos \in 0 .. Len(data) /\ HoldsAt(data, 4, out)
    BY <1>5 DEF ReadIsList
  <1>7. ReadIsList("edge", data, first.pos, b, next)
    BY <1>2, <1>4, <1>6, ListIsRead DEF next
  <1>8. /\ ws \in Seq(Fitting("edge")) /\ Len(ws) = b
        /\ next.pos = first.pos + Len(back) /\ next.pos \in 0 .. Len(data)
        /\ HoldsAt(data, first.pos, back)
    BY <1>7 DEF ReadIsList
  <1>9. v.outgoing = vs /\ v.incoming = ws
    BY DEF v
  <1>10. PutAdjacency(v) = Pair(a, b) \o out \o back
    BY <1>6, <1>8, <1>9, AdjacencyForm DEF Pair
  <1> HIDE DEF vs, ws
  <1>11. vs \in Seq(Element("edge")) /\ ws \in Seq(Element("edge"))
    BY <1>4, <1>6, <1>8, FittingLists
  <1>12. AdjacencyJoined(data, a, b, out, back)
    BY <1>4, <1>11, AdjacencyParts
  <1> HIDE DEF out, back
  <1>13. AdjacencyAt(data, a, b, out, back)
    BY <1>3, <1>6, <1>8 DEF AdjacencyAt
  <1>14. HoldsAt(data, 0, PutAdjacency(v)) /\ Len(PutAdjacency(v)) = next.pos
    BY <1>6, <1>8, <1>10, <1>12, <1>13 DEF AdjacencyJoined
  <1>15. v \in Proper("adjacency")
    <2>1. v = [outgoing |-> vs, incoming |-> ws]
      BY DEF v, vs, ws
    <2> QED
      BY <1>4, <1>6, <1>8, <1>9, <2>1, ProperAdjacency
  <1>16. next.pos <= Len(data)
    BY <1>8
  <1> DEFINE res == Ok(next.pos, v)
  <1>17. res.pos = next.pos /\ res.value = v /\ res = Ok(res.pos, res.value)
    BY ErrorsAreNotOk
  <1>18. Encode("adjacency", v) = PutAdjacency(v)
    BY StructureCases
  <1> HIDE DEF res
  <1>19. ReadIsProper("adjacency", data, res)
    BY <1>14, <1>15, <1>16, <1>17, <1>18 DEF ReadIsProper
  <1> QED
    BY <1>2, <1>19 DEF res

LEMMA ValueCases ==
    /\ ValueOf("location") = Element("location")
    /\ ValueOf("locations") = Seq(Element("location"))
    /\ ValueOf("path") = Seq(Element("entry"))
    /\ ValueOf("adjacency") = [outgoing : Seq(Element("edge")),
                                incoming : Seq(Element("edge"))]
    /\ "location" \in Kinds /\ "entry" \in Kinds /\ "edge" \in Kinds
  <1>1. Element("location") = EntityLocation
    BY KindCases
  <1>2. Element("entry") = PathEntry
    BY KindCases
  <1>3. Element("edge") = Edge
    BY KindCases
  <1>4. "location" \in Kinds /\ "entry" \in Kinds /\ "edge" \in Kinds
    BY DEF Kinds
  <1> QED
    BY <1>1, <1>2, <1>3, <1>4 DEF ValueOf

\* Elements fit when their strings do.
LEMMA FittingElements ==
    /\ \A v \in Element("location") :
           v \in Fitting("location") <=> Len(v.file_key) < U16Limit
    /\ \A v \in Element("entry") : v \in Fitting("entry") <=> Len(v.entity_id) < U16Limit
    /\ \A v \in Element("edge") : v \in Fitting("edge") <=> EdgeFits(v)
  <1>1. ASSUME NEW v \in Element("location")
        PROVE  v \in Fitting("location") <=> Len(v.file_key) < U16Limit
    <2>1. v \in EntityLocation
      BY KindCases
    <2>2. v.file_key \in Text
      BY <2>1 DEF EntityLocation
    <2>3. v \in Fitting("location") <=> v \in EntityLocation /\ IsString(v.file_key)
      BY KindCases
    <2> QED
      BY <2>1, <2>2, <2>3 DEF IsString
  <1>2. ASSUME NEW v \in Element("entry")
        PROVE  v \in Fitting("entry") <=> Len(v.entity_id) < U16Limit
    <2>1. v \in PathEntry
      BY KindCases
    <2>2. v.entity_id \in Text
      BY <2>1 DEF PathEntry
    <2>3. v \in Fitting("entry") <=> v \in PathEntry /\ IsString(v.entity_id)
      BY KindCases
    <2> QED
      BY <2>1, <2>2, <2>3 DEF IsString
  <1>3. ASSUME NEW v \in Element("edge") PROVE v \in Fitting("edge") <=> EdgeFits(v)
    <2>1. v \in Edge
      BY KindCases
    <2>2. v.entity_id \in Text /\ v.rel_kind \in RelKind
      BY <2>1 DEF Edge
    <2>3. v.rel_kind.name \in Text
      BY <2>2, EmptyIsString DEF RelKind
    <2>4. v \in Fitting("edge")
          <=> v \in Edge /\ IsString(v.entity_id) /\ IsString(v.rel_kind.name)
      BY KindCases
    <2> QED
      BY <2>1, <2>2, <2>3, <2>4 DEF IsString, EdgeFits, Short
  <1> QED
    BY <1>1, <1>2, <1>3

LEMMA FittingSequences ==
    ASSUME NEW t \in Kinds, NEW vs \in Seq(Element(t))
    PROVE  vs \in Seq(Fitting(t)) <=> \A i \in DOMAIN vs : vs[i] \in Fitting(t)
  <1>1. DOMAIN vs = 1 .. Len(vs)
    OBVIOUS
  <1> QED
    BY <1>1

\* Fitting values are those whose counts and lengths fit.
LEMMA ProperIsFits ==
    ASSUME NEW t \in Structures, NEW v \in ValueOf(t)
    PROVE  Fits(t, v) <=> v \in Proper(t)
  <1>1. CASE t = "location"
    <2>1. v \in Element("location")
      BY <1>1, ValueCases
    <2>2. Fits(t, v) <=> Len(v.file_key) < U16Limit
      BY <1>1 DEF Fits, Short
    <2>3. v \in Proper(t) <=> v \in Fitting("location")
      BY <1>1, ProperCases
    <2> QED
      BY <2>1, <2>2, <2>3, FittingElements, Zenon
  <1>2. CASE t = "locations"
    <2>1. v \in Seq(Element("location"))
      BY <1>2, ValueCases
    <2>2. Fits(t, v) <=> Len(v) < U32Limit /\ \A i \in DOMAIN v : Len(v[i].file_key) < U16Limit
      BY <1>2 DEF Fits, Short, AllOf
    <2>3. v \in Proper(t) <=> v \in Seq(Fitting("location")) /\ Len(v) < U32Limit
      BY <1>2, ProperCases
    <2>4. v \in Seq(Fitting("location")) <=> \A i \in DOMAIN v : v[i] \in Fitting("location")
      BY <2>1, ValueCases, FittingSequences
    <2>5. \A i \in DOMAIN v : v[i] \in Element("location")
      BY <2>1
    <2>6. \A i \in DOMAIN v : v[i] \in Fitting("location") <=> Len(v[i].file_key) < U16Limit
      BY <2>5, FittingElements, Zenon
    <2> QED
      BY <2>2, <2>3, <2>4, <2>6, Zenon
  <1>3. CASE t = "path"
    <2>1. v \in Seq(Element("entry"))
      BY <1>3, ValueCases
    <2>2. Fits(t, v) <=> Len(v) < U16Limit /\ \A i \in DOMAIN v : Len(v[i].entity_id) < U16Limit
      BY <1>3 DEF Fits, Short, AllOf
    <2>3. v \in Proper(t) <=> v \in Seq(Fitting("entry")) /\ Len(v) < U16Limit
      BY <1>3, ProperCases
    <2>4. v \in Seq(Fitting("entry")) <=> \A i \in DOMAIN v : v[i] \in Fitting("entry")
      BY <2>1, ValueCases, FittingSequences
    <2>5. \A i \in DOMAIN v : v[i] \in Element("entry")
      BY <2>1
    <2>6. \A i \in DOMAIN v : v[i] \in Fitting("entry") <=> Len(v[i].entity_id) < U16Limit
      BY <2>5, FittingElements, Zenon
    <2> QED
      BY <2>2, <2>3, <2>4, <2>6, Zenon
  <1>4. CASE t = "adjacency"
    <2>1. v \in [outgoing : Seq(Element("edge")), incoming : Seq(Element("edge"))]
      BY <1>4, ValueCases
    <2>2. ASSUME NEW es \in Seq(Element("edge"))
          PROVE  es \in Seq(Fitting("edge")) <=> AllOf(es, EdgeFits)
      <3>1. \A i \in DOMAIN es : es[i] \in Element("edge")
        OBVIOUS
      <3>2. es \in Seq(Fitting("edge")) <=> \A i \in DOMAIN es : es[i] \in Fitting("edge")
        BY ValueCases, FittingSequences
      <3>3. \A i \in DOMAIN es : es[i] \in Fitting("edge") <=> EdgeFits(es[i])
        BY <3>1, FittingElements, Zenon
      <3> QED
        BY <3>2, <3>3 DEF AllOf
    <2>3. Fits(t, v) <=> /\ Len(v.outgoing) < U16Limit /\ AllOf(v.outgoing, EdgeFits)
                         /\ Len(v.incoming) < U16Limit /\ AllOf(v.incoming, EdgeFits)
      BY <1>4 DEF Fits, Short
    <2>4. /\ v = [outgoing |-> v.outgoing, incoming |-> v.incoming]
          /\ v.outgoing \in Seq(Element("edge")) /\ v.incoming \in Seq(Element("edge"))
      BY <2>1
    <2>5. /\ v.outgoing \in Seq(Fitting("edge")) <=> AllOf(v.outgoing, EdgeFits)
          /\ v.incoming \in Seq(Fitting("edge")) <=> AllOf(v.incoming, EdgeFits)
      BY <2>2, <2>4
    <2>6. v \in Proper(t)
          <=> /\ v = [outgoing |-> v.outgoing, incoming |-> v.incoming]
              /\ v.outgoing \in Seq(Fitting("edge")) /\ Len(v.outgoing) < U16Limit
              /\ v.incoming \in Seq(Fitting("edge")) /\ Len(v.incoming) < U16Limit
      BY <1>4, ProperAdjacency
    <2> QED
      BY <2>3, <2>4, <2>5, <2>6, Zenon
  <1> QED
    BY <1>1, <1>2, <1>3, <1>4 DEF Structures

LEMMA ProperIsValue ==
    ASSUME NEW t \in Structures, NEW v \in Proper(t)
    PROVE  v \in ValueOf(t)
  <1>1. CASE t = "location"
    <2>1. v \in Fitting("location")
      BY <1>1, ProperCases
    <2> QED
      BY <1>1, <2>1, ValueCases, FittingIsElement
  <1>2. CASE t = "locations"
    <2>1. v \in Seq(Fitting("location"))
      BY <1>2, ProperCases
    <2>2. v \in Seq(Element("location"))
      BY <2>1, ValueCases, FittingLists
    <2> QED
      BY <1>2, <2>2, ValueCases
  <1>3. CASE t = "path"
    <2>1. v \in Seq(Fitting("entry"))
      BY <1>3, ProperCases
    <2>2. v \in Seq(Element("entry"))
      BY <2>1, ValueCases, FittingLists
    <2> QED
      BY <1>3, <2>2, ValueCases
  <1>4. CASE t = "adjacency"
    <2>1. /\ v = [outgoing |-> v.outgoing, incoming |-> v.incoming]
          /\ v.outgoing \in Seq(Fitting("edge")) /\ v.incoming \in Seq(Fitting("edge"))
      BY <1>4, ProperAdjacency
    <2>2. v.outgoing \in Seq(Element("edge")) /\ v.incoming \in Seq(Element("edge"))
      BY <2>1, ValueCases, FittingLists
    <2>3. v \in [outgoing : Seq(Element("edge")), incoming : Seq(Element("edge"))]
      BY <2>1, <2>2
    <2> QED
      BY <1>4, <2>3, ValueCases
  <1> QED
    BY <1>1, <1>2, <1>3, <1>4 DEF Structures

\* At least k bytes.
AreBytes(e, k) == e \in Seq(Byte) /\ Len(e) \in Nat /\ Len(e) >= k

LEMMA HeadedType ==
    ASSUME NEW head \in Seq(Byte), NEW k \in Nat, Len(head) = k, NEW t \in Kinds,
           NEW vs \in Seq(Element(t))
    PROVE  AreBytes(head \o PutList(t, vs), k)
  <1> DEFINE list == PutList(t, vs)
             e == head \o list
  <1>1. list \in Seq(Byte) /\ Len(list) \in Nat
    BY PutListType
  <1> HIDE DEF list
  <1>3. e \in Seq(Byte) /\ Len(e) = k + Len(list)
    BY <1>1, ConcatProperties
  <1> HIDE DEF e
  <1> DEFINE l == Len(list)
  <1>4. l \in Nat /\ Len(e) = k + l
    BY <1>1, <1>3
  <1> HIDE DEF l
  <1>5. Len(e) \in Nat /\ Len(e) >= k
    BY <1>4
  <1> QED
    BY <1>3, <1>5 DEF AreBytes, e, list

\* Encodings are bytes, and too many of them to be a tombstone.
LEMMA EncodeType ==
    ASSUME NEW t \in Structures, NEW v \in ValueOf(t)
    PROVE  Encode(t, v) \in Seq(Byte) /\ Len(Encode(t, v)) \in Nat /\ Len(Encode(t, v)) >= 2
  <1> DEFINE e == Encode(t, v)
  <1>1. CASE t = "location"
    <2>1. v \in EntityLocation /\ e = PutLocation(v)
      BY <1>1, StructureCases
    <2>2. e \in Seq(Byte) /\ Len(e) = Len(v.file_key) + 10
      BY <2>1, PutLocationType
    <2>3. Len(v.file_key) \in Nat
      BY <2>1 DEF Text, EntityLocation
    <2> HIDE DEF e
    <2> DEFINE l == Len(v.file_key)
    <2>4. l \in Nat /\ Len(e) = l + 10
      BY <2>2, <2>3
    <2> HIDE DEF l
    <2>5. Len(e) \in Nat /\ Len(e) >= 2
      BY <2>4
    <2> QED
      BY <2>2, <2>5 DEF e
  <1>3. CASE t = "locations"
    <2>1. v \in Seq(Element("location")) /\ "location" \in Kinds /\ Len(v) \in Nat
      BY <1>3, ValueCases
    <2>2. e = PutU32(Len(v)) \o PutList("location", v)
      BY <1>3, StructureCases, LocationSetForm
    <2>3. PutU32(Len(v)) \in Seq(Byte) /\ Len(PutU32(Len(v))) = 4
      BY <2>1, PutU32Type
    <2> DEFINE head == PutU32(Len(v))
    <2> HIDE DEF e, head
    <2>6. 4 \in Nat /\ head \in Seq(Byte) /\ Len(head) = 4
      BY <2>3 DEF head
    <2>7. AreBytes(head \o PutList("location", v), 4)
      BY <2>1, <2>6, HeadedType
    <2>4. e \in Seq(Byte) /\ Len(e) \in Nat /\ Len(e) >= 4
      BY <2>2, <2>7 DEF AreBytes, head
    <2>5. Len(e) >= 2
      BY <2>4
    <2> QED
      BY <2>4, <2>5 DEF e
  <1>4. CASE t = "path"
    <2>1. v \in Seq(Element("entry")) /\ "entry" \in Kinds /\ Len(v) \in Nat
      BY <1>4, ValueCases
    <2>2. e = PutU16(Len(v)) \o PutList("entry", v)
      BY <1>4, StructureCases, PathForm
    <2>3. PutU16(Len(v)) \in Seq(Byte) /\ Len(PutU16(Len(v))) = 2
      BY <2>1, PutU16Type
    <2> DEFINE head == PutU16(Len(v))
    <2> HIDE DEF e, head
    <2>6. 2 \in Nat /\ head \in Seq(Byte) /\ Len(head) = 2
      BY <2>3 DEF head
    <2>7. AreBytes(head \o PutList("entry", v), 2)
      BY <2>1, <2>6, HeadedType
    <2>4. e \in Seq(Byte) /\ Len(e) \in Nat /\ Len(e) >= 2
      BY <2>2, <2>7 DEF AreBytes, head
    <2>5. Len(e) >= 2
      BY <2>4
    <2> QED
      BY <2>4, <2>5 DEF e
  <1>5. CASE t = "adjacency"
    <2> DEFINE vs == v.outgoing
               ws == v.incoming
               out == PutList("edge", vs)
               back == PutList("edge", ws)
    <2>1. /\ vs \in Seq(Element("edge")) /\ ws \in Seq(Element("edge"))
          /\ "edge" \in Kinds /\ Len(vs) \in Nat /\ Len(ws) \in Nat
      <3>1. /\ v \in [outgoing : Seq(Element("edge")), incoming : Seq(Element("edge"))]
            /\ "edge" \in Kinds
        BY <1>5, ValueCases
      <3>2. vs \in Seq(Element("edge")) /\ ws \in Seq(Element("edge"))
        BY <3>1
      <3> HIDE DEF vs, ws
      <3> QED
        BY <3>1, <3>2
    <2>2. e = Pair(Len(vs), Len(ws)) \o out \o back
      <3>1. e = PutAdjacency(v)
        BY <1>5, StructureCases
      <3>2. PutAdjacency(v) = Pair(Len(vs), Len(ws)) \o out \o back
        BY AdjacencyForm DEF Pair
      <3> HIDE DEF e, out, back, vs, ws
      <3> QED
        BY <3>1, <3>2, Zenon
    <2>3. AdjacencyJoined(<<>>, Len(vs), Len(ws), out, back)
      <3> DEFINE a == Len(vs)
                 b == Len(ws)
                 none == <<>>
      <3>1. none \in Seq(Byte)
        OBVIOUS
      <3>2. a \in Nat /\ b \in Nat
        BY <2>1
      <3> HIDE DEF vs, ws, a, b, none
      <3>3. AdjacencyJoined(none, a, b, out, back)
        BY <2>1, <3>1, <3>2, AdjacencyParts
      <3> QED
        BY <3>3 DEF a, b, none
    <2>4. e \in Seq(Byte) /\ Len(e) = 4 + Len(out) + Len(back)
      BY <2>2, <2>3 DEF AdjacencyJoined
    <2>5. Len(out) \in Nat /\ Len(back) \in Nat
      BY <2>1, PutListType
    <2> HIDE DEF e, out, back
    <2>6. Len(e) \in Nat /\ Len(e) >= 2
      BY <2>4, <2>5
    <2> QED
      BY <2>4, <2>6 DEF e
  <1> QED
    BY <1>1, <1>3, <1>4, <1>5 DEF Structures

\* A fitting value is decoded to itself, whatever stands behind its bytes.
LEMMA StructureRoundTrip ==
    ASSUME NEW t \in Structures, NEW data \in Seq(Byte), NEW v \in Proper(t),
           HoldsAt(data, 0, Encode(t, v))
    PROVE  ReadAs(t, data) = Ok(Len(Encode(t, v)), v)
  <1>1. CASE t = "location"
    <2>1. v \in Fitting("location") /\ HoldsAt(data, 0, PutLocation(v))
      BY <1>1, ProperCases, StructureCases
    <2>2. ReadLocation(data, 0) = Ok(0 + Len(PutLocation(v)), v)
      BY <2>1, LocationRoundTrip
    <2>3. PutLocation(v) \in Seq(Byte)
      BY <2>1, KindCases, PutLocationType
    <2>4. 0 + Len(PutLocation(v)) = Len(PutLocation(v))
      BY <2>3
    <2> QED
      BY <1>1, <2>2, <2>4, StructureCases
  <1>2. CASE t = "locations"
    BY <1>2, LocationsRoundTrip, StructureCases
  <1>3. CASE t = "path"
    BY <1>3, PathRoundTrip, StructureCases
  <1>4. CASE t = "adjacency"
    BY <1>4, AdjacencyRoundTrip, StructureCases
  <1> QED
    BY <1>1, <1>2, <1>3, <1>4 DEF Structures

LEMMA StructureIsRead ==
    ASSUME NEW t \in Structures, NEW data \in Seq(Byte), ReadAs(t, data).status = "Ok"
    PROVE  ReadIsProper(t, data, ReadAs(t, data))
  <1>1. CASE t = "location"
    <2> DEFINE res == ReadLocation(data, 0)
    <2>1. ReadAs(t, data) = res
      BY <1>1, StructureCases
    <2>2. ReadIsElement("location", data, 0, res)
      BY <2>1, LocationIsRead
    <2> HIDE DEF res
    <2>3. /\ res.value \in Fitting("location") /\ res.pos <= Len(data)
          /\ res.pos = 0 + Len(PutLocation(res.value))
          /\ HoldsAt(data, 0, PutLocation(res.value)) /\ res = Ok(res.pos, res.value)
      BY <2>2, KindCases DEF ReadIsElement
    <2>4. PutLocation(res.value) \in Seq(Byte)
      BY <2>3, KindCases, PutLocationType
    <2>5. 0 + Len(PutLocation(res.value)) = Len(PutLocation(res.value))
      BY <2>4
    <2>6. ReadIsProper("location", data, res)
      BY <2>3, <2>5, ProperCases, StructureCases DEF ReadIsProper
    <2> QED
      BY <1>1, <2>1, <2>6
  <1>2. CASE t = "locations"
    BY <1>2, LocationsIsRead, StructureCases
  <1>3. CASE t = "path"
    BY <1>3, PathIsRead, StructureCases
  <1>4. CASE t = "adjacency"
    BY <1>4, AdjacencyIsRead, StructureCases
  <1> QED
    BY <1>1, <1>2, <1>3, <1>4 DEF Structures

\* Bytes behind what a decoder accepts change nothing.
LEMMA StructureIsReadLonger ==
    ASSUME NEW t \in Structures, NEW data \in Seq(Byte), NEW whole \in Seq(Byte),
           IsPrefixOf(data, whole), ReadAs(t, data).status = "Ok"
    PROVE  ReadAs(t, whole) = ReadAs(t, data)
  <1> DEFINE res == ReadAs(t, data)
  <1>1. Len(data) \in Nat /\ Len(whole) \in Nat /\ Len(data) <= Len(whole)
    BY DEF IsPrefixOf
  <1>2. CASE t # "path"
    <2>1. ReadIsProper(t, data, res)
      BY StructureIsRead
    <2> HIDE DEF res
    <2>2. /\ res.value \in Proper(t) /\ HoldsAt(data, 0, Encode(t, res.value))
          /\ res = Ok(Len(Encode(t, res.value)), res.value)
      BY <1>2, <2>1 DEF ReadIsProper
    <2>3. Len(Encode(t, res.value)) \in Nat
      BY <2>2, ProperIsValue, EncodeType
    <2>4. HoldsAt(whole, 0, Encode(t, res.value))
      BY <1>1, <2>2, <2>3, PrefixHolds
    <2>5. ReadAs(t, whole) = res
      BY <2>2, <2>4, StructureRoundTrip
    <2> QED
      BY <2>5 DEF res
  <1>3. CASE t = "path"
    <2> DEFINE n == U16At(data, 0)
    <2>1. \A d : ReadAs(t, d) = IF Len(d) < 2 THEN Error("TooShort")
                                ELSE ReadList("entry", d, 2, U16At(d, 0))
      BY <1>3, StructureCases, PathForm
    <2>2. Len(data) >= 2 /\ Len(whole) >= 2
      <3>1. ~ (Len(data) < 2)
        BY <2>1, ErrorsAreNotOk
      <3> QED
        BY <1>1, <3>1
    <2>3. U16At(whole, 0) = n
      <3>1. 0 + 1 \in 1 .. Len(data) /\ 0 + 2 \in 1 .. Len(data)
        BY <2>2
      <3>2. data[0 + 1] = whole[0 + 1] /\ data[0 + 2] = whole[0 + 2]
        BY <3>1, Zenon DEF IsPrefixOf
      <3> QED
        BY <3>2 DEF U16At
    <2>4. n \in Nat /\ 2 \in 0 .. Len(data) /\ "entry" \in Kinds
      <3>1. n \in 0 .. U16Limit - 1
        BY <2>2, U16Canonical
      <3> HIDE DEF n
      <3> QED
        BY <2>2, <3>1, LimitsAreNat DEF Kinds
    <2>5. ~ (Len(data) < 2) /\ ~ (Len(whole) < 2)
      BY <1>1, <2>2
    <2> HIDE DEF n
    <2>6. ReadAs(t, data) = ReadList("entry", data, 2, n)
          /\ ReadAs(t, whole) = ReadList("entry", whole, 2, n)
      BY <2>1, <2>3, <2>5 DEF n
    <2>7. ReadList("entry", data, 2, n).status = "Ok"
      BY <2>6
    <2>8. ReadList("entry", whole, 2, n) = ReadList("entry", data, 2, n)
      BY <2>4, <2>7, ListIsReadLonger
    <2> QED
      BY <2>6, <2>8
  <1> QED
    BY <1>2, <1>3

-----------------------------------------------------------------------------
(* Varints.                                                                *)

LEMMA DivMod ==
    ASSUME NEW n \in Nat, NEW w \in Nat \ {0}
    PROVE  /\ n % w \in 0 .. w - 1 /\ n \div w \in Nat
           /\ n = (n % w) + w * (n \div w)
  OBVIOUS

LEMMA TimesMore ==
    ASSUME NEW a \in Nat, NEW b \in Nat, a <= b, NEW w \in Nat
    PROVE  w * a <= w * b /\ w * a \in Nat /\ w * b \in Nat
  <1> DEFINE c == b - a
  <1>1. c \in Nat /\ b = a + c
    OBVIOUS
  <1> HIDE DEF c
  <1>2. w * b = w * a + w * c /\ w * a \in Nat /\ w * c \in Nat
    BY <1>1
  <1> DEFINE x == w * a
             y == w * c
  <1>3. w * b = x + y /\ x \in Nat /\ y \in Nat
    BY <1>2
  <1> HIDE DEF x, y
  <1>4. x <= x + y /\ x + y \in Nat
    BY <1>3
  <1> QED
    BY <1>2, <1>3, <1>4 DEF x

\* A number has one last digit.
LEMMA DigitsUnique ==
    ASSUME NEW w \in Nat \ {0}, NEW a \in 0 .. w - 1, NEW b \in 0 .. w - 1,
           NEW p \in Nat, NEW q \in Nat, a + w * p = b + w * q
    PROVE  a = b /\ p = q
  <1>1. ASSUME NEW x \in 0 .. w - 1, NEW y \in 0 .. w - 1, NEW i \in Nat, NEW j \in Nat,
               x + w * i = y + w * j, i < j
        PROVE  FALSE
    <2>1. i + 1 <= j /\ i + 1 \in Nat /\ w \in Nat
      BY <1>1
    <2>2. w * (i + 1) <= w * j /\ w * j \in Nat
      BY <2>1, TimesMore
    <2>3. w * (i + 1) = w * i + w /\ w * i \in Nat
      OBVIOUS
    <2> DEFINE u == w * i
               v == w * j
    <2>4. u + w <= v /\ x + u = y + v /\ u \in Nat /\ v \in Nat
      BY <1>1, <2>2, <2>3
    <2> HIDE DEF u, v
    <2> QED
      BY <2>4
  <1>2. ~ (p < q) /\ ~ (q < p)
    BY <1>1
  <1>3. p = q
    BY <1>2
  <1>4. w * p = w * q /\ w * p \in Nat
    BY <1>3
  <1> DEFINE u == w * p
  <1>5. a + u = b + u /\ u \in Nat
    BY <1>4
  <1> HIDE DEF u
  <1>6. a = b
    BY <1>5
  <1> QED
    BY <1>3, <1>6

LEMMA GroupIs ==
    /\ Group \in Nat /\ Group > 1 /\ Group \in Nat \ {0}
    /\ MaxGroups \in Nat /\ MaxGroups >= 1 /\ Limit \in Nat
  BY VarintAssumption

\* What is left of a byte without its continuation bit.
LEMMA ByteDigit ==
    ASSUME NEW b \in VarintByte
    PROVE  /\ b \in Nat /\ b % Group \in 0 .. Group - 1
           /\ b < Group => b % Group = b
           /\ b >= Group => b = Group + (b % Group)
  <1> DEFINE d == b % Group
             q == b \div Group
  <1>1. b \in Nat /\ b < 2 * Group /\ Group \in Nat /\ Group > 1 /\ Group \in Nat \ {0}
    BY GroupIs DEF VarintByte
  <1>2. d \in 0 .. Group - 1 /\ q \in Nat /\ b = d + Group * q
    BY <1>1, DivMod
  <1> HIDE DEF d, q
  <1>3. ASSUME b < Group PROVE d = b
    <2>1. b \in 0 .. Group - 1 /\ b + Group * 0 = d + Group * q /\ 0 \in Nat
      BY <1>1, <1>2, <1>3
    <2> QED
      BY <1>1, <1>2, <2>1, DigitsUnique
  <1>4. ASSUME b >= Group PROVE b = Group + d
    <2> DEFINE c == b - Group
    <2>1. c \in 0 .. Group - 1 /\ c + Group = b /\ Group * 1 = Group /\ 1 \in Nat
      BY <1>1, <1>4
    <2>2. c + Group * 1 = d + Group * q
      BY <1>2, <2>1
    <2> HIDE DEF c
    <2>3. c = d
      BY <1>1, <1>2, <2>1, <2>2, DigitsUnique
    <2> QED
      BY <1>1, <1>2, <2>1, <2>3
  <1> QED
    BY <1>1, <1>2, <1>3, <1>4 DEF d

\* The two recursive functions of the format, by their value at 0 and their step.
First(k) == IF k = "weight" THEN 1 ELSE 0
Step(k, data, x, i) ==
    IF k = "weight" THEN Group * x ELSE x + (data[0 + i] % Group) * Weight[i - 1]
Steps(k, data, n, f) ==
    f = [i \in 0 .. n |-> IF i = 0 THEN First(k) ELSE Step(k, data, f[i - 1], i)]

LEMMA StepsExist ==
    ASSUME NEW k, NEW data, NEW n \in Nat
    PROVE  \E f : Steps(k, data, n, f)
  <1> DEFINE S == {m \in 0 .. n : \E f : Steps(k, data, m, f)}
  <1>1. 0 \in S
    <2> DEFINE f == [i \in 0 .. 0 |-> First(k)]
               g == [i \in 0 .. 0 |-> IF i = 0 THEN First(k) ELSE Step(k, data, f[i - 1], i)]
    <2>1. f = g
      OBVIOUS
    <2> HIDE DEF f
    <2>2. Steps(k, data, 0, f)
      BY <2>1 DEF Steps
    <2> QED
      BY <2>2
  <1>2. ASSUME NEW m \in 0 .. n - 1, m \in S PROVE m + 1 \in S
    <2>1. PICK f : Steps(k, data, m, f)
      BY <1>2
    <2> DEFINE next == Step(k, data, f[m], m + 1)
               g == [i \in 0 .. m + 1 |-> IF i = m + 1 THEN next ELSE f[i]]
               h == [i \in 0 .. m + 1 |-> IF i = 0 THEN First(k) ELSE Step(k, data, g[i - 1], i)]
    <2>2. \A i \in 0 .. m : f[i] = IF i = 0 THEN First(k) ELSE Step(k, data, f[i - 1], i)
      BY <2>1 DEF Steps
    <2> HIDE DEF next
    <2>3. /\ m + 1 \in 0 .. m + 1 /\ m + 1 # 0 /\ m + 1 - 1 = m /\ m \in 0 .. m
          /\ \A i \in 0 .. m : i \in 0 .. m + 1 /\ i # m + 1
          /\ \A i \in 0 .. m : i # 0 => i - 1 \in 0 .. m
      OBVIOUS
    <2>4. g[m + 1] = next /\ \A i \in 0 .. m : g[i] = f[i]
      BY <2>3
    <2>5. g = [i \in 0 .. m + 1 |-> g[i]]
      OBVIOUS
    <2> HIDE DEF g
    <2>6. ASSUME NEW i \in 0 .. m + 1
          PROVE  g[i] = IF i = 0 THEN First(k) ELSE Step(k, data, g[i - 1], i)
      <3>1. CASE i = m + 1
        <4>1. g[i - 1] = f[m]
          BY <2>3, <2>4, <3>1
        <4> QED
          BY <2>3, <2>4, <3>1, <4>1 DEF next
      <3>2. CASE i \in 0 .. m
        <4>1. g[i] = IF i = 0 THEN First(k) ELSE Step(k, data, f[i - 1], i)
          BY <2>2, <2>4, <3>2
        <4>2. i # 0 => g[i - 1] = f[i - 1]
          BY <2>3, <2>4, <3>2
        <4> QED
          BY <4>1, <4>2
      <3> QED
        BY <3>1, <3>2
    <2>7. g = h
      BY <2>5, <2>6
    <2>8. Steps(k, data, m + 1, g)
      BY <2>7 DEF Steps
    <2>9. m + 1 \in 0 .. n
      OBVIOUS
    <2> QED
      BY <2>8, <2>9
  <1> HIDE DEF S
  <1>3. n \in S
    <2>1. n \in 0 .. n
      OBVIOUS
    <2>2. \A m \in 0 .. n : m \in S
      BY <1>1, <1>2, UpTo
    <2> QED
      BY <2>1, <2>2
  <1> QED
    BY <1>3 DEF S

LEMMA WeightIs ==
    /\ Weight[0] = 1
    /\ \A i \in 1 .. MaxGroups : Weight[i] = Group * Weight[i - 1]
    /\ \A i \in 0 .. MaxGroups : Weight[i] \in Nat \ {0}
  <1> DEFINE Is(w) == w = [i \in 0 .. MaxGroups |-> IF i = 0 THEN 1 ELSE Group * w[i - 1]]
             w == CHOOSE f : Is(f)
  <1>1. MaxGroups \in Nat /\ Group \in Nat \ {0}
    BY GroupIs
  <1>2. \E f : Is(f)
    <2>1. PICK f : Steps("weight", <<>>, MaxGroups, f)
      BY <1>1, StepsExist
    <2>2. Is(f)
      BY <2>1 DEF Steps, First, Step
    <2> QED
      BY <2>2
  <1>3. Is(w)
    BY <1>2
  <1>4. Weight = w
    BY DEF Weight
  <1> HIDE DEF w
  <1>5. /\ Weight[0] = 1
        /\ \A i \in 1 .. MaxGroups : Weight[i] = Group * Weight[i - 1]
    <2>1. 0 \in 0 .. MaxGroups /\ \A i \in 1 .. MaxGroups : i \in 0 .. MaxGroups /\ i # 0
      BY <1>1
    <2> QED
      BY <1>3, <1>4, <2>1
  <1> DEFINE S == {i \in 0 .. MaxGroups : Weight[i] \in Nat \ {0}}
  <1>6. 0 \in S
    BY <1>1, <1>5
  <1>7. ASSUME NEW m \in 0 .. MaxGroups - 1, m \in S PROVE m + 1 \in S
    <2>1. m + 1 \in 1 .. MaxGroups /\ m + 1 \in 0 .. MaxGroups /\ m + 1 - 1 = m
      BY <1>1
    <2>2. Weight[m + 1] = Group * Weight[m] /\ Weight[m] \in Nat \ {0}
      BY <1>5, <1>7, <2>1
    <2> DEFINE x == Weight[m]
    <2>3. x \in Nat \ {0}
      BY <2>2
    <2> HIDE DEF x
    <2>4. Group * x \in Nat \ {0}
      BY <1>1, <2>3
    <2> QED
      BY <2>1, <2>2, <2>4 DEF x
  <1> HIDE DEF S
  <1>8. \A i \in 0 .. MaxGroups : i \in S
    BY <1>1, <1>6, <1>7, UpTo
  <1> QED
    BY <1>5, <1>8 DEF S

\* The bytes are the digits of n, the lowest first; rem is what each leaves.
Represents(s, n, rem) ==
    /\ s \in Seq(VarintByte) /\ rem \in [0 .. Len(s) -> Nat]
    /\ rem[0] = n /\ rem[Len(s)] = 0
    /\ \A i \in 1 .. Len(s) : rem[i - 1] = (s[i] % Group) + Group * rem[i]

\* All bytes but the last continue.
Terminated(s) ==
    /\ Len(s) \in Nat /\ Len(s) >= 1 /\ s[Len(s)] < Group
    /\ \A i \in 1 .. Len(s) : i < Len(s) => s[i] >= Group

\* What encode_varint writes.
IsVarintOf(s, n) ==
    /\ \E rem : Represents(s, n, rem)
    /\ Terminated(s) /\ (Len(s) > 1 => s[Len(s)] # 0) /\ (n > 0 => s[Len(s)] # 0)
    /\ \A k \in 1 .. MaxGroups : n < Weight[k] => Len(s) <= k

LEMMA EncodedDigit ==
    ASSUME NEW m \in Nat, m < Group
    PROVE  IsVarintOf(<<m>>, m)
  <1> DEFINE s == <<m>>
             rem == [i \in 0 .. 1 |-> IF i = 0 THEN m ELSE 0]
  <1>1. Group \in Nat /\ Group > 1 /\ MaxGroups \in Nat /\ m \in VarintByte
    BY GroupIs DEF VarintByte
  <1>2. s \in Seq(VarintByte) /\ Len(s) = 1 /\ s[1] = m
    BY <1>1
  <1>3. rem \in [0 .. 1 -> Nat] /\ rem[0] = m /\ rem[1] = 0
    OBVIOUS
  <1> HIDE DEF s, rem
  <1>4. ASSUME NEW i \in 1 .. 1 PROVE rem[i - 1] = (s[i] % Group) + Group * rem[i]
    <2>1. i = 1 /\ i - 1 = 0
      OBVIOUS
    <2>2. m % Group = m
      BY <1>1, ByteDigit
    <2>3. m = m + Group * 0
      BY <1>1
    <2> QED
      BY <1>2, <1>3, <2>1, <2>2, <2>3
  <1>5. Represents(s, m, rem)
    BY <1>2, <1>3, <1>4 DEF Represents
  <1>6. Terminated(s)
    <2>1. \A i \in 1 .. 1 : ~ (i < 1)
      OBVIOUS
    <2> QED
      BY <1>2, <2>1 DEF Terminated
  <1>7. \A k \in 1 .. MaxGroups : m < Weight[k] => Len(s) <= k
    <2>1. \A k \in 1 .. MaxGroups : 1 <= k
      OBVIOUS
    <2> QED
      BY <1>2, <2>1
  <1>8. IsVarintOf(s, m)
    BY <1>2, <1>5, <1>6, <1>7 DEF IsVarintOf
  <1> QED
    BY <1>8 DEF s

\* A byte in front of longer bytes.
LEMMA InFront ==
    ASSUME NEW S, NEW b \in S, NEW t \in Seq(S)
    PROVE  /\ <<b>> \o t \in Seq(S) /\ Len(<<b>> \o t) = Len(t) + 1
           /\ (<<b>> \o t)[1] = b
           /\ \A i \in 2 .. Len(t) + 1 : (<<b>> \o t)[i] = t[i - 1]
  <1> DEFINE one == <<b>>
             s == one \o t
  <1>1. one \in Seq(S) /\ Len(one) = 1 /\ one[1] = b /\ Len(t) \in Nat
    OBVIOUS
  <1> HIDE DEF one
  <1>2. /\ s \in Seq(S) /\ Len(s) = Len(one) + Len(t)
        /\ \A m \in 1 .. Len(one) + Len(t) :
               s[m] = IF m <= Len(one) THEN one[m] ELSE t[m - Len(one)]
    BY <1>1, ConcatProperties
  <1> HIDE DEF s
  <1>3. /\ 1 \in 1 .. Len(one) + Len(t) /\ 1 <= Len(one)
        /\ \A m \in 2 .. Len(t) + 1 : m \in 1 .. Len(one) + Len(t) /\ ~ (m <= Len(one))
    BY <1>1
  <1>4. s[1] = b /\ \A m \in 2 .. Len(t) + 1 : s[m] = t[m - 1]
    BY <1>1, <1>2, <1>3
  <1>5. Len(s) = Len(t) + 1
    BY <1>1, <1>2
  <1> QED
    BY <1>2, <1>4, <1>5 DEF s, one

LEMMA EncodedLonger ==
    ASSUME NEW m \in Nat, m >= Group, NEW t, IsVarintOf(t, m \div Group)
    PROVE  IsVarintOf(<<Group + (m % Group)>> \o t, m)
  <1> DEFINE d == m % Group
             q == m \div Group
             b == Group + d
             s == <<b>> \o t
             l == Len(t)
  <1>1. Group \in Nat /\ Group > 1 /\ MaxGroups \in Nat /\ Group \in Nat \ {0}
    BY GroupIs
  <1>2. d \in 0 .. Group - 1 /\ q \in Nat /\ m = d + Group * q
    BY <1>1, DivMod
  <1>3. PICK after : Represents(t, q, after)
    BY DEF IsVarintOf
  <1>4. /\ Terminated(t) /\ (q > 0 => t[l] # 0)
        /\ \A k \in 1 .. MaxGroups : q < Weight[k] => l <= k
    BY DEF IsVarintOf
  <1> HIDE DEF d, q
  <1>5. q > 0
    <2>1. q # 0
      <3>1. SUFFICES ASSUME q = 0 PROVE FALSE
        OBVIOUS
      <3>2. Group * q = 0
        BY <1>1, <3>1
      <3> QED
        BY <1>1, <1>2, <3>2
    <2> QED
      BY <1>2, <2>1
  <1>6. /\ t \in Seq(VarintByte) /\ after \in [0 .. l -> Nat] /\ after[0] = q /\ after[l] = 0
        /\ \A i \in 1 .. l : after[i - 1] = (t[i] % Group) + Group * after[i]
    BY <1>3 DEF Represents
  <1>7. l \in Nat /\ l >= 1 /\ t[l] < Group /\ \A i \in 1 .. l : i < l => t[i] >= Group
    BY <1>4 DEF Terminated
  <1>8. b \in VarintByte /\ b >= Group /\ b % Group = d
    <2>1. b \in VarintByte /\ b >= Group /\ b \in Nat
      BY <1>1, <1>2 DEF VarintByte
    <2> DEFINE e == b % Group
    <2>2. e \in 0 .. Group - 1 /\ b = Group + e
      BY <2>1, ByteDigit
    <2> HIDE DEF e
    <2>3. e = d
      BY <1>1, <1>2, <2>2
    <2> QED
      BY <2>1, <2>3 DEF e
  <1> HIDE DEF l
  <1>9. /\ s \in Seq(VarintByte) /\ Len(s) = l + 1 /\ s[1] = b
        /\ \A i \in 2 .. l + 1 : s[i] = t[i - 1]
    <2> HIDE DEF b
    <2> QED
      BY <1>6, <1>8, InFront DEF l
  <1> HIDE DEF s, b
  <1> DEFINE rem == [i \in 0 .. l + 1 |-> IF i = 0 THEN m ELSE after[i - 1]]
  <1>10. /\ rem \in [0 .. l + 1 -> Nat] /\ rem[0] = m
         /\ \A i \in 1 .. l + 1 : rem[i] = after[i - 1]
    <2>1. \A i \in 1 .. l + 1 : i - 1 \in 0 .. l /\ i \in 0 .. l + 1 /\ i # 0
      BY <1>7
    <2>2. \A i \in 1 .. l + 1 : after[i - 1] \in Nat
      <3>1. after \in [0 .. l -> Nat]
        BY <1>6
      <3> QED
        BY <2>1, <3>1
    <2>3. 0 \in 0 .. l + 1 /\ \A i \in 0 .. l + 1 : i # 0 => i \in 1 .. l + 1
      BY <1>7
    <2> QED
      BY <2>1, <2>2, <2>3
  <1> HIDE DEF rem
  <1>11. ASSUME NEW i \in 1 .. l + 1 PROVE rem[i - 1] = (s[i] % Group) + Group * rem[i]
    <2>1. CASE i = 1
      <3>1. i - 1 = 0 /\ 1 \in 1 .. l + 1 /\ 1 - 1 = 0
        <4>1. l + 1 \in Nat /\ 1 <= l + 1
          BY <1>7
        <4> HIDE DEF l
        <4> QED
          BY <2>1, <4>1
      <3>2. rem[i] = q
        BY <1>6, <1>10, <2>1, <3>1
      <3> QED
        BY <1>2, <1>8, <1>9, <1>10, <2>1, <3>1, <3>2
    <2>2. CASE i # 1
      <3> DEFINE j == i - 1
      <3>1. j \in 1 .. l /\ j \in 1 .. l + 1 /\ i \in 2 .. l + 1 /\ i \in 1 .. l + 1
        BY <1>7, <2>2
      <3>2. rem[j] = after[j - 1] /\ rem[i] = after[j] /\ s[i] = t[j]
        BY <1>9, <1>10, <3>1
      <3>3. after[j - 1] = (t[j] % Group) + Group * after[j]
        BY <1>6, <3>1
      <3> QED
        BY <3>2, <3>3
    <2> QED
      BY <2>1, <2>2
  <1>12. rem[l + 1] = 0
    <2> DEFINE j == l + 1
    <2>1. j \in 1 .. l + 1 /\ j - 1 = l
      BY <1>7
    <2> HIDE DEF j
    <2>2. rem[j] = after[j - 1]
      BY <1>10, <2>1
    <2>3. after[l] = 0
      BY <1>6
    <2> QED
      BY <2>1, <2>2, <2>3, Zenon DEF j
  <1>13. Represents(s, m, rem)
    BY <1>9, <1>10, <1>11, <1>12 DEF Represents
  <1>14. s[l + 1] = t[l]
    <2> DEFINE j == l + 1
    <2>1. j \in 2 .. l + 1 /\ j - 1 = l
      BY <1>7
    <2> HIDE DEF j
    <2>2. s[j] = t[j - 1]
      BY <1>9, <2>1
    <2> QED
      BY <2>1, <2>2, Zenon DEF j
  <1>15. Terminated(s)
    <2>1. ASSUME NEW i \in 1 .. l + 1, i < l + 1 PROVE s[i] >= Group
      <3>1. CASE i = 1
        BY <1>8, <1>9, <3>1
      <3>2. CASE i # 1
        <4> DEFINE j == i - 1
        <4>1. j \in 1 .. l /\ j < l /\ i \in 2 .. l + 1
          BY <1>7, <2>1, <3>2
        <4>2. s[i] = t[j] /\ t[j] >= Group
          BY <1>7, <1>9, <4>1
        <4> QED
          BY <4>2
      <3> QED
        BY <3>1, <3>2
    <2>2. l + 1 \in Nat /\ l + 1 >= 1
      BY <1>7
    <2> QED
      BY <1>7, <1>9, <1>14, <2>1, <2>2 DEF Terminated
  <1>16. ASSUME NEW k \in 1 .. MaxGroups, m < Weight[k] PROVE l + 1 <= k
    <2>1. k # 1
      <3>1. SUFFICES ASSUME k = 1 PROVE FALSE
        OBVIOUS
      <3>2. 1 \in 1 .. MaxGroups /\ 1 - 1 = 0
        BY <3>1
      <3>3. Weight[1] = Group * 1
        BY <3>2, WeightIs
      <3>4. Weight[1] = Group
        BY <1>1, <3>3
      <3> QED
        BY <1>1, <1>16, <3>1, <3>4
    <2> DEFINE j == k - 1
    <2>2. j \in 1 .. MaxGroups /\ j \in 0 .. MaxGroups /\ k = j + 1
      BY <1>1, <2>1
    <2> DEFINE w == Weight[j]
    <2>3. w \in Nat /\ Weight[k] = Group * w
      BY <2>2, WeightIs
    <2> HIDE DEF w
    <2>4. q < w
      <3>1. SUFFICES ASSUME w <= q PROVE FALSE
        BY <1>2, <2>3
      <3>2. Group * w <= Group * q /\ Group * w \in Nat /\ Group * q \in Nat
        BY <1>1, <1>2, <2>3, <3>1, TimesMore
      <3> DEFINE x == Group * w
                 y == Group * q
      <3>3. x <= y /\ x \in Nat /\ y \in Nat /\ m = d + y /\ m < x
        BY <1>2, <1>16, <2>3, <3>2
      <3> HIDE DEF x, y
      <3> QED
        BY <1>2, <3>3
    <2>5. l <= j
      BY <1>4, <2>2, <2>4 DEF w
    <2> QED
      BY <1>7, <2>2, <2>5
  <1>17. s[Len(s)] # 0
    BY <1>4, <1>5, <1>9, <1>14
  <1>18. IsVarintOf(s, m)
    BY <1>9, <1>13, <1>15, <1>16, <1>17 DEF IsVarintOf
  <1> QED
    BY <1>18 DEF s, b, d

\* What encode_varint writes for m, when f is what it writes for smaller numbers.
PutStep(f, m) == IF m < Group THEN <<m>> ELSE <<Group + (m % Group)>> \o f[m \div Group]
Puts(n, f) == f = [m \in 0 .. n |-> PutStep(f, m)]

LEMMA GroupsShrink ==
    ASSUME NEW m \in Nat, m >= Group
    PROVE  m \div Group \in 0 .. m - 1
  <1> DEFINE d == m % Group
             q == m \div Group
  <1>1. Group \in Nat /\ Group > 1 /\ Group \in Nat \ {0} /\ 2 <= Group /\ 2 \in Nat
    BY GroupIs
  <1>2. d \in 0 .. Group - 1 /\ q \in Nat /\ m = d + Group * q
    BY <1>1, DivMod
  <1> HIDE DEF d, q
  <1>3. q * 2 <= q * Group /\ q * Group \in Nat
    BY <1>1, <1>2, TimesMore
  <1> DEFINE x == Group * q
  <1>4. q + q <= x /\ x \in Nat /\ m = d + x
    BY <1>1, <1>2, <1>3
  <1> HIDE DEF x
  <1>5. q < m
    BY <1>1, <1>2, <1>4
  <1>6. q \in 0 .. m - 1
    BY <1>2, <1>5
  <1> QED
    BY <1>6 DEF q

LEMMA PutsExist ==
    ASSUME NEW n \in Nat
    PROVE  \E f : Puts(n, f)
  <1> DEFINE S == {m \in 0 .. n : \E f : Puts(m, f)}
  <1>1. 0 \in S
    <2> DEFINE f == [m \in 0 .. 0 |-> <<m>>]
               g == [m \in 0 .. 0 |-> PutStep(f, m)]
    <2>1. \A m \in 0 .. 0 : PutStep(f, m) = <<m>>
      BY GroupIs DEF PutStep
    <2>2. f = g
      BY <2>1
    <2> HIDE DEF f
    <2>3. Puts(0, f)
      BY <2>2 DEF Puts
    <2> QED
      BY <2>3
  <1>2. ASSUME NEW m \in 0 .. n - 1, m \in S PROVE m + 1 \in S
    <2>1. PICK f : Puts(m, f)
      BY <1>2
    <2> DEFINE next == PutStep(f, m + 1)
               g == [i \in 0 .. m + 1 |-> IF i = m + 1 THEN next ELSE f[i]]
               h == [i \in 0 .. m + 1 |-> PutStep(g, i)]
    <2>2. \A i \in 0 .. m : f[i] = PutStep(f, i)
      BY <2>1 DEF Puts
    <2> HIDE DEF next
    <2>3. /\ m + 1 \in 0 .. m + 1 /\ m \in Nat
          /\ \A i \in 0 .. m : i \in 0 .. m + 1 /\ i # m + 1
      OBVIOUS
    <2>4. g[m + 1] = next /\ \A i \in 0 .. m : g[i] = f[i]
      BY <2>3
    <2>5. g = [i \in 0 .. m + 1 |-> g[i]]
      OBVIOUS
    <2> HIDE DEF g
    <2>6. ASSUME NEW i \in 0 .. m + 1 PROVE PutStep(g, i) = PutStep(f, i)
      <3>1. CASE i < Group
        BY <3>1 DEF PutStep
      <3>2. CASE ~ (i < Group)
        <4>1. i \in Nat /\ i >= Group
          BY <2>3, <3>2, GroupIs
        <4>2. i \div Group \in 0 .. i - 1
          BY <4>1, GroupsShrink
        <4>3. i \div Group \in 0 .. m
          <5> DEFINE q == i \div Group
          <5>1. q \in 0 .. i - 1
            BY <4>2
          <5> HIDE DEF q
          <5>2. q \in 0 .. m
            BY <2>3, <5>1
          <5> QED
            BY <5>2 DEF q
        <4>4. g[i \div Group] = f[i \div Group]
          BY <2>4, <4>3
        <4> QED
          BY <4>4 DEF PutStep
      <3> QED
        BY <3>1, <3>2
    <2>7. ASSUME NEW i \in 0 .. m + 1 PROVE g[i] = PutStep(g, i)
      <3>1. CASE i = m + 1
        BY <2>4, <2>6, <3>1 DEF next
      <3>2. CASE i \in 0 .. m
        BY <2>2, <2>4, <2>6, <3>2
      <3> QED
        BY <3>1, <3>2
    <2>8. g = h
      BY <2>5, <2>7
    <2>9. Puts(m + 1, g)
      BY <2>8 DEF Puts
    <2>10. m + 1 \in 0 .. n
      OBVIOUS
    <2> QED
      BY <2>9, <2>10
  <1> HIDE DEF S
  <1>3. n \in S
    <2>1. n \in 0 .. n
      OBVIOUS
    <2>2. \A m \in 0 .. n : m \in S
      BY <1>1, <1>2, UpTo
    <2> QED
      BY <2>1, <2>2
  <1> QED
    BY <1>3 DEF S

\* encode_varint writes the digits of a number, and none too many.
LEMMA PutIsEncoded ==
    ASSUME NEW n \in Nat
    PROVE  IsVarintOf(PutVarint(n), n)
  <1> DEFINE f == CHOOSE g : Puts(n, g)
  <1>1. Puts(n, f)
    BY PutsExist
  <1>2. PutVarint(n) = f[n]
    BY DEF PutVarint, Puts, PutStep
  <1> HIDE DEF f
  <1>3. \A m \in 0 .. n : f[m] = PutStep(f, m)
    BY <1>1 DEF Puts
  <1> DEFINE S == {k \in 0 .. n : \A m \in 0 .. k : IsVarintOf(f[m], m)}
  <1>4. ASSUME NEW k \in 0 .. n, \A m \in 0 .. k - 1 : IsVarintOf(f[m], m)
        PROVE  IsVarintOf(f[k], k)
    <2>1. k \in Nat
      OBVIOUS
    <2>2. CASE k < Group
      <3>1. f[k] = <<k>>
        BY <1>3, <2>2 DEF PutStep
      <3> QED
        BY <2>1, <2>2, <3>1, EncodedDigit
    <2>3. CASE ~ (k < Group)
      <3>1. f[k] = <<Group + (k % Group)>> \o f[k \div Group]
        BY <1>3, <2>3 DEF PutStep
      <3>2. k >= Group
        BY <2>1, <2>3, GroupIs
      <3>3. k \div Group \in 0 .. k - 1
        BY <2>1, <3>2, GroupsShrink
      <3>4. IsVarintOf(f[k \div Group], k \div Group)
        BY <1>4, <3>3
      <3>5. IsVarintOf(<<Group + (k % Group)>> \o f[k \div Group], k)
        BY <2>1, <3>2, <3>4, EncodedLonger
      <3> QED
        BY <3>1, <3>5
    <2> QED
      BY <2>2, <2>3
  <1>5. 0 \in S
    <2>1. 0 \in 0 .. n /\ \A m \in 0 .. 0 - 1 : FALSE
      OBVIOUS
    <2>2. IsVarintOf(f[0], 0)
      BY <1>4, <2>1
    <2>3. \A m \in 0 .. 0 : m = 0
      OBVIOUS
    <2> QED
      BY <2>1, <2>2, <2>3
  <1>6. ASSUME NEW m \in 0 .. n - 1, m \in S PROVE m + 1 \in S
    <2>1. m + 1 \in 0 .. n /\ m + 1 - 1 = m
      OBVIOUS
    <2>2. \A i \in 0 .. m : IsVarintOf(f[i], i)
      BY <1>6
    <2> HIDE DEF S
    <2>3. IsVarintOf(f[m + 1], m + 1)
      BY <1>4, <2>1, <2>2
    <2>4. \A i \in 0 .. m + 1 : i \in 0 .. m \/ i = m + 1
      OBVIOUS
    <2> QED
      BY <2>1, <2>2, <2>3, <2>4 DEF S
  <1> HIDE DEF S
  <1>7. n \in S /\ n \in 0 .. n
    <2>1. n \in 0 .. n
      OBVIOUS
    <2>2. \A m \in 0 .. n : m \in S
      BY <1>5, <1>6, UpTo
    <2> QED
      BY <2>1, <2>2
  <1> QED
    BY <1>2, <1>7 DEF S

LEMMA LeastExists ==
    ASSUME NEW n \in Nat, NEW E \in SUBSET (1 .. n), E # {}
    PROVE  \E i \in E : \A j \in E : i <= j
  <1>1. SUFFICES ASSUME \A i \in E : \E j \in E : ~ (i <= j) PROVE FALSE
    OBVIOUS
  <1> DEFINE S == {m \in 0 .. n : \A j \in E : j > m}
  <1>2. 0 \in S
    OBVIOUS
  <1>3. ASSUME NEW m \in 0 .. n - 1, m \in S PROVE m + 1 \in S
    <2>1. \A j \in E : j >= m + 1 /\ j \in Nat
      BY <1>3
    <2>2. m + 1 \notin E
      <3>1. \A j \in E : m + 1 <= j
        BY <2>1
      <3> QED
        BY <1>1, <3>1
    <2>3. \A j \in E : j > m + 1
      BY <2>1, <2>2
    <2> QED
      BY <2>3
  <1> HIDE DEF S
  <1>4. n \in S
    <2>1. n \in 0 .. n
      OBVIOUS
    <2>2. \A m \in 0 .. n : m \in S
      BY <1>2, <1>3, UpTo
    <2> QED
      BY <2>1, <2>2
  <1>5. PICK j \in E : TRUE
    OBVIOUS
  <1>6. j > n /\ j \in 1 .. n
    BY <1>4 DEF S
  <1> QED
    BY <1>6

\* The first len bytes of data are those of a varint.
IsVarint(data, len) ==
    /\ len \in 1 .. Len(data) /\ len <= MaxGroups /\ data[len] < Group
    /\ \A i \in 1 .. Len(data) : i < len => data[i] >= Group

\* What decode_varint adds up.
Numbered(data, len, res) ==
    \E number : /\ Steps("number", data, MaxGroups, number)
                /\ res = Ok(len, number[len] % Limit)

VarintEnds(data) == {i \in 1 .. Len(data) : ~ (data[i] >= Group)}

LEMMA ReadVarintForm ==
    ASSUME NEW data \in Seq(VarintByte)
    PROVE  LET ends == VarintEnds(data)
               len  == CHOOSE i \in ends : \A j \in ends : i <= j
           IN  /\ ends # {} /\ len <= MaxGroups => Numbered(data, len, ReadVarint(data, 0))
               /\ ~ (ends # {} /\ len <= MaxGroups) => ReadVarint(data, 0).status # "Ok"
  <1> DEFINE ends == VarintEnds(data)
             len == CHOOSE i \in ends : \A j \in ends : i <= j
             given == Len(data) - 0
             ends0 == {i \in 1 .. given : ~ Continues(data[0 + i])}
             len0 == CHOOSE i \in ends0 : \A j \in ends0 : i <= j
             number == CHOOSE f : f = [i \in 0 .. MaxGroups |->
                           IF i = 0 THEN 0
                           ELSE f[i - 1] + (data[0 + i] % Group) * Weight[i - 1]]
  <1>1. ReadVarint(data, 0) =
            IF ends0 # {} /\ len0 <= MaxGroups
            THEN [status |-> "Ok", pos |-> 0 + len0, value |-> number[len0] % Limit]
            ELSE [status |-> IF given > MaxGroups THEN "InvalidVarint" ELSE "UnexpectedEof",
                  pos |-> 0, value |-> <<>>]
    BY DEF ReadVarint
  <1>2. ends0 = ends
    <2>1. given = Len(data) /\ \A i \in 1 .. given : 0 + i = i
      OBVIOUS
    <2> HIDE DEF given
    <2> QED
      BY <2>1 DEF VarintEnds, Continues
  <1>3. len0 = len
    BY <1>2
  <1>4. Steps("number", data, MaxGroups, number)
    <2>1. \A f : Steps("number", data, MaxGroups, f)
                 <=> f = [i \in 0 .. MaxGroups |->
                              IF i = 0 THEN 0
                              ELSE f[i - 1] + (data[0 + i] % Group) * Weight[i - 1]]
      BY DEF Steps, First, Step
    <2>2. \E f : Steps("number", data, MaxGroups, f)
      BY GroupIs, StepsExist
    <2> QED
      BY <2>1, <2>2
  <1> HIDE DEF ends0, len0, number, given
  <1>5. ASSUME ends # {}, len <= MaxGroups PROVE Numbered(data, len, ReadVarint(data, 0))
    <2>1. len \in 1 .. Len(data)
      <3>1. ends \in SUBSET (1 .. Len(data)) /\ Len(data) \in Nat
        BY DEF VarintEnds
      <3> HIDE DEF ends
      <3>2. \E i \in ends : \A j \in ends : i <= j
        BY <1>5, <3>1, LeastExists
      <3> QED
        BY <3>1, <3>2
    <2> HIDE DEF len, ends
    <2>2. 0 + len = len
      BY <2>1
    <2>3. ReadVarint(data, 0) = Ok(len, number[len] % Limit)
      BY <1>1, <1>2, <1>3, <1>5, <2>2 DEF Ok
    <2> QED
      BY <1>4, <2>3 DEF Numbered
  <1>6. ASSUME ~ (ends # {} /\ len <= MaxGroups) PROVE ReadVarint(data, 0).status # "Ok"
    <2> HIDE DEF len, ends
    <2> QED
      BY <1>1, <1>2, <1>3, <1>6
  <1> QED
    BY <1>5, <1>6

LEMMA VarintDecoded ==
    ASSUME NEW data \in Seq(VarintByte), NEW len, IsVarint(data, len)
    PROVE  Numbered(data, len, ReadVarint(data, 0))
  <1> DEFINE ends == VarintEnds(data)
             first == CHOOSE i \in ends : \A j \in ends : i <= j
  <1>1. /\ len \in 1 .. Len(data) /\ len <= MaxGroups /\ data[len] < Group
        /\ \A i \in 1 .. Len(data) : i < len => data[i] >= Group
    BY DEF IsVarint
  <1>2. \A i \in 1 .. Len(data) : data[i] \in Nat
    BY GroupIs DEF VarintByte
  <1>3. len \in ends
    <2>1. ~ (data[len] >= Group)
      BY <1>1, <1>2, GroupIs
    <2> QED
      BY <1>1, <2>1 DEF VarintEnds
  <1>4. \A j \in ends : j \in 1 .. Len(data) /\ ~ (j < len)
    BY <1>1 DEF VarintEnds
  <1> HIDE DEF ends
  <1>5. \A j \in ends : len <= j
    BY <1>1, <1>4
  <1>6. first \in ends /\ \A j \in ends : first <= j
    BY <1>3, <1>5
  <1>7. first \in 1 .. Len(data) /\ first <= len /\ len <= first
    BY <1>3, <1>4, <1>5, <1>6
  <1> HIDE DEF first
  <1>8. first = len
    BY <1>1, <1>7
  <1>9. ends # {} /\ first <= MaxGroups
    BY <1>1, <1>3, <1>8
  <1> QED
    BY <1>8, <1>9, ReadVarintForm DEF first, ends

LEMMA VarintIsRead ==
    ASSUME NEW data \in Seq(VarintByte), ReadVarint(data, 0).status = "Ok"
    PROVE  \E len : IsVarint(data, len) /\ Numbered(data, len, ReadVarint(data, 0))
  <1> DEFINE ends == VarintEnds(data)
             first == CHOOSE i \in ends : \A j \in ends : i <= j
  <1>1. ends # {} /\ first <= MaxGroups /\ Numbered(data, first, ReadVarint(data, 0))
    BY ReadVarintForm
  <1>2. ends \in SUBSET (1 .. Len(data)) /\ Len(data) \in Nat
        /\ \A i \in 1 .. Len(data) : i \in ends <=> ~ (data[i] >= Group)
    BY DEF VarintEnds
  <1> HIDE DEF ends
  <1>3. \E i \in ends : \A j \in ends : i <= j
    BY <1>1, <1>2, LeastExists
  <1>4. first \in ends /\ \A j \in ends : first <= j
    BY <1>3
  <1> HIDE DEF first
  <1>5. first \in 1 .. Len(data) /\ data[first] \in Nat /\ ~ (data[first] >= Group)
    BY <1>2, <1>4, GroupIs DEF VarintByte
  <1>6. data[first] < Group
    BY <1>5, GroupIs
  <1>7. ASSUME NEW i \in 1 .. Len(data), i < first PROVE data[i] >= Group
    <2>1. ~ (first <= i)
      BY <1>2, <1>5, <1>7
    <2>2. i \notin ends
      BY <1>4, <2>1
    <2> QED
      BY <1>2, <2>2
  <1>8. IsVarint(data, first)
    BY <1>1, <1>5, <1>6, <1>7 DEF IsVarint
  <1> QED
    BY <1>1, <1>8

\* Bytes that all continue are no varint.
LEMMA UnendedVarint ==
    ASSUME NEW data \in Seq(VarintByte), \A i \in 1 .. Len(data) : data[i] >= Group
    PROVE  ReadVarint(data, 0).status # "Ok"
  <1>1. VarintEnds(data) = {}
    BY DEF VarintEnds
  <1> QED
    BY <1>1, ReadVarintForm

\* What the first len bytes leave of the number they are the digits of.
Rems(data, len, rem) ==
    /\ rem \in [0 .. len -> Nat] /\ rem[len] = 0
    /\ \A i \in 1 .. len : rem[i - 1] = (data[i] % Group) + Group * rem[i]

LEMMA RemsExist ==
    ASSUME NEW data \in Seq(VarintByte), NEW len \in 0 .. Len(data)
    PROVE  \E rem : Rems(data, len, rem)
  <1> DEFINE IsRem(k, rem) ==
                 /\ rem \in [len - k .. len -> Nat] /\ rem[len] = 0
                 /\ \A i \in len - k + 1 .. len : rem[i - 1] = (data[i] % Group) + Group * rem[i]
             S == {k \in 0 .. len : \E rem : IsRem(k, rem)}
  <1>1. len \in Nat /\ Group \in Nat
        /\ \A i \in 1 .. len : data[i] % Group \in Nat
    <2>1. \A i \in 1 .. len : data[i] \in VarintByte
      OBVIOUS
    <2>2. \A i \in 1 .. len : data[i] % Group \in 0 .. Group - 1
      BY <2>1, ByteDigit
    <2> QED
      BY <2>2, GroupIs
  <1>2. 0 \in S
    <2> DEFINE rem == [i \in len .. len |-> 0]
    <2>1. len - 0 = len /\ (\A i \in len - 0 + 1 .. len : FALSE) /\ 0 \in 0 .. len
      BY <1>1
    <2>2. rem \in [len .. len -> Nat] /\ rem[len] = 0
      BY <1>1
    <2> HIDE DEF rem
    <2>3. IsRem(0, rem)
      BY <2>1, <2>2
    <2> QED
      BY <2>1, <2>3
  <1>3. ASSUME NEW k \in 0 .. len - 1, k \in S PROVE k + 1 \in S
    <2>1. PICK rem : IsRem(k, rem)
      BY <1>3
    <2> DEFINE j == len - k
               x == (data[j] % Group) + Group * rem[j]
               more == [i \in j - 1 .. len |-> IF i = j - 1 THEN x ELSE rem[i]]
    <2>2. /\ j \in 1 .. len /\ len - (k + 1) = j - 1 /\ k + 1 \in 0 .. len
          /\ j - 1 + 1 = j /\ j \in Nat
      BY <1>1
    <2>3. /\ rem \in [j .. len -> Nat] /\ rem[len] = 0
          /\ \A i \in j + 1 .. len : rem[i - 1] = (data[i] % Group) + Group * rem[i]
      BY <2>1
    <2> HIDE DEF j
    <2>4. x \in Nat
      <3> DEFINE d == data[j] % Group
                 r == rem[j]
      <3>1. r \in Nat /\ d \in Nat
        BY <1>1, <2>2, <2>3
      <3>2. Group \in Nat
        BY <1>1
      <3> HIDE DEF d, r
      <3>3. d + Group * r \in Nat
        BY <3>1, <3>2
      <3> QED
        BY <3>3 DEF d, r
    <2> HIDE DEF x
    <2>5. more \in [j - 1 .. len -> Nat] /\ more[j - 1] = x
          /\ \A i \in j .. len : more[i] = rem[i]
      <3>1. \A i \in j - 1 .. len : i # j - 1 => i \in j .. len
        BY <1>1, <2>2
      <3>2. \A i \in j .. len : i \in j - 1 .. len /\ i # j - 1
        BY <1>1, <2>2
      <3>3. j - 1 \in j - 1 .. len
        BY <1>1, <2>2
      <3>4. \A i \in j .. len : rem[i] \in Nat
        BY <2>3
      <3> QED
        BY <2>4, <3>1, <3>2, <3>3, <3>4
    <2> HIDE DEF more
    <2>6. ASSUME NEW i \in j .. len
          PROVE  more[i - 1] = (data[i] % Group) + Group * more[i]
      <3>1. CASE i = j
        <4>1. more[j] = rem[j]
          BY <2>2, <2>5
        <4> QED
          BY <2>5, <3>1, <4>1 DEF x
      <3>2. CASE i # j
        <4>1. i \in j + 1 .. len /\ i - 1 \in j .. len
          BY <1>1, <2>2, <3>2
        <4>2. more[i - 1] = rem[i - 1] /\ more[i] = rem[i]
          BY <2>5, <4>1
        <4> QED
          BY <2>3, <4>1, <4>2
      <3> QED
        BY <3>1, <3>2
    <2>7. more[len] = 0
      BY <1>1, <2>2, <2>3, <2>5
    <2>8. IsRem(k + 1, more)
      BY <2>2, <2>5, <2>6, <2>7
    <2> HIDE DEF IsRem
    <2> QED
      BY <2>2, <2>8
  <1> HIDE DEF S
  <1>4. len \in S
    <2>1. len \in 0 .. len
      BY <1>1
    <2>2. \A m \in 0 .. len : m \in S
      BY <1>1, <1>2, <1>3, UpTo
    <2> QED
      BY <2>1, <2>2
  <1>5. PICK rem : IsRem(len, rem)
    BY <1>4 DEF S
  <1>6. len - len = 0 /\ len - len + 1 = 1
    BY <1>1
  <1> QED
    BY <1>5, <1>6 DEF Rems

\* One group more: the number so far and what is left give the same.
LEMMA OneGroup ==
    ASSUME NEW x \in Nat, NEW w \in Nat, NEW d \in Nat, NEW g \in Nat, NEW r \in Nat
    PROVE  /\ (x + d * w) + (g * w) * r = x + w * (d + g * r)
           /\ x + d * w \in Nat
  OBVIOUS

LEMMA NumberIs ==
    ASSUME NEW data \in Seq(VarintByte), NEW len \in 0 .. Len(data), len <= MaxGroups,
           NEW rem, Rems(data, len, rem), NEW number, Steps("number", data, MaxGroups, number)
    PROVE  number[len] = rem[0]
  <1> DEFINE S == {i \in 0 .. len : number[i] \in Nat /\ number[i] + Weight[i] * rem[i] = rem[0]}
  <1>1. len \in Nat /\ Group \in Nat /\ MaxGroups \in Nat
        /\ \A i \in 1 .. len : data[i] % Group \in Nat
    <2>1. \A i \in 1 .. len : data[i] \in VarintByte
      OBVIOUS
    <2>2. \A i \in 1 .. len : data[i] % Group \in 0 .. Group - 1
      BY <2>1, ByteDigit
    <2> QED
      BY <2>2, GroupIs
  <1>2. /\ rem \in [0 .. len -> Nat] /\ rem[len] = 0
        /\ \A i \in 1 .. len : rem[i - 1] = (data[i] % Group) + Group * rem[i]
    BY DEF Rems
  <1>3. /\ number[0] = 0
        /\ \A i \in 1 .. len : number[i] = number[i - 1] + (data[i] % Group) * Weight[i - 1]
    <2>1. \A i \in 0 .. MaxGroups :
             number[i] = IF i = 0 THEN 0 ELSE number[i - 1] + (data[0 + i] % Group) * Weight[i - 1]
      BY DEF Steps, First, Step
    <2>2. 0 \in 0 .. MaxGroups /\ \A i \in 1 .. len : i \in 0 .. MaxGroups /\ i # 0 /\ 0 + i = i
      BY <1>1
    <2> QED
      BY <2>1, <2>2
  <1>4. \A i \in 0 .. len : rem[i] \in Nat
    BY <1>2
  <1>5. 0 \in S
    <2>1. rem[0] \in Nat /\ 0 \in 0 .. len
      BY <1>1, <1>4
    <2>2. 0 + 1 * rem[0] = rem[0]
      BY <2>1
    <2> QED
      BY <1>3, <2>1, <2>2, WeightIs
  <1>6. ASSUME NEW m \in 0 .. len - 1, m \in S PROVE m + 1 \in S
    <2> DEFINE i == m + 1
               d == data[i] % Group
               x == number[m]
               w == Weight[m]
               r == rem[i]
    <2>1. i \in 1 .. len /\ i \in 0 .. len /\ i - 1 = m /\ m \in 0 .. len
          /\ i \in 1 .. MaxGroups /\ m \in 0 .. MaxGroups
      BY <1>1
    <2> HIDE DEF i
    <2>2. x \in Nat /\ x + w * rem[m] = rem[0]
      BY <1>6
    <2>3. w \in Nat /\ d \in Nat /\ r \in Nat
      BY <1>1, <1>4, <2>1, WeightIs
    <2>4. number[i] = x + d * w
      BY <1>3, <2>1
    <2>5. rem[m] = d + Group * r
      BY <1>2, <2>1
    <2>6. Weight[i] = Group * w
      BY <2>1, WeightIs
    <2> HIDE DEF S, d, x, w, r
    <2>7. (x + d * w) + (Group * w) * r = x + w * (d + Group * r) /\ x + d * w \in Nat
      <3>1. Group \in Nat /\ x \in Nat /\ d \in Nat /\ w \in Nat /\ r \in Nat
        BY <1>1, <2>2, <2>3
      <3> QED
        BY <3>1, OneGroup
    <2>8. number[i] + Weight[i] * r = rem[0] /\ number[i] \in Nat
      BY <2>2, <2>4, <2>5, <2>6, <2>7
    <2> QED
      BY <2>1, <2>8 DEF S, r, i
  <1> HIDE DEF S
  <1>7. len \in S
    <2>1. len \in 0 .. len
      BY <1>1
    <2>2. \A m \in 0 .. len : m \in S
      BY <1>1, <1>5, <1>6, UpTo
    <2> QED
      BY <2>1, <2>2
  <1>8. number[len] \in Nat /\ number[len] + Weight[len] * 0 = rem[0]
    BY <1>2, <1>7 DEF S
  <1>9. Weight[len] * 0 = 0
    <2>1. len \in 0 .. MaxGroups
      BY <1>1
    <2>2. Weight[len] \in Nat
      BY <2>1, WeightIs
    <2> QED
      BY <2>2
  <1> QED
    BY <1>8, <1>9

LEMMA DigitBelow ==
    ASSUME NEW g \in Nat, NEW d \in 0 .. g - 1, NEW r \in Nat, NEW u \in Nat
    PROVE  d + g * r < g * u <=> r < u
  <1>1. ASSUME r < u PROVE d + g * r < g * u
    <2>1. r + 1 <= u /\ r + 1 \in Nat
      BY <1>1
    <2>2. g * (r + 1) <= g * u /\ g * u \in Nat
      BY <2>1, TimesMore
    <2>3. g * (r + 1) = g * r + g /\ g * r \in Nat
      OBVIOUS
    <2> DEFINE x == g * r
               y == g * u
    <2>4. x + g <= y /\ x \in Nat /\ y \in Nat
      BY <2>2, <2>3
    <2> HIDE DEF x, y
    <2>5. d + x < y
      BY <2>4
    <2> QED
      BY <2>5 DEF x, y
  <1>2. ASSUME ~ (r < u) PROVE ~ (d + g * r < g * u)
    <2>1. u <= r
      BY <1>2
    <2>2. g * u <= g * r /\ g * u \in Nat /\ g * r \in Nat
      BY <2>1, TimesMore
    <2> DEFINE x == g * r
               y == g * u
    <2>3. y <= x /\ x \in Nat /\ y \in Nat
      BY <2>2
    <2> HIDE DEF x, y
    <2>4. ~ (d + x < y)
      BY <2>3
    <2> QED
      BY <2>4 DEF x, y
  <1> QED
    BY <1>1, <1>2

\* How large a number is, by what is left of it after j bytes.
LEMMA RemBound ==
    ASSUME NEW data \in Seq(VarintByte), NEW len \in 0 .. Len(data), NEW rem,
           Rems(data, len, rem), NEW j \in 0 .. len, j <= MaxGroups, NEW u \in Nat
    PROVE  rem[0] < Weight[j] * u <=> rem[j] < u
  <1> DEFINE S == {k \in 0 .. j : rem[0] < Weight[j] * u <=> rem[k] < Weight[j - k] * u}
  <1>1. /\ len \in Nat /\ j \in Nat /\ Group \in Nat /\ MaxGroups \in Nat
        /\ \A i \in 1 .. len : data[i] % Group \in 0 .. Group - 1
    <2>1. \A i \in 1 .. len : data[i] \in VarintByte
      OBVIOUS
    <2>2. \A i \in 1 .. len : data[i] % Group \in 0 .. Group - 1
      BY <2>1, ByteDigit
    <2> QED
      BY <2>2, GroupIs
  <1>2. /\ \A i \in 1 .. len : rem[i - 1] = (data[i] % Group) + Group * rem[i]
        /\ \A i \in 0 .. len : rem[i] \in Nat
    BY DEF Rems
  <1>3. 0 \in S
    <2>1. j - 0 = j /\ 0 \in 0 .. j
      BY <1>1
    <2> QED
      BY <2>1
  <1>4. ASSUME NEW m \in 0 .. j - 1, m \in S PROVE m + 1 \in S
    <2> DEFINE i == m + 1
               h == j - m
               d == data[i] % Group
               r == rem[i]
               w == Weight[h - 1]
    <2>1. /\ i \in 1 .. len /\ i \in 0 .. j /\ i - 1 = m /\ j - i = h - 1
          /\ h \in 1 .. MaxGroups /\ h - 1 \in 0 .. MaxGroups /\ i \in 0 .. len
      BY <1>1
    <2>2. rem[0] < Weight[j] * u <=> rem[m] < Weight[h] * u
      BY <1>4
    <2> HIDE DEF S, i, h
    <2>3. rem[m] = d + Group * r /\ Weight[h] = Group * w
      BY <1>2, <2>1, WeightIs
    <2>4. d \in 0 .. Group - 1 /\ r \in Nat /\ w \in Nat
      BY <1>1, <1>2, <2>1, WeightIs
    <2> HIDE DEF d, r, w
    <2>5. (Group * w) * u = Group * (w * u) /\ w * u \in Nat
      BY <1>1, <2>4
    <2>6. d + Group * r < Group * (w * u) <=> r < w * u
      BY <1>1, <2>4, <2>5, DigitBelow
    <2>7. rem[0] < Weight[j] * u <=> r < w * u
      BY <2>2, <2>3, <2>5, <2>6
    <2>8. rem[0] < Weight[j] * u <=> rem[i] < Weight[j - i] * u
      BY <2>1, <2>7 DEF r, w
    <2> QED
      BY <2>1, <2>8 DEF S, i
  <1> HIDE DEF S
  <1>5. j \in S
    <2>1. j \in 0 .. j
      BY <1>1
    <2>2. \A m \in 0 .. j : m \in S
      BY <1>1, <1>3, <1>4, UpTo
    <2> QED
      BY <2>1, <2>2
  <1>6. rem[0] < Weight[j] * u <=> rem[j] < Weight[j - j] * u
    BY <1>5 DEF S
  <1>7. j - j = 0 /\ 1 * u = u
    BY <1>1
  <1> QED
    BY <1>6, <1>7, WeightIs

\* Nothing is left of nothing.
LEMMA ZeroStays ==
    ASSUME NEW data \in Seq(VarintByte), NEW len \in 0 .. Len(data), NEW rem,
           Rems(data, len, rem), NEW j \in 0 .. len, rem[j] = 0, NEW k \in j .. len
    PROVE  rem[k] = 0
  <1> DEFINE S == {m \in 0 .. len - j : rem[j + m] = 0}
  <1>1. /\ len \in Nat /\ j \in Nat /\ Group \in Nat /\ Group > 1
        /\ \A i \in 1 .. len : data[i] % Group \in Nat
    <2>1. \A i \in 1 .. len : data[i] \in VarintByte
      OBVIOUS
    <2>2. \A i \in 1 .. len : data[i] % Group \in 0 .. Group - 1
      BY <2>1, ByteDigit
    <2> QED
      BY <2>2, GroupIs
  <1>2. /\ \A i \in 1 .. len : rem[i - 1] = (data[i] % Group) + Group * rem[i]
        /\ \A i \in 0 .. len : rem[i] \in Nat
    BY DEF Rems
  <1>3. 0 \in S
    <2>1. j + 0 = j /\ 0 \in 0 .. len - j
      BY <1>1
    <2> QED
      BY <2>1
  <1>4. ASSUME NEW m \in 0 .. (len - j) - 1, m \in S PROVE m + 1 \in S
    <2> DEFINE i == j + m + 1
               d == data[i] % Group
               r == rem[i]
    <2>1. i \in 1 .. len /\ i \in 0 .. len /\ i - 1 = j + m /\ j + (m + 1) = i
          /\ m + 1 \in 0 .. len - j
      BY <1>1
    <2>2. rem[j + m] = 0
      BY <1>4
    <2> HIDE DEF S, i
    <2>3. d + Group * r = 0 /\ d \in Nat /\ r \in Nat
      <3>1. rem[i - 1] = d + Group * r
        BY <1>2, <2>1
      <3> QED
        BY <1>1, <1>2, <2>1, <2>2, <3>1
    <2> HIDE DEF d, r
    <2>4. r = 0
      <3>1. SUFFICES ASSUME r # 0 PROVE FALSE
        OBVIOUS
      <3>2. Group * 1 <= Group * r /\ Group * r \in Nat
        BY <1>1, <2>3, <3>1, TimesMore
      <3> DEFINE x == Group * r
      <3>3. Group <= x /\ x \in Nat /\ d + x = 0
        BY <1>1, <2>3, <3>2
      <3> HIDE DEF x
      <3> QED
        BY <1>1, <2>3, <3>3
    <2> QED
      BY <2>1, <2>4 DEF S, r
  <1> HIDE DEF S
  <1>5. k - j \in S
    <2>1. k - j \in 0 .. len - j /\ len - j \in Nat
      BY <1>1
    <2>2. \A m \in 0 .. len - j : m \in S
      BY <1>3, <1>4, <2>1, UpTo
    <2> QED
      BY <2>1, <2>2
  <1>6. rem[j + (k - j)] = 0
    BY <1>5 DEF S
  <1>7. j + (k - j) = k
    BY <1>1
  <1> QED
    BY <1>6, <1>7

LEMMA RepresentsIsRems ==
    ASSUME NEW s, NEW n, NEW rem, Represents(s, n, rem)
    PROVE  /\ s \in Seq(VarintByte) /\ Len(s) \in 0 .. Len(s) /\ Len(s) \in Nat
           /\ Rems(s, Len(s), rem) /\ rem[0] = n
  <1>1. s \in Seq(VarintByte) /\ Rems(s, Len(s), rem) /\ rem[0] = n
    BY DEF Represents, Rems
  <1>2. Len(s) \in Nat
    BY <1>1
  <1>3. Len(s) \in 0 .. Len(s)
    BY <1>2
  <1> QED
    BY <1>1, <1>2, <1>3

\* Bytes of the same number have the same groups as far as both go.
LEMMA SameDigits ==
    ASSUME NEW s, NEW t, NEW n, NEW rem, NEW aft, Represents(s, n, rem), Represents(t, n, aft),
           NEW l \in Nat, l <= Len(s), l <= Len(t)
    PROVE  /\ \A i \in 0 .. l : rem[i] = aft[i]
           /\ \A i \in 1 .. l : s[i] % Group = t[i] % Group
  <1> DEFINE S == {i \in 0 .. l : rem[i] = aft[i]}
  <1>1. /\ s \in Seq(VarintByte) /\ Len(s) \in Nat /\ rem[0] = n
        /\ t \in Seq(VarintByte) /\ Len(t) \in Nat /\ aft[0] = n
        /\ Rems(s, Len(s), rem) /\ Rems(t, Len(t), aft)
    BY RepresentsIsRems
  <1>2. \A i \in 1 .. l : /\ s[i] % Group \in 0 .. Group - 1 /\ t[i] % Group \in 0 .. Group - 1
    <2>1. \A i \in 1 .. l : i \in 1 .. Len(s) /\ i \in 1 .. Len(t)
      BY <1>1
    <2>2. \A i \in 1 .. l : s[i] \in VarintByte /\ t[i] \in VarintByte
      BY <1>1, <2>1
    <2> QED
      BY <2>2, ByteDigit
  <1>3. \A i \in 1 .. l : /\ rem[i - 1] = (s[i] % Group) + Group * rem[i]
                          /\ aft[i - 1] = (t[i] % Group) + Group * aft[i]
    <2>1. \A i \in 1 .. l : i \in 1 .. Len(s) /\ i \in 1 .. Len(t)
      BY <1>1
    <2> QED
      BY <1>1, <2>1 DEF Rems
  <1>4. \A i \in 0 .. l : rem[i] \in Nat /\ aft[i] \in Nat
    <2>1. \A i \in 0 .. l : i \in 0 .. Len(s) /\ i \in 0 .. Len(t)
      BY <1>1
    <2>2. rem \in [0 .. Len(s) -> Nat] /\ aft \in [0 .. Len(t) -> Nat]
      BY <1>1 DEF Rems
    <2> QED
      BY <2>1, <2>2
  <1>5. ASSUME NEW i \in 1 .. l, rem[i - 1] = aft[i - 1]
        PROVE  s[i] % Group = t[i] % Group /\ rem[i] = aft[i]
    <2> DEFINE a == s[i] % Group
               b == t[i] % Group
               p == rem[i]
               q == aft[i]
    <2>1. a + Group * p = b + Group * q
      BY <1>3, <1>5
    <2>2. a \in 0 .. Group - 1 /\ b \in 0 .. Group - 1 /\ p \in Nat /\ q \in Nat
      <3>1. i \in 0 .. l
        OBVIOUS
      <3> QED
        BY <1>2, <1>4, <3>1
    <2> HIDE DEF a, b, p, q
    <2>3. a = b /\ p = q
      BY <2>1, <2>2, GroupIs, DigitsUnique
    <2> QED
      BY <2>3 DEF a, b, p, q
  <1>6. 0 \in S
    BY <1>1
  <1>7. ASSUME NEW m \in 0 .. l - 1, m \in S PROVE m + 1 \in S
    <2> DEFINE i == m + 1
    <2>1. i \in 1 .. l /\ i - 1 = m /\ i \in 0 .. l /\ rem[m] = aft[m]
      BY <1>7
    <2> HIDE DEF i, S
    <2>2. rem[i] = aft[i]
      BY <1>5, <2>1
    <2> QED
      BY <2>1, <2>2 DEF S, i
  <1>8. \A i \in 0 .. l : rem[i] = aft[i]
    <2> HIDE DEF S
    <2>1. \A i \in 0 .. l : i \in S
      BY <1>6, <1>7, UpTo
    <2> QED
      BY <2>1 DEF S
  <1>9. ASSUME NEW i \in 1 .. l PROVE s[i] % Group = t[i] % Group
    <2>1. i - 1 \in 0 .. l
      OBVIOUS
    <2> QED
      BY <1>5, <1>8, <2>1
  <1> QED
    BY <1>8, <1>9

\* Bytes without a group too many are not longer than others of the same number.
LEMMA NotLonger ==
    ASSUME NEW s, NEW t, NEW n, NEW rem, NEW aft, Represents(s, n, rem), Represents(t, n, aft),
           Terminated(s), Terminated(t), Len(s) > 1 => s[Len(s)] # 0
    PROVE  Len(s) <= Len(t)
  <1> DEFINE k == Len(s)
             l == Len(t)
  <1>1. SUFFICES ASSUME l < k PROVE FALSE
    BY DEF Terminated
  <1>2. /\ s \in Seq(VarintByte) /\ k \in Nat /\ Rems(s, k, rem)
        /\ t \in Seq(VarintByte) /\ l \in Nat /\ Rems(t, l, aft) /\ l >= 1 /\ s[k] < Group
    BY RepresentsIsRems DEF Terminated
  <1>3. rem[l] = aft[l] /\ aft[l] = 0
    <2>1. l <= k /\ l <= l /\ l \in 0 .. l
      BY <1>1, <1>2
    <2> QED
      BY <1>2, <2>1, SameDigits DEF Rems
  <1> HIDE DEF k, l
  <1>4. rem[k - 1] = 0
    <2>1. k \in 0 .. k /\ l \in 0 .. k /\ k - 1 \in l .. k
      BY <1>1, <1>2
    <2>2. k \in 0 .. Len(s)
      BY <2>1 DEF k
    <2> QED
      BY <1>2, <1>3, <2>1, <2>2, ZeroStays
  <1>5. k \in 1 .. k /\ k > 1
    BY <1>1, <1>2
  <1>6. rem[k - 1] = (s[k] % Group) + Group * rem[k] /\ rem[k] = 0
    BY <1>2, <1>5 DEF Rems
  <1>7. s[k] \in VarintByte
    BY <1>2, <1>5 DEF k
  <1>8. s[k] % Group = s[k] /\ s[k] \in Nat
    BY <1>2, <1>7, ByteDigit
  <1>9. s[k] = 0
    <2>1. Group * 0 = 0
      BY GroupIs
    <2> QED
      BY <1>4, <1>6, <1>8, <2>1
  <1> QED
    BY <1>5, <1>9 DEF k

LEMMA ShortestUnique ==
    ASSUME NEW s, NEW t, NEW n, NEW rem, NEW aft, Represents(s, n, rem), Represents(t, n, aft),
           Terminated(s), Terminated(t),
           Len(s) > 1 => s[Len(s)] # 0, Len(t) > 1 => t[Len(t)] # 0
    PROVE  s = t
  <1> DEFINE l == Len(s)
  <1>1. /\ s \in Seq(VarintByte) /\ Len(s) \in Nat /\ t \in Seq(VarintByte) /\ Len(t) \in Nat
    BY RepresentsIsRems
  <1>2. Len(t) = l
    <2>1. Len(s) <= Len(t) /\ Len(t) <= Len(s)
      BY NotLonger
    <2> QED
      BY <1>1, <2>1
  <1>3. ASSUME NEW i \in 1 .. l PROVE s[i] = t[i]
    <2>1. s[i] % Group = t[i] % Group
      BY <1>1, <1>2, SameDigits
    <2>2. s[i] \in VarintByte /\ t[i] \in VarintByte
      BY <1>1, <1>2
    <2>3. CASE i < l
      <3>1. s[i] >= Group /\ t[i] >= Group
        BY <1>2, <2>3 DEF Terminated
      <3>2. s[i] = Group + (s[i] % Group) /\ t[i] = Group + (t[i] % Group)
        BY <2>2, <3>1, ByteDigit
      <3> QED
        BY <2>1, <3>2
    <2>4. CASE i = l
      <3>1. s[i] < Group /\ t[i] < Group
        BY <1>2, <2>4 DEF Terminated
      <3>2. s[i] % Group = s[i] /\ t[i] % Group = t[i]
        BY <2>2, <3>1, ByteDigit
      <3> QED
        BY <2>1, <3>2
    <2> QED
      BY <1>1, <2>3, <2>4
  <1> QED
    BY <1>1, <1>2, <1>3, SeqEqual

LEMMA WeightsGrow ==
    ASSUME NEW i \in 0 .. MaxGroups, NEW j \in i .. MaxGroups
    PROVE  Weight[i] <= Weight[j]
  <1> DEFINE S == {m \in 0 .. j - i : Weight[i] <= Weight[i + m]}
  <1>1. /\ MaxGroups \in Nat /\ Group \in Nat /\ Group > 1 /\ i \in Nat /\ j \in Nat /\ i <= j
        /\ j - i \in Nat
    BY GroupIs
  <1>2. 0 \in S
    <2>1. i + 0 = i /\ 0 \in 0 .. j - i /\ Weight[i] \in Nat
      BY <1>1, WeightIs
    <2> QED
      BY <2>1
  <1>3. ASSUME NEW m \in 0 .. (j - i) - 1, m \in S PROVE m + 1 \in S
    <2> DEFINE k == i + m + 1
               x == Weight[k - 1]
    <2>1. k \in 1 .. MaxGroups /\ k - 1 = i + m /\ k - 1 \in 0 .. MaxGroups
          /\ i + (m + 1) = k /\ m + 1 \in 0 .. j - i
      BY <1>1
    <2>2. Weight[i] <= Weight[i + m]
      BY <1>3
    <2> HIDE DEF S, k
    <2>3. Weight[k] = Group * x /\ x \in Nat /\ Weight[i] <= x /\ Weight[i] \in Nat
      BY <2>1, <2>2, WeightIs
    <2> HIDE DEF x
    <2>4. x * 1 <= x * Group /\ x * Group \in Nat /\ x * Group = Group * x
      BY <1>1, <2>3, TimesMore
    <2> DEFINE y == Group * x
    <2>5. x <= y /\ y \in Nat
      BY <2>3, <2>4
    <2> HIDE DEF y
    <2>6. Weight[i] <= y
      BY <2>3, <2>5
    <2>7. Weight[i] <= Weight[i + (m + 1)]
      BY <2>1, <2>3, <2>6 DEF y
    <2> QED
      BY <2>1, <2>7 DEF S
  <1> HIDE DEF S
  <1>4. j - i \in S
    <2>1. j - i \in 0 .. j - i
      BY <1>1
    <2>2. \A m \in 0 .. j - i : m \in S
      BY <1>1, <1>2, <1>3, UpTo
    <2> QED
      BY <2>1, <2>2
  <1>5. Weight[i] <= Weight[i + (j - i)] /\ i + (j - i) = j
    BY <1>1, <1>4 DEF S
  <1> QED
    BY <1>5

\* Values that the last group of a u32 has room for.
Top == Limit \div Weight[MaxGroups - 1]

LEMMA LimitParts ==
    /\ Top \in Nat /\ Limit = Weight[MaxGroups - 1] * Top
    /\ Weight[MaxGroups - 1] < Limit /\ Limit <= Weight[MaxGroups]
    /\ Limit \in Nat \ {0} /\ MaxGroups - 1 \in 0 .. MaxGroups
  <1> DEFINE w == Weight[MaxGroups - 1]
  <1>1. MaxGroups \in Nat /\ MaxGroups >= 1 /\ MaxGroups - 1 \in 0 .. MaxGroups
    BY GroupIs
  <1>2. w \in Nat \ {0}
    BY <1>1, WeightIs
  <1>3. w < Limit /\ Limit <= Weight[MaxGroups] /\ Limit % w = 0 /\ Limit \in Nat
    BY VarintAssumption
  <1> HIDE DEF w
  <1>4. Limit \div w \in Nat /\ Limit = (Limit % w) + w * (Limit \div w)
    BY <1>2, <1>3, DivMod
  <1>5. w * (Limit \div w) \in Nat
    BY <1>2, <1>4
  <1> DEFINE q == Limit \div w
             x == w * q
  <1>6. Limit = 0 + x /\ x \in Nat
    BY <1>3, <1>4, <1>5
  <1> HIDE DEF x, q
  <1>7. Limit = x /\ Limit \in Nat \ {0}
    BY <1>2, <1>3, <1>6
  <1> QED
    BY <1>1, <1>3, <1>4, <1>7 DEF w, x, q, Top

LEMMA ModBelow ==
    ASSUME NEW n \in Nat
    PROVE  n % Limit \in 0 .. Limit - 1 /\ (n < Limit => n % Limit = n)
  <1>1. Limit \in Nat \ {0}
    BY LimitParts
  <1>2. n % Limit \in 0 .. Limit - 1 /\ n \div Limit \in Nat
        /\ n = (n % Limit) + Limit * (n \div Limit)
    BY <1>1, DivMod
  <1> DEFINE d == n % Limit
             q == n \div Limit
  <1> HIDE DEF d, q
  <1>3. ASSUME n < Limit PROVE n = d
    <2>1. n \in 0 .. Limit - 1 /\ n + Limit * 0 = d + Limit * q /\ 0 \in Nat
          /\ d \in 0 .. Limit - 1 /\ q \in Nat
      BY <1>1, <1>2, <1>3 DEF d, q
    <2> QED
      BY <1>1, <2>1, DigitsUnique
  <1> QED
    BY <1>2, <1>3 DEF d

LEMMA VarintNumber ==
    ASSUME NEW data \in Seq(VarintByte), NEW len, IsVarint(data, len),
           NEW rem, Rems(data, len, rem)
    PROVE  ReadVarint(data, 0) = Ok(len, rem[0] % Limit)
  <1>1. len \in 0 .. Len(data) /\ len <= MaxGroups
    BY DEF IsVarint
  <1>2. PICK number : /\ Steps("number", data, MaxGroups, number)
                      /\ ReadVarint(data, 0) = Ok(len, number[len] % Limit)
    BY VarintDecoded DEF Numbered
  <1>3. number[len] = rem[0]
    BY <1>1, <1>2, NumberIs
  <1> QED
    BY <1>2, <1>3

\* A number fits u32 exactly when its last group does.
LEMMA BelowLimit ==
    ASSUME NEW data \in Seq(VarintByte), NEW len, IsVarint(data, len),
           NEW rem, Rems(data, len, rem)
    PROVE  rem[0] \in Nat /\ (rem[0] < Limit <=> (len = MaxGroups => data[len] < Top))
  <1>1. /\ len \in 1 .. Len(data) /\ len <= MaxGroups /\ data[len] < Group
        /\ len \in 0 .. Len(data) /\ len \in 0 .. len /\ len - 1 \in 0 .. len /\ 0 \in 0 .. len
        /\ len \in 1 .. len /\ len - 1 <= MaxGroups /\ len \in Nat /\ MaxGroups \in Nat
    BY GroupIs DEF IsVarint
  <1>2. rem[0] \in Nat /\ rem[len] = 0
    BY <1>1 DEF Rems
  <1>3. rem[len - 1] = data[len]
    <2>1. rem[len - 1] = (data[len] % Group) + Group * rem[len]
      BY <1>1 DEF Rems
    <2>2. data[len] \in VarintByte
      BY <1>1
    <2>3. data[len] % Group = data[len] /\ data[len] \in Nat /\ Group * 0 = 0
      BY <1>1, <2>2, ByteDigit, GroupIs
    <2> QED
      BY <1>2, <2>1, <2>3
  <1>4. CASE len = MaxGroups
    <2>1. rem[0] < Weight[len - 1] * Top <=> rem[len - 1] < Top
      BY <1>1, LimitParts, RemBound
    <2>2. Weight[len - 1] * Top = Limit
      BY <1>4, LimitParts
    <2>3. rem[0] < Limit <=> data[len] < Top
      BY <1>3, <2>1, <2>2
    <2> QED
      BY <1>2, <1>4, <2>3
  <1>5. CASE len # MaxGroups
    <2>1. rem[0] < Weight[len] * 1 <=> rem[len] < 1
      BY <1>1, RemBound
    <2>2. len \in 0 .. MaxGroups /\ MaxGroups - 1 \in len .. MaxGroups
      BY <1>1, <1>5
    <2>3. Weight[len] <= Weight[MaxGroups - 1] /\ Weight[len] \in Nat
          /\ Weight[MaxGroups - 1] \in Nat
      BY <2>2, LimitParts, WeightsGrow, WeightIs
    <2>4. rem[0] < Weight[len]
      BY <1>2, <2>1, <2>3
    <2>5. rem[0] < Limit
      BY <1>2, <2>3, <2>4, LimitParts
    <2> QED
      BY <1>2, <1>5, <2>5
  <1> QED
    BY <1>4, <1>5

LEMMA RepresentsIsVarint ==
    ASSUME NEW s, NEW n, NEW rem, Represents(s, n, rem), Terminated(s), Len(s) <= MaxGroups
    PROVE  s \in Seq(VarintByte) /\ IsVarint(s, Len(s)) /\ Rems(s, Len(s), rem) /\ rem[0] = n
  <1>1. /\ s \in Seq(VarintByte) /\ Len(s) \in Nat
        /\ Rems(s, Len(s), rem) /\ rem[0] = n
    BY RepresentsIsRems
  <1>2. Len(s) \in 1 .. Len(s)
    BY <1>1 DEF Terminated
  <1>3. s[Len(s)] < Group /\ \A i \in 1 .. Len(s) : i < Len(s) => s[i] >= Group
    BY DEF Terminated
  <1> QED
    BY <1>1, <1>2, <1>3 DEF IsVarint

\* A u32 is decoded to itself, from bytes without a group too many.
LEMMA VarintRoundTrip ==
    ASSUME NEW n \in 0 .. Limit - 1
    PROVE  /\ ReadVarint(PutVarint(n), 0) = Ok(Len(PutVarint(n)), n)
           /\ Shortest(PutVarint(n)) /\ PutVarint(n) \in Seq(VarintByte)
           /\ Terminated(PutVarint(n))
  <1> DEFINE s == PutVarint(n)
  <1>1. n \in Nat /\ n < Limit
    BY LimitParts
  <1>2. IsVarintOf(s, n)
    BY <1>1, PutIsEncoded
  <1> HIDE DEF s
  <1>3. /\ Terminated(s) /\ (Len(s) > 1 => s[Len(s)] # 0)
        /\ \A k \in 1 .. MaxGroups : n < Weight[k] => Len(s) <= k
    BY <1>2 DEF IsVarintOf
  <1>4. PICK rem : Represents(s, n, rem)
    BY <1>2 DEF IsVarintOf
  <1>5. Len(s) <= MaxGroups
    <2>1. MaxGroups \in 1 .. MaxGroups /\ MaxGroups \in 0 .. MaxGroups
      BY GroupIs
    <2>2. Weight[MaxGroups] \in Nat
      BY <2>1, WeightIs
    <2>3. n < Weight[MaxGroups]
      BY <1>1, <2>2, LimitParts
    <2> QED
      BY <1>3, <2>1, <2>3
  <1>6. s \in Seq(VarintByte) /\ IsVarint(s, Len(s)) /\ Rems(s, Len(s), rem) /\ rem[0] = n
    BY <1>3, <1>4, <1>5, RepresentsIsVarint
  <1>7. ReadVarint(s, 0) = Ok(Len(s), n)
    BY <1>1, <1>6, VarintNumber, ModBelow
  <1>8. Len(s) = MaxGroups => s[Len(s)] < Top
    BY <1>1, <1>6, BelowLimit
  <1>9. Shortest(s)
    BY <1>3, <1>8 DEF Shortest, Top
  <1> QED
    BY <1>3, <1>6, <1>7, <1>9 DEF s

LEMMA VarintPart ==
    ASSUME NEW data \in Seq(VarintByte), NEW len, IsVarint(data, len),
           NEW rem, Rems(data, len, rem)
    PROVE  LET used == SubSeq(data, 1, len)
           IN  /\ Represents(used, rem[0], rem) /\ Terminated(used) /\ Len(used) = len
               /\ used[len] = data[len]
  <1> DEFINE used == SubSeq(data, 1, len)
  <1>1. /\ len \in 1 .. Len(data) /\ data[len] < Group /\ Len(data) \in Nat /\ len \in Nat
        /\ \A i \in 1 .. Len(data) : i < len => data[i] >= Group
    BY DEF IsVarint
  <1>2. \A i \in 1 .. len : i \in 1 .. Len(data)
    BY <1>1
  <1>3. used = [i \in 1 .. len |-> data[i]]
    <2>1. 1 <= 1 /\ len <= Len(data)
      BY <1>1
    <2> QED
      BY <1>1, <2>1
  <1> HIDE DEF used
  <1>4. used \in Seq(VarintByte) /\ Len(used) = len /\ \A i \in 1 .. len : used[i] = data[i]
    BY <1>1, <1>2, <1>3
  <1>5. len \in 1 .. len
    BY <1>1
  <1>6. Represents(used, rem[0], rem)
    BY <1>4 DEF Represents, Rems
  <1>7. Terminated(used)
    BY <1>1, <1>2, <1>4, <1>5 DEF Terminated
  <1> QED
    BY <1>4, <1>5, <1>6, <1>7 DEF used

\* What decode_varint accepts.
LEMMA VarintCanonical ==
    ASSUME NEW data \in Seq(VarintByte), ReadVarint(data, 0).status = "Ok"
    PROVE  LET res  == ReadVarint(data, 0)
               used == SubSeq(data, 1, res.pos)
           IN  /\ res.value \in 0 .. Limit - 1 /\ res.pos \in 1 .. Len(data)
               /\ PutVarint(res.value) = used <=> Shortest(used)
  <1> DEFINE res == ReadVarint(data, 0)
  <1>1. PICK len : IsVarint(data, len)
    BY VarintIsRead
  <1>2. len \in 1 .. Len(data) /\ len \in 0 .. Len(data) /\ len <= MaxGroups /\ len \in Nat
    BY <1>1 DEF IsVarint
  <1>3. PICK rem : Rems(data, len, rem)
    BY <1>2, RemsExist
  <1> DEFINE n == rem[0]
             v == n % Limit
             used == SubSeq(data, 1, len)
  <1>4. res = Ok(len, v)
    BY <1>1, <1>3, VarintNumber
  <1>5. n \in Nat /\ (n < Limit <=> (len = MaxGroups => data[len] < Top))
    BY <1>1, <1>3, BelowLimit
  <1>6. v \in 0 .. Limit - 1 /\ (n < Limit => v = n)
    BY <1>5, ModBelow
  <1>7. /\ Represents(used, n, rem) /\ Terminated(used) /\ Len(used) = len
        /\ used[len] = data[len]
    BY <1>1, <1>3, VarintPart
  <1> HIDE DEF res, n, v, used
  <1>8. ASSUME PutVarint(v) = used PROVE Shortest(used)
    BY <1>6, <1>8, VarintRoundTrip
  <1>9. ASSUME Shortest(used) PROVE PutVarint(v) = used
    <2>1. n < Limit
      BY <1>5, <1>7, <1>9 DEF Shortest, Top
    <2>2. v = n /\ (Len(used) > 1 => used[Len(used)] # 0)
      BY <1>6, <1>9, <2>1 DEF Shortest
    <2> DEFINE s == PutVarint(v)
    <2>3. IsVarintOf(s, n)
      BY <1>5, <2>2, PutIsEncoded
    <2> HIDE DEF s
    <2>4. PICK aft : Represents(s, n, aft)
      BY <2>3 DEF IsVarintOf
    <2>5. Terminated(s) /\ (Len(s) > 1 => s[Len(s)] # 0)
      BY <2>3 DEF IsVarintOf
    <2>6. s = used
      BY <1>7, <2>2, <2>4, <2>5, ShortestUnique
    <2> QED
      BY <2>6 DEF s
  <1>10. res.pos = len /\ res.value = v
    BY <1>4 DEF Ok
  <1> QED
    BY <1>2, <1>6, <1>8, <1>9, <1>10 DEF res, used

\* Bytes of a varint that lost their end are no varint.
LEMMA CutVarint ==
    ASSUME NEW n \in 0 .. Limit - 1, NEW k \in Nat, k < Len(PutVarint(n))
    PROVE  ReadVarint(SubSeq(PutVarint(n), 1, k), 0).status # "Ok"
  <1> DEFINE s == PutVarint(n)
             cut == SubSeq(s, 1, k)
  <1>1. s \in Seq(VarintByte) /\ Terminated(s)
    BY VarintRoundTrip
  <1> HIDE DEF s
  <1>2. Len(s) \in Nat /\ k < Len(s) /\ \A i \in 1 .. Len(s) : i < Len(s) => s[i] >= Group
    BY <1>1 DEF Terminated, s
  <1>3. \A i \in 1 .. k : i \in 1 .. Len(s) /\ i < Len(s)
    BY <1>2
  <1>4. cut = [i \in 1 .. k |-> s[i]]
    BY <1>1, <1>2
  <1> HIDE DEF cut
  <1>5. cut \in Seq(VarintByte) /\ Len(cut) = k /\ \A i \in 1 .. k : cut[i] = s[i]
    BY <1>1, <1>3, <1>4
  <1>6. \A i \in 1 .. Len(cut) : cut[i] >= Group
    BY <1>2, <1>3, <1>5
  <1>7. ReadVarint(cut, 0).status # "Ok"
    BY <1>5, <1>6, UnendedVarint
  <1> QED
    BY <1>7 DEF cut, s

-----------------------------------------------------------------------------
(* The life of a value.                                                    *)

\* What Read returns.
Answer(t, data) ==
    IF t # "varint" /\ IsTombstone(data) THEN Error("Deleted") ELSE ReadAs(t, data)

LEMMA TypeCases ==
    /\ \A t \in Types : t \in Structures \/ t = "raw" \/ t = "varint"
    /\ Structures \subseteq Types /\ "raw" \notin Structures /\ "varint" \notin Structures
    /\ Alphabet("varint") = VarintByte /\ \A t \in Types \ {"varint"} : Alphabet(t) = Byte
  BY DEF Types, Structures, Alphabet

\* An input has a value's type, and its encoding is made of the type's bytes.
LEMMA InputIsValue ==
    ASSUME NEW t \in Types, NEW v \in Inputs[t]
    PROVE  v \in ValueOf(t) /\ Encode(t, v) \in Seq(Alphabet(t))
  <1>1. v \in ValueOf(t)
    BY InputAssumption
  <1>2. CASE t \in Structures
    <2>1. Encode(t, v) \in Seq(Byte)
      BY <1>1, <1>2, EncodeType
    <2>2. Alphabet(t) = Byte
      BY <1>2, TypeCases
    <2> QED
      BY <1>1, <2>1, <2>2
  <1>3. CASE t = "raw"
    BY <1>1, <1>3, StructureCases, TypeCases
  <1>4. CASE t = "varint"
    <2>1. v \in 0 .. Limit - 1
      BY <1>1, <1>4, StructureCases
    <2>2. PutVarint(v) \in Seq(VarintByte)
      BY <2>1, VarintRoundTrip
    <2> QED
      BY <1>1, <1>4, <2>2, StructureCases, TypeCases
  <1> QED
    BY <1>2, <1>3, <1>4, TypeCases

\* The bytes are the whole encoding, or its start, as damage says; a result is
\* what the decoder says of them.
CodecInv ==
    /\ type \in Types /\ bytes \in Seq(Alphabet(type))
    /\ result = Pending \/ result = Answer(type, bytes)
    /\ damage \in {"none", "cut"} => value \in Inputs[type]
    /\ damage = "none" => bytes = Encode(type, value)
    /\ damage = "cut" => \E k \in Nat : /\ k < Len(Encode(type, value))
                                        /\ bytes = SubSeq(Encode(type, value), 1, k)

LEMMA CodecInit == Init => CodecInv
  <1> SUFFICES ASSUME Init PROVE CodecInv
    OBVIOUS
  <1>1. type \in Types /\ result = Pending
    BY DEF Init
  <1>2. CASE value \in Inputs[type] /\ bytes = Encode(type, value) /\ damage = "none"
    <2>1. bytes \in Seq(Alphabet(type))
      BY <1>1, <1>2, InputIsValue
    <2> QED
      BY <1>1, <1>2, <2>1 DEF CodecInv
  <1>3. CASE bytes \in Garbage[type] /\ damage = "garbage"
    <2>1. bytes \in Seq(Alphabet(type))
      BY <1>1, <1>3, InputAssumption
    <2> QED
      BY <1>1, <1>3, <2>1 DEF CodecInv
  <1> QED
    BY <1>2, <1>3 DEF Init

LEMMA CodecNext == CodecInv /\ [Next]_vars => CodecInv'
  <1> SUFFICES ASSUME CodecInv, [Next]_vars PROVE CodecInv'
    OBVIOUS
  <1>1. /\ type \in Types /\ bytes \in Seq(Alphabet(type))
        /\ result = Pending \/ result = Answer(type, bytes)
        /\ damage \in {"none", "cut"} => value \in Inputs[type]
        /\ damage = "none" => bytes = Encode(type, value)
        /\ damage = "cut" => \E k \in Nat : /\ k < Len(Encode(type, value))
                                            /\ bytes = SubSeq(Encode(type, value), 1, k)
    BY DEF CodecInv
  <1>2. ASSUME NEW len \in 0 .. Len(bytes), Cut(len) PROVE CodecInv'
    <2>1. /\ len \in Nat /\ len < Len(bytes) /\ damage = "none" /\ result' = Pending
          /\ bytes' = SubSeq(bytes, 1, len) /\ damage' = "cut"
          /\ type' = type /\ value' = value
      BY <1>1, <1>2 DEF Cut
    <2>2. bytes' \in Seq(Alphabet(type))
      <3>1. \A i \in 1 .. len : bytes[i] \in Alphabet(type)
        BY <1>1, <2>1
      <3>2. bytes' = [i \in 1 .. len |-> bytes[i]]
        BY <1>1, <2>1
      <3> QED
        BY <2>1, <3>1, <3>2
    <2>3. len < Len(Encode(type, value)) /\ bytes' = SubSeq(Encode(type, value), 1, len)
          /\ value \in Inputs[type]
      BY <1>1, <2>1
    <2> QED
      BY <1>1, <2>1, <2>2, <2>3 DEF CodecInv
  <1>3. ASSUME NEW i \in DOMAIN bytes, NEW byte \in Alphabet(type), Change(i, byte)
        PROVE  CodecInv'
    <2>1. /\ bytes' = [bytes EXCEPT ![i] = byte] /\ damage' = "changed" /\ result' = Pending
          /\ type' = type
      BY <1>3 DEF Change
    <2>2. bytes' \in Seq(Alphabet(type))
      BY <1>1, <1>3, <2>1
    <2> QED
      BY <1>1, <2>1, <2>2 DEF CodecInv
  <1>4. ASSUME Read PROVE CodecInv'
    <2>1. result' = Answer(type, bytes) /\ UNCHANGED <<type, value, damage, bytes>>
      BY <1>4 DEF Read, Answer
    <2> QED
      BY <1>1, <2>1 DEF CodecInv
  <1>5. ASSUME UNCHANGED vars PROVE CodecInv'
    BY <1>1, <1>5 DEF vars, CodecInv
  <1> QED
    BY <1>2, <1>3, <1>4, <1>5 DEF Next

LEMMA AlwaysCodecInv == Spec => []CodecInv
  BY CodecInit, CodecNext, PTL DEF Spec

\* A result that a decoder accepted is that of the bytes, which are no tombstone.
LEMMA Accepted ==
    ASSUME CodecInv, IsOk
    PROVE  /\ result = ReadAs(type, bytes) /\ result.status = "Ok"
           /\ type # "varint" => ~ IsTombstone(bytes)
  <1>1. result.status = "Ok" /\ result = Answer(type, bytes)
    BY DEF CodecInv, IsOk, Done
  <1>2. Error("Deleted").status # "Ok"
    BY ErrorsAreNotOk
  <1> QED
    BY <1>1, <1>2 DEF Answer

LEMMA TombstoneIsShort ==
    ASSUME NEW data, IsTombstone(data)
    PROVE  Len(data) = 1
  BY DEF IsTombstone

\* A structure is decoded to itself exactly when the format has room for it.
LEMMA StructureKept ==
    ASSUME NEW t \in Structures, NEW v \in ValueOf(t)
    PROVE  LET res == Answer(t, Encode(t, v))
           IN  (res.status = "Ok" /\ res.value = v) <=> Fits(t, v)
  <1> DEFINE data == Encode(t, v)
             res == Answer(t, data)
  <1>1. data \in Seq(Byte) /\ Len(data) >= 2 /\ HoldsAt(data, 0, data)
    BY EncodeType, HoldsItself
  <1>2. res = ReadAs(t, data)
    <2>1. Len(data) >= 2
      BY <1>1
    <2>2. ASSUME IsTombstone(data) PROVE FALSE
      <3>1. Len(data) = 1
        BY <2>2, TombstoneIsShort
      <3> QED
        BY <2>1, <3>1
    <2> QED
      BY <2>2 DEF Answer
  <1> HIDE DEF res
  <1>3. ASSUME v \in Proper(t) PROVE res.status = "Ok" /\ res.value = v
    <2>1. res = Ok(Len(data), v)
      BY <1>1, <1>2, <1>3, StructureRoundTrip
    <2> QED
      BY <2>1 DEF Ok
  <1>4. ASSUME res.status = "Ok", res.value = v PROVE v \in Proper(t)
    <2>1. ReadIsProper(t, data, res)
      BY <1>1, <1>2, <1>4, StructureIsRead
    <2> QED
      BY <1>4, <2>1 DEF ReadIsProper
  <1> QED
    BY <1>3, <1>4, ProperIsFits DEF res

\* RoundTripExactlyWhenFits: a stored value comes back exactly when its counts
\* and lengths fit their widths and its bytes are not the tombstone, for values
\* of any size (values/*.rs encode and decode, layered.rs is_tombstone).
THEOREM RoundTrips == Spec => []RoundTripExactlyWhenFits
  <1>1. ASSUME CodecInv PROVE RoundTripExactlyWhenFits
    <2> SUFFICES ASSUME Done, damage = "none"
                 PROVE  (IsOk /\ result.value = value) <=> Fits(type, value)
      BY DEF RoundTripExactlyWhenFits
    <2>1. /\ type \in Types /\ value \in Inputs[type] /\ bytes = Encode(type, value)
          /\ result = Answer(type, Encode(type, value))
      BY <1>1 DEF CodecInv, Done
    <2>2. value \in ValueOf(type)
      BY <2>1, InputIsValue
    <2>3. IsOk <=> result.status = "Ok"
      BY DEF IsOk
    <2>4. CASE type \in Structures
      BY <2>1, <2>2, <2>3, <2>4, StructureKept
    <2>5. CASE type = "raw"
      <3>1. Encode(type, value) = value /\ ReadAs(type, value) = Ok(Len(value), value)
        BY <2>5, StructureCases
      <3>2. Fits(type, value) <=> ~ IsTombstone(value)
        BY <2>5 DEF Fits
      <3>3. result = IF IsTombstone(value) THEN Error("Deleted") ELSE Ok(Len(value), value)
        BY <2>1, <2>5, <3>1 DEF Answer
      <3>4. Ok(Len(value), value).status = "Ok" /\ Ok(Len(value), value).value = value
        BY DEF Ok
      <3> QED
        BY <2>3, <3>2, <3>3, <3>4, ErrorsAreNotOk
    <2>6. CASE type = "varint"
      <3>1. value \in 0 .. Limit - 1
        BY <2>2, <2>6, StructureCases
      <3>2. result = ReadVarint(PutVarint(value), 0)
        BY <2>1, <2>6, StructureCases DEF Answer
      <3>3. result = Ok(Len(PutVarint(value)), value)
        BY <3>1, <3>2, VarintRoundTrip
      <3>4. Fits(type, value)
        BY <2>6 DEF Fits
      <3>5. result.status = "Ok" /\ result.value = value
        BY <3>3 DEF Ok
      <3> QED
        BY <2>3, <3>4, <3>5
    <2> QED
      BY <2>1, <2>4, <2>5, <2>6, TypeCases
  <1> QED
    BY <1>1, AlwaysCodecInv, PTL

\* CutRejected: no proper prefix of the encoding of a value is decoded, wherever
\* it ends (values/*.rs decode, TooShort; block.rs decode_varint).
THEOREM CutsAreRejected == Spec => []CutRejected
  <1>1. ASSUME CodecInv PROVE CutRejected
    <2> SUFFICES ASSUME damage = "cut", type # "raw", Fits(type, value), IsOk PROVE FALSE
      BY DEF CutRejected
    <2> DEFINE whole == Encode(type, value)
    <2>1. type \in Types /\ value \in Inputs[type] /\ bytes \in Seq(Alphabet(type))
      BY <1>1 DEF CodecInv
    <2>2. PICK k \in Nat : k < Len(whole) /\ bytes = SubSeq(whole, 1, k)
      BY <1>1 DEF CodecInv
    <2>3. value \in ValueOf(type)
      BY <2>1, InputIsValue
    <2>4. result = ReadAs(type, bytes) /\ result.status = "Ok"
      BY <1>1, Accepted
    <2>5. CASE type \in Structures
      <3>1. value \in Proper(type)
        BY <2>3, <2>5, ProperIsFits
      <3>2. whole \in Seq(Byte) /\ Len(whole) \in Nat /\ HoldsAt(whole, 0, whole)
        BY <2>3, <2>5, EncodeType, HoldsItself
      <3>3. ReadAs(type, whole) = Ok(Len(whole), value)
        BY <2>5, <3>1, <3>2, StructureRoundTrip
      <3> HIDE DEF whole
      <3>4. bytes = [i \in 1 .. k |-> whole[i]]
        BY <2>2, <3>2
      <3>5. /\ bytes \in Seq(Byte) /\ Len(bytes) = k
            /\ \A i \in 1 .. k : bytes[i] = whole[i]
        <4>1. \A i \in 1 .. k : whole[i] \in Byte
          BY <2>2, <3>2
        <4> QED
          BY <3>4, <4>1
      <3>6. IsPrefixOf(bytes, whole)
        BY <2>2, <3>2, <3>5 DEF IsPrefixOf
      <3>7. ReadAs(type, whole) = result
        BY <2>4, <2>5, <3>2, <3>5, <3>6, StructureIsReadLonger
      <3>8. ReadIsProper(type, bytes, result)
        BY <2>4, <2>5, <3>5, StructureIsRead
      <3>9. result.pos <= Len(bytes) /\ result.pos = Len(whole)
        BY <3>3, <3>7, <3>8 DEF ReadIsProper, Ok
      <3> QED
        BY <2>2, <3>2, <3>5, <3>9
    <2>6. CASE type = "varint"
      <3>1. value \in 0 .. Limit - 1 /\ whole = PutVarint(value)
        BY <2>3, <2>6, StructureCases
      <3>2. ReadVarint(bytes, 0).status # "Ok"
        BY <2>2, <3>1, CutVarint
      <3> QED
        BY <2>4, <2>6, <3>2, StructureCases
    <2> QED
      BY <2>1, <2>5, <2>6, TypeCases
  <1> QED
    BY <1>1, AlwaysCodecInv, PTL

\* DecodeCanonical: bytes that a decoder accepts start with the encoding of the
\* value it returns, but for unknown entity kinds and varints with groups too
\* many, and no varint beyond u32 is returned (values/*.rs decode against
\* encode, block.rs decode_varint against encode_varint).
THEOREM DecodersAreCanonical == Spec => []DecodeCanonical
  <1>1. ASSUME CodecInv PROVE DecodeCanonical
    <2> DEFINE used == SubSeq(bytes, 1, result.pos)
               again == Encode(type, result.value)
    <2> SUFFICES ASSUME IsOk
                 PROVE  /\ ReadAs(type, again).value = result.value
                        /\ type # "varint" => Len(again) = result.pos
                        /\ type = "varint" => /\ result.value < Limit
                                              /\ (again = used <=> Shortest(used))
                        /\ type \notin {"path", "varint"} => again = used
      BY DEF DecodeCanonical
    <2>1. type \in Types /\ bytes \in Seq(Alphabet(type))
      BY <1>1 DEF CodecInv
    <2>2. result = ReadAs(type, bytes) /\ result.status = "Ok"
      BY <1>1, Accepted
    <2>3. CASE type \in Structures
      <3>1. bytes \in Seq(Byte) /\ type # "varint"
        BY <2>1, <2>3, TypeCases
      <3>2. /\ result.value \in Proper(type) /\ result.pos = Len(again)
            /\ type # "path" => HoldsAt(bytes, 0, again)
        BY <2>2, <2>3, <3>1, StructureIsRead DEF ReadIsProper
      <3>3. again \in Seq(Byte) /\ Len(again) \in Nat /\ HoldsAt(again, 0, again)
        BY <2>3, <3>2, ProperIsValue, EncodeType, HoldsItself
      <3>4. ReadAs(type, again).value = result.value
        <4>1. ReadAs(type, again) = Ok(Len(again), result.value)
          BY <2>3, <3>2, <3>3, StructureRoundTrip
        <4> QED
          BY <4>1 DEF Ok
      <3>5. ASSUME type # "path" PROVE again = used
        <4> HIDE DEF again
        <4>1. BytesAt(bytes, 0, Len(again)) = again
          BY <3>1, <3>2, <3>3, <3>5, HeldBytes
        <4>2. BytesAt(bytes, 0, Len(again)) = SubSeq(bytes, 1, Len(again))
          <5>1. 0 + 1 = 1 /\ 0 + Len(again) = Len(again)
            BY <3>3
          <5> QED
            BY <5>1 DEF BytesAt
        <4> QED
          BY <3>2, <4>1, <4>2
      <3> QED
        BY <3>1, <3>2, <3>4, <3>5
    <2>4. CASE type = "raw"
      <3>1. result = Ok(Len(bytes), bytes) /\ bytes \in Seq(Byte)
        BY <2>1, <2>2, <2>4, StructureCases, TypeCases
      <3>2. result.value = bytes /\ result.pos = Len(bytes)
        BY <3>1 DEF Ok
      <3>3. again = bytes /\ ReadAs(type, again) = result
        BY <2>2, <2>4, <3>2, StructureCases
      <3>4. used = bytes
        BY <3>1, <3>2
      <3> QED
        BY <2>4, <3>2, <3>3, <3>4
    <2>5. CASE type = "varint"
      <3>1. bytes \in Seq(VarintByte) /\ result = ReadVarint(bytes, 0)
        BY <2>1, <2>2, <2>5, StructureCases, TypeCases
      <3>2. /\ result.value \in 0 .. Limit - 1
            /\ PutVarint(result.value) = used <=> Shortest(used)
        BY <2>2, <3>1, VarintCanonical
      <3>3. again = PutVarint(result.value)
        BY <2>5, StructureCases
      <3>4. ReadAs(type, again) = Ok(Len(again), result.value)
        BY <2>5, <3>2, <3>3, VarintRoundTrip, StructureCases
      <3>5. ReadAs(type, again).value = result.value /\ result.value < Limit
        BY <3>2, <3>4, LimitParts DEF Ok
      <3> QED
        BY <2>5, <3>2, <3>3, <3>5
    <2> QED
      BY <2>1, <2>3, <2>4, <2>5, TypeCases
  <1> QED
    BY <1>1, AlwaysCodecInv, PTL

\* A LocationSet whose count and paths fit their bits is decoded to itself, and
\* the decoder ends where the encoder did, however many locations it has
\* (location_set.rs encode, decode).
THEOREM LocationSetRoundTrip ==
    ASSUME NEW locs \in Seq(EntityLocation), Fits("locations", locs)
    PROVE  ReadLocationSet(PutLocationSet(locs)) = Ok(Len(PutLocationSet(locs)), locs)
  <1> DEFINE data == Encode("locations", locs)
  <1>1. "locations" \in Structures /\ locs \in ValueOf("locations")
    BY StructureCases DEF Structures
  <1>2. locs \in Proper("locations")
    BY <1>1, ProperIsFits
  <1>3. data \in Seq(Byte) /\ HoldsAt(data, 0, data)
    BY <1>1, EncodeType, HoldsItself
  <1>4. ReadAs("locations", data) = Ok(Len(data), locs)
    BY <1>1, <1>2, <1>3, StructureRoundTrip
  <1> QED
    BY <1>4, StructureCases
=============================================================================
