---------------------------- MODULE BlockProofs ----------------------------
(***************************************************************************)
(* Prefix compression and restart points lose nothing: a finished block    *)
(* decodes to what was added, and the binary search with the scan of one   *)
(* interval finds every key that was added and no other, for all bytes,    *)
(* keys, values, block sizes and restart intervals.                        *)
(***************************************************************************)
EXTENDS Block, SequenceTheorems, WellFoundedInduction, TLAPS

-----------------------------------------------------------------------------
(* Numbers.                                                                *)

\* Every nonempty set of naturals has a least member.
LEMMA LeastOfNat ==
    ASSUME NEW S \in SUBSET Nat, S # {}
    PROVE  \E n \in S : \A m \in S : n <= m
  <1>1. PICK n \in S : \A m \in S : ~ (<<m, n>> \in OpToRel(<, Nat))
    BY NatLessThanWellFounded, WFMin
  <1>2. \A m \in S : ~ (m < n)
    BY <1>1 DEF OpToRel
  <1> QED
    BY <1>2

\* A set of naturals with an upper bound has a greatest member.
LEMMA GreatestOfNat ==
    ASSUME NEW S \in SUBSET Nat, S # {}, NEW top \in Nat, \A m \in S : m <= top
    PROVE  \E n \in S : \A m \in S : m <= n
  <1> DEFINE D == {top - m : m \in S}
  <1>1. D \in SUBSET Nat /\ D # {}
    <2>1. ASSUME NEW m \in S PROVE top - m \in Nat
      <3>1. m \in Nat /\ m <= top
        OBVIOUS
      <3> QED
        BY <3>1
    <2> QED
      BY <2>1
  <1>2. PICK d \in D : \A e \in D : d <= e
    BY <1>1, LeastOfNat
  <1>3. PICK n \in S : d = top - n
    OBVIOUS
  <1>4. ASSUME NEW m \in S PROVE m <= n
    <2>1. d <= top - m
      BY <1>2
    <2> QED
      BY <2>1, <1>3
  <1> QED
    BY <1>4

\* Division with remainder is what it should be.
LEMMA DivIs ==
    ASSUME NEW q \in Nat, NEW n \in Nat \ {0}, NEW r \in 0 .. n - 1
    PROVE  (q * n + r) \div n = q
  OBVIOUS

\* Restart r + 1 comes interval entries after restart r, and restarts keep
\* their order.
LEMMA Multiples ==
    ASSUME NEW n \in Nat \ {0}, NEW a \in Nat, NEW b \in Nat
    PROVE  /\ a * n \in Nat
           /\ (a + 1) * n = a * n + n
           /\ a < b => a * n + n <= b * n
  <1>1. (a + 1) * n = a * n + n /\ a * n \in Nat
    OBVIOUS
  <1>2. ASSUME a < b PROVE a * n + n <= b * n
    <2>1. PICK d \in Nat : b = a + 1 + d
      <3>1. b - a - 1 \in Nat /\ b = a + 1 + (b - a - 1)
        BY <1>2
      <3> QED
        BY <3>1
    <2>2. b * n = (a + 1) * n + d * n
      BY <2>1
    <2>3. d * n \in Nat
      OBVIOUS
    <2> QED
      BY <2>2, <2>3, <1>1
  <1> QED
    BY <1>1, <1>2

-----------------------------------------------------------------------------
(* Byte strings.                                                           *)

\* A key is a sequence of bytes.
LEMMA KeyIsSeq ==
    ASSUME NEW k \in Key
    PROVE  /\ k \in Seq(Byte) /\ Len(k) \in 0 .. MaxKeyLen
           /\ DOMAIN k = 1 .. Len(k) /\ \A i \in 1 .. Len(k) : k[i] \in Byte
  <1>1. PICK n \in 0 .. MaxKeyLen : k \in [1 .. n -> Byte]
    BY DEF Key
  <1>2. n \in Nat
    BY SizesAssumption
  <1>3. k \in Seq(Byte)
    BY <1>1, <1>2, SeqDef
  <1>4. Len(k) = n
    BY <1>1, <1>2, <1>3
  <1> QED
    BY <1>1, <1>2, <1>3, <1>4

\* A short enough sequence of bytes is a key.
LEMMA SeqIsKey ==
    ASSUME NEW k \in Seq(Byte), Len(k) <= MaxKeyLen
    PROVE  k \in Key
  <1>1. k \in [1 .. Len(k) -> Byte] /\ Len(k) \in Nat
    BY LenProperties
  <1>2. Len(k) \in 0 .. MaxKeyLen
    BY <1>1, SizesAssumption
  <1> QED
    BY <1>1, <1>2 DEF Key

\* The bytes of a key from one index to another.
LEMMA PartOfKey ==
    ASSUME NEW k \in Key, NEW m \in 1 .. Len(k) + 1, NEW n \in 0 .. Len(k)
    PROVE  /\ SubSeq(k, m, n) \in Seq(Byte)
           /\ Len(SubSeq(k, m, n)) = IF m <= n THEN n - m + 1 ELSE 0
           /\ \A i \in 1 .. n - m + 1 : SubSeq(k, m, n)[i] = k[m + i - 1]
  <1>1. Len(k) \in Nat /\ \A i \in m .. n : k[i] \in Byte
    BY KeyIsSeq, SizesAssumption
  <1> QED
    BY <1>1, SubSeqProperties

\* The shared prefix of two keys is a prefix of both (block.rs
\* shared_prefix_len).
LEMMA SharedPrefix ==
    ASSUME NEW a \in Key, NEW b \in Key
    PROVE  /\ SharedPrefixLen(a, b) \in 0 .. Len(a)
           /\ SharedPrefixLen(a, b) <= Len(b)
           /\ SubSeq(a, 1, SharedPrefixLen(a, b)) = SubSeq(b, 1, SharedPrefixLen(a, b))
  <1> DEFINE C == CommonPrefixes({a, b})
  <1>1. Len(a) \in Nat /\ Len(b) \in Nat
    BY KeyIsSeq, SizesAssumption
  <1>2. ASSUME NEW p \in C
        PROVE  /\ Len(p) \in Nat /\ Len(p) <= Len(a) /\ Len(p) <= Len(b)
               /\ SubSeq(a, 1, Len(p)) = SubSeq(b, 1, Len(p))
    <2>1. PICK s \in {a, b} : p \in Prefixes(s)
      BY DEF CommonPrefixes
    <2>2. PICK l \in 0 .. Len(s) : p = SubSeq(s, 1, l)
      BY <2>1 DEF Prefixes
    <2>3. s \in Key /\ Len(s) \in Nat
      BY <1>1
    <2>4. Len(p) \in Nat
      <3>1. Len(p) = IF 1 <= l THEN l - 1 + 1 ELSE 0
        BY <2>2, <2>3, PartOfKey
      <3> QED
        BY <3>1, <2>3
    <2>5. IsPrefix(p, a) /\ IsPrefix(p, b)
      BY DEF CommonPrefixes
    <2> QED
      BY <2>4, <2>5 DEF IsPrefix
  <1>3. <<>> \in C
    <2>1. SubSeq(a, 1, 0) = <<>> /\ SubSeq(b, 1, 0) = <<>> /\ SubSeq(<<>>, 1, 0) = <<>>
      BY SubSeqEmpty
    <2>2. <<>> \in Prefixes(a)
      BY <2>1, <1>1 DEF Prefixes
    <2>3. IsPrefix(<<>>, a) /\ IsPrefix(<<>>, b)
      BY <2>1, <1>1 DEF IsPrefix
    <2> QED
      BY <2>2, <2>3 DEF CommonPrefixes
  <1>4. \E l \in C : \A p \in C : Len(p) <= Len(l)
    <2> DEFINE Lengths == {Len(p) : p \in C}
    <2>1. Lengths \in SUBSET Nat /\ Lengths # {} /\ \A m \in Lengths : m <= Len(a)
      BY <1>2, <1>3
    <2>2. PICK n \in Lengths : \A m \in Lengths : m <= n
      BY <2>1, <1>1, GreatestOfNat
    <2> QED
      BY <2>2
  <1>5. LongestCommonPrefix({a, b}) \in C
    BY <1>4 DEF LongestCommonPrefix
  <1> DEFINE L == LongestCommonPrefix({a, b})
  <1>6. /\ Len(L) \in Nat /\ Len(L) <= Len(a) /\ Len(L) <= Len(b)
        /\ SubSeq(a, 1, Len(L)) = SubSeq(b, 1, Len(L))
    <2> HIDE DEF C, L
    <2> QED
      BY <1>2, <1>5, Zenon DEF L
  <1>7. SharedPrefixLen(a, b) = Len(L)
    BY DEF SharedPrefixLen
  <1> HIDE DEF L
  <1>8. Len(L) \in 0 .. Len(a)
    BY <1>1, <1>6
  <1> QED
    BY <1>6, <1>7, <1>8

\* A key is its first bytes and the rest of its bytes.
LEMMA SplitKey ==
    ASSUME NEW k \in Key, NEW n \in 0 .. Len(k)
    PROVE  /\ SubSeq(k, 1, n) \o SubSeq(k, n + 1, Len(k)) = k
           /\ SubSeq(k, n + 1, Len(k)) \in Key
           /\ Len(SubSeq(k, n + 1, Len(k))) = Len(k) - n
  <1>1. k \in Seq(Byte) /\ Len(k) \in Nat /\ Len(k) <= MaxKeyLen /\ MaxKeyLen \in Nat
    BY KeyIsSeq, SizesAssumption
  <1>2. 1 \in 1 .. Len(k) + 1 /\ n \in 1 - 1 .. Len(k) /\ Len(k) \in n .. Len(k)
    BY <1>1
  <1>3. SubSeq(k, 1, n) \o SubSeq(k, n + 1, Len(k)) = SubSeq(k, 1, Len(k))
    BY <1>1, <1>2, ConcatAdjacentSubSeq
  <1>4. SubSeq(k, 1, Len(k)) = k
    BY <1>1, SubSeqFull
  <1>5. n + 1 \in 1 .. Len(k) + 1 /\ Len(k) \in 0 .. Len(k)
    BY <1>1
  <1>6. /\ SubSeq(k, n + 1, Len(k)) \in Seq(Byte)
        /\ Len(SubSeq(k, n + 1, Len(k))) = IF n + 1 <= Len(k) THEN Len(k) - (n + 1) + 1 ELSE 0
    BY <1>5, PartOfKey
  <1>7. Len(SubSeq(k, n + 1, Len(k))) = Len(k) - n
    BY <1>1, <1>6
  <1>8. Len(k) - n <= MaxKeyLen
    BY <1>1
  <1>9. SubSeq(k, n + 1, Len(k)) \in Key
    BY <1>6, <1>7, <1>8, SeqIsKey
  <1> QED
    BY <1>3, <1>4, <1>7, <1>9, Zenon

\* Two keys agree below index i.
AgreeBelow(a, b, i) ==
    /\ i - 1 <= Len(a) /\ i - 1 <= Len(b)
    /\ \A j \in 1 .. i - 1 : a[j] = b[j]

\* A key is before another if they agree below some index at which the first
\* ends and the other does not, or has a smaller byte.
LEMMA LessIs ==
    ASSUME NEW a \in Key, NEW b \in Key
    PROVE  Less(a, b) <=> \E i \in Nat \ {0} :
                /\ AgreeBelow(a, b, i) /\ i <= Len(b)
                /\ (i <= Len(a) => a[i] < b[i])
  <1>1. /\ a \in Seq(Byte) /\ Len(a) \in Nat /\ DOMAIN a = 1 .. Len(a)
        /\ b \in Seq(Byte) /\ Len(b) \in Nat /\ DOMAIN b = 1 .. Len(b)
    BY KeyIsSeq, SizesAssumption
  <1>2. ASSUME NEW n \in Nat, n <= Len(a), n <= Len(b)
        PROVE  SubSeq(a, 1, n) = SubSeq(b, 1, n) <=> \A j \in 1 .. n : a[j] = b[j]
    <2>1. /\ SubSeq(a, 1, n) \in Seq(Byte) /\ Len(SubSeq(a, 1, n)) = n
          /\ \A j \in 1 .. n : SubSeq(a, 1, n)[j] = a[j]
      <3>1. 1 \in 1 .. Len(a) + 1 /\ n \in 0 .. Len(a)
        BY <1>1, <1>2
      <3> QED
        BY <3>1, PartOfKey
    <2>2. /\ SubSeq(b, 1, n) \in Seq(Byte) /\ Len(SubSeq(b, 1, n)) = n
          /\ \A j \in 1 .. n : SubSeq(b, 1, n)[j] = b[j]
      <3>1. 1 \in 1 .. Len(b) + 1 /\ n \in 0 .. Len(b)
        BY <1>1, <1>2
      <3> QED
        BY <3>1, PartOfKey
    <2>3. ASSUME \A j \in 1 .. n : a[j] = b[j]
          PROVE  SubSeq(a, 1, n) = SubSeq(b, 1, n)
      BY <2>1, <2>2, <2>3, SeqEqual
    <2>4. ASSUME SubSeq(a, 1, n) = SubSeq(b, 1, n)
          PROVE  \A j \in 1 .. n : a[j] = b[j]
      BY <2>1, <2>2, <2>4
    <2> QED
      BY <2>3, <2>4
  <1>3. ASSUME IsStrictPrefix(a, b)
        PROVE  /\ AgreeBelow(a, b, Len(a) + 1) /\ Len(a) + 1 <= Len(b)
               /\ ~ (Len(a) + 1 <= Len(a))
    <2>1. Len(a) <= Len(b) /\ SubSeq(a, 1, Len(a)) = SubSeq(b, 1, Len(a)) /\ a # b
      BY <1>3 DEF IsStrictPrefix, IsPrefix
    <2>2. \A j \in 1 .. Len(a) : a[j] = b[j]
      <3>1. \A n \in Nat : n <= Len(a) /\ n <= Len(b) /\ SubSeq(a, 1, n) = SubSeq(b, 1, n) =>
                             \A j \in 1 .. n : a[j] = b[j]
        BY <1>2
      <3>2. Len(a) \in Nat /\ Len(a) <= Len(a)
        BY <1>1, SMTT(30)
      <3> QED
        BY <2>1, <3>1, <3>2
    <2>3. Len(a) # Len(b)
      BY <1>1, <2>1, <2>2, SeqEqual
    <2>4. Len(a) + 1 <= Len(b) /\ ~ (Len(a) + 1 <= Len(a)) /\ Len(a) + 1 - 1 = Len(a)
      <3>1. ASSUME NEW m \in Nat, NEW n \in Nat, m <= n, m # n
            PROVE  m + 1 <= n /\ ~ (m + 1 <= m) /\ m + 1 - 1 = m
        BY <3>1
      <3> QED
        BY <1>1, <2>1, <2>3, <3>1, Zenon
    <2>5. AgreeBelow(a, b, Len(a) + 1)
      BY <2>1, <2>2, <2>4 DEF AgreeBelow
    <2> QED
      BY <2>4, <2>5
  <1>4. ASSUME NEW i \in DOMAIN a \cap DOMAIN b,
               SubSeq(a, 1, i - 1) = SubSeq(b, 1, i - 1), a[i] < b[i]
        PROVE  /\ i \in Nat \ {0} /\ AgreeBelow(a, b, i) /\ i <= Len(b)
               /\ (i <= Len(a) => a[i] < b[i])
    <2>1. i \in Nat \ {0} /\ i - 1 \in Nat /\ i <= Len(a) /\ i <= Len(b)
      BY <1>1
    <2>2. \A j \in 1 .. i - 1 : a[j] = b[j]
      BY <1>1, <1>2, <1>4, <2>1
    <2> QED
      BY <1>1, <1>4, <2>1, <2>2 DEF AgreeBelow
  <1>5. ASSUME NEW i \in Nat \ {0}, AgreeBelow(a, b, i), i <= Len(b), i <= Len(a) => a[i] < b[i]
        PROVE  Less(a, b)
    <2>1. i - 1 \in Nat /\ i - 1 <= Len(a) /\ i - 1 <= Len(b)
      BY <1>5 DEF AgreeBelow
    <2>2. SubSeq(a, 1, i - 1) = SubSeq(b, 1, i - 1)
      BY <1>2, <1>5, <2>1 DEF AgreeBelow
    <2>3. CASE i <= Len(a)
      <3>1. i \in DOMAIN a \cap DOMAIN b
        BY <1>1, <1>5, <2>3
      <3> QED
        BY <1>5, <2>2, <2>3, <3>1 DEF Less
    <2>4. CASE ~ (i <= Len(a))
      <3>1. i - 1 = Len(a)
        BY <1>1, <2>1, <2>4
      <3>2. IsPrefix(a, b)
        BY <1>1, <2>1, <2>2, <3>1 DEF IsPrefix
      <3>3. a # b
        BY <1>1, <1>5, <2>4
      <3> QED
        BY <3>2, <3>3 DEF Less, IsStrictPrefix
    <2> QED
      BY <2>3, <2>4
  <1>6. Less(a, b) => \E i \in Nat \ {0} :
                /\ AgreeBelow(a, b, i) /\ i <= Len(b)
                /\ (i <= Len(a) => a[i] < b[i])
    <2>1. CASE IsStrictPrefix(a, b)
      <3>1. Len(a) + 1 \in Nat \ {0}
        BY <1>1
      <3> QED
        BY <1>3, <2>1, <3>1
    <2>2. CASE \E i \in DOMAIN a \cap DOMAIN b :
                 SubSeq(a, 1, i - 1) = SubSeq(b, 1, i - 1) /\ a[i] < b[i]
      BY <1>4, <2>2
    <2> QED
      BY <2>1, <2>2 DEF Less
  <1> QED
    BY <1>5, <1>6

\* No key is before itself.
LEMMA LessIrreflexive ==
    ASSUME NEW a \in Key
    PROVE  ~ Less(a, a)
  <1> SUFFICES ASSUME NEW i \in Nat \ {0}, i <= Len(a), a[i] < a[i] PROVE FALSE
    BY LessIs
  <1>1. i \in 1 .. Len(a)
    BY KeyIsSeq, SizesAssumption
  <1>2. a[i] \in Byte
    BY <1>1, KeyIsSeq
  <1>3. \A x \in Byte : ~ (x < x)
    BY ByteAssumption
  <1> QED
    BY <1>2, <1>3, Zenon

\* The order of keys is transitive.
LEMMA LessTransitive ==
    ASSUME NEW a \in Key, NEW b \in Key, NEW c \in Key, Less(a, b), Less(b, c)
    PROVE  Less(a, c)
  <1>1. PICK i \in Nat \ {0} : /\ AgreeBelow(a, b, i) /\ i <= Len(b)
                               /\ (i <= Len(a) => a[i] < b[i])
    BY LessIs
  <1>2. PICK j \in Nat \ {0} : /\ AgreeBelow(b, c, j) /\ j <= Len(c)
                               /\ (j <= Len(b) => b[j] < c[j])
    BY LessIs
  <1>3. Len(a) \in Nat /\ Len(b) \in Nat /\ Len(c) \in Nat
    BY KeyIsSeq, SizesAssumption
  <1>4. /\ \A x \in 1 .. Len(a) : a[x] \in Int
        /\ \A x \in 1 .. Len(b) : b[x] \in Int
        /\ \A x \in 1 .. Len(c) : c[x] \in Int
    <2>1. Byte \subseteq Int
      BY ByteAssumption
    <2>2. /\ \A x \in 1 .. Len(a) : a[x] \in Byte
          /\ \A x \in 1 .. Len(b) : b[x] \in Byte
          /\ \A x \in 1 .. Len(c) : c[x] \in Byte
      BY KeyIsSeq
    <2> QED
      BY <2>1, <2>2
  <1>5. CASE i < j
    <2>1. AgreeBelow(a, c, i) /\ i <= Len(c) /\ b[i] = c[i]
      BY <1>1, <1>2, <1>3, <1>5 DEF AgreeBelow
    <2> QED
      BY <1>1, <2>1, LessIs
  <1>6. CASE j < i
    <2>1. AgreeBelow(a, c, j) /\ a[j] = b[j] /\ j <= Len(a) /\ j <= Len(b)
      BY <1>1, <1>2, <1>3, <1>6 DEF AgreeBelow
    <2> QED
      BY <1>2, <2>1, LessIs
  <1>7. CASE i = j
    <2>1. AgreeBelow(a, c, i)
      BY <1>1, <1>2, <1>3, <1>7 DEF AgreeBelow
    <2>2. i <= Len(a) => a[i] < c[i]
      <3> SUFFICES ASSUME i <= Len(a) PROVE a[i] < c[i]
        OBVIOUS
      <3>1. a[i] < b[i] /\ b[i] < c[i]
        BY <1>1, <1>2, <1>7
      <3>2. a[i] \in Int /\ b[i] \in Int /\ c[i] \in Int
        BY <1>1, <1>2, <1>3, <1>4, <1>7
      <3> QED
        BY <3>1, <3>2
    <2> QED
      BY <1>2, <1>7, <2>1, <2>2, LessIs
  <1> QED
    BY <1>5, <1>6, <1>7

-----------------------------------------------------------------------------
(* The inductive invariant.                                                *)

Entry == [pos : Nat, shared : 0 .. MaxKeyLen, suffix : Key, val : Value]
Pair == [key : Key, val : Value]

\* The key added before the j-th.
PreviousKey(pairs, j) == IF j = 1 THEN <<>> ELSE pairs[j - 1].key

\* One encoded entry for every key that was added.
Typed ==
    /\ maxSize \in Nat /\ interval \in Nat \ {0}
    /\ buf \in Seq(Entry) /\ added \in Seq(Pair) /\ Len(added) = Len(buf)
    /\ restarts \in Seq(Nat) /\ restarts # <<>>
    /\ lastKey \in Key /\ sinceRestart \in 0 .. interval
    /\ maxSize \in BlockSizes /\ refused \in BOOLEAN

\* Keys were added in strictly ascending order, the last of them is last_key.
Ordered ==
    /\ \A i, j \in 1 .. Len(buf) : i < j => Less(added[i].key, added[j].key)
    /\ buf # <<>> => lastKey = added[Len(buf)].key

\* An entry holds its value, and its key relative to the key before it.
Encoded ==
    \A j \in 1 .. Len(buf) :
        /\ buf[j].val = added[j].val
        /\ added[j].key = Restore(PreviousKey(added, j), buf[j])

\* Entries lie one after the other within the buffer.
Positioned ==
    /\ \A i, j \in 1 .. Len(buf) : i < j => buf[i].pos < buf[j].pos
    /\ \A j \in 1 .. Len(buf) : buf[j].pos < BufLen(buf)

\* Restart r is entry (r - 1) * interval + 1, which stores its key in full.
RestartsPlaced ==
    /\ buf = <<>> => restarts = <<0>> /\ sinceRestart = 0
    /\ buf # <<>> => sinceRestart # 0
    /\ Len(buf) = (Len(restarts) - 1) * interval + sinceRestart
    /\ \A r \in 1 .. Len(restarts), i \in 1 .. Len(buf) :
          i = (r - 1) * interval + 1 => buf[i].pos = restarts[r] /\ buf[i].shared = 0

\* Keys and values so short that a varint takes one byte, as estimated.
ShortEntries == MaxKeyLen < 128 /\ \A v \in Value : ValueLen[v] < 128

\* What add's estimate leaves out: a new restart point takes four bytes, the
\* three varints two less than their estimate or six more than that.
Slack == IF ShortEntries THEN 2 ELSE 10

\* A block of several entries exceeds its maximum by no more than that.
SizeSlack == Len(buf) > 1 => FinishedLen <= maxSize + Slack

\* A finished block is what the builder held.
BlockKept ==
    Finished => block = [entries |-> buf, restarts |-> restarts, end |-> BufLen(buf),
                         len |-> FinishedLen]

BlockInv ==
    Typed /\ Ordered /\ Encoded /\ Positioned /\ RestartsPlaced /\ SizeSlack /\ BlockKept

-----------------------------------------------------------------------------
(* Its proof.                                                              *)

\* The length of a varint (block.rs encode_varint).
LEMMA VarintLenIs ==
    ASSUME NEW n \in Nat
    PROVE  VarintLen(n) \in 1 .. 5 /\ VarintLen(n) <= n + 1 /\ (n < 128 => VarintLen(n) = 1)
  BY DEF VarintLen

\* An encoded entry has a length, at most six bytes above its estimate, and two
\* below it if key and value are short.
LEMMA EncodedLenIs ==
    ASSUME NEW e \in Entry
    PROVE  /\ EncodedLen(e) \in Nat /\ EncodedLen(e) > 0
           /\ EncodedLen(e) <= e.shared + Len(e.suffix) + ValueLen[e.val] + 11
           /\ MaxKeyLen < 128 /\ ValueLen[e.val] < 128 =>
                EncodedLen(e) <= e.shared + Len(e.suffix) + ValueLen[e.val] + 3
  <1> DEFINE s == e.shared  u == Len(e.suffix)  w == ValueLen[e.val]
  <1>1. s \in Nat /\ s <= MaxKeyLen
    BY SizesAssumption DEF Entry
  <1>2. u \in Nat /\ u <= MaxKeyLen
    <2>1. e.suffix \in Key
      BY DEF Entry
    <2> QED
      BY <2>1, KeyIsSeq, SizesAssumption
  <1>3. w \in Nat
    BY ValueLenAssumption DEF Entry
  <1>4. EncodedLen(e) = VarintLen(s) + VarintLen(u) + VarintLen(w) + u + w
    BY DEF EncodedLen
  <1> HIDE DEF s, u, w
  <1>5. /\ VarintLen(s) \in 1 .. 5 /\ VarintLen(s) <= s + 1
        /\ VarintLen(u) \in 1 .. 5 /\ VarintLen(w) \in 1 .. 5
        /\ MaxKeyLen < 128 => VarintLen(s) = 1 /\ VarintLen(u) = 1
        /\ w < 128 => VarintLen(w) = 1
    BY <1>1, <1>2, <1>3, VarintLenIs, SizesAssumption
  <1>6. /\ EncodedLen(e) \in Nat /\ EncodedLen(e) > 0
        /\ EncodedLen(e) <= s + u + w + 11
        /\ MaxKeyLen < 128 /\ w < 128 => EncodedLen(e) <= s + u + w + 3
    <2>1. ASSUME NEW x \in 1 .. 5, NEW y \in 1 .. 5, NEW z \in 1 .. 5,
                 NEW a \in Nat, NEW b \in Nat, NEW c \in Nat, x <= a + 1
          PROVE  /\ x + y + z + b + c \in Nat /\ x + y + z + b + c > 0
                 /\ x + y + z + b + c <= a + b + c + 11
                 /\ x = 1 /\ y = 1 /\ z = 1 => x + y + z + b + c <= a + b + c + 3
      BY <2>1
    <2> QED
      BY <1>1, <1>2, <1>3, <1>4, <1>5, <2>1
  <1> QED
    BY <1>6 DEF s, u, w

\* The buffer has a length.
LEMMA BufLenIs ==
    ASSUME NEW es \in Seq(Entry)
    PROVE  BufLen(es) \in Nat
  <1>1. CASE es = <<>>
    BY <1>1 DEF BufLen
  <1>2. CASE es # <<>>
    <2>1. Len(es) \in 1 .. Len(es)
      BY <1>2
    <2>2. Last(es) \in Entry
      BY <2>1, ElementOfSeq DEF Last
    <2>3. Last(es).pos \in Nat /\ EncodedLen(Last(es)) \in Nat
      BY <2>2, EncodedLenIs DEF Entry
    <2> QED
      BY <1>2, <2>3 DEF BufLen
  <1> QED
    BY <1>1, <1>2

\* The entry that add appends.
NewEntry(k, v) ==
    [pos |-> BufLen(buf), shared |-> Shared(k),
     suffix |-> SubSeq(k, Shared(k) + 1, Len(k)), val |-> v]

\* The new entry restores to the key that was added, and is as long as the
\* estimate but for its varints (block.rs add).
LEMMA NewEntryIs ==
    ASSUME Typed, NEW k \in Key, NEW v \in Value
    PROVE  /\ NewEntry(k, v) \in Entry
           /\ IsRestart \/ buf = <<>> => NewEntry(k, v).shared = 0
           /\ NewEntry(k, v).shared + Len(NewEntry(k, v).suffix) = Len(k)
           /\ buf # <<>> => k = Restore(lastKey, NewEntry(k, v))
           /\ buf = <<>> => k = Restore(<<>>, NewEntry(k, v))
  <1>1. Len(k) \in Nat /\ Len(k) <= MaxKeyLen /\ MaxKeyLen \in Nat /\ k \in Seq(Byte)
    BY KeyIsSeq, SizesAssumption
  <1>2. lastKey \in Key
    BY DEF Typed
  <1>3. Shared(k) \in 0 .. Len(k)
    <2>1. CASE IsRestart \/ buf = <<>>
      BY <1>1, <2>1 DEF Shared
    <2>2. CASE ~ (IsRestart \/ buf = <<>>)
      <3>1. Shared(k) = SharedPrefixLen(lastKey, k)
        BY <2>2 DEF Shared
      <3>2. /\ SharedPrefixLen(lastKey, k) \in 0 .. Len(lastKey)
            /\ SharedPrefixLen(lastKey, k) <= Len(k)
        BY <1>2, SharedPrefix
      <3>3. Len(lastKey) \in Nat
        BY <1>2, KeyIsSeq, SizesAssumption
      <3> QED
        BY <1>1, <3>1, <3>2, <3>3
    <2> QED
      BY <2>1, <2>2
  <1>4. /\ SubSeq(k, 1, Shared(k)) \o SubSeq(k, Shared(k) + 1, Len(k)) = k
        /\ SubSeq(k, Shared(k) + 1, Len(k)) \in Key
        /\ Len(SubSeq(k, Shared(k) + 1, Len(k))) = Len(k) - Shared(k)
    BY <1>3, SplitKey
  <1>5. BufLen(buf) \in Nat
    BY BufLenIs DEF Typed
  <1>6. Shared(k) \in 0 .. MaxKeyLen
    BY <1>1, <1>3
  <1>7. NewEntry(k, v) \in Entry
    BY <1>4, <1>5, <1>6 DEF NewEntry, Entry
  <1>8. Shared(k) + (Len(k) - Shared(k)) = Len(k)
    BY <1>1, <1>3
  <1>9. NewEntry(k, v).shared + Len(NewEntry(k, v).suffix) = Len(k)
    BY <1>4, <1>8 DEF NewEntry
  <1>10. IsRestart \/ buf = <<>> => NewEntry(k, v).shared = 0
    BY DEF NewEntry, Shared
  <1>11. ASSUME NEW p, SubSeq(p, 1, Shared(k)) = SubSeq(k, 1, Shared(k))
         PROVE  k = Restore(p, NewEntry(k, v))
    BY <1>4, <1>11 DEF Restore, NewEntry
  <1>12. ASSUME NEW p, Shared(k) = 0
         PROVE  SubSeq(p, 1, Shared(k)) = SubSeq(k, 1, Shared(k))
    <2>1. SubSeq(p, 1, 0) = <<>> /\ SubSeq(k, 1, 0) = <<>>
      BY SubSeqEmpty
    <2> QED
      BY <1>12, <2>1
  <1>13. buf = <<>> => k = Restore(<<>>, NewEntry(k, v))
    <2>1. buf = <<>> => Shared(k) = 0
      BY DEF Shared
    <2> QED
      BY <1>11, <1>12, <2>1
  <1>14. buf # <<>> => k = Restore(lastKey, NewEntry(k, v))
    <2>1. CASE IsRestart
      BY <1>11, <1>12, <2>1 DEF Shared
    <2>2. CASE ~ IsRestart /\ buf # <<>>
      <3>1. Shared(k) = SharedPrefixLen(lastKey, k)
        BY <2>2 DEF Shared
      <3>2. SubSeq(lastKey, 1, Shared(k)) = SubSeq(k, 1, Shared(k))
        BY <1>2, <3>1, SharedPrefix
      <3> QED
        BY <1>11, <3>2
    <2> QED
      BY <2>1, <2>2
  <1> QED
    BY <1>7, <1>9, <1>10, <1>13, <1>14

\* What add does to the sequences.
LEMMA AddAppends ==
    ASSUME Typed, NEW k \in Key, NEW v \in Value, Add(k, v)
    PROVE  /\ Len(buf) \in Nat /\ (buf = <<>> <=> Len(buf) = 0)
           /\ buf' \in Seq(Entry) /\ Len(buf') = Len(buf) + 1 /\ buf' # <<>>
           /\ \A j \in 1 .. Len(buf) : buf'[j] = buf[j]
           /\ buf'[Len(buf) + 1] = NewEntry(k, v)
           /\ added' \in Seq(Pair) /\ Len(added') = Len(buf) + 1
           /\ \A j \in 1 .. Len(buf) : added'[j] = added[j]
           /\ added'[Len(buf) + 1] = [key |-> k, val |-> v]
           /\ BufLen(buf) \in Nat
           /\ BufLen(buf') = BufLen(buf) + EncodedLen(NewEntry(k, v))
  <1>1. /\ buf \in Seq(Entry) /\ added \in Seq(Pair) /\ Len(added) = Len(buf)
        /\ Len(buf) \in Nat /\ (buf = <<>> <=> Len(buf) = 0)
    BY EmptySeq, LenProperties DEF Typed
  <1>2. buf' = Append(buf, NewEntry(k, v)) /\ added' = Append(added, [key |-> k, val |-> v])
    BY DEF Add, NewEntry
  <1>3. NewEntry(k, v) \in Entry
    BY NewEntryIs
  <1>4. /\ buf' \in Seq(Entry) /\ Len(buf') = Len(buf) + 1 /\ buf' # <<>>
        /\ \A j \in 1 .. Len(buf) : buf'[j] = buf[j]
        /\ buf'[Len(buf) + 1] = NewEntry(k, v)
    BY <1>1, <1>2, <1>3, AppendProperties
  <1>5. [key |-> k, val |-> v] \in Pair
    BY DEF Pair
  <1>6. /\ added' \in Seq(Pair) /\ Len(added') = Len(buf) + 1
        /\ \A j \in 1 .. Len(buf) : added'[j] = added[j]
        /\ added'[Len(buf) + 1] = [key |-> k, val |-> v]
    BY <1>1, <1>2, <1>5, AppendProperties
  <1>7. BufLen(buf) \in Nat
    BY <1>1, BufLenIs
  <1>8. BufLen(buf') = BufLen(buf) + EncodedLen(NewEntry(k, v))
    <2>1. Last(buf') = NewEntry(k, v)
      BY <1>4 DEF Last
    <2>2. BufLen(buf') = NewEntry(k, v).pos + EncodedLen(NewEntry(k, v))
      BY <1>4, <2>1 DEF BufLen
    <2>3. NewEntry(k, v).pos = BufLen(buf)
      BY DEF NewEntry
    <2> QED
      BY <2>2, <2>3
  <1> QED
    BY <1>1, <1>4, <1>6, <1>7, <1>8

\* The builder's parameters and the rest of its state keep their types.
LEMMA AddTyped ==
    ASSUME Typed, RestartsPlaced, NEW k \in Key, NEW v \in Value, Add(k, v)
    PROVE  Typed'
  <1>1. /\ buf' \in Seq(Entry) /\ added' \in Seq(Pair) /\ Len(added') = Len(buf')
    BY AddAppends
  <1>2. restarts' \in Seq(Nat) /\ restarts' # <<>>
    <2>1. CASE IsRestart
      <3>1. restarts' = Append(restarts, BufLen(buf)) /\ BufLen(buf) \in Nat
        BY <2>1, AddAppends DEF Add
      <3> QED
        BY <3>1, AppendProperties, SMTT(30) DEF Typed
    <2>2. CASE ~ IsRestart
      BY <2>2 DEF Add, Typed
    <2> QED
      BY <2>1, <2>2
  <1>3. sinceRestart' \in 0 .. interval
    <2>1. sinceRestart \in Nat /\ interval \in Nat \ {0} /\ sinceRestart <= interval
      BY DEF Typed
    <2>2. CASE IsRestart
      BY <2>1, <2>2 DEF Add
    <2>3. CASE ~ IsRestart
      <3>1. buf # <<>> => sinceRestart < interval
        BY <2>1, <2>3 DEF IsRestart
      <3>2. sinceRestart' = sinceRestart + 1
        BY <2>3 DEF Add
      <3>3. CASE sinceRestart < interval
        BY <2>1, <3>2, <3>3
      <3>4. CASE buf = <<>>
        BY <2>1, <3>2, <3>4 DEF RestartsPlaced
      <3> QED
        BY <2>1, <3>1, <3>3, <3>4
    <2> QED
      BY <2>2, <2>3
  <1>4. maxSize' = maxSize /\ interval' = interval /\ lastKey' = k /\ refused' = refused
    BY DEF Add
  <1> QED
    BY <1>1, <1>2, <1>3, <1>4 DEF Typed

\* The new key is after all earlier ones.
LEMMA AddOrdered ==
    ASSUME Typed, Ordered, NEW k \in Key, NEW v \in Value, Add(k, v)
    PROVE  Ordered'
  <1> DEFINE n == Len(buf)
  <1>1. /\ n \in Nat /\ (buf = <<>> <=> n = 0) /\ Len(buf') = n + 1
        /\ \A j \in 1 .. n : added'[j] = added[j]
        /\ added'[n + 1] = [key |-> k, val |-> v]
    BY AddAppends
  <1>2. \A j \in 1 .. n : added[j].key \in Key
    <2>1. \A j \in 1 .. n : added[j] \in Pair
      BY ElementOfSeq DEF Typed
    <2> QED
      BY <2>1 DEF Pair
  <1>3. ASSUME NEW i \in 1 .. n PROVE Less(added[i].key, k)
    <2>1. n \in 1 .. n /\ n # 0
      BY <1>1, <1>3
    <2>2. Less(added[n].key, k)
      <3>1. added # <<>> /\ Last(added) = added[n]
        BY <1>1, <2>1, EmptySeq DEF Typed, Last
      <3> QED
        BY <3>1 DEF Add, Ascends
    <2>3. CASE i = n
      BY <2>2, <2>3
    <2>4. CASE i < n
      <3>1. Less(added[i].key, added[n].key)
        BY <2>1, <2>4 DEF Ordered
      <3> QED
        BY <1>2, <2>1, <2>2, <3>1, LessTransitive
    <2> QED
      BY <1>1, <2>3, <2>4
  <1>4. ASSUME NEW i \in 1 .. n + 1, NEW j \in 1 .. n + 1, i < j
        PROVE  Less(added'[i].key, added'[j].key)
    <2>1. i \in 1 .. n
      BY <1>1, <1>4
    <2>2. CASE j \in 1 .. n
      BY <1>1, <1>4, <2>1, <2>2 DEF Ordered
    <2>3. CASE j = n + 1
      BY <1>1, <1>3, <2>1, <2>3
    <2> QED
      BY <1>1, <2>2, <2>3
  <1>5. lastKey' = added'[n + 1].key
    <2>1. lastKey' = k
      BY DEF Add
    <2> QED
      BY <1>1, <2>1
  <1> HIDE DEF n
  <1> QED
    BY <1>1, <1>4, <1>5 DEF Ordered

\* The new entry restores the new key from the one before it.
LEMMA AddEncoded ==
    ASSUME Typed, Ordered, Encoded, NEW k \in Key, NEW v \in Value, Add(k, v)
    PROVE  Encoded'
  <1> DEFINE n == Len(buf)  e == NewEntry(k, v)
  <1>1. /\ n \in Nat /\ (buf = <<>> <=> n = 0) /\ Len(buf') = n + 1
        /\ \A j \in 1 .. n : buf'[j] = buf[j] /\ added'[j] = added[j]
        /\ buf'[n + 1] = e /\ added'[n + 1] = [key |-> k, val |-> v]
    BY AddAppends
  <1>2. e.val = v
    BY DEF NewEntry
  <1>3. /\ buf # <<>> => k = Restore(lastKey, e)
        /\ buf = <<>> => k = Restore(<<>>, e)
    BY NewEntryIs
  <1> HIDE DEF n, e
  <1>4. ASSUME NEW j \in 1 .. n
        PROVE  buf'[j].val = added'[j].val /\ added'[j].key = Restore(PreviousKey(added', j), buf'[j])
    <2>1. PreviousKey(added', j) = PreviousKey(added, j)
      <3>1. CASE j = 1
        BY <3>1 DEF PreviousKey
      <3>2. CASE j # 1
        <4>1. j - 1 \in 1 .. n
          BY <1>1, <3>2
        <4> QED
          BY <1>1, <3>2, <4>1 DEF PreviousKey
      <3> QED
        BY <3>1, <3>2
    <2> QED
      BY <1>1, <2>1 DEF Encoded, n
  <1>5. /\ buf'[n + 1].val = added'[n + 1].val
        /\ added'[n + 1].key = Restore(PreviousKey(added', n + 1), buf'[n + 1])
    <2>1. k = Restore(PreviousKey(added', n + 1), e)
      <3>1. CASE n = 0
        BY <1>1, <1>3, <3>1 DEF PreviousKey
      <3>2. CASE n # 0
        <4>1. n + 1 # 1 /\ n + 1 - 1 = n /\ n \in 1 .. n
          BY <1>1, <3>2
        <4>2. PreviousKey(added', n + 1) = added[n].key
          BY <1>1, <4>1 DEF PreviousKey
        <4>3. lastKey = added[n].key
          BY <1>1, <3>2 DEF Ordered, n
        <4> QED
          BY <1>1, <1>3, <3>2, <4>2, <4>3
      <3> QED
        BY <3>1, <3>2
    <2> QED
      BY <1>1, <1>2, <2>1
  <1>6. \A j \in 1 .. n + 1 : j \in 1 .. n \/ j = n + 1
    BY <1>1
  <1> QED
    BY <1>1, <1>4, <1>5, <1>6 DEF Encoded

\* The new entry starts where the buffer ended.
LEMMA AddPositioned ==
    ASSUME Typed, Positioned, NEW k \in Key, NEW v \in Value, Add(k, v)
    PROVE  Positioned'
  <1> DEFINE n == Len(buf)  e == NewEntry(k, v)
  <1>1. /\ n \in Nat /\ Len(buf') = n + 1 /\ BufLen(buf) \in Nat
        /\ \A j \in 1 .. n : buf'[j] = buf[j]
        /\ buf'[n + 1] = e /\ BufLen(buf') = BufLen(buf) + EncodedLen(e)
    BY AddAppends
  <1>2. e.pos = BufLen(buf)
    BY DEF NewEntry
  <1>3. EncodedLen(e) \in Nat /\ EncodedLen(e) > 0
    BY NewEntryIs, EncodedLenIs
  <1>4. \A j \in 1 .. n : buf[j].pos \in Nat /\ buf[j].pos < BufLen(buf)
    <2>1. \A j \in 1 .. n : buf[j] \in Entry
      BY ElementOfSeq DEF Typed
    <2> QED
      BY <2>1 DEF Entry, Positioned
  <1>5. \A i, j \in 1 .. n : i < j => buf[i].pos < buf[j].pos
    BY DEF Positioned
  <1> HIDE DEF n, e
  <1>6. \A j \in 1 .. n + 1 : j \in 1 .. n \/ j = n + 1
    BY <1>1
  <1>7. BufLen(buf) < BufLen(buf')
    BY <1>1, <1>3
  <1>8. ASSUME NEW j \in 1 .. n + 1 PROVE buf'[j].pos < BufLen(buf')
    <2>1. CASE j \in 1 .. n
      <3>1. buf'[j].pos = buf[j].pos /\ buf[j].pos \in Nat /\ buf[j].pos < BufLen(buf)
        BY <1>1, <1>4, <2>1
      <3> QED
        BY <1>1, <1>3, <1>7, <3>1
    <2>2. CASE j = n + 1
      BY <1>1, <1>2, <1>7, <2>2
    <2> QED
      BY <1>6, <2>1, <2>2
  <1>9. ASSUME NEW i \in 1 .. n + 1, NEW j \in 1 .. n + 1, i < j
        PROVE  buf'[i].pos < buf'[j].pos
    <2>1. i \in 1 .. n
      BY <1>1, <1>9
    <2>2. CASE j \in 1 .. n
      BY <1>1, <1>5, <1>9, <2>1, <2>2
    <2>3. CASE j = n + 1
      BY <1>1, <1>2, <1>4, <2>1, <2>3
    <2> QED
      BY <1>6, <2>2, <2>3
  <1> QED
    BY <1>1, <1>8, <1>9 DEF Positioned

\* A restart point is due exactly interval entries after the last one.
LEMMA AddRestartsPlaced ==
    ASSUME Typed, RestartsPlaced, NEW k \in Key, NEW v \in Value, Add(k, v)
    PROVE  RestartsPlaced'
  <1> DEFINE n == Len(buf)  e == NewEntry(k, v)  R == Len(restarts)
  <1>1. /\ n \in Nat /\ (buf = <<>> <=> n = 0) /\ Len(buf') = n + 1 /\ buf' # <<>>
        /\ \A j \in 1 .. n : buf'[j] = buf[j]
        /\ buf'[n + 1] = e /\ BufLen(buf) \in Nat
    BY AddAppends
  <1>2. e.pos = BufLen(buf) /\ (IsRestart \/ n = 0 => e.shared = 0)
    BY <1>1, NewEntryIs DEF NewEntry
  <1>3. /\ interval \in Nat \ {0} /\ interval' = interval
        /\ sinceRestart \in Nat /\ sinceRestart <= interval
        /\ R \in Nat \ {0} /\ restarts \in Seq(Nat)
    BY EmptySeq DEF Typed, Add
  <1>4. /\ n = 0 => R = 1 /\ restarts[1] = 0 /\ sinceRestart = 0 /\ BufLen(buf) = 0
        /\ n # 0 => sinceRestart # 0
        /\ n = (R - 1) * interval + sinceRestart
    BY <1>1 DEF RestartsPlaced, BufLen
  <1>5. ASSUME NEW r \in 1 .. R, NEW i \in 1 .. n, i = (r - 1) * interval + 1
        PROVE  buf[i].pos = restarts[r] /\ buf[i].shared = 0
    BY <1>5 DEF RestartsPlaced
  <1>6. /\ IsRestart => /\ n # 0 /\ sinceRestart = interval
                        /\ restarts' = Append(restarts, BufLen(buf)) /\ sinceRestart' = 1
        /\ ~ IsRestart => restarts' = restarts /\ sinceRestart' = sinceRestart + 1
        /\ ~ IsRestart /\ n # 0 => sinceRestart < interval
    BY <1>1, <1>3 DEF Add, IsRestart
  <1> HIDE DEF n, e, R
  <1>7. ASSUME NEW r \in 1 .. R, (r - 1) * interval + 1 = n + 1
        PROVE  n = 0 /\ r = 1
    <2>1. CASE r = R
      <3>1. sinceRestart = 0
        BY <1>1, <1>3, <1>4, <1>7, <2>1, Multiples
      <3> QED
        BY <1>4, <2>1, <3>1
    <2>2. CASE r < R
      <3>1. r - 1 \in Nat /\ R - 1 \in Nat /\ r - 1 < R - 1
        BY <1>3, <2>2
      <3>2. /\ (r - 1) * interval + interval <= (R - 1) * interval
            /\ (r - 1) * interval \in Nat /\ (R - 1) * interval \in Nat
        BY <1>3, <3>1, Multiples
      <3> QED
        BY <1>1, <1>3, <1>4, <1>7, <3>2
    <2> QED
      BY <1>3, <2>1, <2>2
  <1>8. CASE IsRestart
    <2>1. /\ restarts' \in Seq(Nat) /\ Len(restarts') = R + 1
          /\ \A r \in 1 .. R : restarts'[r] = restarts[r]
          /\ restarts'[R + 1] = BufLen(buf)
      <3>1. restarts' = Append(restarts, BufLen(buf))
        BY <1>6, <1>8
      <3> QED
        BY <1>1, <1>3, <3>1, AppendProperties DEF R
    <2>2. n = R * interval
      <3>1. R - 1 \in Nat /\ R - 1 + 1 = R
        BY <1>3
      <3>2. R * interval = (R - 1) * interval + interval
        BY <1>3, <3>1, Multiples
      <3> QED
        BY <1>3, <1>4, <1>6, <1>8, <3>2
    <2>3. n + 1 = (Len(restarts') - 1) * interval + sinceRestart'
      <3>1. Len(restarts') - 1 = R
        BY <1>3, <2>1
      <3>2. sinceRestart' = 1
        BY <1>6, <1>8
      <3> QED
        BY <2>2, <3>1, <3>2
    <2>4. ASSUME NEW r \in 1 .. R + 1, NEW i \in 1 .. n + 1, i = (r - 1) * interval + 1
          PROVE  buf'[i].pos = restarts'[r] /\ buf'[i].shared = 0
      <3>1. CASE r = R + 1
        <4>1. r - 1 = R
          BY <1>3, <3>1
        <4>2. i = n + 1
          BY <2>2, <2>4, <4>1
        <4> QED
          BY <1>1, <1>2, <1>8, <2>1, <3>1, <4>2
      <3>2. CASE r \in 1 .. R
        <4>1. i # n + 1
          BY <1>6, <1>7, <1>8, <2>4, <3>2
        <4>2. i \in 1 .. n
          BY <1>1, <4>1
        <4> QED
          BY <1>1, <1>5, <2>1, <2>4, <3>2, <4>2, SMTT(30)
      <3> QED
        BY <1>3, <3>1, <3>2
    <2>5. sinceRestart' # 0
      BY <1>6, <1>8
    <2> QED
      BY <1>1, <1>3, <2>1, <2>3, <2>4, <2>5, ZenonT(30) DEF RestartsPlaced
  <1>9. CASE ~ IsRestart
    <2>1. restarts' = restarts /\ sinceRestart' = sinceRestart + 1 /\ Len(restarts') = R
      BY <1>6, <1>9 DEF R
    <2>2. n + 1 = (R - 1) * interval + sinceRestart'
      <3>1. (R - 1) * interval \in Nat
        BY <1>3, Multiples
      <3> QED
        BY <1>3, <1>4, <2>1, <3>1
    <2>3. ASSUME NEW r \in 1 .. R, NEW i \in 1 .. n + 1, i = (r - 1) * interval + 1
          PROVE  buf'[i].pos = restarts'[r] /\ buf'[i].shared = 0
      <3>1. CASE i = n + 1
        BY <1>1, <1>2, <1>4, <1>7, <2>1, <2>3, <3>1
      <3>2. CASE i \in 1 .. n
        BY <1>1, <1>5, <2>1, <2>3, <3>2
      <3> QED
        BY <1>1, <3>1, <3>2
    <2>4. sinceRestart' # 0
      BY <1>3, <2>1
    <2> QED
      BY <1>1, <1>3, <2>1, <2>2, <2>3, <2>4 DEF RestartsPlaced
  <1> QED
    BY <1>8, <1>9

\* add refuses what does not fit, up to the slack of its estimate.
LEMMA AddSizeSlack ==
    ASSUME Typed, NEW k \in Key, NEW v \in Value, Add(k, v)
    PROVE  SizeSlack'
  <1> DEFINE n == Len(buf)  e == NewEntry(k, v)  w == ValueLen[v]
             B == BufLen(buf)  R == Len(restarts)  L == Len(k)  E == EncodedLen(e)
  <1>1. /\ n \in Nat /\ (buf = <<>> <=> n = 0) /\ Len(buf') = n + 1
        /\ B \in Nat /\ BufLen(buf') = B + E
    BY AddAppends
  <1>2. w \in Nat /\ L \in Nat /\ R \in Nat /\ restarts \in Seq(Nat) /\ maxSize \in Nat
    BY ValueLenAssumption, KeyIsSeq, SizesAssumption, LenProperties DEF Typed
  <1>3. E \in Nat /\ E <= L + w + 11 /\ (ShortEntries => E <= L + w + 3)
    <2>1. e \in Entry /\ e.val = v /\ e.shared + Len(e.suffix) = L
      BY NewEntryIs DEF NewEntry
    <2> HIDE DEF e, L, w
    <2>2. /\ E \in Nat
          /\ E <= e.shared + Len(e.suffix) + ValueLen[e.val] + 11
          /\ MaxKeyLen < 128 /\ ValueLen[e.val] < 128 =>
                E <= e.shared + Len(e.suffix) + ValueLen[e.val] + 3
      BY <2>1, EncodedLenIs
    <2>3. ValueLen[e.val] = w
      BY <2>1 DEF w
    <2> QED
      BY <2>1, <2>2, <2>3 DEF ShortEntries, w
  <1>4. Len(restarts') \in Nat /\ Len(restarts') <= R + 1
    <2>1. restarts' = Append(restarts, B) \/ restarts' = restarts
      BY DEF Add
    <2>2. Len(Append(restarts, B)) = R + 1
      BY <1>1, <1>2, AppendProperties
    <2> QED
      BY <1>2, <2>1, <2>2
  <1>5. n # 0 => B + 4 * R + 8 + (5 + L + w) <= maxSize
    <2>1. ~ IsFull(k, v)
      BY DEF Add
    <2>2. EstimatedSize + EstimatedEntry(k, v) = B + 4 * R + 8 + (5 + L + w)
      BY DEF EstimatedSize, EstimatedEntry
    <2> HIDE DEF n, B, R, L, w
    <2> QED
      BY <1>1, <1>2, <2>1, <2>2 DEF IsFull
  <1>6. FinishedLen' = B + E + 4 * Len(restarts') + 4 + 4
    BY <1>1 DEF FinishedLen
  <1>7. maxSize' = maxSize /\ (n + 1 > 1 => n # 0) /\ Slack' = Slack
    BY <1>1 DEF Add, Slack, ShortEntries
  <1>8. ASSUME NEW x \in Nat, NEW y \in Nat, NEW z \in Nat, NEW t \in Nat,
               NEW u \in Nat, NEW y2 \in Nat, NEW c \in {3, 11},
               x + 4 * y + 8 + (5 + z + t) <= u, y2 <= y + 1
        PROVE  \A q \in Nat : q <= z + t + c => x + q + 4 * y2 + 4 + 4 <= u + (c - 1)
    BY <1>8
  <1> HIDE DEF n, e, w, B, R, L, E
  <1>9. ASSUME n # 0 PROVE B + E + 4 * Len(restarts') + 4 + 4 <= maxSize + Slack
    <2>1. CASE ShortEntries
      <3>1. B + E + 4 * Len(restarts') + 4 + 4 <= maxSize + (3 - 1)
        BY <1>1, <1>2, <1>3, <1>4, <1>5, <1>8, <1>9, <2>1
      <3> QED
        BY <2>1, <3>1, <1>2 DEF Slack
    <2>2. CASE ~ ShortEntries
      <3>1. B + E + 4 * Len(restarts') + 4 + 4 <= maxSize + (11 - 1)
        BY <1>1, <1>2, <1>3, <1>4, <1>5, <1>8, <1>9
      <3> QED
        BY <2>2, <3>1, <1>2 DEF Slack
    <2> QED
      BY <2>1, <2>2
  <1> QED
    BY <1>1, <1>6, <1>7, <1>9 DEF SizeSlack

\* The builder starts with the invariant.
LEMMA InitInvariant == Init => BlockInv
  <1> SUFFICES ASSUME Init PROVE BlockInv
    OBVIOUS
  <1>1. buf = <<>> /\ added = <<>> /\ restarts = <<0>> /\ lastKey = <<>> /\ sinceRestart = 0
    BY DEF Init
  <1>2. buf \in Seq(Entry) /\ added \in Seq(Pair) /\ Len(buf) = 0 /\ Len(added) = 0
    BY <1>1, EmptySeq
  <1>3. restarts \in Seq(Nat) /\ restarts # <<>> /\ Len(restarts) = 1 /\ restarts[1] = 0
    BY <1>1
  <1>4. interval \in Nat \ {0} /\ maxSize \in Nat /\ maxSize \in BlockSizes
    BY SizesAssumption DEF Init
  <1>5. lastKey \in Key
    <2>1. <<>> \in Seq(Byte) /\ Len(<<>>) = 0 /\ 0 <= MaxKeyLen
      BY SizesAssumption, EmptySeq
    <2> QED
      BY <1>1, <2>1, SeqIsKey
  <1>6. Typed
    <2>1. sinceRestart \in 0 .. interval
      BY <1>1, <1>4
    <2>2. refused \in BOOLEAN
      BY DEF Init
    <2> QED
      BY <1>1, <1>2, <1>3, <1>4, <1>5, <2>1, <2>2, Zenon DEF Typed
  <1>7. Ordered /\ Encoded /\ Positioned /\ SizeSlack
    BY <1>1, <1>2 DEF Ordered, Encoded, Positioned, SizeSlack
  <1>8. RestartsPlaced
    <2>1. (Len(restarts) - 1) * interval + sinceRestart = 0
      BY <1>1, <1>3, <1>4
    <2> QED
      BY <1>1, <1>2, <2>1 DEF RestartsPlaced
  <1>9. BlockKept
    BY DEF Init, BlockKept, Finished
  <1> QED
    BY <1>6, <1>7, <1>8, <1>9 DEF BlockInv

\* Every step keeps it.
LEMMA NextInvariant == BlockInv /\ [Next]_vars => BlockInv'
  <1> SUFFICES ASSUME BlockInv, [Next]_vars PROVE BlockInv'
    OBVIOUS
  <1>1. ASSUME NEW k \in Key, NEW v \in Value, Add(k, v) PROVE BlockInv'
    <2>1. BlockKept'
      BY <1>1 DEF Add, BlockKept, Finished
    <2> QED
      BY <1>1, <2>1, AddTyped, AddOrdered, AddEncoded, AddPositioned, AddRestartsPlaced,
         AddSizeSlack DEF BlockInv
  <1>2. ASSUME UNCHANGED <<maxSize, interval, buf, restarts, lastKey, sinceRestart, added>>,
               refused' \in BOOLEAN, BlockKept'
        PROVE  BlockInv'
    <2>1. Typed' /\ Ordered' /\ Encoded'
      BY <1>2 DEF BlockInv, Typed, Ordered, Encoded
    <2>2. Positioned' /\ RestartsPlaced' /\ SizeSlack'
      BY <1>2 DEF BlockInv, Positioned, RestartsPlaced, SizeSlack, FinishedLen
    <2> QED
      BY <1>2, <2>1, <2>2 DEF BlockInv
  <1>3. ASSUME NEW k \in Key, NEW v \in Value, AddRefused(k, v) PROVE BlockInv'
    BY <1>2, <1>3 DEF AddRefused, BlockKept, Finished
  <1>4. CASE Finish
    BY <1>2, <1>4 DEF Finish, BlockKept, FinishedLen, BlockInv, Typed
  <1>5. CASE UNCHANGED vars
    BY <1>2, <1>5 DEF vars, BlockKept, Finished, FinishedLen, BlockInv, Typed
  <1> QED
    BY <1>1, <1>3, <1>4, <1>5 DEF Next

\* The inductive invariant holds, for every block size, interval, key and value
\* (block.rs BlockBuilder).
THEOREM BlockInvariant == Spec => []BlockInv
  BY InitInvariant, NextInvariant, PTL DEF Spec

\* Every variable keeps its type (block.rs BlockBuilder).
THEOREM BlockTypeOK == Spec => []TypeOK
  <1>1. BlockInv => TypeOK
    <2> SUFFICES ASSUME Typed PROVE TypeOK
      BY DEF BlockInv
    <2>1. \A i \in DOMAIN buf : buf[i] \in Entry
      BY ElementOfSeq, LenProperties DEF Typed
    <2>2. maxSize \in BlockSizes /\ interval \in Nat \ {0} /\ sinceRestart \in 0 .. interval
      BY DEF Typed
    <2>3. restarts \in Seq(Nat) /\ lastKey \in Key /\ refused \in BOOLEAN
      BY DEF Typed
    <2> QED
      BY <2>1, <2>2, <2>3, Zenon DEF TypeOK, Entry
  <1> QED
    BY <1>1, BlockInvariant, PTL

\* A block of several entries exceeds its maximum by ten bytes at most, whatever
\* the keys and values (block.rs add's estimate against finish).
THEOREM BlockSizeSlack == Spec => [](Finished /\ Len(block.entries) > 1 => block.len <= maxSize + 10)
  <1>1. BlockInv => (Finished /\ Len(block.entries) > 1 => block.len <= maxSize + 10)
    <2> SUFFICES ASSUME BlockInv, Finished, Len(block.entries) > 1
                 PROVE  block.len <= maxSize + 10
      OBVIOUS
    <2>1. block.entries = buf /\ block.len = FinishedLen
      BY DEF BlockInv, BlockKept
    <2>2. FinishedLen <= maxSize + Slack
      BY <2>1 DEF BlockInv, SizeSlack
    <2>3. maxSize \in Nat /\ FinishedLen \in Int
      <3>1. maxSize \in Nat /\ restarts \in Seq(Nat) /\ buf \in Seq(Entry)
        BY DEF BlockInv, Typed
      <3>2. Len(restarts) \in Nat /\ BufLen(buf) \in Nat
        BY <3>1, LenProperties, BufLenIs
      <3> QED
        BY <3>1, <3>2 DEF FinishedLen
    <2> QED
      BY <2>1, <2>2, <2>3 DEF Slack
  <1> QED
    BY <1>1, BlockInvariant, PTL

\* With keys and values below 128 bytes, as in the runs, by two bytes at most
\* (block.rs add's estimate against finish).
THEOREM BlockSizeBound ==
    ASSUME ShortEntries
    PROVE  Spec => []SizeBound
  <1>1. BlockInv => SizeBound
    <2> SUFFICES ASSUME BlockInv, Finished, Len(block.entries) > 1
                 PROVE  block.len <= maxSize + 2
      BY DEF SizeBound
    <2>1. block.entries = buf /\ block.len = FinishedLen
      BY DEF BlockInv, BlockKept
    <2> QED
      BY <2>1 DEF BlockInv, SizeSlack, Slack
  <1> QED
    BY <1>1, BlockInvariant, PTL

\* Restart points are exactly interval entries apart and store their keys in
\* full (block.rs add).
THEOREM BlockRestartsRegular == Spec => []RestartsRegular
  <1>1. BlockInv => RestartsRegular
    <2> SUFFICES ASSUME BlockInv PROVE RestartsRegular
      OBVIOUS
    <2> DEFINE n == Len(buf)  R == Len(restarts)
    <2>1. /\ n \in Nat /\ DOMAIN buf = 1 .. n /\ DOMAIN restarts = 1 .. R /\ R \in Nat \ {0}
          /\ interval \in Nat \ {0} /\ sinceRestart \in Nat /\ sinceRestart <= interval
      BY LenProperties, EmptySeq DEF BlockInv, Typed
    <2>2. /\ buf # <<>> => sinceRestart # 0
          /\ n = (R - 1) * interval + sinceRestart
          /\ \A r \in 1 .. R, i \in 1 .. n :
                i = (r - 1) * interval + 1 => buf[i].pos = restarts[r] /\ buf[i].shared = 0
      BY DEF BlockInv, RestartsPlaced
    <2> HIDE DEF n, R
    <2>3. ASSUME buf # <<>> PROVE R = 1 + (n - 1) \div interval
      <3>1. R - 1 \in Nat /\ sinceRestart - 1 \in 0 .. interval - 1
        BY <2>1, <2>2, <2>3
      <3>2. ((R - 1) * interval + (sinceRestart - 1)) \div interval = R - 1
        BY <2>1, <3>1, DivIs
      <3>3. (R - 1) * interval \in Nat
        BY <2>1, <3>1, Multiples
      <3>4. n - 1 = (R - 1) * interval + (sinceRestart - 1)
        BY <2>1, <2>2, <3>3
      <3>5. (n - 1) \div interval = R - 1
        BY <3>2, <3>4
      <3> QED
        BY <2>1, <3>5
    <2>4. ASSUME NEW r \in 1 .. R, (r - 1) * interval + 1 \in 1 .. n
          PROVE  /\ buf[(r - 1) * interval + 1].pos = restarts[r]
                 /\ buf[(r - 1) * interval + 1].shared = 0
      BY <2>2, <2>4
    <2> QED
      BY <2>1, <2>3, <2>4, Zenon DEF RestartsRegular, n, R
  <1> QED
    BY <1>1, BlockInvariant, PTL

-----------------------------------------------------------------------------
(* Reading a block back.                                                   *)

\* keys are what the entries from the i-th on restore, one from the other.
Restores(blk, i, n, keys) ==
    /\ keys[i] = Restore(<<>>, blk.entries[i])
    /\ \A j \in i + 1 .. n : keys[j] = Restore(keys[j - 1], blk.entries[j])

\* A scan from an entry that stores its key in full decodes the keys that every
\* entry restores from the one before it.
LEMMA DecodedIs ==
    ASSUME NEW blk, NEW i \in Nat \ {0}, NEW n \in Nat, n = Len(blk.entries), i <= n,
           NEW keys, Restores(blk, i, n, keys)
    PROVE  \A j \in i .. n : DecodedFrom(blk, i)[j] = keys[j]
  <1> DEFINE D == i - 1 .. n
             Is(f) == f = [j \in D |-> IF j < i THEN <<>> ELSE Restore(f[j - 1], blk.entries[j])]
             w == [j \in D |-> IF j < i THEN <<>> ELSE keys[j]]
             d == CHOOSE f : Is(f)
  <1>0. /\ keys[i] = Restore(<<>>, blk.entries[i])
        /\ \A j \in i + 1 .. n : keys[j] = Restore(keys[j - 1], blk.entries[j])
    BY DEF Restores
  <1>1. Is(w)
    <2>1. ASSUME NEW j \in D, j >= i PROVE keys[j] = Restore(w[j - 1], blk.entries[j])
      <3>1. j - 1 \in D
        BY <2>1
      <3>2. CASE j = i
        <4>1. j - 1 < i
          BY <3>2
        <4>2. w[j - 1] = <<>>
          BY <3>1, <4>1
        <4> QED
          BY <1>0, <3>2, <4>2
      <3>3. CASE j # i
        <4>1. j \in i + 1 .. n /\ ~ (j - 1 < i)
          BY <2>1, <3>3
        <4>2. w[j - 1] = keys[j - 1]
          BY <3>1, <4>1
        <4> QED
          BY <1>0, <4>1, <4>2
      <3> QED
        BY <3>2, <3>3
    <2> DEFINE g == [j \in D |-> IF j < i THEN <<>> ELSE Restore(w[j - 1], blk.entries[j])]
    <2>2. ASSUME NEW j \in D PROVE w[j] = g[j]
      <3>1. CASE j < i
        BY <3>1
      <3>2. CASE ~ (j < i)
        BY <2>1, <3>2
      <3> QED
        BY <3>1, <3>2
    <2>3. w = [j \in D |-> w[j]] /\ g = [j \in D |-> g[j]]
      OBVIOUS
    <2>4. w = g
      <3> HIDE DEF w, g
      <3> QED
        BY <2>2, <2>3
    <2> HIDE DEF w
    <2> QED
      BY <2>4
  <1> HIDE DEF w
  <1>2. Is(d)
    BY <1>1
  <1>3. DecodedFrom(blk, i) = d
    BY DEF DecodedFrom
  <1>4. \A j \in D : d[j] = IF j < i THEN <<>> ELSE Restore(d[j - 1], blk.entries[j])
    <2> HIDE DEF d
    <2> QED
      BY <1>2
  <1> HIDE DEF d, Is
  <1>5. ASSUME NEW j \in i .. n, d[j] # keys[j] PROVE FALSE
    <2> DEFINE Wrong == {m \in i .. n : d[m] # keys[m]}
    <2>1. Wrong \in SUBSET Nat /\ Wrong # {}
      BY <1>5
    <2>2. PICK m \in Wrong : \A l \in Wrong : m <= l
      BY <2>1, LeastOfNat
    <2>3. m \in D /\ ~ (m < i) /\ m \in i .. n
      OBVIOUS
    <2>4. d[m] = Restore(d[m - 1], blk.entries[m])
      BY <1>4, <2>3
    <2>5. CASE m = i
      <3>1. i - 1 \in D /\ i - 1 < i
        OBVIOUS
      <3>2. d[i - 1] = <<>>
        BY <1>4, <3>1
      <3> QED
        BY <1>0, <2>4, <2>5, <3>2
    <2>6. CASE m # i
      <3>1. m - 1 \in i .. n /\ m - 1 < m /\ m \in i + 1 .. n
        BY <2>3, <2>6
      <3>2. m - 1 \notin Wrong
        BY <2>2, <2>3, <3>1
      <3>3. d[m - 1] = keys[m - 1]
        BY <3>1, <3>2
      <3> QED
        BY <1>0, <2>4, <3>1, <3>3
    <2> QED
      BY <2>5, <2>6
  <1> QED
    BY <1>3, <1>5

\* What a finished block holds, in terms of the keys that were added.
LEMMA FinishedBlock ==
    ASSUME BlockInv, Finished
    PROVE  /\ block.entries = buf /\ block.restarts = restarts /\ block.end = BufLen(buf)
           /\ Len(buf) \in Nat /\ Len(added) = Len(buf)
           /\ DOMAIN buf = 1 .. Len(buf) /\ DOMAIN added = 1 .. Len(buf)
           /\ \A j \in 1 .. Len(buf) : added[j] \in Pair /\ buf[j] \in Entry
           /\ \A j \in 1 .. Len(buf) : buf[j].shared = 0 =>
                /\ added[j].key = Restore(<<>>, buf[j])
                /\ added[j].key = buf[j].suffix
           /\ \A j \in 2 .. Len(buf) : added[j].key = Restore(added[j - 1].key, buf[j])
           /\ buf # <<>> => buf[1].shared = 0
  <1>1. block.entries = buf /\ block.restarts = restarts /\ block.end = BufLen(buf)
    BY DEF BlockInv, BlockKept
  <1>2. /\ Len(buf) \in Nat /\ Len(added) = Len(buf)
        /\ DOMAIN buf = 1 .. Len(buf) /\ DOMAIN added = 1 .. Len(buf)
        /\ (buf = <<>> <=> Len(buf) = 0)
    BY LenProperties, EmptySeq DEF BlockInv, Typed
  <1>3. \A j \in 1 .. Len(buf) : added[j] \in Pair /\ buf[j] \in Entry
    BY <1>2, ElementOfSeq DEF BlockInv, Typed
  <1>4. \A j \in 1 .. Len(buf) : added[j].key = Restore(PreviousKey(added, j), buf[j])
    BY DEF BlockInv, Encoded
  <1>5. ASSUME NEW j \in 1 .. Len(buf), buf[j].shared = 0, NEW p
        PROVE  Restore(p, buf[j]) = buf[j].suffix
    <2>1. SubSeq(p, 1, 0) = <<>>
      BY SubSeqEmpty
    <2>2. buf[j].suffix \in Seq(Byte)
      BY <1>3, KeyIsSeq DEF Entry
    <2>3. <<>> \o buf[j].suffix = buf[j].suffix
      BY <2>2, ConcatEmptySeq
    <2> QED
      BY <1>5, <2>1, <2>3 DEF Restore
  <1>6. \A j \in 2 .. Len(buf) : j \in 1 .. Len(buf) /\ j # 1
    BY <1>2
  <1>7. \A j \in 2 .. Len(buf) : added[j].key = Restore(added[j - 1].key, buf[j])
    BY <1>4, <1>6 DEF PreviousKey
  <1>8. buf # <<>> => buf[1].shared = 0
    <2>1. 1 \in 1 .. Len(restarts) /\ (1 - 1) * interval + 1 = 1
      BY EmptySeq DEF BlockInv, Typed
    <2>2. buf # <<>> => 1 \in 1 .. Len(buf)
      BY <1>2
    <2> QED
      BY <2>1, <2>2 DEF BlockInv, RestartsPlaced
  <1>9. \A j \in 1 .. Len(buf) : buf[j].shared = 0 =>
                /\ added[j].key = Restore(<<>>, buf[j])
                /\ added[j].key = buf[j].suffix
    BY <1>4, <1>5
  <1> QED
    BY <1>1, <1>2, <1>3, <1>7, <1>8, <1>9

\* A finished block decodes to what was added, in order (block.rs
\* BlockIterator).
THEOREM BlockIterCorrect == Spec => []IterCorrect
  <1>1. BlockInv => IterCorrect
    <2> SUFFICES ASSUME BlockInv, Finished PROVE Iter(block) = added
      BY DEF IterCorrect
    <2> DEFINE n == Len(buf)  keys == [j \in 1 .. n |-> added[j].key]
               d == DecodedFrom(block, 1)
    <2>1. /\ block.entries = buf /\ n \in Nat /\ Len(added) = n /\ DOMAIN buf = 1 .. n
          /\ \A j \in 1 .. n : added[j] \in Pair
          /\ \A j \in 2 .. n : added[j].key = Restore(added[j - 1].key, buf[j])
          /\ buf # <<>> => buf[1].shared = 0
          /\ DOMAIN added = 1 .. n
      BY FinishedBlock
    <2>2. \A j \in 1 .. n : d[j] = added[j].key
      <3>1. CASE n = 0
        BY <3>1
      <3>2. CASE n # 0
        <4>1. 1 \in 1 .. n /\ 1 <= n /\ 1 \in Nat \ {0}
          BY <2>1, <3>2
        <4>2. keys[1] = Restore(<<>>, buf[1])
          <5>1. buf # <<>>
            BY <3>2, EmptySeq
          <5> QED
            BY <2>1, <4>1, <5>1, FinishedBlock
        <4>3. \A j \in 1 + 1 .. n : keys[j] = Restore(keys[j - 1], buf[j])
          <5>1. \A j \in 1 + 1 .. n : j \in 2 .. n /\ j \in 1 .. n /\ j - 1 \in 1 .. n
            BY <2>1
          <5> QED
            BY <2>1, <5>1
        <4> HIDE DEF keys, n
        <4>4. Restores(block, 1, n, keys)
          BY <2>1, <4>2, <4>3 DEF Restores
        <4>5. n = Len(block.entries)
          BY <2>1 DEF n
        <4>6. \A j \in 1 .. n : d[j] = keys[j]
          <5>1. n \in Nat
            BY <2>1
          <5> HIDE DEF d
          <5>2. \A j \in 1 .. n : DecodedFrom(block, 1)[j] = keys[j]
            BY <4>1, <4>4, <4>5, <5>1, DecodedIs
          <5> QED
            BY <5>2 DEF d
        <4> QED
          BY <4>6 DEF keys
      <3> QED
        BY <3>1, <3>2
    <2>3. \A j \in 1 .. n : buf[j].val = added[j].val
      BY DEF BlockInv, Encoded
    <2>4. ASSUME NEW j \in 1 .. n PROVE [key |-> d[j], val |-> buf[j].val] = added[j]
      <3>1. added[j] = [key |-> added[j].key, val |-> added[j].val]
        BY <2>1 DEF Pair
      <3> QED
        BY <2>2, <2>3, <3>1
    <2>5. Iter(block) = [j \in 1 .. n |-> [key |-> d[j], val |-> buf[j].val]]
      BY <2>1 DEF Iter
    <2>6. added = [j \in 1 .. n |-> added[j]]
      BY <2>1, LenProperties DEF BlockInv, Typed
    <2> HIDE DEF n, d
    <2> QED
      BY <2>4, <2>5, <2>6
  <1> QED
    BY <1>1, BlockInvariant, PTL

\* The entry that restart r stands for.
First(r) == (r - 1) * interval + 1

\* The restart table leads to that entry, and to its key.
LEMMA RestartEntry ==
    ASSUME BlockInv, Finished, buf # <<>>, NEW r \in 1 .. Len(restarts)
    PROVE  /\ First(r) \in 1 .. Len(buf)
           /\ buf[First(r)].pos = restarts[r] /\ buf[First(r)].shared = 0
           /\ EntryAt(block, block.restarts[r]) = First(r)
           /\ KeyAtRestart(block, r) = added[First(r)].key
  <1> DEFINE n == Len(buf)  R == Len(restarts)  i == First(r)
  <1>1. /\ block.entries = buf /\ block.restarts = restarts /\ n \in Nat
        /\ DOMAIN buf = 1 .. n
        /\ \A j \in 1 .. n : buf[j].shared = 0 => added[j].key = buf[j].suffix
        /\ \A j \in 1 .. n : buf[j] \in Entry
    BY FinishedBlock
  <1>2. /\ R \in Nat \ {0} /\ interval \in Nat \ {0} /\ sinceRestart \in Nat \ {0}
        /\ n = (R - 1) * interval + sinceRestart
    BY EmptySeq DEF BlockInv, Typed, RestartsPlaced
  <1>3. i \in 1 .. n
    <2>1. /\ r - 1 \in Nat /\ R - 1 \in Nat /\ r \in 1 .. R
          /\ (r - 1) * interval \in Nat /\ (R - 1) * interval \in Nat
      BY <1>2, Multiples
    <2> HIDE DEF n, R
    <2>2. (r - 1) * interval <= (R - 1) * interval
      <3>1. CASE r = R
        BY <2>1, <3>1
      <3>2. CASE r # R
        <4>1. r - 1 < R - 1
          BY <1>2, <2>1, <3>2
        <4>2. (r - 1) * interval + interval <= (R - 1) * interval
          BY <1>2, <2>1, <4>1, Multiples
        <4> QED
          BY <1>2, <2>1, <4>2
      <3> QED
        BY <3>1, <3>2
    <2>3. i = (r - 1) * interval + 1
      BY DEF First
    <2> QED
      BY <1>1, <1>2, <2>1, <2>2, <2>3
  <1>4. buf[i].pos = restarts[r] /\ buf[i].shared = 0
    BY <1>3 DEF BlockInv, RestartsPlaced, First
  <1>5. ASSUME NEW j \in 1 .. n, buf[j].pos = restarts[r] PROVE j = i
    <2>1. \A x, y \in 1 .. n : x < y => buf[x].pos < buf[y].pos
      BY DEF BlockInv, Positioned
    <2>2. buf[j].pos \in Nat
      BY <1>1 DEF Entry
    <2> HIDE DEF n, i
    <2> QED
      BY <1>1, <1>3, <1>4, <1>5, <2>1, <2>2
  <1> HIDE DEF n, i
  <1>6. EntryAt(block, block.restarts[r]) = i
    BY <1>1, <1>3, <1>4, <1>5 DEF EntryAt
  <1>7. KeyAtRestart(block, r) = added[i].key
    BY <1>1, <1>3, <1>4, <1>6 DEF KeyAtRestart
  <1> QED
    BY <1>3, <1>4, <1>6, <1>7 DEF n, i

\* Restarts are in the order of their entries.
LEMMA FirstAscends ==
    ASSUME Typed, NEW r \in Nat \ {0}, NEW q \in Nat \ {0}, r < q
    PROVE  First(r) \in Nat /\ First(q) \in Nat /\ First(r) < First(q)
  <1>1. r - 1 \in Nat /\ q - 1 \in Nat /\ r - 1 < q - 1 /\ interval \in Nat \ {0}
    BY DEF Typed
  <1>2. /\ (r - 1) * interval \in Nat /\ (q - 1) * interval \in Nat
        /\ (r - 1) * interval + interval <= (q - 1) * interval
    BY <1>1, Multiples
  <1> QED
    BY <1>1, <1>2 DEF First

\* Where a binary search of lo .. hi ends, if c restarts are before the target
\* and the next one is the target (hit) or is not.
SearchEnd(c, hit, lo, hi) ==
    IF hit /\ lo <= c /\ c < hi THEN c + 1
    ELSE RestartFor(IF c <= lo \/ hi <= lo THEN lo ELSE IF hi <= c THEN hi ELSE c)

Middle(lo, hi) == lo + (hi - lo) \div 2

\* The middle narrows a search, which ends where it did.
Narrows(n, c, hit, lo, hi, mid) ==
    /\ mid \in lo .. hi - 1 /\ mid \in 0 .. n /\ mid + 1 \in 1 .. n /\ mid + 1 \in 0 .. n
    /\ mid + 1 <= c => SearchEnd(c, hit, lo, hi) = SearchEnd(c, hit, mid + 1, hi)
    /\ ~ (mid + 1 <= c) /\ hit /\ mid = c => SearchEnd(c, hit, lo, hi) = mid + 1
    /\ ~ (mid + 1 <= c) /\ ~ (hit /\ mid = c) =>
         SearchEnd(c, hit, lo, hi) = SearchEnd(c, hit, lo, mid)

\* One step of the search ends where the whole search does.
LEMMA SearchStep ==
    ASSUME NEW n \in Nat, NEW c \in 0 .. n, NEW hit \in BOOLEAN,
           NEW lo \in 0 .. n, NEW hi \in 0 .. n, lo < hi,
           NEW mid, mid = Middle(lo, hi)
    PROVE  Narrows(n, c, hit, lo, hi, mid)
  <1>1. mid \in lo .. hi - 1
    <2>1. hi - lo \in Nat \ {0}
      OBVIOUS
    <2>2. ASSUME NEW d \in Nat \ {0} PROVE d \div 2 \in Nat /\ d \div 2 <= d - 1
      OBVIOUS
    <2>3. (hi - lo) \div 2 \in Nat /\ (hi - lo) \div 2 <= hi - lo - 1
      BY <2>1, <2>2
    <2>4. mid = lo + (hi - lo) \div 2
      BY DEF Middle
    <2> QED
      BY <2>3, <2>4
  <1>2. /\ lo \in Nat /\ hi \in Nat /\ c \in Nat /\ mid \in Nat /\ lo <= mid /\ mid < hi
        /\ hi <= n /\ c <= n
    BY <1>1
  <1>3. mid \in 0 .. n /\ mid + 1 \in 1 .. n /\ mid + 1 \in 0 .. n
    BY <1>2
  <1>4. ASSUME mid + 1 <= c PROVE SearchEnd(c, hit, lo, hi) = SearchEnd(c, hit, mid + 1, hi)
    BY <1>2, <1>4 DEF SearchEnd
  <1>5. ASSUME ~ (mid + 1 <= c), hit, mid = c PROVE SearchEnd(c, hit, lo, hi) = mid + 1
    BY <1>2, <1>5 DEF SearchEnd
  <1>6. ASSUME ~ (mid + 1 <= c), ~ (hit /\ mid = c)
        PROVE  SearchEnd(c, hit, lo, hi) = SearchEnd(c, hit, lo, mid)
    BY <1>2, <1>6 DEF SearchEnd
  <1> QED
    BY <1>1, <1>3, <1>4, <1>5, <1>6 DEF Narrows

\* An empty range ends the search.
LEMMA SearchStops ==
    ASSUME NEW n \in Nat, NEW c \in 0 .. n, NEW hit \in BOOLEAN,
           NEW lo \in 0 .. n, NEW hi \in 0 .. n, ~ (lo < hi)
    PROVE  SearchEnd(c, hit, lo, hi) = RestartFor(lo)
  <1>1. ~ (lo <= c /\ c < hi) /\ hi <= lo
    OBVIOUS
  <1> QED
    BY <1>1, Zenon DEF SearchEnd

\* The whole range is one.
LEMMA WholeRange ==
    ASSUME NEW n \in Nat
    PROVE  0 \in 0 .. n /\ n \in 0 .. n
  OBVIOUS

\* c restarts of the block are before the target; hit says whether the next
\* one is the target.
Divides(blk, target, c, hit) ==
    /\ \A r \in 1 .. Len(blk.restarts) : Less(KeyAtRestart(blk, r), target) <=> r <= c
    /\ \A r \in 1 .. Len(blk.restarts) :
          r > c => (KeyAtRestart(blk, r) = target <=> hit /\ r = c + 1)

\* The binary search over the restart points ends there (block.rs
\* find_restart_for_key).
LEMMA FindRestartIs ==
    ASSUME NEW blk, NEW target, NEW n \in Nat, n = Len(blk.restarts),
           NEW c \in 0 .. n, NEW hit \in BOOLEAN, Divides(blk, target, c, hit)
    PROVE  FindRestart(blk, target) = SearchEnd(c, hit, 0, n)
  <1> DEFINE D == (0 .. n) \X (0 .. n)
             Body(f, lo, hi) ==
                IF lo >= hi THEN RestartFor(lo)
                ELSE IF Less(KeyAtRestart(blk, Middle(lo, hi) + 1), target)
                     THEN f[<<Middle(lo, hi) + 1, hi>>]
                ELSE IF KeyAtRestart(blk, Middle(lo, hi) + 1) = target THEN Middle(lo, hi) + 1
                ELSE f[<<lo, Middle(lo, hi)>>]
             Is(f) == f = [p \in D |-> Body(f, p[1], p[2])]
             Below(f, lo, hi) ==
                \A x, y \in 0 .. n : lo <= x /\ y <= hi /\ y - x < hi - lo =>
                    f[<<x, y>>] = SearchEnd(c, hit, x, y)
             w == [p \in D |-> SearchEnd(c, hit, p[1], p[2])]
             s == CHOOSE f : Is(f)
  <1> HIDE DEF Below
  <1>1. FindRestart(blk, target) = s[<<0, n>>]
    BY DEF FindRestart, Middle
  <1>2. ASSUME NEW f, NEW lo \in 0 .. n, NEW hi \in 0 .. n, Below(f, lo, hi)
        PROVE  Body(f, lo, hi) = SearchEnd(c, hit, lo, hi)
    <2>0. PICK mid : mid = Middle(lo, hi)
      OBVIOUS
    <2>1. CASE lo >= hi
      <3>1. ~ (lo < hi)
        BY <2>1
      <3>2. SearchEnd(c, hit, lo, hi) = RestartFor(lo)
        BY <3>1, SearchStops
      <3> QED
        BY <2>1, <3>2
    <2>2. CASE ~ (lo >= hi)
      <3>1. lo < hi
        BY <2>2
      <3>2. Narrows(n, c, hit, lo, hi, mid)
        BY <2>0, <3>1, SearchStep, Zenon
      <3>3. f[<<mid + 1, hi>>] = SearchEnd(c, hit, mid + 1, hi)
        <4>1. lo <= mid + 1 /\ hi <= hi /\ hi - (mid + 1) < hi - lo
          BY <3>1, <3>2 DEF Narrows
        <4> QED
          BY <1>2, <3>2, <4>1 DEF Narrows, Below
      <3>4. f[<<lo, mid>>] = SearchEnd(c, hit, lo, mid)
        <4>1. lo <= lo /\ mid <= hi /\ mid - lo < hi - lo
          BY <3>1, <3>2 DEF Narrows
        <4> QED
          BY <1>2, <3>2, <4>1 DEF Narrows, Below
      <3>5. Body(f, lo, hi) = IF Less(KeyAtRestart(blk, mid + 1), target) THEN f[<<mid + 1, hi>>]
                              ELSE IF KeyAtRestart(blk, mid + 1) = target THEN mid + 1
                              ELSE f[<<lo, mid>>]
        BY <2>0, <2>2, Zenon
      <3>6. Less(KeyAtRestart(blk, mid + 1), target) <=> mid + 1 <= c
        BY <3>2 DEF Divides, Narrows
      <3>7. mid + 1 > c => (KeyAtRestart(blk, mid + 1) = target <=> hit /\ mid = c)
        BY <3>2 DEF Divides, Narrows
      <3> HIDE DEF Body
      <3> QED
        BY <3>2, <3>3, <3>4, <3>5, <3>6, <3>7 DEF Narrows
    <2> QED
      BY <2>1, <2>2
  <1> HIDE DEF Body
  <1>3. \A p \in D : p[1] \in 0 .. n /\ p[2] \in 0 .. n /\ p = <<p[1], p[2]>>
    OBVIOUS
  <1>4. \A x, y \in 0 .. n : <<x, y>> \in D /\ <<x, y>>[1] = x /\ <<x, y>>[2] = y
    OBVIOUS
  <1> HIDE DEF D
  <1>5. \A x, y \in 0 .. n : w[<<x, y>>] = SearchEnd(c, hit, x, y)
    BY <1>4
  <1> HIDE DEF w
  <1>6. \A p \in D : Body(w, p[1], p[2]) = SearchEnd(c, hit, p[1], p[2])
    <2>1. \A lo, hi \in 0 .. n : Below(w, lo, hi)
      BY <1>5 DEF Below
    <2> QED
      BY <1>2, <1>3, <2>1
  <1>7. Is(w)
    BY <1>6 DEF w
  <1>8. Is(s)
    BY <1>7
  <1> HIDE DEF s
  <1>9. ASSUME NEW lo \in 0 .. n, NEW hi \in 0 .. n PROVE s[<<lo, hi>>] = Body(s, lo, hi)
    BY <1>4, <1>8
  <1> HIDE DEF Is
  <1>10. ASSUME NEW lo \in 0 .. n, NEW hi \in 0 .. n, s[<<lo, hi>>] # SearchEnd(c, hit, lo, hi)
         PROVE  FALSE
    <2> DEFINE Width(x, y) == IF y <= x THEN 0 ELSE y - x
               Wrong == {d \in Nat : \E x, y \in 0 .. n :
                            d = Width(x, y) /\ s[<<x, y>>] # SearchEnd(c, hit, x, y)}
    <2>1. \A x, y \in 0 .. n : Width(x, y) \in Nat
      OBVIOUS
    <2>2. Wrong \in SUBSET Nat /\ Wrong # {}
      BY <1>10, <2>1, ZenonT(30)
    <2>3. PICK d \in Wrong : \A e \in Wrong : d <= e
      BY <2>2, LeastOfNat
    <2>4. PICK x \in 0 .. n, y \in 0 .. n :
              d = Width(x, y) /\ s[<<x, y>>] # SearchEnd(c, hit, x, y)
      OBVIOUS
    <2>5. ASSUME NEW u \in 0 .. n, NEW v \in 0 .. n, x <= u, v <= y, v - u < y - x
          PROVE  s[<<u, v>>] = SearchEnd(c, hit, u, v)
      <3>1. CASE y > x
        <4>1. Width(u, v) \in Nat /\ Width(u, v) < d
          BY <2>1, <2>4, <2>5, <3>1
        <4>2. Width(u, v) \notin Wrong
          <5> HIDE DEF Width, Wrong
          <5>1. d \in Nat
            BY <2>2, <2>3
          <5> QED
            BY <2>3, <4>1, <5>1
        <4> HIDE DEF Width
        <4> QED
          BY <4>1, <4>2
      <3>2. CASE ~ (y > x)
        <4>1. CASE s[<<u, v>>] = SearchEnd(c, hit, u, v)
          BY <4>1
        <4>2. CASE s[<<u, v>>] # SearchEnd(c, hit, u, v)
          <5>1. v <= u
            BY <2>5, <3>2
          <5>2. Body(s, u, v) = RestartFor(u)
            BY <5>1 DEF Body
          <5>3. ~ (u < v)
            BY <5>1
          <5>4. SearchEnd(c, hit, u, v) = RestartFor(u)
            BY <5>3, SearchStops, SMTT(30)
          <5> QED
            BY <1>9, <5>2, <5>4
        <4> QED
          BY <4>1, <4>2
      <3> QED
        BY <3>1, <3>2 DEF Narrows
    <2>6. Body(s, x, y) = SearchEnd(c, hit, x, y)
      <3>1. Below(s, x, y)
        BY <2>5 DEF Below
      <3> QED
        BY <1>2, <3>1
    <2> QED
      BY <1>9, <2>4, <2>6
  <1>11. 0 \in 0 .. n /\ n \in 0 .. n
    BY WholeRange
  <1> QED
    BY <1>1, <1>10, <1>11

\* Keys of different entries are different, and in the order of the entries.
LEMMA KeysTellEntries ==
    ASSUME BlockInv, Finished, NEW i \in 1 .. Len(buf), NEW j \in 1 .. Len(buf)
    PROVE  /\ added[i].key \in Key
           /\ Less(added[i].key, added[j].key) <=> i < j
           /\ added[i].key = added[j].key <=> i = j
  <1>1. Len(buf) \in Nat /\ added[i].key \in Key /\ added[j].key \in Key
    BY FinishedBlock DEF Pair
  <1>2. \A x, y \in 1 .. Len(buf) : x < y => Less(added[x].key, added[y].key)
    BY DEF BlockInv, Ordered
  <1>3. CASE i < j
    <2>1. Less(added[i].key, added[j].key)
      BY <1>2, <1>3
    <2> QED
      BY <1>1, <1>3, <2>1, LessIrreflexive
  <1>4. CASE j < i
    <2>1. Less(added[j].key, added[i].key)
      BY <1>2, <1>4
    <2>2. ~ Less(added[i].key, added[j].key)
      BY <1>1, <2>1, LessTransitive, LessIrreflexive
    <2>3. added[i].key # added[j].key
      BY <1>1, <2>1, LessIrreflexive
    <2> QED
      BY <1>1, <1>4, <2>2, <2>3
  <1>5. CASE i = j
    BY <1>1, <1>5, LessIrreflexive
  <1> QED
    BY <1>1, <1>3, <1>4, <1>5

\* Restarts keep the order of their keys, so that a target divides them.
LEMMA TargetDivides ==
    ASSUME BlockInv, Finished, buf # <<>>, NEW k \in Key
    PROVE  \E c \in 0 .. Len(restarts), hit \in BOOLEAN :
               Divides(block, k, c, hit) /\ (hit => c < Len(restarts))
  <1> DEFINE R == Len(restarts)  K(r) == KeyAtRestart(block, r)
  <1>1. R \in Nat \ {0} /\ block.restarts = restarts
    BY EmptySeq, FinishedBlock DEF BlockInv, Typed
  <1>2. \A r \in 1 .. R : K(r) \in Key
    BY RestartEntry, KeysTellEntries
  <1>3. ASSUME NEW r \in 1 .. R, NEW q \in 1 .. R, r < q PROVE Less(K(r), K(q))
    <2>1. First(r) < First(q)
      <3>1. r \in Nat \ {0} /\ q \in Nat \ {0}
        OBVIOUS
      <3> QED
        BY <1>3, <3>1, FirstAscends DEF BlockInv
    <2>2. First(r) \in 1 .. Len(buf) /\ First(q) \in 1 .. Len(buf)
      BY RestartEntry
    <2>3. K(r) = added[First(r)].key /\ K(q) = added[First(q)].key
      BY RestartEntry
    <2> HIDE DEF K
    <2> QED
      BY <2>1, <2>2, <2>3, KeysTellEntries
  <1> HIDE DEF K, R
  <1> DEFINE Rest == {r \in 1 .. R : ~ Less(K(r), k)} \cup {R + 1}
  <1>4. Rest \in SUBSET Nat /\ Rest # {}
    BY <1>1
  <1>5. PICK m \in Rest : \A r \in Rest : m <= r
    BY <1>4, LeastOfNat
  <1>6. m \in 1 .. R + 1
    BY <1>1
  <1> DEFINE c == m - 1  hit == c < R /\ K(m) = k
  <1>7. c \in 0 .. R /\ hit \in BOOLEAN /\ c + 1 = m
    BY <1>1, <1>6
  <1>8. ASSUME NEW r \in 1 .. R, r < m PROVE Less(K(r), k)
    <2>1. r \notin Rest
      BY <1>5, <1>6, <1>8, <1>1
    <2> QED
      BY <2>1
  <1>9. ASSUME m \in 1 .. R PROVE ~ Less(K(m), k)
    BY <1>1, <1>9
  <1>10. ASSUME NEW r \in 1 .. R, ~ (r < m), Less(K(r), k) PROVE FALSE
    <2>1. m \in 1 .. R
      BY <1>1, <1>6, <1>10
    <2>2. CASE r = m
      BY <1>9, <1>10, <2>2
    <2>3. CASE r # m
      <3>1. m < r
        BY <1>1, <1>6, <1>10, <2>3
      <3>2. Less(K(m), K(r))
        BY <1>3, <2>1, <3>1
      <3>3. Less(K(m), k)
        BY <1>2, <1>10, <2>1, <3>2, LessTransitive
      <3> QED
        BY <1>9, <2>1, <3>3
    <2> QED
      BY <2>2, <2>3
  <1>11. ASSUME NEW r \in 1 .. R, ~ (r < m), K(r) = k PROVE r = m
    <2>1. m \in 1 .. R
      BY <1>1, <1>6, <1>11
    <2>2. m < r => Less(K(m), k)
      BY <1>3, <1>11, <2>1
    <2> QED
      BY <1>1, <1>6, <1>9, <1>11, <2>1, <2>2
  <1> HIDE DEF Rest
  <1>12. ASSUME NEW r \in 1 .. R
         PROVE  /\ Less(K(r), k) <=> r <= c
                /\ r > c => (K(r) = k <=> hit /\ r = c + 1)
    <2>1. (r <= c <=> r < m) /\ (r > c <=> ~ (r < m))
      BY <1>1, <1>6
    <2>2. Less(K(r), k) <=> r <= c
      BY <1>8, <1>10, <2>1
    <2>3. r = m => c < R
      BY <1>1
    <2>4. r > c => (K(r) = k <=> hit /\ r = c + 1)
      BY <1>7, <1>11, <2>1, <2>3
    <2> QED
      BY <2>2, <2>4
  <1> HIDE DEF c
  <1>13. Divides(block, k, c, hit)
    BY <1>1, <1>12 DEF Divides, K, R
  <1>14. hit => c < R
    OBVIOUS
  <1> HIDE DEF hit
  <1> QED
    BY <1>7, <1>13, <1>14 DEF R

\* The restart that the search finds is at or before every entry with the
\* target's key, and the next one is after it.
LEMMA FoundInterval ==
    ASSUME BlockInv, Finished, buf # <<>>, NEW k \in Key
    PROVE  /\ FindRestart(block, k) \in 1 .. Len(restarts)
           /\ \A j \in 1 .. Len(buf) : added[j].key = k =>
                /\ First(FindRestart(block, k)) <= j
                /\ FindRestart(block, k) < Len(restarts) =>
                      j < First(FindRestart(block, k) + 1)
  <1> DEFINE R == Len(restarts)  f == FindRestart(block, k)
  <1>1. R \in Nat \ {0} /\ block.restarts = restarts /\ Len(buf) \in Nat
    BY EmptySeq, FinishedBlock DEF BlockInv, Typed
  <1>2. PICK c \in 0 .. R, hit \in BOOLEAN :
            Divides(block, k, c, hit) /\ (hit => c < R)
    BY TargetDivides
  <1>3. f = SearchEnd(c, hit, 0, R)
    BY <1>1, <1>2, FindRestartIs
  <1>4. /\ \A r \in 1 .. R : Less(added[First(r)].key, k) <=> r <= c
        /\ \A r \in 1 .. R : r > c => (added[First(r)].key = k <=> hit /\ r = c + 1)
    BY <1>1, <1>2, RestartEntry DEF Divides
  <1>5. \A r \in 1 .. R : First(r) \in 1 .. Len(buf)
    BY RestartEntry
  <1> HIDE DEF R, f
  <1>6. /\ hit => f = c + 1 /\ c + 1 \in 1 .. R
        /\ ~ hit => f = (IF c > 0 THEN c ELSE 1)
    <2>1. hit => c + 1 \in 1 .. R
      BY <1>1, <1>2
    <2>2. hit => f = c + 1
      BY <1>1, <1>2, <1>3 DEF SearchEnd
    <2>3. (IF c <= 0 \/ R <= 0 THEN 0 ELSE IF R <= c THEN R ELSE c) = c
      BY <1>1
    <2>4. ~ hit => f = RestartFor(c)
      BY <1>3, <2>3 DEF SearchEnd
    <2> QED
      BY <2>1, <2>2, <2>4 DEF RestartFor
  <1>7. f \in 1 .. R
    BY <1>1, <1>6
  <1>8. ASSUME NEW r \in 1 .. R, r < R PROVE First(r) < First(r + 1) /\ r + 1 \in 1 .. R
    <2>1. r \in Nat \ {0} /\ r + 1 \in Nat \ {0} /\ r < r + 1 /\ r + 1 \in 1 .. R
      BY <1>1, <1>8
    <2> QED
      BY <2>1, FirstAscends DEF BlockInv
  <1>9. ASSUME NEW j \in 1 .. Len(buf), added[j].key = k, NEW r \in 1 .. R
        PROVE  /\ r <= c <=> First(r) < j
               /\ r > c => (hit /\ r = c + 1 <=> First(r) = j)
    <2>1. First(r) \in 1 .. Len(buf)
      BY <1>5
    <2>2. Less(added[First(r)].key, k) <=> First(r) < j
      BY <1>9, <2>1, KeysTellEntries
    <2>3. added[First(r)].key = k <=> First(r) = j
      BY <1>9, <2>1, KeysTellEntries
    <2> QED
      BY <1>4, <2>2, <2>3
  <1>10. ASSUME NEW j \in 1 .. Len(buf), added[j].key = k
         PROVE  First(f) <= j /\ (f < R => j < First(f + 1))
    <2>1. /\ First(f) \in 1 .. Len(buf)
          /\ f < R => First(f) < First(f + 1) /\ First(f + 1) \in 1 .. Len(buf) /\ f + 1 \in 1 .. R
      BY <1>5, <1>7, <1>8
    <2>2. CASE hit
      <3>1. f = c + 1 /\ f > c
        BY <1>6, <2>2
      <3>2. First(f) = j
        BY <1>7, <1>9, <1>10, <2>2, <3>1
      <3> QED
        BY <2>1, <3>2
    <2>3. CASE ~ hit
      <3>1. First(f) <= j
        <4>1. CASE c > 0
          <5>1. f = c /\ f <= c
            BY <1>6, <2>3, <4>1
          <5>2. First(f) < j
            BY <1>7, <1>9, <1>10, <5>1
          <5> QED
            BY <2>1, <5>2
        <4>2. CASE ~ (c > 0)
          <5>1. f = 1
            BY <1>6, <2>3, <4>2
          <5>2. First(1) = 1
            BY DEF First, BlockInv, Typed
          <5> QED
            BY <5>1, <5>2
        <4> QED
          BY <4>1, <4>2
      <3>2. ASSUME f < R PROVE j < First(f + 1)
        <4>1. f + 1 > c
          BY <1>1, <1>6, <2>3
        <4>2. f + 1 \in 1 .. R /\ First(f + 1) \in 1 .. Len(buf)
          BY <2>1, <3>2
        <4>3. ~ (First(f + 1) < j)
          <5>1. ~ (f + 1 <= c)
            BY <1>1, <4>1, <4>2
          <5> QED
            BY <1>9, <1>10, <4>2, <5>1
        <4>4. First(f + 1) # j
          BY <1>9, <1>10, <2>3, <4>1, <4>2
        <4> QED
          BY <1>1, <4>2, <4>3, <4>4
      <3> QED
        BY <3>1, <3>2
    <2> QED
      BY <2>2, <2>3
  <1> QED
    BY <1>7, <1>10 DEF R, f

\* A lookup answers exactly what was added (block.rs BlockReader::get).
THEOREM BlockGetCorrect == Spec => []GetCorrect
  <1>1. ASSUME BlockInv, Finished, added # <<>>, NEW k \in Key
        PROVE  Get(block, k) = IF Matches(k) = {} THEN NotFound
                               ELSE added[CHOOSE i \in Matches(k) : TRUE].val
    <2> USE <1>1
    <2> DEFINE n == Len(buf)  R == Len(restarts)
               r == FindRestart(block, k)
               first == EntryAt(block, block.restarts[r])
               end == IF r < Len(block.restarts) THEN block.restarts[r + 1] ELSE block.end
               decoded == DecodedFrom(block, first)
               hits == {j \in first .. Len(block.entries) :
                          /\ block.entries[j].pos < end
                          /\ decoded[j] = k
                          /\ \A i \in first .. j - 1 : Less(decoded[i], k)}
    <2>1. /\ block.entries = buf /\ block.restarts = restarts /\ block.end = BufLen(buf)
          /\ n \in Nat /\ n # 0 /\ buf # <<>> /\ DOMAIN added = 1 .. n
          /\ \A j \in 2 .. n : added[j].key = Restore(added[j - 1].key, buf[j])
          /\ \A j \in 1 .. n : buf[j].shared = 0 => added[j].key = Restore(<<>>, buf[j])
      <3>1. Len(added) = Len(buf) /\ Len(buf) # 0 /\ buf # <<>>
        BY FinishedBlock, EmptySeq DEF BlockInv, Typed
      <3> QED
        BY <3>1, FinishedBlock
    <2>2. Get(block, k) = IF hits = {} THEN NotFound
                          ELSE block.entries[CHOOSE j \in hits : TRUE].val
      BY <2>1 DEF Get
    <2>3. /\ r \in 1 .. R
          /\ \A j \in 1 .. n : added[j].key = k =>
                First(r) <= j /\ (r < R => j < First(r + 1))
      BY <2>1, FoundInterval
    <2>4. first = First(r) /\ First(r) \in 1 .. n /\ buf[First(r)].shared = 0
      BY <2>1, <2>3, RestartEntry
    <2>5. \A j \in first .. n : decoded[j] = added[j].key
      <3> DEFINE keys == [j \in 1 .. n |-> added[j].key]
      <3>1. first \in Nat \ {0} /\ first <= n /\ first \in 1 .. n
        BY <2>4
      <3>2. keys[first] = Restore(<<>>, block.entries[first])
        BY <2>1, <2>4, <3>1
      <3>3. \A j \in first + 1 .. n : keys[j] = Restore(keys[j - 1], block.entries[j])
        <4> HIDE DEF first
        <4>1. \A j \in first + 1 .. n : j \in 2 .. n /\ j \in 1 .. n /\ j - 1 \in 1 .. n
          BY <2>1, <3>1
        <4> QED
          BY <2>1, <4>1
      <3>4. \A j \in first .. n : j \in 1 .. n
        BY <3>1
      <3>5. n = Len(block.entries)
        BY <2>1
      <3> HIDE DEF keys, first, n
      <3>6. Restores(block, first, n, keys)
        BY <3>2, <3>3, Zenon DEF Restores
      <3>7. \A j \in first .. n : decoded[j] = keys[j]
        <4>1. n \in Nat
          BY <2>1
        <4> HIDE DEF decoded
        <4>2. \A j \in first .. n : DecodedFrom(block, first)[j] = keys[j]
          BY <3>1, <3>5, <3>6, <4>1, DecodedIs
        <4> QED
          BY <4>2 DEF decoded
      <3> QED
        BY <3>4, <3>7 DEF keys
    <2>6. ASSUME NEW j \in 1 .. n, r < R => j < First(r + 1) PROVE buf[j].pos < end
      <3>1. CASE r < R
        <4>1. r + 1 \in 1 .. R
          BY <2>3, <3>1
        <4>2. end = buf[First(r + 1)].pos /\ First(r + 1) \in 1 .. n
          BY <2>1, <3>1, <4>1, RestartEntry
        <4> QED
          BY <2>6, <3>1, <4>2 DEF BlockInv, Positioned
      <3>2. CASE ~ (r < R)
        <4>1. end = BufLen(buf)
          BY <2>1, <3>2
        <4> QED
          BY <4>1 DEF BlockInv, Positioned
      <3> QED
        BY <3>1, <3>2
    <2> HIDE DEF decoded, end, first, r, n, R
    <2>7. ASSUME NEW j \in Matches(k) PROVE j \in hits
      <3>1. j \in 1 .. n /\ added[j].key = k
        BY <2>1 DEF Matches
      <3>2. j \in first .. n
        BY <2>1, <2>3, <2>4, <3>1
      <3>3. buf[j].pos < end
        BY <2>3, <2>6, <3>1
      <3>4. ASSUME NEW i \in first .. j - 1 PROVE Less(decoded[i], k)
        <4>1. i \in first .. n /\ i \in 1 .. n /\ i < j
          BY <2>1, <2>4, <3>1, <3>2
        <4>2. Less(added[i].key, added[j].key)
          BY <3>1, <4>1, KeysTellEntries DEF n
        <4> QED
          BY <2>5, <3>1, <4>1, <4>2
      <3> QED
        <4>1. block.entries = buf /\ Len(block.entries) = n
          BY <2>1 DEF n
        <4>2. decoded[j] = k
          BY <2>5, <3>1, <3>2
        <4> QED
          BY <3>2, <3>3, <3>4, <4>1, <4>2, Zenon
    <2>8. ASSUME NEW j \in hits PROVE j \in Matches(k)
      <3>1. j \in first .. n /\ decoded[j] = k
        BY <2>1 DEF n
      <3>2. j \in 1 .. n
        BY <2>1, <2>4, <3>1
      <3> QED
        BY <2>1, <2>5, <3>1, <3>2 DEF Matches
    <2>9. hits = Matches(k)
      BY <2>7, <2>8
    <2> HIDE DEF hits
    <2>10. ASSUME Matches(k) # {}
           PROVE  buf[CHOOSE j \in Matches(k) : TRUE].val = added[CHOOSE j \in Matches(k) : TRUE].val
      <3>1. (CHOOSE j \in Matches(k) : TRUE) \in Matches(k)
        BY <2>10
      <3>2. Matches(k) \subseteq 1 .. n
        BY <2>1 DEF Matches
      <3>3. \A j \in 1 .. n : buf[j].val = added[j].val
        BY DEF BlockInv, Encoded, n
      <3> QED
        BY <3>1, <3>2, <3>3
    <2> QED
      BY <2>1, <2>2, <2>9, <2>10
  <1>2. BlockInv => GetCorrect
    BY <1>1 DEF GetCorrect
  <1> QED
    BY <1>2, BlockInvariant, PTL
=============================================================================
