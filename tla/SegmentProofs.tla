--------------------------- MODULE SegmentProofs ---------------------------
(***************************************************************************)
(* Theorems about Segment: its types, the writer's invariant, that         *)
(* finishing never fails, and that every lookup on a finished segment      *)
(* answers exactly what was added.                                         *)
(*                                                                         *)
(* Theorems about SegmentDamage: a damaged segment never makes a reader    *)
(* lie, for any number of faults, in any of its parts, and for any keys,   *)
(* values and options.  What is shown of the writer holds there too,       *)
(* because damage leaves it alone.                                         *)
(***************************************************************************)
EXTENDS SegmentDamage, SegmentFormatProofs, TLAPS

-----------------------------------------------------------------------------
(* Helpers of the block builder.                                           *)

BuilderType == [entries : Seq(EntryType), buf : Nat, restarts : Nat,
                sinceRestart : Nat]

\* The last element of a non-empty sequence is one of its elements.
LEMMA LastInSet ==
    ASSUME NEW S, NEW s \in Seq(S), s # <<>>
    PROVE  Last(s) \in S /\ Len(s) \in DOMAIN s
  BY DEF Last

\* Keys and values have lengths.
LEMMA LengthsNat ==
    /\ \A k \in Key : KeyLen[k] \in Nat
    /\ \A v \in Value : ValueLen[v] \in Nat
  <1>1. KeyLen \in [Key -> Nat] /\ ValueLen \in [Value -> Nat]
    BY LengthAssumption, Zenon
  <1> QED
    BY <1>1

\* A shared prefix is not longer than the key.
LEMMA SharedPrefixNat ==
    \A a, b \in Key : SharedPrefix[a, b] \in Nat /\ SharedPrefix[a, b] <= KeyLen[b]
  <1>1. /\ SharedPrefix \in [Key \X Key -> Nat]
        /\ \A a, b \in Key : SharedPrefix[a, b] <= KeyLen[b]
    BY LengthAssumption, Zenon
  <1> QED
    BY <1>1

\* A varint has a length in bytes.
LEMMA VarintLenNat == \A n : VarintLen(n) \in Nat
  BY DEF VarintLen

\* The encoding of an entry has a length in bytes: the shared prefix is never
\* longer than the key (block.rs BlockBuilder::add).
LEMMA EncodedLenNat ==
    ASSUME NEW b \in BuilderType, NEW k \in Key, NEW v \in Value
    PROVE  EncodedLen(b, k, v) \in Nat
  <1>1. KeyLen[k] \in Nat /\ ValueLen[v] \in Nat
    BY LengthsNat
  <1>2. SharedWith(b, k) \in Nat /\ SharedWith(b, k) <= KeyLen[k]
    <2>1. CASE StartsRestart(b)
      BY <1>1, <2>1 DEF SharedWith
    <2>2. CASE ~ StartsRestart(b)
      <3>1. Last(b.entries) \in EntryType
        BY <2>2, LastInSet DEF StartsRestart, BuilderType
      <3> QED
        BY <2>2, <3>1, SharedPrefixNat DEF SharedWith, EntryType
    <2> QED
      BY <2>1, <2>2
  <1>3. KeyLen[k] - SharedWith(b, k) \in Nat
    BY <1>1, <1>2
  <1> DEFINE unshared == KeyLen[k] - SharedWith(b, k)
             x == VarintLen(SharedWith(b, k))
             y == VarintLen(unshared)
             z == VarintLen(ValueLen[v])
  <1>4. x \in Nat /\ y \in Nat /\ z \in Nat
    BY VarintLenNat
  <1>5. EncodedLen(b, k, v) = x + y + z + unshared + ValueLen[v]
    BY DEF EncodedLen
  <1> QED
    BY <1>1, <1>3, <1>4, <1>5

\* Adding an entry to a builder yields a builder that ends in this entry.
LEMMA AddToBlockType ==
    ASSUME NEW b \in BuilderType, NEW k \in Key, NEW v \in Value
    PROVE  /\ AddToBlock(b, k, v) \in BuilderType
           /\ AddToBlock(b, k, v).entries = Append(b.entries, Entry(k, v))
  <1>1. Entry(k, v) \in EntryType
    BY DEF Entry, EntryType
  <1>2. b.buf + EncodedLen(b, k, v) \in Nat
    BY EncodedLenNat DEF BuilderType
  <1> QED
    BY <1>1, <1>2 DEF AddToBlock, BuilderType

\* The fresh builder.
LEMMA EmptyBlockType == EmptyBlock \in BuilderType /\ EmptyBlock.entries = <<>>
  BY DEF EmptyBlock, BuilderType

\* A finished block is longer than its trailer.
LEMMA BlockLenNat ==
    ASSUME NEW b \in BuilderType
    PROVE  BlockLen(b) \in Nat /\ BlockLen(b) >= 8
  BY DEF BlockLen, BuilderType

-----------------------------------------------------------------------------
(* Types.                                                                  *)

\* A full block is flushed into a block and a directory entry of their types.
LEMMA FlushType ==
    ASSUME TypeOK, cur.entries # <<>>
    PROVE  /\ FlushedBlock \in BlockType
           /\ FlushedFst \in FstType
           /\ FlushedOffset \in Nat
  <1>1. BlockLen(cur) \in Nat
    BY BlockLenNat DEF TypeOK, BuilderType
  <1>2. Last(cur.entries) \in EntryType
    BY LastInSet DEF TypeOK
  <1> QED
    BY <1>1, <1>2 DEF TypeOK, FlushedBlock, FlushedFst, FlushedOffset, BlockType,
                      FstType, EntryType

\* Finishing changes none of the typed variables except the result.
LEMMA FinishType == TypeOK /\ FinishImpl => TypeOK'
  BY DEF TypeOK, FinishImpl, writer

\* The initial state is typed ...
LEMMA TypeInit == Init => TypeOK
  <1> SUFFICES ASSUME Init PROVE TypeOK
    OBVIOUS
  <1>1. cur \in [entries : Seq(EntryType), buf : Nat, restarts : Nat,
                 sinceRestart : Nat]
    BY EmptyBlockType DEF Init, BuilderType
  <1> QED
    BY <1>1 DEF Init, TypeOK

\* ... and every step keeps the types.
LEMMA TypeNext == TypeOK /\ [Next]_vars => TypeOK'
  <1> SUFFICES ASSUME TypeOK, [Next]_vars PROVE TypeOK'
    OBVIOUS
  <1>1. CASE \E k \in Key, v \in Value : AddRefused(k, v)
    BY <1>1 DEF AddRefused, TypeOK, writer, OrderError
  <1>2. ASSUME NEW k \in Key, NEW v \in Value, Add(k, v) PROVE TypeOK'
    <2>1. cur \in BuilderType
      BY DEF TypeOK, BuilderType
    <2>2. /\ cur' \in BuilderType
          /\ blocks' \in Seq(BlockType)
          /\ fstEntries' \in Seq(FstType)
          /\ offset' \in Nat
      <3>1. CASE IsFull(cur, k, v)
        <4>1. cur.entries # <<>>
          BY <3>1 DEF IsFull
        <4>2. cur' \in BuilderType
          BY <1>2, <3>1, EmptyBlockType, AddToBlockType DEF Add, FreshBlockWith
        <4>3. /\ blocks' = Append(blocks, FlushedBlock)
              /\ fstEntries' = Append(fstEntries, FlushedFst)
              /\ offset' = FlushedOffset
          BY <1>2, <3>1 DEF Add
        <4>4. blocks \in Seq(BlockType) /\ fstEntries \in Seq(FstType)
          BY DEF TypeOK
        <4> QED
          BY <4>1, <4>2, <4>3, <4>4, FlushType
      <3>2. CASE ~ IsFull(cur, k, v)
        <4>1. cur' \in BuilderType
          BY <1>2, <3>2, <2>1, AddToBlockType DEF Add
        <4> QED
          BY <1>2, <3>2, <4>1 DEF Add, TypeOK
      <3> QED
        BY <3>1, <3>2
    <2>3. allKeys' \in Seq(Key) /\ keyCount' \in Nat
      BY <1>2 DEF Add, Track, TypeOK
    <2>4. {firstKey', lastKey', prevKey'} \subseteq Key \cup {NoKey}
      BY <1>2 DEF Add, Track, TypeOK
    <2>5. added' \in Seq(EntryType) /\ calls' \in Nat
      BY <1>2 DEF Add, TypeOK, Entry, EntryType
    <2> QED
      BY <1>2, <2>2, <2>3, <2>4, <2>5 DEF Add, TypeOK, BuilderType
  <1>3. CASE Finish
    BY <1>3, FinishType DEF Finish
  <1>4. CASE FinishEmpty
    BY <1>4 DEF FinishEmpty, TypeOK, writer
  <1>5. CASE FinishAllowEmpty
    BY <1>5, FinishType DEF FinishAllowEmpty
  <1>6. CASE UNCHANGED vars
    BY <1>6 DEF vars, writer, TypeOK
  <1> QED
    BY <1>1, <1>2, <1>3, <1>4, <1>5, <1>6 DEF Next

-----------------------------------------------------------------------------
(* The order of the keys.                                                  *)

\* Elements of a sequence, index by index.
LEMMA ElementAt ==
    ASSUME NEW S, NEW s \in Seq(S)
    PROVE  /\ Len(s) \in Nat /\ DOMAIN s = 1 .. Len(s)
           /\ \A i \in 1 .. Len(s) : s[i] \in S
           /\ s # <<>> => Len(s) \in 1 .. Len(s)
  OBVIOUS

\* Keys are numbers.
LEMMA KeysAreNat ==
    /\ \A e \in EntryType : e.key \in Nat
    /\ \A f \in FstType : f.key \in Nat
  BY KeyAssumption DEF EntryType, FstType

\* A key that passes the order check follows everything accepted before it.
LEMMA KeyFollowsAll ==
    ASSUME WriterInvariant, NEW k \in Key, OrderError(k) = "Ok"
    PROVE  /\ \A m \in 1 .. Len(cur.entries) : cur.entries[m].key < k
           /\ \A i \in 1 .. Len(fstEntries) : fstEntries[i].key < k
  <1> DEFINE n == Len(cur.entries)
  <1>1. /\ cur.entries \in Seq(EntryType) /\ fstEntries \in Seq(FstType)
        /\ k \in Nat
        /\ Layout(blocks, fstEntries, offset) /\ CurrentFollows
    BY KeyAssumption DEF WriterInvariant, TypeOK
  <1>2. CASE cur.entries = <<>>
    <2>1. blocks = <<>> /\ Len(fstEntries) = Len(blocks)
      BY <1>1, <1>2 DEF CurrentFollows, Layout
    <2> QED
      BY <2>1, <1>2
  <1>3. CASE cur.entries # <<>>
    <2>1. n \in 1 .. n /\ \A m \in 1 .. n : cur.entries[m].key \in Nat
      BY <1>1, <1>3, ElementAt, KeysAreNat
    <2>2. prevKey = cur.entries[n].key
      BY <1>1, <1>3 DEF CurrentFollows, Last
    <2>3. cur.entries[n].key < k
      <3>1. prevKey # NoKey
        BY <2>1, <2>2 DEF NoKey
      <3>2. ~ (k < prevKey) /\ k # prevKey
        BY <3>1 DEF OrderError
      <3> QED
        BY <3>2, <2>1, <2>2, <1>1
    <2>4. \A m \in 1 .. n : m < n => cur.entries[m].key < cur.entries[n].key
      BY <1>1, <2>1 DEF CurrentFollows, Ascending
    <2>5. \A i \in 1 .. Len(fstEntries) : fstEntries[i].key < cur.entries[n].key
      BY <1>1, <2>1 DEF CurrentFollows
    <2>6. \A i \in 1 .. Len(fstEntries) : fstEntries[i].key \in Nat
      BY <1>1, ElementAt, KeysAreNat
    <2>7. \A m \in 1 .. n : cur.entries[m].key < k
      <3> SUFFICES ASSUME NEW m \in 1 .. n PROVE cur.entries[m].key < k
        OBVIOUS
      <3>1. m = n \/ m < n
        BY <2>1
      <3>2. cur.entries[m].key \in Nat /\ cur.entries[n].key \in Nat
        BY <2>1
      <3>3. m < n => cur.entries[m].key < cur.entries[n].key
        BY <2>4
      <3> QED
        BY <3>1, <3>2, <3>3, <2>3, <1>1
    <2>8. \A i \in 1 .. Len(fstEntries) : fstEntries[i].key < k
      <3> SUFFICES ASSUME NEW i \in 1 .. Len(fstEntries) PROVE fstEntries[i].key < k
        OBVIOUS
      <3>1. fstEntries[i].key \in Nat /\ cur.entries[n].key \in Nat
        BY <2>1, <2>6
      <3>2. fstEntries[i].key < cur.entries[n].key
        BY <2>5
      <3> QED
        BY <3>1, <3>2, <2>3, <1>1
    <2> QED
      BY <2>7, <2>8
  <1> QED
    BY <1>2, <1>3

\* The current block, flushed, extends the layout (writer.rs flush_block).
LEMMA FlushExtends ==
    ASSUME WriterInvariant, cur.entries # <<>>
    PROVE  Layout(Append(blocks, FlushedBlock), Append(fstEntries, FlushedFst),
                  FlushedOffset)
  <1> DEFINE b == FlushedBlock
             f == FlushedFst
  <1>1. /\ cur \in BuilderType /\ offset \in Nat
        /\ cur.entries \in Seq(EntryType)
        /\ blocks \in Seq(BlockType) /\ fstEntries \in Seq(FstType)
        /\ TypeOK /\ Layout(blocks, fstEntries, offset) /\ CurrentFollows
    BY DEF WriterInvariant, TypeOK, BuilderType
  <1>2. b \in BlockType /\ f \in FstType
    BY <1>1, FlushType
  <1>3. /\ b.off = offset /\ b.entries = cur.entries /\ b.len = BlockLen(cur)
        /\ f.off = offset /\ f.key = cur.entries[Len(cur.entries)].key
    BY DEF FlushedBlock, FlushedFst, Last
  <1>4. IsBlock(b)
    <2>1. BlockLen(cur) \in Nat /\ BlockLen(cur) >= 8
      BY <1>1, BlockLenNat
    <2>2. /\ Len(cur.entries) \in Nat \ {0}
          /\ DOMAIN cur.entries = 1 .. Len(cur.entries)
          /\ \A m \in 1 .. Len(cur.entries) : cur.entries[m].key \in Nat
      BY <1>1, ElementAt, KeysAreNat
    <2>3. Ascending(cur.entries)
      BY <1>1 DEF CurrentFollows
    <2> QED
      BY <1>1, <1>3, <2>1, <2>2, <2>3 DEF IsBlock
  <1>5. \A i \in 1 .. Len(blocks) : \A m \in 1 .. Len(b.entries) :
            fstEntries[i].key < b.entries[m].key
    <2>1. Len(fstEntries) = Len(blocks)
      BY <1>1 DEF Layout
    <2> QED
      BY <1>1, <1>3, <2>1, SMTT(30) DEF CurrentFollows
  <1>6. FlushedOffset = offset + b.len
    BY <1>3 DEF FlushedOffset
  <1>7. f.key = b.entries[Len(b.entries)].key
    BY <1>3
  <1> HIDE DEF b, f
  <1>8. Layout(Append(blocks, b), Append(fstEntries, f), offset + b.len)
    BY <1>1, <1>2, <1>3, <1>4, <1>5, <1>7, LayoutAppend
  <1> QED
    BY <1>6, <1>8 DEF b, f

\* What finishing assembles is a layout.
LEMMA AllIsLayout ==
    ASSUME WriterInvariant
    PROVE  Layout(AllBlocks, AllFst, DataLen)
  <1>1. CASE cur.entries = <<>>
    BY <1>1 DEF AllBlocks, AllFst, DataLen, WriterInvariant
  <1>2. CASE cur.entries # <<>>
    BY <1>2, FlushExtends DEF AllBlocks, AllFst, DataLen
  <1> QED
    BY <1>1, <1>2

\* The directory can always be built (writer.rs build_fst).
LEMMA FstNeverFails == WriterInvariant => ~ FstBuildFails(AllFst)
  <1> SUFFICES ASSUME WriterInvariant PROVE ~ FstBuildFails(AllFst)
    OBVIOUS
  <1> DEFINE fs == AllFst
             bs == AllBlocks
  <1>1. Layout(bs, fs, DataLen)
    BY AllIsLayout
  <1> HIDE DEF fs, bs
  <1>2. \A i, j \in 1 .. Len(fs) : i < j => fs[i].key < fs[j].key
    BY <1>1, DirectoryAscends
  <1>3. /\ Len(fs) \in Nat
        /\ \A i \in 1 .. Len(fs) : fs[i].key \in Nat
    <2>1. Len(fs) = Len(bs) /\ Len(bs) \in Nat
      BY <1>1 DEF Layout
    <2> SUFFICES ASSUME NEW i \in 1 .. Len(bs) PROVE fs[i].key \in Nat
      BY <2>1, SMTT(30)
    <2>2. IsBlock(bs[i]) /\ fs[i].key = bs[i].entries[Len(bs[i].entries)].key
      BY <1>1 DEF Layout
    <2> QED
      BY <2>2, SMTT(30) DEF IsBlock
  <1>4. ~ FstBuildFails(fs)
    <2> SUFFICES ASSUME NEW i \in 1 .. Len(fs) - 1, fs[i].key >= fs[i + 1].key
                 PROVE  FALSE
      BY DEF FstBuildFails
    <2>1. i \in 1 .. Len(fs) /\ i + 1 \in 1 .. Len(fs) /\ i < i + 1
      BY <1>3
    <2>2. fs[i].key < fs[i + 1].key
      BY <1>2, <2>1
    <2> QED
      BY <1>3, <2>1, <2>2
  <1> QED
    BY <1>4 DEF fs

-----------------------------------------------------------------------------
(* The writer's invariant.                                                 *)

\* An accepted add keeps the blocks laid out and the current one behind them.
LEMMA AddKeepsOrder ==
    ASSUME WriterInvariant, NEW k \in Key, NEW v \in Value, Add(k, v)
    PROVE  Layout(blocks, fstEntries, offset)' /\ CurrentFollows'
  <1>1. /\ cur \in BuilderType /\ cur.entries \in Seq(EntryType)
        /\ fstEntries \in Seq(FstType) /\ k \in Nat
        /\ Layout(blocks, fstEntries, offset) /\ CurrentFollows
        /\ OrderError(k) = "Ok" /\ prevKey' = k /\ TypeOK
    BY KeyAssumption DEF WriterInvariant, TypeOK, BuilderType, Add, Track
  <1>2. /\ \A m \in 1 .. Len(cur.entries) : cur.entries[m].key < k
        /\ \A i \in 1 .. Len(fstEntries) : fstEntries[i].key < k
    BY <1>1, KeyFollowsAll
  <1>3. Entry(k, v) \in EntryType /\ Entry(k, v).key = k
    BY DEF Entry, EntryType
  <1>4. CASE IsFull(cur, k, v)
    <2>1. /\ blocks' = Append(blocks, FlushedBlock)
          /\ fstEntries' = Append(fstEntries, FlushedFst)
          /\ offset' = FlushedOffset
          /\ cur' = AddToBlock(EmptyBlock, k, v)
          /\ cur.entries # <<>>
      BY <1>4 DEF Add, FreshBlockWith, IsFull
    <2>2. Layout(blocks, fstEntries, offset)'
      BY <2>1, FlushExtends
    <2>3. cur'.entries = <<Entry(k, v)>>
      BY <2>1, EmptyBlockType, AddToBlockType
    <2>4. \A i \in 1 .. Len(fstEntries') : fstEntries'[i].key < k
      <3>1. FlushedFst \in FstType
        BY <1>1, <2>1, FlushType
      <3>2. FlushedFst.key < k
        <4>1. Len(cur.entries) \in 1 .. Len(cur.entries)
          BY <1>1, <2>1, ElementAt
        <4>2. FlushedFst.key = cur.entries[Len(cur.entries)].key
          BY DEF FlushedFst, Last
        <4> QED
          BY <4>1, <4>2, <1>2
      <3> HIDE DEF FstType
      <3> DEFINE f == FlushedFst
      <3>3. fstEntries' = Append(fstEntries, f)
        BY <2>1
      <3> HIDE DEF f
      <3>4. /\ Len(fstEntries') = Len(fstEntries) + 1 /\ Len(fstEntries) \in Nat
            /\ fstEntries'[Len(fstEntries) + 1] = f
            /\ \A i \in 1 .. Len(fstEntries) : fstEntries'[i] = fstEntries[i]
        BY <1>1, <3>1, <3>3, AppendAt DEF f
      <3>5. f.key < k
        BY <3>2 DEF f
      <3> QED
        BY <3>4, <3>5, <1>2
    <2>5. CurrentFollows'
      <3>1. cur'.entries # <<>> /\ Len(cur'.entries) = 1 /\ cur'.entries[1].key = k
        BY <2>3, <1>3
      <3>2. prevKey' = Last(cur'.entries).key
        BY <3>1, <1>1 DEF Last
      <3>3. Ascending(cur'.entries)
        BY <3>1 DEF Ascending
      <3>4. \A i \in 1 .. Len(fstEntries') : \A m \in 1 .. Len(cur'.entries) :
                fstEntries'[i].key < cur'.entries[m].key
        BY <3>1, <2>4
      <3> QED
        BY <3>1, <3>2, <3>3, <3>4 DEF CurrentFollows
    <2> QED
      BY <2>2, <2>5
  <1>5. CASE ~ IsFull(cur, k, v)
    <2>1. /\ blocks' = blocks /\ fstEntries' = fstEntries /\ offset' = offset
          /\ cur' = AddToBlock(cur, k, v)
      BY <1>5 DEF Add
    <2> DEFINE n == Len(cur.entries)
    <2>2. /\ cur'.entries # <<>> /\ Len(cur'.entries) = n + 1 /\ n \in Nat
          /\ \A m \in 1 .. n : cur'.entries[m] = cur.entries[m]
          /\ cur'.entries[n + 1].key = k
      <3>1. cur'.entries = Append(cur.entries, Entry(k, v))
        BY <1>1, <2>1, AddToBlockType
      <3> QED
        BY <3>1, <1>1, <1>3, AppendAt
    <2>3. Layout(blocks, fstEntries, offset)'
      BY <1>1, <2>1
    <2>4. prevKey' = Last(cur'.entries).key
      BY <1>1, <2>2 DEF Last
    <2>5. Ascending(cur'.entries)
      <3>1. Ascending(cur.entries)
        BY <1>1 DEF CurrentFollows
      <3> SUFFICES ASSUME NEW i \in 1 .. n + 1, NEW j \in 1 .. n + 1, i < j
                   PROVE  cur'.entries[i].key < cur'.entries[j].key
        BY <2>2 DEF Ascending
      <3>2. i \in 1 .. n
        BY <2>2
      <3>3. CASE j = n + 1
        BY <3>2, <3>3, <2>2, <1>2
      <3>4. CASE j \in 1 .. n
        BY <3>1, <3>2, <3>4, <2>2 DEF Ascending
      <3> QED
        BY <3>3, <3>4, <2>2
    <2>6. \A i \in 1 .. Len(fstEntries') : \A m \in 1 .. Len(cur'.entries) :
              fstEntries'[i].key < cur'.entries[m].key
      <3> SUFFICES ASSUME NEW i \in 1 .. Len(fstEntries), NEW m \in 1 .. n + 1
                   PROVE  fstEntries[i].key < cur'.entries[m].key
        BY <2>1, <2>2
      <3>1. CASE m = n + 1
        BY <3>1, <2>2, <1>2
      <3>2. CASE m \in 1 .. n
        BY <3>2, <2>2, <1>1 DEF CurrentFollows
      <3> QED
        BY <3>1, <3>2, <2>2
    <2> QED
      BY <2>2, <2>3, <2>4, <2>5, <2>6 DEF CurrentFollows
  <1> QED
    BY <1>4, <1>5

\* An accepted add puts its entry, and nothing else, where lookups find it.
LEMMA AddKeepsEntries ==
    ASSUME WriterInvariant, NEW k \in Key, NEW v \in Value, Add(k, v)
    PROVE  NothingLost'
  <1> DEFINE e0 == Entry(k, v)
             n == Len(cur.entries)
  <1>1. /\ cur \in BuilderType /\ cur.entries \in Seq(EntryType)
        /\ blocks \in Seq(BlockType) /\ added \in Seq(EntryType)
        /\ allKeys \in Seq(Key) /\ NothingLost /\ TypeOK
        /\ added' = Append(added, e0) /\ opts' = opts
        /\ allKeys' = IF opts.bloom THEN Append(allKeys, k) ELSE allKeys
    BY DEF WriterInvariant, TypeOK, BuilderType, Add, Track
  <1>2. e0 \in EntryType /\ e0.key = k
    BY DEF Entry, EntryType
  <1>3. ASSUME NEW e \in EntryType
        PROVE  Holds(e)' <=> Holds(e) \/ e = e0
    <2>1. CASE IsFull(cur, k, v)
      <3>1. /\ blocks' = Append(blocks, FlushedBlock)
            /\ cur' = AddToBlock(EmptyBlock, k, v)
            /\ cur.entries # <<>>
        BY <2>1 DEF Add, FreshBlockWith, IsFull
      <3>2. Len(cur'.entries) = 1 /\ cur'.entries[1] = e0
        <4>1. cur'.entries = <<e0>>
          BY <3>1, EmptyBlockType, AddToBlockType
        <4> HIDE DEF e0
        <4> QED
          BY <4>1
      <3>3. FlushedBlock \in BlockType /\ FlushedBlock.entries = cur.entries
        BY <1>1, <3>1, FlushType DEF FlushedBlock
      <3> DEFINE N == Len(blocks)
      <3>4. /\ Len(blocks') = N + 1 /\ N \in Nat
            /\ \A i \in 1 .. N : blocks'[i] = blocks[i]
            /\ blocks'[N + 1].entries = cur.entries
        BY <1>1, <3>1, <3>3, AppendAt
      <3>5. (\E i \in 1 .. Len(blocks') : \E m \in 1 .. Len(blocks'[i].entries) :
                blocks'[i].entries[m] = e)
              <=> Holds(e)
        <4>1. \A i : i \in 1 .. N + 1 <=> i \in 1 .. N \/ i = N + 1
          BY <3>4
        <4> HIDE DEF N
        <4>2. (\E i \in 1 .. Len(blocks') : \E m \in 1 .. Len(blocks'[i].entries) :
                  blocks'[i].entries[m] = e)
                <=> \/ \E i \in 1 .. N : \E m \in 1 .. Len(blocks[i].entries) :
                         blocks[i].entries[m] = e
                    \/ \E m \in 1 .. Len(cur.entries) : cur.entries[m] = e
          BY <3>4, <4>1
        <4> QED
          BY <4>2 DEF Holds, N
      <3>6. (\E m \in 1 .. Len(cur'.entries) : cur'.entries[m] = e) <=> e = e0
        BY <3>2
      <3> QED
        BY <3>5, <3>6 DEF Holds
    <2>2. CASE ~ IsFull(cur, k, v)
      <3>1. blocks' = blocks /\ cur' = AddToBlock(cur, k, v)
        BY <2>2 DEF Add
      <3>2. /\ Len(cur'.entries) = n + 1 /\ n \in Nat
            /\ \A m \in 1 .. n : cur'.entries[m] = cur.entries[m]
            /\ cur'.entries[n + 1] = e0
        <4>1. cur'.entries = Append(cur.entries, e0)
          BY <1>1, <3>1, AddToBlockType
        <4> HIDE DEF e0
        <4> QED
          BY <4>1, <1>1, <1>2, AppendAt
      <3> HIDE DEF e0
      <3>3. (\E m \in 1 .. Len(cur'.entries) : cur'.entries[m] = e)
              <=> (\E m \in 1 .. n : cur.entries[m] = e) \/ e = e0
        BY <3>2, SMTT(30)
      <3> QED
        BY <3>1, <3>3 DEF Holds
    <2> QED
      BY <2>1, <2>2
  <1> DEFINE a == Len(added)
  <1>4. /\ Len(added') = a + 1 /\ a \in Nat
        /\ \A m \in 1 .. a : added'[m] = added[m]
        /\ added'[a + 1] = e0
    <2> HIDE DEF e0
    <2> QED
      BY <1>1, <1>2, AppendAt
  <1> HIDE DEF e0
  <1>5. ASSUME NEW e \in EntryType
        PROVE  Holds(e)' <=> \E m \in 1 .. Len(added') : added'[m] = e
    <2>1. (\E m \in 1 .. Len(added') : added'[m] = e)
            <=> (\E m \in 1 .. a : added[m] = e) \/ e = e0
      BY <1>4
    <2>2. Holds(e) <=> \E m \in 1 .. a : added[m] = e
      BY <1>1 DEF NothingLost
    <2> QED
      BY <1>3, <2>1, <2>2
  <1>6. ASSUME opts'.bloom, NEW m \in 1 .. Len(added')
        PROVE  \E j \in 1 .. Len(allKeys') : allKeys'[j] = added'[m].key
    <2> DEFINE q == Len(allKeys)
    <2>1. /\ Len(allKeys') = q + 1 /\ q \in Nat
          /\ \A j \in 1 .. q : allKeys'[j] = allKeys[j]
          /\ allKeys'[q + 1] = k
      BY <1>1, <1>6, AppendAt
    <2>2. CASE m = a + 1
      BY <2>1, <2>2, <1>2, <1>4
    <2>3. CASE m \in 1 .. a
      <3>1. PICK j \in 1 .. q : allKeys[j] = added[m].key
        BY <1>1, <1>6, <2>3 DEF NothingLost
      <3> QED
        BY <3>1, <2>1, <2>3, <1>4
    <2> QED
      BY <2>2, <2>3, <1>4
  <1> QED
    BY <1>5, <1>6 DEF NothingLost

\* Steps that change no field of the writer keep the writer's invariant, if
\* they finish nothing.
LEMMA QuietStep ==
    ASSUME WriterInvariant, TypeOK', UNCHANGED <<opts, writer, added>>,
           result' \notin {"FstBuildError", "Finished"}
    PROVE  WriterInvariant'
  <1>1. /\ UNCHANGED <<opts, blocks, fstEntries, allKeys, cur, offset, keyCount>>
        /\ UNCHANGED <<firstKey, lastKey, prevKey, added>>
    BY DEF writer
  <1>2. Layout(blocks, fstEntries, offset)' /\ CurrentFollows'
    BY <1>1 DEF WriterInvariant, CurrentFollows
  <1>3. NothingLost'
    BY <1>1 DEF WriterInvariant, NothingLost, Holds
  <1> QED
    BY <1>2, <1>3 DEF WriterInvariant, SegmentIsAssembled, IsFinished, FinishNeverFails

\* What is assembled depends on the writer's fields only.
LEMMA AssembleUnchanged ==
    ASSUME UNCHANGED <<opts, writer>>
    PROVE  /\ Filters' = Filters
           /\ \A filter : Assemble(filter)' = Assemble(filter)
  <1>1. UNCHANGED <<opts, blocks, fstEntries, allKeys, cur, offset, keyCount>>
        /\ UNCHANGED <<firstKey, lastKey>>
    BY DEF writer
  <1>2. Filters' = Filters
    BY <1>1 DEF Filters
  <1>3. AllBlocks' = AllBlocks /\ AllFst' = AllFst /\ DataLen' = DataLen
    BY <1>1 DEF AllBlocks, AllFst, DataLen, FlushedBlock, FlushedFst, FlushedOffset
  <1>4. ASSUME NEW filter
        PROVE  Assemble(filter)' = Assemble(filter)
    BY <1>1, <1>3 DEF Assemble, FooterOf
  <1> QED
    BY <1>2, <1>4

\* Finishing succeeds, and assembles the segment from the writer's fields.
LEMMA FinishStep ==
    ASSUME WriterInvariant, FinishImpl, TypeOK'
    PROVE  WriterInvariant'
  <1>1. UNCHANGED <<opts, writer, added>> /\ result' = "Finished"
        /\ \E filter \in Filters : segment' = Assemble(filter)
    BY FstNeverFails DEF FinishImpl
  <1>2. UNCHANGED <<opts, blocks, fstEntries, allKeys, cur, offset, prevKey, added>>
    BY <1>1 DEF writer
  <1>3. Layout(blocks, fstEntries, offset)' /\ CurrentFollows'
    BY <1>2 DEF WriterInvariant, CurrentFollows
  <1>4. NothingLost'
    BY <1>2 DEF WriterInvariant, NothingLost, Holds
  <1>5. SegmentIsAssembled'
    BY <1>1, AssembleUnchanged DEF SegmentIsAssembled
  <1> QED
    BY <1>1, <1>3, <1>4, <1>5 DEF WriterInvariant, FinishNeverFails

\* The writer's invariant holds initially ...
LEMMA WriterInvariantInit == Init => WriterInvariant
  <1> SUFFICES ASSUME Init PROVE WriterInvariant
    OBVIOUS
  <1>1. TypeOK
    BY TypeInit
  <1>2. /\ blocks = <<>> /\ fstEntries = <<>> /\ offset = 0 /\ prevKey = NoKey
        /\ cur.entries = <<>> /\ added = <<>> /\ result = "Ok"
    BY EmptyBlockType DEF Init
  <1>3. Layout(blocks, fstEntries, offset)
    BY <1>2 DEF Layout
  <1>4. CurrentFollows
    BY <1>2 DEF CurrentFollows, Ascending
  <1>5. NothingLost
    BY <1>2 DEF NothingLost, Holds
  <1> QED
    BY <1>1, <1>2, <1>3, <1>4, <1>5
       DEF WriterInvariant, SegmentIsAssembled, IsFinished, FinishNeverFails

\* ... and every step keeps it.
LEMMA WriterInvariantNext == WriterInvariant /\ [Next]_vars => WriterInvariant'
  <1> SUFFICES ASSUME WriterInvariant, [Next]_vars PROVE WriterInvariant'
    OBVIOUS
  <1>1. TypeOK'
    BY TypeNext DEF WriterInvariant
  <1>2. ASSUME NEW k \in Key, NEW v \in Value, AddRefused(k, v)
        PROVE  WriterInvariant'
    <2>1. result' \notin {"FstBuildError", "Finished"}
      BY <1>2 DEF AddRefused, OrderError
    <2> QED
      BY <1>1, <1>2, <2>1, QuietStep DEF AddRefused
  <1>3. ASSUME NEW k \in Key, NEW v \in Value, Add(k, v)
        PROVE  WriterInvariant'
    <2>1. result' = "Ok"
      BY <1>3 DEF Add
    <2>2. Layout(blocks, fstEntries, offset)' /\ CurrentFollows'
      BY <1>3, AddKeepsOrder
    <2>3. NothingLost'
      BY <1>3, AddKeepsEntries
    <2> QED
      BY <1>1, <2>1, <2>2, <2>3
         DEF WriterInvariant, SegmentIsAssembled, IsFinished, FinishNeverFails
  <1>4. CASE Finish
    BY <1>1, <1>4, FinishStep DEF Finish
  <1>5. CASE FinishEmpty
    <2>1. result' \notin {"FstBuildError", "Finished"}
      BY <1>5 DEF FinishEmpty
    <2> QED
      BY <1>1, <1>5, <2>1, QuietStep DEF FinishEmpty
  <1>6. CASE FinishAllowEmpty
    BY <1>1, <1>6, FinishStep DEF FinishAllowEmpty
  <1>7. CASE UNCHANGED vars
    <2>1. UNCHANGED <<opts, writer, added>> /\ UNCHANGED <<segment, result>>
      BY <1>7 DEF vars
    <2>2. CASE result = "Finished"
      <3>1. UNCHANGED <<opts, blocks, fstEntries, allKeys, cur, offset, prevKey, added>>
        BY <2>1 DEF writer
      <3>2. Layout(blocks, fstEntries, offset)' /\ CurrentFollows'
        BY <3>1 DEF WriterInvariant, CurrentFollows
      <3>3. NothingLost'
        BY <3>1 DEF WriterInvariant, NothingLost, Holds
      <3>4. SegmentIsAssembled'
        BY <2>1, AssembleUnchanged DEF WriterInvariant, SegmentIsAssembled, IsFinished
      <3> QED
        BY <1>1, <2>1, <2>2, <3>2, <3>3, <3>4 DEF WriterInvariant, FinishNeverFails
    <2>3. CASE result # "Finished"
      <3>1. result' \notin {"FstBuildError", "Finished"}
        BY <2>1, <2>3 DEF WriterInvariant, FinishNeverFails
      <3> QED
        BY <1>1, <2>1, <3>1, QuietStep
    <2> QED
      BY <2>2, <2>3
  <1> QED
    BY <1>2, <1>3, <1>4, <1>5, <1>6, <1>7 DEF Next

-----------------------------------------------------------------------------
(* Theorems.                                                               *)

\* Every variable keeps its type, whatever the keys, values and options.
THEOREM SegmentTypeOK == Spec => []TypeOK
  BY TypeInit, TypeNext, PTL DEF Spec

\* The writer's blocks stay laid out in key order, the current block continues
\* them, and no accepted entry is lost (writer.rs add, flush_block).
THEOREM SegmentInvariant == Spec => []WriterInvariant
  BY WriterInvariantInit, WriterInvariantNext, PTL DEF Spec

\* Finishing a writer never fails on its directory (writer.rs build_fst).
THEOREM SegmentFinishNeverFails == Spec => []FinishNeverFails
  <1>1. WriterInvariant => FinishNeverFails
    BY DEF WriterInvariant
  <1> QED
    BY <1>1, SegmentInvariant, PTL

\* The blocks of a finished segment hold entries ...
LEMMA AllBlocksType ==
    ASSUME WriterInvariant, NEW i \in 1 .. Len(AllBlocks),
           NEW m \in 1 .. Len(AllBlocks[i].entries)
    PROVE  AllBlocks[i].entries[m] \in EntryType
  <1>1. blocks \in Seq(BlockType) /\ TypeOK
    BY DEF WriterInvariant, TypeOK
  <1>2. AllBlocks \in Seq(BlockType)
    BY <1>1, FlushType DEF AllBlocks
  <1>3. AllBlocks[i] \in BlockType
    BY <1>2, ElementAt
  <1>4. AllBlocks[i].entries \in Seq(EntryType)
    BY <1>3 DEF BlockType
  <1> QED
    BY <1>4, ElementAt

\* ... namely the added ones.
LEMMA AllBlocksHold ==
    ASSUME WriterInvariant, NEW e \in EntryType
    PROVE  (\E i \in 1 .. Len(AllBlocks) : \E m \in 1 .. Len(AllBlocks[i].entries) :
                AllBlocks[i].entries[m] = e)
             <=> \E n \in 1 .. Len(added) : added[n] = e
  <1> DEFINE Has == \E i \in 1 .. Len(AllBlocks) :
                       \E m \in 1 .. Len(AllBlocks[i].entries) :
                           AllBlocks[i].entries[m] = e
  <1>1. /\ blocks \in Seq(BlockType) /\ cur.entries \in Seq(EntryType) /\ TypeOK
        /\ NothingLost
    BY DEF WriterInvariant, TypeOK
  <1>2. CASE cur.entries = <<>>
    <2>1. AllBlocks = blocks
      BY <1>2 DEF AllBlocks
    <2>2. Has <=> Holds(e)
      BY <1>2, <2>1 DEF Holds
    <2> QED
      BY <1>1, <2>2 DEF NothingLost
  <1>3. CASE cur.entries # <<>>
    <2> DEFINE N == Len(blocks)
               bt == AllBlocks
    <2>1. /\ Len(bt) = N + 1 /\ N \in Nat
          /\ \A i \in 1 .. N : bt[i] = blocks[i]
          /\ bt[N + 1].entries = cur.entries
      <3>1. FlushedBlock \in BlockType /\ FlushedBlock.entries = cur.entries
        BY <1>1, <1>3, FlushType DEF FlushedBlock
      <3> QED
        BY <1>1, <1>3, <3>1, AppendAt DEF AllBlocks
    <2> HIDE DEF bt, N
    <2>2. (\E i \in 1 .. Len(bt) : \E m \in 1 .. Len(bt[i].entries) :
              bt[i].entries[m] = e)
            <=> \/ \E i \in 1 .. N : \E m \in 1 .. Len(blocks[i].entries) :
                     blocks[i].entries[m] = e
                \/ \E m \in 1 .. Len(cur.entries) : cur.entries[m] = e
      BY <2>1
    <2>3. Has <=> Holds(e)
      BY <2>2 DEF Holds, N, bt
    <2> QED
      BY <1>1, <2>3 DEF NothingLost
  <1> QED
    BY <1>2, <1>3

\* The filter of a finished segment covers its blocks.
LEMMA FilterCovers ==
    ASSUME WriterInvariant, NEW filter \in Filters
    PROVE  Covers(filter, AllBlocks)
  <1> SUFFICES ASSUME NEW i \in 1 .. Len(AllBlocks),
                      NEW m \in 1 .. Len(AllBlocks[i].entries),
                      filter.len # 0
               PROVE  AllBlocks[i].entries[m].key \in filter.yes
    BY DEF Covers, MightContain
  <1> DEFINE e == AllBlocks[i].entries[m]
  <1>1. /\ allKeys \in Seq(Key) /\ blocks \in Seq(BlockType)
        /\ cur.entries \in Seq(EntryType) /\ TypeOK /\ NothingLost
    BY DEF WriterInvariant, TypeOK
  <1>2. opts.bloom /\ {allKeys[j] : j \in DOMAIN allKeys} \subseteq filter.yes
    BY DEF Filters
  <1>3. e \in EntryType
    BY AllBlocksType
  <1>4. PICK n \in 1 .. Len(added) : added[n] = e
    BY <1>3, AllBlocksHold
  <1>5. PICK j \in 1 .. Len(allKeys) : allKeys[j] = e.key
    BY <1>1, <1>2, <1>4 DEF NothingLost
  <1>6. j \in DOMAIN allKeys
    BY <1>1, ElementAt
  <1> QED
    BY <1>2, <1>5, <1>6

\* Every lookup on every finished segment answers what was added: values for
\* added keys, NotFound for others, never an error - for any keys, values,
\* options, filter and number of adds (writer.rs against reader.rs get).
THEOREM SegmentLookupCorrect == Spec => []LookupCorrect
  <1>1. WriterInvariant => LookupCorrect
    <2> SUFFICES ASSUME WriterInvariant, IsFinished, NEW k \in Key
                 PROVE  Get(segment, k) = Expected(k)
      BY DEF LookupCorrect
    <2>1. PICK filter \in Filters : segment = Assemble(filter)
      BY DEF WriterInvariant, SegmentIsAssembled
    <2>2. /\ segment.blocks = AllBlocks /\ segment.fst = AllFst
          /\ segment.footer.dataLen = DataLen /\ segment.bloom = filter
      BY <2>1 DEF Assemble, FooterOf
    <2>3. Layout(segment.blocks, segment.fst, segment.footer.dataLen)
      BY <2>2, AllIsLayout
    <2>4. Covers(segment.bloom, segment.blocks)
      BY <2>2, FilterCovers
    <2>5. /\ added \in Seq(EntryType) /\ blocks \in Seq(BlockType)
          /\ cur.entries \in Seq(EntryType) /\ TypeOK
      BY DEF WriterInvariant, TypeOK
    <2>6. DOMAIN added = 1 .. Len(added) /\ Added(k) \in SUBSET Nat
      BY <2>5 DEF Added
    <2>7. CASE Added(k) # {}
      <3> DEFINE n == LeastOf(Added(k))
                 e == added[n]
      <3>1. n \in 1 .. Len(added) /\ e.key = k
        <4>1. n \in Added(k)
          BY <2>6, <2>7, LeastOfNat
        <4> QED
          BY <4>1, <2>6 DEF Added
      <3>2. e \in EntryType
        BY <3>1, <2>5, ElementAt
      <3>3. \E i \in 1 .. Len(segment.blocks) :
              \E m \in 1 .. Len(segment.blocks[i].entries) :
                segment.blocks[i].entries[m] = e
        BY <2>2, <3>1, <3>2, AllBlocksHold
      <3> PICK i \in 1 .. Len(segment.blocks) :
              \E m \in 1 .. Len(segment.blocks[i].entries) :
                segment.blocks[i].entries[m] = e
        BY <3>3
      <3>5. PICK m \in 1 .. Len(segment.blocks[i].entries) :
                segment.blocks[i].entries[m] = e
        OBVIOUS
      <3>4. Get(segment, segment.blocks[i].entries[m].key)
                = segment.blocks[i].entries[m].val
        BY <2>3, <2>4, GetPresent
      <3> QED
        BY <2>7, <3>1, <3>4, <3>5 DEF Expected
    <2>8. CASE Added(k) = {}
      <3>1. ASSUME NEW i \in 1 .. Len(segment.blocks),
                   NEW m \in 1 .. Len(segment.blocks[i].entries)
            PROVE  segment.blocks[i].entries[m].key # k
        <4> DEFINE e == segment.blocks[i].entries[m]
        <4>1. e \in EntryType
          BY <2>2, AllBlocksType
        <4>2. PICK n \in 1 .. Len(added) : added[n] = e
          BY <4>1, <2>2, AllBlocksHold
        <4> QED
          BY <4>2, <2>6, <2>8 DEF Added
      <3>2. k \in Nat
        BY KeyAssumption
      <3>3. Get(segment, k) = NotFound
        BY <2>3, <3>1, <3>2, GetAbsent
      <3> QED
        BY <2>8, <3>3 DEF Expected
    <2> QED
      BY <2>7, <2>8
  <1> QED
    BY <1>1, SegmentInvariant, PTL

\* The sections behind the data have lengths.
LEMMA FilterLenNat ==
    ASSUME NEW filter \in Filters
    PROVE  filter.len \in Nat /\ FstLen \in Nat
  <1>1. filter.len \in {FilterLen, 0}
    <2>1. CASE opts.bloom /\ allKeys # <<>>
      BY <2>1 DEF Filters
    <2>2. CASE ~ (opts.bloom /\ allKeys # <<>>)
      BY <2>2 DEF Filters
    <2> QED
      BY <2>1, <2>2
  <1>2. FilterLen \in Nat \ {0} /\ FstLen \in Nat \ {0}
    BY LengthAssumption, Zenon
  <1> QED
    BY <1>1, <1>2

\* The sections of every finished segment tile it, and the byte range that the
\* reader derives from each directory entry is that entry's block (writer.rs
\* finish_impl against reader.rs validate_footer_offsets, find_block_end).
THEOREM SegmentSectionsTile == Spec => []SectionsTile
  <1>1. WriterInvariant => SectionsTile
    <2> SUFFICES ASSUME WriterInvariant, IsFinished PROVE SectionsTile
      BY DEF SectionsTile
    <2>1. PICK filter \in Filters : segment = Assemble(filter)
      BY DEF WriterInvariant, SegmentIsAssembled
    <2>2. filter.len \in Nat /\ FstLen \in Nat /\ FooterSize \in Nat
      BY FilterLenNat, FooterSizeAssumption
    <2>3. Layout(AllBlocks, AllFst, DataLen)
      BY AllIsLayout
    <2>4. /\ segment.blocks = AllBlocks /\ segment.fst = AllFst
          /\ segment.footer = FooterOf(DataLen, filter.len)
          /\ segment.size = DataLen + filter.len + FstLen + FooterSize
      BY <2>1, SMTT(30) DEF Assemble
    <2>5. DataLen \in Nat
      BY <2>3 DEF Layout
    <2>6. ValidateFooterOffsets(segment.footer, segment.size - FooterSize)
      BY <2>2, <2>4, <2>5 DEF ValidateFooterOffsets, FooterOf
    <2>7. ASSUME NEW i \in DOMAIN segment.fst
          PROVE  BlocksAt(segment, segment.fst[i].off,
                     FindBlockEnd(segment.fst, segment.fst[i].off, DataLen)) = {i}
      <3>1. i \in 1 .. Len(segment.blocks)
        BY <2>3, <2>4 DEF Layout
      <3>2. Layout(segment.blocks, segment.fst, DataLen)
        BY <2>3, <2>4
      <3>3. Spans(segment, segment.fst[i].off,
                  FindBlockEnd(segment.fst, segment.fst[i].off, DataLen), i)
        BY <3>1, <3>2, RangeIsBlock
      <3> QED
        BY <3>3, SMTT(30) DEF Spans
    <2>8. Len(segment.fst) = Len(segment.blocks)
      BY <2>3, <2>4 DEF Layout
    <2>9. /\ segment.footer.dataLen = DataLen
          /\ segment.footer.bloomOff = DataLen
          /\ segment.footer.bloomLen = filter.len
          /\ segment.footer.fstOff = DataLen + filter.len
          /\ segment.footer.fstLen = FstLen
      BY <2>4 DEF FooterOf
    <2> QED
      BY <2>4, <2>6, <2>7, <2>8, <2>9 DEF SectionsTile
  <1> QED
    BY <1>1, SegmentInvariant, PTL

\* Every finished segment is complete and well-formed, which is what the proofs
\* about remote readers assume of the stored objects (writer.rs finish_impl).
THEOREM SegmentWellFormed == Spec => [](IsFinished => WellFormed(segment))
  <1>1. WriterInvariant => (IsFinished => WellFormed(segment))
    <2> SUFFICES ASSUME WriterInvariant, IsFinished PROVE WellFormed(segment)
      OBVIOUS
    <2>1. PICK filter \in Filters : segment = Assemble(filter)
      BY DEF WriterInvariant, SegmentIsAssembled
    <2>2. filter.len \in Nat /\ FstLen \in Nat
      BY FilterLenNat
    <2>3. /\ segment.blocks = AllBlocks /\ segment.fst = AllFst /\ segment.bloom = filter
          /\ segment.footer = FooterOf(DataLen, filter.len)
          /\ segment.size = DataLen + filter.len + FstLen + FooterSize
      BY <2>1, SMTT(30) DEF Assemble
    <2>4. /\ segment.footer.dataLen = DataLen /\ segment.footer.bloomOff = DataLen
          /\ segment.footer.bloomLen = filter.len
          /\ segment.footer.fstOff = DataLen + filter.len
          /\ segment.footer.fstLen = FstLen
      BY <2>3 DEF FooterOf
    <2>5. Layout(segment.blocks, segment.fst, segment.footer.dataLen)
      BY <2>3, <2>4, AllIsLayout
    <2>6. Covers(segment.bloom, segment.blocks)
      BY <2>3, FilterCovers
    <2> QED
      BY <2>2, <2>3, <2>4, <2>5, <2>6 DEF WellFormed
  <1> QED
    BY <1>1, SegmentInvariant, PTL

-----------------------------------------------------------------------------
(* What the writer tells the manifest.                                     *)

\* The key bookkeeping describes the accepted entries.
Bookkeeping ==
    /\ keyCount = Len(added)
    /\ added # <<>> => firstKey = added[1].key /\ lastKey = added[Len(added)].key
    /\ added = <<>> => firstKey = NoKey

\* An accepted add counts its key, which is the first only once; the other
\* steps leave the bookkeeping alone.
LEMMA BookkeepingNext == TypeOK /\ Bookkeeping /\ [Next]_vars => Bookkeeping'
  <1> SUFFICES ASSUME TypeOK, Bookkeeping, [Next]_vars PROVE Bookkeeping'
    OBVIOUS
  <1>1. ASSUME UNCHANGED <<writer, added>> PROVE Bookkeeping'
    BY <1>1 DEF Bookkeeping, writer
  <1>2. ASSUME NEW k \in Key, NEW v \in Value, Add(k, v) PROVE Bookkeeping'
    <2> DEFINE e == Entry(k, v)
    <2>1. added \in Seq(EntryType) /\ e \in EntryType /\ e.key = k
      BY DEF TypeOK, Entry, EntryType
    <2>2. added' = Append(added, e) /\ Track(k)
      BY <1>2 DEF Add
    <2> HIDE DEF e
    <2>3. /\ Len(added') = Len(added) + 1 /\ Len(added) \in Nat
          /\ added'[Len(added')] = e /\ added' # <<>>
          /\ added # <<>> => added'[1] = added[1] /\ Len(added) >= 1
          /\ added = <<>> => added'[1] = e
      BY <2>1, <2>2
    <2>4. added # <<>> => firstKey # NoKey
      <3>1. added # <<>> => added[1] \in EntryType
        BY <2>1, <2>3, ElementAt
      <3> QED
        BY <3>1, KeysAreNat DEF Bookkeeping, NoKey
    <2> QED
      BY <2>1, <2>2, <2>3, <2>4 DEF Bookkeeping, Track
  <1>3. CASE \E k \in Key, v \in Value : AddRefused(k, v)
    BY <1>1, <1>3 DEF AddRefused
  <1>4. CASE Finish \/ FinishEmpty \/ FinishAllowEmpty
    BY <1>1, <1>4 DEF Finish, FinishEmpty, FinishAllowEmpty, FinishImpl
  <1>5. CASE UNCHANGED vars
    BY <1>1, <1>5 DEF vars
  <1> QED
    BY <1>2, <1>3, <1>4, <1>5 DEF Next

\* Key count, least and greatest key of every finished segment are those of the
\* accepted entries (writer.rs SegmentMeta).
THEOREM SegmentMetaMatches == Spec => []MetaMatches
  <1>1. Init => Bookkeeping
    BY DEF Init, Bookkeeping
  <1>2. WriterInvariant /\ Bookkeeping => MetaMatches
    <2> SUFFICES ASSUME WriterInvariant, Bookkeeping, IsFinished PROVE MetaMatches
      BY DEF MetaMatches
    <2>1. PICK filter \in Filters : segment = Assemble(filter)
      BY DEF WriterInvariant, SegmentIsAssembled
    <2>2. /\ segment.footer.keyCount = keyCount
          /\ segment.minKey = IF firstKey = NoKey THEN EmptyKey ELSE firstKey
          /\ segment.maxKey = IF lastKey = NoKey THEN EmptyKey ELSE lastKey
      BY <2>1 DEF Assemble, FooterOf
    <2>3. added \in Seq(EntryType)
      BY DEF WriterInvariant, TypeOK
    <2>4. ASSUME added # <<>>
          PROVE  firstKey # NoKey /\ lastKey # NoKey
      <3>1. added[1] \in EntryType /\ added[Len(added)] \in EntryType
        BY <2>3, <2>4, ElementAt
      <3> QED
        BY <2>4, <3>1, KeysAreNat DEF Bookkeeping, NoKey
    <2> QED
      BY <2>2, <2>4 DEF MetaMatches, Bookkeeping, Last
  <1>3. TypeOK /\ Bookkeeping /\ [Next]_vars => Bookkeeping'
    BY BookkeepingNext
  <1> QED
    BY <1>1, <1>2, <1>3, SegmentTypeOK, SegmentInvariant, PTL DEF Spec

-----------------------------------------------------------------------------
(* The size of blocks.                                                     *)

\* An encoded entry exceeds its estimate by at most ten bytes: three varints of
\* up to five bytes, of which the estimate counts five (block.rs add).
LEMMA EncodedLenBound ==
    ASSUME NEW b \in BuilderType, NEW k \in Key, NEW v \in Value
    PROVE  /\ EncodedLen(b, k, v) <= EntryEstimate(k, v) + (15 - 5)
           /\ EncodedLen(b, k, v) \in Nat /\ EntryEstimate(k, v) \in Nat
  <1>1. KeyLen[k] \in Nat /\ ValueLen[v] \in Nat
    BY LengthsNat
  <1>2. SharedWith(b, k) \in Nat
    <2>1. CASE StartsRestart(b)
      BY <2>1 DEF SharedWith
    <2>2. CASE ~ StartsRestart(b)
      <3>1. Last(b.entries) \in EntryType
        BY <2>2, LastInSet DEF StartsRestart, BuilderType
      <3> QED
        BY <2>2, <3>1, SharedPrefixNat DEF SharedWith, EntryType
    <2> QED
      BY <2>1, <2>2
  <1> DEFINE unshared == KeyLen[k] - SharedWith(b, k)
             x == VarintLen(SharedWith(b, k))
             y == VarintLen(unshared)
             z == VarintLen(ValueLen[v])
  <1>3. x \in 1 .. 5 /\ y \in 1 .. 5 /\ z \in 1 .. 5
    BY DEF VarintLen
  <1>4. EncodedLen(b, k, v) = x + y + z + unshared + ValueLen[v]
    BY DEF EncodedLen
  <1>5. EncodedLen(b, k, v) \in Nat
    BY EncodedLenNat
  <1> HIDE DEF x, y, z
  <1> QED
    BY <1>1, <1>2, <1>3, <1>4, <1>5 DEF EntryEstimate

\* A block that is not full stays bounded when an entry is added: at most the
\* ten bytes, and four of a new restart point, exceed the block size.
LEMMA AddToBlockBound ==
    ASSUME NEW b \in BuilderType, NEW k \in Key, NEW v \in Value,
           opts.blockSize \in Nat, ~ IsFull(b, k, v), b.entries # <<>>
    PROVE  BlockLen(AddToBlock(b, k, v)) <= opts.blockSize + MaxOvershoot
  <1> DEFINE new == AddToBlock(b, k, v)
             enc == EncodedLen(b, k, v)
             est == EntryEstimate(k, v)
  <1>1. /\ enc <= est + 10 /\ enc \in Nat /\ est \in Nat
    BY EncodedLenBound
  <1>2. b.buf \in Nat /\ b.restarts \in Nat
    BY DEF BuilderType
  <1>3. b.buf + 4 * b.restarts + 8 + est <= opts.blockSize
    BY <1>1, <1>2, SMTT(30) DEF IsFull, EstimatedSize
  <1>4. new.buf = b.buf + enc /\ new.restarts \in {b.restarts, b.restarts + 1}
    BY DEF AddToBlock
  <1> HIDE DEF new, enc, est
  <1>5. BlockLen(new) = b.buf + enc + 4 * new.restarts + 8
    BY <1>1, <1>2, <1>4, SMTT(30) DEF BlockLen
  <1> DEFINE buf == b.buf
             r == b.restarts
             r2 == new.restarts
             size == opts.blockSize
             len == BlockLen(new)
  <1>6. /\ buf \in Nat /\ r \in Nat /\ r2 \in {r, r + 1} /\ size \in Nat
        /\ buf + 4 * r + 8 + est <= size /\ len = buf + enc + 4 * r2 + 8
    BY <1>2, <1>3, <1>4, <1>5
  <1> HIDE DEF buf, r, r2, size, len
  <1>7. len <= size + 14
    BY <1>1, <1>6
  <1>8. MaxOvershoot = 14
    BY DEF MaxOvershoot
  <1> QED
    BY <1>7, <1>8 DEF len, size, new

\* The bound for blocks that are finished and for the current one.
SmallBlocks ==
    /\ Len(cur.entries) > 1 => BlockLen(cur) <= opts.blockSize + MaxOvershoot
    /\ \A i \in DOMAIN blocks :
         Len(blocks[i].entries) > 1 => blocks[i].len <= opts.blockSize + MaxOvershoot

\* What a finish would flush is bounded too.
LEMMA AllBlocksSmall == TypeOK /\ SmallBlocks => BlockSizeBound
  <1> SUFFICES ASSUME TypeOK, SmallBlocks, NEW i \in DOMAIN AllBlocks,
                      Len(AllBlocks[i].entries) > 1
               PROVE  AllBlocks[i].len <= opts.blockSize + MaxOvershoot
    BY DEF BlockSizeBound
  <1>1. CASE cur.entries = <<>>
    BY <1>1 DEF AllBlocks, SmallBlocks
  <1>2. CASE cur.entries # <<>>
    <2>1. blocks \in Seq(BlockType) /\ FlushedBlock \in BlockType
      BY <1>2, FlushType DEF TypeOK
    <2>2. AllBlocks = Append(blocks, FlushedBlock)
      BY <1>2 DEF AllBlocks
    <2>3. CASE i \in 1 .. Len(blocks)
      <3>1. AllBlocks[i] = blocks[i] /\ i \in DOMAIN blocks
        BY <2>1, <2>2, <2>3, AppendAt
      <3> QED
        BY <3>1 DEF SmallBlocks
    <2>4. CASE i = Len(blocks) + 1
      <3>1. AllBlocks[i] = FlushedBlock
        BY <2>1, <2>2, <2>4, AppendAt
      <3>2. FlushedBlock.len = BlockLen(cur) /\ FlushedBlock.entries = cur.entries
        BY DEF FlushedBlock
      <3> QED
        BY <3>1, <3>2 DEF SmallBlocks
    <2>5. i \in 1 .. Len(blocks) + 1
      BY <2>1, <2>2, AppendAt
    <2> QED
      BY <2>1, <2>3, <2>4, <2>5
  <1> QED
    BY <1>1, <1>2

\* An accepted add keeps the bound: into the current block unless that is full,
\* else the current block is finished and the new one has one entry.
LEMMA AddKeepsSmall ==
    ASSUME TypeOK, SmallBlocks, NEW k \in Key, NEW v \in Value, Add(k, v)
    PROVE  SmallBlocks'
  <1>1. /\ cur \in BuilderType /\ opts' = opts /\ opts.blockSize \in Nat
        /\ blocks \in Seq(BlockType)
    BY OptionsAssumption DEF Add, TypeOK, BuilderType
  <1>2. CASE IsFull(cur, k, v)
    <2>1. cur' = FreshBlockWith(k, v) /\ blocks' = Append(blocks, FlushedBlock)
      BY <1>2 DEF Add
    <2>2. cur.entries # <<>>
      BY <1>2 DEF IsFull
    <2>3. cur'.entries = Append(<<>>, Entry(k, v))
      BY <2>1, EmptyBlockType, AddToBlockType DEF FreshBlockWith
    <2>4. ASSUME NEW i \in DOMAIN blocks', Len(blocks'[i].entries) > 1
          PROVE  blocks'[i].len <= opts'.blockSize + MaxOvershoot
      <3>1. blocks' = AllBlocks
        BY <2>1, <2>2 DEF AllBlocks
      <3> QED
        BY <1>1, <2>4, <3>1, AllBlocksSmall DEF BlockSizeBound
    <2> QED
      BY <2>3, <2>4 DEF SmallBlocks
  <1>3. CASE ~ IsFull(cur, k, v)
    <2>1. cur' = AddToBlock(cur, k, v) /\ blocks' = blocks
      BY <1>3 DEF Add
    <2>2. CASE cur.entries = <<>>
      <3>1. cur'.entries = Append(<<>>, Entry(k, v))
        BY <1>1, <2>1, <2>2, AddToBlockType
      <3> QED
        BY <1>1, <2>1, <3>1 DEF SmallBlocks
    <2>3. CASE cur.entries # <<>>
      <3>1. BlockLen(AddToBlock(cur, k, v)) <= opts.blockSize + MaxOvershoot
        BY <1>1, <1>3, <2>3, AddToBlockBound
      <3>2. BlockLen(cur)' <= opts'.blockSize + MaxOvershoot
        BY <1>1, <2>1, <3>1 DEF BlockLen
      <3> QED
        BY <1>1, <2>1, <3>2 DEF SmallBlocks
    <2> QED
      BY <2>2, <2>3
  <1> QED
    BY <1>2, <1>3

\* No block of several entries outgrows the block size by more than fourteen
\* bytes, for any lengths of keys and values (block.rs add, writer.rs add).
THEOREM SegmentBlockSizeBound == Spec => []BlockSizeBound
  <1>1. Init => SmallBlocks
    <2> SUFFICES ASSUME Init PROVE SmallBlocks
      OBVIOUS
    <2>1. blocks = <<>> /\ cur.entries = <<>>
      BY EmptyBlockType DEF Init
    <2> QED
      BY <2>1 DEF SmallBlocks
  <1>2. TypeOK /\ SmallBlocks /\ [Next]_vars => SmallBlocks'
    <2> SUFFICES ASSUME TypeOK, SmallBlocks, [Next]_vars PROVE SmallBlocks'
      OBVIOUS
    <2>1. ASSUME UNCHANGED <<opts, blocks, cur>> PROVE SmallBlocks'
      BY <2>1 DEF SmallBlocks, BlockLen
    <2>2. ASSUME NEW k \in Key, NEW v \in Value, Add(k, v) PROVE SmallBlocks'
      BY <2>2, AddKeepsSmall
    <2>3. CASE \E k \in Key, v \in Value : AddRefused(k, v)
      BY <2>1, <2>3 DEF AddRefused, writer
    <2>4. CASE Finish \/ FinishEmpty \/ FinishAllowEmpty
      BY <2>1, <2>4 DEF Finish, FinishEmpty, FinishAllowEmpty, FinishImpl, writer
    <2>5. CASE UNCHANGED vars
      BY <2>1, <2>5 DEF vars, writer
    <2> QED
      BY <2>2, <2>3, <2>4, <2>5 DEF Next
  <1> QED
    BY <1>1, <1>2, AllBlocksSmall, SegmentTypeOK, PTL DEF Spec
-----------------------------------------------------------------------------
(* The order of iteration.                                                 *)

\* before[i] is what the blocks ahead of block i hold, one behind the other.
HeldAhead(bs, before) ==
    /\ before \in [1 .. Len(bs) + 1 -> Seq(EntryType)]
    /\ before[1] = <<>>
    /\ \A i \in 1 .. Len(bs) : before[i + 1] = before[i] \o bs[i].entries

\* The finished blocks hold the entries accepted first, in order, and the
\* current block holds the rest.
InOrder ==
    \E before :
        /\ HeldAhead(blocks, before)
        /\ added = before[Len(blocks) + 1] \o cur.entries

\* part[i] is the first i of the sequences seqs, joined.
Joins(seqs, part) ==
    /\ part[1] = seqs[1]
    /\ \A i \in 2 .. Len(seqs) : part[i] = part[i - 1] \o seqs[i]

\* FlattenSeq follows its recursion: what satisfies the equations of its local
\* function is what it computes.
LEMMA FlattenIs ==
    ASSUME NEW seqs, NEW part, Len(seqs) \in Nat \ {0}, Joins(seqs, part)
    PROVE  FlattenSeq(seqs) = part[Len(seqs)]
  <1> DEFINE n == Len(seqs)
  <1>0. /\ n \in Nat \ {0} /\ part[1] = seqs[1]
        /\ \A i \in 2 .. n : part[i] = part[i - 1] \o seqs[i]
    BY DEF Joins
  <1> DEFINE D == 1 .. Len(seqs)
             Is(f) == f = [i \in D |-> IF i = 1 THEN seqs[i] ELSE f[i - 1] \o seqs[i]]
             w == [i \in D |-> part[i]]
             d == CHOOSE f : Is(f)
  <1>1. Is(w)
    <2> DEFINE g == [i \in D |-> IF i = 1 THEN seqs[i] ELSE w[i - 1] \o seqs[i]]
    <2>1. ASSUME NEW i \in D PROVE w[i] = g[i]
      <3>1. CASE i = 1
        BY <1>0, <3>1
      <3>2. CASE i # 1
        <4>1. i \in 2 .. n /\ i - 1 \in D
          BY <1>0, <3>2
        <4> QED
          BY <1>0, <3>2, <4>1
      <3> QED
        BY <3>1, <3>2
    <2>2. w = [i \in D |-> w[i]] /\ g = [i \in D |-> g[i]]
      OBVIOUS
    <2>3. w = g
      <3> HIDE DEF w, g
      <3> QED
        BY <2>1, <2>2
    <2> HIDE DEF w
    <2> QED
      BY <2>3
  <1> HIDE DEF w
  <1>2. Is(d)
    BY <1>1, Zenon
  <1>3. FlattenSeq(seqs) = d[n]
    BY <1>0 DEF FlattenSeq
  <1>4. \A i \in D : d[i] = IF i = 1 THEN seqs[i] ELSE d[i - 1] \o seqs[i]
    <2> HIDE DEF d
    <2> QED
      BY <1>2
  <1> HIDE DEF d, Is
  <1>5. ASSUME NEW i \in 1 .. n, d[i] # part[i] PROVE FALSE
    <2> DEFINE Wrong == {m \in 1 .. n : d[m] # part[m]}
               m0 == LeastOf(Wrong)
    <2>1. Wrong \in SUBSET Nat /\ Wrong # {}
      BY <1>5
    <2>2. m0 \in Wrong /\ \A l \in Wrong : m0 <= l
      BY <2>1, LeastOfNat
    <2> HIDE DEF m0
    <2>3. m0 \in 1 .. n /\ d[m0] # part[m0]
      BY <2>2
    <2>4. m0 # 1
      BY <1>0, <1>4, <2>3
    <2>5. m0 - 1 \in 1 .. n /\ m0 \in 2 .. n /\ m0 - 1 < m0
      BY <1>0, <2>3, <2>4
    <2>6. d[m0 - 1] = part[m0 - 1]
      <3>1. m0 - 1 \notin Wrong
        BY <2>2, <2>3, <2>5
      <3> QED
        BY <2>5, <3>1
    <2> QED
      BY <1>0, <1>4, <2>3, <2>4, <2>5, <2>6
  <1> QED
    BY <1>0, <1>3, <1>5

\* What is held ahead of a block stays so when a block is put behind.
LEMMA HeldAheadExtend ==
    ASSUME NEW bs \in Seq(BlockType), NEW b \in BlockType, NEW before,
           HeldAhead(bs, before), NEW rest \in Seq(EntryType), b.entries = rest
    PROVE  \E longer :
             /\ HeldAhead(Append(bs, b), longer)
             /\ longer[Len(Append(bs, b)) + 1] = before[Len(bs) + 1] \o rest
  <1> DEFINE n == Len(bs)
             cs == Append(bs, b)
             all == before[n + 1] \o rest
             longer == [i \in 1 .. n + 2 |-> IF i = n + 2 THEN all ELSE before[i]]
  <1> HIDE DEF BlockType
  <1>1. /\ n \in Nat /\ Len(cs) = n + 1 /\ cs[n + 1] = b
        /\ \A i \in 1 .. n : cs[i] = bs[i]
    BY AppendAt
  <1> HIDE DEF n, cs
  <1>2. /\ before \in [1 .. n + 1 -> Seq(EntryType)] /\ before[1] = <<>>
        /\ \A i \in 1 .. n : before[i + 1] = before[i] \o bs[i].entries
    BY DEF HeldAhead, n
  <1>3. all \in Seq(EntryType)
    <2>1. before[n + 1] \in Seq(EntryType)
      BY <1>1, <1>2
    <2> QED
      BY <2>1
  <1> HIDE DEF all
  <1>4. longer \in [1 .. Len(cs) + 1 -> Seq(EntryType)]
    BY <1>1, <1>2, <1>3
  <1>5. longer[1] = <<>> /\ longer[n + 2] = all
    BY <1>1, <1>2
  <1>6. ASSUME NEW i \in 1 .. Len(cs)
        PROVE  longer[i + 1] = longer[i] \o cs[i].entries
    <2>1. longer[i] = before[i]
      BY <1>1
    <2>2. CASE i = n + 1
      <3>1. longer[i + 1] = all
        BY <1>1, <2>2
      <3> QED
        BY <1>1, <2>1, <2>2, <3>1 DEF all
    <2>3. CASE i \in 1 .. n
      <3>1. longer[i + 1] = before[i + 1]
        BY <1>1, <2>3
      <3> QED
        BY <1>1, <1>2, <2>1, <2>3, <3>1
    <2>4. i = n + 1 \/ i \in 1 .. n
      BY <1>1
    <2> HIDE DEF longer
    <2> QED
      BY <2>2, <2>3, <2>4
  <1>7. Len(cs) + 1 = n + 2
    BY <1>1
  <1> HIDE DEF longer
  <1>8. HeldAhead(cs, longer)
    BY <1>4, <1>5, <1>6 DEF HeldAhead
  <1> QED
    BY <1>5, <1>7, <1>8 DEF cs, all, n

\* A function on the first n numbers is a sequence of length n.
LEMMA FunctionLen ==
    ASSUME NEW S, NEW n \in Nat, NEW s \in [1 .. n -> S]
    PROVE  s \in Seq(S) /\ Len(s) = n
  OBVIOUS

\* Joining the entries of all blocks gives what is held up to the end.
LEMMA HeldAheadJoin ==
    ASSUME NEW bs, NEW before, HeldAhead(bs, before), Len(bs) \in Nat \ {0},
           \A i \in 1 .. Len(bs) : bs[i].entries \in Seq(EntryType)
    PROVE  FlattenSeq([i \in 1 .. Len(bs) |-> bs[i].entries]) = before[Len(bs) + 1]
  <1> DEFINE n == Len(bs)
             seqs == [i \in 1 .. n |-> bs[i].entries]
             part == [i \in 1 .. n |-> before[i + 1]]
  <1>1. n \in Nat \ {0}
    OBVIOUS
  <1> HIDE DEF n
  <1>2. /\ before[1] = <<>>
        /\ \A i \in 1 .. n : before[i + 1] = before[i] \o bs[i].entries
        /\ \A i \in 1 .. n : bs[i].entries \in Seq(EntryType)
    BY DEF HeldAhead, n
  <1>3. Len(seqs) = n
    <2>1. seqs \in [1 .. n -> Seq(EntryType)]
      BY <1>2
    <2> QED
      BY <1>1, <2>1, FunctionLen
  <1>4. part[1] = seqs[1]
    <2> HIDE DEF EntryType, part, seqs
    <2>0. 1 \in 1 .. n
      BY <1>1
    <2>1. bs[1].entries \in Seq(EntryType) /\ before[1 + 1] = <<>> \o bs[1].entries
      BY <1>2, <2>0, Zenon
    <2> USE DEF part, seqs
    <2>2. <<>> \o bs[1].entries = bs[1].entries
      BY <2>1
    <2>3. part[1] = before[1 + 1] /\ seqs[1] = bs[1].entries
      BY <1>1
    <2> QED
      BY <2>1, <2>2, <2>3
  <1>5. ASSUME NEW i \in 2 .. n PROVE part[i] = part[i - 1] \o seqs[i]
    <2>1. i - 1 \in 1 .. n /\ i \in 1 .. n /\ i - 1 + 1 = i
      BY <1>1
    <2>2. part[i] = before[i + 1] /\ part[i - 1] = before[i] /\ seqs[i] = bs[i].entries
      BY <2>1
    <2> QED
      BY <1>2, <2>1, <2>2
  <1>6. part[n] = before[n + 1]
    BY <1>1
  <1> HIDE DEF part, seqs
  <1>7. Joins(seqs, part)
    BY <1>3, <1>4, <1>5, Zenon DEF Joins
  <1>8. FlattenSeq(seqs) = part[n]
    BY <1>1, <1>3, <1>7, FlattenIs
  <1> QED
    BY <1>6, <1>8 DEF n, seqs

\* An accepted add puts its entry behind all others: at the end of the current
\* block, or first in a new one when the current block is finished.
LEMMA AddKeepsInOrder ==
    ASSUME TypeOK, InOrder, NEW k \in Key, NEW v \in Value, Add(k, v)
    PROVE  InOrder'
  <1> DEFINE e == Entry(k, v)
             n == Len(blocks)
  <1>1. /\ cur \in BuilderType /\ cur.entries \in Seq(EntryType)
        /\ blocks \in Seq(BlockType) /\ e \in EntryType
        /\ added' = Append(added, e)
    BY DEF Add, TypeOK, BuilderType, Entry, EntryType
  <1>2. PICK before : HeldAhead(blocks, before) /\ added = before[n + 1] \o cur.entries
    BY DEF InOrder
  <1>3. before[n + 1] \in Seq(EntryType)
    <2>1. n + 1 \in 1 .. n + 1
      BY <1>1, ElementAt
    <2> QED
      BY <1>2, <2>1 DEF HeldAhead
  <1>4. added' = before[n + 1] \o Append(cur.entries, e)
    <2> DEFINE p == before[n + 1]
               q == cur.entries
    <2>1. p \in Seq(EntryType) /\ q \in Seq(EntryType) /\ e \in EntryType
      BY <1>1, <1>3
    <2>2. added' = Append(p \o q, e)
      BY <1>1, <1>2
    <2> HIDE DEF p, q, e, EntryType
    <2>3. Append(p \o q, e) = p \o Append(q, e)
      BY <2>1
    <2> QED
      BY <2>2, <2>3 DEF p, q
  <1> HIDE DEF e
  <1>5. CASE IsFull(cur, k, v)
    <2>1. /\ blocks' = Append(blocks, FlushedBlock) /\ cur' = FreshBlockWith(k, v)
          /\ cur.entries # <<>>
      BY <1>5 DEF Add, IsFull
    <2>2. cur'.entries = <<e>>
      BY <2>1, EmptyBlockType, AddToBlockType DEF FreshBlockWith, e
    <2>3. FlushedBlock \in BlockType /\ FlushedBlock.entries = cur.entries
      BY <2>1, FlushType DEF FlushedBlock
    <2>4. PICK longer : /\ HeldAhead(blocks', longer)
                        /\ longer[Len(blocks') + 1] = before[n + 1] \o cur.entries
      <3> DEFINE cs == Append(blocks, FlushedBlock)
      <3>1. \E longer : /\ HeldAhead(cs, longer)
                        /\ longer[Len(cs) + 1] = before[n + 1] \o cur.entries
        BY <1>1, <1>2, <2>3, HeldAheadExtend
      <3>2. blocks' = cs
        BY <2>1
      <3> HIDE DEF cs
      <3> QED
        BY <3>1, <3>2
    <2>5. added' = longer[Len(blocks') + 1] \o cur'.entries
      <3>1. added \in Seq(EntryType) /\ added' = added \o <<e>>
        BY <1>1 DEF TypeOK
      <3> QED
        BY <1>2, <2>2, <2>4, <3>1
    <2> QED
      BY <2>4, <2>5 DEF InOrder
  <1>6. CASE ~ IsFull(cur, k, v)
    <2>1. cur' = AddToBlock(cur, k, v) /\ blocks' = blocks
      BY <1>6 DEF Add
    <2>2. cur'.entries = Append(cur.entries, e)
      BY <1>1, <2>1, AddToBlockType DEF e
    <2> QED
      BY <1>2, <1>4, <2>1, <2>2 DEF InOrder
  <1> QED
    BY <1>5, <1>6

\* The entries of the blocks of a segment, joined, are the added ones.
LEMMA AllBlocksJoin ==
    ASSUME WriterInvariant, InOrder
    PROVE  FlattenSeq([i \in 1 .. Len(AllBlocks) |-> AllBlocks[i].entries]) = added
  <1> DEFINE n == Len(blocks)
  <1>1. /\ TypeOK /\ blocks \in Seq(BlockType) /\ cur.entries \in Seq(EntryType)
        /\ CurrentFollows
    BY DEF WriterInvariant, TypeOK
  <1>2. PICK before : HeldAhead(blocks, before) /\ added = before[n + 1] \o cur.entries
    BY DEF InOrder
  <1>3. CASE cur.entries = <<>>
    <2>1. AllBlocks = <<>> /\ Len(blocks) = 0
      BY <1>1, <1>3 DEF AllBlocks, CurrentFollows
    <2>2. added = <<>>
      <3>1. before[n + 1] = <<>>
        BY <1>2, <2>1 DEF HeldAhead
      <3> QED
        BY <1>2, <1>3, <3>1
    <2> DEFINE s == [i \in 1 .. Len(AllBlocks) |-> AllBlocks[i].entries]
    <2>3. s = <<>> /\ Len(s) = 0
      BY <2>1
    <2> HIDE DEF s
    <2>4. FlattenSeq(s) = <<>>
      BY <2>3 DEF FlattenSeq
    <2> QED
      BY <2>2, <2>4 DEF s
  <1>4. CASE cur.entries # <<>>
    <2>1. /\ AllBlocks = Append(blocks, FlushedBlock)
          /\ FlushedBlock \in BlockType /\ FlushedBlock.entries = cur.entries
      BY <1>1, <1>4, FlushType DEF AllBlocks, FlushedBlock
    <2> DEFINE cs == Append(blocks, FlushedBlock)
    <2>2. PICK longer : /\ HeldAhead(AllBlocks, longer)
                        /\ longer[Len(AllBlocks) + 1] = before[n + 1] \o cur.entries
      <3>1. \E longer : /\ HeldAhead(cs, longer)
                        /\ longer[Len(cs) + 1] = before[n + 1] \o cur.entries
        BY <1>1, <1>2, <2>1, HeldAheadExtend
      <3>2. AllBlocks = cs
        BY <2>1
      <3> HIDE DEF cs
      <3> QED
        BY <3>1, <3>2
    <2>3. AllBlocks \in Seq(BlockType) /\ Len(AllBlocks) \in Nat \ {0}
      <3> HIDE DEF BlockType
      <3> QED
        BY <1>1, <2>1, AppendAt
    <2>4. \A i \in 1 .. Len(AllBlocks) : AllBlocks[i].entries \in Seq(EntryType)
      <3>1. \A i \in 1 .. Len(AllBlocks) : AllBlocks[i] \in BlockType
        BY <2>3, ElementAt
      <3> QED
        BY <3>1 DEF BlockType
    <2> QED
      BY <1>2, <2>2, <2>3, <2>4, HeldAheadJoin
  <1> QED
    BY <1>3, <1>4

\* Iterating a finished segment yields the accepted entries, each once and in
\* the order of the adds, for every number of blocks (reader.rs
\* SegmentReader::iter): what merge_segments relies on.
THEOREM SegmentIterCorrect == Spec => []IterCorrect
  <1>1. Init => InOrder
    <2> SUFFICES ASSUME Init PROVE InOrder
      OBVIOUS
    <2> DEFINE before == [i \in 1 .. 1 |-> <<>>]
    <2>1. blocks = <<>> /\ cur.entries = <<>> /\ added = <<>> /\ Len(blocks) = 0
      BY EmptyBlockType DEF Init
    <2>2. before \in [1 .. 1 -> Seq(EntryType)] /\ before[1] = <<>>
      OBVIOUS
    <2> HIDE DEF before
    <2>3. HeldAhead(blocks, before)
      BY <2>1, <2>2 DEF HeldAhead
    <2>4. added = before[Len(blocks) + 1] \o cur.entries
      BY <2>1, <2>2
    <2> QED
      BY <2>3, <2>4 DEF InOrder
  <1>2. TypeOK /\ InOrder /\ [Next]_vars => InOrder'
    <2> SUFFICES ASSUME TypeOK, InOrder, [Next]_vars PROVE InOrder'
      OBVIOUS
    <2>1. ASSUME UNCHANGED <<blocks, cur, added>> PROVE InOrder'
      BY <2>1 DEF InOrder
    <2>2. ASSUME NEW k \in Key, NEW v \in Value, Add(k, v) PROVE InOrder'
      BY <2>2, AddKeepsInOrder
    <2>3. CASE \E k \in Key, v \in Value : AddRefused(k, v)
      BY <2>1, <2>3 DEF AddRefused, writer
    <2>4. CASE Finish \/ FinishEmpty \/ FinishAllowEmpty
      BY <2>1, <2>4 DEF Finish, FinishEmpty, FinishAllowEmpty, FinishImpl, writer
    <2>5. CASE UNCHANGED vars
      BY <2>1, <2>5 DEF vars, writer
    <2> QED
      BY <2>2, <2>3, <2>4, <2>5 DEF Next
  <1>3. WriterInvariant /\ InOrder /\ SectionsTile => IterCorrect
    <2> SUFFICES ASSUME WriterInvariant, InOrder, SectionsTile, IsFinished
                 PROVE  IterSeq = added
      BY DEF IterCorrect
    <2>1. segment.blocks = AllBlocks /\ segment.fst = AllFst
      <3>1. PICK filter \in Filters : segment = Assemble(filter)
        BY Zenon DEF WriterInvariant, SegmentIsAssembled
      <3> QED
        BY <3>1, SMTT(30) DEF Assemble
    <2>2. DOMAIN segment.fst = 1 .. Len(AllBlocks)
      BY <2>1, AllIsLayout DEF Layout
    <2> DEFINE at(i) == BlocksAt(segment, segment.fst[i].off,
                            FindBlockEnd(segment.fst, segment.fst[i].off,
                                         segment.footer.dataLen))
               pick(i) == CHOOSE b \in at(i) : TRUE
               s == [i \in DOMAIN segment.fst |-> segment.blocks[pick(i)].entries]
               t == [i \in 1 .. Len(AllBlocks) |-> AllBlocks[i].entries]
    <2>3. \A i \in DOMAIN segment.fst : at(i) = {i}
      BY DEF SectionsTile
    <2>4. IterSeq = FlattenSeq(s)
      BY DEF IterSeq
    <2> HIDE DEF at
    <2>5. \A i \in DOMAIN segment.fst : pick(i) = i
      BY <2>3
    <2> HIDE DEF pick
    <2>6. s = t
      <3>1. \A i \in 1 .. Len(AllBlocks) : s[i] = t[i]
        BY <2>1, <2>2, <2>5
      <3>2. s = [i \in DOMAIN segment.fst |-> s[i]]
        OBVIOUS
      <3>3. t = [i \in 1 .. Len(AllBlocks) |-> t[i]]
        OBVIOUS
      <3> HIDE DEF s, t
      <3> QED
        BY <2>2, <3>1, <3>2, <3>3
    <2>7. FlattenSeq(t) = added
      BY AllBlocksJoin
    <2> QED
      BY <2>4, <2>6, <2>7
  <1> QED
    BY <1>1, <1>2, <1>3, SegmentTypeOK, SegmentInvariant, SegmentSectionsTile, PTL DEF Spec

-----------------------------------------------------------------------------
(* Damage (SegmentDamage).  Of the file, DamageIsRecorded says which of    *)
(* its parts are still those of the segment.                               *)

\* Every behaviour is one of the writer: storing and damaging are stutters.
LEMMA DamageDrivesWriter == DamageSpec => Spec
  <1>1. DamageInit => Init
    BY DEF DamageInit
  <1>2. [DamageNext]_damageVars => [Next]_vars
    <2> SUFFICES ASSUME [DamageNext]_damageVars PROVE [Next]_vars
      OBVIOUS
    <2>1. CASE Next /\ UNCHANGED <<file, faults>>
      BY <2>1
    <2>2. CASE Store
      BY <2>2, SMTT(30) DEF Store
    <2>3. CASE AnyFault
      BY <2>3 DEF AnyFault, Fault, Truncate, ChangeFooter, RewriteLength, MoveFilter,
                  MoveDirectory, ChangeFilter, BreakDirectory, ChangeDirectory, ChangeBlock
    <2>4. CASE UNCHANGED damageVars
      BY <2>4 DEF damageVars
    <2> QED
      BY <2>1, <2>2, <2>3, <2>4 DEF DamageNext
  <1> QED
    BY <1>1, <1>2, PTL DEF DamageSpec, Spec

-----------------------------------------------------------------------------
(* What is left of the segment.                                            *)

Parts == {"end", "footer", "filter", "directory", "block"}

\* f has the fields of a file.
FileRecord(f) ==
    DOMAIN f = {"size", "wrong", "footer", "filter", "fst", "badBlocks"}

OnlyBlocks == \A n \in DOMAIN faults : faults[n] = "block"

\* A writer that has a segment is finished, and a file is that of a segment;
\* the parts without a fault are still those of the segment.
DamageIsRecorded ==
    /\ faults \in Seq(Parts)
    /\ segment # NoSegment => IsFinished
    /\ file # NoFile =>
         /\ IsFinished /\ FileRecord(file)
         /\ ~ Damaged("directory") => file.fst = segment.fst
         /\ ~ Damaged("filter") => file.filter = segment.bloom
         /\ OnlyBlocks => file.footer = segment.footer /\ file.size = segment.size

\* A finished writer takes no step.
LEMMA FinishedStays ==
    ASSUME Next PROVE ~ IsFinished /\ segment = NoSegment
  BY DEF Next, AddRefused, Add, Finish, FinishEmpty, FinishAllowEmpty, CanCall, IsFinished

\* Only finish makes a segment.
LEMMA ProducedByFinish ==
    ASSUME Next PROVE segment' # NoSegment => IsFinished'
  <1>1. segment = NoSegment
    BY FinishedStays
  <1> QED
    BY <1>1 DEF Next, AddRefused, Add, Finish, FinishEmpty, FinishAllowEmpty, FinishImpl,
                IsFinished

\* damaged has the parts of the file which a fault in part leaves alone.
Spares(part, damaged) ==
    /\ part \in Parts /\ FileRecord(damaged)
    /\ part # "directory" => damaged.fst = file.fst
    /\ part # "filter" => damaged.filter = file.filter
    /\ part = "block" => damaged.footer = file.footer /\ damaged.size = file.size

\* A fault keeps the record of what is damaged if it spares the other parts.
LEMMA FaultKeeps ==
    ASSUME DamageIsRecorded, file # NoFile,
           NEW part, NEW damaged, Fault(part, damaged), Spares(part, damaged)
    PROVE  DamageIsRecorded'
  <1> USE DEF Spares
  <1>1. /\ file' = damaged /\ faults' = Append(faults, part) /\ faults \in Seq(Parts)
        /\ segment' = segment /\ result' = result
    BY DEF Fault, vars, DamageIsRecorded
  <1>2. /\ faults' \in Seq(Parts)
        /\ Len(faults) \in Nat /\ DOMAIN faults = 1 .. Len(faults)
        /\ DOMAIN faults' = 1 .. Len(faults) + 1
        /\ \A n \in 1 .. Len(faults) : faults'[n] = faults[n]
        /\ faults'[Len(faults) + 1] = part
    BY <1>1, AppendAt
  <1>3. /\ ~ Damaged("directory")' => part # "directory" /\ ~ Damaged("directory")
        /\ ~ Damaged("filter")' => part # "filter" /\ ~ Damaged("filter")
    BY <1>2 DEF Damaged
  <1>4. OnlyBlocks' => OnlyBlocks /\ part = "block"
    BY <1>2 DEF OnlyBlocks
  <1>5. ~ Damaged("directory")' => damaged.fst = segment.fst
    BY <1>3 DEF DamageIsRecorded
  <1>6. ~ Damaged("filter")' => damaged.filter = segment.bloom
    BY <1>3 DEF DamageIsRecorded
  <1>7. OnlyBlocks' => damaged.footer = segment.footer /\ damaged.size = segment.size
    BY <1>4 DEF DamageIsRecorded
  <1>8. IsFinished /\ IsFinished' = IsFinished
    BY <1>1 DEF DamageIsRecorded, IsFinished
  <1> QED
    BY <1>1, <1>2, <1>5, <1>6, <1>7, <1>8 DEF DamageIsRecorded

\* Every fault names the part it damages.
LEMMA AnyFaultKeeps ==
    ASSUME DamageIsRecorded, file # NoFile, AnyFault
    PROVE  DamageIsRecorded'
  <1>1. FileRecord(file)
    BY DEF DamageIsRecorded
  <1>2. ASSUME NEW n, NEW wrong, Truncate(n, wrong) PROVE DamageIsRecorded'
    <2>1. PICK d : d = [file EXCEPT !.size = n, !.wrong = wrong]
      OBVIOUS
    <2>2. FileRecord(d) /\ d.fst = file.fst /\ d.filter = file.filter
      BY <1>1, <2>1 DEF FileRecord
    <2>3. Spares("end", d)
      BY <2>2 DEF Spares, Parts
    <2>4. Fault("end", d)
      BY <2>1, <1>2 DEF Truncate
    <2> QED
      BY <2>3, <2>4, FaultKeeps
  <1>3. ASSUME NEW wrong, ChangeFooter(wrong) PROVE DamageIsRecorded'
    <2>1. PICK d : d = [file EXCEPT !.wrong = wrong]
      OBVIOUS
    <2>2. FileRecord(d) /\ d.fst = file.fst /\ d.filter = file.filter
      BY <1>1, <2>1 DEF FileRecord
    <2>3. Spares("footer", d)
      BY <2>2 DEF Spares, Parts
    <2>4. Fault("footer", d)
      BY <2>1, <1>3 DEF ChangeFooter
    <2> QED
      BY <2>3, <2>4, FaultKeeps
  <1>4. ASSUME NEW field, NEW n, RewriteLength(field, n) PROVE DamageIsRecorded'
    <2>1. PICK d : d = [file EXCEPT !.footer[field] = n]
      OBVIOUS
    <2>2. FileRecord(d) /\ d.fst = file.fst /\ d.filter = file.filter
      BY <1>1, <2>1 DEF FileRecord
    <2>3. Spares("footer", d)
      BY <2>2 DEF Spares, Parts
    <2>4. Fault("footer", d)
      BY <2>1, <1>4 DEF RewriteLength
    <2> QED
      BY <2>3, <2>4, FaultKeeps
  <1>5. ASSUME NEW field, NEW n, NEW filter, MoveFilter(field, n, filter)
        PROVE  DamageIsRecorded'
    <2>1. PICK d : d = [file EXCEPT !.footer[field] = n, !.filter = filter]
      OBVIOUS
    <2>2. FileRecord(d) /\ d.fst = file.fst
      BY <1>1, <2>1 DEF FileRecord
    <2>3. Spares("filter", d)
      BY <2>2 DEF Spares, Parts
    <2>4. Fault("filter", d)
      BY <2>1, <1>5 DEF MoveFilter
    <2> QED
      BY <2>3, <2>4, FaultKeeps
  <1>6. ASSUME NEW field, NEW n, MoveDirectory(field, n) PROVE DamageIsRecorded'
    <2>1. PICK d : d = [file EXCEPT !.footer[field] = n, !.fst = Unreadable]
      OBVIOUS
    <2>2. FileRecord(d) /\ d.filter = file.filter
      BY <1>1, <2>1 DEF FileRecord
    <2>3. Spares("directory", d)
      BY <2>2 DEF Spares, Parts
    <2>4. Fault("directory", d)
      BY <2>1, <1>6 DEF MoveDirectory
    <2> QED
      BY <2>3, <2>4, FaultKeeps
  <1>7. ASSUME NEW filter, ChangeFilter(filter) PROVE DamageIsRecorded'
    <2>1. PICK d : d = [file EXCEPT !.filter = filter]
      OBVIOUS
    <2>2. FileRecord(d) /\ d.fst = file.fst
      BY <1>1, <2>1 DEF FileRecord
    <2>3. Spares("filter", d)
      BY <2>2 DEF Spares, Parts
    <2>4. Fault("filter", d)
      BY <2>1, <1>7 DEF ChangeFilter
    <2> QED
      BY <2>3, <2>4, FaultKeeps
  <1>8. CASE BreakDirectory
    <2>1. PICK d : d = [file EXCEPT !.fst = Unreadable]
      OBVIOUS
    <2>2. FileRecord(d) /\ d.filter = file.filter
      BY <1>1, <2>1 DEF FileRecord
    <2>3. Spares("directory", d)
      BY <2>2 DEF Spares, Parts
    <2>4. Fault("directory", d)
      BY <2>1, <1>8 DEF BreakDirectory
    <2> QED
      BY <2>3, <2>4, FaultKeeps
  <1>9. ASSUME NEW i, NEW entry, ChangeDirectory(i, entry) PROVE DamageIsRecorded'
    <2>1. PICK d : d = [file EXCEPT !.fst[i] = entry]
      OBVIOUS
    <2>2. FileRecord(d) /\ d.filter = file.filter
      BY <1>1, <2>1 DEF FileRecord
    <2>3. Spares("directory", d)
      BY <2>2 DEF Spares, Parts
    <2>4. Fault("directory", d)
      BY <2>1, <1>9 DEF ChangeDirectory
    <2> QED
      BY <2>3, <2>4, FaultKeeps
  <1>10. ASSUME NEW b, ChangeBlock(b) PROVE DamageIsRecorded'
    <2>1. PICK d : d = [file EXCEPT !.badBlocks = @ \cup {b}]
      OBVIOUS
    <2>2. /\ FileRecord(d) /\ d.fst = file.fst /\ d.filter = file.filter
          /\ d.footer = file.footer /\ d.size = file.size
      BY <1>1, <2>1 DEF FileRecord
    <2>3. Spares("block", d)
      BY <2>2 DEF Spares, Parts
    <2>4. Fault("block", d)
      BY <2>1, <1>10 DEF ChangeBlock
    <2> QED
      BY <2>3, <2>4, FaultKeeps
  <1> QED
    BY <1>2, <1>3, <1>4, <1>5, <1>6, <1>7, <1>8, <1>9, <1>10 DEF AnyFault

\* A file that was just stored is the segment.
LEMMA StoreKeeps ==
    ASSUME DamageIsRecorded, Store PROVE DamageIsRecorded'
  <1>1. /\ IsFinished /\ IsFinished' = IsFinished /\ segment' = segment
        /\ faults' = faults /\ faults \in Seq(Parts)
    BY DEF DamageIsRecorded, Store, vars, IsFinished
  <1>2. /\ file'.fst = segment.fst /\ file'.filter = segment.bloom
        /\ file'.footer = segment.footer /\ file'.size = segment.size /\ FileRecord(file')
    BY DEF Store, FileRecord
  <1> QED
    BY <1>1, <1>2 DEF DamageIsRecorded

\* The record of what is damaged is right at any time.
LEMMA DamageInvariant == DamageSpec => []DamageIsRecorded
  <1>1. DamageInit => DamageIsRecorded
    BY DEF DamageInit, Init, DamageIsRecorded, IsFinished
  <1>2. DamageIsRecorded /\ [DamageNext]_damageVars => DamageIsRecorded'
    <2> SUFFICES ASSUME DamageIsRecorded, [DamageNext]_damageVars PROVE DamageIsRecorded'
      OBVIOUS
    <2>1. CASE Next /\ UNCHANGED <<file, faults>>
      <3>1. file = NoFile /\ segment = NoSegment
        BY <2>1, FinishedStays DEF DamageIsRecorded
      <3> QED
        BY <2>1, <3>1, ProducedByFinish DEF DamageIsRecorded
    <2>2. CASE Store
      BY <2>2, StoreKeeps
    <2>3. CASE file # NoFile /\ AnyFault
      BY <2>3, AnyFaultKeeps
    <2>4. CASE UNCHANGED damageVars
      BY <2>4 DEF damageVars, vars, DamageIsRecorded, IsFinished, Damaged, OnlyBlocks
    <2> QED
      BY <2>1, <2>2, <2>3, <2>4 DEF DamageNext
  <1> QED
    BY <1>1, <1>2, PTL DEF DamageSpec

-----------------------------------------------------------------------------
(* The segment under the damage.                                           *)

\* What the writer's invariant says of a finished segment.
LEMMA FinishedSegment ==
    ASSUME WriterInvariant, IsFinished
    PROVE  /\ Layout(segment.blocks, segment.fst, segment.footer.dataLen)
           /\ Covers(segment.bloom, segment.blocks)
           /\ segment.blocks = AllBlocks
           /\ segment.footer.dataLen \in Nat /\ segment.size \in Nat
           /\ segment.footer.dataLen <= segment.size
  <1>1. PICK filter \in Filters : segment = Assemble(filter)
    BY DEF WriterInvariant, SegmentIsAssembled
  <1>2. /\ segment.blocks = AllBlocks /\ segment.fst = AllFst
        /\ segment.footer.dataLen = DataLen /\ segment.bloom = filter
        /\ segment.size = DataLen + filter.len + FstLen + FooterSize
    BY <1>1 DEF Assemble, FooterOf
  <1>3. Layout(segment.blocks, segment.fst, segment.footer.dataLen)
    BY <1>2, AllIsLayout
  <1>4. filter.len \in Nat /\ FstLen \in Nat /\ FooterSize \in Nat
    BY FilterLenNat, FooterSizeAssumption
  <1>5. DataLen \in Nat
    BY <1>2, <1>3 DEF Layout
  <1> QED
    BY <1>2, <1>3, <1>4, <1>5, FilterCovers

\* The entries of a finished segment.
LEMMA FinishedEntries ==
    ASSUME WriterInvariant, IsFinished,
           NEW i \in 1 .. Len(segment.blocks), NEW m \in 1 .. Len(segment.blocks[i].entries)
    PROVE  segment.blocks[i].entries[m].val \in Value
  <1>1. segment.blocks[i].entries[m] \in EntryType
    BY FinishedSegment, AllBlocksType
  <1> QED
    BY <1>1 DEF EntryType

\* A key with an answer lies in some block.
LEMMA StoredSomewhere ==
    ASSUME WriterInvariant, LookupCorrect, IsFinished, NEW k \in Key,
           Expected(k) # NotFound
    PROVE  \E i \in 1 .. Len(segment.blocks) : \E m \in 1 .. Len(segment.blocks[i].entries) :
               segment.blocks[i].entries[m].key = k
  <1> SUFFICES ASSUME \A i \in 1 .. Len(segment.blocks) :
                        \A m \in 1 .. Len(segment.blocks[i].entries) :
                          segment.blocks[i].entries[m].key # k
               PROVE  FALSE
    OBVIOUS
  <1>1. k \in Nat
    BY KeyAssumption
  <1>2. Layout(segment.blocks, segment.fst, segment.footer.dataLen)
    BY FinishedSegment
  <1>3. Get(segment, k) = NotFound
    BY <1>1, <1>2, GetAbsent
  <1> QED
    BY <1>3 DEF LookupCorrect

\* No two blocks start at the same byte.
LEMMA OffsetsDiffer ==
    ASSUME NEW bs, NEW fs, NEW end, Layout(bs, fs, end),
           NEW i \in 1 .. Len(bs), NEW j \in 1 .. Len(bs), bs[i].off = bs[j].off
    PROVE  i = j
  <1>1. \A n \in 1 .. Len(bs) : bs[n].off \in Nat /\ bs[n].len \in Nat /\ bs[n].len >= 8
    BY DEF Layout, IsBlock
  <1>2. /\ i < j => bs[i].off + bs[i].len <= bs[j].off
        /\ j < i => bs[j].off + bs[j].len <= bs[i].off
    BY DEF Layout
  <1>3. Len(bs) \in Nat
    BY DEF Layout
  <1> QED
    BY <1>1, <1>2, <1>3, SMTT(30)

\* Whatever bytes are taken for a block, what is found in them is an entry of
\* that block: bytes which are no block fail the CRC.
LEMMA BlockGetHonest ==
    ASSUME NEW obj, Layout(obj.blocks, obj.fst, obj.footer.dataLen),
           NEW start, NEW stop, NEW k
    PROVE  \/ BlockGet(obj, start, stop, k) \in {"BlockTooSmall", "ChecksumMismatch"}
           \/ \E i \in BlocksAt(obj, start, stop) :
                \/ /\ BlockGet(obj, start, stop, k) = NotFound
                   /\ BlockHits(obj.blocks[i].entries, k) = {}
                \/ \E m \in 1 .. Len(obj.blocks[i].entries) :
                     /\ obj.blocks[i].entries[m].key = k
                     /\ BlockGet(obj, start, stop, k) = obj.blocks[i].entries[m].val
  <1> SUFFICES ASSUME BlocksAt(obj, start, stop) # {}, ~ (stop - start < 8)
               PROVE  \E i \in BlocksAt(obj, start, stop) :
                        \/ /\ BlockGet(obj, start, stop, k) = NotFound
                           /\ BlockHits(obj.blocks[i].entries, k) = {}
                        \/ \E m \in 1 .. Len(obj.blocks[i].entries) :
                             /\ obj.blocks[i].entries[m].key = k
                             /\ BlockGet(obj, start, stop, k) = obj.blocks[i].entries[m].val
    BY DEF BlockGet
  <1>1. PICK i \in BlocksAt(obj, start, stop) :
           i = CHOOSE j \in BlocksAt(obj, start, stop) : TRUE
    OBVIOUS
  <1> DEFINE entries == obj.blocks[i].entries
             hits == BlockHits(entries, k)
  <1>2. BlockGet(obj, start, stop, k) =
            IF hits = {} THEN NotFound ELSE entries[LeastOf(hits)].val
    BY <1>1 DEF BlockGet
  <1>3. i \in 1 .. Len(obj.blocks)
    BY DEF BlocksAt, Layout
  <1>4. DOMAIN entries = 1 .. Len(entries)
    BY <1>3 DEF Layout, IsBlock
  <1>5. hits \in SUBSET Nat
    BY <1>4 DEF BlockHits
  <1>6. CASE hits # {}
    <2>1. LeastOf(hits) \in hits
      BY <1>5, <1>6, LeastOfNat
    <2>2. LeastOf(hits) \in 1 .. Len(entries) /\ entries[LeastOf(hits)].key = k
      BY <2>1, <1>4 DEF BlockHits
    <2> QED
      BY <1>2, <1>6, <2>2, SMTT(30)
  <1> QED
    BY <1>2, <1>6

-----------------------------------------------------------------------------
(* Reading a damaged file.                                                 *)

\* The block a stored key lies in, and where the directory says it is.
LEMMA DirectoryLeads ==
    ASSUME WriterInvariant, IsFinished, file.fst = segment.fst,
           NEW i \in 1 .. Len(segment.blocks), NEW m \in 1 .. Len(segment.blocks[i].entries)
    PROVE  /\ FindBlockForKey(file.fst, segment.blocks[i].entries[m].key)
                  = segment.blocks[i].off
           /\ segment.blocks[i].off # NoOffset
  <1> DEFINE key == segment.blocks[i].entries[m].key
  <1>1. Layout(segment.blocks, segment.fst, segment.footer.dataLen)
    BY FinishedSegment
  <1>2. /\ Reaching(segment.fst, key) # {}
        /\ LeastOf(Reaching(segment.fst, key)) = i
    BY <1>1, DirectoryFinds
  <1>3. segment.fst[i].off = segment.blocks[i].off /\ segment.blocks[i].off \in Nat
    BY <1>1 DEF Layout, IsBlock
  <1> QED
    BY <1>2, <1>3 DEF FindBlockForKey, NoOffset

\* A value that get returns is one the writer was given for the key.
LEMMA AnswersAreReal ==
    ASSUME WriterInvariant, LookupCorrect, IsFinished, NEW k \in Key, FileGet(k) \in Value
    PROVE  FileGet(k) = Expected(k)
  <1>1. /\ NotFound \notin Value /\ "Panic" \notin Value
        /\ {"InvalidBlockOffset", "ChecksumMismatch", "BlockTooSmall"} \cap Value = {}
    BY AnswerAssumption, FaultAssumption DEF ReadErrors
  <1>2. PICK start, stop : FileGet(k) = BlockGet(segment, start, stop, k)
    <2> DEFINE off == FindBlockForKey(file.fst, k)
               end == FindBlockEnd(file.fst, off, file.footer.dataLen)
    <2>1. FileGet(k) = ReadBlock(off, end, k)
      BY <1>1 DEF FileGet
    <2> HIDE DEF off, end
    <2>2. FileGet(k) = BlockGet(segment, off, end, k)
      BY <1>1, <2>1 DEF ReadBlock
    <2> QED
      BY <2>2
  <1>3. /\ Layout(segment.blocks, segment.fst, segment.footer.dataLen)
        /\ Covers(segment.bloom, segment.blocks)
    BY FinishedSegment
  <1>4. PICK i \in BlocksAt(segment, start, stop) :
          \E m \in 1 .. Len(segment.blocks[i].entries) :
             /\ segment.blocks[i].entries[m].key = k
             /\ FileGet(k) = segment.blocks[i].entries[m].val
    BY <1>1, <1>2, <1>3, BlockGetHonest
  <1>5. i \in 1 .. Len(segment.blocks)
    BY <1>3 DEF BlocksAt, Layout
  <1>6. PICK m \in 1 .. Len(segment.blocks[i].entries) :
             /\ segment.blocks[i].entries[m].key = k
             /\ FileGet(k) = segment.blocks[i].entries[m].val
    BY <1>4
  <1>7. Get(segment, k) = segment.blocks[i].entries[m].val
    BY <1>3, <1>5, <1>6, GetPresent
  <1> QED
    BY <1>6, <1>7 DEF LookupCorrect

\* A stored key is not reported missing by the directory and the filter that
\* were written, nor when the filter is unreadable.
LEMMA StoredIsNotMissing ==
    ASSUME WriterInvariant, LookupCorrect, IsFinished, NEW k \in Key,
           Expected(k) # NotFound, file.fst = segment.fst,
           file.filter = segment.bloom \/ file.filter = Unreadable
    PROVE  FileGet(k) # NotFound
  <1>1. /\ Layout(segment.blocks, segment.fst, segment.footer.dataLen)
        /\ Covers(segment.bloom, segment.blocks)
    BY FinishedSegment
  <1>2. PICK i \in 1 .. Len(segment.blocks) :
          \E m \in 1 .. Len(segment.blocks[i].entries) : segment.blocks[i].entries[m].key = k
    BY StoredSomewhere
  <1>3. PICK m \in 1 .. Len(segment.blocks[i].entries) : segment.blocks[i].entries[m].key = k
    BY <1>2
  <1>4. FilterSaysMaybe(k)
    BY <1>1, <1>3 DEF FilterSaysMaybe, Covers
  <1> DEFINE off == segment.blocks[i].off
             stop == FindBlockEnd(file.fst, off, file.footer.dataLen)
  <1>5. FileGet(k) = ReadBlock(off, stop, k)
    BY <1>3, <1>4, DirectoryLeads DEF FileGet
  <1>6. /\ NotFound \notin {"InvalidBlockOffset", "ChecksumMismatch", "BlockTooSmall"}
        /\ NotFound \notin Value /\ "Panic" # NotFound
    BY AnswerAssumption, FaultAssumption DEF ReadErrors
  <1>7. SUFFICES ASSUME BlockGet(segment, off, stop, k) = NotFound PROVE FALSE
    BY <1>5, <1>6 DEF ReadBlock
  <1>8. ASSUME NEW j \in BlocksAt(segment, off, stop) PROVE j = i
    <2>1. j \in 1 .. Len(segment.blocks) /\ segment.blocks[j].off = segment.blocks[i].off
      BY <1>1 DEF BlocksAt, Layout
    <2> QED
      BY <1>1, <2>1, OffsetsDiffer
  <1>9. \A n \in 1 .. Len(segment.blocks[i].entries) : segment.blocks[i].entries[n].val \in Value
    BY FinishedEntries
  <1>10. BlockHits(segment.blocks[i].entries, k) # {}
    BY <1>1, <1>3 DEF BlockHits, Layout, IsBlock
  <1> HIDE DEF off, stop
  <1> QED
    BY <1>1, <1>6, <1>7, <1>8, <1>9, <1>10, BlockGetHonest, SMTT(30)

\* Damage never makes a reader lie, whatever was added and however many faults
\* hit whichever parts: no value is wrong, and a stored key is reported missing
\* only after damage to the directory or to a filter that still deserializes
\* (reader.rs SegmentReader::open, get; bloom.rs; block.rs BlockReader::open).
THEOREM DamageNeverLiesHolds == DamageSpec => []DamageNeverLies
  <1>1. WriterInvariant /\ LookupCorrect /\ DamageIsRecorded => DamageNeverLies
    <2> SUFFICES ASSUME WriterInvariant, LookupCorrect, DamageIsRecorded, file # NoFile,
                        NEW k \in Key
                 PROVE  /\ FileGet(k) \in Value => FileGet(k) = Expected(k)
                        /\ FileGet(k) = NotFound /\ Expected(k) # NotFound =>
                             \/ Damaged("directory")
                             \/ Damaged("filter") /\ file.filter # Unreadable
      BY DEF DamageNeverLies, Opens
    <2>1. /\ IsFinished
          /\ ~ Damaged("directory") => file.fst = segment.fst
          /\ ~ Damaged("filter") => file.filter = segment.bloom
      BY DEF DamageIsRecorded
    <2> QED
      BY <2>1, AnswersAreReal, StoredIsNotMissing
  <1> QED
    BY <1>1, DamageDrivesWriter, DamageInvariant, SegmentInvariant, SegmentLookupCorrect, PTL

\* What get answers: a value, NotFound, a panic or an error that is corruption.
LEMMA ErrorsAreCorruption ==
    ASSUME WriterInvariant, IsFinished, NEW k \in Key, FileGet(k) \in ReadErrors
    PROVE  IsCorruption(FileGet(k))
  <1>1. /\ NotFound \notin ReadErrors /\ "Panic" \notin ReadErrors
        /\ Value \cap ReadErrors = {}
    BY AnswerAssumption DEF ReadErrors
  <1>2. Layout(segment.blocks, segment.fst, segment.footer.dataLen)
    BY FinishedSegment
  <1>3. ASSUME NEW start, NEW stop, BlockGet(segment, start, stop, k) \in ReadErrors
        PROVE  BlockGet(segment, start, stop, k) \in {"BlockTooSmall", "ChecksumMismatch"}
    <2> SUFFICES ASSUME NEW i \in BlocksAt(segment, start, stop),
                        NEW m \in 1 .. Len(segment.blocks[i].entries),
                        BlockGet(segment, start, stop, k) = segment.blocks[i].entries[m].val
                 PROVE  FALSE
      BY <1>1, <1>2, <1>3, BlockGetHonest
    <2>1. i \in 1 .. Len(segment.blocks)
      BY <1>2 DEF BlocksAt, Layout
    <2>2. segment.blocks[i].entries[m].val \in Value
      BY <2>1, FinishedEntries
    <2> QED
      BY <1>1, <1>3, <2>2
  <1> DEFINE off == FindBlockForKey(file.fst, k)
             end == FindBlockEnd(file.fst, off, file.footer.dataLen)
  <1>4. FileGet(k) = ReadBlock(off, end, k)
    BY <1>1 DEF FileGet
  <1> HIDE DEF off, end
  <1>5. FileGet(k) \in {"InvalidBlockOffset", "ChecksumMismatch", "BlockTooSmall"}
    BY <1>1, <1>3, <1>4 DEF ReadBlock
  <1> QED
    BY <1>5 DEF IsCorruption

\* The directory names the last key of each block ...
LEMMA DirectoryNamesLast ==
    ASSUME NEW bs, NEW fs, NEW end, Layout(bs, fs, end), NEW i \in 1 .. Len(bs)
    PROVE  fs[i].key = Last(bs[i].entries).key /\ fs[i].key \in Nat
  BY DEF Layout, IsBlock, Last

\* ... and every block ends within the data section.
LEMMA BlockEndsInData ==
    ASSUME NEW bs, NEW fs, NEW end, Layout(bs, fs, end), NEW i \in 1 .. Len(bs)
    PROVE  bs[i].off + bs[i].len <= end
  <1>1. Len(bs) \in Nat /\ end \in Nat
    BY DEF Layout
  <1>2. Len(bs) \in 1 .. Len(bs) /\ end \in Nat
    BY <1>1, SMTT(30)
  <1>3. \A n \in 1 .. Len(bs) : bs[n].off \in Nat /\ bs[n].len \in Nat
    BY DEF Layout, IsBlock
  <1>4. bs[Len(bs)].off + bs[Len(bs)].len = end
    BY <1>2 DEF Layout
  <1>5. i < Len(bs) => bs[i].off + bs[i].len <= bs[Len(bs)].off
    BY <1>2 DEF Layout
  <1> QED
    BY <1>2, <1>3, <1>4, <1>5, SMTT(30)

\* Only blocks are damaged: a key is answered as before, or its block is one
\* of the damaged ones and its CRC says so.
LEMMA OtherBlocksAnswer ==
    ASSUME WriterInvariant, LookupCorrect, IsFinished, NEW k \in Key,
           file.fst = segment.fst, file.filter = segment.bloom,
           file.footer = segment.footer, file.size = segment.size
    PROVE  \/ FileGet(k) = Expected(k)
           \/ \E b \in file.badBlocks :
                /\ FileGet(k) = "ChecksumMismatch"
                /\ k <= Last(segment.blocks[b].entries).key
                /\ b > 1 => k > Last(segment.blocks[b - 1].entries).key
  <1> DEFINE bs == segment.blocks
             fs == segment.fst
             R == Reaching(fs, k)
             i == LeastOf(R)
             end == segment.footer.dataLen
  <1>1. /\ Layout(bs, fs, end)
        /\ end \in Nat /\ segment.size \in Nat /\ end <= segment.size
        /\ Covers(segment.bloom, bs)
    BY FinishedSegment
  <1>2. /\ DOMAIN fs = 1 .. Len(bs) /\ Len(bs) \in Nat /\ R \in SUBSET Nat
    BY <1>1 DEF Layout, Reaching
  <1>3. Expected(k) = Get(segment, k)
    BY DEF LookupCorrect
  <1>4. CASE R = {}
    BY <1>3, <1>4 DEF FileGet, FindBlockForKey, Get
  <1>5. CASE R # {} /\ ~ FilterSaysMaybe(k)
    <2>1. ~ MightContain(segment.bloom, k)
      BY <1>5 DEF FilterSaysMaybe
    <2> QED
      BY <1>3, <1>5, <2>1 DEF FileGet, Get
  <1>6. CASE R # {} /\ FilterSaysMaybe(k)
    <2>1. i \in R /\ \A j \in R : i <= j
      BY <1>2, <1>6, LeastOfNat
    <2>2. i \in 1 .. Len(bs) /\ fs[i].key >= k
      BY <1>2, <2>1 DEF Reaching
    <2> DEFINE off == fs[i].off
               stop == FindBlockEnd(fs, off, end)
    <2>3. FindBlockForKey(file.fst, k) = off
      BY <1>6 DEF FindBlockForKey
    <2> HIDE DEF i
    <2>4. /\ off \in Nat /\ off < end /\ Spans(segment, off, stop, i)
      BY <1>1, <2>2, RangeIsBlock
    <2>5. BlocksAt(segment, off, stop) = {i} /\ stop \in Int /\ stop - off >= 8
      BY <2>4 DEF Spans
    <2>6. stop <= segment.size
      <3>1. bs[i].off + bs[i].len = stop
        BY <2>5 DEF BlocksAt
      <3>2. bs[i].off + bs[i].len <= end
        BY <1>1, <2>2, BlockEndsInData
      <3> QED
        BY <1>1, <2>5, <3>1, <3>2
    <2>7. FileGet(k) = ReadBlock(off, stop, k)
      BY <1>6, <2>3, <2>4 DEF FileGet, NoOffset
    <2>8. ReadBlock(off, stop, k) =
            IF i \in file.badBlocks THEN "ChecksumMismatch" ELSE BlockGet(segment, off, stop, k)
      BY <1>1, <2>4, <2>5, <2>6 DEF ReadBlock
    <2>9. CASE i \in file.badBlocks
      <3>1. FileGet(k) = "ChecksumMismatch"
        BY <2>7, <2>8, <2>9
      <3>2. k <= Last(bs[i].entries).key
        BY <1>1, <2>2, DirectoryNamesLast
      <3>3. ASSUME i > 1 PROVE k > Last(bs[i - 1].entries).key
        <4>1. i - 1 \in 1 .. Len(bs) /\ i - 1 < i
          BY <1>2, <2>2, <3>3
        <4>2. Last(bs[i - 1].entries).key = fs[i - 1].key /\ fs[i - 1].key \in Nat
          BY <1>1, <4>1, DirectoryNamesLast
        <4>3. ~ (fs[i - 1].key >= k)
          BY <1>2, <2>1, <4>1 DEF Reaching
        <4> QED
          BY <4>2, <4>3, KeyAssumption
      <3> QED
        BY <2>9, <3>1, <3>2, <3>3
    <2>10. CASE i \notin file.badBlocks
      <3>1. FileGet(k) = BlockGet(segment, off, stop, k)
        BY <2>7, <2>8, <2>10
      <3>2. CASE MightContain(segment.bloom, k)
        BY <1>1, <1>3, <2>3, <2>4, <3>1, <3>2 DEF Get, LookupIn, NoOffset
      <3>3. CASE ~ MightContain(segment.bloom, k)
        <4>1. \A m \in 1 .. Len(bs[i].entries) : bs[i].entries[m].key # k
          BY <1>1, <2>2, <3>3 DEF Covers
        <4>2. IsBlock(bs[i])
          BY <1>1, <2>2 DEF Layout
        <4>3. BlockGet(segment, off, stop, k) = NotFound
          BY <2>4, <4>1, <4>2, BlockSearch
        <4> QED
          BY <1>3, <3>1, <3>3, <4>3 DEF Get
      <3> QED
        BY <3>2, <3>3
    <2> QED
      BY <2>9, <2>10
  <1> QED
    BY <1>4, <1>5, <1>6

\* Damage is contained, whatever was added and wherever it hits: an error it
\* causes is reported as corruption, and damaged blocks cost other blocks no
\* key (reader.rs is_corruption; block.rs BlockReader::open).
THEOREM DamageContainedHolds == DamageSpec => []DamageContained
  <1>1. WriterInvariant /\ LookupCorrect /\ DamageIsRecorded => DamageContained
    <2> SUFFICES ASSUME WriterInvariant, LookupCorrect, DamageIsRecorded, file # NoFile
                 PROVE  DamageContained
      BY DEF DamageContained
    <2>1. OpenError \notin {"Ok", "Panic"} => IsCorruption(OpenError)
      BY DEF OpenError, FooterError, IsCorruption
    <2>2. IsFinished
      BY DEF DamageIsRecorded
    <2>3. ASSUME NEW k \in Key, FileGet(k) \in ReadErrors PROVE IsCorruption(FileGet(k))
      BY <2>2, <2>3, ErrorsAreCorruption
    <2>4. ASSUME NEW k \in Key, OnlyBlocks
          PROVE  \/ FileGet(k) = Expected(k)
                 \/ \E b \in file.badBlocks :
                      /\ FileGet(k) = "ChecksumMismatch"
                      /\ k <= Last(segment.blocks[b].entries).key
                      /\ b > 1 => k > Last(segment.blocks[b - 1].entries).key
      <3>1. ~ Damaged("directory") /\ ~ Damaged("filter")
        BY <2>4 DEF OnlyBlocks, Damaged
      <3>2. /\ file.fst = segment.fst /\ file.filter = segment.bloom
            /\ file.footer = segment.footer /\ file.size = segment.size
        BY <2>4, <3>1 DEF DamageIsRecorded
      <3> QED
        BY <2>2, <3>2, OtherBlocksAnswer
    <2> QED
      BY <2>1, <2>3, <2>4 DEF DamageContained, OnlyBlocks
  <1> QED
    BY <1>1, DamageDrivesWriter, DamageInvariant, SegmentInvariant, SegmentLookupCorrect, PTL
=============================================================================
