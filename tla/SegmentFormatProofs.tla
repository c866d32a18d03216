------------------------ MODULE SegmentFormatProofs ------------------------
(***************************************************************************)
(* What makes a lookup on a segment right, for segments of any size: if    *)
(* the blocks and the directory are laid out as the writer lays them out   *)
(* (Layout), then the chain bloom filter - directory - byte range - block  *)
(* search finds every entry and nothing else.                              *)
(***************************************************************************)
EXTENDS SegmentFormat, WellFoundedInduction, TLAPS

\* The bytes [start, stop) of obj are its block i.
Spans(obj, start, stop, i) ==
    /\ start \in Int /\ stop \in Int /\ stop - start >= 8
    /\ BlocksAt(obj, start, stop) = {i}

\* A non-empty set of naturals has exactly one least element.
LEMMA LeastOfNat ==
    ASSUME NEW S \in SUBSET Nat, S # {}
    PROVE  LeastOf(S) \in S /\ \A j \in S : LeastOf(S) <= j
  <1>1. \E n \in S : \A m \in S : n <= m
    <2>1. PICK n \in S : \A m \in S : ~ (<<m, n>> \in OpToRel(<, Nat))
      BY NatLessThanWellFounded, WFMin
    <2>2. \A m \in S : ~ (m < n)
      BY <2>1 DEF OpToRel
    <2> QED
      BY <2>2
  <1> QED
    BY <1>1 DEF LeastOf

\* LeastOf is determined by being a least element.
LEMMA LeastOfIs ==
    ASSUME NEW S \in SUBSET Nat, NEW i \in S, \A j \in S : i <= j
    PROVE  LeastOf(S) = i
  <1>1. LeastOf(S) \in S /\ \A j \in S : LeastOf(S) <= j
    BY LeastOfNat
  <1>2. i \in Nat /\ LeastOf(S) \in Nat
    BY <1>1
  <1>3. i <= LeastOf(S) /\ LeastOf(S) <= i
    BY <1>1
  <1> QED
    BY <1>2, <1>3

\* The keys of the directory strictly ascend: fst::MapBuilder never refuses.
LEMMA DirectoryAscends ==
    ASSUME NEW bs, NEW fs, NEW end, Layout(bs, fs, end)
    PROVE  \A i, j \in 1 .. Len(fs) : i < j => fs[i].key < fs[j].key
  <1> SUFFICES ASSUME NEW i \in 1 .. Len(bs), NEW j \in 1 .. Len(bs), i < j
               PROVE  fs[i].key < fs[j].key
    BY DEF Layout
  <1>1. IsBlock(bs[j]) /\ fs[j].key = bs[j].entries[Len(bs[j].entries)].key
    BY DEF Layout
  <1>2. Len(bs[j].entries) \in 1 .. Len(bs[j].entries)
    BY <1>1 DEF IsBlock
  <1> QED
    BY <1>1, <1>2 DEF Layout

\* The byte range of a directory entry, found by scanning the directory for
\* the next offset, is exactly the entry's block (reader.rs find_block_end).
LEMMA RangeIsBlock ==
    ASSUME NEW obj, NEW end, Layout(obj.blocks, obj.fst, end),
           NEW i \in 1 .. Len(obj.blocks)
    PROVE  /\ obj.fst[i].off \in Nat /\ obj.fst[i].off < end
           /\ Spans(obj, obj.fst[i].off,
                    FindBlockEnd(obj.fst, obj.fst[i].off, end), i)
  <1> DEFINE bs == obj.blocks
             fs == obj.fst
             off == fs[i].off
             stop == FindBlockEnd(fs, off, end)
             at == {j \in DOMAIN fs : fs[j].off = off}
  <1>1. /\ \A j \in 1 .. Len(bs) : /\ bs[j].off \in Nat /\ bs[j].len \in Nat
                                   /\ bs[j].len >= 8 /\ fs[j].off = bs[j].off
        /\ Len(bs) \in Nat /\ DOMAIN bs = 1 .. Len(bs)
        /\ DOMAIN fs = 1 .. Len(bs) /\ Len(fs) = Len(bs) /\ end \in Nat
    BY DEF Layout, IsBlock
  <1>2. \A j, k \in 1 .. Len(bs) : j < k => bs[j].off < bs[k].off
    <2>1. \A j, k \in 1 .. Len(bs) : j < k => bs[j].off + bs[j].len <= bs[k].off
      BY DEF Layout
    <2> SUFFICES ASSUME NEW j \in 1 .. Len(bs), NEW k \in 1 .. Len(bs), j < k
                 PROVE  bs[j].off < bs[k].off
      OBVIOUS
    <2>2. bs[j].off + bs[j].len <= bs[k].off
      BY <2>1
    <2> QED
      BY <2>2, <1>1
  <1>3. at = {i}
    BY <1>1, <1>2, SMTT(30)
  <1>4. LeastOf(at) = i
    BY <1>3, LeastOfIs, <1>1
  <1>5. stop = bs[i].off + bs[i].len
    <2>1. bs[i].off + bs[i].len = IF i = Len(bs) THEN end ELSE bs[i + 1].off
      BY DEF Layout
    <2>2. stop = IF i < Len(bs) THEN fs[i + 1].off ELSE end
      BY <1>1, <1>3, <1>4 DEF FindBlockEnd
    <2> QED
      BY <1>1, <2>1, <2>2
  <1>6. off < end
    <2>1. CASE i = Len(bs)
      BY <2>1, <1>1, SMTT(30) DEF Layout
    <2>2. CASE i # Len(bs)
      <3>1. Len(bs) \in 1 .. Len(bs) /\ i < Len(bs)
        BY <2>2, <1>1
      <3>2. bs[Len(bs)].off + bs[Len(bs)].len = end
        BY <3>1 DEF Layout
      <3>3. bs[i].off < bs[Len(bs)].off /\ off = bs[i].off
        BY <3>1, <1>1, <1>2
      <3>4. bs[Len(bs)].off \in Nat /\ bs[Len(bs)].len \in Nat /\ bs[i].off \in Nat
        BY <3>1, <1>1
      <3> HIDE DEF off
      <3> QED
        BY <3>2, <3>3, <3>4
    <2> QED
      BY <2>1, <2>2
  <1>7. BlocksAt(obj, off, stop) = {i}
    <2>1. off = bs[i].off /\ DOMAIN bs = 1 .. Len(bs)
      BY <1>1
    <2>2. \A j \in 1 .. Len(bs) : bs[j].off = bs[i].off => j = i
      <3> SUFFICES ASSUME NEW j \in 1 .. Len(bs), bs[j].off = bs[i].off, j # i
                   PROVE  FALSE
        OBVIOUS
      <3>1. j < i \/ i < j
        BY <1>1
      <3>2. bs[j].off \in Nat /\ bs[i].off \in Nat
        BY <1>1
      <3> QED
        BY <3>1, <3>2, <1>2
    <2>3. \A j \in BlocksAt(obj, off, stop) : j = i
      BY <2>1, <2>2 DEF BlocksAt
    <2>4. i \in BlocksAt(obj, off, stop)
      BY <2>1, <1>5 DEF BlocksAt
    <2> QED
      BY <2>3, <2>4
  <1>8. off \in Nat /\ stop \in Int /\ stop - off >= 8
    BY <1>1, <1>5, SMTT(30)
  <1> QED
    BY <1>6, <1>7, <1>8 DEF Spans

\* The directory leads a key that a block holds to that block.
LEMMA DirectoryFinds ==
    ASSUME NEW bs, NEW fs, NEW end, Layout(bs, fs, end),
           NEW i \in 1 .. Len(bs), NEW m \in 1 .. Len(bs[i].entries)
    PROVE  /\ Reaching(fs, bs[i].entries[m].key) # {}
           /\ LeastOf(Reaching(fs, bs[i].entries[m].key)) = i
  <1> DEFINE key == bs[i].entries[m].key
             R == Reaching(fs, key)
  <1>1. IsBlock(bs[i]) /\ fs[i].key = bs[i].entries[Len(bs[i].entries)].key
        /\ DOMAIN fs = 1 .. Len(bs) /\ Len(bs) \in Nat
    BY DEF Layout
  <1>2. key \in Nat /\ fs[i].key \in Nat /\ key <= fs[i].key
    BY <1>1, SMTT(30) DEF IsBlock, Ascending
  <1>3. i \in R
    BY <1>1, <1>2 DEF Reaching
  <1>4. \A j \in 1 .. Len(bs) : fs[j].key \in Nat
    <2> SUFFICES ASSUME NEW j \in 1 .. Len(bs) PROVE fs[j].key \in Nat
      OBVIOUS
    <2>1. IsBlock(bs[j]) /\ fs[j].key = bs[j].entries[Len(bs[j].entries)].key
      BY DEF Layout
    <2> QED
      BY <2>1 DEF IsBlock
  <1>5. \A j \in R : i <= j
    <2> SUFFICES ASSUME NEW j \in R, j < i PROVE FALSE
      BY <1>1 DEF Reaching
    <2>1. j \in 1 .. Len(bs) /\ fs[j].key >= key
      BY <1>1 DEF Reaching
    <2>2. fs[j].key < key
      BY <2>1 DEF Layout
    <2> QED
      BY <2>1, <2>2, <1>2, <1>4
  <1>6. R \in SUBSET Nat
    BY <1>1 DEF Reaching
  <1> QED
    BY <1>3, <1>5, <1>6, LeastOfIs

\* The search of a block finds the entry with the key, if there is one.
LEMMA BlockSearch ==
    ASSUME NEW obj, NEW start, NEW stop, NEW i, NEW key,
           Spans(obj, start, stop, i), IsBlock(obj.blocks[i])
    PROVE  /\ \A m \in 1 .. Len(obj.blocks[i].entries) :
                 obj.blocks[i].entries[m].key = key =>
                     BlockGet(obj, start, stop, key) = obj.blocks[i].entries[m].val
           /\ (\A m \in 1 .. Len(obj.blocks[i].entries) :
                 obj.blocks[i].entries[m].key # key) =>
                     BlockGet(obj, start, stop, key) = NotFound
  <1> DEFINE entries == obj.blocks[i].entries
             hits == BlockHits(entries, key)
  <1>1. /\ BlocksAt(obj, start, stop) # {}
        /\ (CHOOSE j \in BlocksAt(obj, start, stop) : TRUE) = i
    BY DEF Spans
  <1>2. ~ (stop - start < 8)
    BY DEF Spans
  <1>3. BlockGet(obj, start, stop, key) =
            IF hits = {} THEN NotFound ELSE entries[LeastOf(hits)].val
    BY <1>1, <1>2 DEF BlockGet
  <1>4. ASSUME NEW m \in 1 .. Len(entries), entries[m].key = key
        PROVE  hits = {m}
    <2>1. /\ DOMAIN entries = 1 .. Len(entries) /\ Len(entries) \in Nat
          /\ \A j \in 1 .. Len(entries) : entries[j].key \in Nat
      BY DEF IsBlock
    <2>2. \A j, k \in 1 .. Len(entries) : j < k => entries[j].key < entries[k].key
      BY DEF IsBlock, Ascending
    <2>3. \A j \in 1 .. Len(entries) : entries[j].key = key => j = m
      BY <1>4, <2>1, <2>2
    <2> QED
      BY <1>4, <2>1, <2>3 DEF BlockHits
  <1>5. ASSUME NEW m \in 1 .. Len(entries), entries[m].key = key
        PROVE  LeastOf(hits) = m
    BY <1>4, <1>5, LeastOfIs, SMTT(30) DEF IsBlock
  <1>6. ASSUME \A m \in 1 .. Len(entries) : entries[m].key # key
        PROVE  hits = {}
    BY <1>6 DEF BlockHits, IsBlock
  <1> QED
    BY <1>3, <1>4, <1>5, <1>6

-----------------------------------------------------------------------------
(* The lookup theorems.                                                    *)

\* A lookup of a key that a block holds returns the value stored with it
\* (reader.rs SegmentReader::get).
THEOREM GetPresent ==
    ASSUME NEW obj, Layout(obj.blocks, obj.fst, obj.footer.dataLen),
           Covers(obj.bloom, obj.blocks),
           NEW i \in 1 .. Len(obj.blocks),
           NEW m \in 1 .. Len(obj.blocks[i].entries)
    PROVE  Get(obj, obj.blocks[i].entries[m].key) = obj.blocks[i].entries[m].val
  <1> DEFINE end == obj.footer.dataLen
             key == obj.blocks[i].entries[m].key
             off == obj.fst[i].off
             stop == FindBlockEnd(obj.fst, off, end)
  <1>1. MightContain(obj.bloom, key)
    BY DEF Covers
  <1>2. FindBlockForKey(obj.fst, key) = off
    <2>1. /\ Reaching(obj.fst, key) # {}
          /\ LeastOf(Reaching(obj.fst, key)) = i
      BY DirectoryFinds, Zenon
    <2> QED
      BY <2>1 DEF FindBlockForKey
  <1>3. off \in Nat /\ off < end /\ Spans(obj, off, stop, i)
    BY RangeIsBlock
  <1>4. end \in Nat /\ IsBlock(obj.blocks[i])
    BY DEF Layout
  <1>5. BlockGet(obj, off, stop, key) = obj.blocks[i].entries[m].val
    BY <1>3, <1>4, BlockSearch
  <1>6. off # NoOffset /\ ~ (off >= end)
    BY <1>3, <1>4 DEF NoOffset
  <1> QED
    BY <1>1, <1>2, <1>5, <1>6 DEF Get, LookupIn

\* A lookup of a key that no block holds answers NotFound, also when the
\* filter says "maybe" and wherever the key falls (reader.rs).
THEOREM GetAbsent ==
    ASSUME NEW obj, Layout(obj.blocks, obj.fst, obj.footer.dataLen),
           NEW key \in Nat,
           \A i \in 1 .. Len(obj.blocks) : \A m \in 1 .. Len(obj.blocks[i].entries) :
               obj.blocks[i].entries[m].key # key
    PROVE  Get(obj, key) = NotFound
  <1> DEFINE end == obj.footer.dataLen
             R == Reaching(obj.fst, key)
  <1>1. CASE R = {} \/ ~ MightContain(obj.bloom, key)
    BY <1>1 DEF Get, FindBlockForKey
  <1>2. CASE R # {} /\ MightContain(obj.bloom, key)
    <2> DEFINE i == LeastOf(R)
               off == obj.fst[i].off
               stop == FindBlockEnd(obj.fst, off, end)
    <2>1. DOMAIN obj.fst = 1 .. Len(obj.blocks) /\ R \in SUBSET Nat
      BY DEF Layout, Reaching
    <2>2. i \in 1 .. Len(obj.blocks)
      <3>1. i \in R
        BY <1>2, <2>1, LeastOfNat
      <3> QED
        BY <3>1, <2>1 DEF Reaching
    <2>3. FindBlockForKey(obj.fst, key) = off
      BY <1>2 DEF FindBlockForKey
    <2> HIDE DEF i
    <2>4. off \in Nat /\ off < end /\ Spans(obj, off, stop, i)
      BY <2>2, RangeIsBlock
    <2>5. end \in Nat /\ IsBlock(obj.blocks[i])
      BY <2>2 DEF Layout
    <2>6. \A m \in 1 .. Len(obj.blocks[i].entries) :
            obj.blocks[i].entries[m].key # key
      BY <2>2
    <2>7. BlockGet(obj, off, stop, key) = NotFound
      BY <2>4, <2>5, <2>6, BlockSearch, SMTT(30)
    <2>8. off # NoOffset /\ ~ (off >= end)
      BY <2>4, <2>5 DEF NoOffset
    <2> QED
      BY <1>2, <2>3, <2>7, <2>8 DEF Get, LookupIn
  <1> QED
    BY <1>1, <1>2

-----------------------------------------------------------------------------
(* Building a layout.                                                      *)

\* Appending to a sequence, index by index.
LEMMA AppendAt ==
    ASSUME NEW S, NEW s \in Seq(S), NEW e \in S
    PROVE  /\ Append(s, e) \in Seq(S)
           /\ Len(Append(s, e)) = Len(s) + 1
           /\ Len(s) \in Nat /\ DOMAIN s = 1 .. Len(s)
           /\ DOMAIN Append(s, e) = 1 .. Len(s) + 1
           /\ \A i \in 1 .. Len(s) : Append(s, e)[i] = s[i]
           /\ Append(s, e)[Len(s) + 1] = e
  OBVIOUS

\* A block that starts where the data ends, with keys past all others, and its
\* directory entry extend a layout (writer.rs flush_block).
LEMMA LayoutAppend ==
    ASSUME NEW B, NEW F, NEW bs \in Seq(B), NEW fs \in Seq(F), NEW end,
           Layout(bs, fs, end),
           NEW b \in B, NEW f \in F, IsBlock(b), b.off = end, f.off = end,
           f.key = b.entries[Len(b.entries)].key,
           \A i \in 1 .. Len(bs) : \A m \in 1 .. Len(b.entries) :
               fs[i].key < b.entries[m].key
    PROVE  Layout(Append(bs, b), Append(fs, f), end + b.len)
  <1> DEFINE n == Len(bs)
             bt == Append(bs, b)
             ft == Append(fs, f)
             et == end + b.len
  <1>1. /\ n \in Nat /\ Len(bt) = n + 1 /\ DOMAIN bt = 1 .. n + 1
        /\ \A i \in 1 .. n : bt[i] = bs[i]
        /\ bt[n + 1] = b
    BY AppendAt
  <1>2. /\ Len(fs) = n /\ Len(ft) = n + 1 /\ DOMAIN ft = 1 .. n + 1
        /\ \A i \in 1 .. n : ft[i] = fs[i]
        /\ ft[n + 1] = f
    <2>1. Len(fs) = n
      BY DEF Layout
    <2> QED
      BY <2>1, AppendAt
  <1>3. end \in Nat /\ et \in Nat /\ b.len \in Nat /\ b.len >= 8
    <2>1. end \in Nat
      BY DEF Layout
    <2>2. b.len \in Nat /\ b.len >= 8
      BY DEF IsBlock
    <2> QED
      BY <2>1, <2>2
  <1> HIDE DEF bt, ft
  <1>4. \A i \in 1 .. n : /\ bs[i].off \in Nat /\ bs[i].len \in Nat
                          /\ bs[i].off + bs[i].len <= end
    <2> SUFFICES ASSUME NEW i \in 1 .. n
                 PROVE  /\ bs[i].off \in Nat /\ bs[i].len \in Nat
                        /\ bs[i].off + bs[i].len <= end
      OBVIOUS
    <2>1. \A j \in 1 .. n : bs[j].off \in Nat /\ bs[j].len \in Nat
      BY DEF Layout, IsBlock
    <2>2. n \in 1 .. n
      BY <1>1
    <2>3. bs[n].off + bs[n].len = end
      BY <2>2 DEF Layout
    <2>4. CASE i = n
      BY <2>1, <2>3, <2>4, <1>3
    <2>5. CASE i < n
      <3>1. bs[i].off + bs[i].len <= bs[n].off
        BY <2>2, <2>5 DEF Layout
      <3> QED
        <4>1. bs[n].off \in Nat /\ bs[n].len \in Nat
          BY <2>1, <2>2
        <4>2. bs[i].off \in Nat /\ bs[i].len \in Nat
          BY <2>1
        <4> QED
          BY <4>1, <4>2, <2>3, <3>1, <1>3, SMTT(30)
    <2> QED
      BY <1>1, <2>4, <2>5
  <1>5. ASSUME NEW i \in 1 .. n + 1
        PROVE  /\ IsBlock(bt[i])
               /\ ft[i].key = bt[i].entries[Len(bt[i].entries)].key
               /\ ft[i].off = bt[i].off
               /\ bt[i].off + bt[i].len = IF i = n + 1 THEN et ELSE bt[i + 1].off
    <2>1. CASE i = n + 1
      BY <2>1, <1>1, <1>2
    <2>2. CASE i \in 1 .. n
      <3>1. /\ IsBlock(bs[i])
            /\ fs[i].key = bs[i].entries[Len(bs[i].entries)].key
            /\ fs[i].off = bs[i].off
            /\ bs[i].off + bs[i].len = IF i = n THEN end ELSE bs[i + 1].off
        BY <2>2 DEF Layout
      <3>2. bt[i].off + bt[i].len = bt[i + 1].off
        <4>1. CASE i = n
          BY <4>1, <3>1, <2>2, <1>1
        <4>2. CASE i # n
          <5>1. i + 1 \in 1 .. n
            BY <4>2, <2>2, <1>1
          <5> QED
            BY <4>2, <5>1, <3>1, <2>2, <1>1
        <4> QED
          BY <4>1, <4>2
      <3> QED
        BY <2>2, <3>1, <3>2, <1>1, <1>2
    <2> QED
      BY <2>1, <2>2, <1>1
  <1>6. ASSUME NEW i \in 1 .. n + 1, NEW j \in 1 .. n + 1, i < j
        PROVE  /\ bt[i].off + bt[i].len <= bt[j].off
               /\ \A m \in 1 .. Len(bt[j].entries) : ft[i].key < bt[j].entries[m].key
    <2>1. i \in 1 .. n
      BY <1>6, <1>1
    <2>2. CASE j = n + 1
      BY <2>1, <2>2, <1>1, <1>2, <1>4
    <2>3. CASE j \in 1 .. n
      BY <1>6, <2>1, <2>3, <1>1, <1>2 DEF Layout
    <2> QED
      BY <2>2, <2>3, <1>1
  <1>7. Layout(bt, ft, et)
    <2> DEFINE N == Len(bt)
    <2>1. N \in Nat /\ N = n + 1 /\ DOMAIN bt = 1 .. N /\ Len(ft) = N /\ DOMAIN ft = 1 .. N
      BY <1>1, <1>2
    <2>2. \A i \in 1 .. N :
            /\ IsBlock(bt[i])
            /\ ft[i].key = bt[i].entries[Len(bt[i].entries)].key
            /\ ft[i].off = bt[i].off
            /\ bt[i].off + bt[i].len = IF i = N THEN et ELSE bt[i + 1].off
      BY <2>1, <1>5
    <2>3. \A i, j \in 1 .. N : i < j => bt[i].off + bt[i].len <= bt[j].off
      BY <2>1, <1>6
    <2>4. \A i, j \in 1 .. N : i < j =>
            \A m \in 1 .. Len(bt[j].entries) : ft[i].key < bt[j].entries[m].key
      BY <2>1, <1>6
    <2> QED
      BY <2>1, <2>2, <2>3, <2>4, <1>3, Zenon DEF Layout
  <1> QED
    BY <1>7 DEF bt, ft

=============================================================================
