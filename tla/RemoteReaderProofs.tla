------------------------- MODULE RemoteReaderProofs -------------------------
(***************************************************************************)
(* Proofs about RemoteReader: for any segments, budgets and backends, and  *)
(* whatever other clients put or delete between two requests, open caches  *)
(* the metadata of one segment, a lookup on an untouched object is right,  *)
(* a value was really stored, and an error that blames the segment means   *)
(* that it was replaced.                                                   *)
(***************************************************************************)
EXTENDS RemoteReader, SegmentFormatProofs, FiniteSetTheorems

-----------------------------------------------------------------------------
(* The inductive invariant.                                                *)

\* The path has held two different segments since the open began.
Rewritten == \E a, b \in seen \ {NoObject} : a # b

\* During open, the recorded size is that of a segment the path held; before,
\* nothing is recorded.
SizeInv ==
    /\ pc = "closed" => needed = 0
    /\ pc \in {"tail", "reread"} =>
         size > 0 /\ \E o \in seen \ {NoObject} : o.size = size

\* The re-read holds a footer; on an untouched object it reaches exactly from
\* the filter to the end.
RereadInv ==
    pc = "reread" =>
        /\ needed >= FooterSize
        /\ Unmodified => needed = size - object.footer.bloomOff

\* The range that get is about to read is the one of the key's block in the
\* cached directory.
BlockInv ==
    LET off == FindBlockForKey(meta.fst, key)
    IN  pc = "block" => /\ off # NoOffset
                        /\ MightContain(meta.bloom, key)
                        /\ off < meta.footer.dataLen
                        /\ range = BlockByteRange(off)

\* No answer is left over from an earlier request; an answer on an untouched
\* object is the lookup on that object as a whole.
AnswerInv ==
    /\ pc \in {"closed", "tail", "reread", "block"} => answer = Pending
    /\ pc = "open" /\ Unmodified /\ answer # Pending => answer = Get(object, key)

\* Errors that blame the segment come after a rewrite.
ErrorInv == IsCorruption(answer) /\ budget >= FooterSize => Rewritten

IInv ==
    /\ TypeOK
    /\ IsFiniteSet(seen)
    /\ SizeInv /\ RereadInv /\ OpenCoherent /\ BlockInv /\ AnswerInv /\ ErrorInv
    /\ ValuesAreReal /\ TailTooSmallMeansRewritten /\ UnmodifiedOpens

USE DEF NoOffset

-----------------------------------------------------------------------------
(* The stored objects.                                                     *)

\* An object without bytes is a data section without blocks.
LEMMA ZeroBytesLayout ==
    /\ Layout(ZeroBytes.blocks, ZeroBytes.fst, ZeroBytes.footer.dataLen)
    /\ Covers(ZeroBytes.bloom, ZeroBytes.blocks)
    /\ ZeroBytes.size = 0 /\ ZeroBytes.footer.dataLen = 0
    /\ ZeroBytes.blocks = <<>> /\ ZeroBytes.fst = <<>>
  <1>1. /\ ZeroBytes.blocks = <<>> /\ ZeroBytes.fst = <<>>
        /\ ZeroBytes.footer.dataLen = 0 /\ ZeroBytes.size = 0
    BY DEF ZeroBytes
  <1>2. Layout(<<>>, <<>>, 0)
    BY DEF Layout
  <1>3. Covers(ZeroBytes.bloom, <<>>)
    BY DEF Covers
  <1> QED
    BY <1>1, <1>2, <1>3

\* Every object has a data section whose lookups are right.
LEMMA ObjectData ==
    ASSUME NEW o \in Objects \cup {ZeroBytes}
    PROVE  /\ Layout(o.blocks, o.fst, o.footer.dataLen)
           /\ Covers(o.bloom, o.blocks)
           /\ o.footer.dataLen \in Nat
           /\ o.size \in Nat
  <1>1. CASE o = ZeroBytes
    BY <1>1, ZeroBytesLayout
  <1>2. CASE WellFormed(o)
    <2>1. Layout(o.blocks, o.fst, o.footer.dataLen) /\ Covers(o.bloom, o.blocks)
      BY <1>2 DEF WellFormed
    <2>2. o.footer.dataLen \in Nat
      BY <2>1 DEF Layout
    <2>3. o.size \in Nat
      BY <1>2, <2>2, FooterSizeAssumption DEF WellFormed
    <2> QED
      BY <2>1, <2>2, <2>3
  <1> QED
    BY <1>1, <1>2, ObjectsAssumption

\* An object that has bytes is a complete segment, longer than its footer.
LEMMA ObjectSegment ==
    ASSUME NEW o \in Objects, o.size # 0
    PROVE  WellFormed(o) /\ o.size >= FooterSize
  <1>1. WellFormed(o)
    BY ObjectsAssumption, ZeroBytesLayout
  <1>2. o.footer.dataLen \in Nat
    BY ObjectData
  <1> QED
    BY <1>1, <1>2, FooterSizeAssumption DEF WellFormed

\* An object without bytes is ZeroBytes.
LEMMA ObjectEmpty ==
    ASSUME NEW o \in Objects, o.size = 0
    PROVE  o = ZeroBytes
  <1>1. SUFFICES ASSUME WellFormed(o) PROVE FALSE
    BY ObjectsAssumption
  <1>2. o.footer.dataLen \in Nat
    BY ObjectData
  <1> QED
    BY <1>1, <1>2, FooterSizeAssumption DEF WellFormed

\* An entry of a block is a key with its value.
LEMMA EntryOfObject ==
    ASSUME NEW o \in Objects \cup {ZeroBytes},
           NEW i \in 1 .. Len(o.blocks), NEW m \in 1 .. Len(o.blocks[i].entries)
    PROVE  /\ o.blocks[i].entries[m] \in EntriesOf(o)
           /\ o.blocks[i].entries[m].key \in Key
           /\ o.blocks[i].entries[m].val \in Value
           /\ o.blocks[i].entries[m] =
                 [key |-> o.blocks[i].entries[m].key, val |-> o.blocks[i].entries[m].val]
  <1> DEFINE e == o.blocks[i].entries[m]
  <1>1. Layout(o.blocks, o.fst, o.footer.dataLen)
    BY ObjectData
  <1>2. i \in DOMAIN o.blocks /\ IsBlock(o.blocks[i])
    BY <1>1 DEF Layout
  <1>3. m \in DOMAIN o.blocks[i].entries
    BY <1>2 DEF IsBlock
  <1>4. e \in EntriesOf(o)
    BY <1>2, <1>3 DEF EntriesOf
  <1>5. o # ZeroBytes
    BY ZeroBytesLayout
  <1>6. e \in [key : Key, val : Value]
    BY <1>4, <1>5, ObjectsAssumption
  <1> QED
    BY <1>4, <1>6

\* The members of EntriesOf and KeysOf are found at places of the blocks.
LEMMA PlaceOfEntry ==
    ASSUME NEW o \in Objects \cup {ZeroBytes}, NEW k
    PROVE  k \in KeysOf(o) <=>
             \E i \in 1 .. Len(o.blocks) : \E m \in 1 .. Len(o.blocks[i].entries) :
                 o.blocks[i].entries[m].key = k
  <1>1. Layout(o.blocks, o.fst, o.footer.dataLen)
    BY ObjectData
  <1>2. /\ DOMAIN o.blocks = 1 .. Len(o.blocks)
        /\ \A i \in 1 .. Len(o.blocks) :
             DOMAIN o.blocks[i].entries = 1 .. Len(o.blocks[i].entries)
    BY <1>1 DEF Layout, IsBlock
  <1> QED
    BY <1>2 DEF KeysOf

-----------------------------------------------------------------------------
(* Lookups.                                                                *)

\* The directory of an object sends a key to a range inside the data section.
LEMMA RangeOfKey ==
    ASSUME NEW o \in Objects \cup {ZeroBytes}, NEW k \in Key,
           FindBlockForKey(o.fst, k) # NoOffset
    PROVE  LET off  == FindBlockForKey(o.fst, k)
               stop == FindBlockEnd(o.fst, off, o.footer.dataLen)
           IN  /\ off \in Nat /\ off < o.footer.dataLen
               /\ stop \in Nat /\ off < stop /\ stop <= o.footer.dataLen
  <1> DEFINE off  == FindBlockForKey(o.fst, k)
             end  == o.footer.dataLen
             stop == FindBlockEnd(o.fst, off, end)
             i    == LeastOf(Reaching(o.fst, k))
             bs   == o.blocks
  <1>1. Layout(bs, o.fst, end) /\ end \in Nat
    BY ObjectData
  <1>2. Reaching(o.fst, k) # {} /\ off = o.fst[i].off
    BY DEF FindBlockForKey
  <1>3. DOMAIN o.fst = 1 .. Len(bs) /\ Len(bs) \in Nat
    BY <1>1 DEF Layout
  <1>4. Reaching(o.fst, k) \in SUBSET Nat /\ Reaching(o.fst, k) \subseteq 1 .. Len(bs)
    BY <1>3 DEF Reaching
  <1>5. i \in 1 .. Len(bs)
    BY <1>2, <1>4, LeastOfNat
  <1> HIDE DEF i
  <1>6. off \in Nat /\ off < end /\ Spans(o, off, stop, i)
    BY <1>1, <1>2, <1>5, RangeIsBlock
  <1> HIDE DEF off, stop
  <1>7. stop \in Int /\ stop - off >= 8 /\ bs[i].off + bs[i].len = stop
    BY <1>6 DEF Spans, BlocksAt
  <1>8. bs[i].off + bs[i].len <= end
    <2>1. CASE i = Len(bs)
      BY <1>1, <1>5, <2>1 DEF Layout
    <2>2. CASE i < Len(bs)
      <3> DEFINE n == Len(bs)
      <3>1. n \in 1 .. n /\ i < n
        BY <1>3, <1>5, <2>2
      <3>2. bs[i].off + bs[i].len <= bs[n].off
        BY <1>1, <1>5, <3>1 DEF Layout
      <3>3. bs[n].off + bs[n].len = end /\ IsBlock(bs[n]) /\ IsBlock(bs[i])
        BY <1>1, <1>5, <3>1 DEF Layout
      <3>4. bs[n].off \in Nat /\ bs[n].len \in Nat /\ bs[i].off \in Nat /\ bs[i].len \in Nat
        BY <3>3 DEF IsBlock
      <3>5. ASSUME NEW a \in Nat, NEW b \in Nat, NEW c \in Nat, NEW d \in Nat,
                   a + b <= c
            PROVE  a + b <= c + d
        BY <3>5
      <3>6. bs[i].off + bs[i].len <= bs[n].off + bs[n].len
        BY <3>2, <3>4, <3>5
      <3> QED
        BY <3>3, <3>6
    <2> QED
      BY <1>3, <1>5, <2>1, <2>2
  <1>9. stop \in Nat /\ off < stop /\ stop <= end
    BY <1>1, <1>6, <1>7, <1>8
  <1> QED
    BY <1>6, <1>9 DEF off, stop

\* Filter, directory and range of an object, with the block search on the same
\* object, are the lookup of that object.
LEMMA RequestIsGet ==
    ASSUME NEW o \in Objects \cup {ZeroBytes}, NEW k \in Key
    PROVE  LET off == FindBlockForKey(o.fst, k)
           IN  IF ~ MightContain(o.bloom, k) \/ off = NoOffset
               THEN Get(o, k) = NotFound
               ELSE Get(o, k) =
                      BlockGet(o, off, FindBlockEnd(o.fst, off, o.footer.dataLen), k)
  <1> DEFINE off == FindBlockForKey(o.fst, k)
  <1>1. CASE ~ MightContain(o.bloom, k) \/ off = NoOffset
    BY <1>1 DEF Get
  <1>2. CASE ~ (~ MightContain(o.bloom, k) \/ off = NoOffset)
    <2>1. off \in Nat /\ off < o.footer.dataLen /\ o.footer.dataLen \in Nat
      BY <1>2, RangeOfKey, ObjectData
    <2>2. Get(o, k) = LookupIn(o, o.fst, o.footer.dataLen, off, k)
      BY <1>2 DEF Get
    <2>3. ~ (off >= o.footer.dataLen)
      BY <2>1
    <2> QED
      BY <1>2, <2>2, <2>3 DEF LookupIn
  <1> QED
    BY <1>1, <1>2

\* A lookup on an object answers what the object holds.
LEMMA GetIsRight ==
    ASSUME NEW o \in Objects \cup {ZeroBytes}, NEW k \in Key
    PROVE  /\ k \in KeysOf(o) => /\ Get(o, k) \in Value
                                 /\ [key |-> k, val |-> Get(o, k)] \in EntriesOf(o)
           /\ k \notin KeysOf(o) => Get(o, k) = NotFound
  <1>1. Layout(o.blocks, o.fst, o.footer.dataLen) /\ Covers(o.bloom, o.blocks)
    BY ObjectData
  <1>2. ASSUME k \in KeysOf(o)
        PROVE  Get(o, k) \in Value /\ [key |-> k, val |-> Get(o, k)] \in EntriesOf(o)
    <2>1. PICK i \in 1 .. Len(o.blocks) :
             \E m \in 1 .. Len(o.blocks[i].entries) : o.blocks[i].entries[m].key = k
      BY <1>2, PlaceOfEntry
    <2>2. PICK m \in 1 .. Len(o.blocks[i].entries) : o.blocks[i].entries[m].key = k
      BY <2>1
    <2>3. Get(o, k) = o.blocks[i].entries[m].val
      BY <1>1, <2>2, GetPresent
    <2> QED
      BY <2>2, <2>3, EntryOfObject
  <1>3. ASSUME k \notin KeysOf(o) PROVE Get(o, k) = NotFound
    <2>1. \A i \in 1 .. Len(o.blocks) : \A m \in 1 .. Len(o.blocks[i].entries) :
             o.blocks[i].entries[m].key # k
      BY <1>3, PlaceOfEntry
    <2>2. k \in Nat
      BY ObjectsAssumption
    <2> QED
      BY <1>1, <2>1, <2>2, GetAbsent
  <1> QED
    BY <1>2, <1>3

\* A block search on any range of an object answers with a value that the object
\* holds under the key, with not found, or blames the bytes.
LEMMA SearchAnswers ==
    ASSUME NEW o \in Objects \cup {ZeroBytes}, NEW start, NEW stop, NEW k,
           NEW a, a = BlockGet(o, start, stop, k)
    PROVE  \/ a \in Value /\ [key |-> k, val |-> a] \in EntriesOf(o)
           \/ a = NotFound
           \/ a \in {"BlockTooSmall", "ChecksumMismatch"}
  <1> DEFINE i == CHOOSE n \in BlocksAt(o, start, stop) : TRUE
             entries == o.blocks[i].entries
             hits == BlockHits(entries, k)
  <1>1. CASE stop - start < 8 \/ BlocksAt(o, start, stop) = {}
    BY <1>1 DEF BlockGet
  <1>2. CASE ~ (stop - start < 8) /\ BlocksAt(o, start, stop) # {}
    <2>1. a = IF hits = {} THEN NotFound ELSE entries[LeastOf(hits)].val
      BY <1>2 DEF BlockGet
    <2>2. CASE hits = {}
      BY <2>1, <2>2
    <2>3. CASE hits # {}
      <3>1. Layout(o.blocks, o.fst, o.footer.dataLen)
        BY ObjectData
      <3>2. i \in BlocksAt(o, start, stop)
        BY <1>2
      <3>3. i \in 1 .. Len(o.blocks)
        BY <3>1, <3>2 DEF BlocksAt, Layout
      <3> HIDE DEF i
      <3>4. IsBlock(o.blocks[i])
        BY <3>1, <3>3 DEF Layout
      <3>5. DOMAIN entries = 1 .. Len(entries) /\ Len(entries) \in Nat
        BY <3>4 DEF IsBlock
      <3>6. hits \in SUBSET Nat
        BY <3>5 DEF BlockHits
      <3>7. LeastOf(hits) \in hits
        BY <2>3, <3>6, LeastOfNat
      <3>8. LeastOf(hits) \in 1 .. Len(entries) /\ entries[LeastOf(hits)].key = k
        BY <3>5, <3>7 DEF BlockHits
      <3>9. a = entries[LeastOf(hits)].val
        BY <2>1, <2>3
      <3> QED
        BY <3>3, <3>8, <3>9, EntryOfObject
    <2> QED
      BY <2>2, <2>3
  <1> QED
    BY <1>1, <1>2

-----------------------------------------------------------------------------
(* Tail reads.                                                             *)

\* What a tail read returns: no more than was asked for or is there, and all of
\* a request that the object can serve.
LEMMA TailRead ==
    ASSUME backend \in {"local", "s3"}, NEW o \in Objects \cup {NoObject}, NEW len \in Nat
    PROVE  LET t == TailLength(o, len)
           IN  /\ t # -1 => /\ o \in Objects /\ t \in Nat
                            /\ len >= FooterSize => t >= FooterSize
               /\ o \in Objects /\ len > 0 /\ len <= o.size => t = len
  <1> DEFINE t == TailLength(o, len)
  <1>1. o \in Objects => o # NoObject /\ o.size \in Nat
    BY AnswersAssumption, ObjectData
  <1>2. o \in Objects /\ o.size # 0 => o.size >= FooterSize
    BY ObjectSegment
  <1>3. CASE backend = "local"
    <2>1. t = IF o = NoObject \/ len > o.size THEN -1 ELSE len
      BY <1>3 DEF TailLength, LocalTail
    <2> QED
      BY <1>1, <2>1
  <1>4. CASE backend # "local"
    <2>1. t = IF o = NoObject \/ len = 0 \/ o.size = 0 THEN -1
              ELSE IF len > o.size THEN o.size ELSE len
      BY <1>4 DEF TailLength, S3Tail
    <2> QED
      BY <1>1, <1>2, <2>1, FooterSizeAssumption
  <1> QED
    BY <1>3, <1>4

\* What each outcome of parsing a tail says.
LEMMA ParseOutcome ==
    ASSUME NEW o \in Objects, NEW t \in Nat, NEW s \in Nat
    PROVE  LET err == TailError(o, t, s)
           IN  /\ err \in {"Ok", "TooSmall", "InvalidOffset", "TailTooSmall", "FstError"}
               /\ err = "Ok" => s = o.size
               /\ err = "TooSmall" => t < FooterSize
               /\ err = "TailTooSmall" => t >= FooterSize /\ o.footer.bloomOff < s - t
  <1>1. FooterSize \in Nat
    BY FooterSizeAssumption
  <1> QED
    BY <1>1 DEF TailError

\* The directory and the filter of an object start behind its data.
LEMMA BloomOffNat ==
    ASSUME NEW o \in Objects
    PROVE  o.footer.bloomOff \in Nat
  <1>1. o.footer.dataLen \in Nat
    BY ObjectData
  <1>2. CASE o = ZeroBytes
    BY <1>2 DEF ZeroBytes
  <1>3. CASE WellFormed(o)
    BY <1>1, <1>3 DEF WellFormed
  <1> QED
    BY <1>2, <1>3, ObjectsAssumption

\* A tail of an intact object, read at its true size, parses, or is too short
\* because the filter starts before it.
LEMMA IntactTail ==
    ASSUME NEW o \in Objects, o.size # 0, NEW t \in Nat, t >= FooterSize, t <= o.size
    PROVE  TailError(o, t, o.size) =
             IF o.footer.bloomOff < o.size - t THEN "TailTooSmall" ELSE "Ok"
  <1> DEFINE f == o.footer
             start == o.size - t
             Past(off, len) == off - start + len > t - FooterSize
  <1>1. /\ f.dataLen \in Nat /\ f.bloomLen \in Nat /\ f.fstLen \in Nat
        /\ f.bloomOff = f.dataLen /\ f.fstOff = f.bloomOff + f.bloomLen
        /\ o.size = f.fstOff + f.fstLen + FooterSize
    BY ObjectSegment, ObjectData DEF WellFormed
  <1>2. FooterSize \in Nat
    BY FooterSizeAssumption
  <1>3. ASSUME NEW a \in Nat, NEW b \in Nat, NEW c \in Nat, NEW size_
        PROVE  size_ = ((a + b) + c) + FooterSize =>
                 /\ size_ \in Nat
                 /\ a <= size_ - FooterSize /\ a + b <= size_ - FooterSize
                 /\ (a + b) + c <= size_ - FooterSize
                 /\ ~ (a - (size_ - t) + b > t - FooterSize)
                 /\ ~ ((a + b) - (size_ - t) + c > t - FooterSize)
    BY <1>2
  <1>4. /\ f.dataLen <= o.size - FooterSize
        /\ f.bloomOff + f.bloomLen <= o.size - FooterSize
        /\ f.fstOff + f.fstLen <= o.size - FooterSize
        /\ ~ Past(f.bloomOff, f.bloomLen) /\ ~ Past(f.fstOff, f.fstLen)
    BY <1>1, <1>3
  <1>5. ValidateFooterOffsets(f, o.size - FooterSize)
    BY <1>4 DEF ValidateFooterOffsets
  <1>6. ~ (t < FooterSize)
    BY <1>2
  <1> HIDE DEF Past
  <1> QED
    BY <1>4, <1>5, <1>6 DEF TailError, Past

-----------------------------------------------------------------------------
(* Steps of the other clients and of the reader.                           *)

\* The object that the path holds, and those that it has held, are known.
LEMMA SeenAreObjects ==
    ASSUME TypeOK
    PROVE  /\ seen \ {NoObject} \subseteq Objects
           /\ object # NoObject => object \in Objects /\ object \in seen \ {NoObject}
  BY DEF TypeOK

\* Pending and NotFound are neither values nor errors, an error is no value.
LEMMA AnswerKinds ==
    /\ \A v \in Value : v \notin ReadErrors /\ ~ IsCorruption(v) /\ v # NotFound /\ v # Pending
    /\ \A err \in ReadErrors : err \notin Value /\ err # NotFound /\ err # Pending
    /\ ~ IsCorruption(NotFound) /\ ~ IsCorruption(Pending)
    /\ NotFound # "TailTooSmall" /\ Pending # "TailTooSmall" /\ Pending # NotFound
    /\ NotFound \notin Value /\ Pending \notin Value
    /\ "TailTooSmall" \in ReadErrors
  <1>1. "TailTooSmall" \in ReadErrors
    BY DEF ReadErrors
  <1>2. \A err : IsCorruption(err) => err \in ReadErrors
    BY DEF IsCorruption, ReadErrors
  <1>3. /\ \A v \in Value : v \notin ReadErrors
        /\ NotFound \notin Value /\ Pending \notin Value
        /\ NotFound \notin ReadErrors /\ Pending \notin ReadErrors /\ Pending # NotFound
    BY AnswersAssumption
  <1> QED
    BY <1>1, <1>2, <1>3

\* A put or delete breaks nothing: what was seen stays seen, and an object that
\* changed since the open is no longer untouched.
LEMMA ChangeStep ==
    ASSUME IInv, NEW obj \in Objects \cup {NoObject}, obj # object, Change(obj)
    PROVE  IInv'
  <1>1. /\ object' = obj
        /\ UNCHANGED <<backend, pc, budget, size, needed, meta, key, range, answer>>
        /\ seen' = IF pc = "closed" THEN {obj} ELSE seen \cup {obj}
    BY DEF Change
  <1>2. object \in seen /\ seen \subseteq Objects \cup {NoObject}
    BY DEF IInv, TypeOK
  <1>3. TypeOK'
    BY <1>1, <1>2, Zenon DEF IInv, TypeOK
  <1>4. IsFiniteSet(seen')
    <2>1. IsFiniteSet(seen)
      BY DEF IInv
    <2>2. CASE pc = "closed"
      BY <1>1, <2>2, FS_Singleton
    <2>3. CASE pc # "closed"
      BY <1>1, <2>1, <2>3, FS_AddElement
    <2> QED
      BY <2>2, <2>3
  <1>5. CASE pc = "closed"
    <2>1. answer' = Pending /\ pc' = "closed" /\ needed' = 0
      BY <1>1, <1>5 DEF IInv, AnswerInv, SizeInv
    <2>2. SizeInv' /\ RereadInv' /\ OpenCoherent' /\ BlockInv' /\ AnswerInv' /\ UnmodifiedOpens'
      BY <2>1 DEF SizeInv, RereadInv, OpenCoherent, BlockInv, AnswerInv, UnmodifiedOpens, IsOpen
    <2>3. ErrorInv' /\ ValuesAreReal' /\ TailTooSmallMeansRewritten'
      BY <2>1, AnswerKinds DEF ErrorInv, ValuesAreReal, TailTooSmallMeansRewritten
    <2> QED
      BY <1>3, <1>4, <2>2, <2>3 DEF IInv
  <1>6. CASE pc # "closed"
    <2>1. seen' = seen \cup {obj} /\ seen \subseteq seen' /\ ~ Unmodified'
      BY <1>1, <1>2, <1>6 DEF Unmodified
    <2>2. SizeInv' /\ OpenCoherent' /\ ValuesAreReal'
      BY <1>1, <2>1 DEF IInv, SizeInv, OpenCoherent, ValuesAreReal, IsOpen
    <2>3. ErrorInv'
      BY <1>1, <2>1 DEF IInv, ErrorInv, Rewritten
    <2>4. RereadInv' /\ AnswerInv' /\ TailTooSmallMeansRewritten' /\ UnmodifiedOpens'
      BY <1>1, <2>1 DEF IInv, RereadInv, AnswerInv, TailTooSmallMeansRewritten, UnmodifiedOpens
    <2>5. BlockInv'
      BY <1>1, Zenon DEF IInv, BlockInv, BlockByteRange
    <2> QED
      BY <1>3, <1>4, <2>2, <2>3, <2>4, <2>5 DEF IInv
  <1> QED
    BY <1>5, <1>6

\* An open that fails keeps the invariant if its error may be reported.
LEMMA FailStep ==
    ASSUME IInv, NEW err \in ReadErrors, Fail(err),
           UNCHANGED <<conn, budget, size, needed, key, range>>,
           IsCorruption(err) /\ budget >= FooterSize => Rewritten,
           err = "TailTooSmall" => ~ Unmodified,
           Unmodified /\ budget >= FooterSize => object = NoObject
    PROVE  IInv'
  <1>1. /\ pc' = "failed" /\ answer' = err
        /\ UNCHANGED <<backend, object, seen, budget, size, needed, key, range, meta>>
    BY DEF Fail, conn
  <1>2. TypeOK'
    BY <1>1, Zenon DEF IInv, TypeOK
  <1>3. SizeInv' /\ RereadInv' /\ OpenCoherent' /\ BlockInv' /\ AnswerInv'
    BY <1>1 DEF SizeInv, RereadInv, OpenCoherent, BlockInv, AnswerInv, IsOpen
  <1>4. ErrorInv' /\ ValuesAreReal' /\ TailTooSmallMeansRewritten' /\ UnmodifiedOpens'
    BY <1>1, AnswerKinds DEF ErrorInv, ValuesAreReal, TailTooSmallMeansRewritten,
                             UnmodifiedOpens, Unmodified, Rewritten
  <1>5. IsFiniteSet(seen')
    BY <1>1 DEF IInv
  <1> QED
    BY <1>2, <1>3, <1>4, <1>5 DEF IInv

\* An open that succeeds keeps it if the metadata is that of the present object.
LEMMA OpenStep ==
    ASSUME IInv, answer = Pending, object \in Objects,
           pc' = "open", meta' = MetaOf(object), size' \in Nat, needed' \in 0 .. size',
           UNCHANGED <<conn, budget, key, range, answer>>
    PROVE  IInv'
  <1>1. UNCHANGED <<backend, object, seen, budget, key, range, answer>>
    BY DEF conn
  <1>2. object \in seen \ {NoObject}
    BY SeenAreObjects, AnswersAssumption DEF IInv
  <1>3. TypeOK'
    <2>1. meta' \in {MetaOf(o) : o \in Objects \cup {ZeroBytes}} \cup {NoMeta}
      OBVIOUS
    <2> QED
      BY <1>1, <2>1, Zenon DEF IInv, TypeOK
  <1>4. SizeInv' /\ RereadInv' /\ BlockInv' /\ AnswerInv' /\ UnmodifiedOpens'
    BY <1>1 DEF SizeInv, RereadInv, BlockInv, AnswerInv, UnmodifiedOpens
  <1>5. OpenCoherent'
    BY <1>1, <1>2 DEF OpenCoherent
  <1>6. ErrorInv' /\ ValuesAreReal' /\ TailTooSmallMeansRewritten'
    BY <1>1, AnswerKinds DEF ErrorInv, ValuesAreReal, TailTooSmallMeansRewritten
  <1>7. IsFiniteSet(seen')
    BY <1>1 DEF IInv
  <1> QED
    BY <1>3, <1>4, <1>5, <1>6, <1>7 DEF IInv

\* The size request: an error when there is no object, metadata without keys for
\* an object without bytes.
LEMMA OpenSizeStep == ASSUME IInv, OpenSize PROVE IInv'
  <1>1. pc = "closed" /\ answer = Pending /\ needed = 0 /\ TypeOK
    BY DEF OpenSize, IInv, AnswerInv, SizeInv
  <1>2. UNCHANGED <<conn, budget, needed, key, range>>
    BY DEF OpenSize
  <1>3. CASE object = NoObject
    <2>1. Fail("Storage") /\ UNCHANGED size
      BY <1>3 DEF OpenSize, ObjectSize
    <2>2. "Storage" \in ReadErrors /\ ~ IsCorruption("Storage") /\ "Storage" # "TailTooSmall"
      BY DEF ReadErrors, IsCorruption
    <2> QED
      BY <1>2, <1>3, <2>1, <2>2, FailStep
  <1>4. CASE object # NoObject
    <2>1. object \in Objects /\ object \in seen \ {NoObject}
      BY <1>1, <1>4, SeenAreObjects
    <2>2. object.size \in Nat /\ ObjectSize = object.size
      BY <1>4, <2>1, ObjectData DEF ObjectSize
    <2>3. size' = object.size /\ UNCHANGED answer
      BY <2>2 DEF OpenSize
    <2>4. needed' = needed
      BY <1>2
    <2>5. CASE object.size = 0
      <3>1. pc' = "open" /\ meta' = MetaOf(object)
        BY <2>1, <2>2, <2>5, ObjectEmpty DEF OpenSize
      <3>2. size' \in Nat /\ needed' \in 0 .. size'
        BY <1>1, <2>2, <2>3, <2>4
      <3> QED
        BY <1>1, <1>2, <2>1, <2>3, <3>1, <3>2, OpenStep
    <2>6. CASE object.size # 0
      <3>1. /\ pc' = "tail"
            /\ UNCHANGED <<backend, object, seen, budget, needed, key, range, meta, answer>>
        BY <1>2, <2>2, <2>3, <2>6 DEF OpenSize, conn
      <3>2. TypeOK'
        <4>1. size' \in Nat /\ needed' \in 0 .. size'
          BY <1>1, <2>2, <2>3, <2>4
        <4> QED
          BY <1>1, <3>1, <4>1, Zenon DEF TypeOK
      <3>3. SizeInv'
        BY <2>1, <2>2, <2>3, <2>6, <3>1 DEF SizeInv
      <3>4. RereadInv' /\ OpenCoherent' /\ BlockInv' /\ AnswerInv' /\ UnmodifiedOpens'
        BY <1>1, <3>1 DEF RereadInv, OpenCoherent, BlockInv, AnswerInv, UnmodifiedOpens, IsOpen
      <3>5. ErrorInv' /\ ValuesAreReal' /\ TailTooSmallMeansRewritten'
        BY <1>1, <3>1, AnswerKinds DEF ErrorInv, ValuesAreReal, TailTooSmallMeansRewritten
      <3>6. IsFiniteSet(seen')
        BY <3>1 DEF IInv
      <3> QED
        BY <3>2, <3>3, <3>4, <3>5, <3>6 DEF IInv
    <2> QED
      BY <2>5, <2>6
  <1> QED
    BY <1>3, <1>4

\* What is known at a tail request: the recorded size is that of a segment seen,
\* and of the present object unless that is another one.
LEMMA AtTail ==
    ASSUME IInv, pc \in {"tail", "reread"}
    PROVE  /\ TypeOK /\ answer = Pending /\ size \in Nat /\ size >= FooterSize /\ size > 0
           /\ Unmodified => object \in Objects
           /\ object \in Objects =>
                /\ object \in seen \ {NoObject}
                /\ size # object.size => Rewritten /\ ~ Unmodified
  <1>1. TypeOK /\ answer = Pending /\ size > 0
    BY DEF IInv, AnswerInv, SizeInv
  <1>2. PICK o \in seen \ {NoObject} : o.size = size
    BY DEF IInv, SizeInv
  <1>3. o \in Objects
    BY <1>1, <1>2, SeenAreObjects
  <1>4. o.size \in Nat /\ o.size # 0
    BY <1>1, <1>2, <1>3, ObjectData
  <1>5. size >= FooterSize /\ size \in Nat
    BY <1>2, <1>3, <1>4, ObjectSegment
  <1>6. Unmodified => object = o
    BY <1>2 DEF Unmodified
  <1>7. ASSUME object \in Objects
        PROVE  /\ object \in seen \ {NoObject}
               /\ size # object.size => Rewritten /\ ~ Unmodified
    BY <1>1, <1>2, <1>6, <1>7, SeenAreObjects, AnswersAssumption DEF Rewritten
  <1> QED
    BY <1>1, <1>3, <1>5, <1>6, <1>7

\* The request of len bytes of the tail and its parse, for a length that the
\* code asks for: success is success with the present object, an error is
\* explained by a rewrite.
LEMMA TailOutcome ==
    ASSUME IInv, pc \in {"tail", "reread"}, NEW len \in Nat, len <= size,
           NEW t, t = TailLength(object, len), NEW err, err = TailError(object, t, size)
    PROVE  /\ t = -1 => /\ Unmodified /\ len > 0 => object = NoObject
           /\ t # -1 =>
                /\ object \in Objects /\ t \in Nat
                /\ err \in {"Ok", "TooSmall", "InvalidOffset", "TailTooSmall", "FstError"}
                /\ err = "Ok" => size = object.size
                /\ err = "TailTooSmall" => t >= FooterSize /\ object.footer.bloomOff < size - t
                /\ err \notin {"Ok", "TailTooSmall"} /\ len >= FooterSize =>
                     Rewritten /\ ~ Unmodified
                /\ Unmodified => t = len \/ len = 0
                /\ Unmodified /\ len >= FooterSize =>
                     err = IF object.footer.bloomOff < size - len THEN "TailTooSmall" ELSE "Ok"
  <1>1. /\ TypeOK /\ size \in Nat /\ size >= FooterSize /\ size > 0
        /\ Unmodified => object \in Objects
        /\ object \in Objects =>
             /\ object \in seen \ {NoObject}
             /\ size # object.size => Rewritten /\ ~ Unmodified
    BY AtTail
  <1>2. object \in Objects \cup {NoObject} /\ backend \in {"local", "s3"}
    BY <1>1, AnswersAssumption DEF TypeOK
  <1>3. /\ t # -1 => object \in Objects /\ t \in Nat /\ (len >= FooterSize => t >= FooterSize)
        /\ object \in Objects /\ len > 0 /\ len <= object.size => t = len
    BY <1>2, TailRead
  <1>4. ASSUME t # -1
        PROVE  /\ err \in {"Ok", "TooSmall", "InvalidOffset", "TailTooSmall", "FstError"}
               /\ err = "Ok" => size = object.size
               /\ err = "TooSmall" => t < FooterSize
               /\ err = "TailTooSmall" => t >= FooterSize /\ object.footer.bloomOff < size - t
    BY <1>1, <1>3, <1>4, ParseOutcome
  <1>5. FooterSize \in Nat /\ FooterSize > 0
    BY FooterSizeAssumption
  <1>6. ASSUME Unmodified
        PROVE  object \in Objects /\ size = object.size /\ (t = len \/ len = 0)
    BY <1>1, <1>3, <1>6
  <1>7. ASSUME object \in Objects, size = object.size, len >= FooterSize
        PROVE  /\ t = len
               /\ err = IF object.footer.bloomOff < size - len THEN "TailTooSmall" ELSE "Ok"
    <2>1. t = len
      BY <1>3, <1>5, <1>7
    <2>2. object.size # 0
      BY <1>1, <1>7
    <2>3. TailError(object, len, object.size) =
            IF object.footer.bloomOff < object.size - len THEN "TailTooSmall" ELSE "Ok"
      BY <1>7, <2>2, IntactTail
    <2> QED
      BY <1>7, <2>1, <2>3
  <1>8. ASSUME t # -1, err \notin {"Ok", "TailTooSmall"}, len >= FooterSize
        PROVE  Rewritten /\ ~ Unmodified
    <2>1. object \in Objects
      BY <1>3, <1>8
    <2>2. size # object.size
      BY <1>7, <1>8, <2>1
    <2> QED
      BY <1>1, <2>1, <2>2
  <1>9. ASSUME t = -1, Unmodified, len > 0 PROVE FALSE
    BY <1>6, <1>9, <1>3
  <1> QED
    BY <1>3, <1>4, <1>6, <1>7, <1>8, <1>9, <1>5

\* The first tail read.  A tail that misses the filter leads to a re-read of a
\* length that covers it.
LEMMA OpenTailStep == ASSUME IInv, OpenTail PROVE IInv'
  <1> DEFINE len == FirstRead
             t == TailLength(object, len)
             err == TailError(object, t, size)
  <1>1. pc = "tail" /\ UNCHANGED <<conn, budget, size, key, range>>
    BY DEF OpenTail
  <1>2. /\ TypeOK /\ answer = Pending /\ size \in Nat /\ size >= FooterSize /\ size > 0
    BY <1>1, AtTail
  <1>3. budget \in Nat /\ needed \in 0 .. size
    BY <1>2, AnswersAssumption DEF TypeOK
  <1>4. /\ len \in Nat /\ len <= size
        /\ budget >= FooterSize => len >= FooterSize /\ len > 0
    BY <1>2, <1>3, FooterSizeAssumption DEF FirstRead
  <1> HIDE DEF len
  <1>5. /\ t = -1 => (Unmodified /\ len > 0 => object = NoObject)
        /\ t # -1 =>
             /\ object \in Objects /\ t \in Nat
             /\ err \in {"Ok", "TooSmall", "InvalidOffset", "TailTooSmall", "FstError"}
             /\ err = "Ok" => size = object.size
             /\ err = "TailTooSmall" => t >= FooterSize /\ object.footer.bloomOff < size - t
             /\ err \notin {"Ok", "TailTooSmall"} /\ len >= FooterSize =>
                  Rewritten /\ ~ Unmodified
    BY <1>1, <1>4, TailOutcome
  <1>6. /\ t = -1 => Fail("Storage") /\ UNCHANGED needed
        /\ t # -1 /\ err = "Ok" => Opened /\ UNCHANGED needed
        /\ t # -1 /\ err = "TailTooSmall" =>
             pc' = "reread" /\ needed' = NeededBytes(object) /\ UNCHANGED <<meta, answer>>
        /\ t # -1 /\ err \notin {"Ok", "TailTooSmall"} => Fail(err) /\ UNCHANGED needed
    BY DEF OpenTail, len
  <1> HIDE DEF t, err
  <1>7. CASE t = -1
    <2>1. "Storage" \in ReadErrors /\ ~ IsCorruption("Storage") /\ "Storage" # "TailTooSmall"
      BY DEF ReadErrors, IsCorruption
    <2> QED
      BY <1>1, <1>4, <1>5, <1>6, <1>7, <2>1, FailStep
  <1>8. CASE t # -1 /\ err = "Ok"
    <2>1. object \in Objects /\ size = object.size
      BY <1>5, <1>8
    <2>2. pc' = "open" /\ meta' = MetaOf(object) /\ UNCHANGED <<answer, needed>>
      BY <1>6, <1>8, <2>1 DEF Opened, ParsedMeta
    <2>3. size' \in Nat /\ needed' \in 0 .. size'
      BY <1>1, <1>2, <1>3, <2>2
    <2> QED
      BY <1>1, <1>2, <2>1, <2>2, <2>3, OpenStep
  <1>9. CASE t # -1 /\ err = "TailTooSmall"
    <2>1. /\ object \in Objects /\ t \in Nat /\ t >= FooterSize
          /\ object.footer.bloomOff < size - t
      BY <1>5, <1>9
    <2>2. object.footer.bloomOff \in Nat
      BY <2>1, BloomOffNat
    <2>3. /\ NeededBytes(object) = size - object.footer.bloomOff
          /\ NeededBytes(object) \in 0 .. size /\ NeededBytes(object) >= FooterSize
      BY <1>2, <2>1, <2>2, FooterSizeAssumption DEF NeededBytes
    <2>4. /\ pc' = "reread" /\ needed' = NeededBytes(object)
          /\ UNCHANGED <<backend, object, seen, budget, size, key, range, meta, answer>>
      BY <1>1, <1>6, <1>9 DEF conn
    <2>5. TypeOK'
      BY <1>2, <2>3, <2>4, Zenon DEF TypeOK
    <2>6. SizeInv'
      BY <1>1, <2>4 DEF IInv, SizeInv
    <2>7. RereadInv'
      BY <2>3, <2>4 DEF RereadInv
    <2>8. OpenCoherent' /\ BlockInv' /\ AnswerInv' /\ UnmodifiedOpens'
      BY <1>2, <2>4 DEF OpenCoherent, BlockInv, AnswerInv, UnmodifiedOpens, IsOpen
    <2>9. ErrorInv' /\ ValuesAreReal' /\ TailTooSmallMeansRewritten'
      BY <1>2, <2>4, AnswerKinds DEF ErrorInv, ValuesAreReal, TailTooSmallMeansRewritten
    <2>10. IsFiniteSet(seen')
      BY <2>4 DEF IInv
    <2> QED
      BY <2>5, <2>6, <2>7, <2>8, <2>9, <2>10 DEF IInv
  <1>10. CASE t # -1 /\ err \notin {"Ok", "TailTooSmall"}
    <2>1. err \in ReadErrors /\ err # "TailTooSmall"
      BY <1>5, <1>10 DEF ReadErrors
    <2>2. budget >= FooterSize => Rewritten /\ ~ Unmodified
      BY <1>4, <1>5, <1>10
    <2>3. Fail(err) /\ UNCHANGED <<conn, budget, size, needed, key, range>>
      BY <1>1, <1>6, <1>10
    <2> QED
      BY <2>1, <2>2, <2>3, FailStep
  <1> QED
    BY <1>7, <1>8, <1>9, <1>10

\* The re-read, which fails on an untouched object only if there is none.
LEMMA OpenRereadStep == ASSUME IInv, OpenReread PROVE IInv'
  <1> DEFINE t == TailLength(object, needed)
             err == TailError(object, t, size)
  <1>1. pc = "reread" /\ UNCHANGED <<conn, budget, size, needed, key, range>>
    BY DEF OpenReread
  <1>2. /\ TypeOK /\ answer = Pending /\ size \in Nat
        /\ Unmodified => object \in Objects
    BY <1>1, AtTail
  <1>3. /\ needed \in Nat /\ needed <= size /\ needed >= FooterSize /\ needed > 0
        /\ Unmodified => needed = size - object.footer.bloomOff
    BY <1>1, <1>2, FooterSizeAssumption DEF TypeOK, IInv, RereadInv
  <1>4. /\ t = -1 => (Unmodified /\ needed > 0 => object = NoObject)
        /\ t # -1 =>
             /\ object \in Objects /\ t \in Nat
             /\ err \in {"Ok", "TooSmall", "InvalidOffset", "TailTooSmall", "FstError"}
             /\ err = "Ok" => size = object.size
             /\ err \notin {"Ok", "TailTooSmall"} /\ needed >= FooterSize =>
                  Rewritten /\ ~ Unmodified
             /\ Unmodified /\ needed >= FooterSize =>
                  err = IF object.footer.bloomOff < size - needed THEN "TailTooSmall" ELSE "Ok"
    BY <1>1, <1>3, TailOutcome
  <1>5. /\ t = -1 => Fail("Storage")
        /\ t # -1 /\ err = "Ok" => Opened
        /\ t # -1 /\ err # "Ok" => Fail(err)
    BY DEF OpenReread
  <1> HIDE DEF t, err
  <1>6. CASE t = -1
    <2>1. "Storage" \in ReadErrors /\ ~ IsCorruption("Storage") /\ "Storage" # "TailTooSmall"
      BY DEF ReadErrors, IsCorruption
    <2> QED
      BY <1>1, <1>3, <1>4, <1>5, <1>6, <2>1, FailStep
  <1>7. CASE t # -1 /\ err = "Ok"
    <2>1. object \in Objects /\ size = object.size
      BY <1>4, <1>7
    <2>2. pc' = "open" /\ meta' = MetaOf(object) /\ UNCHANGED answer
      BY <1>5, <1>7, <2>1 DEF Opened, ParsedMeta
    <2>3. size' \in Nat /\ needed' \in 0 .. size'
      BY <1>1, <1>2, <1>3
    <2> QED
      BY <1>1, <1>2, <2>1, <2>2, <2>3, OpenStep
  <1>8. CASE t # -1 /\ err # "Ok"
    <2>1. err \in ReadErrors
      BY <1>4, <1>8 DEF ReadErrors
    <2>2. ~ Unmodified
      <3>1. SUFFICES ASSUME Unmodified PROVE err = "Ok"
        BY <1>8
      <3>2. object.footer.bloomOff \in Nat
        BY <1>2, <3>1, BloomOffNat
      <3>3. ~ (object.footer.bloomOff < size - needed)
        BY <1>2, <1>3, <3>1, <3>2
      <3> QED
        BY <1>3, <1>4, <1>8, <3>1, <3>3
    <2>3. IsCorruption(err) => Rewritten
      <3>1. ~ IsCorruption("TailTooSmall")
        BY DEF IsCorruption
      <3> QED
        BY <1>3, <1>4, <1>8, <3>1
    <2>4. Fail(err) /\ UNCHANGED <<conn, budget, size, needed, key, range>>
      BY <1>1, <1>5, <1>8
    <2> QED
      BY <2>1, <2>2, <2>3, <2>4, FailStep
  <1> QED
    BY <1>6, <1>7, <1>8

\* What an open reader has cached is the metadata of a segment that the path held,
\* of the present one if that is untouched.
LEMMA CachedMeta ==
    ASSUME IInv, IsOpen
    PROVE  \E o \in seen \ {NoObject} :
             /\ o \in Objects /\ (Unmodified => object = o)
             /\ meta.fst = o.fst /\ meta.bloom = o.bloom /\ meta.footer = o.footer
  <1>1. TypeOK /\ \E o \in seen \ {NoObject} : meta = MetaOf(o)
    BY DEF IInv, OpenCoherent
  <1>2. PICK o \in seen \ {NoObject} : meta = MetaOf(o)
    BY <1>1
  <1>3. o \in Objects
    BY <1>1, SeenAreObjects
  <1>4. meta.fst = o.fst /\ meta.bloom = o.bloom /\ meta.footer = o.footer
    BY <1>2 DEF MetaOf
  <1>5. Unmodified => object = o
    BY DEF Unmodified
  <1> QED
    BY <1>3, <1>4, <1>5

\* The part of get before its request: filter and directory decide, or the range
\* of one block of the cached directory is fixed.
LEMMA StartGetStep == ASSUME IInv, NEW k \in Key, StartGet(k) PROVE IInv'
  <1> DEFINE off == FindBlockForKey(meta.fst, k)
             rejected == ~ MightContain(meta.bloom, k) \/ off = NoOffset
  <1>1. /\ pc = "open" /\ key' = k /\ TypeOK /\ IsOpen
        /\ UNCHANGED <<backend, object, seen, budget, size, needed, meta>>
    BY DEF StartGet, conn, IInv, IsOpen
  <1>2. PICK o \in seen \ {NoObject} :
           /\ o \in Objects /\ (Unmodified => object = o)
           /\ meta.fst = o.fst /\ meta.bloom = o.bloom /\ meta.footer = o.footer
    BY <1>1, CachedMeta
  <1>3. /\ rejected => answer' = NotFound /\ UNCHANGED <<pc, range>>
        /\ ~ rejected /\ off >= meta.footer.dataLen =>
             answer' = "InvalidBlockOffset" /\ UNCHANGED <<pc, range>>
        /\ ~ rejected /\ ~ (off >= meta.footer.dataLen) =>
             range' = BlockByteRange(off) /\ pc' = "block" /\ answer' = Pending
    BY DEF StartGet
  <1>4. CASE rejected
    <2>1. answer' = NotFound /\ pc' = "open" /\ range' = range
      BY <1>1, <1>3, <1>4
    <2>2. TypeOK'
      BY <1>1, <2>1, Zenon DEF TypeOK
    <2>3. AnswerInv'
      <3>1. Get(o, k) = NotFound
        BY <1>2, <1>4, RequestIsGet
      <3>2. Unmodified' => object' = o
        BY <1>1, <1>2 DEF Unmodified
      <3> QED
        BY <1>1, <2>1, <3>1, <3>2 DEF AnswerInv
    <2>4. SizeInv' /\ RereadInv' /\ BlockInv' /\ UnmodifiedOpens'
      BY <2>1 DEF SizeInv, RereadInv, BlockInv, UnmodifiedOpens
    <2>5. OpenCoherent' /\ IsFiniteSet(seen')
      BY <1>1, <2>1 DEF IInv, OpenCoherent, IsOpen
    <2>6. ErrorInv' /\ ValuesAreReal' /\ TailTooSmallMeansRewritten'
      BY <2>1, AnswerKinds DEF ErrorInv, ValuesAreReal, TailTooSmallMeansRewritten
    <2> QED
      BY <2>2, <2>3, <2>4, <2>5, <2>6 DEF IInv
  <1>5. CASE ~ rejected
    <2>1. FindBlockForKey(o.fst, k) # NoOffset
      BY <1>2, <1>5
    <2>2. /\ off \in Nat /\ off < meta.footer.dataLen /\ meta.footer.dataLen \in Nat
          /\ FindBlockEnd(meta.fst, off, meta.footer.dataLen) \in Nat
      BY <1>2, <2>1, RangeOfKey, ObjectData
    <2>3. ~ (off >= meta.footer.dataLen)
      BY <2>2
    <2>4. range' = BlockByteRange(off) /\ pc' = "block" /\ answer' = Pending
      BY <1>3, <1>5, <2>3
    <2>5. BlockByteRange(off) \in Nat \X Nat
      BY <2>2 DEF BlockByteRange
    <2>6. TypeOK'
      BY <1>1, <2>4, <2>5, Zenon DEF TypeOK
    <2>7. BlockInv'
      <3>1. range' = <<off, FindBlockEnd(meta.fst, off, meta.footer.dataLen)>>
        BY <2>4 DEF BlockByteRange
      <3>2. key' = k /\ meta' = meta
        BY <1>1
      <3> QED
        BY <1>5, <2>2, <3>1, <3>2, Zenon DEF BlockInv, BlockByteRange
    <2>8. SizeInv' /\ RereadInv' /\ AnswerInv' /\ UnmodifiedOpens'
      BY <2>4 DEF SizeInv, RereadInv, AnswerInv, UnmodifiedOpens
    <2>9. OpenCoherent' /\ IsFiniteSet(seen')
      BY <1>1, <2>4 DEF IInv, OpenCoherent, IsOpen
    <2>10. ErrorInv' /\ ValuesAreReal' /\ TailTooSmallMeansRewritten'
      BY <2>4, AnswerKinds DEF ErrorInv, ValuesAreReal, TailTooSmallMeansRewritten
    <2> QED
      BY <2>6, <2>7, <2>8, <2>9, <2>10 DEF IInv
  <1> QED
    BY <1>4, <1>5

\* The data section of an object lies inside it.
LEMMA DataInside ==
    ASSUME NEW o \in Objects
    PROVE  o.footer.dataLen <= o.size
  <1>1. o.footer.dataLen \in Nat
    BY ObjectData
  <1>2. CASE o = ZeroBytes
    BY <1>2, ZeroBytesLayout
  <1>3. CASE WellFormed(o)
    BY <1>1, <1>3, FooterSizeAssumption DEF WellFormed
  <1> QED
    BY <1>2, <1>3, ObjectsAssumption

\* A range inside an object is read as it was asked for.
LEMMA RangeInside ==
    ASSUME NEW o \in Objects, NEW start \in Nat, NEW stop \in Nat,
           start < stop, stop <= o.size
    PROVE  RangeEnd(o, start, stop) = stop
  <1>1. o # NoObject /\ o.size \in Nat
    BY AnswersAssumption, ObjectData
  <1>2. ~ (stop > o.size) /\ ~ (start >= o.size)
    BY <1>1
  <1> QED
    BY <1>1, <1>2 DEF RangeEnd, LocalRange, S3Range

\* The block request: on the segment whose metadata is cached it is the lookup;
\* on another one it still returns only what is stored there under the key.
LEMMA GetBlockStep == ASSUME IInv, GetBlock PROVE IInv'
  <1> DEFINE end == RangeEnd(object, range[1], range[2])
  <1>1. /\ pc = "block" /\ pc' = "open" /\ TypeOK /\ IsOpen
        /\ UNCHANGED <<backend, object, seen, budget, size, needed, meta, key, range>>
    BY DEF GetBlock, conn, IInv, IsOpen
  <1>2. answer' = IF end = -1 THEN "Storage" ELSE BlockGet(object, range[1], end, key)
    BY DEF GetBlock
  <1>3. PICK o \in seen \ {NoObject} :
           /\ o \in Objects /\ (Unmodified => object = o)
           /\ meta.fst = o.fst /\ meta.bloom = o.bloom /\ meta.footer = o.footer
    BY <1>1, CachedMeta
  <1>4. key \in Key /\ object \in Objects \cup {NoObject}
    BY <1>1 DEF TypeOK
  <1>5. object = o => answer' = Get(o, key)
    <2> DEFINE off == FindBlockForKey(o.fst, key)
               stop == FindBlockEnd(o.fst, off, o.footer.dataLen)
    <2>1. off # NoOffset /\ MightContain(o.bloom, key) /\ range = <<off, stop>>
      BY <1>1, <1>3 DEF IInv, BlockInv, BlockByteRange
    <2>2. /\ off \in Nat /\ stop \in Nat /\ off < stop /\ stop <= o.footer.dataLen
      BY <1>3, <1>4, <2>1, RangeOfKey
    <2>3. stop <= o.size
      <3>1. o.footer.dataLen \in Nat /\ o.size \in Nat /\ o.footer.dataLen <= o.size
        BY <1>3, ObjectData, DataInside
      <3> QED
        BY <2>2, <3>1
    <2>4. Get(o, key) = BlockGet(o, off, stop, key)
      BY <1>3, <1>4, <2>1, RequestIsGet
    <2>5. range[1] = off /\ range[2] = stop
      BY <2>1
    <2> HIDE DEF off, stop
    <2>6. RangeEnd(o, off, stop) = stop
      BY <1>3, <2>2, <2>3, RangeInside
    <2>7. stop # -1
      BY <2>2
    <2> QED
      BY <1>2, <2>4, <2>5, <2>6, <2>7
  <1>6. object # NoObject \/ answer' = "Storage"
    <2>1. SUFFICES ASSUME object = NoObject PROVE end = -1
      BY <1>2
    <2> QED
      BY <2>1 DEF RangeEnd, LocalRange, S3Range
  <1>7. \/ answer' = "Storage"
        \/ /\ object \in Objects
           /\ \/ answer' \in Value /\ [key |-> key, val |-> answer'] \in EntriesOf(object)
              \/ answer' = NotFound
              \/ answer' \in {"BlockTooSmall", "ChecksumMismatch"}
    <2>1. SUFFICES ASSUME object \in Objects, answer' # "Storage"
                   PROVE  \/ answer' \in Value
                             /\ [key |-> key, val |-> answer'] \in EntriesOf(object)
                          \/ answer' = NotFound
                          \/ answer' \in {"BlockTooSmall", "ChecksumMismatch"}
      BY <1>4, <1>6
    <2>2. PICK a : a = BlockGet(object, range[1], end, key)
      OBVIOUS
    <2>3. answer' = a
      BY <1>2, <2>1, <2>2
    <2> HIDE DEF end
    <2> QED
      BY <2>1, <2>2, <2>3, SearchAnswers
  <1> HIDE DEF end
  <1>8. /\ {"Storage", "BlockTooSmall", "ChecksumMismatch"} \subseteq ReadErrors
        /\ ~ IsCorruption("Storage")
        /\ "TailTooSmall" \notin {"Storage", "BlockTooSmall", "ChecksumMismatch"}
    BY DEF ReadErrors, IsCorruption
  <1>9. answer' \in Value \cup {NotFound} \cup ReadErrors /\ answer' # "TailTooSmall"
    BY <1>7, <1>8, AnswerKinds
  <1>10. TypeOK'
    BY <1>1, <1>9, Zenon DEF TypeOK
  <1>11. SizeInv' /\ RereadInv' /\ BlockInv' /\ UnmodifiedOpens' /\ TailTooSmallMeansRewritten'
    BY <1>1, <1>9 DEF SizeInv, RereadInv, BlockInv, UnmodifiedOpens, TailTooSmallMeansRewritten
  <1>12. OpenCoherent' /\ IsFiniteSet(seen')
    BY <1>1 DEF IInv, OpenCoherent, IsOpen
  <1>13. AnswerInv'
    BY <1>1, <1>3, <1>5 DEF AnswerInv, Unmodified
  <1>14. ValuesAreReal'
    <2>1. SUFFICES ASSUME answer' \in Value
                   PROVE  \E w \in seen' \ {NoObject} :
                             [key |-> key', val |-> answer'] \in EntriesOf(w)
      BY DEF ValuesAreReal
    <2>2. object \in Objects /\ [key |-> key, val |-> answer'] \in EntriesOf(object)
      BY <1>7, <1>8, <2>1, AnswerKinds
    <2>3. object \in seen \ {NoObject}
      BY <1>1, <2>2, AnswersAssumption DEF TypeOK
    <2> QED
      BY <1>1, <2>2, <2>3
  <1>15. ErrorInv'
    <2>1. SUFFICES ASSUME IsCorruption(answer') PROVE Rewritten
      BY <1>1 DEF ErrorInv, Rewritten
    <2>2. object # o
      <3>1. Get(o, key) \in Value \/ Get(o, key) = NotFound
        BY <1>3, <1>4, GetIsRight
      <3> QED
        BY <1>5, <2>1, <3>1, AnswerKinds
    <2>3. object \in seen \ {NoObject}
      BY <1>1, <1>6, <1>8, <2>1 DEF TypeOK
    <2> QED
      BY <2>2, <2>3 DEF Rewritten
  <1> QED
    BY <1>10, <1>11, <1>12, <1>13, <1>14, <1>15 DEF IInv

\* Dropping the reader starts the history anew.
LEMMA CloseStep == ASSUME IInv, Close PROVE IInv'
  <1>1. /\ pc' = "closed" /\ meta' = NoMeta /\ answer' = Pending /\ needed' = 0
        /\ size' = 0 /\ range' = <<0, 0>> /\ budget' \in Budgets /\ seen' = {object}
        /\ UNCHANGED <<backend, object, key>>
    BY DEF Close
  <1>2. TypeOK'
    <2>1. range' \in Nat \X Nat /\ size' \in Nat /\ needed' \in 0 .. size'
      BY <1>1
    <2>2. meta' \in {MetaOf(o) : o \in Objects \cup {ZeroBytes}} \cup {NoMeta}
      BY <1>1
    <2>3. seen' \subseteq Objects \cup {NoObject} /\ object' \in seen'
      BY <1>1 DEF IInv, TypeOK
    <2> QED
      BY <1>1, <2>1, <2>2, <2>3, Zenon DEF IInv, TypeOK
  <1>3. SizeInv' /\ RereadInv' /\ OpenCoherent' /\ BlockInv' /\ AnswerInv' /\ UnmodifiedOpens'
    BY <1>1 DEF SizeInv, RereadInv, OpenCoherent, BlockInv, AnswerInv, UnmodifiedOpens, IsOpen
  <1>4. ErrorInv' /\ ValuesAreReal' /\ TailTooSmallMeansRewritten'
    BY <1>1, AnswerKinds DEF ErrorInv, ValuesAreReal, TailTooSmallMeansRewritten
  <1>5. IsFiniteSet(seen')
    BY <1>1, FS_Singleton
  <1> QED
    BY <1>2, <1>3, <1>4, <1>5 DEF IInv

\* A reader that was not opened yet satisfies the invariant.
LEMMA InitIInv == Init => IInv
  <1> SUFFICES ASSUME Init PROVE IInv
    OBVIOUS
  <1>1. /\ pc = "closed" /\ meta = NoMeta /\ answer = Pending /\ needed = 0
        /\ size = 0 /\ range = <<0, 0>> /\ seen = {object}
    BY DEF Init
  <1>2. TypeOK
    <2>1. range \in Nat \X Nat /\ size \in Nat /\ needed \in 0 .. size
      BY <1>1
    <2>2. /\ backend \in Backends /\ object \in Objects \cup {NoObject}
          /\ budget \in Budgets /\ key \in Key
      BY DEF Init
    <2> QED
      BY <1>1, <2>1, <2>2, Zenon DEF TypeOK
  <1>3. SizeInv /\ RereadInv /\ OpenCoherent /\ BlockInv /\ AnswerInv /\ UnmodifiedOpens
    BY <1>1 DEF SizeInv, RereadInv, OpenCoherent, BlockInv, AnswerInv, UnmodifiedOpens, IsOpen
  <1>4. ErrorInv /\ ValuesAreReal /\ TailTooSmallMeansRewritten
    BY <1>1, AnswerKinds DEF ErrorInv, ValuesAreReal, TailTooSmallMeansRewritten
  <1>5. IsFiniteSet(seen)
    BY <1>1, FS_Singleton
  <1> QED
    BY <1>2, <1>3, <1>4, <1>5 DEF IInv

\* Every step of the reader and of the other clients keeps it.
LEMMA NextIInv == IInv /\ [Next]_vars => IInv'
  <1> SUFFICES ASSUME IInv, [Next]_vars PROVE IInv'
    OBVIOUS
  <1>1. ASSUME NEW obj \in Objects, Put(obj) PROVE IInv'
    BY <1>1, ChangeStep DEF Put
  <1>2. CASE Delete
    BY <1>2, ChangeStep DEF Delete
  <1>3. CASE OpenSize
    BY <1>3, OpenSizeStep
  <1>4. CASE OpenTail
    BY <1>4, OpenTailStep
  <1>5. CASE OpenReread
    BY <1>5, OpenRereadStep
  <1>6. ASSUME NEW k \in Key, StartGet(k) PROVE IInv'
    BY <1>6, StartGetStep
  <1>7. CASE GetBlock
    BY <1>7, GetBlockStep
  <1>8. CASE Close
    BY <1>8, CloseStep
  <1>9. CASE UNCHANGED vars
    <2>1. UNCHANGED <<backend, object, seen, pc, budget, size, needed, meta, key, range, answer>>
      BY <1>9 DEF vars, conn
    <2>2. TypeOK' /\ IsFiniteSet(seen')
      BY <2>1, Zenon DEF IInv, TypeOK
    <2>3. SizeInv' /\ RereadInv' /\ OpenCoherent' /\ AnswerInv' /\ UnmodifiedOpens'
      BY <2>1 DEF IInv, SizeInv, RereadInv, OpenCoherent, AnswerInv, UnmodifiedOpens,
                  IsOpen, Unmodified
    <2>4. BlockInv'
      BY <2>1, Zenon DEF IInv, BlockInv, BlockByteRange
    <2>5. ErrorInv' /\ ValuesAreReal' /\ TailTooSmallMeansRewritten'
      BY <2>1 DEF IInv, ErrorInv, ValuesAreReal, TailTooSmallMeansRewritten, Rewritten, Unmodified
    <2> QED
      BY <2>2, <2>3, <2>4, <2>5 DEF IInv
  <1> QED
    BY <1>1, <1>2, <1>3, <1>4, <1>5, <1>6, <1>7, <1>8, <1>9 DEF Next

-----------------------------------------------------------------------------
(* The theorems.                                                           *)

\* Whatever other clients do between the requests, the invariant holds.
THEOREM RemoteInvariant == Spec => []IInv
  BY InitIInv, NextIInv, PTL DEF Spec

\* Every variable of a remote reader keeps its type; in particular the re-read
\* never asks for more than the segment (reader.rs RemoteSegmentReader::open).
THEOREM RemoteTypeCorrect == Spec => []TypeOK
  <1>1. IInv => TypeOK
    BY DEF IInv
  <1> QED
    BY <1>1, RemoteInvariant, PTL

\* Open never caches a mix of two objects, however the object is overwritten
\* between its requests (reader.rs open, open_from_tail).
THEOREM RemoteOpenCoherent == Spec => []OpenCoherent
  <1>1. IInv => OpenCoherent
    BY DEF IInv
  <1> QED
    BY <1>1, RemoteInvariant, PTL

\* A segment that nobody touches opens with every budget of at least a footer,
\* however large its metadata (reader.rs RemoteSegmentReader::open).
THEOREM RemoteUnmodifiedOpens == Spec => []UnmodifiedOpens
  <1>1. IInv => UnmodifiedOpens
    BY DEF IInv
  <1> QED
    BY <1>1, RemoteInvariant, PTL

\* A re-read that is too small again means a rewritten object
\* (reader.rs RemoteSegmentReader::open).
THEOREM RemoteTailTooSmall == Spec => []TailTooSmallMeansRewritten
  <1>1. IInv => TailTooSmallMeansRewritten
    BY DEF IInv
  <1> QED
    BY <1>1, RemoteInvariant, PTL

\* A value that is returned was stored under its key by a segment that the path
\* held since the open (reader.rs RemoteSegmentReader::get).
THEOREM RemoteValuesAreReal == Spec => []ValuesAreReal
  <1>1. IInv => ValuesAreReal
    BY DEF IInv
  <1> QED
    BY <1>1, RemoteInvariant, PTL

\* On an object that nobody touches, every lookup answers what it holds, for any
\* segments, filters, budgets and backends (reader.rs RemoteSegmentReader::get).
THEOREM RemoteGetCorrect == Spec => []UnmodifiedGetCorrect
  <1>1. IInv => UnmodifiedGetCorrect
    <2> SUFFICES ASSUME IInv, pc = "open", Unmodified, answer # Pending, object # NoObject
                 PROVE  IF key \in KeysOf(object)
                        THEN [key |-> key, val |-> answer] \in EntriesOf(object)
                        ELSE answer = NotFound
      BY DEF UnmodifiedGetCorrect
    <2>1. object \in Objects /\ key \in Key
      BY SeenAreObjects DEF IInv, TypeOK
    <2>2. answer = Get(object, key)
      BY DEF IInv, AnswerInv
    <2> QED
      BY <2>1, <2>2, GetIsRight
  <1> QED
    BY <1>1, RemoteInvariant, PTL

\* An error that blames the segment is reported only after the path held two
\* different segments (reader.rs ReaderError::is_corruption).
THEOREM RemoteCorruption == Spec => []CorruptionMeansRewritten
  <1>1. IInv => CorruptionMeansRewritten
    <2> SUFFICES ASSUME IInv, IsCorruption(answer), budget >= FooterSize
                 PROVE  Cardinality(seen \ {NoObject}) > 1
      BY DEF CorruptionMeansRewritten
    <2>1. PICK a \in seen \ {NoObject} : \E b \in seen \ {NoObject} : a # b
      BY DEF IInv, ErrorInv, Rewritten
    <2>2. PICK b \in seen \ {NoObject} : a # b
      BY <2>1
    <2>3. IsFiniteSet(seen \ {NoObject})
      <3>1. IsFiniteSet(seen) /\ seen \ {NoObject} \subseteq seen
        BY DEF IInv
      <3> QED
        BY <3>1, FS_Subset
    <2>4. IsFiniteSet({a}) /\ Cardinality({a}) = 1
      BY FS_Singleton
    <2>5. Cardinality({a} \cup {b}) = 2 /\ IsFiniteSet({a} \cup {b})
      <3>1. b \notin {a}
        BY <2>2
      <3>2. /\ IsFiniteSet({a} \cup {b})
            /\ Cardinality({a} \cup {b}) = Cardinality({a}) + 1
        BY <2>4, <3>1, FS_AddElement
      <3> QED
        BY <2>4, <3>2
    <2>6. {a} \cup {b} \subseteq seen \ {NoObject}
      BY <2>1, <2>2
    <2>7. /\ Cardinality({a} \cup {b}) <= Cardinality(seen \ {NoObject})
          /\ Cardinality(seen \ {NoObject}) \in Nat
      BY <2>3, <2>6, FS_Subset, FS_CardinalityType
    <2> QED
      BY <2>5, <2>7
  <1> QED
    BY <1>1, RemoteInvariant, PTL
=============================================================================
