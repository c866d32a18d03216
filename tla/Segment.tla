------------------------------ MODULE Segment ------------------------------
(***************************************************************************)
(* SegmentWriter (src/writer.rs) with the block builder it drives          *)
(* (src/block.rs): from a stream of add calls to a finished, immutable     *)
(* segment, which the in-memory SegmentReader (src/reader.rs) then serves. *)
(*                                                                         *)
(* One behaviour is the life of one writer: options, adds (some refused),  *)
(* then finish or finish_allow_empty, which consume the writer.            *)
(***************************************************************************)
EXTENDS SegmentFormat, SequencesExt

CONSTANTS
    Key,          \* the keys; natural numbers, in the order of the byte strings
    EmptyKey,     \* the empty byte string, least of all keys
    Value,        \* the values
    KeyLen,       \* [Key -> Nat], length of a key in bytes
    ValueLen,     \* [Value -> Nat], length of a value in bytes
    SharedPrefix, \* [Key \X Key -> Nat], shared_prefix_len of two keys
    Options,      \* set of SegmentWriterOptions
    FilterLen,    \* length of a serialized non-empty bloom filter
    FstLen,       \* length of a serialized FST (never empty, even without keys)
    MaxAdds,      \* bound on the add calls of one behaviour (model checking)
    NoSegment     \* the writer has not produced a segment

ASSUME KeyAssumption ==
    /\ Key \subseteq Nat
    /\ EmptyKey \in Nat /\ \A k \in Key : EmptyKey <= k
ASSUME LengthAssumption ==
    /\ KeyLen \in [Key -> Nat] /\ ValueLen \in [Value -> Nat]
    /\ SharedPrefix \in [Key \X Key -> Nat]
    /\ \A a, b \in Key : SharedPrefix[a, b] <= KeyLen[b]
    /\ FilterLen \in Nat \ {0} /\ FstLen \in Nat \ {0}
ASSUME OptionsAssumption ==
    Options \subseteq [blockSize : Nat, restartInterval : Nat, bloom : BOOLEAN]
ASSUME AnswerAssumption ==
    NotFound \notin Value \cup ReadErrors /\ Value \cap ReadErrors = {}
ASSUME BoundAssumption == MaxAdds \in Nat

VARIABLES
    opts,        \* the writer's options
    blocks,      \* data_blocks: the finished blocks
    fstEntries,  \* fst_entries: (last_key, block_offset) per finished block
    allKeys,     \* all_keys, collected for the bloom filter
    cur,         \* current_block, the block builder
    offset,      \* current_offset, where the next block starts
    keyCount,    \* key_count
    firstKey,    \* first_key; NoKey is has_entries = false
    lastKey,     \* last_key
    prevKey,     \* prev_key, the order check's reference
    segment,     \* the finished segment, NoSegment until then
    result,      \* what the last call returned
    added,       \* history: the entries whose add returned Ok, in order
    calls        \* history: number of add calls, for the bound

writer == <<blocks, fstEntries, allKeys, cur, offset, keyCount,
            firstKey, lastKey, prevKey>>
vars == <<opts, writer, segment, result, added, calls>>

NoKey == -1   \* None, for the Option<key> fields

Entry(k, v) == [key |-> k, val |-> v]

-----------------------------------------------------------------------------
(* Block builder (sizes; the byte encoding itself is modelled in Block).   *)

\* Bytes of a LEB128 varint of a u32.
VarintLen(n) ==
    IF n < 128 THEN 1 ELSE IF n < 16384 THEN 2
    ELSE IF n < 2097152 THEN 3 ELSE IF n < 268435456 THEN 4 ELSE 5

\* restarts counts the restart array, which starts as [0].
EmptyBlock == [entries |-> <<>>, buf |-> 0, restarts |-> 1, sinceRestart |-> 0]

\* finish: entries, restart offsets, their number, the CRC.
BlockLen(b) == b.buf + 4 * b.restarts + 4 + 4

\* Wrong variant: the trailer and the restart array are not counted.
EstimatedSizeBuf(b) == b.buf

EstimatedSize(b) == b.buf + 4 * b.restarts + 8

EntryEstimate(k, v) == 5 + KeyLen[k] + ValueLen[v]

\* A block refuses an entry that would not fit, unless it is the first.
IsFull(b, k, v) ==
    b.entries # <<>> /\ EstimatedSize(b) + EntryEstimate(k, v) > opts.blockSize

RestartInterval == IF opts.restartInterval = 0 THEN 1 ELSE opts.restartInterval

StartsRestart(b) == b.entries = <<>> \/ b.sinceRestart >= RestartInterval

SharedWith(b, k) ==
    IF StartsRestart(b) THEN 0 ELSE SharedPrefix[Last(b.entries).key, k]

EncodedLen(b, k, v) ==
    LET unshared == KeyLen[k] - SharedWith(b, k)
    IN  VarintLen(SharedWith(b, k)) + VarintLen(unshared)
        + VarintLen(ValueLen[v]) + unshared + ValueLen[v]

\* BlockBuilder::add, when the block is not full.
AddToBlock(b, k, v) ==
    [entries      |-> Append(b.entries, Entry(k, v)),
     buf          |-> b.buf + EncodedLen(b, k, v),
     restarts     |-> IF StartsRestart(b) /\ b.entries # <<>>
                      THEN b.restarts + 1 ELSE b.restarts,
     sinceRestart |-> IF StartsRestart(b) THEN 1 ELSE b.sinceRestart + 1]

\* Wrong variant: the entry that found the block full is forgotten.
FreshBlockOnly(k, v) == EmptyBlock

\* The second attempt of SegmentWriter::add, which always succeeds.
FreshBlockWith(k, v) == AddToBlock(EmptyBlock, k, v)

-----------------------------------------------------------------------------
(* flush_block: the finished block, its directory entry, the next offset.  *)

FlushedBlock == [off |-> offset, len |-> BlockLen(cur), entries |-> cur.entries]

\* Wrong variant: the directory names the first key of the block.
FlushedFstFirst == [key |-> Head(cur.entries).key, off |-> offset]

\* Wrong variant: the offset is taken before the block's trailer.
FlushedFstEarly == [key |-> Last(cur.entries).key, off |-> offset - 8]

FlushedFst == [key |-> Last(cur.entries).key, off |-> offset]

\* Wrong variant: the block's trailer is not counted.
FlushedOffsetBuf == offset + cur.buf

FlushedOffset == offset + BlockLen(cur)

-----------------------------------------------------------------------------
(* Assembly of the segment.                                                *)

AllBlocks == IF cur.entries = <<>> THEN blocks ELSE Append(blocks, FlushedBlock)
AllFst    == IF cur.entries = <<>> THEN fstEntries ELSE Append(fstEntries, FlushedFst)
DataLen   == IF cur.entries = <<>> THEN offset ELSE FlushedOffset

\* FST insertion refuses a key that does not ascend.
FstBuildFails(fst) ==
    \E i \in 1 .. Len(fst) - 1 : fst[i].key >= fst[i + 1].key

\* The filters build_filter may produce: exact on the added keys, with any
\* false positives; no keys (or bloom disabled) give no bytes.
Filters ==
    IF opts.bloom /\ allKeys # <<>>
    THEN {[len |-> FilterLen, yes |-> {allKeys[i] : i \in DOMAIN allKeys} \cup fp] :
             fp \in SUBSET Key}
    ELSE {[len |-> 0, yes |-> {}]}

\* Wrong variant: the directory overlaps the end of the bloom filter.
FooterOfOverlap(dataLen, bloomLen) ==
    [dataLen |-> dataLen, bloomOff |-> dataLen, bloomLen |-> bloomLen,
     fstOff |-> dataLen, fstLen |-> FstLen, keyCount |-> keyCount]

FooterOf(dataLen, bloomLen) ==
    [dataLen |-> dataLen, bloomOff |-> dataLen, bloomLen |-> bloomLen,
     fstOff |-> dataLen + bloomLen, fstLen |-> FstLen, keyCount |-> keyCount]

Assemble(filter) ==
    [blocks |-> AllBlocks,
     bloom  |-> filter,
     fst    |-> AllFst,
     footer |-> FooterOf(DataLen, filter.len),
     size   |-> DataLen + filter.len + FstLen + FooterSize,
     minKey |-> IF firstKey = NoKey THEN EmptyKey ELSE firstKey,
     maxKey |-> IF lastKey = NoKey THEN EmptyKey ELSE lastKey]

-----------------------------------------------------------------------------
Init ==
    /\ opts \in Options
    /\ blocks = <<>> /\ fstEntries = <<>> /\ allKeys = <<>>
    /\ cur = EmptyBlock
    /\ offset = 0 /\ keyCount = 0
    /\ firstKey = NoKey /\ lastKey = NoKey /\ prevKey = NoKey
    /\ segment = NoSegment
    /\ result = "Ok"
    /\ added = <<>> /\ calls = 0

CanCall == result \in {"Ok", "KeysOutOfOrder", "DuplicateKey"} /\ segment = NoSegment

\* Wrong variant: only duplicates are refused.
OrderErrorDuplicateOnly(k) == IF k = prevKey THEN "DuplicateKey" ELSE "Ok"

\* What the order check of add returns for a key.
OrderError(k) ==
    IF prevKey = NoKey THEN "Ok"
    ELSE IF k < prevKey THEN "KeysOutOfOrder"
    ELSE IF k = prevKey THEN "DuplicateKey" ELSE "Ok"

\* add returns KeysOutOfOrder or DuplicateKey before it changes anything.
AddRefused(k, v) ==
    /\ CanCall /\ calls < MaxAdds
    /\ OrderError(k) # "Ok"
    /\ result' = OrderError(k)
    /\ calls' = calls + 1
    /\ UNCHANGED <<opts, writer, segment, added>>

\* Wrong variant: first_key follows every add.
TrackNoFirst(k) ==
    /\ firstKey' = k
    /\ lastKey' = k
    /\ prevKey' = k
    /\ allKeys' = IF opts.bloom THEN Append(allKeys, k) ELSE allKeys
    /\ keyCount' = keyCount + 1

\* The bookkeeping every accepted add does before it touches the block.
Track(k) ==
    /\ firstKey' = IF firstKey = NoKey THEN k ELSE firstKey
    /\ lastKey' = k
    /\ prevKey' = k
    /\ allKeys' = IF opts.bloom THEN Append(allKeys, k) ELSE allKeys
    /\ keyCount' = keyCount + 1

\* add, into the current block or - when that is full - into a fresh one.
Add(k, v) ==
    /\ CanCall /\ calls < MaxAdds
    /\ OrderError(k) = "Ok"
    /\ Track(k)
    /\ IF IsFull(cur, k, v)
       THEN /\ blocks' = Append(blocks, FlushedBlock)
            /\ fstEntries' = Append(fstEntries, FlushedFst)
            /\ offset' = FlushedOffset
            /\ cur' = FreshBlockWith(k, v)
       ELSE /\ cur' = AddToBlock(cur, k, v)
            /\ UNCHANGED <<blocks, fstEntries, offset>>
    /\ result' = "Ok"
    /\ calls' = calls + 1
    /\ added' = Append(added, Entry(k, v))
    /\ UNCHANGED <<opts, segment>>

\* finish_impl; the writer is consumed, so its fields no longer matter.
FinishImpl ==
    /\ IF FstBuildFails(AllFst)
       THEN result' = "FstBuildError" /\ UNCHANGED segment
       ELSE /\ result' = "Finished"
            /\ \E filter \in Filters : segment' = Assemble(filter)
    /\ UNCHANGED <<opts, writer, added, calls>>

Finish ==
    /\ CanCall
    /\ firstKey # NoKey
    /\ FinishImpl

\* finish on a writer without entries.
FinishEmpty ==
    /\ CanCall
    /\ firstKey = NoKey
    /\ result' = "EmptySegment"
    /\ UNCHANGED <<opts, writer, segment, added, calls>>

FinishAllowEmpty == CanCall /\ FinishImpl

Next ==
    \/ \E k \in Key, v \in Value : AddRefused(k, v)
    \/ \E k \in Key, v \in Value : Add(k, v)
    \/ Finish
    \/ FinishEmpty
    \/ FinishAllowEmpty

Spec == Init /\ [][Next]_vars

-----------------------------------------------------------------------------
(* Properties.                                                             *)

EntryType == [key : Key, val : Value]
BlockType == [off : Nat, len : Nat, entries : Seq(EntryType)]
FstType   == [key : Key, off : Nat]

TypeOK ==
    /\ opts \in Options
    /\ blocks \in Seq(BlockType)
    /\ fstEntries \in Seq(FstType)
    /\ allKeys \in Seq(Key)
    /\ cur \in [entries : Seq(EntryType), buf : Nat, restarts : Nat,
                sinceRestart : Nat]
    /\ offset \in Nat /\ keyCount \in Nat /\ calls \in Nat
    /\ {firstKey, lastKey, prevKey} \subseteq Key \cup {NoKey}
    /\ added \in Seq(EntryType)
    /\ result \in {"Ok", "KeysOutOfOrder", "DuplicateKey", "EmptySegment",
                   "FstBuildError", "Finished"}

IsFinished == result = "Finished"

\* What a lookup of key must answer: the value added for it, or nothing.
Added(key) == {i \in DOMAIN added : added[i].key = key}
Expected(key) == IF Added(key) = {} THEN NotFound
                 ELSE added[LeastOf(Added(key))].val

\* Every lookup on a finished segment - present keys, absent keys that fall
\* before, between and after blocks, bloom false positives - answers exactly
\* what was added, and never an error (writer.rs add/flush against
\* reader.rs SegmentReader::get).
LookupCorrect == IsFinished => \A k \in Key : Get(segment, k) = Expected(k)

\* SegmentReader::iter: the blocks in directory order.
IterSeq == FlattenSeq([i \in DOMAIN segment.fst |->
              segment.blocks[CHOOSE b \in BlocksAt(segment, segment.fst[i].off,
                  FindBlockEnd(segment.fst, segment.fst[i].off,
                               segment.footer.dataLen)) : TRUE].entries])

\* Iterating a finished segment yields the added entries, each once, in order:
\* merge_segments relies on it (reader.rs SegmentReader::iter).
IterCorrect == IsFinished => IterSeq = added

\* The sections tile the object without gap or overlap, the footer passes the
\* reader's validation, and every directory entry's byte range is one whole
\* block (writer.rs offsets against reader.rs validate/find_block_end).
SectionsTile ==
    IsFinished =>
      LET f == segment.footer
      IN  /\ ValidateFooterOffsets(f, segment.size - FooterSize)
          /\ f.bloomOff = f.dataLen
          /\ f.fstOff = f.bloomOff + f.bloomLen
          /\ f.fstOff + f.fstLen + FooterSize = segment.size
          /\ Len(segment.fst) = Len(segment.blocks)
          /\ \A i \in DOMAIN segment.fst :
               BlocksAt(segment, segment.fst[i].off,
                        FindBlockEnd(segment.fst, segment.fst[i].off, f.dataLen)) = {i}

\* Whatever sequence of adds was accepted, finish never fails on the FST:
\* block-last keys ascend (writer.rs build_fst's error is unreachable).
FinishNeverFails == result # "FstBuildError"

\* A block with more than one entry outgrows block_size by at most the new
\* restart slot and the varint bytes the 5-byte estimate leaves out
\* (block.rs BlockBuilder::add).
MaxOvershoot == 4 + (15 - 5)
BlockSizeBound ==
    \A i \in DOMAIN AllBlocks :
        Len(AllBlocks[i].entries) > 1 =>
            AllBlocks[i].len <= opts.blockSize + MaxOvershoot

\* The manifest's view of the segment - key count, min and max key - agrees
\* with the entries that were accepted, also after refused adds
\* (writer.rs SegmentMeta, which routes lookups).
MetaMatches ==
    IsFinished =>
      /\ segment.footer.keyCount = Len(added)
      /\ added # <<>> => /\ segment.minKey = added[1].key
                         /\ segment.maxKey = Last(added).key

-----------------------------------------------------------------------------
(* The inductive invariant.                                                *)

\* Where the entries accepted so far are: in a finished block or in the
\* current one.
Holds(e) ==
    \/ \E i \in 1 .. Len(blocks) :
         \E m \in 1 .. Len(blocks[i].entries) : blocks[i].entries[m] = e
    \/ \E m \in 1 .. Len(cur.entries) : cur.entries[m] = e

\* The order check's reference is the last key of the current block, which is
\* empty only before the first add, and whose keys follow the directory's.
CurrentFollows ==
    /\ cur.entries = <<>> => blocks = <<>>
    /\ prevKey = IF cur.entries = <<>> THEN NoKey ELSE Last(cur.entries).key
    /\ Ascending(cur.entries)
    /\ \A i \in 1 .. Len(fstEntries) : \A m \in 1 .. Len(cur.entries) :
         fstEntries[i].key < cur.entries[m].key

\* No accepted entry is lost, none is made up, and the filter sees every key.
NothingLost ==
    /\ \A e \in EntryType : Holds(e) <=> \E n \in 1 .. Len(added) : added[n] = e
    /\ opts.bloom => \A n \in 1 .. Len(added) :
         \E j \in 1 .. Len(allKeys) : allKeys[j] = added[n].key

\* A finished segment is what finish_impl assembles from the writer's fields.
SegmentIsAssembled == IsFinished => \E filter \in Filters : segment = Assemble(filter)

\* After any sequence of accepted and refused adds, the finished blocks tile
\* the data section in key order, the current block continues them, every
\* accepted entry is in exactly these places and the filter's keys include it
\* (writer.rs add/flush_block): the reason why lookups are right.
WriterInvariant ==
    /\ TypeOK
    /\ Layout(blocks, fstEntries, offset)
    /\ CurrentFollows
    /\ NothingLost
    /\ SegmentIsAssembled
    /\ FinishNeverFails

=============================================================================
