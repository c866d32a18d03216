--------------------------- MODULE SegmentFormat ---------------------------
(***************************************************************************)
(* The immutable segment file and the pure read-side functions of          *)
(* pique-rs: src/format.rs, src/bloom.rs and the helpers of src/reader.rs. *)
(*                                                                         *)
(*   [ data blocks ][ bloom filter ][ FST directory ][ footer ]            *)
(*                                                                         *)
(* An object is a record                                                   *)
(*   blocks : the data blocks, each [off, len, entries], in file order     *)
(*   bloom  : [len, yes] - serialized length, and the keys for which the   *)
(*            filter answers "maybe" (a superset of the added keys)        *)
(*   fst    : the directory, [key, off] per block in FST (key) order       *)
(*   footer : the section offsets and lengths                              *)
(*   size   : total length in bytes                                        *)
(* Offsets and lengths are the code's byte counts.  The bytes of a block   *)
(* are represented by its entries; Block.tla models their encoding.        *)
(* Keys are natural numbers: the code only ever compares them.             *)
(***************************************************************************)
EXTENDS Integers, Sequences

CONSTANTS
    FooterSize,  \* FOOTER_SIZE, 64 in the code
    NotFound     \* Ok(None), the answer of a lookup that finds nothing

ASSUME FooterSizeAssumption == FooterSize \in Nat \ {0}

NoOffset == -1   \* find_block_for_key's None

\* Errors that the read side reports.
ReadErrors == {"InvalidBlockOffset", "ChecksumMismatch", "BlockTooSmall",
               "InvalidOffset", "TooSmall", "InvalidMagic", "UnsupportedVersion",
               "FooterChecksumMismatch", "TailTooSmall", "FstError", "Storage"}

\* Wrong variant: a segment of another version is not one to rebuild.
IsCorruptionNoVersion(err) ==
    err \in {"InvalidBlockOffset", "ChecksumMismatch", "BlockTooSmall",
             "InvalidOffset", "TooSmall", "InvalidMagic",
             "FooterChecksumMismatch", "FstError"}

\* ReaderError::is_corruption: the caller falls back to the source of truth.
IsCorruption(err) ==
    err \in {"InvalidBlockOffset", "ChecksumMismatch", "BlockTooSmall",
             "InvalidOffset", "TooSmall", "InvalidMagic", "UnsupportedVersion",
             "FooterChecksumMismatch", "FstError"}

-----------------------------------------------------------------------------
(* Bloom filter.  No filter bytes means "check the blocks".                *)

MightContain(bloom, key) == bloom.len = 0 \/ key \in bloom.yes

(* FST directory: last key of a block -> offset of the block.              *)

\* Wrong variant: strictly after the target.
ReachingPast(fst, key) == {i \in DOMAIN fst : fst[i].key > key}

\* fst.range().ge(key)
Reaching(fst, key) == {i \in DOMAIN fst : fst[i].key >= key}

LeastOf(S) == CHOOSE i \in S : \A j \in S : i <= j

\* The first directory entry whose key is >= the target.
FindBlockForKey(fst, key) ==
    IF Reaching(fst, key) = {} THEN NoOffset
    ELSE fst[LeastOf(Reaching(fst, key))].off

\* Wrong variant: a block ends where the data section ends.
FindBlockEndLast(fst, off, dataEnd) == dataEnd

\* The offset that follows block_offset in the directory, or the end of data.
FindBlockEnd(fst, off, dataEnd) ==
    LET at == {i \in DOMAIN fst : fst[i].off = off}
    IN  IF at # {} /\ LeastOf(at) < Len(fst)
        THEN fst[LeastOf(at) + 1].off
        ELSE dataEnd

-----------------------------------------------------------------------------
(* Footer.                                                                 *)

\* Sections must end before the footer; an empty section is not checked.
ValidateFooterOffsets(footer, contentEnd) ==
    /\ footer.dataLen <= contentEnd
    /\ footer.bloomLen > 0 => footer.bloomOff + footer.bloomLen <= contentEnd
    /\ footer.fstLen > 0 => footer.fstOff + footer.fstLen <= contentEnd

-----------------------------------------------------------------------------
(* Blocks.                                                                 *)

\* The block that occupies exactly bytes [start, end) of an object.
BlocksAt(obj, start, end) ==
    {i \in DOMAIN obj.blocks : /\ obj.blocks[i].off = start
                               /\ obj.blocks[i].off + obj.blocks[i].len = end}

\* Wrong variant: the scan stops at the first key that is not smaller.
BlockHitsCeil(entries, key) == {j \in DOMAIN entries : entries[j].key >= key}

\* The scan returns on an equal key.
BlockHits(entries, key) == {j \in DOMAIN entries : entries[j].key = key}

\* BlockReader::open and ::get on the bytes [start, end) of obj: bytes that
\* are not one whole block fail the CRC.
BlockGet(obj, start, end, key) ==
    IF end - start < 8 THEN "BlockTooSmall"
    ELSE IF BlocksAt(obj, start, end) = {} THEN "ChecksumMismatch"
    ELSE LET entries == obj.blocks[CHOOSE i \in BlocksAt(obj, start, end) : TRUE].entries
             hits    == BlockHits(entries, key)
         IN  IF hits = {} THEN NotFound ELSE entries[LeastOf(hits)].val

\* block_byte_range / read_block, then the block lookup on the bytes of obj.
LookupIn(obj, fst, dataLen, off, key) ==
    IF off >= dataLen THEN "InvalidBlockOffset"
    ELSE BlockGet(obj, off, FindBlockEnd(fst, off, dataLen), key)

\* SegmentReader::get: bloom, directory, block.
Get(obj, key) ==
    LET off == FindBlockForKey(obj.fst, key)
    IN  IF ~ MightContain(obj.bloom, key) \/ off = NoOffset THEN NotFound
        ELSE LookupIn(obj, obj.fst, obj.footer.dataLen, off, key)

-----------------------------------------------------------------------------
(* Well-formed data sections, for the properties and the proofs.           *)

\* Keys of a block strictly ascend.
Ascending(entries) ==
    \A i, j \in 1 .. Len(entries) : i < j => entries[i].key < entries[j].key

\* A block: where it lies, and its entries.
IsBlock(b) ==
    /\ b.off \in Nat /\ b.len \in Nat /\ b.len >= 8
    /\ Len(b.entries) \in Nat \ {0}
    /\ DOMAIN b.entries = 1 .. Len(b.entries)
    /\ \A m \in 1 .. Len(b.entries) : b.entries[m].key \in Nat
    /\ Ascending(b.entries)

\* Blocks bs with directory fs, in a data section that ends at byte end: the
\* directory names the last key and the offset of each block, blocks follow
\* each other without gap, and the keys of a block follow those of the blocks
\* before it.
Layout(bs, fs, end) ==
    /\ Len(bs) \in Nat /\ DOMAIN bs = 1 .. Len(bs)
    /\ Len(fs) = Len(bs) /\ DOMAIN fs = DOMAIN bs
    /\ end \in Nat
    /\ \A i \in 1 .. Len(bs) :
         /\ IsBlock(bs[i])
         /\ fs[i].key = bs[i].entries[Len(bs[i].entries)].key
         /\ fs[i].off = bs[i].off
         /\ bs[i].off + bs[i].len = IF i = Len(bs) THEN end ELSE bs[i + 1].off
    /\ \A i, j \in 1 .. Len(bs) : i < j => bs[i].off + bs[i].len <= bs[j].off
    /\ \A i, j \in 1 .. Len(bs) : i < j =>
         \A m \in 1 .. Len(bs[j].entries) : fs[i].key < bs[j].entries[m].key

\* The filter answers "maybe" for every key of the blocks (bloom.rs: no false
\* negatives).
Covers(bloom, bs) ==
    \A i \in 1 .. Len(bs) : \A m \in 1 .. Len(bs[i].entries) :
        MightContain(bloom, bs[i].entries[m].key)

\* A complete segment: the data, its filter, its directory and the footer, one
\* behind the other (writer.rs finish_impl).
WellFormed(obj) ==
    LET f == obj.footer
    IN  /\ Layout(obj.blocks, obj.fst, f.dataLen)
        /\ Covers(obj.bloom, obj.blocks)
        /\ obj.bloom.len \in Nat /\ f.fstLen \in Nat
        /\ f.bloomOff = f.dataLen /\ f.bloomLen = obj.bloom.len
        /\ f.fstOff = f.bloomOff + f.bloomLen
        /\ obj.size = f.fstOff + f.fstLen + FooterSize

=============================================================================
