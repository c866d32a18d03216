# Verification of pique-rs

pique-rs stores key-value indexes as immutable *segments* in object storage: a
writer turns sorted keys into one file of prefix-compressed blocks, a bloom
filter, an FST directory and a 64-byte footer; readers answer lookups from
memory or with one ranged request per key; a layered index stacks small delta
segments, with tombstones, over a base and merges them in the background.

This directory holds TLA+ models of that code, the TLC configurations that
check them on small instances, and TLAPS proofs of what matters most for every
instance. Paths below are relative to the repository.

1. [Inventory](#1-inventory) - parts, state, interactions, what is hard
2. [Modules](#2-modules) - how state and actions correspond to the code
3. [Runs](#3-runs) - what each run asks, its bounds, what it shows
4. [Disagreements](#4-disagreements) between code and its own words
5. [Proofs](#5-proofs) - statements, assumptions, argument
6. [Not modelled](#6-not-modelled) and the modelling assumptions
7. [Plan](#7-plan) for what is left

## 1. Inventory

| Part | Source | State | Operations | What makes it correct |
|---|---|---|---|---|
| Block codec | `src/block.rs` | builder: buffer, restart offsets, last key, entries since restart; reader: a byte slice | `BlockBuilder::{add, finish}`, `BlockReader::{open, get, iter}` | prefix compression is undone exactly; the binary search over restart points plus one interval's scan finds every key and nothing else; a block stays near `max_block_size` |
| Bloom filter | `src/bloom.rs` | XOR8 fingerprints, immutable | `build_filter`, `might_contain`, (de)serialization | no false negative; no filter means "check the blocks" |
| Segment format | `src/format.rs` | the footer | encode, decode | sections tile the file and lie before the footer |
| Segment writer | `src/writer.rs` | data blocks, directory entries, current block, offsets, key bookkeeping | `add`, `finish`, `finish_allow_empty` | unsorted adds are refused without effect; nothing accepted is lost at a block boundary; directory, metadata and filter agree with the blocks |
| Segment reader | `src/reader.rs` | bytes, directory, filter | `open`, `get`, `iter` | every lookup answers what was added |
| Remote reader | `src/reader.rs` | cached footer, directory, filter, `segment_size` | `open` (size, tail, one re-read), `get` (one range) | metadata of one object only; any budget; a changed object yields an error or a value that really was stored |
| Storage | `src/storage.rs` | the objects | `read_range`, `read_tail`, `object_size`, `read_all`, `put`, `delete` | the two backends differ at the ends of an object, and readers cope with both |
| Layered index | `src/layered.rs` | manifest, open segments | readers, `merge_segments`, `should_merge`, `all_paths` | newest wins, tombstones hide, merging is invisible, deletion hits only superseded files |
| Partitioned index | `src/partitioned.rs` | the manifest's `max_key` list | `compute_partition_boundaries`, `build_partition`, `find_partition` | a key is looked up where the builder put it |
| Secondary index | `src/secondary.rs` | locations per key | `add_location`, `finish`, `key_count`, `total_locations` | one entry per key with its locations in the order they came, none lost |
| Statistics | `src/stats.rs` | column statistics per row group and file | `add_row_group`, `query_overlap`, counters | pruning never loses a row group that holds a matching row |
| Values | `src/values/*.rs` | none | encode, decode | decoding inverts encoding, within the 16-bit widths; bytes that are not an encoding are refused |

**How they interact.** `SegmentWriter` drives a `BlockBuilder` and, at the end,
the filter and FST builders; a segment is then only ever read. The in-memory
and the remote reader share the directory and footer helpers of `reader.rs` and
the `BlockReader`. A remote reader calls its `StorageBackend` - an await each
time, between which any other client of the store may overwrite or delete the
object. `RemoteLayeredReader` walks a list of remote readers, newest first.
`merge_segments` reads whole segments in memory and drives a new writer. Who
uploads segments, swaps the manifest and deletes merged files is *not* in the
crate; the docs of `layered.rs` say what that service does. Neither is the query
planner that, by the head comment of `stats.rs`, intersects the row groups of
`query_overlap` with the locations of a secondary index.

**What is hard.** There are no threads or locks; concurrency is between
clients of object storage. The hazards (`PROJECT.json`, "hazards", each with
its line and properties) fall into these groups:

* *block boundaries* of the writer - the entry that finds the block full, the
  directory key and offset taken at a flush, refused adds in between;
* *lookups at edges* - before the first key, between blocks, at a restart
  point, a bloom false positive, an empty segment;
* *an object that changes under a reader*, between the requests of an open or
  between open and get;
* *layers* - deltas pushed during a merge, files deleted under a reader,
  fold order, tombstones;
* *routing* - a key at the border of two partitions, keys that are not UTF-8;
* *pruning and posting* - row groups written again or without statistics,
  postings of several row groups interleaved;
* *bytes* - counts that wrap at 16 bits, values cut short, a segment with a
  damaged part.

## 2. Modules

```
SegmentFormat          format.rs, bloom.rs, the shared helpers of reader.rs
 |-- Segment           writer.rs + the block builder's sizes
 |    `-- SegmentDamage  a damaged segment under the reader    <- MCSegment
 |         `-- SegmentProofs (also EXTENDS SegmentFormatProofs)
 |-- SegmentFormatProofs
 `-- RemoteReader      reader.rs (remote) + storage.rs         <- MCRemote
      `-- RemoteReaderProofs (also EXTENDS SegmentFormatProofs)
Block                  block.rs, byte strings                  <- MCBlock
 `-- BlockProofs
Partitions             partitioned.rs                          <- MCPartitions
 `-- PartitionsProofs
AbstractIndex          what the docs of layered.rs promise
 `-- LayeredIndex      layered.rs, INSTANCEs AbstractIndex     <- MCLayered
      `-- LayeredIndexProofs
Values                 values/*.rs, byte by byte
 |-- ValueCodec        the life of one value (also Varint:
 |    |                the varints of block.rs)                <- MCValues
 |    `-- ValuesProofs
 `-- Secondary         secondary.rs
Stats                  stats.rs
 `-- Planner           Stats and Secondary composed            <- MCPlanner
      `-- PlannerProofs  (of Stats alone, too; also EXTENDS ValuesProofs)
```

**SegmentFormat** defines an object as a record `[blocks, bloom, fst, footer,
size]` with the code's byte offsets, and the pure read functions: `Reaching`/
`FindBlockForKey` (FST `range().ge(key)`), `FindBlockEnd`,
`ValidateFooterOffsets`, `BlockGet`, `LookupIn`, `Get`. The content of a byte
range is decided by position: bytes that are not exactly one block of the
object fail the CRC. Keys are naturals because this code only compares them.
The last section defines what a well-formed data section (`Layout`) and a complete
segment (`WellFormed`) are.

**Segment** is the life of one `SegmentWriter`. The variables are its fields
(`cur` is `current_block`, `offset` is `current_offset`, `firstKey = NoKey` is
`has_entries = false`), plus the history `added`. Actions: `AddRefused` (early
returns of the order check), `Add` (bookkeeping, then the current block, or the
flush of a full block *and* the second attempt, in one step like the method),
`Finish`, `FinishEmpty`, `FinishAllowEmpty`. Block sizes count real bytes -
varints, restart slots, trailer - because they decide where blocks end.
A filter is any superset of the added keys, so every false positive is covered.

**SegmentDamage** continues a finished writer: `Store` is the file on disk,
`AnyFault` what storage may do to it (a lost end, footer bytes, lengths and
offsets, the filter, a directory entry or its header, a block), and `OpenError`
and `FileGet` are `SegmentReader::open` and `get` on what is left, in the order
of their checks. A slice outside the file is the answer "Panic".

**Block** models the encoding inside a block on byte strings: what `shared`,
`suffix` and the restart offsets are, how `BlockReader::get` searches
(`FindRestart` is the loop over `lo`, `hi`, 0-based as in the code) and scans,
and how `iter` rebuilds keys.

**RemoteReader** is one `RemoteSegmentReader` and its path. `OpenSize`,
`OpenTail`, `OpenReread`, `GetBlock` are one storage request each together
with the synchronous code up to the next await; `StartGet` is the part of `get`
before its request. `Put` and `Delete` are other clients, enabled between any
two requests. `TailLength` and `RangeEnd` describe the backends: the local one
refuses a range beyond the file, S3 truncates it. The local `put` truncates the
file before it writes: a `Put` of `ZeroBytes` before the other. `seen` is the set of objects
the path has held since this open began; `Unmodified` says that it is one.

**AbstractIndex** is a versioned map: pushes and reindexes change `db`, an open
takes a version, a get answers from that version or fails with a storage error.
**LayeredIndex** implements it with segments (maps, since `Segment` shows that
lookups are exactly that), a manifest, readers that take one segment per step,
`merge_segments` as `StartMerge`, `LoadSegment` (one `read_all` each, which finds
the file gone when a reindex came first), `MergeStep` (one round of the fold),
`MergeDone`/`MergeFails` (`finish`), and the surrounding service: `PushDelta`,
`Reindex`, `Publish`, `AbandonMerge`, `Collect`. The refinement mapping is
`db <- Db` (the view of the manifest's segments) and `view <- Snapshot` (the
view of the list a reader was opened with).

**Partitions** is one partitioned index from stream to lookups: `Cuts` (the
coordinator), `BuildPartition` (one builder, in any order), `Publish` (the
manifest), `Lookup` (`find_partition`, then the segment). Keys are naturals in
byte order of which some are not UTF-8; `Lossy` and `KeyString` are the two
conversions of the code. `Found` is the set of results `binary_search_by` may
give: exact on a sorted list, and on the unsorted one that lossy conversion can
produce, any index whose neighbours allow it.

**Values** has an encoder and a decoder (`Put...`, `Read...`) for each type of
`src/values`, on sequences of bytes; counts and lengths are truncated where the
code casts them. **Varint** has those of the numbers in a block entry.
**ValueCodec** is the way of one value: encoded, then perhaps cut or changed, then
read by a layered reader (which takes one byte 0xFF for a tombstone) and decoded.

**Stats** is one `StatsManifest` and the row groups that it describes: `ListRowGroup`
is the write of a row group and `add_row_group`, `DeleteFile` a deletion that the
manifest never hears of. `encode` is how the consumer turned values into bytes.
`query_overlap` is the operator `QueryOverlap`. **Secondary** is one
`SecondaryIndexWriter` with `AddLocation` and `Finish`; the segment it writes is
the map that `Segment` shows a finished writer to be, from keys to the bytes that
`Values` encodes. **Planner** composes the two: an indexer lists row groups and
queues their postings, which arrive in any order, and `Plan` intersects both
results.

The definitions commented "Wrong variant" are plausible mistakes (a swapped
order, a missing term, an off-by-one). No specification uses them; replacing
the definition after them by the variant makes TLC report a violation of the
property listed with it in `PROJECT.json` ("mutants"), which shows that the
property can tell the difference.

## 3. Runs

| Run | Question | Bounds |
|---|---|---|
| `segment` | Is every segment a writer can produce read back exactly, with tiled sections, right metadata and bounded blocks? And what does a reader say when one part of it is damaged? | all sequences of up to 5 adds (any order, so refusals too) over 5 keys of different lengths and 2 values; 3 option sets; one fault per segment (`MaxFaults`) |
| `block` | Do compression and restart search agree with the entries? | 15 byte strings (length 0 to 3 over two bytes), ascending sequences of up to 5; intervals 0, 2, 3; a block size that fills and one that does not |
| `remote` | What can a reader see when its object changes? | 6 objects, any change between any two requests, 4 budgets, both backends, one reader, any number of gets, closes and opens |
| `layered` | Do layers, merges and deletions implement the versioned map, and does every get return? | 4 files over 2 keys, 2 values and tombstones; one reader, one merger |
| `partitions` | Does routing through the manifest agree with one big segment? | sorted streams of up to 4 out of 6 keys (2 not UTF-8, duplicates allowed), every cut, every order of the builders |
| `planner` | Can a query plan miss a stored row? | 2 row groups listed (`MaxAdds`), of 3 kinds, in 2 files with 2 row groups each, any subset of the columns with statistics, any order of postings and deletions; big- and little-endian bytes |
| `values` | Which values come back, and which bytes are refused? | base 4 for 256: a u16 counts to 15, a u32 to 255; lists of 15, 16 and 17 elements; every cut, every changed byte, every string of up to 6 bytes; varints of 3 groups with a limit inside the third |
| `layered_empty_merge`, `layered_open`, `remote_replaced`, `partitions_bytes`, `segment_damage_panics` | see section 4; each refutes one statement | |

*Why the bounds are enough.* In `segment`, the block sizes make a block hold
one to four entries, so a behaviour has no flush, one, or several, with a large
entry arriving at every fill level; 5 keys allow an absent key before, between
and after the blocks. `restartInterval = 0` is the clamped case. The proofs of
section 5 remove these bounds for lookups. In `block`, five entries give up to
three restart points, on each of which the binary search can stop, and 15 keys
include proper prefixes and extensions of present ones. In `remote`, segments A
and B have the same size and boundaries but split the keys differently (the
CRC cannot tell them apart), C and D have other boundaries and sizes, E is
empty, and one object has no bytes; the budgets are less than a footer, the footer
alone, footer and directory, and more than any object. In `layered`, four files suffice for
base, delta, merge or reindex, and a push on top of a merge that has started;
`MaxDeltaCount = 2` (10 in the code) lets the count trigger fire, `SegmentOverhead`
lets the ratio trigger fire separately. In `partitions`, four keys in up to four
slices put a lookup at, below and above each `max_key`, and the two keys that
are not UTF-8 lie between the others, so that their replacement character
exceeds a later `max_key`. A fault puts a number inside the first blocks, behind
them or beyond the file, so that a range can be inverted, misplaced or too long.
In `planner`, two adds suffice for two files, two row groups of one file, or one
row group written twice; the values take two digits, which little-endian bytes
order wrongly. In `values`, scaling the base keeps every comparison of the code: a
count fits, is the first that does not, or wraps to a small one; four byte values
are an ASCII one, the two halves of a longer character, and one that is neither
(also the tombstone). The half-used third group of a varint stands for the fifth
one of the code, which has 4 of its 7 bits.

*Properties worth reading first.* `LookupCorrect` and `IterCorrect` (nothing is
lost or made up on the way through the file), `GetCorrect` (the same inside a
block), `OpenCoherent` (metadata is never mixed from two objects),
`ValuesAreReal` and `CorruptionMeansRewritten` (what a changed object can and
cannot do), `AnswerIsSnapshot`, `ErrorMeansSuperseded`, `MergeInvisible` and
`ImplementsAbstract` (the layered index as its user sees it), `PlanComplete` (no row
lost between two indexes and a rewritten file), `RoundTripExactlyWhenFits` (exactly
where the encodings stop being invertible), `DamageNeverLies` (which of a segment's
parts can hide a key when damaged, and that none can invent a value).

*Deadlock* is checked in the `remote` runs, where something can always happen.
A writer, a builder, a value that is read once and a finite supply of paths do
stop, so the other runs switch it off.

*Fairness.* Only `layered` assumes any, for `GetReturns`: weak fairness of `GetProgress`
for each reader, that is, a get that is polled proceeds - each storage request
is eventually answered, by data or an error (`object_store` requests end or
time out) - and the loop body between two awaits terminates. Writers, merges
and collectors need not run at all, and `Close` is only possible between gets.

## 4. Disagreements

Five runs end in a violation. Each checks one statement of the repository that
the code does not keep; `PROJECT.json` ("findings") quotes the lines.

* `layered_empty_merge`: merging an index whose keys are all deleted fails -
  `SegmentWriter::finish` refuses an empty segment and `merge_segments` maps
  that to `FstError`, which `is_corruption` counts as damage.
* `layered_open`: `RemoteLayeredReader::open` is a placeholder that returns a
  reader without segments; every get then answers `None`.
* `remote_replaced`: when a segment is replaced under an open reader by one
  with a whole block at the cached range, the block's CRC is right and a key
  that both versions hold can be answered `None`; `tests/corruption.rs` says
  that the block CRC catches a replacement.
* `partitions_bytes`: keys are bytes, but the manifest holds strings; a stored key
  that is not UTF-8 is routed to the first partition and not found there.
* `segment_damage_panics`: `read_block` slices the file by the offsets of the
  directory, which nothing verifies; one wrong offset gives a range outside the
  file, and the slice panics. So does `open` on a footer with an empty directory
  at an offset beyond the file. `tests/corruption.rs` says that pique never panics on
  corrupt data; its directory test zeroes the whole directory.

The properties of the passing runs say what does hold instead. On a replaced
object values are real (`ValuesAreReal`) even where "not found" is not. On a damaged
one, too, and only a damaged directory or a damaged filter that still loads hides
a key (`DamageNeverLies`). `UnmodifiedOpens` and `CorruptionMeansRewritten` have the
premise `budget >= FooterSize`: below it `open` fails with `TooSmall`, which counts as
corruption of an intact segment, although the default budget is documented as "not a
correctness cap". `NoFalseNegative` and `PlanComplete` have the premise
`OrderPreserving`: `stats.rs` asks for byte-comparable predicates (line 94), but
describes the column bounds as "raw bytes, Parquet encoding" (line 65), and Parquet
stores integers little-endian; with such bounds `AlwaysFound` is false.

## 5. Proofs

`tlapm` on the eight `*Proofs.tla` modules checks everything in this section. The
constants are arbitrary: any keys, values, lengths, segments, budgets and thresholds,
any set of option records, any number of adds, faults, files and readers.

| Theorem | Statement |
|---|---|
| `SegmentFormatProofs!GetPresent` | On any laid-out data section whose filter covers its keys, a lookup of a stored key returns its value |
| `SegmentFormatProofs!GetAbsent` | ... and of any other key, `NotFound`, whatever the filter says |
| `SegmentProofs!SegmentTypeOK` | `Spec => []TypeOK` |
| `SegmentProofs!SegmentInvariant` | `Spec => []WriterInvariant` |
| `SegmentProofs!SegmentFinishNeverFails` | `Spec => []FinishNeverFails`: the FST error of `finish` is unreachable |
| `SegmentProofs!SegmentLookupCorrect` | `Spec => []LookupCorrect` |
| `SegmentProofs!SegmentSectionsTile` | `Spec => []SectionsTile` |
| `SegmentProofs!SegmentMetaMatches` | `Spec => []MetaMatches` |
| `SegmentProofs!SegmentIterCorrect` | `Spec => []IterCorrect` |
| `SegmentProofs!SegmentBlockSizeBound` | `Spec => []BlockSizeBound`: the bound of 14 bytes holds for any lengths |
| `SegmentProofs!DamageNeverLiesHolds` | `DamageSpec => []DamageNeverLies` |
| `SegmentProofs!DamageContainedHolds` | `DamageSpec => []DamageContained` |
| `SegmentProofs!SegmentWellFormed` | `Spec => [](IsFinished => WellFormed(segment))`: what `RemoteReader` assumes of stored objects |
| `BlockProofs!BlockInvariant` | `Spec => []BlockInv` |
| `BlockProofs!BlockTypeOK` | `Spec => []TypeOK` |
| `BlockProofs!BlockIterCorrect` | `Spec => []IterCorrect`: prefix compression is undone exactly |
| `BlockProofs!BlockGetCorrect` | `Spec => []GetCorrect`: the search finds every added key and no other |
| `BlockProofs!BlockRestartsRegular` | `Spec => []RestartsRegular` |
| `BlockProofs!BlockSizeBound` | `Spec => []SizeBound` if keys and values are below 128 bytes |
| `BlockProofs!BlockSizeSlack` | ... and with 10 bytes for 2 whatever they are |
| `RemoteReaderProofs!RemoteInvariant` | `Spec => []IInv` |
| `RemoteReaderProofs!RemoteTypeCorrect` | `Spec => []TypeOK` |
| `RemoteReaderProofs!RemoteOpenCoherent` | `Spec => []OpenCoherent`: no metadata mixed from two objects |
| `RemoteReaderProofs!RemoteUnmodifiedOpens` | `Spec => []UnmodifiedOpens` |
| `RemoteReaderProofs!RemoteTailTooSmall` | `Spec => []TailTooSmallMeansRewritten` |
| `RemoteReaderProofs!RemoteGetCorrect` | `Spec => []UnmodifiedGetCorrect` |
| `RemoteReaderProofs!RemoteValuesAreReal` | `Spec => []ValuesAreReal` |
| `RemoteReaderProofs!RemoteCorruption` | `Spec => []CorruptionMeansRewritten` |
| `LayeredIndexProofs!Invariant` | `Spec => []IInv` |
| `LayeredIndexProofs!TypeCorrect` | `Spec => []TypeOK` |
| `LayeredIndexProofs!ManifestAlwaysLive` | `Spec => []ManifestLive` |
| `LayeredIndexProofs!MergeCorrect` | `Spec => []MergedIsView` |
| `LayeredIndexProofs!SnapshotReads` | `Spec => []AnswerIsSnapshot` |
| `LayeredIndexProofs!ErrorsOnlyWhenSuperseded` | `Spec => []ErrorMeansSuperseded` |
| `LayeredIndexProofs!MergesAreInvisible` | `Spec => MergeInvisible`, an action property |
| `LayeredIndexProofs!Refinement` | `Spec => ImplementsAbstract`: the refinement of `AbstractIndex` |
| `PartitionsProofs!PartitionsInvariant` | `Spec => []RoutingInvariant` |
| `PartitionsProofs!PartitionsLookupRight` | `Spec => []Utf8LookupRight` |
| `PlannerProofs!StatsInvariantHolds` | `StatsSpec => []StatsInvariant`: stored row groups are described by a listed entry |
| `PlannerProofs!StatsNoFalseNegative` | `StatsSpec => []NoFalseNegative` |
| `PlannerProofs!PlannerNoFalseNegative` | `PlannerSpec => []NoFalseNegative` |
| `PlannerProofs!StatsManifestMatchesAdds`, `PlannerManifestMatchesAdds` | `StatsSpec => []ManifestMatchesAdds`, and of `PlannerSpec` |
| `PlannerProofs!PlannerTypes` | `PlannerSpec => []PlannerTypeOK` |
| `ValuesProofs!RoundTrips` | `Spec => []RoundTripExactlyWhenFits`: lists of any length, strings of any content |
| `ValuesProofs!CutsAreRejected` | `Spec => []CutRejected` |
| `ValuesProofs!DecodersAreCanonical` | `Spec => []DecodeCanonical` |
| `ValuesProofs!LocationSetRoundTrip` | A `LocationSet` whose counts and paths fit decodes to itself, as `Secondary` uses it |
| `PlannerProofs!PlannerAccumulates` | `PlannerSpec => []Accumulated`: the secondary index writer holds what was added |
| `PlannerProofs!PlannerPostingsKept` | `PlannerSpec => [](PostingsFit => PostingsKept)` |
| `PlannerProofs!PlannerPosts` | `PlannerSpec => []Posted`: every stored row is queued or posted |
| `PlannerProofs!PlannerPlanComplete` | `PlannerSpec => [](PostingsFit => PlanComplete)` |

`PostingsFit` says that a key has fewer than 2^32 locations and a path fewer than 2^16
bytes; it is true in every state that `planner` checks. Beyond, `as u16` and `as u32`
cut the counts, and by `RoundTripExactlyWhenFits` something else is read back.

*Assumptions.* `FooterSizeAssumption` and, of `Segment`: `KeyAssumption` (keys
are naturals), `LengthAssumption` (lengths are naturals, a shared prefix is not
longer than the key), `OptionsAssumption` (the option records' types),
`AnswerAssumption` (a value is not an error); of `SegmentDamage`, that a panic is not
a value either (`FaultAssumption`). They are evaluated by TLC in `segment`. `Partitions` assumes sorted streams (`InputAssumption`), positive
partition sizes, and that `Lossy` leaves UTF-8 keys alone. `Stats` assumes that
values are naturals and rows, encodings and queries have their types; `Planner` that
the locations and encoded values it posts are among `Location` and `IndexKey`, and
`Secondary` that locations are byte strings that are UTF-8 with two u32
(`LocationAssumption`); `Values` that a byte has at least two values and that the bytes
of characters, kinds and relations are bytes (`ByteAssumption`); `Varint` that a group
has at least two values and that a u32 ends inside the last group, or at its end
(`VarintAssumption`: 4 of the 7 bits of the fifth); `ValueCodec` that what is encoded has
the Rust type of its encoder, without bounds on counts and lengths, and that what is
decoded consists of bytes (`InputAssumption`). That the
encoding keeps the order of values is no assumption but a premise of the property.
`RemoteReader` assumes that every stored object has no bytes or is a complete segment
(`ObjectsAssumption`) - `SegmentWellFormed` proves that of what the writer finishes -
and that values, "not found" and errors are told apart (`AnswersAssumption`).
`Block` assumes that bytes are at most 255 and that lengths, sizes and intervals are
naturals (`ByteAssumption`, `ValueLenAssumption`, `SizesAssumption`).
`LayeredIndex` assumes the types of the deltas and bases that are pushed, that a missing
object is not a segment, and positive bounds. TLC evaluates all of them.

*Argument.* `LookupCorrect` says nothing about an unfinished writer and is far
from inductive. `WriterInvariant` adds what `add` keeps true: the finished
blocks with their directory form a `Layout` - each directory entry is the
block's last key and offset, blocks follow each other without gap up to
`offset`, and a block's keys follow the directory key before it; the current
block continues this order and its last key is `prev_key`, the reference of the
order check (`CurrentFollows`); the entries in these places are those accepted,
and each of their keys is in `all_keys` (`NothingLost`). A flush extends a
layout by one block (`LayoutAppend`, `FlushExtends`); a refused add and `finish`
change none of it (`QuietStep`, `FinishStep`). The read side is separate from
the writer: in a layout the directory ascends (`DirectoryAscends`), so the least
entry that reaches a key is the only block that can hold it (`DirectoryFinds`),
the next directory offset ends exactly that block (`RangeIsBlock`), and the scan
of that block decides (`BlockSearch`). `SegmentLookupCorrect` puts both
together: a finished segment is assembled from a layout, its filter is a
superset of `all_keys` (`FilterCovers`). `SectionsTile` follows from the same layout.
`MetaMatches` needs `Bookkeeping` (counter, first and last key follow `added`), and
`BlockSizeBound` the invariant `SmallBlocks`: every block of several entries, also the
current one, is within the bound, because `IsFull` charges an entry 5 bytes for three
varints that may take 15, and one restart slot of 4 may be added. `IterCorrect` needs
`InOrder`: what the blocks hold ahead of each block, joined, is a prefix of `added`, and
the current block is the rest. These prefixes satisfy the recursion of `FlattenSeq`
(`FlattenIs`), and by `SectionsTile` the iterator fetches each block once.

Damage changes no variable of the writer, so all this holds under it
(`DamageDrivesWriter`). `DamageIsRecorded` says which parts of the file are still those
of the segment: directory and filter unless a fault names them, footer and length when
only blocks were hit. Whatever range a reader then slices, it holds one whole block of
the segment or fails the CRC (`BlockGetHonest`), so a value found there is the one added
for the key. With the directory intact the range starts at the block of the key, and no
other block starts there (`OffsetsDiffer`), so a wrong end is a CRC error and never a
miss.

`BlockInv` relates a block's entries to the keys that were added: entry j restores the
j-th key from the one before it (`Encoded`), keys and positions ascend (`Ordered`,
`Positioned`), restart r is entry (r - 1) * interval + 1 with its key in full
(`RestartsPlaced`), and the size is within the slack of `add`'s estimate (`SizeSlack`).
The order of byte strings is shown to be one (`LessTransitive`, `LessIrreflexive`, from
`LessIs`), and the shared prefix to be a prefix of both keys (`SharedPrefix`). Two
recursive functions of the reader are determined by giving a function that satisfies
the recursion and showing, at the least point where another one differs, that it does
not: the scan decodes the added keys from any entry with a full key on (`DecodedIs`),
and the search ends at the last restart before the target, or at the restart that is
the target (`FindRestartIs`; `SearchStep` is its loop body). A key that was added lies
behind that restart and before the next (`FoundInterval`), because the restarts are in
key order (`TargetDivides`).

For `RemoteReader`, none of the properties is inductive: they speak of the end of an
open or a get and say nothing of what the reader knows between two requests. `IInv`
does. The recorded size is that of a segment the path held (`SizeInv`), so if the object
at hand has another one, there were two (`AtTail`, `Rewritten`); a tail that parses has
the recorded size (`ParseOutcome`), hence metadata is that of the present object; a tail
of the present object that does not parse only misses the filter (`IntactTail`), and the
re-read then reaches exactly to it (`RereadInv`). A get in flight holds the range of the
key's block in the cached directory (`BlockInv`); on the object it came from that range
is one whole block and the answer is `Get` (`RangeOfKey`, `RequestIsGet`), which
`GetPresent` and `GetAbsent` decide (`AnswerInv`); on any other object the block search
still compares the key (`SearchAnswers`), so a value is real, and an error means that
the two objects differ (`ErrorInv`). A put while a reader is open ends `Unmodified` for
good (`ChangeStep`).

For `LayeredIndex`, `StorageInv` says that paths are written once: an object is what was
written there or gone, every path that the manifest, a reader or the merger names has
been written, and the merged file is known to no one else until it is published. With it
the pushes, reindexes and deletions of others leave each actor's segments alone.
`MergerInv` is the loop invariant of `merge_segments`: `acc` is the view of the segments
behind `left` (`FoldedTo`, `FoldStep`), at the end the view of all (`FoldDone`), which is
what the upload writes. `ReaderInv` is that of `get`: no segment passed so far holds the
key. `AnswerIsSnapshot` and `ErrorMeansSuperseded` are then inductive relative to these.
For the refinement, a push overlays the abstract map (`DbPush`); a publication replaces
the oldest segments of the manifest by their view and leaves `Db` alone (`DbPublish`, by
`ViewConcat`: the view of a list is decided by the first part that holds the key); a
reader's steps map to asking, answering or a stutter (`ReaderRefines`).

For `Partitions`, `RoutingInvariant` says that the manifest lists the string of a
largest key of each slice (`BoundsSlice`), as the field `max_key` is documented, and not
how a builder picks it: that the key of the last add is the largest is
`LastIsLargest`. Over UTF-8 keys the string is the key itself. `FoundHolds` is the
heart: the key at position n is not before the slice found, because the
`max_key` before it is smaller, nor after it, because its `max_key` is not
smaller - for *every* result the binary search may give.

For `Stats`, `NoFalseNegative` relates what a query returns to what is stored now, and
the manifest does not forget: a row group written again has an older entry that says
nothing of its rows. `StoredIsListed` is the strengthening: among the entries of a
stored row group is one whose bounds cover the rows there now. A listing adds that
entry (`ListingDescribes`, `AddLists`) and keeps those of all others (`AddKeeps`);
deleting only empties. An entry that describes a row in the ranges overlaps them as
bytes (`DescribedIsCandidate`), by the premise, with or without statistics for a
column. `ManifestMatchesAdds` follows from `Mirror`, in which a file's row groups and
the running totals are given by witnesses: functions that satisfy the equations of the
recursion, as are `TotalRowGroups` and `ListedFor` (`TotalIs`, `ListedForIs`); an add
extends each witness by one value (`AddCounts`, `AddListsOnce`, `CollectsLonger`).
`Planner` inherits all of this because each of its steps is a step of `Stats` or
leaves its variables alone (`PlannerDrivesManifest`).

For `ValueCodec`, the state machine is short - `CodecInv` says that the bytes are the
encoding, or its start after a cut, and that a result is what the decoder says of them -
and the three properties are facts about encoders and decoders. For each kind of element
(a location, a path entry, an edge) three are shown: where its encoding stands in the
data, it is read back, with the position behind it (`ElementRoundTrip`); what is read is
an element within the limits whose encoding stands there (`ElementIsRead`); and longer
data are read the same way (`ElementIsReadLonger`). `HoldsAt` says that bytes stand at a
position. The same three are then shown of lists. The parts that `FlattenSeq` joins stand
one behind the other (`JoinsAreHeldInTurn`); the decoder's loop is a recursive function
over position and elements left, which has a witness (`RoundsExist`), and `RoundReads` and
`ReadIsChain` follow it from the last element to the first. A whole value is a head and
one or two lists (`StructureRoundTrip`, `StructureIsRead`, `StructureIsReadLonger`). So a
value that fits is read back; one that does not fit cannot be, because a decoder only
returns values that fit (`ProperIsFits`); an accepted cut would be an acceptance of the
whole that ends before the whole does; and an accepted value's encoding is where it was
read. A path entry is the exception: its kind may come from another byte.

Varints are numbers and their digits. What `encode_varint` writes are the digits of n,
all but the last with the continuation bit and none too many (`PutIsEncoded`), in no more
than the groups that n takes. What `decode_varint` adds up is the number that the groups
are the digits of (`NumberIs`: the part added so far and the weighted rest give the same
sum at every byte). It is below the limit exactly when the last group fits
(`BelowLimit`), and digits without a leading zero are unique (`ShortestUnique`).

Where an argument is an induction over elements, groups or numbers, the set of the numbers
for which it holds is shown to be closed under successor (`UpTo`, from the library's
induction over well-founded sets).

For `Secondary`, `Accumulated` says that the writer's list for a key is what an
accumulating function gathers from the history of adds for that key (`Gathers`), and
that its slots are as many as the adds; an add extends both by one
(`AddKeepsAccumulated`), whatever key came before. `PostingsKept` is this and the round
trip. `PlanComplete` needs in addition `Posted`: what the indexer has listed is in the
queue or in the writer, and `finish` is called when the queue is empty; the row of a
query is then in the decoded list of its value, and its row group among the candidates of
the manifest, by `NoFalseNegative`.

*Only model-checked* is liveness: `GetReturns`, which needs fairness and ENABLED. The five
violations of section 4 are TLC's, too.

## 6. Not modelled

* The JSON form of the statistics manifest (serde), and null counts, which no query
  reads.
* XOR8 construction and hashing, FST construction (external crates): modelled
  by what the code relies on - no false negative; ascending keys required, range
  queries in key order.
* Damage of a segment is modelled by what its parts become for a reader; which
  bytes make an FST or an XOR8 filter load is left open (either may happen).
  Remote readers are checked against objects replaced or removed as a whole. Of the
  files that `LocalBackend::put` may expose while it writes (storage.rs:122, no rename
  at the end), only the empty one is modelled: `ObjectsAssumption` excludes a segment
  that is written in part. On S3 a put appears as a whole.
* Memory. `LocationSet::decode` reserves room for a count of up to 2^32 - 1 elements
  before it looks at any (location_set.rs:87), so four damaged bytes may abort the
  process where `ReadLocationSet` answers `TooShort`. `AdjacencyList` and `PathEntries`
  do the same with 16-bit counts, which is harmless.
* Client construction, serde derives, benchmarks, examples.

Assumptions of the models that the code does not enforce:

* a CRC-32 tells a whole block from any other byte range;
* `fst::Map::new` rejects bytes that are not the FST they should be - it is what
  keeps `OpenCoherent` true when the object's size changes between two requests;
* a file path is never reused in a layered index, and one merge runs at a time;
* in `LayeredIndex`, values are not the byte 0xFF: such a value cannot be told from
  a deletion (`RoundTripExactlyWhenFits` says so of the encodings);
* S3 answers a HEAD request with the content length (the code takes 0 otherwise, and
  opens such a segment as an empty one);
* `key_count`, block offsets within a block and restart counts stay below 2^32.

## 7. Plan

All parts with logic of the library have a model. What is left, most important
first:

1. A composition of `RemoteReader`s under a layered reader, so that the errors of one
   segment other than a vanished file reach `RemoteLayeredReader::get`.
2. Damage under a remote reader, whose tail is checked and whose blocks are not
   fetched by slicing.

Open questions: `LARGE_DELTA_THRESHOLD` of `layered.rs` is documented but not used,
and the in-memory `LayeredReader`'s `should_merge` looks at the number of deltas
only.
