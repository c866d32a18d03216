-------------------------------- MODULE Block --------------------------------
(***************************************************************************)
(* One data block (src/block.rs): BlockBuilder writes sorted entries with  *)
(* prefix compression and restart points; BlockReader finds a key by a     *)
(* binary search over the restart points and a scan from the one it picks. *)
(*                                                                         *)
(* A key is a sequence of bytes.  An encoded entry is a record             *)
(* [pos, shared, suffix, val]: the byte offset it starts at, the number of *)
(* bytes it shares with the previous key, the rest of its key, its value.  *)
(* The bytes of varints, offsets and checksum are left out, their lengths  *)
(* are not.                                                                *)
(***************************************************************************)
EXTENDS Integers, Sequences, SequencesExt

CONSTANTS
    Byte,             \* the bytes keys are made of, a set of naturals
    MaxKeyLen,        \* bound on the length of keys
    Value,
    ValueLen,         \* [Value -> Nat], bytes of a value
    BlockSizes,       \* max_block_size values
    RestartIntervals, \* restart_interval values
    MaxEntries,       \* bound on the entries of a block
    NoBlock,          \* the builder has not been finished
    NotFound          \* Ok(None)

ASSUME ByteAssumption == Byte \subseteq 0 .. 255
ASSUME ValueLenAssumption == ValueLen \in [Value -> Nat]
ASSUME SizesAssumption ==
    BlockSizes \subseteq Nat /\ RestartIntervals \subseteq Nat /\ MaxKeyLen \in Nat

VARIABLES
    maxSize, interval,  \* the builder's parameters
    buf,                \* the encoded entries, in order
    restarts,           \* byte offsets of the restart points
    lastKey,            \* last_key
    sinceRestart,       \* entries_since_restart
    added,              \* history: the entries add accepted
    refused,            \* history: add returned false
    block               \* the finished block

vars == <<maxSize, interval, buf, restarts, lastKey, sinceRestart, added,
          refused, block>>

Key == UNION {[1 .. n -> Byte] : n \in 0 .. MaxKeyLen}

-----------------------------------------------------------------------------
(* Byte strings.                                                           *)

\* The order of byte slices.
Less(a, b) ==
    \/ IsStrictPrefix(a, b)
    \/ \E i \in DOMAIN a \cap DOMAIN b :
         SubSeq(a, 1, i - 1) = SubSeq(b, 1, i - 1) /\ a[i] < b[i]

SharedPrefixLen(a, b) == Len(LongestCommonPrefix({a, b}))

VarintLen(n) ==
    IF n < 128 THEN 1 ELSE IF n < 16384 THEN 2
    ELSE IF n < 2097152 THEN 3 ELSE IF n < 268435456 THEN 4 ELSE 5

EncodedLen(e) ==
    VarintLen(e.shared) + VarintLen(Len(e.suffix)) + VarintLen(ValueLen[e.val])
        + Len(e.suffix) + ValueLen[e.val]

-----------------------------------------------------------------------------
(* Builder.                                                                *)

\* buf.len(): where the next entry starts.
BufLen(entries) ==
    IF entries = <<>> THEN 0 ELSE Last(entries).pos + EncodedLen(Last(entries))

\* Wrong variant: restart offsets are not counted.
EstimatedSizeNoRestarts == BufLen(buf) + 8

\* estimated_size
EstimatedSize == BufLen(buf) + 4 * Len(restarts) + 8

\* finish appends the restart offsets, their number and the CRC.
FinishedLen == BufLen(buf) + 4 * Len(restarts) + 4 + 4

EstimatedEntry(k, v) == 5 + Len(k) + ValueLen[v]

IsFull(k, v) == buf # <<>> /\ EstimatedSize + EstimatedEntry(k, v) > maxSize

\* Wrong variant: one entry too many between two restart points.
IsRestartLate == buf # <<>> /\ sinceRestart > interval

IsRestart == buf # <<>> /\ sinceRestart >= interval

\* Wrong variant: a restart point is compressed against the last key.
SharedAlways(k) == SharedPrefixLen(lastKey, k)

\* A restart point, like the first entry, stores its key in full.
Shared(k) == IF IsRestart \/ buf = <<>> THEN 0 ELSE SharedPrefixLen(lastKey, k)

Init ==
    /\ maxSize \in BlockSizes
    /\ interval \in {IF i = 0 THEN 1 ELSE i : i \in RestartIntervals}
    /\ buf = <<>> /\ restarts = <<0>>
    /\ lastKey = <<>> /\ sinceRestart = 0
    /\ added = <<>> /\ refused = FALSE
    /\ block = NoBlock

\* Callers add keys in ascending order (SegmentWriter::add checks it).
Ascends(k) == added # <<>> => Less(Last(added).key, k)

\* add returns true.
Add(k, v) ==
    /\ block = NoBlock /\ ~ refused /\ Len(buf) < MaxEntries
    /\ Ascends(k)
    /\ ~ IsFull(k, v)
    /\ buf' = Append(buf, [pos |-> BufLen(buf), shared |-> Shared(k),
                           suffix |-> SubSeq(k, Shared(k) + 1, Len(k)), val |-> v])
    /\ restarts' = IF IsRestart THEN Append(restarts, BufLen(buf)) ELSE restarts
    /\ sinceRestart' = IF IsRestart THEN 1 ELSE sinceRestart + 1
    /\ lastKey' = k
    /\ added' = Append(added, [key |-> k, val |-> v])
    /\ UNCHANGED <<maxSize, interval, refused, block>>

\* add returns false and leaves the builder as it is; the caller then
\* finishes this block.
AddRefused(k, v) ==
    /\ block = NoBlock /\ ~ refused /\ Len(buf) < MaxEntries
    /\ Ascends(k)
    /\ IsFull(k, v)
    /\ refused' = TRUE
    /\ UNCHANGED <<maxSize, interval, buf, restarts, lastKey, sinceRestart,
                   added, block>>

Finish ==
    /\ block = NoBlock
    /\ block' = [entries |-> buf, restarts |-> restarts, end |-> BufLen(buf),
                 len |-> FinishedLen]
    /\ UNCHANGED <<maxSize, interval, buf, restarts, lastKey, sinceRestart,
                   added, refused>>

Next ==
    \/ \E k \in Key, v \in Value : Add(k, v) \/ AddRefused(k, v)
    \/ Finish

Spec == Init /\ [][Next]_vars

-----------------------------------------------------------------------------
(* Reader.                                                                 *)

\* Wrong variant: the shared bytes are kept untruncated.
RestoreUntruncated(current, e) == current \o e.suffix

\* The key of an entry, from the key decoded before it.
Restore(current, e) == SubSeq(current, 1, e.shared) \o e.suffix

\* Keys decoded by a scan of blk's entries from index i on.
DecodedFrom(blk, i) ==
    LET decoded[j \in i - 1 .. Len(blk.entries)] ==
            IF j < i THEN <<>> ELSE Restore(decoded[j - 1], blk.entries[j])
    IN  decoded

\* The entry at a byte offset.
EntryAt(blk, pos) == CHOOSE i \in DOMAIN blk.entries : blk.entries[i].pos = pos

\* decode_key_at_restart, for the restart with (1-based) index r.
KeyAtRestart(blk, r) == blk.entries[EntryAt(blk, blk.restarts[r])].suffix

\* Wrong variant: the interval before the last smaller restart is scanned.
RestartForPrevious(lo) == IF lo > 1 THEN lo - 1 ELSE 1

\* lo restarts are smaller than the target: the last of them, or the first.
RestartFor(lo) == IF lo > 0 THEN lo ELSE 1

\* find_restart_for_key: binary search on lo and hi, 0-based like the code;
\* the result is a 1-based index.
FindRestart(blk, target) ==
    LET n == Len(blk.restarts)
        search[range \in (0 .. n) \X (0 .. n)] ==
            LET lo  == range[1]
                hi  == range[2]
                mid == lo + (hi - lo) \div 2
                key == KeyAtRestart(blk, mid + 1)
            IN  IF lo >= hi THEN RestartFor(lo)
                ELSE IF Less(key, target) THEN search[<<mid + 1, hi>>]
                ELSE IF key = target THEN mid + 1
                ELSE search[<<lo, mid>>]
    IN  search[<<0, n>>]

\* BlockReader::get
Get(blk, target) ==
    IF blk.entries = <<>> THEN "CorruptedEntry"
    ELSE LET r       == FindRestart(blk, target)
             first   == EntryAt(blk, blk.restarts[r])
             end     == IF r < Len(blk.restarts) THEN blk.restarts[r + 1] ELSE blk.end
             decoded == DecodedFrom(blk, first)
             hits    == {j \in first .. Len(blk.entries) :
                           /\ blk.entries[j].pos < end
                           /\ decoded[j] = target
                           /\ \A i \in first .. j - 1 : Less(decoded[i], target)}
         IN  IF hits = {} THEN NotFound ELSE blk.entries[CHOOSE j \in hits : TRUE].val

\* BlockReader::iter
Iter(blk) ==
    LET decoded == DecodedFrom(blk, 1)
    IN  [j \in DOMAIN blk.entries |-> [key |-> decoded[j], val |-> blk.entries[j].val]]

-----------------------------------------------------------------------------
(* Properties.                                                             *)

TypeOK ==
    /\ maxSize \in BlockSizes /\ interval \in Nat \ {0}
    /\ \A i \in DOMAIN buf :
         buf[i] \in [pos : Nat, shared : 0 .. MaxKeyLen, suffix : Key, val : Value]
    /\ restarts \in Seq(Nat)
    /\ lastKey \in Key
    /\ sinceRestart \in 0 .. interval
    /\ refused \in BOOLEAN

Finished == block # NoBlock

Matches(k) == {i \in DOMAIN added : added[i].key = k}

\* On a finished block, binary search over the restart points and the scan of
\* one interval answer exactly what was added, for every key there is - those
\* before the first entry, between entries and past the last, prefixes and
\* extensions of present keys (block.rs BlockReader::get).
GetCorrect ==
    Finished /\ added # <<>> =>
        \A k \in Key : Get(block, k) = IF Matches(k) = {} THEN NotFound
                                       ELSE added[CHOOSE i \in Matches(k) : TRUE].val

\* Decoding a finished block from its start gives back the entries in order,
\* restart points or not (block.rs BlockIterator).
IterCorrect == Finished => Iter(block) = added

\* Every restart point stores its key in full, and restart points are exactly
\* restart_interval entries apart, which is what bounds the scan of a lookup
\* (block.rs BlockBuilder::add).
RestartsRegular ==
    /\ buf # <<>> => Len(restarts) = 1 + (Len(buf) - 1) \div interval
    /\ \A r \in DOMAIN restarts :
         LET i == (r - 1) * interval + 1
         IN  i \in DOMAIN buf => buf[i].pos = restarts[r] /\ buf[i].shared = 0

\* A finished block with several entries outgrows max_block_size by no more
\* than the slot of a new restart point: the estimate of a short entry leaves
\* two bytes to spare (block.rs add's estimate against finish).
SizeBound ==
    Finished /\ Len(block.entries) > 1 => block.len <= maxSize + 2

=============================================================================
