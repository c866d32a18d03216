----------------------------- MODULE Partitions -----------------------------
(***************************************************************************)
(* The partitioned index of src/partitioned.rs: a sorted stream of keys is *)
(* cut into consecutive slices, each slice becomes a segment in a builder  *)
(* of its own (build_partition; the builders run in parallel and finish in *)
(* any order), a manifest lists the largest key of each, and lookups find  *)
(* their partition by binary search (find_partition).                      *)
(*                                                                         *)
(* The manifest holds strings but keys are bytes: build_partition converts *)
(* with from_utf8_lossy, find_partition with from_utf8.  Byte strings and  *)
(* strings are naturals in byte order, 0 is the empty one; Lossy gives the *)
(* string of a key, and is the identity on the keys that are UTF-8.        *)
(*                                                                         *)
(* The coordinator that cuts the stream and writes the manifest is not in  *)
(* the crate; Cut and Publish follow the module docs of partitioned.rs.    *)
(* The value stored with the n-th key of the stream is n.                  *)
(***************************************************************************)
EXTENDS Integers, Sequences

CONSTANTS
    Key,               \* byte strings
    Utf8,              \* those that are valid UTF-8
    Lossy,             \* [Key -> Nat], String::from_utf8_lossy
    Inputs,            \* the sorted key streams that are indexed
    KeysPerPartition,  \* the keys_per_partition values
    NotFound,          \* the answer of a lookup that finds nothing
    NoAnswer           \* no lookup yet

EmptyString == 0

ASSUME KeyAssumption == Key \subseteq Nat /\ Utf8 \subseteq Key
ASSUME LossyAssumption ==
    Lossy \in [Key -> Nat] /\ \A k \in Utf8 : Lossy[k] = k
ASSUME InputAssumption ==
    \A s \in Inputs : /\ s \in Seq(Key)
                      /\ \A m, n \in 1 .. Len(s) : m <= n => s[m] <= s[n]
ASSUME PartitionAssumption == KeysPerPartition \subseteq Nat \ {0}
ASSUME AnswerAssumption == NotFound \notin Nat /\ NoAnswer \notin Nat \cup {NotFound}

VARIABLES
    input,     \* the sorted keys
    cuts,      \* position of the last key of each slice
    built,     \* [partition -> result of its builder]
    manifest,  \* PartitionManifest: max_key per partition; <<>> before it exists
    key,       \* the key looked up last
    answer     \* the position that was found, or NotFound, or NoAnswer

vars == <<input, cuts, built, manifest, key, answer>>

\* compute_partition_boundaries
PartitionCount(total, perPartition) ==
    LET count == (total + perPartition - 1) \div perPartition
    IN  IF count > 1 THEN count ELSE 1

Partition == 1 .. Len(cuts)
Slice(i) == (IF i = 1 THEN 1 ELSE cuts[i - 1] + 1) .. cuts[i]

Unbuilt == [status |-> "pending", maxKey |-> EmptyString, keyCount |-> 0]
Failed(err) == [Unbuilt EXCEPT !.status = err]

\* Cuts into count slices; no slice is empty unless the stream is.
Cuts(total, count) ==
    {c \in [1 .. count -> 0 .. total] :
        /\ c[count] = total
        /\ total > 0 => c[1] > 0
        /\ \A i, j \in 1 .. count : i < j => c[i] < c[j]}

Init ==
    /\ input \in Inputs
    /\ \E n \in KeysPerPartition :
         cuts \in Cuts(Len(input), PartitionCount(Len(input), n))
    /\ built = [i \in Partition |-> Unbuilt]
    /\ manifest = <<>>
    /\ key = EmptyString
    /\ answer = NoAnswer

-----------------------------------------------------------------------------
(* Builders.                                                               *)

\* SegmentWriter::add refuses a key equal to the one before it.
HasDuplicate(i) == \E m, n \in Slice(i) : m < n /\ input[m] = input[n]

\* Wrong variant: the partition is bounded by its first key.
MaxKeyFirst(i) == Lossy[input[IF i = 1 THEN 1 ELSE cuts[i - 1] + 1]]

\* from_utf8_lossy of the last key.
MaxKey(i) == Lossy[input[cuts[i]]]

\* One build_partition, on a slice.
BuildPartition(i) ==
    /\ built[i].status = "pending"
    /\ built' = [built EXCEPT ![i] =
          IF HasDuplicate(i) THEN Failed("DuplicateKey")
          ELSE IF Slice(i) = {} THEN Failed("EmptySegment")
          ELSE [status |-> "built", maxKey |-> MaxKey(i),
                keyCount |-> cuts[i] - (IF i = 1 THEN 0 ELSE cuts[i - 1])]]
    /\ UNCHANGED <<input, cuts, manifest, key, answer>>

\* The coordinator lists the partitions in the order of their slices.
Publish ==
    /\ manifest = <<>>
    /\ \A i \in Partition : built[i].status = "built"
    /\ manifest' = [i \in Partition |-> built[i].maxKey]
    /\ UNCHANGED <<input, cuts, built, key, answer>>

-----------------------------------------------------------------------------
(* Lookups.                                                                *)

\* from_utf8(key).unwrap_or("")
KeyString(k) == IF k \in Utf8 THEN k ELSE EmptyString

\* Wrong variant: a key equal to a max_key goes to the next partition.
FoundAfter(s) ==
    {i \in 1 .. Len(manifest) + 1 : /\ i = 1 \/ manifest[i - 1] <= s
                                    /\ i = Len(manifest) + 1 \/ manifest[i] > s}

\* What find_partition may return, Len(manifest) + 1 standing for None.
\* binary_search_by returns an index with an equal max_key, or one between a
\* smaller neighbour (or the start) and a larger one (or the end); on a list
\* that is not sorted there may be several of them.
Found(s) ==
    {i \in 1 .. Len(manifest) : manifest[i] = s} \cup
    {i \in 1 .. Len(manifest) + 1 : /\ i = 1 \/ manifest[i - 1] < s
                                    /\ i = Len(manifest) + 1 \/ manifest[i] > s}

\* The lookup in the segment of partition i.
SegmentAnswers(i, k) ==
    IF i = Len(manifest) + 1 \/ \A n \in Slice(i) : input[n] # k THEN {NotFound}
    ELSE {n \in Slice(i) : input[n] = k}

\* find_partition, then the lookup in its segment.
Lookup(k) ==
    /\ manifest # <<>>
    /\ key' = k
    /\ \E i \in Found(KeyString(k)) : answer' \in SegmentAnswers(i, k)
    /\ UNCHANGED <<input, cuts, built, manifest>>

Next ==
    \/ \E i \in Partition : BuildPartition(i)
    \/ Publish
    \/ \E k \in Key : Lookup(k)

Spec == Init /\ [][Next]_vars

-----------------------------------------------------------------------------
(* Properties.                                                             *)

Results ==
    [status : {"pending", "built", "EmptySegment", "DuplicateKey"},
     maxKey : Nat, keyCount : Nat]

TypeOK ==
    /\ input \in Inputs
    /\ Len(cuts) \in Nat \ {0} /\ cuts \in Cuts(Len(input), Len(cuts))
    /\ built \in [Partition -> Results]
    /\ manifest = <<>> \/ manifest \in [Partition -> Nat]
    /\ key \in Key \cup {EmptyString}
    /\ answer \in Nat \cup {NotFound, NoAnswer}

\* The answer is right: a value of key if the stream holds it (either one, if
\* it holds it in two partitions), else nothing.
IsRight ==
    IF \E n \in 1 .. Len(input) : input[n] = key
    THEN answer \in 1 .. Len(input) /\ input[answer] = key
    ELSE answer = NotFound

InputIsUtf8 == \A n \in 1 .. Len(input) : input[n] \in Utf8

\* An index over UTF-8 keys answers every lookup like one big segment, wherever
\* the stream was cut: keys at, below and above each max_key, beyond the last,
\* and keys that are not UTF-8 (partitioned.rs find_partition against
\* build_partition).
Utf8LookupRight == answer # NoAnswer /\ InputIsUtf8 => IsRight

\* The same for all byte strings: find_partition finds "the partition index that
\* should contain the given key" (partitioned.rs find_partition).
LookupRight == answer # NoAnswer => IsRight

-----------------------------------------------------------------------------
(* The inductive invariant.                                                *)

\* s is the string of a key of slice i, and no key of the slice is larger.
BoundsSlice(s, i) ==
    \E n \in Slice(i) : /\ s = Lossy[input[n]]
                       /\ \A m \in Slice(i) : input[m] <= input[n]

\* A partition that is built has keys and is bounded by the largest.
BuiltMatches ==
    \A i \in Partition : built[i].status = "built" => BoundsSlice(built[i].maxKey, i)

\* The manifest lists the partitions in the order of their slices.
ManifestMatches ==
    manifest # <<>> =>
        /\ Len(manifest) = Len(cuts)
        /\ \A i \in Partition : BoundsSlice(manifest[i], i)

\* Whatever order the builders finish in, the manifest's max_key of a
\* partition is the string of the largest key in its slice ("maximum key in
\* this partition (inclusive)", PartitionEntry), and answers over UTF-8 keys
\* are right (partitioned.rs build_partition, find_partition).
RoutingInvariant == TypeOK /\ BuiltMatches /\ ManifestMatches /\ Utf8LookupRight

=============================================================================
