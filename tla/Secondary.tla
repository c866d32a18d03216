----------------------------- MODULE Secondary -----------------------------
(***************************************************************************)
(* The secondary index writer of src/secondary.rs: locations are added to  *)
(* keys in any order, and finish writes one segment that maps each key to  *)
(* the LocationSet of its locations.                                       *)
(*                                                                         *)
(* The segment is the function from keys to value bytes that Segment       *)
(* proves of a finished writer (its LookupCorrect); the keys of a BTreeMap *)
(* ascend, as that writer demands.                                         *)
(***************************************************************************)
EXTENDS Values, FiniteSets

CONSTANTS
    IndexKey,   \* the keys, column values as bytes
    Location,   \* the locations that are added
    NoOutput    \* finish was not called yet

ASSUME LocationAssumption == Location \subseteq EntityLocation

VARIABLES
    entries,  \* SecondaryIndexWriter::entries
    added,    \* history: the calls of add_location, in order
    output    \* of finish: a segment, or WriterError::EmptySegment

secondaryVars == <<entries, added, output>>

SecondaryInit ==
    /\ entries = [k \in {} |-> <<>>]
    /\ added = <<>>
    /\ output = NoOutput

\* Wrong variant: the last location of a key replaces the others.
AccumulateLast(es, k, loc) ==
    [x \in DOMAIN es \cup {k} |-> IF x = k THEN <<loc>> ELSE es[x]]

\* Wrong variant: the first location of a key only makes the entry.
AccumulateLate(es, k, loc) ==
    [x \in DOMAIN es \cup {k} |->
        IF x # k THEN es[x] ELSE IF k \in DOMAIN es THEN Append(es[k], loc) ELSE <<>>]

\* entry(key).or_default().push(location)
Accumulate(es, k, loc) ==
    [x \in DOMAIN es \cup {k} |->
        IF x # k THEN es[x] ELSE IF k \in DOMAIN es THEN Append(es[k], loc) ELSE <<loc>>]

AddLocation(k, loc) ==
    /\ output = NoOutput
    /\ entries' = Accumulate(entries, k, loc)
    /\ added' = Append(added, [key |-> k, location |-> loc])
    /\ UNCHANGED output

\* finish consumes the writer.
Finish ==
    /\ output = NoOutput
    /\ entries # <<>>
    /\ output' = [status  |-> "Ok",
                  segment |-> [k \in DOMAIN entries |-> PutLocationSet(entries[k])]]
    /\ UNCHANGED <<entries, added>>

FinishEmpty ==
    /\ output = NoOutput
    /\ entries = <<>>
    /\ output' = [status |-> "EmptySegment", segment |-> <<>>]
    /\ UNCHANGED <<entries, added>>

KeyCount == Cardinality(DOMAIN entries)
\* The sum of the lengths of all lists, as the number of their elements.
TotalLocations == Cardinality(UNION {{k} \X DOMAIN entries[k] : k \in DOMAIN entries})

\* SegmentReader::get on the segment, then LocationSet::decode: the locations
\* of a key, none when the segment does not hold it.
Located(k) ==
    IF output.status = "Ok" /\ k \in DOMAIN output.segment
    THEN ReadLocationSet(output.segment[k]).value
    ELSE <<>>

-----------------------------------------------------------------------------
(* Properties.                                                             *)

\* Every key of the writer has a location.
SecondaryTypeOK ==
    /\ DOMAIN entries \subseteq IndexKey
    /\ \A k \in DOMAIN entries : entries[k] \in Seq(Location) \ {<<>>}
    /\ added \in Seq([key : IndexKey, location : Location])
    /\ \/ output = NoOutput
       \/ output.status \in {"Ok", "EmptySegment"}

\* The locations added for key k, in order.
AddedFor(k) ==
    LET mine[n \in 0 .. Len(added)] ==
          IF n = 0 THEN <<>>
          ELSE IF added[n].key = k THEN Append(mine[n - 1], added[n].location)
          ELSE mine[n - 1]
    IN  mine[Len(added)]

\* However the adds for several keys interleave, the segment gives each key
\* exactly its locations, in the order of their adds and repeated as often;
\* it holds no other key, the counters agree with the calls, and only a
\* writer without adds fails (secondary.rs add_location, finish, key_count,
\* total_locations).
PostingsKept ==
    /\ TotalLocations = Len(added)
    /\ KeyCount = Cardinality({added[n].key : n \in DOMAIN added})
    /\ output # NoOutput =>
         /\ output.status = "Ok" <=> added # <<>>
         /\ \A k \in IndexKey : Located(k) = AddedFor(k)
=============================================================================
