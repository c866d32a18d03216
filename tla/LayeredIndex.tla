---------------------------- MODULE LayeredIndex ----------------------------
(***************************************************************************)
(* The layered index of src/layered.rs: a base segment and delta segments  *)
(* in object storage, a manifest that lists them newest first, readers     *)
(* that walk the list one storage request at a time                        *)
(* (RemoteLayeredReader), and merge_segments, which folds the list into a  *)
(* new base in the background.                                             *)
(*                                                                         *)
(* A segment is the map it stores, a function whose domain is the set of   *)
(* its keys (Segment.tla shows that lookups on a finished segment are      *)
(* exactly that).  The process that stores segments, swaps the manifest    *)
(* and deletes merged files is not part of the crate: its actions          *)
(* (PushDelta, Reindex, Publish, Collect) follow the module docs of        *)
(* layered.rs, "Write semantics", and the comment of all_paths.            *)
(***************************************************************************)
EXTENDS Integers, Sequences, FiniteSets

CONSTANTS
    Key,
    Value,
    Tombstone,      \* tombstone_value(): the one-byte value 0xFF
    NoValue,        \* Ok(None)
    NoObject,       \* the path holds no object
    Deltas,         \* the delta segments that writers push
    Bases,          \* the base segments that reindexes produce
    Reader,         \* concurrent readers
    Pending,        \* a reader that has not answered its last get
    StorageError,   \* Err(ReaderError::Storage)
    MaxDeltaCount,  \* MAX_DELTA_COUNT
    SegmentOverhead,\* bytes of a segment without entries
    MaxPath         \* bound on the paths ever used (model checking)

ASSUME ValueAssumption ==
    /\ Key # {}
    /\ Tombstone \notin Value /\ NoValue \notin Value /\ Tombstone # NoValue
    /\ StorageError \notin Value \cup {NoValue, Pending}
    /\ Pending \notin Value \cup {NoValue}
ASSUME BoundAssumption ==
    /\ MaxDeltaCount \in Nat /\ MaxPath \in Nat \ {0} /\ SegmentOverhead \in Nat

VARIABLES
    objects,   \* object storage: path -> segment, or NoObject
    written,   \* history: path -> the segment last stored there
    manifest,  \* LayeredIndexManifest: paths newest first, the base last
    garbage,   \* paths a merge or reindex made obsolete, not yet deleted
    nextPath,  \* the next unused path
    reader,    \* [Reader -> state of a RemoteLayeredReader and its get]
    merger     \* state of merge_segments and its caller

vars == <<objects, written, manifest, garbage, nextPath, reader, merger>>

Path == 1 .. MaxPath
Base(segs) == segs[Len(segs)]
Contents(V) == UNION {[S -> V] : S \in SUBSET Key}
SegmentValue == Contents(Value \cup {Tombstone})

ASSUME InputAssumption == Deltas \subseteq SegmentValue /\ Bases \subseteq Contents(Value)
ASSUME NoObjectAssumption == NoObject \notin SegmentValue

\* The segments behind a list of paths.
SegmentsOf(paths) == [i \in DOMAIN paths |-> written[paths[i]]]

-----------------------------------------------------------------------------
(* The logical view of a list of segments.                                 *)

LeastOf(S) == CHOOSE i \in S : \A j \in S : i <= j

Holders(segs, k) == {i \in DOMAIN segs : k \in DOMAIN segs[i]}

\* is_tombstone turns a deletion into "no value".
Visible(v) == IF v = Tombstone THEN NoValue ELSE v

\* The newest segment that holds the key decides.
ViewOf(segs, k) ==
    IF Holders(segs, k) = {} THEN NoValue
    ELSE Visible(segs[LeastOf(Holders(segs, k))][k])

View(segs) == [k \in Key |-> ViewOf(segs, k)]

-----------------------------------------------------------------------------
(* LayeredIndexManifest.                                                   *)

SizeOf(seg) == SegmentOverhead + Cardinality(DOMAIN seg)

\* Total size of the delta segments, all but the last of the list.
DeltaSize(segs) ==
    LET sum[i \in 0 .. Len(segs) - 1] == IF i = 0 THEN 0 ELSE sum[i - 1] + SizeOf(segs[i])
    IN  sum[Len(segs) - 1]

\* LayeredIndexManifest::should_merge, MAX_DELTA_RATIO = 0.30.
ShouldMerge(segs) ==
    /\ Len(segs) > 1
    /\ \/ Len(segs) - 1 >= MaxDeltaCount
       \/ LET base == SizeOf(Base(segs))
          IN  10 * DeltaSize(segs) >= 3 * (IF base = 0 THEN 1 ELSE base)

-----------------------------------------------------------------------------
ClosedReader == [pc |-> "closed", paths |-> <<>>, segs |-> <<>>,
                 key |-> CHOOSE k \in Key : TRUE, at |-> 1, answer |-> Pending]

IdleMerger == [pc |-> "idle", paths |-> <<>>, segs |-> <<>>, left |-> 0,
               acc |-> <<>>, target |-> 0]

Init ==
    /\ \E base \in Bases :
         /\ objects = [p \in Path |-> IF p = 1 THEN base ELSE NoObject]
         /\ written = [p \in Path |-> IF p = 1 THEN base ELSE <<>>]
    /\ manifest = <<1>>
    /\ garbage = {}
    /\ nextPath = 2
    /\ reader = [r \in Reader |-> ClosedReader]
    /\ merger = IdleMerger

Elements(paths) == {paths[i] : i \in DOMAIN paths}

\* StorageBackend::put of a segment under a path never used before.
Put(seg) ==
    /\ nextPath \in Path
    /\ objects' = [objects EXCEPT ![nextPath] = seg]
    /\ written' = [written EXCEPT ![nextPath] = seg]
    /\ nextPath' = nextPath + 1

-----------------------------------------------------------------------------
(* Writers.                                                                *)

\* Incremental push: a delta with the changed, new and deleted keys.
PushDelta(delta) ==
    /\ DOMAIN delta # {}
    /\ Put(delta)
    /\ manifest' = <<nextPath>> \o manifest
    /\ UNCHANGED <<garbage, reader, merger>>

\* Full reindex: a new base replaces the old base and all deltas.
Reindex(base) ==
    /\ Put(base)
    /\ manifest' = <<nextPath>>
    /\ garbage' = garbage \cup Elements(manifest)
    /\ UNCHANGED <<reader, merger>>

-----------------------------------------------------------------------------
(* Merge.                                                                  *)

\* A caller follows should_merge and starts loading the listed segments.
StartMerge ==
    /\ merger.pc = "idle"
    /\ ShouldMerge(SegmentsOf(manifest))
    /\ merger' = [IdleMerger EXCEPT !.pc = "loading", !.paths = manifest]
    /\ UNCHANGED <<objects, written, manifest, garbage, nextPath, reader>>

\* StorageBackend::read_all
ReadAll(p) == objects[p]

\* The next segment is read whole; its file may be gone since a reindex.
LoadSegment ==
    LET n    == Len(merger.segs) + 1
        seg  == ReadAll(merger.paths[n])
        segs == Append(merger.segs, seg)
    IN  /\ merger.pc = "loading"
        /\ merger' = IF seg = NoObject THEN [merger EXCEPT !.pc = "lost"]
                     ELSE IF n < Len(merger.paths) THEN [merger EXCEPT !.segs = segs]
                     ELSE [merger EXCEPT !.pc = "merging", !.segs = segs, !.left = n]
        /\ UNCHANGED <<objects, written, manifest, garbage, nextPath, reader>>

\* Wrong variant: a tombstone is skipped instead of removing the key.
OverlaySkipsTombstones(acc, seg) ==
    LET set == {k \in DOMAIN seg : seg[k] # Tombstone}
    IN  [k \in DOMAIN acc \cup set |-> IF k \in set THEN seg[k] ELSE acc[k]]

\* Wrong variant: tombstones are carried into the merged segment.
OverlayKeepsTombstones(acc, seg) ==
    [k \in DOMAIN acc \cup DOMAIN seg |-> IF k \in DOMAIN seg THEN seg[k] ELSE acc[k]]

\* One round of merge_segments: a newer segment over what is merged so far;
\* its tombstones remove the key.
Overlay(acc, seg) ==
    LET set == {k \in DOMAIN seg : seg[k] # Tombstone}
    IN  [k \in (DOMAIN acc \ DOMAIN seg) \cup set |->
            IF k \in set THEN seg[k] ELSE acc[k]]

\* Segments are folded oldest first.
MergeStep ==
    /\ merger.pc = "merging" /\ merger.left > 0
    /\ merger' = [merger EXCEPT
            !.acc = Overlay(merger.acc, merger.segs[merger.left]),
            !.left = merger.left - 1]
    /\ UNCHANGED <<objects, written, manifest, garbage, nextPath, reader>>

\* SegmentWriter::finish refuses an empty merge; merge_segments reports it as
\* ReaderError::FstError.
MergeFails ==
    /\ merger.pc = "merging" /\ merger.left = 0
    /\ DOMAIN merger.acc = {}
    /\ merger' = [merger EXCEPT !.pc = "FstError"]
    /\ UNCHANGED <<objects, written, manifest, garbage, nextPath, reader>>

\* The caller uploads the merged bytes.
MergeDone ==
    /\ merger.pc = "merging" /\ merger.left = 0
    /\ DOMAIN merger.acc # {}
    /\ Put(merger.acc)
    /\ merger' = [merger EXCEPT !.pc = "merged", !.target = nextPath]
    /\ UNCHANGED <<manifest, garbage, reader>>

\* The merged segments are still the oldest part of the manifest.
MergeCurrent ==
    LET newer == Len(manifest) - Len(merger.paths)
    IN  newer >= 0 /\ SubSeq(manifest, newer + 1, Len(manifest)) = merger.paths

\* Wrong variant: all_paths of the manifest at publication, which may list
\* deltas that the merge never saw.
ObsoleteNow == Elements(manifest)

\* all_paths of the merged manifest: delete these after the merge.
Obsolete == Elements(merger.paths)

\* Swap the new base in, under the deltas pushed since; the merged files
\* become garbage.
Publish ==
    /\ merger.pc = "merged" /\ MergeCurrent
    /\ manifest' = SubSeq(manifest, 1, Len(manifest) - Len(merger.paths))
                     \o <<merger.target>>
    /\ garbage' = garbage \cup Obsolete
    /\ merger' = IdleMerger
    /\ UNCHANGED <<objects, written, nextPath, reader>>

\* A merge that failed, or that a reindex made obsolete, is dropped.
AbandonMerge ==
    /\ \/ merger.pc \in {"FstError", "lost"}
       \/ merger.pc = "merged" /\ ~ MergeCurrent
    /\ garbage' = IF merger.pc = "merged" THEN garbage \cup {merger.target} ELSE garbage
    /\ merger' = IdleMerger
    /\ UNCHANGED <<objects, written, manifest, nextPath, reader>>

\* StorageBackend::delete of one obsolete file.
Collect(p) ==
    /\ p \in garbage
    /\ objects' = [objects EXCEPT ![p] = NoObject]
    /\ garbage' = garbage \ {p}
    /\ UNCHANGED <<written, manifest, nextPath, reader, merger>>

-----------------------------------------------------------------------------
(* Readers.                                                                *)

Storage == <<objects, written, manifest, garbage, nextPath, merger>>

\* A caller reads the manifest and starts opening its segments.
StartOpen(r) ==
    /\ reader[r].pc = "closed"
    /\ reader' = [reader EXCEPT ![r].pc = "opening", ![r].paths = manifest,
                                ![r].segs = <<>>, ![r].answer = Pending]
    /\ UNCHANGED Storage

\* RemoteSegmentReader::open of the next segment caches its metadata.
OpenSegment(r) ==
    LET p == reader[r].paths[Len(reader[r].segs) + 1]
    IN  /\ reader[r].pc = "opening"
        /\ Len(reader[r].segs) < Len(reader[r].paths)
        /\ reader' = IF objects[p] = NoObject
                     THEN [reader EXCEPT ![r].pc = "failed"]
                     ELSE [reader EXCEPT ![r].segs = Append(reader[r].segs, objects[p])]
        /\ UNCHANGED Storage

\* RemoteLayeredReader::from_readers.
FromReaders(r) ==
    /\ reader[r].pc = "opening"
    /\ Len(reader[r].segs) = Len(reader[r].paths)
    /\ reader' = [reader EXCEPT ![r].pc = "open"]
    /\ UNCHANGED Storage

\* RemoteLayeredReader::open builds a reader without segments: its loop over
\* the paths is a placeholder.  Not part of Next.
OpenPlaceholder(r) ==
    /\ reader[r].pc = "closed"
    /\ reader' = [reader EXCEPT ![r].pc = "open", ![r].paths = manifest,
                                ![r].segs = <<>>, ![r].answer = Pending]
    /\ UNCHANGED Storage

StartGet(r, k) ==
    /\ reader[r].pc = "open"
    /\ reader' = [reader EXCEPT ![r].pc = "getting", ![r].key = k,
                                ![r].at = 1, ![r].answer = Pending]
    /\ UNCHANGED Storage

Return(r, answer) ==
    reader' = [reader EXCEPT ![r].pc = "open", ![r].at = 1, ![r].answer = answer]

Getting(r) == reader[r].pc = "getting" /\ reader[r].at <= Len(reader[r].segs)

\* Wrong variant: the loop goes on after a tombstone.
DecidesSkipsTombstone(v) == v # Tombstone

\* A value or a tombstone ends the loop.
Decides(v) == TRUE

\* The bloom filter rejects the segment (only if it does not hold the key).
SkipSegment(r) ==
    /\ Getting(r)
    /\ reader[r].key \notin DOMAIN reader[r].segs[reader[r].at]
    /\ reader' = [reader EXCEPT ![r].at = reader[r].at + 1]
    /\ UNCHANGED Storage

\* Wrong variant: a vanished file is waited for.
ReadSegmentRetries(r) ==
    LET seg == objects[reader[r].paths[reader[r].at]]
        k   == reader[r].key
    IN  /\ Getting(r)
        /\ seg # NoObject
        /\ IF k \in DOMAIN seg /\ Decides(seg[k]) THEN Return(r, Visible(seg[k]))
           ELSE reader' = [reader EXCEPT ![r].at = reader[r].at + 1]
        /\ UNCHANGED Storage

\* The block is fetched: from the object, if it is still there.
ReadSegment(r) ==
    LET seg == objects[reader[r].paths[reader[r].at]]
        k   == reader[r].key
    IN  /\ Getting(r)
        /\ IF seg = NoObject THEN Return(r, StorageError)
           ELSE IF k \in DOMAIN seg /\ Decides(seg[k]) THEN Return(r, Visible(seg[k]))
           ELSE reader' = [reader EXCEPT ![r].at = reader[r].at + 1]
        /\ UNCHANGED Storage

\* No segment holds the key.
Exhausted(r) ==
    /\ reader[r].pc = "getting" /\ reader[r].at > Len(reader[r].segs)
    /\ Return(r, NoValue)
    /\ UNCHANGED Storage

\* The reader, or a failed open, is dropped.
Close(r) ==
    /\ reader[r].pc \in {"open", "failed"}
    /\ reader' = [reader EXCEPT ![r] = [ClosedReader EXCEPT !.key = reader[r].key,
                                        !.paths = reader[r].paths]]
    /\ UNCHANGED Storage

GetProgress(r) == SkipSegment(r) \/ ReadSegment(r) \/ Exhausted(r)

Next ==
    \/ \E delta \in Deltas : PushDelta(delta)
    \/ \E base \in Bases : Reindex(base)
    \/ StartMerge \/ LoadSegment \/ MergeStep \/ MergeFails \/ MergeDone \/ Publish \/ AbandonMerge
    \/ \E p \in Path : Collect(p)
    \/ \E r \in Reader : \/ StartOpen(r) \/ OpenSegment(r) \/ FromReaders(r)
                         \/ SkipSegment(r) \/ ReadSegment(r) \/ Exhausted(r) \/ Close(r)
    \/ \E r \in Reader, k \in Key : StartGet(r, k)

Spec == Init /\ [][Next]_vars

\* A polled get runs on: each storage request is answered, by the block or
\* by an error.
FairSpec == Spec /\ \A r \in Reader : WF_vars(GetProgress(r))

\* The same system opened with RemoteLayeredReader::open.
PlaceholderSpec ==
    Init /\ [][Next \/ \E r \in Reader : OpenPlaceholder(r)]_vars

-----------------------------------------------------------------------------
(* Properties.                                                             *)

ReaderPcs == {"closed", "opening", "failed", "open", "getting"}
MergerPcs == {"idle", "loading", "lost", "merging", "FstError", "merged"}
Answers == Value \cup {NoValue, Pending, StorageError}

TypeOK ==
    /\ objects \in [Path -> SegmentValue \cup {NoObject}]
    /\ written \in [Path -> SegmentValue]
    /\ manifest \in Seq(Path) /\ manifest # <<>>
    /\ garbage \subseteq Path
    /\ nextPath \in 1 .. MaxPath + 1
    /\ reader \in [Reader -> [pc : ReaderPcs, paths : Seq(Path),
                              segs : Seq(SegmentValue), key : Key,
                              at : Nat, answer : Answers]]
    /\ merger \in [pc : MergerPcs, paths : Seq(Path), segs : Seq(SegmentValue),
                   left : Nat, acc : Contents(Value), target : 0 .. MaxPath]

\* The logical map that the manifest stands for.
Db == View(SegmentsOf(manifest))

\* The logical map at the time a reader's list was read from the manifest.
Snapshot(r) == View(SegmentsOf(reader[r].paths))

\* Whatever pushes, merges, reindexes and deletions happen while a get walks
\* the segments, a successful answer is the value in the version the reader
\* was opened on: the newest segment wins, a tombstone hides older segments
\* (layered.rs RemoteLayeredReader::get).
AnswerIsSnapshot ==
    \A r \in Reader :
        reader[r].pc = "open" /\ reader[r].answer \notin {Pending, StorageError}
            => reader[r].answer = Snapshot(r)[reader[r].key]

Superseded(paths) == ~ (Elements(paths) \subseteq Elements(manifest))

\* An open, a get or the load of a merge fails only on a version that a merge
\* or a reindex has superseded: deleting obsolete files never hits a reader or
\* a merger whose segments the manifest still lists, deltas pushed during the
\* merge included (layered.rs all_paths, reader.rs is_transient for a
\* vanished file).
ErrorMeansSuperseded ==
    /\ \A r \in Reader :
         (reader[r].pc = "failed" \/ reader[r].answer = StorageError)
             => Superseded(reader[r].paths)
    /\ merger.pc = "lost" => Superseded(merger.paths)

\* The merged segment holds exactly the visible keys of the merged list with
\* their newest values, and no tombstone (layered.rs merge_segments).
MergedIsView ==
    merger.pc = "merged" =>
        \A k \in Key :
            View(SegmentsOf(merger.paths))[k] =
                IF k \in DOMAIN written[merger.target]
                THEN written[merger.target][k] ELSE NoValue

\* Every file the manifest lists exists and is not waiting for deletion, and
\* no file is listed twice (layered.rs all_paths: "after merge, delete these").
ManifestLive ==
    /\ \A i \in DOMAIN manifest : objects[manifest[i]] # NoObject
    /\ garbage \cap Elements(manifest) = {}
    /\ \A i, j \in DOMAIN manifest : manifest[i] = manifest[j] => i = j

\* merge_segments of readable segments does not report corruption
\* (reader.rs ReaderError::is_corruption covers FstError).
MergeNeverCorrupt == merger.pc # "FstError"

\* A change of the manifest that follows no upload - the publication of a
\* merge - leaves the logical map as it is: merging is invisible to readers
\* (layered.rs "Merge ... background, doesn't block reads").
MergeInvisible == [][(UNCHANGED nextPath) => (Db' = Db)]_vars

\* Every get returns, whatever the writers and the merger do
\* (layered.rs RemoteLayeredReader::get's loop and its awaits).
GetReturns == \A r \in Reader : (reader[r].pc = "getting") ~> (reader[r].pc = "open")

\* The layered index implements the abstract one: pushes and reindexes are
\* its updates, merges and deletions are invisible, a get answers at its end.
Abstract == INSTANCE AbstractIndex WITH
    db     <- Db,
    view   <- [r \in Reader |-> Snapshot(r)],
    asked  <- [r \in Reader |-> reader[r].key],
    answer <- [r \in Reader |-> reader[r].answer]

ImplementsAbstract == Abstract!Spec

=============================================================================
