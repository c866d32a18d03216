------------------------------- MODULE Stats -------------------------------
(***************************************************************************)
(* The statistics manifest of src/stats.rs: per row group of each Parquet  *)
(* file, the bounds of its columns, from which query_overlap tells which   *)
(* row groups may hold rows that match range predicates.                   *)
(*                                                                         *)
(* A row maps columns to values, which are naturals in their logical       *)
(* order, or Null.  The manifest holds bytes: the consumer encodes values  *)
(* (encode), and query_overlap compares byte strings.  Statistics are      *)
(* taken from file footers, which may lack columns; null counts, which no  *)
(* query uses, and the JSON form are left out.                             *)
(*                                                                         *)
(* Files change under the manifest: a row group may be written and         *)
(* listed again, and a file deleted, while the manifest only ever grows.   *)
(***************************************************************************)
EXTENDS Integers, Sequences, FiniteSets

CONSTANTS
    File, RowGroup,  \* file paths, row group indexes
    Column, Value, Null,
    RowGroups,       \* what is stored: sequences of rows
    Encodings,       \* [Value -> byte strings]: how a consumer may encode
    Queries,         \* the conjunctions asked: sets of ranges
    MaxAdds          \* bound on the row groups listed (model checking)

Row == [Column -> Value \cup {Null}]
ValueRange == [column : Column, lo : Value, hi : Value]
ByteString == Seq(Nat)

ASSUME ValueAssumption == Value \subseteq Nat /\ Null \notin Value
ASSUME RowAssumption == RowGroups \subseteq Seq(Row)
ASSUME EncodingAssumption == Encodings \subseteq [Value -> ByteString]
ASSUME QueryAssumption == Queries \subseteq SUBSET ValueRange
ASSUME AddsAssumption == MaxAdds \in Nat

VARIABLES
    encode,  \* the encoding that the consumer chose
    files,   \* StatsManifest::files
    stored,  \* [File \X RowGroup -> the rows there now], <<>> for none
    listed   \* history: the row groups added, in order

statsVars == <<encode, files, stored, listed>>

\* RowGroupStats and ColumnStats.
Encoded == {e[v] : e \in Encodings, v \in Value}
ColumnStats == [min : Encoded, max : Encoded]
RowGroupStats == [row_group : RowGroup,
                  columns : UNION {[C -> ColumnStats] : C \in SUBSET Column}]
FileStats == [path : File, row_groups : Seq(RowGroupStats)]

-----------------------------------------------------------------------------
(* Comparison of byte slices.                                              *)

\* a < b: the first difference decides, a proper prefix is smaller.
BytesLess(a, b) ==
    \E i \in 1 .. Len(b) :
        /\ \A j \in 1 .. i - 1 : j <= Len(a) /\ a[j] = b[j]
        /\ i <= Len(a) => a[i] < b[i]
        /\ i <= Len(a) + 1

-----------------------------------------------------------------------------
(* Building.                                                               *)

NonNull(rows, c) == {rows[i][c] : i \in DOMAIN rows} \ {Null}

\* What a Parquet footer says of the columns in lo and hi.
Bounds(rows, lo, hi) ==
    \A c \in DOMAIN lo :
        /\ lo[c] \in NonNull(rows, c) /\ hi[c] \in NonNull(rows, c)
        /\ \A v \in NonNull(rows, c) : lo[c] <= v /\ v <= hi[c]

\* Wrong variant: every row group gets a file entry of its own.
AddRowGroupApart(fs, f, rg) == Append(fs, [path |-> f, row_groups |-> <<rg>>])

\* StatsManifest::add_row_group: find the file's entry or create it.
AddRowGroup(fs, f, rg) ==
    LET entry == {i \in DOMAIN fs : fs[i].path = f}
    IN  IF entry = {} THEN Append(fs, [path |-> f, row_groups |-> <<rg>>])
        ELSE [fs EXCEPT ![CHOOSE i \in entry : TRUE] =
                  [path |-> f, row_groups |-> Append(@.row_groups, rg)]]

StatsInit ==
    /\ encode \in Encodings
    /\ files = <<>>                                \* StatsManifest::new
    /\ stored = [fg \in File \X RowGroup |-> <<>>]
    /\ listed = <<>>

\* A row group is written, and listed with the statistics of its footer, of
\* which lo and hi are the bounds.
ListRowGroup(f, g, rows, lo, hi) ==
    LET rg == [row_group |-> g,
               columns |-> [c \in DOMAIN lo |-> [min |-> encode[lo[c]],
                                                 max |-> encode[hi[c]]]]]
    IN  /\ Len(listed) < MaxAdds
        /\ Bounds(rows, lo, hi)
        /\ files' = AddRowGroup(files, f, rg)
        /\ stored' = [stored EXCEPT ![<<f, g>>] = rows]
        /\ listed' = Append(listed, [path |-> f, stats |-> rg])
        /\ UNCHANGED encode

\* The manifest is not told of a deletion.
DeleteFile(f) ==
    /\ \E g \in RowGroup : stored[<<f, g>>] # <<>>
    /\ stored' = [fg \in File \X RowGroup |-> IF fg[1] = f THEN <<>> ELSE stored[fg]]
    /\ UNCHANGED <<encode, files, listed>>

StatsNext ==
    \/ \E f \in File, g \in RowGroup, rows \in RowGroups, C \in SUBSET Column :
         \E lo, hi \in [C -> Value] : ListRowGroup(f, g, rows, lo, hi)
    \/ \E f \in File : DeleteFile(f)

StatsSpec == StatsInit /\ [][StatsNext]_statsVars

-----------------------------------------------------------------------------
(* Queries.                                                                *)

\* The RangePredicate of a range.
Predicate(r) == [column |-> r.column, min |-> encode[r.lo], max |-> encode[r.hi]]
Predicates(Q) == {Predicate(r) : r \in Q}

\* Wrong variant: bounds that only touch the range do not overlap it.
OverlapsStrictly(stats, pred) ==
    BytesLess(stats.min, pred.max) /\ BytesLess(pred.min, stats.max)

\* min <= pred.max AND max >= pred.min
Overlaps(stats, pred) ==
    ~ BytesLess(pred.max, stats.min) /\ ~ BytesLess(stats.max, pred.min)

\* Wrong variant: a column without statistics rules the row group out.
CandidateKnownOnly(rg, preds) ==
    \A pred \in preds :
        pred.column \in DOMAIN rg.columns /\ Overlaps(rg.columns[pred.column], pred)

\* A column without statistics rules nothing out.
Candidate(rg, preds) ==
    \A pred \in preds :
        pred.column \in DOMAIN rg.columns => Overlaps(rg.columns[pred.column], pred)

\* A RowGroupRef: row group j of file i.
Ref(i, j) == [file |-> files[i].path, row_group |-> files[i].row_groups[j].row_group]

\* StatsManifest::all_row_group_refs
AllRowGroupRefs ==
    UNION {{Ref(i, j) : j \in DOMAIN files[i].row_groups} : i \in DOMAIN files}

\* StatsManifest::query_overlap; the set of references it returns.
QueryOverlap(preds) ==
    IF preds = {} THEN AllRowGroupRefs
    ELSE UNION {{Ref(i, j) : j \in {m \in DOMAIN files[i].row_groups :
                                      Candidate(files[i].row_groups[m], preds)}} :
                  i \in DOMAIN files}

\* total_row_groups and file_count.
TotalRowGroups ==
    LET total[i \in 0 .. Len(files)] ==
          IF i = 0 THEN 0 ELSE total[i - 1] + Len(files[i].row_groups)
    IN  total[Len(files)]

FileCount == Len(files)

-----------------------------------------------------------------------------
(* Properties.                                                             *)

StatsTypeOK ==
    /\ encode \in Encodings
    /\ files \in Seq(FileStats)
    /\ stored \in [File \X RowGroup -> RowGroups \cup {<<>>}]
    /\ listed \in Seq([path : File, stats : RowGroupStats])

\* The encoding is byte-comparable, as RangePredicate's comment asks.
OrderPreserving == \A v, w \in Value : v <= w => ~ BytesLess(encode[w], encode[v])

InRange(row, r) ==
    row[r.column] # Null /\ r.lo <= row[r.column] /\ row[r.column] <= r.hi

Matches(row, Q) == \A r \in Q : InRange(row, r)

\* Each row group that holds a row in all the ranges is a candidate, whichever
\* encoding the consumer chose (stats.rs ColumnStats: "raw bytes, Parquet
\* encoding", "integers, strings all work the same way").
AlwaysFound ==
    \A Q \in Queries, f \in File, g \in RowGroup :
        (\E i \in DOMAIN stored[<<f, g>>] : Matches(stored[<<f, g>>][i], Q))
            => [file |-> f, row_group |-> g] \in QueryOverlap(Predicates(Q))

\* With a byte-comparable encoding, pruning never loses a row: each row group
\* that holds a row in all the ranges is a candidate - also when columns lack
\* statistics or hold nulls, and whatever older or newer versions of the row
\* group are listed besides (stats.rs query_overlap: "false negatives are not").
NoFalseNegative == OrderPreserving => AlwaysFound

\* The row groups added for file f, in order.
ListedFor(f) ==
    LET mine[n \in 0 .. Len(listed)] ==
          IF n = 0 THEN <<>>
          ELSE IF listed[n].path = f THEN Append(mine[n - 1], listed[n].stats)
          ELSE mine[n - 1]
    IN  mine[Len(listed)]

\* However the adds for several files interleave and repeat, the manifest has
\* one entry per file, holding that file's row groups in the order they were
\* added and no others, and its counters agree
\* (stats.rs add_row_group, file_count, total_row_groups).
ManifestMatchesAdds ==
    /\ TotalRowGroups = Len(listed)
    /\ FileCount = Cardinality({listed[n].path : n \in DOMAIN listed})
    /\ \A i, j \in DOMAIN files : files[i].path = files[j].path => i = j
    /\ {files[i].path : i \in DOMAIN files} = {listed[n].path : n \in DOMAIN listed}
    /\ \A i \in DOMAIN files : files[i].row_groups = ListedFor(files[i].path)

-----------------------------------------------------------------------------
(* The inductive invariant.                                                *)

\* The listed columns of rg, encoded by enc, bound the rows.
Describes(enc, rg, rows) ==
    \A c \in DOMAIN rg.columns :
        \E lo, hi \in Value :
            /\ rg.columns[c] = [min |-> enc[lo], max |-> enc[hi]]
            /\ \A i \in DOMAIN rows : rows[i][c] # Null => lo <= rows[i][c] /\ rows[i][c] <= hi

\* Whatever is stored is described by a listed row group.
StoredIsListed ==
    \A f \in File, g \in RowGroup :
        stored[<<f, g>>] # <<>> =>
          \E i \in DOMAIN files : \E j \in DOMAIN files[i].row_groups :
              /\ files[i].path = f
              /\ files[i].row_groups[j].row_group = g
              /\ Describes(encode, files[i].row_groups[j], stored[<<f, g>>])

\* Every row group that holds rows has a listed entry whose bounds cover them,
\* also after it was written again (stats.rs add_row_group against the files
\* it describes): why pruning is safe.
StatsInvariant == StatsTypeOK /\ StoredIsListed
=============================================================================
