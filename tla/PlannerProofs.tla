--------------------------- MODULE PlannerProofs ---------------------------
(***************************************************************************)
(* Pruning with the statistics manifest never loses a row: for all files,  *)
(* columns, values and encodings, and however row groups are written,      *)
(* written again, listed and deleted.  The planner's indexer drives the    *)
(* manifest only through its operations, so that this also holds in the    *)
(* composition with the secondary index.  There, the index keeps every     *)
(* location that was posted, and a plan made with both names every row     *)
(* that a query asks for.  That an index decodes what it encoded is        *)
(* LocationSetRoundTrip of ValuesProofs; of the variables of ValueCodec,   *)
(* which that module has too, nothing is said here.                        *)
(***************************************************************************)
EXTENDS Planner, ValuesProofs, FiniteSetTheorems, WellFoundedInduction, TLAPS

-----------------------------------------------------------------------------
(* The manifest (Stats).                                                   *)

\* add_row_group keeps every listed row group where it is, for old and new
\* file entries alike.
LEMMA AddKeeps ==
    ASSUME NEW fs \in Seq(FileStats), NEW f \in File, NEW rg \in RowGroupStats,
           NEW i \in DOMAIN fs, NEW j \in DOMAIN fs[i].row_groups
    PROVE  LET new == AddRowGroup(fs, f, rg)
           IN  /\ i \in DOMAIN new /\ new[i].path = fs[i].path
               /\ j \in DOMAIN new[i].row_groups
               /\ new[i].row_groups[j] = fs[i].row_groups[j]
  <1> DEFINE entry == {n \in DOMAIN fs : fs[n].path = f}
             e == CHOOSE n \in entry : TRUE
  <1>1. DOMAIN fs = 1 .. Len(fs) /\ Len(fs) \in Nat /\ fs[i] \in FileStats
    OBVIOUS
  <1>2. fs[i].row_groups \in Seq(RowGroupStats)
    BY <1>1 DEF FileStats
  <1>3. CASE entry = {}
    <2>1. AddRowGroup(fs, f, rg) = Append(fs, [path |-> f, row_groups |-> <<rg>>])
      BY <1>3 DEF AddRowGroup
    <2> QED
      BY <2>1, <1>1
  <1>4. CASE entry # {}
    <2>1. AddRowGroup(fs, f, rg) =
            [fs EXCEPT ![e] = [path |-> f, row_groups |-> Append(fs[e].row_groups, rg)]]
      BY <1>4 DEF AddRowGroup
    <2>2. e \in DOMAIN fs /\ fs[e].path = f
      BY <1>4
    <2> HIDE DEF e
    <2>3. CASE i = e
      <3>1. /\ AddRowGroup(fs, f, rg)[i].path = f
            /\ AddRowGroup(fs, f, rg)[i].row_groups = Append(fs[i].row_groups, rg)
            /\ i \in DOMAIN AddRowGroup(fs, f, rg)
        BY <2>1, <2>2, <2>3
      <3>2. Append(fs[i].row_groups, rg)[j] = fs[i].row_groups[j]
            /\ j \in DOMAIN Append(fs[i].row_groups, rg)
        BY <1>2
      <3> QED
        BY <3>1, <3>2, <2>2, <2>3
    <2>4. CASE i # e
      BY <2>1, <2>4
    <2> QED
      BY <2>3, <2>4
  <1> QED
    BY <1>3, <1>4

\* add_row_group lists the row group under its file.
LEMMA AddLists ==
    ASSUME NEW fs \in Seq(FileStats), NEW f \in File, NEW rg \in RowGroupStats,
           NEW new, new = AddRowGroup(fs, f, rg)
    PROVE  \E i \in DOMAIN new : \E j \in DOMAIN new[i].row_groups :
                new[i].path = f /\ new[i].row_groups[j] = rg
  <1> DEFINE entry == {n \in DOMAIN fs : fs[n].path = f}
             e == CHOOSE n \in entry : TRUE
             fresh == [path |-> f, row_groups |-> <<rg>>]
             grown == [path |-> f, row_groups |-> Append(fs[e].row_groups, rg)]
  <1>1. CASE entry = {}
    <2>1. new = Append(fs, fresh)
      BY <1>1 DEF AddRowGroup
    <2>2. Len(fs) + 1 \in DOMAIN new /\ new[Len(fs) + 1] = fresh
      BY <2>1
    <2>3. 1 \in DOMAIN fresh.row_groups /\ fresh.row_groups[1] = rg /\ fresh.path = f
      OBVIOUS
    <2> HIDE DEF fresh
    <2> QED
      BY <2>2, <2>3
  <1>2. CASE entry # {}
    <2>1. new = [fs EXCEPT ![e] = grown]
      BY <1>2 DEF AddRowGroup
    <2>2. e \in DOMAIN fs
      BY <1>2
    <2> HIDE DEF e
    <2>3. fs[e].row_groups \in Seq(RowGroupStats)
      <3>1. fs[e] \in FileStats
        BY <2>2
      <3> QED
        BY <3>1 DEF FileStats
    <2>4. e \in DOMAIN new /\ new[e] = grown
      BY <2>1, <2>2
    <2>5. Len(fs[e].row_groups) + 1 \in DOMAIN grown.row_groups
          /\ grown.row_groups[Len(fs[e].row_groups) + 1] = rg
          /\ grown.path = f
      BY <2>3
    <2> HIDE DEF grown
    <2> QED
      BY <2>4, <2>5
  <1> QED
    BY <1>1, <1>2

\* add_row_group gives a manifest.
LEMMA AddType ==
    ASSUME NEW fs \in Seq(FileStats), NEW f \in File, NEW rg \in RowGroupStats
    PROVE  AddRowGroup(fs, f, rg) \in Seq(FileStats)
  <1> DEFINE entry == {n \in DOMAIN fs : fs[n].path = f}
             e == CHOOSE n \in entry : TRUE
  <1>1. CASE entry = {}
    <2>1. [path |-> f, row_groups |-> <<rg>>] \in FileStats
      BY DEF FileStats
    <2> QED
      BY <1>1, <2>1 DEF AddRowGroup
  <1>2. CASE entry # {}
    <2>1. e \in DOMAIN fs /\ fs[e] \in FileStats
      BY <1>2
    <2>2. [path |-> f, row_groups |-> Append(fs[e].row_groups, rg)] \in FileStats
      BY <2>1 DEF FileStats
    <2>3. AddRowGroup(fs, f, rg) =
            [fs EXCEPT ![e] = [path |-> f, row_groups |-> Append(fs[e].row_groups, rg)]]
      BY <1>2 DEF AddRowGroup
    <2> QED
      BY <2>1, <2>2, <2>3
  <1> QED
    BY <1>1, <1>2

\* The statistics of a footer, as ListRowGroup makes them.
Listing(g, lo, hi) ==
    [row_group |-> g,
     columns |-> [c \in DOMAIN lo |-> [min |-> encode[lo[c]], max |-> encode[hi[c]]]]]

\* What is listed is a row group's statistics, and describes its rows.
LEMMA ListingDescribes ==
    ASSUME StatsTypeOK, NEW g \in RowGroup, NEW rows \in RowGroups,
           NEW C \in SUBSET Column, NEW lo \in [C -> Value], NEW hi \in [C -> Value],
           Bounds(rows, lo, hi)
    PROVE  Listing(g, lo, hi) \in RowGroupStats /\ Describes(encode, Listing(g, lo, hi), rows)
  <1> DEFINE cols == [c \in C |-> [min |-> encode[lo[c]], max |-> encode[hi[c]]]]
  <1>1. Listing(g, lo, hi) = [row_group |-> g, columns |-> cols]
    BY DEF Listing
  <1>2. \A c \in C : cols[c] \in ColumnStats
    BY DEF ColumnStats, Encoded, StatsTypeOK
  <1>3. cols \in [C -> ColumnStats]
    BY <1>2
  <1>4. Listing(g, lo, hi) \in RowGroupStats
    BY <1>1, <1>3 DEF RowGroupStats
  <1>5. \A c \in C : \A i \in DOMAIN rows :
            rows[i][c] # Null => lo[c] <= rows[i][c] /\ rows[i][c] <= hi[c]
    BY DEF Bounds, NonNull
  <1>6. Describes(encode, Listing(g, lo, hi), rows)
    <2> SUFFICES ASSUME NEW c \in C
                 PROVE  \E l, h \in Value :
                          /\ cols[c] = [min |-> encode[l], max |-> encode[h]]
                          /\ \A i \in DOMAIN rows : rows[i][c] # Null =>
                               l <= rows[i][c] /\ rows[i][c] <= h
      <3>1. DOMAIN Listing(g, lo, hi).columns = C
            /\ \A c \in C : Listing(g, lo, hi).columns[c] = cols[c]
        BY <1>1
      <3> HIDE DEF cols
      <3> QED
        BY <3>1 DEF Describes
    <2>1. lo[c] \in Value /\ hi[c] \in Value
      OBVIOUS
    <2> QED
      BY <2>1, <1>5
  <1> QED
    BY <1>4, <1>6

\* An empty manifest describes an empty store.
LEMMA InitEstablishes == StatsInit => StatsInvariant
  <1> SUFFICES ASSUME StatsInit PROVE StatsInvariant
    OBVIOUS
  <1>1. StatsTypeOK
    BY DEF StatsInit, StatsTypeOK
  <1>2. StoredIsListed
    BY DEF StatsInit, StoredIsListed
  <1> QED
    BY <1>1, <1>2 DEF StatsInvariant

\* Listing a row group keeps every stored row group described.
LEMMA ListPreserves ==
    ASSUME StatsInvariant, NEW f \in File, NEW g \in RowGroup, NEW rows \in RowGroups,
           NEW C \in SUBSET Column, NEW lo \in [C -> Value], NEW hi \in [C -> Value],
           ListRowGroup(f, g, rows, lo, hi)
    PROVE  StatsInvariant'
  <1> DEFINE rg == Listing(g, lo, hi)
  <1>1. /\ Bounds(rows, lo, hi)
        /\ files' = AddRowGroup(files, f, rg)
        /\ stored' = [stored EXCEPT ![<<f, g>>] = rows]
        /\ listed' = Append(listed, [path |-> f, stats |-> rg])
        /\ encode' = encode
    BY DEF ListRowGroup, Listing
  <1>2. rg \in RowGroupStats /\ Describes(encode, rg, rows)
    BY <1>1, ListingDescribes DEF StatsInvariant
  <1>3. rg.row_group = g
    BY DEF Listing
  <1> HIDE DEF rg
  <1>4. StatsTypeOK'
    <2>1. files' \in Seq(FileStats)
      BY <1>1, <1>2, AddType DEF StatsInvariant, StatsTypeOK
    <2>2. stored' \in [File \X RowGroup -> RowGroups \cup {<<>>}]
      BY <1>1 DEF StatsInvariant, StatsTypeOK
    <2>3. listed' \in Seq([path : File, stats : RowGroupStats])
      BY <1>1, <1>2 DEF StatsInvariant, StatsTypeOK
    <2> QED
      BY <2>1, <2>2, <2>3, <1>1 DEF StatsInvariant, StatsTypeOK
  <1>5. StoredIsListed'
    <2> SUFFICES ASSUME NEW ff \in File, NEW gg \in RowGroup, stored'[<<ff, gg>>] # <<>>
                 PROVE  \E i \in DOMAIN files' : \E j \in DOMAIN files'[i].row_groups :
                          /\ files'[i].path = ff
                          /\ files'[i].row_groups[j].row_group = gg
                          /\ Describes(encode, files'[i].row_groups[j], stored'[<<ff, gg>>])
      BY <1>1 DEF StoredIsListed
    <2>1. CASE ff = f /\ gg = g
      <3>1. stored'[<<ff, gg>>] = rows
        BY <1>1, <2>1 DEF StatsInvariant, StatsTypeOK
      <3>2. PICK i \in DOMAIN files' : \E j \in DOMAIN files'[i].row_groups :
                   files'[i].path = f /\ files'[i].row_groups[j] = rg
        <4>1. files \in Seq(FileStats) /\ files' = AddRowGroup(files, f, rg)
          BY <1>1 DEF StatsInvariant, StatsTypeOK
        <4> QED
          BY <4>1, <1>2, AddLists
      <3> QED
        BY <3>1, <3>2, <1>2, <1>3, <2>1
    <2>2. CASE ~ (ff = f /\ gg = g)
      <3>1. stored'[<<ff, gg>>] = stored[<<ff, gg>>]
        BY <1>1, <2>2 DEF StatsInvariant, StatsTypeOK
      <3>2. PICK i \in DOMAIN files : \E j \in DOMAIN files[i].row_groups :
                   /\ files[i].path = ff
                   /\ files[i].row_groups[j].row_group = gg
                   /\ Describes(encode, files[i].row_groups[j], stored[<<ff, gg>>])
        BY <3>1 DEF StatsInvariant, StoredIsListed
      <3>3. PICK j \in DOMAIN files[i].row_groups :
                   /\ files[i].path = ff
                   /\ files[i].row_groups[j].row_group = gg
                   /\ Describes(encode, files[i].row_groups[j], stored[<<ff, gg>>])
        BY <3>2
      <3>4. /\ i \in DOMAIN files' /\ files'[i].path = files[i].path
            /\ j \in DOMAIN files'[i].row_groups
            /\ files'[i].row_groups[j] = files[i].row_groups[j]
        BY <1>1, <1>2, AddKeeps DEF StatsInvariant, StatsTypeOK
      <3> QED
        BY <3>1, <3>3, <3>4
    <2> QED
      BY <2>1, <2>2
  <1> QED
    BY <1>4, <1>5 DEF StatsInvariant

\* So does deleting a file.
LEMMA DeletePreserves ==
    ASSUME StatsInvariant, NEW f \in File, DeleteFile(f)
    PROVE  StatsInvariant'
  <1>1. StatsTypeOK'
    BY DEF StatsInvariant, StatsTypeOK, DeleteFile
  <1>2. \A ff \in File, gg \in RowGroup :
            stored'[<<ff, gg>>] # <<>> => stored'[<<ff, gg>>] = stored[<<ff, gg>>]
    BY DEF DeleteFile
  <1>3. StoredIsListed'
    BY <1>2 DEF StatsInvariant, StoredIsListed, DeleteFile
  <1> QED
    BY <1>1, <1>3 DEF StatsInvariant

\* The manifest describes what is stored, whatever is written, written again
\* and deleted (stats.rs add_row_group).
THEOREM StatsInvariantHolds == StatsSpec => []StatsInvariant
  <1>1. StatsInit => StatsInvariant
    BY InitEstablishes
  <1>2. StatsInvariant /\ [StatsNext]_statsVars => StatsInvariant'
    <2> SUFFICES ASSUME StatsInvariant, [StatsNext]_statsVars PROVE StatsInvariant'
      OBVIOUS
    <2>1. CASE \E f \in File, g \in RowGroup, rows \in RowGroups, C \in SUBSET Column :
                 \E lo, hi \in [C -> Value] : ListRowGroup(f, g, rows, lo, hi)
      BY <2>1, ListPreserves
    <2>2. CASE \E f \in File : DeleteFile(f)
      BY <2>2, DeletePreserves
    <2>3. CASE UNCHANGED statsVars
      BY <2>3 DEF statsVars, StatsInvariant, StatsTypeOK, StoredIsListed
    <2> QED
      BY <2>1, <2>2, <2>3 DEF StatsNext
  <1> QED
    BY <1>1, <1>2, PTL DEF StatsSpec

\* With a byte-comparable encoding, a row group that is described by its
\* statistics is a candidate of every conjunction that one of its rows matches.
LEMMA DescribedIsCandidate ==
    ASSUME OrderPreserving, NEW rg, NEW rows \in RowGroups, Describes(encode, rg, rows),
           NEW Q \in Queries, NEW n \in DOMAIN rows, Matches(rows[n], Q)
    PROVE  Candidate(rg, Predicates(Q))
  <1> SUFFICES ASSUME NEW r \in Q, r.column \in DOMAIN rg.columns
               PROVE  Overlaps(rg.columns[r.column], Predicate(r))
    BY DEF Candidate, Predicates, Predicate
  <1> DEFINE v == rows[n][r.column]
  <1>1. r.lo \in Value /\ r.hi \in Value /\ r.column \in Column
    BY QueryAssumption DEF ValueRange
  <1>2. rows[n] \in Row
    BY RowAssumption
  <1>3. v # Null /\ r.lo <= v /\ v <= r.hi
    BY DEF Matches, InRange
  <1>4. v \in Value
    BY <1>1, <1>2, <1>3 DEF Row
  <1>5. PICK lo \in Value, hi \in Value :
            /\ rg.columns[r.column] = [min |-> encode[lo], max |-> encode[hi]]
            /\ lo <= v /\ v <= hi
    BY <1>3 DEF Describes
  <1>6. lo <= r.hi /\ r.lo <= hi
    <2>1. {lo, hi, v, r.lo, r.hi} \subseteq Nat
      BY <1>1, <1>4, <1>5, ValueAssumption
    <2> HIDE DEF v
    <2> QED
      BY <2>1, <1>3, <1>5
  <1>7. ~ BytesLess(encode[r.hi], encode[lo]) /\ ~ BytesLess(encode[hi], encode[r.lo])
    BY <1>1, <1>5, <1>6 DEF OrderPreserving
  <1> QED
    BY <1>5, <1>7 DEF Overlaps, Predicate

\* Pruning never loses a row (stats.rs query_overlap: "false negatives are
\* not" possible), provided that the encoding is byte-comparable.
THEOREM StatsNoFalseNegative == StatsSpec => []NoFalseNegative
  <1>1. StatsInvariant => NoFalseNegative
    <2> SUFFICES ASSUME StatsInvariant, OrderPreserving, NEW Q \in Queries,
                        NEW f \in File, NEW g \in RowGroup,
                        NEW n \in DOMAIN stored[<<f, g>>], Matches(stored[<<f, g>>][n], Q)
                 PROVE  [file |-> f, row_group |-> g] \in QueryOverlap(Predicates(Q))
      BY DEF NoFalseNegative, AlwaysFound
    <2>1. stored[<<f, g>>] # <<>> /\ stored[<<f, g>>] \in RowGroups
      BY DEF StatsInvariant, StatsTypeOK
    <2>2. PICK i \in DOMAIN files : \E j \in DOMAIN files[i].row_groups :
              /\ files[i].path = f
              /\ files[i].row_groups[j].row_group = g
              /\ Describes(encode, files[i].row_groups[j], stored[<<f, g>>])
      BY <2>1 DEF StatsInvariant, StoredIsListed
    <2>3. PICK j \in DOMAIN files[i].row_groups :
              /\ files[i].path = f
              /\ files[i].row_groups[j].row_group = g
              /\ Describes(encode, files[i].row_groups[j], stored[<<f, g>>])
      BY <2>2
    <2>4. Candidate(files[i].row_groups[j], Predicates(Q))
      BY <2>1, <2>3, DescribedIsCandidate
    <2>5. Ref(i, j) = [file |-> f, row_group |-> g]
      BY <2>3 DEF Ref
    <2>6. Ref(i, j) \in AllRowGroupRefs
      BY <2>3 DEF AllRowGroupRefs
    <2>7. Predicates(Q) # {} => Ref(i, j) \in QueryOverlap(Predicates(Q))
      BY <2>3, <2>4 DEF QueryOverlap
    <2> QED
      BY <2>5, <2>6, <2>7 DEF QueryOverlap
  <1> QED
    BY <1>1, StatsInvariantHolds, PTL

-----------------------------------------------------------------------------
(* The manifest mirrors the adds.                                          *)

\* sums[i] counts the row groups of the first i files.
Sums(fs, sums) ==
    /\ sums \in [0 .. Len(fs) -> Nat] /\ sums[0] = 0
    /\ \A i \in 1 .. Len(fs) : /\ Len(fs[i].row_groups) \in Nat
                               /\ sums[i] = sums[i - 1] + Len(fs[i].row_groups)

\* mine[n] holds the row groups of f among the first n of the list xs.
Collects(xs, f, mine) ==
    /\ mine \in [0 .. Len(xs) -> Seq(RowGroupStats)] /\ mine[0] = <<>>
    /\ \A n \in 1 .. Len(xs) :
         mine[n] = IF xs[n].path = f THEN Append(mine[n - 1], xs[n].stats) ELSE mine[n - 1]

\* A manifest lists the row groups rgs for file f.
Lists(fs, f, rgs) ==
    /\ \A i \in DOMAIN fs : fs[i].path = f => fs[i].row_groups = rgs
    /\ (\A i \in DOMAIN fs : fs[i].path # f) => rgs = <<>>

Paths(fs) == {fs[i].path : i \in DOMAIN fs}
Distinct(fs) == \A i, j \in DOMAIN fs : fs[i].path = fs[j].path => i = j

\* The manifest has an entry per listed file, as many as there are files, as
\* many row groups as were listed, and of each file those listed for it.
Mirror ==
    /\ Distinct(files)
    /\ Paths(files) = {listed[n].path : n \in DOMAIN listed}
    /\ IsFiniteSet(Paths(files)) /\ Cardinality(Paths(files)) = Len(files)
    /\ \E sums : Sums(files, sums) /\ sums[Len(files)] = Len(listed)
    /\ \A f \in File : \E mine : /\ Collects(listed, f, mine)
                                 /\ Lists(files, f, mine[Len(listed)])

\* add_row_group on a file without an entry, and on one with an entry k.
NewEntry(fs, new, f, rg) ==
    /\ f \notin Paths(fs)
    /\ Len(fs) \in Nat /\ DOMAIN fs = 1 .. Len(fs)
    /\ Len(new) = Len(fs) + 1 /\ DOMAIN new = 1 .. Len(fs) + 1
    /\ \A i \in 1 .. Len(fs) : new[i] = fs[i]
    /\ new[Len(fs) + 1].path = f /\ new[Len(fs) + 1].row_groups = <<rg>>

GrownEntry(fs, new, f, rg, k) ==
    /\ Len(fs) \in Nat /\ DOMAIN fs = 1 .. Len(fs)
    /\ Len(new) = Len(fs) /\ DOMAIN new = DOMAIN fs
    /\ k \in DOMAIN fs /\ fs[k].path = f
    /\ \A i \in DOMAIN fs : i # k => new[i] = fs[i]
    /\ new[k].path = f /\ new[k].row_groups = Append(fs[k].row_groups, rg)
    /\ fs[k].row_groups \in Seq(RowGroupStats)

GrownBy(fs, new, f, rg) ==
    NewEntry(fs, new, f, rg) \/ \E k : GrownEntry(fs, new, f, rg, k)

\* add_row_group does one or the other.
LEMMA AddShape ==
    ASSUME NEW fs \in Seq(FileStats), NEW f \in File, NEW rg \in RowGroupStats, NEW new,
           new = AddRowGroup(fs, f, rg)
    PROVE  GrownBy(fs, new, f, rg)
  <1> DEFINE entry == {n \in DOMAIN fs : fs[n].path = f}
             e == CHOOSE n \in entry : TRUE
  <1>1. DOMAIN fs = 1 .. Len(fs) /\ Len(fs) \in Nat
    OBVIOUS
  <1>2. CASE entry = {}
    <2> DEFINE x == [path |-> f, row_groups |-> <<rg>>]
    <2>1. new = Append(fs, x)
      BY <1>2 DEF AddRowGroup
    <2>2. x \in FileStats /\ x.path = f /\ x.row_groups = <<rg>>
      BY DEF FileStats
    <2>3. f \notin Paths(fs)
      BY <1>2 DEF Paths
    <2> HIDE DEF x, FileStats
    <2>4. /\ Len(new) = Len(fs) + 1 /\ DOMAIN new = 1 .. Len(fs) + 1
          /\ new[Len(fs) + 1] = x
          /\ \A i \in 1 .. Len(fs) : new[i] = fs[i]
      BY <2>1, <2>2
    <2> QED
      BY <1>1, <2>2, <2>3, <2>4 DEF GrownBy, NewEntry
  <1>3. CASE entry # {}
    <2> DEFINE x == [path |-> f, row_groups |-> Append(fs[e].row_groups, rg)]
    <2>1. new = [fs EXCEPT ![e] = x]
      BY <1>3 DEF AddRowGroup
    <2>2. e \in DOMAIN fs /\ fs[e].path = f
      BY <1>3
    <2> HIDE DEF e, entry
    <2>3. fs[e].row_groups \in Seq(RowGroupStats)
      <3>1. fs[e] \in FileStats
        BY <2>2
      <3> QED
        BY <3>1 DEF FileStats
    <2>4. x.path = f /\ x.row_groups = Append(fs[e].row_groups, rg)
      OBVIOUS
    <2> HIDE DEF x, FileStats
    <2>5. new \in Seq(FileStats) /\ DOMAIN new = DOMAIN fs
      BY <2>1, AddType
    <2>6. Len(new) = Len(fs)
      <3>1. DOMAIN new = 1 .. Len(new) /\ Len(new) \in Nat
        BY <2>5
      <3> QED
        BY <1>1, <2>5, <3>1
    <2>7. new[e] = x /\ \A i \in DOMAIN fs : i # e => new[i] = fs[i]
      BY <2>1, <2>2
    <2>8. GrownEntry(fs, new, f, rg, e)
      BY <1>1, <2>2, <2>3, <2>4, <2>5, <2>6, <2>7 DEF GrownEntry
    <2> QED
      BY <2>8 DEF GrownBy
  <1> QED
    BY <1>2, <1>3

\* No file gets two entries, and the files with an entry are those added.
LEMMA AddKeepsPaths ==
    ASSUME NEW fs, NEW new, NEW f, NEW rg, Distinct(fs),
           IsFiniteSet(Paths(fs)), Cardinality(Paths(fs)) = Len(fs),
           GrownBy(fs, new, f, rg)
    PROVE  /\ Distinct(new) /\ Paths(new) = Paths(fs) \cup {f}
           /\ IsFiniteSet(Paths(new)) /\ Cardinality(Paths(new)) = Len(new)
  <1>1. CASE NewEntry(fs, new, f, rg)
    <2> DEFINE n == Len(fs)
    <2>1. /\ n \in Nat /\ DOMAIN fs = 1 .. n /\ DOMAIN new = 1 .. n + 1
          /\ \A i \in 1 .. n : new[i] = fs[i]
          /\ new[n + 1].path = f /\ f \notin Paths(fs) /\ Len(new) = n + 1
      BY <1>1 DEF NewEntry
    <2> HIDE DEF n
    <2>2. 1 .. n + 1 = (1 .. n) \cup {n + 1}
      <3>1. n \in Nat
        BY <2>1
      <3> QED
        BY <3>1
    <2>3. \A i \in 1 .. n : fs[i].path # f /\ new[i].path = fs[i].path
      BY <2>1, Zenon DEF Paths
    <2>4. Distinct(new)
      <3> SUFFICES ASSUME NEW i \in (1 .. n) \cup {n + 1}, NEW j \in (1 .. n) \cup {n + 1},
                          new[i].path = new[j].path
                   PROVE  i = j
        BY <2>1, <2>2, Zenon DEF Distinct
      <3>1. CASE i \in 1 .. n /\ j \in 1 .. n
        BY <2>1, <2>3, <3>1, Zenon DEF Distinct
      <3>2. CASE i = n + 1 \/ j = n + 1
        BY <2>1, <2>3, <3>2, Zenon
      <3> QED
        BY <3>1, <3>2, Zenon
    <2>5. Paths(new) = Paths(fs) \cup {f}
      <3>1. ASSUME NEW p \in Paths(new) PROVE p \in Paths(fs) \cup {f}
        <4>1. PICK i \in (1 .. n) \cup {n + 1} : p = new[i].path
          BY <2>1, <2>2, Zenon DEF Paths
        <4>2. CASE i \in 1 .. n
          BY <2>1, <2>3, <4>1, <4>2, Zenon DEF Paths
        <4>3. CASE i = n + 1
          BY <2>1, <4>1, <4>3, Zenon
        <4> QED
          BY <4>2, <4>3, Zenon
      <3>2. Paths(fs) \subseteq Paths(new)
        BY <2>1, <2>2, <2>3, Zenon DEF Paths
      <3>3. f \in Paths(new)
        BY <2>1, <2>2, Zenon DEF Paths
      <3> QED
        BY <3>1, <3>2, <3>3, Zenon
    <2>6. IsFiniteSet(Paths(new)) /\ Cardinality(Paths(new)) = n + 1
      <3> DEFINE P == Paths(fs)
      <3>1. IsFiniteSet(P) /\ Cardinality(P) = n /\ f \notin P /\ Paths(new) = P \cup {f}
        BY <2>1, <2>5 DEF n
      <3> HIDE DEF P
      <3> QED
        BY <3>1, FS_AddElement
    <2> QED
      BY <2>1, <2>4, <2>5, <2>6
  <1>2. ASSUME NEW k, GrownEntry(fs, new, f, rg, k)
        PROVE  Distinct(new) /\ Paths(new) = Paths(fs) /\ f \in Paths(fs) /\ Len(new) = Len(fs)
    <2>1. /\ DOMAIN new = DOMAIN fs /\ Len(new) = Len(fs)
          /\ k \in DOMAIN fs /\ fs[k].path = f
          /\ \A i \in DOMAIN fs : new[i].path = fs[i].path
      BY <1>2 DEF GrownEntry
    <2> QED
      BY <2>1 DEF Distinct, Paths
  <1>3. CASE \E k : GrownEntry(fs, new, f, rg, k)
    <2>1. Distinct(new) /\ Paths(new) = Paths(fs) /\ f \in Paths(fs) /\ Len(new) = Len(fs)
      BY <1>2, <1>3
    <2>2. Paths(fs) = Paths(fs) \cup {f}
      BY <2>1
    <2> QED
      BY <2>1, <2>2
  <1> QED
    BY <1>1, <1>3 DEF GrownBy

\* The manifest grows by one row group.
LEMMA AddCounts ==
    ASSUME NEW fs, NEW new, NEW f, NEW rg, NEW sums, Sums(fs, sums),
           GrownBy(fs, new, f, rg)
    PROVE  \E more : Sums(new, more) /\ more[Len(new)] = sums[Len(fs)] + 1
  <1> DEFINE n == Len(fs)
  <1>1. /\ sums \in [0 .. n -> Nat] /\ sums[0] = 0
        /\ \A i \in 1 .. n : /\ Len(fs[i].row_groups) \in Nat
                             /\ sums[i] = sums[i - 1] + Len(fs[i].row_groups)
    BY DEF Sums
  <1>2. CASE NewEntry(fs, new, f, rg)
    <2> DEFINE more == [i \in 0 .. n + 1 |-> IF i = n + 1 THEN sums[n] + 1 ELSE sums[i]]
    <2>1. /\ n \in Nat /\ Len(new) = n + 1
          /\ \A i \in 1 .. n : new[i] = fs[i]
          /\ new[n + 1].row_groups = <<rg>>
      BY <1>2 DEF NewEntry
    <2> HIDE DEF n
    <2>2. /\ more \in [0 .. n + 1 -> Nat] /\ more[0] = 0 /\ more[n + 1] = sums[n] + 1
          /\ \A i \in 0 .. n : more[i] = sums[i]
      BY <1>1, <2>1
    <2>3. Len(new[n + 1].row_groups) = 1
      BY <2>1
    <2> HIDE DEF more
    <2>4. ASSUME NEW i \in 1 .. n + 1
          PROVE  /\ Len(new[i].row_groups) \in Nat
                 /\ more[i] = more[i - 1] + Len(new[i].row_groups)
      <3>1. CASE i = n + 1
        <4>1. i - 1 = n /\ n \in 0 .. n
          BY <2>1, <3>1
        <4>2. more[i] = sums[n] + 1 /\ more[i - 1] = sums[n]
          BY <2>2, <3>1, <4>1
        <4>3. Len(new[i].row_groups) = 1
          BY <2>3, <3>1
        <4> QED
          BY <4>2, <4>3
      <3>2. CASE i \in 1 .. n
        <4>1. i \in 0 .. n /\ i - 1 \in 0 .. n
          BY <2>1, <3>2
        <4> QED
          BY <1>1, <2>1, <2>2, <3>2, <4>1
      <3> QED
        BY <2>1, <3>1, <3>2
    <2>5. Sums(new, more)
      BY <2>1, <2>2, <2>4 DEF Sums
    <2> QED
      BY <2>1, <2>2, <2>5 DEF n
  <1>3. ASSUME NEW k, GrownEntry(fs, new, f, rg, k)
        PROVE  \E more : Sums(new, more) /\ more[Len(new)] = sums[Len(fs)] + 1
    <2> DEFINE more == [i \in 0 .. n |-> IF i >= k THEN sums[i] + 1 ELSE sums[i]]
    <2>1. /\ n \in Nat /\ Len(new) = n /\ k \in 1 .. n
          /\ \A i \in 1 .. n : i # k => new[i] = fs[i]
      BY <1>3 DEF GrownEntry
    <2>2. Len(new[k].row_groups) = Len(fs[k].row_groups) + 1
          /\ Len(fs[k].row_groups) \in Nat
      <3>1. /\ fs[k].row_groups \in Seq(RowGroupStats)
            /\ new[k].row_groups = Append(fs[k].row_groups, rg)
        BY <1>3 DEF GrownEntry
      <3> DEFINE s == fs[k].row_groups
      <3> HIDE DEF RowGroupStats, s
      <3>2. s \in Seq(RowGroupStats)
        BY <3>1 DEF s
      <3>3. Len(Append(s, rg)) = Len(s) + 1 /\ Len(s) \in Nat
        BY <3>2
      <3> QED
        BY <3>1, <3>3 DEF s
    <2> HIDE DEF n
    <2>3. more \in [0 .. n -> Nat] /\ more[0] = 0 /\ more[n] = sums[n] + 1
      BY <1>1, <2>1
    <2>4. ASSUME NEW i \in 1 .. n
          PROVE  /\ Len(new[i].row_groups) \in Nat
                 /\ more[i] = more[i - 1] + Len(new[i].row_groups)
      <3>1. /\ i \in 0 .. n /\ i - 1 \in 0 .. n
            /\ sums[i] = sums[i - 1] + Len(fs[i].row_groups)
            /\ Len(fs[i].row_groups) \in Nat
            /\ sums[i] \in Nat /\ sums[i - 1] \in Nat
        BY <1>1, <2>1
      <3>2. /\ more[i] = IF i >= k THEN sums[i] + 1 ELSE sums[i]
            /\ more[i - 1] = IF i - 1 >= k THEN sums[i - 1] + 1 ELSE sums[i - 1]
        BY <3>1
      <3> HIDE DEF more
      <3>3. CASE i = k
        <4>1. i >= k /\ ~ (i - 1 >= k)
          BY <2>1, <3>3
        <4>2. more[i] = sums[i] + 1 /\ more[i - 1] = sums[i - 1]
          BY <3>2, <4>1
        <4> DEFINE l == Len(fs[i].row_groups)
        <4>3. Len(new[i].row_groups) = l + 1 /\ l \in Nat
          BY <2>2, <3>3
        <4>4. sums[i] = sums[i - 1] + l /\ sums[i] \in Nat /\ sums[i - 1] \in Nat
          BY <3>1
        <4> HIDE DEF l
        <4> QED
          BY <4>2, <4>3, <4>4
      <3>4. CASE i < k
        <4>1. new[i] = fs[i] /\ ~ (i >= k) /\ ~ (i - 1 >= k)
          BY <2>1, <3>4
        <4> QED
          BY <3>1, <3>2, <4>1
      <3>5. CASE i > k
        <4>1. new[i] = fs[i] /\ i >= k /\ i - 1 >= k
          BY <2>1, <3>5
        <4>2. more[i] = sums[i] + 1 /\ more[i - 1] = sums[i - 1] + 1
          BY <3>2, <4>1
        <4> DEFINE a == sums[i]
                   b == sums[i - 1]
                   l == Len(fs[i].row_groups)
        <4>3. a + 1 = b + 1 + l
          <5>1. a \in Nat /\ b \in Nat /\ l \in Nat /\ a = b + l
            BY <3>1
          <5> HIDE DEF a, b, l
          <5> QED
            BY <5>1
        <4> QED
          BY <3>1, <4>1, <4>2, <4>3
      <3> QED
        BY <2>1, <3>3, <3>4, <3>5
    <2> HIDE DEF more
    <2>5. Sums(new, more)
      BY <2>1, <2>3, <2>4 DEF Sums
    <2> QED
      BY <2>1, <2>3, <2>5 DEF n
  <1> QED
    BY <1>2, <1>3 DEF GrownBy

\* The row group is listed for its file behind those listed before, and for no
\* other file.
LEMMA AddListsOnce ==
    ASSUME NEW fs, NEW new, NEW f, NEW rg, NEW g, NEW rgs, Distinct(fs), Lists(fs, g, rgs),
           GrownBy(fs, new, f, rg)
    PROVE  Lists(new, g, IF g = f THEN Append(rgs, rg) ELSE rgs)
  <1>1. /\ \A i \in DOMAIN fs : fs[i].path = g => fs[i].row_groups = rgs
        /\ (\A i \in DOMAIN fs : fs[i].path # g) => rgs = <<>>
    BY DEF Lists
  <1>2. CASE NewEntry(fs, new, f, rg)
    <2> DEFINE n == Len(fs)
    <2>1. /\ n \in Nat /\ DOMAIN fs = 1 .. n /\ DOMAIN new = 1 .. n + 1
          /\ \A i \in 1 .. n : new[i] = fs[i] /\ fs[i].path # f
          /\ new[n + 1].path = f /\ new[n + 1].row_groups = <<rg>>
      BY <1>2 DEF NewEntry, Paths
    <2> HIDE DEF n
    <2>2. \A i \in 1 .. n + 1 : i \in 1 .. n \/ i = n + 1
      BY <2>1
    <2>3. 1 .. n \subseteq 1 .. n + 1 /\ n + 1 \in 1 .. n + 1
      BY <2>1
    <2>4. CASE g = f
      <3>1. rgs = <<>>
        BY <1>1, <2>1, <2>4, Zenon
      <3>2. Append(rgs, rg) = <<rg>>
        BY <3>1
      <3>3. \A i \in 1 .. n + 1 : new[i].path = f => i = n + 1
        BY <2>1, <2>2
      <3> QED
        BY <2>1, <2>3, <2>4, <3>2, <3>3, Zenon DEF Lists
    <2>5. CASE g # f
      <3>1. \A i \in 1 .. n + 1 : new[i].path = g => i \in 1 .. n /\ fs[i].path = g
        BY <2>1, <2>2, <2>5
      <3>2. (\A i \in 1 .. n + 1 : new[i].path # g) => \A i \in 1 .. n : fs[i].path # g
        BY <2>1, <2>3
      <3> QED
        BY <1>1, <2>1, <2>5, <3>1, <3>2, Zenon DEF Lists
    <2> QED
      BY <2>4, <2>5
  <1>3. ASSUME NEW k, GrownEntry(fs, new, f, rg, k)
        PROVE  Lists(new, g, IF g = f THEN Append(rgs, rg) ELSE rgs)
    <2>1. /\ DOMAIN new = DOMAIN fs /\ k \in DOMAIN fs /\ fs[k].path = f
          /\ \A i \in DOMAIN fs : i # k => new[i] = fs[i]
          /\ new[k].path = f /\ new[k].row_groups = Append(fs[k].row_groups, rg)
      BY <1>3 DEF GrownEntry
    <2>2. CASE g = f
      <3>1. \A i \in DOMAIN fs : new[i].path = f => i = k
        BY <2>1 DEF Distinct
      <3>2. fs[k].row_groups = rgs
        BY <1>1, <2>1, <2>2
      <3> QED
        BY <2>1, <2>2, <3>1, <3>2, Zenon DEF Lists
    <2>3. CASE g # f
      <3>1. \A i \in DOMAIN fs : new[i].path = g => fs[i].path = g /\ new[i] = fs[i]
        BY <2>1, <2>3
      <3>2. \A i \in DOMAIN fs : fs[i].path = g => new[i].path = g
        BY <2>1, <2>3
      <3> QED
        BY <1>1, <2>1, <2>3, <3>1, <3>2, Zenon DEF Lists
    <2> QED
      BY <2>2, <2>3
  <1> QED
    BY <1>2, <1>3 DEF GrownBy

\* ys is the list xs with a behind.
Longer(xs, ys, a) ==
    /\ Len(xs) \in Nat /\ Len(ys) = Len(xs) + 1 /\ ys[Len(xs) + 1] = a
    /\ \A i \in 1 .. Len(xs) : ys[i] = xs[i]

\* What was collected for a file, with one more row group listed.
LEMMA CollectsLonger ==
    ASSUME NEW xs, NEW ys, NEW a, Longer(xs, ys, a),
           a.stats \in RowGroupStats, NEW g, NEW mine, Collects(xs, g, mine)
    PROVE  \E more : /\ Collects(ys, g, more)
                     /\ more[Len(ys)] = IF g = a.path THEN Append(mine[Len(xs)], a.stats)
                                        ELSE mine[Len(xs)]
  <1> DEFINE n == Len(xs)
             last == IF a.path = g THEN Append(mine[n], a.stats) ELSE mine[n]
             more == [i \in 0 .. n + 1 |-> IF i = n + 1 THEN last ELSE mine[i]]
  <1> HIDE DEF RowGroupStats
  <1>1. /\ n \in Nat /\ Len(ys) = n + 1 /\ ys[n + 1] = a
        /\ \A i \in 1 .. n : ys[i] = xs[i]
    BY DEF Longer
  <1> HIDE DEF n
  <1>2. /\ mine \in [0 .. n -> Seq(RowGroupStats)] /\ mine[0] = <<>>
        /\ \A i \in 1 .. n :
             mine[i] = IF xs[i].path = g THEN Append(mine[i - 1], xs[i].stats) ELSE mine[i - 1]
    BY DEF Collects, n
  <1>3. last \in Seq(RowGroupStats)
    <2>1. mine[n] \in Seq(RowGroupStats)
      BY <1>1, <1>2
    <2> QED
      BY <2>1
  <1>4. /\ more \in [0 .. n + 1 -> Seq(RowGroupStats)] /\ more[0] = <<>>
        /\ more[n + 1] = last /\ \A i \in 0 .. n : more[i] = mine[i]
    <2> HIDE DEF last
    <2> QED
      BY <1>1, <1>2, <1>3
  <1> HIDE DEF more
  <1>5. ASSUME NEW i \in 1 .. n + 1
        PROVE  more[i] = IF ys[i].path = g THEN Append(more[i - 1], ys[i].stats) ELSE more[i - 1]
    <2>1. CASE i = n + 1
      <3>1. i - 1 = n /\ n \in 0 .. n
        BY <1>1, <2>1
      <3>2. more[i - 1] = mine[n]
        BY <1>4, <3>1
      <3> QED
        BY <1>1, <1>4, <2>1, <3>2
    <2>2. CASE i \in 1 .. n
      <3>1. i \in 0 .. n /\ i - 1 \in 0 .. n
        BY <1>1, <2>2
      <3>2. more[i] = mine[i] /\ more[i - 1] = mine[i - 1] /\ ys[i] = xs[i]
        BY <1>1, <1>4, <2>2, <3>1
      <3> QED
        BY <1>2, <2>2, <3>2
    <2> QED
      BY <1>1, <2>1, <2>2
  <1>6. Collects(ys, g, more)
    BY <1>1, <1>4, <1>5 DEF Collects
  <1>7. more[Len(ys)] = IF g = a.path THEN Append(mine[n], a.stats) ELSE mine[n]
    BY <1>1, <1>4
  <1> QED
    BY <1>6, <1>7 DEF n

\* Every nonempty set of naturals has a least member.
LEMMA LeastOfNat ==
    ASSUME NEW S \in SUBSET Nat, S # {}
    PROVE  \E n \in S : \A m \in S : n <= m
  <1>1. PICK n \in S : \A m \in S : ~ (<<m, n>> \in OpToRel(<, Nat))
    BY NatLessThanWellFounded, WFMin
  <1>2. \A m \in S : ~ (m < n)
    BY <1>1 DEF OpToRel
  <1> QED
    BY <1>2

\* An empty manifest mirrors no adds.
LEMMA MirrorInit == StatsInit => Mirror
  <1> SUFFICES ASSUME StatsInit PROVE Mirror
    OBVIOUS
  <1>1. files = <<>> /\ listed = <<>> /\ Len(files) = 0 /\ Len(listed) = 0
    BY DEF StatsInit
  <1>2. Distinct(files) /\ Paths(files) = {} /\ {listed[n].path : n \in DOMAIN listed} = {}
    BY <1>1 DEF Distinct, Paths
  <1>3. \E sums : Sums(files, sums) /\ sums[Len(files)] = Len(listed)
    <2> DEFINE sums == [i \in 0 .. 0 |-> 0]
    <2>1. sums \in [0 .. 0 -> Nat] /\ sums[0] = 0
      OBVIOUS
    <2> HIDE DEF sums
    <2>2. Sums(files, sums) /\ sums[Len(files)] = Len(listed)
      BY <1>1, <2>1 DEF Sums
    <2> QED
      BY <2>2
  <1>4. ASSUME NEW f \in File
        PROVE  \E mine : Collects(listed, f, mine) /\ Lists(files, f, mine[Len(listed)])
    <2> DEFINE mine == [i \in 0 .. 0 |-> <<>>]
    <2>1. mine \in [0 .. 0 -> Seq(RowGroupStats)] /\ mine[0] = <<>>
      OBVIOUS
    <2> HIDE DEF mine
    <2>2. Collects(listed, f, mine)
      BY <1>1, <2>1 DEF Collects
    <2>3. Lists(files, f, mine[Len(listed)])
      BY <1>1, <2>1 DEF Lists
    <2> QED
      BY <2>2, <2>3
  <1> QED
    BY <1>1, <1>2, <1>3, <1>4, FS_EmptySet DEF Mirror

\* The manifest keeps mirroring the adds when a row group is listed.
LEMMA ListKeepsMirror ==
    ASSUME StatsTypeOK, Mirror, NEW f \in File, NEW g \in RowGroup, NEW rows \in RowGroups,
           NEW C \in SUBSET Column, NEW lo \in [C -> Value], NEW hi \in [C -> Value],
           ListRowGroup(f, g, rows, lo, hi)
    PROVE  Mirror'
  <1> DEFINE rg == Listing(g, lo, hi)
             a == [path |-> f, stats |-> rg]
             A == [path : File, stats : RowGroupStats]
             last == Len(listed)
  <1>1. /\ files \in Seq(FileStats) /\ listed \in Seq(A)
        /\ files' = AddRowGroup(files, f, rg) /\ listed' = Append(listed, a)
        /\ Bounds(rows, lo, hi)
    BY DEF StatsTypeOK, ListRowGroup, Listing
  <1>2. rg \in RowGroupStats
    BY <1>1, ListingDescribes
  <1> HIDE DEF rg, FileStats, RowGroupStats
  <1>3. a \in A /\ a.path = f /\ a.stats = rg
    BY <1>2
  <1> HIDE DEF a, A
  <1>4. GrownBy(files, files', f, rg)
    BY <1>1, <1>2, AddShape
  <1>5. /\ Distinct(files) /\ Paths(files) = {listed[n].path : n \in DOMAIN listed}
        /\ IsFiniteSet(Paths(files)) /\ Cardinality(Paths(files)) = Len(files)
    BY DEF Mirror
  <1>6. /\ Distinct(files') /\ Paths(files') = Paths(files) \cup {f}
        /\ IsFiniteSet(Paths(files')) /\ Cardinality(Paths(files')) = Len(files')
    BY <1>4, <1>5, AddKeepsPaths
  <1>7. /\ Len(listed') = last + 1 /\ last \in Nat
        /\ DOMAIN listed = 1 .. last /\ DOMAIN listed' = 1 .. last + 1
        /\ listed'[last + 1] = a /\ \A n \in 1 .. last : listed'[n] = listed[n]
    BY <1>1, <1>3
  <1>8. {listed'[n].path : n \in DOMAIN listed'} = {listed[n].path : n \in DOMAIN listed} \cup {f}
    <2>1. DOMAIN listed' = DOMAIN listed \cup {last + 1}
      BY <1>7
    <2>2. /\ \A n \in DOMAIN listed : listed'[n].path = listed[n].path
          /\ listed'[last + 1].path = f
      BY <1>3, <1>7
    <2> DEFINE S == {listed[n].path : n \in DOMAIN listed}
               T == {listed'[n].path : n \in DOMAIN listed'}
    <2>3. ASSUME NEW p \in T PROVE p \in S \cup {f}
      <3>1. PICK n \in DOMAIN listed \cup {last + 1} : p = listed'[n].path
        BY <2>1, Zenon
      <3>2. CASE n \in DOMAIN listed
        BY <2>2, <3>1, <3>2, Zenon
      <3>3. CASE n = last + 1
        BY <2>2, <3>1, <3>3, Zenon
      <3> QED
        BY <3>2, <3>3, Zenon
    <2>4. S \subseteq T
      BY <2>1, <2>2, Zenon
    <2>5. f \in T
      BY <2>1, <2>2, Zenon
    <2> HIDE DEF S, T
    <2>6. T = S \cup {f}
      BY <2>3, <2>4, <2>5, Zenon
    <2> QED
      BY <2>6 DEF S, T
  <1>9. \E sums : Sums(files', sums) /\ sums[Len(files')] = last + 1
    <2>1. PICK sums : Sums(files, sums) /\ sums[Len(files)] = last
      BY DEF Mirror
    <2> QED
      BY <1>4, <2>1, AddCounts
  <1>10. ASSUME NEW ff \in File
         PROVE  \E mine : /\ Collects(listed', ff, mine)
                          /\ Lists(files', ff, mine[last + 1])
    <2>1. PICK mine : Collects(listed, ff, mine) /\ Lists(files, ff, mine[last])
      BY DEF Mirror
    <2>2. PICK more : /\ Collects(listed', ff, more)
                      /\ more[Len(listed')] = IF ff = a.path THEN Append(mine[last], a.stats)
                                                            ELSE mine[last]
      <3>1. Longer(listed, listed', a) /\ a.stats \in RowGroupStats
        BY <1>2, <1>3, <1>7 DEF Longer
      <3> QED
        BY <2>1, <3>1, CollectsLonger
    <2>3. Lists(files', ff, IF ff = f THEN Append(mine[last], rg) ELSE mine[last])
      BY <1>4, <1>5, <2>1, AddListsOnce
    <2> QED
      BY <1>3, <1>7, <2>2, <2>3
  <1> QED
    BY <1>5, <1>6, <1>7, <1>8, <1>9, <1>10 DEF Mirror

\* TotalRowGroups computes the sum.
LEMMA TotalIs ==
    ASSUME Len(files) \in Nat, NEW sums, Sums(files, sums)
    PROVE  TotalRowGroups = sums[Len(files)]
  <1> DEFINE n == Len(files)
             D == 0 .. Len(files)
             Is(t) == t = [i \in D |-> IF i = 0 THEN 0
                                       ELSE t[i - 1] + Len(files[i].row_groups)]
             d == CHOOSE t : Is(t)
  <1>1. /\ sums = [i \in D |-> sums[i]] /\ sums[0] = 0
        /\ \A i \in 1 .. n : sums[i] = sums[i - 1] + Len(files[i].row_groups)
    BY DEF Sums
  <1>2. Is(sums)
    <2> DEFINE g == [i \in D |-> IF i = 0 THEN 0 ELSE sums[i - 1] + Len(files[i].row_groups)]
    <2>1. ASSUME NEW i \in D PROVE sums[i] = g[i]
      <3>1. CASE i = 0
        BY <1>1, <3>1
      <3>2. CASE i \in 1 .. n
        BY <1>1, <3>2
      <3> QED
        BY <3>1, <3>2
    <2>2. g = [i \in D |-> g[i]]
      OBVIOUS
    <2>3. sums = g
      <3> HIDE DEF g
      <3> QED
        BY <1>1, <2>1, <2>2
    <2> QED
      BY <2>3, Zenon
  <1>3. Is(d)
    BY <1>2, Zenon
  <1>4. TotalRowGroups = d[n]
    BY DEF TotalRowGroups
  <1>5. \A i \in D : d[i] = IF i = 0 THEN 0 ELSE d[i - 1] + Len(files[i].row_groups)
    <2> HIDE DEF d
    <2> QED
      BY <1>3
  <1> HIDE DEF d, Is
  <1>6. ASSUME NEW i \in D, d[i] # sums[i] PROVE FALSE
    <2> DEFINE Wrong == {m \in D : d[m] # sums[m]}
    <2>1. Wrong \in SUBSET Nat /\ Wrong # {}
      BY <1>6
    <2>2. PICK m \in Wrong : \A l \in Wrong : m <= l
      BY <2>1, LeastOfNat
    <2>3. m \in D /\ d[m] # sums[m]
      BY <2>2
    <2>4. m # 0
      BY <1>1, <1>5, <2>3
    <2>5. m - 1 \in D /\ m \in 1 .. n /\ m - 1 < m
      BY <2>3, <2>4
    <2>6. d[m - 1] = sums[m - 1]
      <3>1. m - 1 \notin Wrong
        BY <2>2, <2>3, <2>5
      <3> QED
        BY <2>5, <3>1
    <2> QED
      BY <1>1, <1>5, <2>3, <2>4, <2>5, <2>6
  <1> QED
    BY <1>4, <1>6

\* ListedFor collects the row groups of a file.
LEMMA ListedForIs ==
    ASSUME Len(listed) \in Nat, NEW f, NEW mine, Collects(listed, f, mine)
    PROVE  ListedFor(f) = mine[Len(listed)]
  <1> DEFINE n == Len(listed)
             D == 0 .. Len(listed)
             Is(t) == t = [i \in D |->
                             IF i = 0 THEN <<>>
                             ELSE IF listed[i].path = f THEN Append(t[i - 1], listed[i].stats)
                             ELSE t[i - 1]]
             d == CHOOSE t : Is(t)
  <1>1. /\ mine = [i \in D |-> mine[i]] /\ mine[0] = <<>>
        /\ \A i \in 1 .. n : mine[i] = IF listed[i].path = f
                                       THEN Append(mine[i - 1], listed[i].stats)
                                       ELSE mine[i - 1]
    BY DEF Collects
  <1>2. Is(mine)
    <2> DEFINE g == [i \in D |->
                       IF i = 0 THEN <<>>
                       ELSE IF listed[i].path = f THEN Append(mine[i - 1], listed[i].stats)
                       ELSE mine[i - 1]]
    <2>1. ASSUME NEW i \in D PROVE mine[i] = g[i]
      <3>1. CASE i = 0
        BY <1>1, <3>1
      <3>2. CASE i \in 1 .. n
        BY <1>1, <3>2
      <3> QED
        BY <3>1, <3>2
    <2>2. g = [i \in D |-> g[i]]
      OBVIOUS
    <2>3. mine = g
      <3> HIDE DEF g
      <3> QED
        BY <1>1, <2>1, <2>2
    <2> QED
      BY <2>3, Zenon
  <1>3. Is(d)
    BY <1>2, Zenon
  <1>4. ListedFor(f) = d[n]
    BY DEF ListedFor
  <1>5. \A i \in D : d[i] = IF i = 0 THEN <<>>
                            ELSE IF listed[i].path = f THEN Append(d[i - 1], listed[i].stats)
                            ELSE d[i - 1]
    <2> HIDE DEF d
    <2> QED
      BY <1>3
  <1> HIDE DEF d, Is
  <1>6. ASSUME NEW i \in D, d[i] # mine[i] PROVE FALSE
    <2> DEFINE Wrong == {m \in D : d[m] # mine[m]}
    <2>1. Wrong \in SUBSET Nat /\ Wrong # {}
      BY <1>6
    <2>2. PICK m \in Wrong : \A l \in Wrong : m <= l
      BY <2>1, LeastOfNat
    <2>3. m \in D /\ d[m] # mine[m]
      BY <2>2
    <2>4. m # 0
      BY <1>1, <1>5, <2>3
    <2>5. m - 1 \in D /\ m \in 1 .. n /\ m - 1 < m
      BY <2>3, <2>4
    <2>6. d[m - 1] = mine[m - 1]
      <3>1. m - 1 \notin Wrong
        BY <2>2, <2>3, <2>5
      <3> QED
        BY <2>5, <3>1
    <2> QED
      BY <1>1, <1>5, <2>3, <2>4, <2>5, <2>6
  <1> QED
    BY <1>4, <1>6

\* However the adds for several files interleave and repeat, the manifest has
\* one entry per file, with its row groups in the order they were added, and
\* its counters agree (stats.rs add_row_group, file_count, total_row_groups).
THEOREM StatsManifestMatchesAdds == StatsSpec => []ManifestMatchesAdds
  <1>1. StatsInit => Mirror
    BY MirrorInit
  <1>2. StatsTypeOK /\ Mirror /\ [StatsNext]_statsVars => Mirror'
    <2> SUFFICES ASSUME StatsTypeOK, Mirror, [StatsNext]_statsVars PROVE Mirror'
      OBVIOUS
    <2>1. CASE \E f \in File, g \in RowGroup, rows \in RowGroups, C \in SUBSET Column :
                 \E lo, hi \in [C -> Value] : ListRowGroup(f, g, rows, lo, hi)
      BY <2>1, ListKeepsMirror
    <2>2. ASSUME UNCHANGED <<files, listed>> PROVE Mirror'
      BY <2>2 DEF Mirror
    <2>3. CASE \E f \in File : DeleteFile(f)
      BY <2>2, <2>3 DEF DeleteFile
    <2>4. CASE UNCHANGED statsVars
      BY <2>2, <2>4 DEF statsVars
    <2> QED
      BY <2>1, <2>3, <2>4 DEF StatsNext
  <1>3. StatsTypeOK /\ Mirror => ManifestMatchesAdds
    <2> SUFFICES ASSUME StatsTypeOK, Mirror PROVE ManifestMatchesAdds
      OBVIOUS
    <2>1. /\ Len(files) \in Nat /\ Len(listed) \in Nat
          /\ \A i \in DOMAIN files : files[i].path \in File
      <3>1. \A i \in DOMAIN files : files[i] \in FileStats
        BY DEF StatsTypeOK
      <3> QED
        BY <3>1 DEF StatsTypeOK, FileStats
    <2>2. TotalRowGroups = Len(listed)
      <3>1. PICK sums : Sums(files, sums) /\ sums[Len(files)] = Len(listed)
        BY DEF Mirror
      <3> QED
        BY <2>1, <3>1, TotalIs
    <2>3. ASSUME NEW i \in DOMAIN files
          PROVE  files[i].row_groups = ListedFor(files[i].path)
      <3>1. PICK mine : /\ Collects(listed, files[i].path, mine)
                        /\ Lists(files, files[i].path, mine[Len(listed)])
        BY <2>1 DEF Mirror
      <3>2. ListedFor(files[i].path) = mine[Len(listed)]
        BY <2>1, <3>1, ListedForIs
      <3> QED
        BY <3>1, <3>2 DEF Lists
    <2> QED
      BY <2>2, <2>3 DEF ManifestMatchesAdds, Mirror, Distinct, Paths, FileCount
  <1>4. StatsInvariant => StatsTypeOK
    BY DEF StatsInvariant
  <1> QED
    BY <1>1, <1>2, <1>3, <1>4, StatsInvariantHolds, PTL DEF StatsSpec

-----------------------------------------------------------------------------
(* The composition (Planner).                                              *)

\* Every behaviour of the composition is one of the manifest alone: posting,
\* finishing the index and looking up are stutters (stats.rs, secondary.rs).
LEMMA PlannerDrivesManifest == PlannerSpec => StatsSpec
  <1>1. PlannerInit => StatsInit
    BY DEF PlannerInit
  <1>2. [PlannerNext]_plannerVars => [StatsNext]_statsVars
    <2> SUFFICES ASSUME [PlannerNext]_plannerVars PROVE [StatsNext]_statsVars
      OBVIOUS
    <2>1. ASSUME NEW f \in File, NEW g \in RowGroup, NEW rows \in RowGroups,
                 NEW C \in SUBSET Column, NEW lo \in [C -> Value], NEW hi \in [C -> Value],
                 IndexRowGroup(f, g, rows, lo, hi)
          PROVE  StatsNext
      BY <2>1 DEF IndexRowGroup, StatsNext
    <2>2. ASSUME NEW f \in File, LoseFile(f) PROVE StatsNext
      BY <2>2 DEF LoseFile, StatsNext
    <2>3. CASE \E p \in queue : Post(p)
      BY <2>3 DEF Post
    <2>4. CASE FinishIndex
      BY <2>4 DEF FinishIndex, statsVars
    <2>5. CASE UNCHANGED plannerVars
      BY <2>5 DEF plannerVars, statsVars
    <2> QED
      BY <2>1, <2>2, <2>3, <2>4, <2>5 DEF PlannerNext
  <1> QED
    BY <1>1, <1>2, PTL DEF PlannerSpec, StatsSpec

\* Pruning never loses a row in the composition either, whatever the indexer
\* posts meanwhile (stats.rs query_overlap).
THEOREM PlannerNoFalseNegative == PlannerSpec => []NoFalseNegative
  BY PlannerDrivesManifest, StatsNoFalseNegative, PTL

\* The manifest of the composition mirrors what its indexer lists.
THEOREM PlannerManifestMatchesAdds == PlannerSpec => []ManifestMatchesAdds
  BY PlannerDrivesManifest, StatsManifestMatchesAdds, PTL

\* The postings of a stored row group are keys and locations.
LEMMA PostingsType ==
    ASSUME StatsTypeOK, NEW f \in File, NEW g \in RowGroup, NEW rows \in RowGroups
    PROVE  Postings(f, g, rows) \subseteq [key : IndexKey, location : Location]
  <1> SUFFICES ASSUME NEW i \in DOMAIN rows, rows[i][KeyColumn] # Null
               PROVE  /\ encode[rows[i][KeyColumn]] \in IndexKey
                      /\ [file_key |-> f, row_group |-> g, row_offset |-> i - 1] \in Location
    BY DEF Postings
  <1>1. rows[i] \in Row
    BY RowAssumption
  <1>2. rows[i][KeyColumn] \in Value
    BY <1>1, KeyColumnAssumption DEF Row
  <1> QED
    BY <1>2, PostingAssumption DEF StatsTypeOK

\* add_location leaves every key with a list that is not empty.
LEMMA AccumulateType ==
    ASSUME NEW es, NEW k \in IndexKey, NEW loc \in Location, DOMAIN es \subseteq IndexKey,
           \A x \in DOMAIN es : es[x] \in Seq(Location) \ {<<>>}
    PROVE  /\ DOMAIN Accumulate(es, k, loc) \subseteq IndexKey
           /\ \A x \in DOMAIN Accumulate(es, k, loc) :
                Accumulate(es, k, loc)[x] \in Seq(Location) \ {<<>>}
  <1>1. DOMAIN Accumulate(es, k, loc) = DOMAIN es \cup {k}
    BY DEF Accumulate
  <1>2. ASSUME NEW x \in DOMAIN es \cup {k}
        PROVE  Accumulate(es, k, loc)[x] \in Seq(Location) \ {<<>>}
    <2>1. CASE x # k
      BY <2>1 DEF Accumulate
    <2>2. CASE x = k /\ k \in DOMAIN es
      <3>1. Accumulate(es, k, loc)[x] = Append(es[k], loc)
        BY <2>2 DEF Accumulate
      <3>2. Append(es[k], loc) \in Seq(Location) /\ Len(Append(es[k], loc)) # 0
        BY <2>2
      <3> QED
        BY <3>1, <3>2
    <2>3. CASE x = k /\ k \notin DOMAIN es
      BY <2>3 DEF Accumulate
    <2> QED
      BY <2>1, <2>2, <2>3
  <1> QED
    BY <1>1, <1>2

\* Every variable keeps its type, and no key is without a location, in every
\* order of the postings (secondary.rs add_location, finish).
THEOREM PlannerTypes == PlannerSpec => []PlannerTypeOK
  <1>1. PlannerInit => PlannerTypeOK
    <2> SUFFICES ASSUME PlannerInit PROVE PlannerTypeOK
      OBVIOUS
    <2>1. StatsTypeOK
      BY InitEstablishes DEF PlannerInit, StatsInvariant
    <2>2. SecondaryTypeOK /\ queue = {}
      BY DEF PlannerInit, SecondaryInit, SecondaryTypeOK
    <2> QED
      BY <2>1, <2>2 DEF PlannerTypeOK
  <1>2. PlannerTypeOK /\ StatsTypeOK' /\ [PlannerNext]_plannerVars => PlannerTypeOK'
    <2> SUFFICES ASSUME PlannerTypeOK, StatsTypeOK', [PlannerNext]_plannerVars
                 PROVE  PlannerTypeOK'
      OBVIOUS
    <2> USE DEF PlannerTypeOK
    <2>1. ASSUME NEW f \in File, NEW g \in RowGroup, NEW rows \in RowGroups,
                 NEW C \in SUBSET Column, NEW lo \in [C -> Value], NEW hi \in [C -> Value],
                 IndexRowGroup(f, g, rows, lo, hi)
          PROVE  PlannerTypeOK'
      <3>1. queue' \subseteq [key : IndexKey, location : Location]
        <4>1. encode' = encode /\ queue' = queue \cup Postings(f, g, rows)
          BY <2>1 DEF IndexRowGroup, ListRowGroup
        <4> QED
          BY <4>1, PostingsType
      <3>2. SecondaryTypeOK'
        BY <2>1 DEF IndexRowGroup, secondaryVars, SecondaryTypeOK
      <3> QED
        BY <3>1, <3>2
    <2>2. ASSUME NEW p \in queue, Post(p) PROVE PlannerTypeOK'
      <3>1. p.key \in IndexKey /\ p.location \in Location
        OBVIOUS
      <3>2. /\ entries' = Accumulate(entries, p.key, p.location)
            /\ added' = Append(added, [key |-> p.key, location |-> p.location])
            /\ output' = output /\ queue' \subseteq queue
        BY <2>2 DEF Post, AddLocation
      <3>3. SecondaryTypeOK'
        BY <3>1, <3>2, AccumulateType DEF SecondaryTypeOK
      <3> QED
        BY <3>2, <3>3
    <2>3. CASE FinishIndex
      BY <2>3 DEF FinishIndex, Finish, FinishEmpty, SecondaryTypeOK
    <2>4. CASE \E f \in File : LoseFile(f)
      BY <2>4 DEF LoseFile, SecondaryTypeOK
    <2>5. CASE UNCHANGED plannerVars
      BY <2>5 DEF plannerVars, SecondaryTypeOK
    <2> QED
      BY <2>1, <2>2, <2>3, <2>4, <2>5 DEF PlannerNext
  <1>3. PlannerSpec => []StatsTypeOK
    <2>1. StatsInvariant => StatsTypeOK
      BY DEF StatsInvariant
    <2> QED
      BY <2>1, PlannerDrivesManifest, StatsInvariantHolds, PTL
  <1> QED
    BY <1>1, <1>2, <1>3, PTL DEF PlannerSpec

-----------------------------------------------------------------------------
(* The postings (Secondary).                                               *)

\* mine[n] holds the locations of key k among the first n adds of xs.
Gathers(xs, k, mine) ==
    /\ mine \in [0 .. Len(xs) -> Seq(Location)] /\ mine[0] = <<>>
    /\ \A n \in 1 .. Len(xs) :
         mine[n] = IF xs[n].key = k THEN Append(mine[n - 1], xs[n].location) ELSE mine[n - 1]

\* The locations that the writer holds for key k.
EntryOf(es, k) == IF k \in DOMAIN es THEN es[k] ELSE <<>>

\* What TotalLocations counts.
Slots(es) == UNION {{k} \X DOMAIN es[k] : k \in DOMAIN es}

\* The writer holds for each key the locations added for it, has counted them,
\* and has made a segment of them if it was finished.
Accumulated ==
    /\ entries = [k \in DOMAIN entries |-> entries[k]]
    /\ DOMAIN entries = {added[n].key : n \in DOMAIN added}
    /\ IsFiniteSet(Slots(entries)) /\ Cardinality(Slots(entries)) = Len(added)
    /\ \A k \in IndexKey : \E mine : /\ Gathers(added, k, mine)
                                     /\ mine[Len(added)] = EntryOf(entries, k)
    /\ output # NoOutput =>
         output = IF entries = <<>> THEN [status |-> "EmptySegment", segment |-> <<>>]
                  ELSE [status  |-> "Ok",
                        segment |-> [k \in DOMAIN entries |-> PutLocationSet(entries[k])]]

\* Posting keeps what was gathered, and adds to the posting's key.
LEMMA GathersLonger ==
    ASSUME NEW xs, NEW ys, NEW a, Longer(xs, ys, a), a.location \in Location,
           NEW k, NEW mine, Gathers(xs, k, mine)
    PROVE  \E more : /\ Gathers(ys, k, more)
                     /\ more[Len(ys)] = IF a.key = k THEN Append(mine[Len(xs)], a.location)
                                        ELSE mine[Len(xs)]
  <1> DEFINE n == Len(xs)
             last == IF a.key = k THEN Append(mine[n], a.location) ELSE mine[n]
             more == [i \in 0 .. n + 1 |-> IF i = n + 1 THEN last ELSE mine[i]]
  <1>1. /\ n \in Nat /\ Len(ys) = n + 1 /\ ys[n + 1] = a
        /\ \A i \in 1 .. n : ys[i] = xs[i]
    BY DEF Longer
  <1> HIDE DEF n
  <1>2. /\ mine \in [0 .. n -> Seq(Location)] /\ mine[0] = <<>>
        /\ \A i \in 1 .. n :
             mine[i] = IF xs[i].key = k THEN Append(mine[i - 1], xs[i].location) ELSE mine[i - 1]
    BY DEF Gathers, n
  <1>3. last \in Seq(Location)
    <2>1. mine[n] \in Seq(Location)
      BY <1>1, <1>2
    <2> QED
      BY <2>1
  <1>4. /\ more \in [0 .. n + 1 -> Seq(Location)] /\ more[0] = <<>>
        /\ more[n + 1] = last /\ \A i \in 0 .. n : more[i] = mine[i]
    <2> HIDE DEF last
    <2> QED
      BY <1>1, <1>2, <1>3
  <1> HIDE DEF more
  <1>5. ASSUME NEW i \in 1 .. n + 1
        PROVE  more[i] = IF ys[i].key = k THEN Append(more[i - 1], ys[i].location) ELSE more[i - 1]
    <2>1. CASE i = n + 1
      <3>1. i - 1 = n /\ n \in 0 .. n
        BY <1>1, <2>1
      <3>2. more[i - 1] = mine[n]
        BY <1>4, <3>1
      <3> QED
        BY <1>1, <1>4, <2>1, <3>2
    <2>2. CASE i \in 1 .. n
      <3>1. i \in 0 .. n /\ i - 1 \in 0 .. n
        BY <1>1, <2>2
      <3>2. more[i] = mine[i] /\ more[i - 1] = mine[i - 1] /\ ys[i] = xs[i]
        BY <1>1, <1>4, <2>2, <3>1
      <3> QED
        BY <1>2, <2>2, <3>2
    <2> QED
      BY <1>1, <2>1, <2>2
  <1>6. Gathers(ys, k, more)
    BY <1>1, <1>4, <1>5 DEF Gathers
  <1>7. more[Len(ys)] = last
    BY <1>1, <1>4
  <1> QED
    BY <1>6, <1>7 DEF last, n

\* AddedFor gathers the locations of a key.
LEMMA AddedForIs ==
    ASSUME Len(added) \in Nat, NEW k, NEW mine, Gathers(added, k, mine)
    PROVE  AddedFor(k) = mine[Len(added)]
  <1> DEFINE n == Len(added)
             D == 0 .. Len(added)
             Is(t) == t = [i \in D |->
                             IF i = 0 THEN <<>>
                             ELSE IF added[i].key = k THEN Append(t[i - 1], added[i].location)
                             ELSE t[i - 1]]
             d == CHOOSE t : Is(t)
  <1>1. /\ mine = [i \in D |-> mine[i]] /\ mine[0] = <<>>
        /\ \A i \in 1 .. n : mine[i] = IF added[i].key = k
                                       THEN Append(mine[i - 1], added[i].location)
                                       ELSE mine[i - 1]
    BY DEF Gathers
  <1>2. Is(mine)
    <2> DEFINE g == [i \in D |->
                       IF i = 0 THEN <<>>
                       ELSE IF added[i].key = k THEN Append(mine[i - 1], added[i].location)
                       ELSE mine[i - 1]]
    <2>1. ASSUME NEW i \in D PROVE mine[i] = g[i]
      <3>1. CASE i = 0
        BY <1>1, <3>1
      <3>2. CASE i \in 1 .. n
        BY <1>1, <3>2
      <3> QED
        BY <3>1, <3>2
    <2>2. g = [i \in D |-> g[i]]
      OBVIOUS
    <2>3. mine = g
      <3> HIDE DEF g
      <3> QED
        BY <1>1, <2>1, <2>2
    <2> QED
      BY <2>3, Zenon
  <1>3. Is(d)
    BY <1>2, Zenon
  <1>4. AddedFor(k) = d[n]
    BY DEF AddedFor
  <1>5. \A i \in D : d[i] = IF i = 0 THEN <<>>
                            ELSE IF added[i].key = k THEN Append(d[i - 1], added[i].location)
                            ELSE d[i - 1]
    <2> HIDE DEF d
    <2> QED
      BY <1>3
  <1> HIDE DEF d, Is
  <1> DEFINE S == {i \in D : d[i] = mine[i]}
  <1>6. 0 \in S
    BY <1>1, <1>5
  <1>7. ASSUME NEW m \in 0 .. n - 1, m \in S PROVE m + 1 \in S
    <2> DEFINE i == m + 1
    <2>1. i \in 1 .. n /\ i \in D /\ i # 0 /\ i - 1 = m
      OBVIOUS
    <2> HIDE DEF i
    <2>2. d[i] = mine[i]
      BY <1>1, <1>5, <1>7, <2>1
    <2> QED
      BY <2>1, <2>2 DEF i
  <1> HIDE DEF S
  <1>8. n \in S
    <2>1. n \in 0 .. n
      OBVIOUS
    <2> QED
      BY <1>6, <1>7, <2>1, UpTo
  <1> QED
    BY <1>4, <1>8 DEF S

\* A writer without adds.
LEMMA AccumulatedInit == SecondaryInit => Accumulated
  <1> SUFFICES ASSUME SecondaryInit PROVE Accumulated
    OBVIOUS
  <1>1. /\ entries = [k \in {} |-> <<>>] /\ DOMAIN entries = {}
        /\ added = <<>> /\ Len(added) = 0 /\ output = NoOutput
    BY DEF SecondaryInit
  <1>2. entries = [k \in DOMAIN entries |-> entries[k]]
        /\ DOMAIN entries = {added[n].key : n \in DOMAIN added}
    BY <1>1
  <1>3. Slots(entries) = {}
    BY <1>1 DEF Slots
  <1>4. ASSUME NEW k \in IndexKey
        PROVE  \E mine : Gathers(added, k, mine) /\ mine[Len(added)] = EntryOf(entries, k)
    <2> DEFINE mine == [i \in 0 .. 0 |-> <<>>]
    <2>1. mine \in [0 .. 0 -> Seq(Location)] /\ mine[0] = <<>>
      OBVIOUS
    <2> HIDE DEF mine
    <2>2. Gathers(added, k, mine)
      BY <1>1, <2>1 DEF Gathers
    <2>3. mine[Len(added)] = EntryOf(entries, k)
      BY <1>1, <2>1 DEF EntryOf
    <2> QED
      BY <2>2, <2>3
  <1> QED
    BY <1>1, <1>2, <1>3, <1>4, FS_EmptySet DEF Accumulated

\* add_location takes one more slot.
LEMMA AccumulateSlots ==
    ASSUME NEW es, NEW k, NEW loc, \A x \in DOMAIN es : es[x] \in Seq(Location),
           loc \in Location, IsFiniteSet(Slots(es))
    PROVE  /\ IsFiniteSet(Slots(Accumulate(es, k, loc)))
           /\ Cardinality(Slots(Accumulate(es, k, loc))) = Cardinality(Slots(es)) + 1
  <1> DEFINE new == Accumulate(es, k, loc)
             n == Len(EntryOf(es, k))
             slot == <<k, n + 1>>
  <1>1. /\ DOMAIN new = DOMAIN es \cup {k}
        /\ \A x \in DOMAIN es : x # k => new[x] = es[x]
        /\ new[k] = Append(EntryOf(es, k), loc)
    <2>1. CASE k \in DOMAIN es
      BY <2>1 DEF Accumulate, EntryOf
    <2>2. CASE k \notin DOMAIN es
      <3>1. Append(<<>>, loc) = <<loc>>
        OBVIOUS
      <3> QED
        BY <2>2, <3>1 DEF Accumulate, EntryOf
    <2> QED
      BY <2>1, <2>2
  <1>2. EntryOf(es, k) \in Seq(Location)
    BY DEF EntryOf
  <1>3. n \in Nat /\ DOMAIN new[k] = 1 .. n + 1
    BY <1>1, <1>2
  <1>4. DOMAIN EntryOf(es, k) = 1 .. n
    BY <1>2
  <1> HIDE DEF new, n
  <1>5. slot \notin Slots(es)
    <2> SUFFICES ASSUME k \in DOMAIN es, n + 1 \in DOMAIN es[k] PROVE FALSE
      BY DEF Slots
    <2>1. DOMAIN es[k] = 1 .. n
      BY <1>4 DEF EntryOf
    <2> QED
      BY <1>3, <2>1
  <1>6. Slots(new) = Slots(es) \cup {slot}
    <2>1. \A x, m : <<x, m>> \in Slots(new) <=> x \in DOMAIN new /\ m \in DOMAIN new[x]
      BY DEF Slots
    <2>2. \A x, m : <<x, m>> \in Slots(es) <=> x \in DOMAIN es /\ m \in DOMAIN es[x]
      BY DEF Slots
    <2>3. \A s \in Slots(new) \cup Slots(es) : s = <<s[1], s[2]>>
      BY DEF Slots
    <2>4. \A m \in 1 .. n + 1 : m \in 1 .. n \/ m = n + 1
      BY <1>3
    <2>5. \A m \in 1 .. n : m \in 1 .. n + 1
      BY <1>3
    <2>6. n + 1 \in 1 .. n + 1
      BY <1>3
    <2>7. ASSUME NEW x, NEW m, x \in DOMAIN new, m \in DOMAIN new[x]
          PROVE  <<x, m>> \in Slots(es) \/ (x = k /\ m = n + 1)
      <3>1. CASE x = k
        <4>1. m \in 1 .. n \/ m = n + 1
          BY <1>3, <2>4, <2>7, <3>1
        <4>2. m \in 1 .. n => k \in DOMAIN es /\ m \in DOMAIN es[k]
          <5>1. ASSUME k \notin DOMAIN es PROVE n = 0
            <6>1. EntryOf(es, k) = <<>>
              BY <5>1 DEF EntryOf
            <6> QED
              BY <6>1 DEF n
          <5>2. k \in DOMAIN es => DOMAIN es[k] = 1 .. n
            BY <1>4 DEF EntryOf
          <5>3. m \in 1 .. n => n # 0
            OBVIOUS
          <5> QED
            BY <5>1, <5>2, <5>3, Zenon
        <4> QED
          BY <2>2, <3>1, <4>1, <4>2
      <3>2. CASE x # k
        <4>1. x \in DOMAIN es /\ new[x] = es[x]
          BY <1>1, <2>7, <3>2
        <4> QED
          BY <2>2, <2>7, <4>1
      <3> QED
        BY <3>1, <3>2
    <2>8. ASSUME NEW x, NEW m, x \in DOMAIN es, m \in DOMAIN es[x]
          PROVE  x \in DOMAIN new /\ m \in DOMAIN new[x]
      <3>1. CASE x = k
        <4>1. DOMAIN es[k] = 1 .. n
          BY <1>4, <2>8, <3>1 DEF EntryOf
        <4> QED
          BY <1>1, <1>3, <2>5, <2>8, <3>1, <4>1
      <3>2. CASE x # k
        BY <1>1, <2>8, <3>2
      <3> QED
        BY <3>1, <3>2
    <2>9. slot \in Slots(new)
      BY <1>1, <1>3, <2>1, <2>6
    <2>10. ASSUME NEW s \in Slots(new) PROVE s \in Slots(es) \cup {slot}
      <3>1. s = <<s[1], s[2]>>
        BY <2>3
      <3>2. s[1] \in DOMAIN new /\ s[2] \in DOMAIN new[s[1]]
        BY <2>1, <3>1
      <3>3. <<s[1], s[2]>> \in Slots(es) \/ (s[1] = k /\ s[2] = n + 1)
        BY <2>7, <3>2
      <3> QED
        BY <3>1, <3>3
    <2>11. ASSUME NEW s \in Slots(es) PROVE s \in Slots(new)
      <3>1. s = <<s[1], s[2]>>
        BY <2>3
      <3>2. s[1] \in DOMAIN es /\ s[2] \in DOMAIN es[s[1]]
        BY <2>2, <3>1
      <3> QED
        BY <2>1, <2>8, <3>1, <3>2
    <2> HIDE DEF slot
    <2> QED
      BY <2>9, <2>10, <2>11
  <1> HIDE DEF slot
  <1>7. /\ IsFiniteSet(Slots(es) \cup {slot})
        /\ Cardinality(Slots(es) \cup {slot}) = Cardinality(Slots(es)) + 1
    BY <1>5, FS_AddElement
  <1> QED
    BY <1>6, <1>7 DEF new

\* add_location keeps the writer's locations those added.
LEMMA AddKeepsAccumulated ==
    ASSUME SecondaryTypeOK, Accumulated, NEW k \in IndexKey, NEW loc \in Location,
           AddLocation(k, loc)
    PROVE  Accumulated'
  <1> DEFINE a == [key |-> k, location |-> loc]
             A == [key : IndexKey, location : Location]
             last == Len(added)
  <1>1. /\ entries' = Accumulate(entries, k, loc) /\ added' = Append(added, a)
        /\ output = NoOutput /\ output' = NoOutput
    BY DEF AddLocation
  <1>2. added \in Seq(A) /\ \A x \in DOMAIN entries : entries[x] \in Seq(Location)
    BY DEF SecondaryTypeOK
  <1>3. a \in A /\ a.key = k /\ a.location = loc
    OBVIOUS
  <1> HIDE DEF a, A
  <1>4. /\ Len(added') = last + 1 /\ last \in Nat
        /\ DOMAIN added = 1 .. last /\ DOMAIN added' = 1 .. last + 1
        /\ added'[last + 1] = a /\ \A n \in 1 .. last : added'[n] = added[n]
    BY <1>1, <1>2, <1>3
  <1>5. /\ entries = [x \in DOMAIN entries |-> entries[x]]
        /\ DOMAIN entries = {added[n].key : n \in DOMAIN added}
        /\ IsFiniteSet(Slots(entries)) /\ Cardinality(Slots(entries)) = Len(added)
    BY DEF Accumulated
  <1>6. entries' = [x \in DOMAIN entries' |-> entries'[x]] /\ DOMAIN entries' = DOMAIN entries \cup {k}
    BY <1>1 DEF Accumulate
  <1>7. DOMAIN entries' = {added'[n].key : n \in DOMAIN added'}
    <2> DEFINE S == {added[n].key : n \in DOMAIN added}
               T == {added'[n].key : n \in DOMAIN added'}
    <2>1. DOMAIN added' = DOMAIN added \cup {last + 1}
      BY <1>4
    <2>2. /\ \A n \in DOMAIN added : added'[n].key = added[n].key
          /\ added'[last + 1].key = k
      BY <1>3, <1>4
    <2>3. ASSUME NEW x \in T PROVE x \in S \cup {k}
      <3>1. PICK n \in DOMAIN added \cup {last + 1} : x = added'[n].key
        BY <2>1, Zenon
      <3>2. CASE n \in DOMAIN added
        BY <2>2, <3>1, <3>2, Zenon
      <3>3. CASE n = last + 1
        BY <2>2, <3>1, <3>3, Zenon
      <3> QED
        BY <3>2, <3>3, Zenon
    <2>4. S \subseteq T
      BY <2>1, <2>2, Zenon
    <2>5. k \in T
      BY <2>1, <2>2, Zenon
    <2> HIDE DEF S, T
    <2>6. T = S \cup {k}
      BY <2>3, <2>4, <2>5, Zenon
    <2>7. DOMAIN entries = S
      BY <1>5 DEF S
    <2> QED
      BY <1>6, <2>6, <2>7 DEF T
  <1>8. IsFiniteSet(Slots(entries')) /\ Cardinality(Slots(entries')) = Len(added')
    <2>1. /\ IsFiniteSet(Slots(Accumulate(entries, k, loc)))
          /\ Cardinality(Slots(Accumulate(entries, k, loc))) = Cardinality(Slots(entries)) + 1
      BY <1>2, <1>5, AccumulateSlots
    <2> QED
      BY <1>1, <1>4, <1>5, <2>1
  <1>9. ASSUME NEW x \in IndexKey
        PROVE  \E mine : Gathers(added', x, mine) /\ mine[Len(added')] = EntryOf(entries', x)
    <2>1. PICK mine : Gathers(added, x, mine) /\ mine[last] = EntryOf(entries, x)
      BY DEF Accumulated
    <2>2. PICK more : /\ Gathers(added', x, more)
                      /\ more[Len(added')] = IF a.key = x THEN Append(mine[last], a.location)
                                             ELSE mine[last]
      <3>1. Longer(added, added', a) /\ a.location \in Location
        BY <1>3, <1>4 DEF Longer
      <3> QED
        BY <2>1, <3>1, GathersLonger
    <2>3. EntryOf(entries', x) = IF k = x THEN Append(EntryOf(entries, x), loc)
                                 ELSE EntryOf(entries, x)
      <3>1. CASE x # k
        BY <1>1, <3>1 DEF Accumulate, EntryOf
      <3>2. CASE x = k /\ k \in DOMAIN entries
        BY <1>1, <3>2 DEF Accumulate, EntryOf
      <3>3. CASE x = k /\ k \notin DOMAIN entries
        <4>1. Append(<<>>, loc) = <<loc>>
          OBVIOUS
        <4> QED
          BY <1>1, <3>3, <4>1 DEF Accumulate, EntryOf
      <3> QED
        BY <3>1, <3>2, <3>3
    <2> QED
      BY <1>3, <2>1, <2>2, <2>3
  <1> QED
    BY <1>1, <1>6, <1>7, <1>8, <1>9 DEF Accumulated

\* finish makes the segment of what was added.
LEMMA FinishKeepsAccumulated ==
    ASSUME Accumulated, Finish \/ FinishEmpty
    PROVE  Accumulated'
  <1>1. entries' = entries /\ added' = added
    BY DEF Finish, FinishEmpty
  <1>2. output' = IF entries = <<>> THEN [status |-> "EmptySegment", segment |-> <<>>]
                  ELSE [status  |-> "Ok",
                        segment |-> [k \in DOMAIN entries |-> PutLocationSet(entries[k])]]
    BY DEF Finish, FinishEmpty
  <1> QED
    BY <1>1, <1>2 DEF Accumulated

\* However the adds interleave, the writer holds under each key exactly the
\* locations that were added for it, in their order, its counters agree, and
\* what finish wrote is the encoding of that (secondary.rs add_location,
\* finish).
THEOREM PlannerAccumulates == PlannerSpec => []Accumulated
  <1>1. PlannerInit => Accumulated
    BY AccumulatedInit DEF PlannerInit
  <1>2. PlannerTypeOK /\ Accumulated /\ [PlannerNext]_plannerVars => Accumulated'
    <2> SUFFICES ASSUME PlannerTypeOK, Accumulated, [PlannerNext]_plannerVars
                 PROVE  Accumulated'
      OBVIOUS
    <2>1. ASSUME UNCHANGED secondaryVars PROVE Accumulated'
      BY <2>1 DEF secondaryVars, Accumulated
    <2>2. CASE \E f \in File, g \in RowGroup, rows \in RowGroups, C \in SUBSET Column :
                 \E lo, hi \in [C -> Value] : IndexRowGroup(f, g, rows, lo, hi)
      BY <2>1, <2>2 DEF IndexRowGroup
    <2>3. ASSUME NEW p \in queue, Post(p) PROVE Accumulated'
      <3>1. p.key \in IndexKey /\ p.location \in Location /\ SecondaryTypeOK
        BY DEF PlannerTypeOK
      <3> QED
        BY <2>3, <3>1, AddKeepsAccumulated DEF Post
    <2>4. CASE FinishIndex
      BY <2>4, FinishKeepsAccumulated DEF FinishIndex
    <2>5. CASE \E f \in File : LoseFile(f)
      BY <2>1, <2>5 DEF LoseFile, secondaryVars
    <2>6. CASE UNCHANGED plannerVars
      BY <2>1, <2>6 DEF plannerVars, secondaryVars
    <2> QED
      BY <2>2, <2>3, <2>4, <2>5, <2>6 DEF PlannerNext
  <1> QED
    BY <1>1, <1>2, PlannerTypes, PTL DEF PlannerSpec

\* The counts and lengths that the format has room for: 32 bits for the
\* locations of a key, 16 for a path.
PostingsFit ==
    \A k \in DOMAIN entries :
        /\ Len(entries[k]) < U32Limit
        /\ \A n \in DOMAIN entries[k] : Len(entries[k][n].file_key) < U16Limit

\* A lookup in the finished index decodes the locations that were added.
LEMMA LocatedIsEntry ==
    ASSUME SecondaryTypeOK, Accumulated, PostingsFit, output # NoOutput, NEW k
    PROVE  Located(k) = EntryOf(entries, k)
  <1>1. output = IF entries = <<>> THEN [status |-> "EmptySegment", segment |-> <<>>]
                 ELSE [status  |-> "Ok",
                       segment |-> [x \in DOMAIN entries |-> PutLocationSet(entries[x])]]
    BY DEF Accumulated
  <1>2. CASE k \notin DOMAIN entries
    BY <1>1, <1>2 DEF Located, EntryOf
  <1>3. CASE k \in DOMAIN entries
    <2>1. entries # <<>>
      BY <1>3
    <2>2. /\ output.status = "Ok" /\ k \in DOMAIN output.segment
          /\ output.segment[k] = PutLocationSet(entries[k])
      BY <1>1, <1>3, <2>1
    <2>3. entries[k] \in Seq(EntityLocation) /\ Fits("locations", entries[k])
      <3> DEFINE locs == entries[k]
      <3>1. locs \in Seq(Location) /\ Len(locs) < U32Limit
            /\ \A n \in DOMAIN locs : Len(locs[n].file_key) < U16Limit
        BY <1>3 DEF SecondaryTypeOK, PostingsFit
      <3> HIDE DEF locs
      <3>2. locs \in Seq(EntityLocation)
        BY <3>1, LocationAssumption
      <3>3. Fits("locations", locs)
        BY <3>1 DEF Fits, AllOf, Short
      <3> QED
        BY <3>2, <3>3 DEF locs
    <2>4. ReadLocationSet(PutLocationSet(entries[k])).value = entries[k]
      <3>1. ReadLocationSet(PutLocationSet(entries[k]))
                = Ok(Len(PutLocationSet(entries[k])), entries[k])
        BY <2>3, LocationSetRoundTrip
      <3> QED
        BY <3>1 DEF Ok
    <2> QED
      BY <1>3, <2>2, <2>4 DEF Located, EntryOf
  <1> QED
    BY <1>2, <1>3

\* However the postings interleave, the finished index gives each key exactly
\* its locations in the order of their adds, and the counters agree with the
\* calls, as long as the counts and paths fit their bits (secondary.rs
\* add_location, finish, key_count, total_locations).
THEOREM PlannerPostingsKept == PlannerSpec => [](PostingsFit => PostingsKept)
  <1>1. SecondaryTypeOK /\ Accumulated => (PostingsFit => PostingsKept)
    <2> SUFFICES ASSUME SecondaryTypeOK, Accumulated, PostingsFit PROVE PostingsKept
      OBVIOUS
    <2>1. TotalLocations = Len(added)
      BY DEF Accumulated, TotalLocations, Slots
    <2>2. KeyCount = Cardinality({added[n].key : n \in DOMAIN added})
      BY DEF Accumulated, KeyCount
    <2>3. ASSUME output # NoOutput PROVE output.status = "Ok" <=> added # <<>>
      <3>1. output = IF entries = <<>> THEN [status |-> "EmptySegment", segment |-> <<>>]
                     ELSE [status  |-> "Ok",
                           segment |-> [k \in DOMAIN entries |-> PutLocationSet(entries[k])]]
        BY <2>3 DEF Accumulated
      <3>2. output.status = "Ok" <=> entries # <<>>
        BY <3>1
      <3>3. entries = <<>> <=> DOMAIN entries = {}
        <4>1. entries = [k \in DOMAIN entries |-> entries[k]]
          BY DEF Accumulated
        <4> QED
          BY <4>1
      <3>4. DOMAIN entries = {added[n].key : n \in DOMAIN added}
        BY DEF Accumulated
      <3>5. DOMAIN added = {} <=> added = <<>>
        <4>1. added \in Seq([key : IndexKey, location : Location])
          BY DEF SecondaryTypeOK
        <4> HIDE DEF SecondaryTypeOK
        <4> QED
          BY <4>1
      <3>6. DOMAIN entries = {} <=> DOMAIN added = {}
        BY <3>4, Zenon
      <3> QED
        BY <3>2, <3>3, <3>5, <3>6
    <2>4. ASSUME output # NoOutput, NEW k \in IndexKey PROVE Located(k) = AddedFor(k)
      <3>1. PICK mine : Gathers(added, k, mine) /\ mine[Len(added)] = EntryOf(entries, k)
        BY DEF Accumulated
      <3>2. Len(added) \in Nat
        BY DEF SecondaryTypeOK
      <3>3. AddedFor(k) = mine[Len(added)]
        BY <3>1, <3>2, AddedForIs
      <3>4. Located(k) = EntryOf(entries, k)
        BY <2>4, LocatedIsEntry
      <3> QED
        BY <3>1, <3>3, <3>4
    <2> QED
      BY <2>1, <2>2, <2>3, <2>4 DEF PostingsKept
  <1>2. PlannerTypeOK => SecondaryTypeOK
    BY DEF PlannerTypeOK
  <1> QED
    BY <1>1, <1>2, PlannerTypes, PlannerAccumulates, PTL

-----------------------------------------------------------------------------
(* The plan.                                                               *)

\* The posting of row i of a stored row group.
PostingOf(f, g, i) ==
    [key |-> encode[stored[<<f, g>>][i][KeyColumn]],
     location |-> [file_key |-> f, row_group |-> g, row_offset |-> i - 1]]

\* The writer holds a posting.
Holds(es, p) == p.key \in DOMAIN es /\ \E n \in DOMAIN es[p.key] : es[p.key][n] = p.location

\* Every stored row that has a key is queued or posted, and the index is not
\* finished before the queue is empty.
Posted ==
    /\ output # NoOutput => queue = {}
    /\ \A f \in File, g \in RowGroup : \A i \in DOMAIN stored[<<f, g>>] :
         stored[<<f, g>>][i][KeyColumn] # Null =>
             PostingOf(f, g, i) \in queue \/ Holds(entries, PostingOf(f, g, i))

\* add_location loses no posting, and holds the new one.
LEMMA AccumulateHolds ==
    ASSUME NEW es, NEW k, NEW loc, \A x \in DOMAIN es : es[x] \in Seq(Location)
    PROVE  /\ \A p : Holds(es, p) => Holds(Accumulate(es, k, loc), p)
           /\ \A p : p.key = k /\ p.location = loc => Holds(Accumulate(es, k, loc), p)
  <1> DEFINE new == Accumulate(es, k, loc)
  <1>1. /\ DOMAIN new = DOMAIN es \cup {k}
        /\ \A x \in DOMAIN es : x # k => new[x] = es[x]
        /\ k \in DOMAIN es => new[k] = Append(es[k], loc)
        /\ k \notin DOMAIN es => new[k] = <<loc>>
    BY DEF Accumulate
  <1> HIDE DEF new
  <1>2. ASSUME k \in DOMAIN es
        PROVE  /\ \A n \in DOMAIN es[k] : n \in DOMAIN new[k] /\ new[k][n] = es[k][n]
               /\ \E n \in DOMAIN new[k] : new[k][n] = loc
    <2> DEFINE s == es[k]
    <2>1. s \in Seq(Location) /\ new[k] = Append(s, loc)
      BY <1>1, <1>2
    <2> HIDE DEF s
    <2>2. /\ \A n \in DOMAIN s : n \in DOMAIN Append(s, loc) /\ Append(s, loc)[n] = s[n]
          /\ Len(s) + 1 \in DOMAIN Append(s, loc) /\ Append(s, loc)[Len(s) + 1] = loc
      BY <2>1
    <2> QED
      BY <2>1, <2>2 DEF s
  <1>3. ASSUME k \notin DOMAIN es PROVE \E n \in DOMAIN new[k] : new[k][n] = loc
    <2>1. 1 \in DOMAIN <<loc>> /\ <<loc>>[1] = loc
      OBVIOUS
    <2> QED
      BY <1>1, <1>3, <2>1
  <1>4. ASSUME NEW p, Holds(es, p) PROVE Holds(new, p)
    <2>1. PICK n \in DOMAIN es[p.key] : es[p.key][n] = p.location
      BY <1>4 DEF Holds
    <2>2. p.key \in DOMAIN es /\ p.key \in DOMAIN new
      BY <1>1, <1>4 DEF Holds
    <2>3. n \in DOMAIN new[p.key] /\ new[p.key][n] = es[p.key][n]
      BY <1>1, <1>2, <2>2
    <2> QED
      BY <2>1, <2>2, <2>3 DEF Holds
  <1>5. ASSUME NEW p, p.key = k, p.location = loc PROVE Holds(new, p)
    BY <1>1, <1>2, <1>3, <1>5 DEF Holds
  <1> QED
    BY <1>4, <1>5 DEF new

\* A row group that is written queues the postings of its rows.
LEMMA IndexKeepsPosted ==
    ASSUME StatsTypeOK, Posted, NEW f \in File, NEW g \in RowGroup, NEW rows \in RowGroups,
           NEW C \in SUBSET Column, NEW lo \in [C -> Value], NEW hi \in [C -> Value],
           IndexRowGroup(f, g, rows, lo, hi)
    PROVE  Posted'
  <1>1. /\ stored' = [stored EXCEPT ![<<f, g>>] = rows] /\ encode' = encode
        /\ entries' = entries /\ output' = output /\ output = NoOutput
        /\ queue' = queue \cup Postings(f, g, rows)
    BY DEF IndexRowGroup, ListRowGroup, secondaryVars
  <1>2. stored \in [File \X RowGroup -> RowGroups \cup {<<>>}]
    BY DEF StatsTypeOK
  <1> SUFFICES ASSUME NEW ff \in File, NEW gg \in RowGroup, NEW i \in DOMAIN stored'[<<ff, gg>>],
                      stored'[<<ff, gg>>][i][KeyColumn] # Null
               PROVE  PostingOf(ff, gg, i)' \in queue' \/ Holds(entries', PostingOf(ff, gg, i)')
    BY <1>1 DEF Posted
  <1>3. CASE ff = f /\ gg = g
    <2>1. stored'[<<ff, gg>>] = rows
      BY <1>1, <1>2, <1>3
    <2>2. PostingOf(ff, gg, i)' = [key |-> encode[rows[i][KeyColumn]],
             location |-> [file_key |-> f, row_group |-> g, row_offset |-> i - 1]]
      BY <1>1, <1>3, <2>1 DEF PostingOf
    <2>3. PostingOf(ff, gg, i)' \in Postings(f, g, rows)
      BY <2>1, <2>2 DEF Postings
    <2> QED
      BY <1>1, <2>3
  <1>4. CASE ~ (ff = f /\ gg = g)
    <2>1. stored'[<<ff, gg>>] = stored[<<ff, gg>>]
      BY <1>1, <1>2, <1>4
    <2>2. PostingOf(ff, gg, i)' = PostingOf(ff, gg, i)
      BY <1>1, <2>1 DEF PostingOf
    <2>3. PostingOf(ff, gg, i) \in queue \/ Holds(entries, PostingOf(ff, gg, i))
      BY <2>1 DEF Posted
    <2> QED
      BY <1>1, <2>2, <2>3
  <1> QED
    BY <1>3, <1>4

\* Every stored row with a key is posted: its posting is still queued, or the
\* writer has its location under its encoded value (secondary.rs add_location, driven
\* by the indexer of the head comments of secondary.rs and stats.rs).
THEOREM PlannerPosts == PlannerSpec => []Posted
  <1>1. PlannerInit => Posted
    <2> SUFFICES ASSUME PlannerInit PROVE Posted
      OBVIOUS
    <2>1. output = NoOutput /\ \A f \in File, g \in RowGroup : DOMAIN stored[<<f, g>>] = {}
      BY DEF PlannerInit, StatsInit, SecondaryInit
    <2> QED
      BY <2>1 DEF Posted
  <1>2. PlannerTypeOK /\ Posted /\ [PlannerNext]_plannerVars => Posted'
    <2> SUFFICES ASSUME PlannerTypeOK, Posted, [PlannerNext]_plannerVars PROVE Posted'
      OBVIOUS
    <2>1. ASSUME NEW f \in File, NEW g \in RowGroup, NEW rows \in RowGroups,
                 NEW C \in SUBSET Column, NEW lo \in [C -> Value], NEW hi \in [C -> Value],
                 IndexRowGroup(f, g, rows, lo, hi)
          PROVE  Posted'
      BY <2>1, IndexKeepsPosted DEF PlannerTypeOK
    <2>2. ASSUME NEW p \in queue, Post(p) PROVE Posted'
      <3>1. /\ entries' = Accumulate(entries, p.key, p.location)
            /\ output = NoOutput /\ output' = NoOutput
            /\ queue' = queue \ {p} /\ stored' = stored /\ encode' = encode
        BY <2>2 DEF Post, AddLocation, statsVars
      <3>2. \A x \in DOMAIN entries : entries[x] \in Seq(Location)
        BY DEF PlannerTypeOK, SecondaryTypeOK
      <3>3. /\ \A q : Holds(entries, q) => Holds(entries', q)
            /\ Holds(entries', p)
        BY <3>1, <3>2, AccumulateHolds
      <3> SUFFICES ASSUME NEW f \in File, NEW g \in RowGroup, NEW i \in DOMAIN stored[<<f, g>>],
                          stored[<<f, g>>][i][KeyColumn] # Null
                   PROVE  PostingOf(f, g, i) \in queue' \/ Holds(entries', PostingOf(f, g, i))
        BY <3>1 DEF Posted, PostingOf
      <3>4. PostingOf(f, g, i) \in queue \/ Holds(entries, PostingOf(f, g, i))
        BY DEF Posted
      <3>5. PostingOf(f, g, i) \in queue => PostingOf(f, g, i) = p \/ PostingOf(f, g, i) \in queue'
        BY <3>1, Zenon
      <3> QED
        BY <3>3, <3>4, <3>5, Zenon
    <2>3. CASE FinishIndex
      <3>1. queue = {} /\ UNCHANGED <<encode, stored, entries, queue>>
        BY <2>3 DEF FinishIndex, Finish, FinishEmpty
      <3> QED
        BY <3>1 DEF Posted, PostingOf
    <2>4. ASSUME NEW f \in File, LoseFile(f) PROVE Posted'
      <3>1. /\ UNCHANGED <<encode, entries, output, queue>>
            /\ stored' = [fg \in File \X RowGroup |-> IF fg[1] = f THEN <<>> ELSE stored[fg]]
        BY <2>4 DEF LoseFile, DeleteFile
      <3>2. ASSUME NEW ff \in File, NEW gg \in RowGroup, DOMAIN stored'[<<ff, gg>>] # {}
            PROVE  stored'[<<ff, gg>>] = stored[<<ff, gg>>]
        <4>1. stored'[<<ff, gg>>] = IF ff = f THEN <<>> ELSE stored[<<ff, gg>>]
          BY <3>1
        <4>2. ff # f
          BY <3>2, <4>1
        <4> QED
          BY <4>1, <4>2
      <3> SUFFICES ASSUME NEW ff \in File, NEW gg \in RowGroup,
                          NEW i \in DOMAIN stored'[<<ff, gg>>],
                          stored'[<<ff, gg>>][i][KeyColumn] # Null
                   PROVE  PostingOf(ff, gg, i)' \in queue'
                          \/ Holds(entries', PostingOf(ff, gg, i)')
        BY <3>1 DEF Posted
      <3>3. stored'[<<ff, gg>>] = stored[<<ff, gg>>]
        BY <3>2
      <3>4. PostingOf(ff, gg, i)' = PostingOf(ff, gg, i)
        BY <3>1, <3>3 DEF PostingOf
      <3>5. PostingOf(ff, gg, i) \in queue \/ Holds(entries, PostingOf(ff, gg, i))
        BY <3>3 DEF Posted
      <3> QED
        BY <3>1, <3>4, <3>5
    <2>5. CASE UNCHANGED plannerVars
      BY <2>5 DEF plannerVars, Posted, PostingOf
    <2> QED
      BY <2>1, <2>2, <2>3, <2>4, <2>5 DEF PlannerNext
  <1> QED
    BY <1>1, <1>2, PlannerTypes, PTL DEF PlannerSpec

\* Once the index is finished, the plan for a value of the key column and any
\* ranges of other columns names every stored row that satisfies both, as long
\* as the counts and paths fit their bits (stats.rs query_overlap, secondary.rs
\* finish, location_set.rs decode).
THEOREM PlannerPlanComplete == PlannerSpec => [](PostingsFit => PlanComplete)
  <1>1. ASSUME SecondaryTypeOK, Accumulated, Posted, NoFalseNegative, PostingsFit
        PROVE  PlanComplete
    <2> SUFFICES ASSUME output # NoOutput, OrderPreserving,
                        NEW f \in File, NEW g \in RowGroup, NEW Q \in Queries,
                        NEW i \in DOMAIN stored[<<f, g>>],
                        stored[<<f, g>>][i][KeyColumn] # Null, Matches(stored[<<f, g>>][i], Q)
                 PROVE  [file_key |-> f, row_group |-> g, row_offset |-> i - 1]
                            \in Plan(stored[<<f, g>>][i][KeyColumn], Q)
      BY DEF PlanComplete
    <2> DEFINE loc == [file_key |-> f, row_group |-> g, row_offset |-> i - 1]
               k == encode[stored[<<f, g>>][i][KeyColumn]]
    <2>1. PostingOf(f, g, i).key = k /\ PostingOf(f, g, i).location = loc
      BY DEF PostingOf
    <2>2. Holds(entries, PostingOf(f, g, i))
      BY <1>1 DEF Posted
    <2>3. k \in DOMAIN entries /\ \E n \in DOMAIN entries[k] : entries[k][n] = loc
      BY <2>1, <2>2 DEF Holds
    <2>4. Located(k) = entries[k]
      BY <1>1, <2>3, LocatedIsEntry DEF EntryOf
    <2>5. [file |-> f, row_group |-> g] \in QueryOverlap(Predicates(Q))
      BY <1>1 DEF NoFalseNegative, AlwaysFound
    <2>6. loc \in {Located(k)[n] : n \in DOMAIN Located(k)}
      BY <2>3, <2>4, Zenon
    <2>7. [file |-> loc.file_key, row_group |-> loc.row_group] = [file |-> f, row_group |-> g]
      OBVIOUS
    <2> HIDE DEF loc, k
    <2>8. loc \in {l \in {Located(k)[n] : n \in DOMAIN Located(k)} :
                    [file |-> l.file_key, row_group |-> l.row_group]
                        \in QueryOverlap(Predicates(Q))}
      BY <2>5, <2>6, <2>7, Zenon
    <2> QED
      BY <2>8 DEF Plan, loc, k
  <1>2. SecondaryTypeOK /\ Accumulated /\ Posted /\ NoFalseNegative
            => (PostingsFit => PlanComplete)
    BY <1>1
  <1>3. PlannerTypeOK => SecondaryTypeOK
    BY DEF PlannerTypeOK
  <1> QED
    BY <1>2, <1>3, PlannerTypes, PlannerAccumulates, PlannerPosts, PlannerNoFalseNegative, PTL
=============================================================================
