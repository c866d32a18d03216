------------------------------ MODULE Planner ------------------------------
(***************************************************************************)
(* The composition that the head comment of src/stats.rs describes: an     *)
(* indexer lists the statistics of each row group in a manifest (Stats)    *)
(* and posts where each value of a column occurs in a secondary index      *)
(* (Secondary); a planner looks a value up, and keeps the locations whose  *)
(* row group may match the other predicates.                               *)
(*                                                                         *)
(* The indexer and the planner are callers of the library: the postings    *)
(* of a row group arrive in any order, mixed with those of others.         *)
(***************************************************************************)
EXTENDS Stats, Secondary

CONSTANT KeyColumn   \* the column that is indexed

ASSUME KeyColumnAssumption == KeyColumn \in Column
ASSUME PostingAssumption ==
    /\ \A e \in Encodings, v \in Value : e[v] \in IndexKey
    /\ \A f \in File, g \in RowGroup, rows \in RowGroups : \A i \in DOMAIN rows :
         [file_key |-> f, row_group |-> g, row_offset |-> i - 1] \in Location

VARIABLE queue       \* postings of listed row groups, not added yet

plannerVars == <<encode, files, stored, listed, entries, added, output, queue>>

PlannerInit == StatsInit /\ SecondaryInit /\ queue = {}

\* The postings of the rows of a row group.
Postings(f, g, rows) ==
    {[key |-> encode[rows[i][KeyColumn]],
      location |-> [file_key |-> f, row_group |-> g, row_offset |-> i - 1]] :
        i \in {n \in DOMAIN rows : rows[n][KeyColumn] # Null}}

\* A row group is written, listed and queued for the index.  One that is
\* written again leaves its older postings behind.
IndexRowGroup(f, g, rows, lo, hi) ==
    /\ output = NoOutput
    /\ ListRowGroup(f, g, rows, lo, hi)
    /\ queue' = queue \cup Postings(f, g, rows)
    /\ UNCHANGED secondaryVars

Post(p) ==
    /\ AddLocation(p.key, p.location)
    /\ queue' = queue \ {p}
    /\ UNCHANGED statsVars

FinishIndex ==
    /\ queue = {}
    /\ Finish \/ FinishEmpty
    /\ UNCHANGED <<encode, files, stored, listed, queue>>

LoseFile(f) == DeleteFile(f) /\ UNCHANGED <<entries, added, output, queue>>

PlannerNext ==
    \/ \E f \in File, g \in RowGroup, rows \in RowGroups, C \in SUBSET Column :
         \E lo, hi \in [C -> Value] : IndexRowGroup(f, g, rows, lo, hi)
    \/ \E p \in queue : Post(p)
    \/ FinishIndex
    \/ \E f \in File : LoseFile(f)

PlannerSpec == PlannerInit /\ [][PlannerNext]_plannerVars

\* The rows to fetch for a value of the key column and a conjunction Q.
Plan(v, Q) ==
    {loc \in {Located(encode[v])[n] : n \in DOMAIN Located(encode[v])} :
        [file |-> loc.file_key, row_group |-> loc.row_group] \in QueryOverlap(Predicates(Q))}

-----------------------------------------------------------------------------
(* Properties.                                                             *)

PlannerTypeOK ==
    /\ StatsTypeOK
    /\ SecondaryTypeOK
    /\ queue \subseteq [key : IndexKey, location : Location]

\* Once the index is finished, the plan for a value of the key column and any
\* ranges of other columns names every stored row that satisfies both: neither
\* the order of the postings, nor rewritten row groups, nor missing statistics
\* lose a row (stats.rs "the planner intersects this index with secondary index
\* results", secondary.rs finish, location_set.rs decode).
PlanComplete ==
    output # NoOutput /\ OrderPreserving =>
      \A f \in File, g \in RowGroup, Q \in Queries :
        \A i \in DOMAIN stored[<<f, g>>] :
          LET row == stored[<<f, g>>][i]
          IN  row[KeyColumn] # Null /\ Matches(row, Q) =>
                [file_key |-> f, row_group |-> g, row_offset |-> i - 1]
                    \in Plan(row[KeyColumn], Q)
=============================================================================
