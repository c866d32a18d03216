------------------------------ MODULE MCPlanner ------------------------------
(* Planner with values that take two base-4 digits, encoded with the higher *)
(* digit first (which keeps their order) or last (which does not), as       *)
(* Parquet does; two files of different path lengths.                       *)
EXTENDS Planner

MCFile == {<<0>>, <<1, 2>>}
MCRowGroup == {0, 5}
MCValue == {1, 4, 7}

BigEndian == [v \in MCValue |-> <<v \div 4, v % 4>>]
LittleEndian == [v \in MCValue |-> <<v % 4, v \div 4>>]
MCEncodings == {BigEndian, LittleEndian}

Cells(k, c) == [x \in {"id", "age"} |-> IF x = "id" THEN k ELSE c]
MCRowGroups == {<<Cells(1, 4)>>, <<Cells(1, 7), Cells(4, Null)>>, <<Cells(Null, 1), Cells(1, 1)>>}

Ranges(c) == {[column |-> c, lo |-> lo, hi |-> hi] : lo, hi \in MCValue}
MCQueries == {{}} \cup {{r} : r \in Ranges("age")}
                 \cup {{r, [column |-> "id", lo |-> 1, hi |-> 4]} : r \in Ranges("age")}

MCIndexKey == {e[v] : e \in MCEncodings, v \in MCValue}
MCLocation == [file_key : MCFile, row_group : MCRowGroup, row_offset : 0 .. 1]
==============================================================================
