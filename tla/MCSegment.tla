------------------------------ MODULE MCSegment ------------------------------
(* Segment on the keys "a" < "ab" < "abc" < "b" < "bc", numbered 1 .. 5, with *)
(* a one-byte and a twenty-byte value, so that blocks hold one to four       *)
(* entries and a large entry arrives at every fill level; and on what is     *)
(* left of the finished segments.                                            *)
EXTENDS SegmentDamage

CONSTANTS small, large

MCKey == 1 .. 5
MCValue == {small, large}
MCKeyLen == <<1, 2, 3, 1, 2>>
MCValueLen == [v \in MCValue |-> IF v = small THEN 1 ELSE 20]
MCSharedPrefix == [p \in MCKey \X MCKey |->
    IF (p[1] <= 3) # (p[2] <= 3) THEN 0
    ELSE IF MCKeyLen[p[1]] <= MCKeyLen[p[2]] THEN MCKeyLen[p[1]] ELSE MCKeyLen[p[2]]]
MCOptions == {[blockSize |-> 34, restartInterval |-> 0, bloom |-> TRUE],
              [blockSize |-> 20, restartInterval |-> 16, bloom |-> TRUE],
              [blockSize |-> 40, restartInterval |-> 2, bloom |-> FALSE]}

\* In the first blocks, behind them, and beyond the file.
MCNumbers == {0, 17, 40, 90, 1000}
MCFilters == {{}, {1, 4}}
=============================================================================
