------------------------------ MODULE MCRemote ------------------------------
(* RemoteReader on segments that share block boundaries, sizes, or neither. *)
EXTENDS RemoteReader

CONSTANTS va, vb, vc

MCKey == 1 .. 5

Block(off, len, keys, v) ==
    [off |-> off, len |-> len,
     entries |-> [i \in DOMAIN keys |-> [key |-> keys[i], val |-> v]]]

\* A segment of the given blocks; a filter of filterLen bytes that also
\* answers "maybe" for the keys of fp.
Segment(blocks, filterLen, fp) ==
    LET last == blocks[Len(blocks)]
        data == IF blocks = <<>> THEN 0 ELSE last.off + last.len
        keys == UNION {{blocks[i].entries[j].key : j \in DOMAIN blocks[i].entries} :
                          i \in DOMAIN blocks}
    IN  [blocks |-> blocks,
         bloom  |-> [len |-> filterLen, yes |-> IF filterLen = 0 THEN {} ELSE keys \cup fp],
         fst    |-> [i \in DOMAIN blocks |->
                       [key |-> blocks[i].entries[Len(blocks[i].entries)].key,
                        off |-> blocks[i].off]],
         footer |-> [dataLen |-> data, bloomOff |-> data, bloomLen |-> filterLen,
                     fstOff |-> data + filterLen, fstLen |-> 36,
                     keyCount |-> Cardinality(keys)],
         size   |-> data + filterLen + 36 + FooterSize]

\* A and B have the same size and the same block boundaries, but split the
\* keys differently; C has other boundaries and no filter; D is larger.
SegmentA == Segment(<<Block(0, 30, <<1, 2>>, va), Block(30, 30, <<3, 4>>, va)>>, 10, {5})
SegmentB == Segment(<<Block(0, 30, <<1, 2, 3>>, vb), Block(30, 30, <<4, 5>>, vb)>>, 10, {})
SegmentC == Segment(<<Block(0, 44, <<2, 4>>, vc)>>, 0, {})
SegmentD == Segment(<<Block(0, 30, <<1, 3>>, vc), Block(30, 40, <<4>>, vc),
                      Block(70, 60, <<5>>, vc)>>, 12, {2})
SegmentE == Segment(<<>>, 0, {})   \* finish_allow_empty

MCObjects == {SegmentA, SegmentB, SegmentC, SegmentD, SegmentE, ZeroBytes}

\* Less than a footer, a footer alone, footer and directory, and more than any
\* metadata.
MCBudgets == {40, 64, 100, 256}
=============================================================================
