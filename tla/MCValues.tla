------------------------------ MODULE MCValues ------------------------------
(* ValueCodec with 4 byte values: 0 is ASCII, 1 starts and 2 ends a two-byte *)
(* character, 3 is in no string; a u16 counts to 15.  A varint has groups of *)
(* 2 bits, a u32 5 of them: the third group is half used, as the fifth is.   *)
EXTENDS ValueCodec

CONSTANTS
    MaxGarbage,  \* longest arbitrary byte string
    MaxVarint    \* longest one for varints

Zeros(n) == [i \in 1 .. n |-> 0]
Texts == {<<>>, <<0>>, <<1, 2>>}
AtMost(n, S) == UNION {[1 .. m -> S] : m \in 0 .. n}

Locations == [file_key : Texts \cup {Zeros(15), Zeros(16), Zeros(17)},
              row_group : {0, 7, 255}, row_offset : {0, 30}]
FewLocations == [file_key : {<<0>>, <<1, 2>>}, row_group : {7}, row_offset : {0, 30}]
Entries == [entity_id : Texts, kind : {0, 1, 3}]
Rels == {[byte |-> 0, name |-> <<>>], [byte |-> 1, name |-> <<>>],
         [byte |-> 3, name |-> <<>>], [byte |-> 3, name |-> <<1, 2>>]}
Edges == [entity_id : {<<>>, <<1, 2>>}, rel_kind : Rels]
Plain == [entity_id |-> <<>>, rel_kind |-> [byte |-> 0, name |-> <<>>]]
EdgeTo(id) == [Plain EXCEPT !.entity_id = id]
Many(n, x) == [i \in 1 .. n |-> x]
FewEdges == UNION {[1 .. n -> Edges] : n \in 0 .. 1}

MCInputs == [t \in Types |->
    CASE t = "location"  -> Locations
      [] t = "locations" -> AtMost(2, FewLocations) \cup {<<l>> : l \in Locations}
      [] t = "path"      -> AtMost(2, Entries) \cup
            {Many(n, [entity_id |-> <<>>, kind |-> 0]) : n \in {15, 16, 17}} \cup
            {<<[entity_id |-> Zeros(16), kind |-> 0]>>}
      [] t = "adjacency" -> [outgoing : FewEdges, incoming : FewEdges] \cup
            [outgoing : {Many(15, Plain), Many(16, Plain), Many(17, Plain)},
             incoming : {<<>>, <<EdgeTo(<<0>>)>>, Many(16, Plain)}] \cup
            {[outgoing |-> <<EdgeTo(Zeros(16))>>, incoming |-> <<>>]}
      [] t = "raw"       -> AtMost(2, 0 .. 3)
      [] t = "varint"    -> 0 .. Limit - 1]

MCGarbage == [t \in Types |-> AtMost(IF t = "varint" THEN MaxVarint ELSE MaxGarbage, Alphabet(t))]
=============================================================================
