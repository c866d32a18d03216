------------------------------- MODULE Values -------------------------------
(***************************************************************************)
(* The typed values of src/values: EntityLocation, LocationSet,            *)
(* PathEntries and AdjacencyList, encoded to and decoded from bytes.       *)
(*                                                                         *)
(* Bytes are 0 .. Base-1 with Base = 256 in the code; a u16 takes two      *)
(* bytes and a u32 four, little-endian, and `as u16` keeps the lower       *)
(* digits.  Strings are byte sequences that are UTF-8; of UTF-8 the        *)
(* one- and two-byte characters are kept, and bytes that occur in none.    *)
(* Positions are the code's, counted from 0.                               *)
(***************************************************************************)
EXTENDS Integers, Sequences, SequencesExt

CONSTANTS
    Base,      \* number of byte values, 256 in the code
    Lead,      \* bytes that start a two-byte character
    Trail,     \* bytes that continue one
    MaxKind,   \* largest known EntityKind, 10 in the code
    MaxRel     \* largest RelKind that needs no name, 6 in the code

Byte == 0 .. Base - 1
Other == Base - 1         \* EntityKind::Other; the byte is in no UTF-8 string
Custom == Base - 1        \* RelKind::Custom

ASSUME ByteAssumption ==
    /\ Base \in Nat \ {0, 1}
    /\ Lead \subseteq Byte /\ Trail \subseteq Byte /\ Lead \cap Trail = {}
    /\ MaxKind \in 0 .. Base - 2 /\ MaxRel \in 0 .. Base - 2

U16Limit == Base * Base   \* 65536
U32Limit == U16Limit * U16Limit

-----------------------------------------------------------------------------
(* Bytes.                                                                  *)

\* to_le_bytes of `n as u16` and of a u32.
PutU16(n) == <<n % Base, (n \div Base) % Base>>
PutU32(n) == PutU16(n) \o PutU16(n \div U16Limit)

\* from_le_bytes of the bytes at a position.
U16At(data, pos) == data[pos + 1] + Base * data[pos + 2]
U32At(data, pos) == U16At(data, pos) + U16Limit * U16At(data, pos + 2)

BytesAt(data, pos, len) == SubSeq(data, pos + 1, pos + len)

\* std::str::from_utf8 accepts the bytes.
IsUtf8(s) ==
    \A i \in DOMAIN s :
        /\ s[i] # Other
        /\ s[i] \in Lead => i < Len(s) /\ s[i + 1] \in Trail
        /\ s[i] \in Trail => i > 1 /\ s[i - 1] \in Lead

Text == {s \in Seq(Byte) : IsUtf8(s)}
U32 == 0 .. U32Limit - 1

\* ValueDecodeError, or a value and the position after it.
Error(err) == [status |-> err, pos |-> 0, value |-> <<>>]
Ok(pos, value) == [status |-> "Ok", pos |-> pos, value |-> value]

\* A field decoded at res.pos, whose value make() wraps.
Follow(res, Then(_)) == IF res.status = "Ok" THEN Then(res) ELSE res

\* A u16 length, and that many bytes of UTF-8 followed by at least rest more.
ReadString(data, pos, rest) ==
    IF pos + 2 > Len(data) THEN Error("TooShort")
    ELSE LET len == U16At(data, pos)
             end == pos + 2 + len
         IN  IF end + rest > Len(data) THEN Error("TooShort")
             ELSE IF ~ IsUtf8(BytesAt(data, pos + 2, len)) THEN Error("InvalidUtf8")
             ELSE Ok(end, BytesAt(data, pos + 2, len))

PutString(s) == PutU16(Len(s)) \o s

\* The loops of all decode methods over count elements, each read where the
\* last one ended; the first error ends the loop (location_set.rs:89-115).
ReadMany(Read(_, _), data, pos, count) ==
    LET from[at \in (0 .. Len(data)) \X (0 .. count)] ==   \* position, elements left
          IF at[2] = 0 THEN Ok(at[1], <<>>)
          ELSE Follow(Read(data, at[1]), LAMBDA next :
                 Follow(from[<<next.pos, at[2] - 1>>], LAMBDA more :
                   Ok(more.pos, <<next.value>> \o more.value)))
    IN  from[<<pos, count>>]

\* The loops of all encode methods (location_set.rs:69-75).
PutMany(Put(_), values) == FlattenSeq([i \in DOMAIN values |-> Put(values[i])])

-----------------------------------------------------------------------------
(* EntityLocation: a file, a row group in it and a row in that.            *)

EntityLocation == [file_key : Text, row_group : U32, row_offset : U32]

PutLocation(loc) ==
    PutString(loc.file_key) \o PutU32(loc.row_group) \o PutU32(loc.row_offset)

ReadLocation(data, pos) ==
    Follow(ReadString(data, pos, 8), LAMBDA file :
        Ok(file.pos + 8, [file_key   |-> file.value,
                          row_group  |-> U32At(data, file.pos),
                          row_offset |-> U32At(data, file.pos + 4)]))

\* LocationSet: a u32 count and the locations.
PutLocationSet(locs) == PutU32(Len(locs)) \o PutMany(PutLocation, locs)

\* Wrong variant: no bytes are the empty set.
ReadLocationSetLenient(data) ==
    IF data = <<>> THEN Ok(0, <<>>)
    ELSE IF Len(data) < 4 THEN Error("TooShort")
    ELSE ReadMany(ReadLocation, data, 4, U32At(data, 0))

\* The code reserves room for the count before it looks at an element
\* (with_capacity); whether memory suffices for a count that the data do not
\* bear out is left out, and the answer is the one of the loop.
ReadLocationSet(data) ==
    IF Len(data) < 4 THEN Error("TooShort")
    ELSE ReadMany(ReadLocation, data, 4, U32At(data, 0))

-----------------------------------------------------------------------------
(* PathEntries: the entities under a path, each with its kind.             *)

PathEntry == [entity_id : Text, kind : 0 .. MaxKind \cup {Other}]

\* EntityKind::from_byte
KindOf(byte) == IF byte <= MaxKind THEN byte ELSE Other

PutPathEntry(e) == PutString(e.entity_id) \o <<e.kind>>

ReadPathEntry(data, pos) ==
    Follow(ReadString(data, pos, 1), LAMBDA id :
        Ok(id.pos + 1, [entity_id |-> id.value, kind |-> KindOf(data[id.pos + 1])]))

PutPathEntries(entries) == PutU16(Len(entries)) \o PutMany(PutPathEntry, entries)

ReadPathEntries(data) ==
    IF Len(data) < 2 THEN Error("TooShort")
    ELSE ReadMany(ReadPathEntry, data, 2, U16At(data, 0))

-----------------------------------------------------------------------------
(* AdjacencyList: outgoing and incoming edges.  A relation is a dictionary *)
(* byte; a custom one has a name.                                          *)

RelKind == [byte : 0 .. MaxRel, name : {<<>>}] \cup [byte : {Custom}, name : Text]
Edge == [entity_id : Text, rel_kind : RelKind]

PutRel(rel) == <<rel.byte>> \o IF rel.byte = Custom THEN PutString(rel.name) ELSE <<>>

\* Wrong variant: an unknown relation is read as the last known one.
ReadRelLenient(data, pos) ==
    LET byte == data[pos + 1]
    IN  IF byte # Custom
        THEN Ok(pos + 1, [byte |-> IF byte <= MaxRel THEN byte ELSE MaxRel, name |-> <<>>])
        ELSE Follow(ReadString(data, pos + 1, 0), LAMBDA name :
                 Ok(name.pos, [byte |-> Custom, name |-> name.value]))

\* RelKind::from_byte of the byte at pos, and the name after it.
ReadRel(data, pos) ==
    LET byte == data[pos + 1]
    IN  IF byte <= MaxRel THEN Ok(pos + 1, [byte |-> byte, name |-> <<>>])
        ELSE IF byte # Custom THEN Error("InvalidFormat")
        ELSE Follow(ReadString(data, pos + 1, 0), LAMBDA name :
                 Ok(name.pos, [byte |-> Custom, name |-> name.value]))

PutEdge(edge) == PutString(edge.entity_id) \o PutRel(edge.rel_kind)

ReadEdge(data, pos) ==
    Follow(ReadString(data, pos, 1), LAMBDA id :
        Follow(ReadRel(data, id.pos), LAMBDA rel :
            Ok(rel.pos, [entity_id |-> id.value, rel_kind |-> rel.value])))

\* Wrong variant: the incoming edges are written first.
PutAdjacencySwapped(adj) ==
    PutU16(Len(adj.outgoing)) \o PutU16(Len(adj.incoming))
        \o PutMany(PutEdge, adj.incoming) \o PutMany(PutEdge, adj.outgoing)

PutAdjacency(adj) ==
    PutU16(Len(adj.outgoing)) \o PutU16(Len(adj.incoming))
        \o PutMany(PutEdge, adj.outgoing) \o PutMany(PutEdge, adj.incoming)

ReadAdjacency(data) ==
    IF Len(data) < 4 THEN Error("TooShort")
    ELSE Follow(ReadMany(ReadEdge, data, 4, U16At(data, 0)), LAMBDA out :
             Follow(ReadMany(ReadEdge, data, out.pos, U16At(data, 2)), LAMBDA in :
                 Ok(in.pos, [outgoing |-> out.value, incoming |-> in.value])))
=============================================================================
