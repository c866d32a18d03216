----------------------------- MODULE ValueCodec -----------------------------
(***************************************************************************)
(* The life of one stored value: a caller encodes it (src/values), a       *)
(* segment keeps the bytes, a layered reader returns them unless they are  *)
(* a tombstone (src/layered.rs), and a later caller decodes them.  On the  *)
(* way the bytes may be cut short or changed, and a caller may hand any    *)
(* bytes to a decoder.  The varints of block entries (src/block.rs) are    *)
(* encoded and decoded in the same way, but are no values.                 *)
(***************************************************************************)
EXTENDS Values, Varint

CONSTANTS
    Inputs,   \* [type -> the values that are encoded]
    Garbage,  \* [type -> byte strings handed to its decoder as they are]
    Pending   \* not decoded yet

VARIABLES
    type,     \* which decoder reads the value
    value,    \* what was encoded
    damage,   \* "none", "cut", "changed", or "garbage": never encoded
    bytes,    \* what is stored
    result    \* of the decoder

vars == <<type, value, damage, bytes, result>>

Types == {"location", "locations", "path", "adjacency", "raw", "varint"}

Alphabet(t) == IF t = "varint" THEN VarintByte ELSE Byte

\* The values of each type: Rust checks these, but no counts and lengths.
ValueOf(t) ==
    CASE t = "location"  -> EntityLocation
      [] t = "locations" -> Seq(EntityLocation)
      [] t = "path"      -> Seq(PathEntry)
      [] t = "adjacency" -> [outgoing : Seq(Edge), incoming : Seq(Edge)]
      [] t = "raw"       -> Seq(Byte)
      [] t = "varint"    -> 0 .. Limit - 1

ASSUME InputAssumption ==
    /\ DOMAIN Inputs = Types /\ DOMAIN Garbage = Types
    /\ \A t \in Types : Inputs[t] \subseteq ValueOf(t)
    /\ \A t \in Types : Garbage[t] \subseteq Seq(Alphabet(t))

Encode(t, v) ==
    CASE t = "location"  -> PutLocation(v)
      [] t = "locations" -> PutLocationSet(v)
      [] t = "path"      -> PutPathEntries(v)
      [] t = "adjacency" -> PutAdjacency(v)
      [] t = "raw"       -> v
      [] t = "varint"    -> PutVarint(v)

ReadAs(t, data) ==
    CASE t = "location"  -> ReadLocation(data, 0)
      [] t = "locations" -> ReadLocationSet(data)
      [] t = "path"      -> ReadPathEntries(data)
      [] t = "adjacency" -> ReadAdjacency(data)
      [] t = "raw"       -> Ok(Len(data), data)
      [] t = "varint"    -> ReadVarint(data, 0)

\* layered.rs is_tombstone, TOMBSTONE_MARKER = 0xFF.
IsTombstone(data) == data = <<Base - 1>>

Init ==
    /\ type \in Types
    /\ result = Pending
    /\ \/ /\ value \in Inputs[type]
          /\ bytes = Encode(type, value)
          /\ damage = "none"
       \/ /\ value = <<>>
          /\ bytes \in Garbage[type]
          /\ damage = "garbage"

\* The end of the bytes is lost.
Cut(len) ==
    /\ damage = "none" /\ result = Pending
    /\ len < Len(bytes)
    /\ bytes' = SubSeq(bytes, 1, len)
    /\ damage' = "cut"
    /\ UNCHANGED <<type, value, result>>

\* One byte is changed.
Change(i, byte) ==
    /\ damage = "none" /\ result = Pending
    /\ bytes[i] # byte
    /\ bytes' = [bytes EXCEPT ![i] = byte]
    /\ damage' = "changed"
    /\ UNCHANGED <<type, value, result>>

\* For a value, LayeredReader::get and then the decoder of the caller's type.
Read ==
    /\ result = Pending
    /\ result' = IF type # "varint" /\ IsTombstone(bytes) THEN Error("Deleted")
                 ELSE ReadAs(type, bytes)
    /\ UNCHANGED <<type, value, damage, bytes>>

Next ==
    \/ \E len \in 0 .. Len(bytes) : Cut(len)
    \/ \E i \in DOMAIN bytes, byte \in Alphabet(type) : Change(i, byte)
    \/ Read

Spec == Init /\ [][Next]_vars

-----------------------------------------------------------------------------
(* Properties.                                                             *)

Short(s) == Len(s) < U16Limit
AllOf(seq, Test(_)) == \A i \in DOMAIN seq : Test(seq[i])

EdgeFits(edge) == Short(edge.entity_id) /\ Short(edge.rel_kind.name)

\* The counts and lengths that the format has room for.
Fits(t, v) ==
    CASE t = "location"  -> Short(v.file_key)
      [] t = "locations" -> Len(v) < U32Limit /\ AllOf(v, LAMBDA loc : Short(loc.file_key))
      [] t = "path"      -> Short(v) /\ AllOf(v, LAMBDA e : Short(e.entity_id))
      [] t = "adjacency" -> /\ Short(v.outgoing) /\ AllOf(v.outgoing, EdgeFits)
                            /\ Short(v.incoming) /\ AllOf(v.incoming, EdgeFits)
      [] t = "raw"       -> ~ IsTombstone(v)
      [] t = "varint"    -> TRUE

Done == result # Pending
IsOk == Done /\ result.status = "Ok"

\* A value comes back as it was stored exactly when its counts and lengths fit
\* their 16 bits (32 for a LocationSet) and its bytes are not the tombstone.
\* Beyond, the list is shorter, edges change direction, or a location points
\* elsewhere, without an error (values/*.rs encode against decode,
\* layered.rs is_tombstone).
RoundTripExactlyWhenFits ==
    Done /\ damage = "none" => ((IsOk /\ result.value = value) <=> Fits(type, value))

\* An encoding that lost its end is never decoded, wherever it was cut: every
\* length check of the decoders comes before the bytes it guards
\* (values/*.rs decode, TooShort).
CutRejected ==
    Done /\ damage = "cut" /\ type # "raw" /\ Fits(type, value) => ~ IsOk

\* The bytes of a varint name a u32, with no group more than it takes.
Shortest(data) ==
    /\ Len(data) > 1 => data[Len(data)] # 0
    /\ Len(data) = MaxGroups => data[MaxGroups] < Limit \div Weight[MaxGroups - 1]

\* Whatever bytes a decoder accepts, it used up exactly the encoding of the
\* value it returns, so that no two values share an encoding.  Two decoders
\* also accept other bytes: PathEntries reads unknown entity kinds as Other,
\* and decode_varint accepts numbers that are padded with zero groups or whose
\* fifth group exceeds a u32 - but no value outside u32
\* (values/*.rs decode, block.rs decode_varint against their encoders).
DecodeCanonical ==
    IsOk =>
      LET used  == SubSeq(bytes, 1, result.pos)
          again == Encode(type, result.value)
      IN  /\ ReadAs(type, again).value = result.value
          /\ type # "varint" => Len(again) = result.pos
          /\ type = "varint" => result.value < Limit /\ (again = used <=> Shortest(used))
          /\ type \notin {"path", "varint"} => again = used
=============================================================================
