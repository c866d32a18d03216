------------------------------- MODULE Varint -------------------------------
(***************************************************************************)
(* LEB128 numbers of src/block.rs, which every block entry starts with: a  *)
(* u32 in groups of 7 bits, lowest first, each byte but the last with its  *)
(* continuation bit set.  Positions are the code's, counted from 0.        *)
(***************************************************************************)
EXTENDS Integers, Sequences

CONSTANTS
    Group,      \* values of one group, 2^7 in the code
    MaxGroups,  \* groups that decode_varint reads, 5 in the code
    Limit       \* 2^32 in the code

\* What a group counts that stands behind i others: 1 << shift.
Weight[i \in 0 .. MaxGroups] == IF i = 0 THEN 1 ELSE Group * Weight[i - 1]

ASSUME VarintAssumption ==
    /\ Group \in Nat \ {0, 1} /\ MaxGroups \in Nat \ {0} /\ Limit \in Nat
    /\ Weight[MaxGroups - 1] < Limit /\ Limit <= Weight[MaxGroups]
    /\ Limit % Weight[MaxGroups - 1] = 0

VarintByte == 0 .. 2 * Group - 1
Continues(byte) == byte >= Group

\* encode_varint
PutVarint(n) ==
    LET put[m \in 0 .. n] ==
          IF m < Group THEN <<m>> ELSE <<Group + (m % Group)>> \o put[m \div Group]
    IN  put[n]

\* decode_varint of the bytes from pos on.  Each group is shifted into a u32,
\* which drops the bits of the last one that are beyond its width.
ReadVarint(data, pos) ==
    LET given  == Len(data) - pos
        ends   == {i \in 1 .. given : ~ Continues(data[pos + i])}
        len    == CHOOSE i \in ends : \A j \in ends : i <= j
        number[i \in 0 .. MaxGroups] ==
            IF i = 0 THEN 0
            ELSE number[i - 1] + (data[pos + i] % Group) * Weight[i - 1]
    IN  IF ends # {} /\ len <= MaxGroups
        THEN [status |-> "Ok", pos |-> pos + len, value |-> number[len] % Limit]
        ELSE [status |-> IF given > MaxGroups THEN "InvalidVarint" ELSE "UnexpectedEof",
              pos |-> 0, value |-> <<>>]
=============================================================================
