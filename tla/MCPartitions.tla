---------------------------- MODULE MCPartitions ----------------------------
(* Partitions over six byte strings in byte order, four of them UTF-8:      *)
(*   1 "a"   2 <80>   3 U+00E9   4 <E0>   5 U+FFFD   6 U+10000                 *)
(* from_utf8_lossy turns 2 and 4 into U+FFFD, which is 5.                   *)
EXTENDS Partitions

CONSTANT MaxLen   \* longest key stream

MCKey == 1 .. 6
MCUtf8 == {1, 3, 5, 6}
MCLossy == <<1, 5, 3, 5, 5, 6>>
MCInputs == {s \in UNION {[1 .. n -> MCKey] : n \in 0 .. MaxLen} :
                \A i, j \in DOMAIN s : i <= j => s[i] <= s[j]}
=============================================================================
