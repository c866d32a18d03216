------------------------------ MODULE MCLayered ------------------------------
(* LayeredIndex with MAX_DELTA_COUNT lowered to 2, so that the count and the *)
(* size trigger of should_merge both occur.                                  *)
EXTENDS LayeredIndex, TLC

CONSTANTS k1, k2, v1, v2

MCKey == {k1, k2}
MCValue == {v1, v2}

\* A change, a deletion, and both in one delta.
MCDeltas == {k1 :> v2, k1 :> Tombstone, k1 :> v1 @@ k2 :> Tombstone}

\* A base with both keys, and one without any (finish_allow_empty).
MCBases == {k1 :> v1 @@ k2 :> v2, <<>>}
=============================================================================
