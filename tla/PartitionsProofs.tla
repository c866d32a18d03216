--------------------------- MODULE PartitionsProofs ---------------------------
(***************************************************************************)
(* Proofs about Partitions: over UTF-8 keys, a lookup through the manifest *)
(* answers what the stream holds, for every stream, every way to cut it    *)
(* and every order of the builders.                                        *)
(***************************************************************************)
EXTENDS Partitions, TLAPS

\* A partition of the type-correct state is a slice of positions.
LEMMA CutsTyped ==
    ASSUME TypeOK
    PROVE  /\ input \in Seq(Key) /\ Len(input) \in Nat
           /\ Len(cuts) \in Nat \ {0}
           /\ \A i \in Partition : cuts[i] \in 0 .. Len(input)
           /\ cuts[Len(cuts)] = Len(input)
  <1>1. input \in Seq(Key)
    BY InputAssumption DEF TypeOK
  <1>2. cuts \in Cuts(Len(input), Len(cuts)) /\ Len(cuts) \in Nat \ {0}
    BY DEF TypeOK
  <1> QED
    BY <1>1, <1>2 DEF Cuts, Partition

\* A slice that is not empty ends with a key of the stream.
LEMMA LastOfSlice ==
    ASSUME TypeOK, NEW i \in Partition, Slice(i) # {}
    PROVE  /\ cuts[i] \in 1 .. Len(input) /\ cuts[i] \in Slice(i)
           /\ input[cuts[i]] \in Key /\ MaxKey(i) \in Nat
  <1>1. cuts[i] \in 0 .. Len(input) /\ Len(input) \in Nat /\ input \in Seq(Key)
    BY CutsTyped
  <1>2. i \in Nat \ {0} /\ (i # 1 => i - 1 \in Partition)
    BY CutsTyped DEF Partition
  <1>3. i # 1 => cuts[i - 1] \in 0 .. Len(input)
    BY <1>2, CutsTyped
  <1>4. cuts[i] \in 1 .. Len(input) /\ cuts[i] \in Slice(i)
    <2>1. CASE i = 1
      BY <1>1, <2>1 DEF Slice
    <2>2. CASE i # 1
      BY <1>1, <1>3, <2>2 DEF Slice
    <2> QED
      BY <2>1, <2>2
  <1>5. input[cuts[i]] \in Key
    BY <1>1, <1>4
  <1> QED
    BY <1>4, <1>5, LossyAssumption DEF MaxKey

\* A slice lies within the stream.
LEMMA SliceInInput ==
    ASSUME TypeOK, NEW i \in Partition
    PROVE  Slice(i) \subseteq 1 .. Len(input)
  <1>1. /\ Len(input) \in Nat /\ Len(cuts) \in Nat
        /\ \A j \in Partition : cuts[j] \in 0 .. Len(input)
    BY CutsTyped
  <1>2. CASE i = 1
    BY <1>1, <1>2 DEF Slice
  <1>3. CASE i # 1
    <2>1. i - 1 \in Partition
      BY <1>1, <1>3 DEF Partition
    <2> QED
      BY <1>1, <1>3, <2>1 DEF Slice
  <1> QED
    BY <1>2, <1>3

\* The last key of a slice is its largest: build_partition keeps the key of the
\* last add (partitioned.rs build_partition).
LEMMA LastIsLargest ==
    ASSUME TypeOK, NEW i \in Partition, Slice(i) # {}
    PROVE  \A m \in Slice(i) : input[m] <= input[cuts[i]]
  <1> SUFFICES ASSUME NEW m \in Slice(i) PROVE input[m] <= input[cuts[i]]
    OBVIOUS
  <1>1. m \in 1 .. Len(input) /\ cuts[i] \in 1 .. Len(input)
    BY SliceInInput, LastOfSlice
  <1>2. m <= cuts[i]
    BY DEF Slice
  <1> QED
    BY <1>1, <1>2, InputAssumption DEF TypeOK

\* The partition that find_partition returns for a UTF-8 key holds the key, if
\* any does (partitioned.rs find_partition).
LEMMA FoundHolds ==
    ASSUME TypeOK, ManifestMatches, manifest # <<>>, InputIsUtf8,
           NEW n \in 1 .. Len(input), NEW i \in Found(input[n])
    PROVE  /\ i \in Partition
           /\ \E m \in Slice(i) : input[m] = input[n]
  <1> DEFINE N == Len(cuts)
             k == input[n]
  <1>1. /\ input \in Seq(Key) /\ Len(input) \in Nat /\ N \in Nat \ {0}
        /\ cuts[N] = Len(input)
        /\ \A j \in 1 .. N : cuts[j] \in 0 .. Len(input)
    BY CutsTyped DEF Partition
  <1>2. /\ Len(manifest) = N
        /\ \A j \in 1 .. N : BoundsSlice(manifest[j], j)
    BY DEF ManifestMatches, Partition
  <1>3. \A p \in 1 .. Len(input) : input[p] \in Nat /\ Lossy[input[p]] = input[p]
    BY <1>1, KeyAssumption, LossyAssumption DEF InputIsUtf8
  <1>4. \A j \in 1 .. N : /\ cuts[j] \in 1 .. Len(input) /\ cuts[j] \in Slice(j)
                          /\ manifest[j] = input[cuts[j]]
    <2> SUFFICES ASSUME NEW j \in 1 .. N
                 PROVE  /\ cuts[j] \in 1 .. Len(input) /\ cuts[j] \in Slice(j)
                        /\ manifest[j] = input[cuts[j]]
      OBVIOUS
    <2>1. cuts[j] \in 1 .. Len(input) /\ cuts[j] \in Slice(j)
      BY <1>2, LastOfSlice DEF Partition, BoundsSlice
    <2>2. PICK m \in Slice(j) : /\ manifest[j] = Lossy[input[m]]
                               /\ \A q \in Slice(j) : input[q] <= input[m]
      BY <1>2 DEF BoundsSlice
    <2>3. m \in 1 .. Len(input)
      BY SliceInInput DEF Partition
    <2>4. input[m] <= input[cuts[j]]
      BY <2>1, LastIsLargest DEF Partition
    <2>5. input[m] = input[cuts[j]]
      BY <2>1, <2>2, <2>3, <2>4, <1>3
    <2> QED
      BY <2>1, <2>2, <2>3, <2>5, <1>3
  <1>5. \A p, q \in 1 .. Len(input) : p <= q => input[p] <= input[q]
    BY InputAssumption DEF TypeOK
  <1>6. CASE i \in 1 .. N /\ manifest[i] = k
    BY <1>4, <1>6 DEF Partition
  <1>7. CASE /\ i \in 1 .. N + 1
             /\ i = 1 \/ manifest[i - 1] < k
             /\ i = N + 1 \/ manifest[i] > k
    <2>1. i # 1 => i - 1 \in 1 .. N /\ cuts[i - 1] \in 1 .. Len(input) /\ cuts[i - 1] < n
      <3> SUFFICES ASSUME i # 1
                   PROVE  i - 1 \in 1 .. N /\ cuts[i - 1] \in 1 .. Len(input)
                          /\ cuts[i - 1] < n
        OBVIOUS
      <3>1. i - 1 \in 1 .. N
        BY <1>1, <1>7
      <3>2. cuts[i - 1] \in 1 .. Len(input) /\ input[cuts[i - 1]] < k
        BY <3>1, <1>4, <1>7
      <3>3. ~ (n <= cuts[i - 1])
        BY <3>2, <1>3, <1>5
      <3> QED
        BY <3>1, <3>2, <3>3, <1>1
    <2>2. i # N + 1
      <3> SUFFICES ASSUME i = N + 1 PROVE FALSE
        OBVIOUS
      <3>1. cuts[N] < n
        BY <2>1, <1>1
      <3> QED
        BY <3>1, <1>1
    <2>3. i \in 1 .. N /\ k < input[cuts[i]] /\ cuts[i] \in 1 .. Len(input)
      BY <2>2, <1>1, <1>4, <1>7
    <2>4. n < cuts[i]
      BY <2>3, <1>3, <1>5, <1>1
    <2>5. n \in Slice(i)
      <3>1. CASE i = 1
        BY <3>1, <2>3, <2>4, <1>1 DEF Slice
      <3>2. CASE i # 1
        BY <3>2, <2>1, <2>3, <2>4, <1>1 DEF Slice
      <3> QED
        BY <3>1, <3>2
    <2> QED
      BY <2>3, <2>5 DEF Partition
  <1> QED
    BY <1>2, <1>6, <1>7 DEF Found

-----------------------------------------------------------------------------
(* The invariant.                                                          *)

\* The invariant holds before anything is built.
LEMMA RoutingInit == Init => RoutingInvariant
  <1> SUFFICES ASSUME Init PROVE RoutingInvariant
    OBVIOUS
  <1>1. Len(input) \in Nat
    BY InputAssumption DEF Init
  <1>2. PICK p \in KeysPerPartition :
          cuts \in Cuts(Len(input), PartitionCount(Len(input), p))
    BY DEF Init
  <1> DEFINE count == PartitionCount(Len(input), p)
  <1>3. count \in Nat \ {0}
    <2> DEFINE c == (Len(input) + p - 1) \div p
    <2>1. p \in Nat \ {0}
      BY PartitionAssumption
    <2>2. Len(input) + p - 1 \in Nat
      BY <1>1, <2>1
    <2>3. c \in Int
      BY <2>1, <2>2
    <2> HIDE DEF c
    <2>4. (IF c > 1 THEN c ELSE 1) \in Nat \ {0}
      BY <2>3
    <2> QED
      BY <2>4 DEF PartitionCount, c
  <1>4. cuts \in [1 .. count -> 0 .. Len(input)]
    BY <1>2 DEF Cuts
  <1>5. Len(cuts) = count
    BY <1>3, <1>4
  <1>6. cuts \in Cuts(Len(input), Len(cuts)) /\ Len(cuts) \in Nat \ {0}
    BY <1>2, <1>3, <1>5
  <1>7. Unbuilt \in Results
    BY DEF Unbuilt, Results, EmptyString
  <1>8. TypeOK
    BY <1>6, <1>7 DEF Init, TypeOK
  <1> QED
    BY <1>8 DEF Init, RoutingInvariant, BuiltMatches, ManifestMatches,
                Utf8LookupRight, Unbuilt

\* Building one more partition keeps it.
LEMMA BuildStep ==
    ASSUME RoutingInvariant, NEW i \in Partition, BuildPartition(i)
    PROVE  RoutingInvariant'
  <1> USE DEF BuildPartition
  <1>1. UNCHANGED <<input, cuts, manifest, key, answer>>
    OBVIOUS
  <1>2. /\ Partition' = Partition
        /\ \A j \in Partition : Slice(j)' = Slice(j)
    BY <1>1 DEF Partition, Slice
  <1> DEFINE r == IF HasDuplicate(i) THEN Failed("DuplicateKey")
                  ELSE IF Slice(i) = {} THEN Failed("EmptySegment")
                  ELSE [status |-> "built", maxKey |-> MaxKey(i),
                        keyCount |-> cuts[i] - (IF i = 1 THEN 0 ELSE cuts[i - 1])]
  <1>3. built' = [built EXCEPT ![i] = r] /\ built \in [Partition -> Results] /\ TypeOK
    BY DEF RoutingInvariant, TypeOK
  <1>4. /\ r \in Results
        /\ r.status = "built" => BoundsSlice(r.maxKey, i)
    <2>1. CASE HasDuplicate(i) \/ Slice(i) = {}
      BY <2>1 DEF Failed, Unbuilt, Results, EmptyString
    <2>2. CASE ~ HasDuplicate(i) /\ Slice(i) # {}
      <3>1. MaxKey(i) \in Nat /\ cuts[i] \in Slice(i) /\ cuts[i] \in 1 .. Len(input)
        BY <1>3, <2>2, LastOfSlice
      <3>2. cuts[i] - (IF i = 1 THEN 0 ELSE cuts[i - 1]) \in Nat
        <4>1. CASE i = 1
          BY <4>1, <3>1
        <4>2. CASE i # 1
          <5>1. i - 1 \in Partition
            BY <4>2, <1>3, CutsTyped DEF Partition
          <5>2. cuts[i - 1] \in Nat
            BY <5>1, <1>3, CutsTyped
          <5> QED
            BY <4>2, <5>2, <3>1 DEF Slice
        <4> QED
          BY <4>1, <4>2
      <3>3. BoundsSlice(MaxKey(i), i)
        BY <1>3, <2>2, <3>1, LastIsLargest DEF BoundsSlice, MaxKey
      <3> QED
        BY <2>2, <3>1, <3>2, <3>3 DEF Results
    <2> QED
      BY <2>1, <2>2
  <1> HIDE DEF r
  <1>5. TypeOK'
    BY <1>1, <1>2, <1>3, <1>4 DEF TypeOK
  <1>6. BuiltMatches'
    BY <1>1, <1>2, <1>3, <1>4 DEF BuiltMatches, RoutingInvariant, BoundsSlice
  <1>7. ManifestMatches'
    BY <1>1, <1>2 DEF ManifestMatches, RoutingInvariant, BoundsSlice
  <1>8. Utf8LookupRight'
    BY <1>1 DEF Utf8LookupRight, IsRight, InputIsUtf8, RoutingInvariant
  <1> QED
    BY <1>5, <1>6, <1>7, <1>8 DEF RoutingInvariant

\* Publishing the manifest establishes what lookups rely on.
LEMMA PublishStep ==
    ASSUME RoutingInvariant, Publish
    PROVE  RoutingInvariant'
  <1> USE DEF Publish
  <1>1. UNCHANGED <<input, cuts, built, key, answer>> /\ TypeOK /\ BuiltMatches
    BY DEF RoutingInvariant
  <1>2. /\ Partition' = Partition
        /\ \A j \in Partition : Slice(j)' = Slice(j)
    BY <1>1 DEF Partition, Slice
  <1>3. \A j \in Partition : built[j] \in Results
    BY <1>1 DEF TypeOK
  <1>4. manifest' \in [Partition -> Nat]
    BY <1>3 DEF Results
  <1>5. Len(manifest') = Len(cuts)
    BY <1>1, CutsTyped DEF Partition
  <1>6. TypeOK'
    BY <1>1, <1>2, <1>4 DEF TypeOK
  <1>7. ManifestMatches'
    <2>1. \A j \in Partition : BoundsSlice(manifest'[j], j)
      BY <1>1 DEF BuiltMatches
    <2> QED
      BY <1>1, <1>2, <1>5, <2>1 DEF ManifestMatches, BoundsSlice
  <1>8. BuiltMatches'
    BY <1>1, <1>2 DEF BuiltMatches, BoundsSlice
  <1>9. Utf8LookupRight'
    BY <1>1 DEF Utf8LookupRight, IsRight, InputIsUtf8, RoutingInvariant
  <1> QED
    BY <1>6, <1>7, <1>8, <1>9 DEF RoutingInvariant

\* A lookup changes nothing that routing depends on.
LEMMA LookupStep ==
    ASSUME RoutingInvariant, NEW k \in Key, Lookup(k)
    PROVE  RoutingInvariant'
  <1> USE DEF Lookup
  <1>1. /\ UNCHANGED <<input, cuts, built, manifest>> /\ key' = k /\ manifest # <<>>
        /\ TypeOK /\ BuiltMatches /\ ManifestMatches
    BY DEF RoutingInvariant
  <1>2. /\ Partition' = Partition
        /\ \A j \in Partition : Slice(j)' = Slice(j)
    BY <1>1 DEF Partition, Slice
  <1>3. PICK i \in Found(KeyString(k)) : answer' \in SegmentAnswers(i, k)
    OBVIOUS
  <1>4. i \in 1 .. Len(cuts) + 1 /\ Len(manifest) = Len(cuts) /\ Len(cuts) \in Nat
    BY <1>1, <1>3, CutsTyped DEF Found, ManifestMatches
  <1>5. \/ answer' = NotFound
        \/ i \in Partition /\ answer' \in Slice(i) /\ input[answer'] = k
    BY <1>3, <1>4 DEF SegmentAnswers, Partition
  <1>6. answer' = NotFound \/ (answer' \in 1 .. Len(input) /\ input[answer'] = k)
    BY <1>1, <1>5, SliceInInput
  <1>7. TypeOK'
    <2>1. answer' \in Nat \cup {NotFound, NoAnswer}
      BY <1>6, <1>1, CutsTyped
    <2> QED
      BY <1>1, <1>2, <2>1 DEF TypeOK
  <1>8. ASSUME InputIsUtf8, NEW n \in 1 .. Len(input), input[n] = k
        PROVE  answer' \in 1 .. Len(input) /\ input[answer'] = k
    <2>1. k \in Utf8
      BY <1>8 DEF InputIsUtf8
    <2>2. i \in Found(input[n])
      BY <1>3, <1>8, <2>1 DEF KeyString
    <2>3. i \in Partition /\ \E m \in Slice(i) : input[m] = k
      BY <1>1, <1>8, <2>2, FoundHolds
    <2>4. i # Len(manifest) + 1
      BY <2>3, <1>4 DEF Partition
    <2>5. answer' \in {m \in Slice(i) : input[m] = k}
      BY <1>3, <2>3, <2>4 DEF SegmentAnswers
    <2> QED
      BY <2>3, <2>5, <1>1, SliceInInput
  <1>9. Utf8LookupRight'
    <2> SUFFICES ASSUME InputIsUtf8 PROVE IsRight'
      BY <1>1 DEF Utf8LookupRight, InputIsUtf8
    <2>1. CASE \E n \in 1 .. Len(input) : input[n] = k
      BY <2>1, <1>1, <1>8 DEF IsRight
    <2>2. CASE \A n \in 1 .. Len(input) : input[n] # k
      BY <2>2, <1>1, <1>6 DEF IsRight
    <2> QED
      BY <2>1, <2>2
  <1>10. BuiltMatches' /\ ManifestMatches'
    BY <1>1, <1>2 DEF BuiltMatches, ManifestMatches, BoundsSlice
  <1> QED
    BY <1>7, <1>9, <1>10 DEF RoutingInvariant

\* Every step keeps it.
LEMMA RoutingNext == RoutingInvariant /\ [Next]_vars => RoutingInvariant'
  <1> SUFFICES ASSUME RoutingInvariant, [Next]_vars PROVE RoutingInvariant'
    OBVIOUS
  <1>1. ASSUME NEW i \in Partition, BuildPartition(i) PROVE RoutingInvariant'
    BY <1>1, BuildStep
  <1>2. CASE Publish
    BY <1>2, PublishStep
  <1>3. ASSUME NEW k \in Key, Lookup(k) PROVE RoutingInvariant'
    BY <1>3, LookupStep
  <1>4. CASE UNCHANGED vars
    BY <1>4 DEF vars, RoutingInvariant, TypeOK, BuiltMatches, ManifestMatches,
                Utf8LookupRight, IsRight, InputIsUtf8, Partition, Slice, BoundsSlice
  <1> QED
    BY <1>1, <1>2, <1>3, <1>4 DEF Next

\* The manifest and the builders agree, and answers over UTF-8 keys are right,
\* for every stream, every cut and every order of the builders
\* (partitioned.rs).
THEOREM PartitionsInvariant == Spec => []RoutingInvariant
  <1> QED
    BY RoutingInit, RoutingNext, PTL DEF Spec

\* An index over UTF-8 keys answers every lookup like one big segment
\* (partitioned.rs find_partition).
THEOREM PartitionsLookupRight == Spec => []Utf8LookupRight
  <1>1. RoutingInvariant => Utf8LookupRight
    BY DEF RoutingInvariant
  <1> QED
    BY <1>1, PartitionsInvariant, PTL

=============================================================================
