------------------------- MODULE LayeredIndexProofs -------------------------
(***************************************************************************)
(* The layered index answers from one version: for all keys, values,       *)
(* deltas, bases, readers and numbers of files, and whatever is pushed,    *)
(* merged, reindexed and deleted meanwhile, a get returns what the version *)
(* the reader was opened on holds, and LayeredIndex implements             *)
(* AbstractIndex.                                                          *)
(***************************************************************************)
EXTENDS LayeredIndex, SequenceTheorems, WellFoundedInduction, TLAPS

-----------------------------------------------------------------------------
(* The inductive invariant.                                                *)

\* The paths that the manifest, a reader, the merger or the garbage list name.
InUse == Elements(manifest) \cup garbage \cup Elements(merger.paths)
             \cup UNION {Elements(reader[r].paths) : r \in Reader}

\* A path is written once: what it holds is what was written or, after its
\* deletion, nothing.  A file that is named has been written, and nobody but
\* the merger knows the merged file before its publication.
StorageInv ==
    /\ \A p \in Path : objects[p] \in {NoObject, written[p]}
    /\ \A p \in InUse : p < nextPath
    /\ merger.pc = "merged" =>
         /\ merger.target \in 1 .. nextPath - 1
         /\ merger.target \notin InUse
         /\ objects[merger.target] # NoObject

\* acc is the view of the segments behind position left: what the newest of
\* them that holds a key says of it, tombstones dropped.
FoldedTo(segs, left, acc) ==
    \A k \in Key :
        LET H == {i \in Holders(segs, k) : i > left}
        IN  IF H = {} \/ segs[LeastOf(H)][k] = Tombstone
            THEN k \notin DOMAIN acc
            ELSE k \in DOMAIN acc /\ acc[k] = segs[LeastOf(H)][k]

\* A merge has read the first segments of its list, has folded those behind the
\* position left, or has written their view.
MergerInv ==
    /\ merger.pc = "loading" =>
         /\ Len(merger.segs) < Len(merger.paths)
         /\ merger.left = 0 /\ merger.acc = <<>>
         /\ \A i \in DOMAIN merger.segs : merger.segs[i] = written[merger.paths[i]]
    /\ merger.pc = "merging" =>
         /\ merger.segs = SegmentsOf(merger.paths)
         /\ merger.left <= Len(merger.segs)
         /\ FoldedTo(merger.segs, merger.left, merger.acc)
    /\ merger.pc = "merged" => written[merger.target] \in Contents(Value)
    /\ MergedIsView

\* A reader holds the segments of its list; a get has passed no segment that
\* holds its key; there is an answer only after a get.
ReaderOK(rd) ==
    /\ \A i \in DOMAIN rd.segs :
         i \in DOMAIN rd.paths /\ rd.segs[i] = written[rd.paths[i]]
    /\ rd.pc \in {"open", "getting"} => Len(rd.segs) = Len(rd.paths)
    /\ rd.pc = "getting" =>
         /\ rd.at \in 1 .. Len(rd.segs) + 1
         /\ \A i \in 1 .. rd.at - 1 : rd.key \notin DOMAIN rd.segs[i]
    /\ rd.pc # "open" => rd.answer = Pending

ReaderInv == \A r \in Reader : ReaderOK(reader[r])

\* The inductive invariant.
IInv == /\ TypeOK /\ StorageInv /\ ManifestLive /\ MergerInv /\ ReaderInv
        /\ AnswerIsSnapshot /\ ErrorMeansSuperseded

-----------------------------------------------------------------------------
(* Views of lists of segments.                                             *)

\* A non-empty set of positions has exactly one least element.
LEMMA LeastPosition ==
    ASSUME NEW S \in SUBSET Nat, S # {}
    PROVE  LeastOf(S) \in S /\ \A j \in S : LeastOf(S) <= j
  <1>1. \E n \in S : \A j \in S : n <= j
    <2>1. PICK n \in S : \A j \in S : ~ (<<j, n>> \in OpToRel(<, Nat))
      BY NatLessThanWellFounded, WFMin
    <2>2. \A j \in S : ~ (j < n)
      BY <2>1 DEF OpToRel
    <2> QED
      BY <2>2
  <1> QED
    BY <1>1 DEF LeastOf

\* A least element is the one that LeastOf names.
LEMMA LeastOfUnique ==
    ASSUME NEW S \in SUBSET Nat, NEW m \in S, \A j \in S : m <= j
    PROVE  LeastOf(S) = m
  <1>1. LeastOf(S) \in S /\ \A j \in S : LeastOf(S) <= j
    BY LeastPosition
  <1>2. m \in Nat /\ LeastOf(S) \in Nat
    BY <1>1
  <1>3. m <= LeastOf(S) /\ LeastOf(S) <= m
    BY <1>1
  <1> QED
    BY <1>2, <1>3

\* What a segment stores under a key is a value or a tombstone.
LEMMA StoredValue ==
    ASSUME NEW seg \in SegmentValue, NEW k \in DOMAIN seg
    PROVE  seg[k] \in Value \cup {Tombstone}
  BY DEF SegmentValue, Contents

\* Positions of a list are naturals.
LEMMA HoldersNat ==
    ASSUME NEW segs \in Seq(SegmentValue), NEW k
    PROVE  Holders(segs, k) \in SUBSET Nat
  BY DEF Holders

\* The view of a non-empty list of holders is decided by the first of them.
LEMMA ViewAtFirst ==
    ASSUME NEW segs \in Seq(SegmentValue), NEW k, NEW m \in DOMAIN segs,
           k \in DOMAIN segs[m], \A i \in 1 .. m - 1 : k \notin DOMAIN segs[i]
    PROVE  ViewOf(segs, k) = Visible(segs[m][k])
  <1>1. m \in Holders(segs, k) /\ \A j \in Holders(segs, k) : m <= j
    BY DEF Holders
  <1>2. LeastOf(Holders(segs, k)) = m
    BY <1>1, HoldersNat, LeastOfUnique
  <1> QED
    BY <1>1, <1>2 DEF ViewOf

\* A key that no segment holds has no value.
LEMMA ViewOfNone ==
    ASSUME NEW segs \in Seq(SegmentValue), NEW k, \A i \in DOMAIN segs : k \notin DOMAIN segs[i]
    PROVE  ViewOf(segs, k) = NoValue
  BY DEF ViewOf, Holders

\* Either a first segment decides, or none does.
LEMMA FirstHolder ==
    ASSUME NEW segs \in Seq(SegmentValue), NEW k
    PROVE  \/ \A i \in DOMAIN segs : k \notin DOMAIN segs[i]
           \/ \E m \in DOMAIN segs :
                k \in DOMAIN segs[m] /\ \A i \in 1 .. m - 1 : k \notin DOMAIN segs[i]
  <1> SUFFICES ASSUME Holders(segs, k) # {}
               PROVE  \E m \in DOMAIN segs :
                        k \in DOMAIN segs[m] /\ \A i \in 1 .. m - 1 : k \notin DOMAIN segs[i]
    BY DEF Holders
  <1>1. PICK m \in Holders(segs, k) : \A j \in Holders(segs, k) : m <= j
    BY HoldersNat, LeastPosition
  <1>2. m \in 1 .. Len(segs) /\ DOMAIN segs = 1 .. Len(segs) /\ k \in DOMAIN segs[m]
    BY <1>1 DEF Holders
  <1>3. ASSUME NEW i \in 1 .. m - 1, k \in DOMAIN segs[i] PROVE FALSE
    <2>1. i \in Holders(segs, k)
      BY <1>2, <1>3 DEF Holders
    <2> QED
      BY <2>1, <1>1, <1>2
  <1> QED
    BY <1>2, <1>3

\* In a concatenation the older list counts only for keys that the newer one
\* does not hold.
LEMMA ViewConcat ==
    ASSUME NEW new \in Seq(SegmentValue), NEW old \in Seq(SegmentValue), NEW k
    PROVE  ViewOf(new \o old, k) =
               IF \E i \in DOMAIN new : k \in DOMAIN new[i] THEN ViewOf(new, k)
               ELSE ViewOf(old, k)
  <1> DEFINE all == new \o old
  <1>1. /\ all \in Seq(SegmentValue)
        /\ DOMAIN all = 1 .. Len(new) + Len(old)
        /\ DOMAIN new = 1 .. Len(new) /\ Len(new) \in Nat
        /\ DOMAIN old = 1 .. Len(old) /\ Len(old) \in Nat
        /\ \A i \in 1 .. Len(new) : all[i] = new[i]
        /\ \A i \in 1 .. Len(old) : all[Len(new) + i] = old[i]
    BY ConcatProperties
  <1> HIDE DEF all
  <1>2. CASE \E i \in DOMAIN new : k \in DOMAIN new[i]
    <2>1. PICK m \in DOMAIN new :
            k \in DOMAIN new[m] /\ \A i \in 1 .. m - 1 : k \notin DOMAIN new[i]
      BY <1>2, FirstHolder
    <2>2. ViewOf(new, k) = Visible(new[m][k])
      BY <2>1, ViewAtFirst
    <2>5. m \in 1 .. Len(new) /\ Len(new) \in Nat /\ Len(old) \in Nat
      OBVIOUS
    <2>6. m \in 1 .. Len(new) + Len(old) /\ \A i \in 1 .. m - 1 : i \in 1 .. Len(new)
      BY <2>5
    <2>3. m \in DOMAIN all /\ all[m] = new[m] /\ \A i \in 1 .. m - 1 : all[i] = new[i]
      BY <2>5, <2>6, <1>1
    <2>7. k \in DOMAIN all[m] /\ \A i \in 1 .. m - 1 : k \notin DOMAIN all[i]
      BY <2>1, <2>3
    <2>4. ViewOf(all, k) = Visible(all[m][k])
      BY <2>3, <2>7, <1>1, ViewAtFirst
    <2> QED
      BY <1>2, <2>2, <2>3, <2>4 DEF all
  <1>3. CASE \A i \in DOMAIN new : k \notin DOMAIN new[i]
    <2>1. CASE \A i \in DOMAIN old : k \notin DOMAIN old[i]
      <3>1. \A i \in DOMAIN all : k \notin DOMAIN all[i]
        <4> SUFFICES ASSUME NEW i \in DOMAIN all PROVE k \notin DOMAIN all[i]
          OBVIOUS
        <4>1. CASE i <= Len(new)
          BY <4>1, <1>1, <1>3
        <4>2. CASE i > Len(new)
          <5>1. i - Len(new) \in 1 .. Len(old) /\ i = Len(new) + (i - Len(new))
            BY <4>2, <1>1
          <5>2. all[i] = old[i - Len(new)]
            BY <5>1, <1>1
          <5> QED
            BY <5>1, <5>2, <2>1
        <4> QED
          BY <4>1, <4>2, <1>1
      <3> QED
        BY <3>1, <2>1, <1>1, <1>3, ViewOfNone DEF all
    <2>2. CASE \E i \in DOMAIN old : k \in DOMAIN old[i]
      <3>1. PICK m \in DOMAIN old :
              k \in DOMAIN old[m] /\ \A i \in 1 .. m - 1 : k \notin DOMAIN old[i]
        BY <2>2, FirstHolder
      <3>2. ViewOf(old, k) = Visible(old[m][k])
        BY <3>1, ViewAtFirst
      <3> DEFINE n == Len(new) + m
      <3>6. m \in 1 .. Len(old) /\ Len(new) \in Nat /\ Len(old) \in Nat
        OBVIOUS
      <3>3. n \in DOMAIN all /\ all[n] = old[m]
        BY <3>6, <1>1
      <3>4. ASSUME NEW i \in 1 .. n - 1 PROVE k \notin DOMAIN all[i]
        <4>1. CASE i <= Len(new)
          <5>1. i \in 1 .. Len(new)
            BY <4>1, <3>6
          <5> QED
            BY <5>1, <1>1, <1>3
        <4>2. CASE i > Len(new)
          <5>1. /\ i - Len(new) \in 1 .. m - 1 /\ i - Len(new) \in 1 .. Len(old)
                /\ i = Len(new) + (i - Len(new))
            BY <4>2, <3>6
          <5>2. all[i] = old[i - Len(new)]
            BY <5>1, <1>1
          <5> QED
            BY <5>1, <5>2, <3>1
        <4> QED
          BY <4>1, <4>2, <3>6
      <3>5. ViewOf(all, k) = Visible(all[n][k])
        BY <3>1, <3>3, <3>4, <1>1, ViewAtFirst, SMTT(30)
      <3> QED
        BY <1>3, <3>2, <3>3, <3>5 DEF all
    <2> QED
      BY <2>1, <2>2
  <1> QED
    BY <1>2, <1>3

\* What a list says of a key is a value or that there is none.
LEMMA ViewType ==
    ASSUME NEW segs \in Seq(SegmentValue)
    PROVE  View(segs) \in [Key -> Value \cup {NoValue}]
  <1> SUFFICES ASSUME NEW k \in Key PROVE ViewOf(segs, k) \in Value \cup {NoValue}
    BY DEF View
  <1>1. CASE \A i \in DOMAIN segs : k \notin DOMAIN segs[i]
    BY <1>1, ViewOfNone
  <1>2. ASSUME NEW m \in DOMAIN segs, k \in DOMAIN segs[m],
               \A i \in 1 .. m - 1 : k \notin DOMAIN segs[i]
        PROVE  ViewOf(segs, k) \in Value \cup {NoValue}
    <2>1. segs[m][k] \in Value \cup {Tombstone}
      BY <1>2 DEF SegmentValue, Contents
    <2> QED
      BY <2>1, <1>2, ViewAtFirst DEF Visible
  <1> QED
    BY <1>1, <1>2, FirstHolder

\* A single segment without tombstones says what it holds.
LEMMA ViewOfBase ==
    ASSUME NEW base \in Contents(Value), NEW k
    PROVE  /\ <<base>> \in Seq(SegmentValue)
           /\ ViewOf(<<base>>, k) = IF k \in DOMAIN base THEN base[k] ELSE NoValue
  <1>1. base \in SegmentValue
    BY DEF SegmentValue, Contents
  <1>2. <<base>> \in Seq(SegmentValue) /\ DOMAIN <<base>> = {1} /\ <<base>>[1] = base
    BY <1>1
  <1>3. CASE k \in DOMAIN base
    <2>1. base[k] \in Value
      BY <1>3 DEF Contents
    <2>2. ViewOf(<<base>>, k) = Visible(base[k])
      BY <1>2, <1>3, ViewAtFirst
    <2> QED
      BY <1>2, <1>3, <2>1, <2>2, ValueAssumption DEF Visible
  <1>4. CASE k \notin DOMAIN base
    BY <1>2, <1>4, ViewOfNone
  <1> QED
    BY <1>2, <1>3, <1>4

-----------------------------------------------------------------------------
(* merge_segments.                                                         *)

\* A merge starts from an empty map.
LEMMA NothingMerged ==
    ASSUME NEW V
    PROVE  <<>> \in Contents(V) /\ DOMAIN <<>> = {}
  <1>1. <<>> \in [{} -> V]
    OBVIOUS
  <1> QED
    BY <1>1 DEF Contents

\* One round keeps values only.
LEMMA OverlayType ==
    ASSUME NEW acc \in Contents(Value), NEW seg \in SegmentValue
    PROVE  Overlay(acc, seg) \in Contents(Value)
  <1> DEFINE S == (DOMAIN acc \ DOMAIN seg) \cup {k \in DOMAIN seg : seg[k] # Tombstone}
  <1>1. DOMAIN acc \subseteq Key /\ \A k \in DOMAIN acc : acc[k] \in Value
    BY DEF Contents
  <1>2. DOMAIN seg \subseteq Key /\ \A k \in DOMAIN seg : seg[k] \in Value \cup {Tombstone}
    BY DEF SegmentValue, Contents
  <1>3. Overlay(acc, seg) \in [S -> Value] /\ S \subseteq Key
    BY <1>1, <1>2 DEF Overlay
  <1> QED
    BY <1>3 DEF Contents

\* What a segment says of a key wins over what is merged so far.
LEMMA OverlayAt ==
    ASSUME NEW acc, NEW seg, NEW k
    PROVE  /\ k \in DOMAIN seg /\ seg[k] = Tombstone => k \notin DOMAIN Overlay(acc, seg)
           /\ k \in DOMAIN seg /\ seg[k] # Tombstone =>
                k \in DOMAIN Overlay(acc, seg) /\ Overlay(acc, seg)[k] = seg[k]
           /\ k \notin DOMAIN seg =>
                /\ k \in DOMAIN Overlay(acc, seg) <=> k \in DOMAIN acc
                /\ k \in DOMAIN acc => Overlay(acc, seg)[k] = acc[k]
  BY DEF Overlay

\* At the start nothing is folded.
LEMMA FoldStart ==
    ASSUME NEW segs \in Seq(SegmentValue)
    PROVE  FoldedTo(segs, Len(segs), <<>>)
  <1>1. ASSUME NEW k PROVE {i \in Holders(segs, k) : i > Len(segs)} = {}
    BY DEF Holders
  <1> QED
    BY <1>1, NothingMerged DEF FoldedTo

\* A round of merge_segments folds one more segment, oldest first.
LEMMA FoldStep ==
    ASSUME NEW segs \in Seq(SegmentValue), NEW left \in 1 .. Len(segs), NEW acc,
           FoldedTo(segs, left, acc)
    PROVE  FoldedTo(segs, left - 1, Overlay(acc, segs[left]))
  <1> DEFINE H(k, n) == {i \in Holders(segs, k) : i > n}
             new == Overlay(acc, segs[left])
  <1> SUFFICES ASSUME NEW k \in Key
               PROVE  IF H(k, left - 1) = {} \/ segs[LeastOf(H(k, left - 1))][k] = Tombstone
                      THEN k \notin DOMAIN new
                      ELSE /\ k \in DOMAIN new
                           /\ new[k] = segs[LeastOf(H(k, left - 1))][k]
    BY DEF FoldedTo
  <1>1. IF H(k, left) = {} \/ segs[LeastOf(H(k, left))][k] = Tombstone
        THEN k \notin DOMAIN acc
        ELSE k \in DOMAIN acc /\ acc[k] = segs[LeastOf(H(k, left))][k]
    BY DEF FoldedTo
  <1>2. CASE k \in DOMAIN segs[left]
    <2>1. /\ left \in H(k, left - 1) /\ H(k, left - 1) \in SUBSET Nat
          /\ \A j \in H(k, left - 1) : left <= j
      BY <1>2 DEF Holders
    <2>2. LeastOf(H(k, left - 1)) = left
      BY <2>1, LeastOfUnique
    <2> HIDE DEF H
    <2> QED
      BY <2>1, <2>2, <1>2, OverlayAt
  <1>3. CASE k \notin DOMAIN segs[left]
    <2>1. H(k, left - 1) = H(k, left)
      <3>1. ASSUME NEW i \in Holders(segs, k) PROVE i > left - 1 <=> i > left
        BY <1>3 DEF Holders
      <3> QED
        BY <3>1
    <2> HIDE DEF H
    <2> QED
      BY <2>1, <1>1, <1>3, OverlayAt
  <1> QED
    BY <1>2, <1>3

\* At the end the result is the view of the whole list.
LEMMA FoldDone ==
    ASSUME NEW segs \in Seq(SegmentValue), NEW acc \in Contents(Value),
           FoldedTo(segs, 0, acc), NEW k \in Key
    PROVE  ViewOf(segs, k) = IF k \in DOMAIN acc THEN acc[k] ELSE NoValue
  <1>1. {i \in Holders(segs, k) : i > 0} = Holders(segs, k)
    BY DEF Holders
  <1>2. IF Holders(segs, k) = {} \/ segs[LeastOf(Holders(segs, k))][k] = Tombstone
        THEN k \notin DOMAIN acc
        ELSE k \in DOMAIN acc /\ acc[k] = segs[LeastOf(Holders(segs, k))][k]
    BY <1>1 DEF FoldedTo
  <1> QED
    BY <1>2 DEF ViewOf, Visible

-----------------------------------------------------------------------------
(* Lists of paths.                                                         *)

\* The segments behind a list of paths form a list of the same length.
LEMMA SegmentsType ==
    ASSUME TypeOK, NEW paths \in Seq(Path)
    PROVE  /\ SegmentsOf(paths) \in Seq(SegmentValue)
           /\ Len(SegmentsOf(paths)) = Len(paths)
           /\ DOMAIN SegmentsOf(paths) = 1 .. Len(paths)
  <1>1. DOMAIN paths = 1 .. Len(paths) /\ Len(paths) \in Nat
    OBVIOUS
  <1>2. \A i \in 1 .. Len(paths) : written[paths[i]] \in SegmentValue
    BY <1>1 DEF TypeOK
  <1>3. SegmentsOf(paths) = [i \in 1 .. Len(paths) |-> written[paths[i]]]
    BY <1>1 DEF SegmentsOf
  <1> QED
    BY <1>1, <1>2, <1>3

\* What a list of paths names is of the type of its elements.
LEMMA ElementsIn ==
    ASSUME NEW S, NEW paths \in Seq(S)
    PROVE  Elements(paths) \subseteq S
  BY DEF Elements

-----------------------------------------------------------------------------
(* The type invariant.                                                     *)

ReaderType == [pc : ReaderPcs, paths : Seq(Path), segs : Seq(SegmentValue),
               key : Key, at : Nat, answer : Answers]
MergerType == [pc : MergerPcs, paths : Seq(Path), segs : Seq(SegmentValue),
               left : Nat, acc : Contents(Value), target : 0 .. MaxPath]

\* A reader that is not open is of its type.
LEMMA ClosedReaderType == ClosedReader \in ReaderType
  <1>1. (CHOOSE k \in Key : TRUE) \in Key
    BY ValueAssumption
  <1>2. <<>> \in Seq(Path) /\ <<>> \in Seq(SegmentValue)
    OBVIOUS
  <1> QED
    BY <1>1, <1>2 DEF ClosedReader, ReaderType, ReaderPcs, Answers

\* A merger that has nothing to do is of its type.
LEMMA IdleMergerType == IdleMerger \in MergerType
  <1>1. <<>> \in Seq(Path) /\ <<>> \in Seq(SegmentValue) /\ <<>> \in Contents(Value)
    BY NothingMerged
  <1>2. 0 \in 0 .. MaxPath
    BY BoundAssumption
  <1> QED
    BY <1>1, <1>2 DEF IdleMerger, MergerType, MergerPcs

\* A base segment, without tombstones, is a segment.
LEMMA BaseType == Contents(Value) \subseteq SegmentValue
  BY DEF SegmentValue, Contents

\* A put under a path in range keeps the types of the storage.
LEMMA PutType ==
    ASSUME TypeOK, NEW seg \in SegmentValue, Put(seg)
    PROVE  /\ objects' \in [Path -> SegmentValue \cup {NoObject}]
           /\ written' \in [Path -> SegmentValue]
           /\ nextPath \in Path /\ nextPath' \in 1 .. MaxPath + 1
  BY BoundAssumption DEF TypeOK, Put, Path

\* The initial states are of the declared types.
LEMMA InitType == Init => TypeOK
  <1> SUFFICES ASSUME Init PROVE TypeOK
    OBVIOUS
  <1>1. PICK base \in Bases :
          /\ objects = [p \in Path |-> IF p = 1 THEN base ELSE NoObject]
          /\ written = [p \in Path |-> IF p = 1 THEN base ELSE <<>>]
    BY DEF Init
  <1>2. base \in SegmentValue /\ <<>> \in SegmentValue
    BY BaseType, InputAssumption, NothingMerged
  <1>3. 1 \in Path /\ nextPath \in 1 .. MaxPath + 1
    BY BoundAssumption DEF Path, Init
  <1>4. manifest \in Seq(Path) /\ manifest # <<>>
    BY <1>3 DEF Init
  <1>5. reader \in [Reader -> ReaderType] /\ merger \in MergerType
    BY ClosedReaderType, IdleMergerType DEF Init
  <1> QED
    BY <1>1, <1>2, <1>3, <1>4, <1>5 DEF Init, TypeOK, ReaderType, MergerType

\* The manifest that Publish writes: a prefix of the old one and a new base.
LEMMA PublishedList ==
    ASSUME TypeOK, NEW t \in Path, MergeCurrent
    PROVE  LET n    == Len(manifest) - Len(merger.paths)
               list == SubSeq(manifest, 1, n) \o <<t>>
           IN  /\ n \in 0 .. Len(manifest)
               /\ list \in Seq(Path) /\ list # <<>> /\ Len(list) = n + 1
               /\ \A i \in 1 .. n : list[i] = manifest[i]
               /\ list[n + 1] = t
  <1> DEFINE n == Len(manifest) - Len(merger.paths)
             prefix == SubSeq(manifest, 1, n)
  <1>1. manifest \in Seq(Path) /\ Len(manifest) \in Nat /\ n \in 0 .. Len(manifest)
    <2>1. manifest \in Seq(Path) /\ merger.paths \in Seq(Path) /\ n >= 0
      BY DEF TypeOK, MergeCurrent
    <2> QED
      BY <2>1
  <1>2. \A i \in 1 .. n : manifest[i] \in Path
    BY <1>1
  <1>3. /\ prefix \in Seq(Path) /\ Len(prefix) = n
        /\ \A i \in 1 .. n : prefix[i] = manifest[i]
    <2>1. 1 \in Int /\ n \in Int
      BY <1>1
    <2> HIDE DEF n
    <2>2. /\ prefix \in Seq(Path)
          /\ Len(prefix) = IF 1 <= n THEN n - 1 + 1 ELSE 0
          /\ \A i \in 1 .. n - 1 + 1 : prefix[i] = manifest[1 + i - 1]
      BY <2>1, <1>2, SubSeqProperties
    <2> QED
      BY <2>2, <1>1
  <1> HIDE DEF n, prefix
  <1>4. LET list == prefix \o <<t>>
        IN  /\ list \in Seq(Path) /\ list # <<>> /\ Len(list) = n + 1
            /\ \A i \in 1 .. n : list[i] = manifest[i]
            /\ list[n + 1] = t
    BY <1>1, <1>3
  <1> QED
    BY <1>1, <1>4 DEF n, prefix

\* A merge that is still current merged the oldest part of the manifest.
LEMMA MergedPart ==
    ASSUME TypeOK, MergeCurrent
    PROVE  LET n == Len(manifest) - Len(merger.paths)
           IN  /\ n \in 0 .. Len(manifest)
               /\ \A j \in DOMAIN merger.paths :
                    n + j \in n + 1 .. Len(manifest) /\ merger.paths[j] = manifest[n + j]
               /\ \A p \in Elements(merger.paths) :
                    \E j \in n + 1 .. Len(manifest) : p = manifest[j]
  <1> DEFINE n == Len(manifest) - Len(merger.paths)
  <1>1. /\ Len(manifest) \in Nat /\ Len(merger.paths) \in Nat
        /\ DOMAIN merger.paths = 1 .. Len(merger.paths) /\ manifest \in Seq(Path)
    BY DEF TypeOK
  <1>2. n >= 0 /\ merger.paths = SubSeq(manifest, n + 1, Len(manifest))
    BY DEF MergeCurrent
  <1>3. n \in 0 .. Len(manifest) /\ Len(manifest) - n = Len(merger.paths)
    BY <1>1, <1>2
  <1> HIDE DEF n
  <1>4. ASSUME NEW i \in n + 1 .. Len(manifest) PROVE manifest[i] \in Path
    <2>1. i \in 1 .. Len(manifest)
      BY <1>1, <1>3
    <2> QED
      BY <2>1, <1>1, ElementOfSeq
  <1>5. \A j \in 1 .. Len(manifest) - (n + 1) + 1 :
          SubSeq(manifest, n + 1, Len(manifest))[j] = manifest[n + 1 + j - 1]
    <2>1. n + 1 \in Int /\ Len(manifest) \in Int
      BY <1>1, <1>3
    <2> QED
      BY <2>1, <1>4, SubSeqProperties
  <1>6. ASSUME NEW j \in DOMAIN merger.paths
        PROVE  n + j \in n + 1 .. Len(manifest) /\ merger.paths[j] = manifest[n + j]
    <2>1. j \in 1 .. Len(manifest) - (n + 1) + 1 /\ n + 1 + j - 1 = n + j
      BY <1>1, <1>3
    <2> QED
      BY <2>1, <1>2, <1>3, <1>5
  <1> QED
    BY <1>3, <1>6 DEF n, Elements

\* A get that has not passed the last segment looks at a listed path; what is
\* stored there, if anything, is the segment the reader opened.
LEMMA GettingAt ==
    ASSUME TypeOK, StorageInv, ReaderInv, NEW r \in Reader, Getting(r)
    PROVE  LET i == reader[r].at
               p == reader[r].paths[i]
           IN  /\ i \in DOMAIN reader[r].paths /\ i \in DOMAIN reader[r].segs
               /\ p \in Path /\ objects[p] \in SegmentValue \cup {NoObject}
               /\ objects[p] # NoObject => objects[p] = reader[r].segs[i]
  <1>1. /\ reader[r].paths \in Seq(Path) /\ reader[r].segs \in Seq(SegmentValue)
        /\ reader[r].at \in 1 .. Len(reader[r].segs)
        /\ Len(reader[r].segs) = Len(reader[r].paths)
    BY DEF TypeOK, ReaderInv, ReaderOK, Getting
  <1>2. reader[r].at \in DOMAIN reader[r].paths /\ reader[r].at \in DOMAIN reader[r].segs
    BY <1>1
  <1>3. reader[r].paths[reader[r].at] \in Path
    BY <1>1, <1>2
  <1> QED
    BY <1>2, <1>3 DEF TypeOK, StorageInv, ReaderInv, ReaderOK

\* The file that a merge has uploaded has a path of its own.
LEMMA TargetPath ==
    ASSUME TypeOK, StorageInv, merger.pc = "merged"
    PROVE  merger.target \in Path
  <1>1. merger.target \in 1 .. nextPath - 1 /\ nextPath \in 1 .. MaxPath + 1
    BY DEF TypeOK, StorageInv
  <1> QED
    BY <1>1, BoundAssumption DEF Path

\* Returning an answer keeps the readers' type.
LEMMA ReturnType ==
    ASSUME TypeOK, NEW r \in Reader, NEW a \in Answers, Return(r, a)
    PROVE  reader' \in [Reader -> ReaderType]
  <1>1. reader \in [Reader -> ReaderType] /\ "open" \in ReaderPcs
    BY DEF TypeOK, ReaderType, ReaderPcs
  <1> QED
    BY <1>1, ZenonT(60) DEF Return, ReaderType

\* The types are kept by every writer's, merger's and reader's step.
LEMMA TypeStep ==
    ASSUME TypeOK, StorageInv, MergerInv, ReaderInv, [Next]_vars
    PROVE  TypeOK'
  <1> USE DEF ReaderType, MergerType
  <1>1. ASSUME NEW delta \in Deltas, PushDelta(delta) PROVE TypeOK'
    <2>1. delta \in SegmentValue
      BY InputAssumption
    <2>2. nextPath \in Path /\ <<nextPath>> \o manifest \in Seq(Path)
          /\ <<nextPath>> \o manifest # <<>>
      BY <1>1, <2>1, PutType DEF PushDelta, TypeOK
    <2> QED
      BY <1>1, <2>1, <2>2, PutType DEF PushDelta, TypeOK
  <1>2. ASSUME NEW base \in Bases, Reindex(base) PROVE TypeOK'
    <2>1. base \in SegmentValue
      BY InputAssumption, BaseType
    <2>2. nextPath \in Path /\ <<nextPath>> \in Seq(Path) /\ <<nextPath>> # <<>>
      BY <1>2, <2>1, PutType DEF Reindex
    <2>3. Elements(manifest) \subseteq Path
      BY ElementsIn DEF TypeOK
    <2> QED
      BY <1>2, <2>1, <2>2, <2>3, PutType DEF Reindex, TypeOK
  <1>3. CASE StartMerge
    <2>1. merger' \in MergerType
      BY <1>3, IdleMergerType DEF StartMerge, TypeOK, MergerPcs
    <2> QED
      BY <1>3, <2>1 DEF StartMerge, TypeOK
  <1>4. CASE LoadSegment
    <2> DEFINE n   == Len(merger.segs) + 1
               seg == ReadAll(merger.paths[n])
    <2>1. merger \in MergerType /\ n \in Nat /\ n \in DOMAIN merger.paths
      BY <1>4 DEF TypeOK, MergerInv, LoadSegment
    <2>2. CASE seg = NoObject
      BY <1>4, <2>1, <2>2 DEF LoadSegment, TypeOK, MergerPcs
    <2>3. CASE seg # NoObject
      <3>1. merger.paths[n] \in Path
        BY <2>1
      <3>3. seg \in SegmentValue
        BY <3>1, <2>3 DEF ReadAll, TypeOK
      <3>2. Append(merger.segs, seg) \in Seq(SegmentValue)
        BY <2>1, <3>3
      <3> QED
        BY <1>4, <2>1, <2>3, <3>2 DEF LoadSegment, TypeOK, MergerPcs
    <2> QED
      BY <2>2, <2>3
  <1>5. CASE MergeStep
    <2>1. merger \in MergerType /\ merger.left - 1 \in Nat
      BY <1>5 DEF MergeStep, TypeOK
    <2>2. merger.left \in 1 .. Len(merger.segs)
      BY <1>5, <2>1 DEF MergeStep, MergerInv
    <2>3. merger.segs[merger.left] \in SegmentValue
      BY <2>1, <2>2
    <2>4. Overlay(merger.acc, merger.segs[merger.left]) \in Contents(Value)
      BY <2>1, <2>3, OverlayType
    <2>5. merger' \in MergerType
      BY <1>5, <2>1, <2>4 DEF MergeStep
    <2> QED
      BY <1>5, <2>5 DEF MergeStep, TypeOK
  <1>6. CASE MergeFails
    BY <1>6 DEF MergeFails, TypeOK, MergerPcs
  <1>7. CASE MergeDone
    <2>1. merger.acc \in SegmentValue
      BY BaseType DEF TypeOK
    <2>2. nextPath \in 0 .. MaxPath
      BY <1>7, <2>1, PutType, BoundAssumption DEF MergeDone, Path
    <2> QED
      BY <1>7, <2>1, <2>2, PutType DEF MergeDone, TypeOK, MergerPcs
  <1>8. CASE Publish
    <2>3. merger.target \in Path
      BY <1>8, TargetPath DEF Publish
    <2>4. Elements(merger.paths) \subseteq Path
      BY ElementsIn DEF TypeOK
    <2>1. merger.target \in Path /\ garbage' \subseteq Path
      BY <1>8, <2>3, <2>4 DEF Publish, TypeOK, Obsolete
    <2>2. manifest' \in Seq(Path) /\ manifest' # <<>>
      BY <1>8, <2>1, PublishedList DEF Publish, TypeOK
    <2> QED
      BY <1>8, <2>1, <2>2, IdleMergerType DEF Publish, TypeOK
  <1>9. CASE AbandonMerge
    <2>1. garbage' \subseteq Path
      BY <1>9, TargetPath DEF AbandonMerge, TypeOK
    <2> QED
      BY <1>9, <2>1, IdleMergerType DEF AbandonMerge, TypeOK
  <1>10. ASSUME NEW p \in Path, Collect(p) PROVE TypeOK'
    BY <1>10 DEF Collect, TypeOK
  <1>11. ASSUME NEW r \in Reader, StartOpen(r) PROVE TypeOK'
    <2>1. reader \in [Reader -> ReaderType] /\ "opening" \in ReaderPcs
      BY DEF TypeOK, ReaderPcs
    <2>2. manifest \in Seq(Path) /\ <<>> \in Seq(SegmentValue) /\ Pending \in Answers
      BY DEF TypeOK, Answers
    <2>3. reader' \in [Reader -> ReaderType]
      BY <1>11, <2>1, <2>2, ZenonT(60) DEF StartOpen
    <2> QED
      BY <1>11, <2>3 DEF StartOpen, Storage, TypeOK
  <1>12. ASSUME NEW r \in Reader, OpenSegment(r) PROVE TypeOK'
    <2> DEFINE p == reader[r].paths[Len(reader[r].segs) + 1]
    <2>1. p \in Path
      BY <1>12 DEF OpenSegment, TypeOK
    <2>2. CASE objects[p] = NoObject
      BY <1>12, <2>2, ZenonT(60) DEF OpenSegment, Storage, TypeOK, ReaderPcs
    <2>3. CASE objects[p] # NoObject
      <3>1. Append(reader[r].segs, objects[p]) \in Seq(SegmentValue)
        BY <2>1, <2>3 DEF TypeOK
      <3> QED
        BY <1>12, <2>3, <3>1, ZenonT(60) DEF OpenSegment, Storage, TypeOK
    <2> QED
      BY <2>2, <2>3
  <1>13. ASSUME NEW r \in Reader, FromReaders(r) PROVE TypeOK'
    BY <1>13, ZenonT(60) DEF FromReaders, Storage, TypeOK, ReaderPcs
  <1>14. ASSUME NEW r \in Reader, SkipSegment(r) PROVE TypeOK'
    <2>1. reader[r].at + 1 \in Nat
      BY DEF TypeOK
    <2> QED
      BY <1>14, <2>1, ZenonT(60) DEF SkipSegment, Storage, TypeOK
  <1>15. ASSUME NEW r \in Reader, ReadSegment(r) PROVE TypeOK'
    <2> DEFINE seg == objects[reader[r].paths[reader[r].at]]
               k   == reader[r].key
    <2>1. reader[r].at + 1 \in Nat
      BY DEF TypeOK
    <2>2. CASE reader' = [reader EXCEPT ![r].at = reader[r].at + 1]
      BY <1>15, <2>1, <2>2, ZenonT(60) DEF ReadSegment, Storage, TypeOK
    <2>3. CASE Return(r, StorageError)
      BY <1>15, <2>3, ReturnType DEF ReadSegment, Storage, TypeOK, Answers
    <2>4. CASE seg # NoObject /\ k \in DOMAIN seg /\ Return(r, Visible(seg[k]))
      <3>1. seg \in SegmentValue
        BY <1>15, <2>4, GettingAt DEF ReadSegment
      <3>3. seg[k] \in Value \cup {Tombstone}
        BY <3>1, <2>4, StoredValue
      <3>2. Visible(seg[k]) \in Answers
        BY <3>3 DEF Visible, Answers
      <3> QED
        BY <1>15, <2>4, <3>2, ReturnType, SMTT(30) DEF ReadSegment, Storage, TypeOK
    <2> QED
      BY <1>15, <2>2, <2>3, <2>4 DEF ReadSegment, Decides
  <1>16. ASSUME NEW r \in Reader, Exhausted(r) PROVE TypeOK'
    BY <1>16, ReturnType DEF Exhausted, Storage, TypeOK, Answers
  <1>17. ASSUME NEW r \in Reader, Close(r) PROVE TypeOK'
    <2>1. [ClosedReader EXCEPT !.key = reader[r].key, !.paths = reader[r].paths] \in ReaderType
      BY ClosedReaderType DEF TypeOK
    <2> QED
      BY <1>17, <2>1 DEF Close, Storage, TypeOK
  <1>18. ASSUME NEW r \in Reader, NEW k \in Key, StartGet(r, k) PROVE TypeOK'
    <2>1. reader \in [Reader -> ReaderType] /\ "getting" \in ReaderPcs /\ Pending \in Answers
      BY DEF TypeOK, ReaderPcs, Answers
    <2>3. reader' \in [Reader -> ReaderType]
      BY <1>18, <2>1, ZenonT(60) DEF StartGet
    <2> QED
      BY <1>18, <2>3 DEF StartGet, Storage, TypeOK
  <1>19. CASE UNCHANGED vars
    BY <1>19 DEF vars, TypeOK
  <1> QED
    BY <1>1, <1>2, <1>3, <1>4, <1>5, <1>6, <1>7, <1>8, <1>9, <1>10, <1>11, <1>12, <1>13,
       <1>14, <1>15, <1>16, <1>17, <1>18, <1>19 DEF Next

-----------------------------------------------------------------------------
(* Storage: which files are named, and which exist.                        *)

\* The steps of the readers.
ReaderStep(r) ==
    \/ StartOpen(r) \/ OpenSegment(r) \/ FromReaders(r)
    \/ SkipSegment(r) \/ ReadSegment(r) \/ Exhausted(r) \/ Close(r)
    \/ \E k \in Key : StartGet(r, k)

\* A reader's step touches no other reader and no storage, and takes no list
\* but the manifest.
LEMMA ReaderFrame ==
    ASSUME TypeOK, NEW r \in Reader, ReaderStep(r)
    PROVE  /\ UNCHANGED Storage
           /\ \A q \in Reader \ {r} : reader'[q] = reader[q]
           /\ \A q \in Reader : reader'[q].paths = reader[q].paths \/ reader'[q].paths = manifest
  <1>1. reader \in [Reader -> ReaderType]
    BY DEF TypeOK, ReaderType
  <1> USE DEF ReaderType
  <1>2. CASE StartOpen(r)
    BY <1>1, <1>2 DEF StartOpen
  <1>3. CASE OpenSegment(r)
    BY <1>1, <1>3 DEF OpenSegment
  <1>4. CASE FromReaders(r)
    BY <1>1, <1>4 DEF FromReaders
  <1>5. CASE SkipSegment(r)
    BY <1>1, <1>5 DEF SkipSegment
  <1>6. CASE ReadSegment(r)
    <2>1. UNCHANGED Storage
      BY <1>6 DEF ReadSegment
    <2>2. \/ \E a : Return(r, a)
          \/ reader' = [reader EXCEPT ![r].at = reader[r].at + 1]
      BY <1>6 DEF ReadSegment
    <2>3. ASSUME NEW a, Return(r, a)
          PROVE  /\ \A q \in Reader \ {r} : reader'[q] = reader[q]
                 /\ \A q \in Reader : reader'[q].paths = reader[q].paths
      BY <1>1, <2>3 DEF Return
    <2>4. CASE reader' = [reader EXCEPT ![r].at = reader[r].at + 1]
      BY <1>1, <2>1, <2>4
    <2> QED
      BY <2>1, <2>2, <2>3, <2>4
  <1>7. CASE Exhausted(r)
    BY <1>1, <1>7 DEF Exhausted, Return
  <1>8. CASE Close(r)
    <2>1. [ClosedReader EXCEPT !.key = reader[r].key, !.paths = reader[r].paths].paths
             = reader[r].paths
      BY DEF ClosedReader
    <2> QED
      BY <1>1, <1>8, <2>1 DEF Close
  <1>9. ASSUME NEW k \in Key, StartGet(r, k)
        PROVE  /\ UNCHANGED Storage
               /\ \A q \in Reader \ {r} : reader'[q] = reader[q]
               /\ \A q \in Reader :
                    reader'[q].paths = reader[q].paths \/ reader'[q].paths = manifest
    BY <1>1, <1>9 DEF StartGet
  <1> QED
    BY <1>2, <1>3, <1>4, <1>5, <1>6, <1>7, <1>8, <1>9 DEF ReaderStep

\* What is written under a path that was used stays.
LEMMA WrittenStable ==
    ASSUME TypeOK, [Next]_vars
    PROVE  /\ nextPath <= nextPath'
           /\ \A p \in Path : p < nextPath => written'[p] = written[p]
  <1>1. nextPath \in Nat /\ written \in [Path -> SegmentValue]
    BY DEF TypeOK
  <1>2. ASSUME NEW seg, Put(seg)
        PROVE  /\ nextPath <= nextPath'
               /\ \A p \in Path : p < nextPath => written'[p] = written[p]
    BY <1>1, <1>2 DEF Put
  <1>3. CASE UNCHANGED <<written, nextPath>>
    BY <1>1, <1>3
  <1>4. (\E seg : Put(seg)) \/ UNCHANGED <<written, nextPath>>
    <2>1. (\E r \in Reader : ReaderStep(r)) => UNCHANGED <<written, nextPath>>
      BY ReaderFrame DEF Storage
    <2>2. ASSUME NEW delta \in Deltas, PushDelta(delta) PROVE Put(delta)
      BY <2>2 DEF PushDelta
    <2>3. ASSUME NEW base \in Bases, Reindex(base) PROVE Put(base)
      BY <2>3 DEF Reindex
    <2>4. MergeDone => Put(merger.acc)
      BY DEF MergeDone
    <2>5. StartMerge \/ LoadSegment \/ MergeStep \/ MergeFails \/ Publish \/ AbandonMerge
             => UNCHANGED <<written, nextPath>>
      BY DEF StartMerge, LoadSegment, MergeStep, MergeFails, Publish, AbandonMerge
    <2>6. ASSUME NEW p \in Path, Collect(p) PROVE UNCHANGED <<written, nextPath>>
      BY <2>6 DEF Collect
    <2>7. UNCHANGED vars => UNCHANGED <<written, nextPath>>
      BY DEF vars
    <2> QED
      BY <2>1, <2>2, <2>3, <2>4, <2>5, <2>6, <2>7 DEF Next, ReaderStep
  <1> QED
    BY <1>2, <1>3, <1>4

\* A push adds its file to the files of the list.
LEMMA ElementsOfPush ==
    ASSUME NEW p \in Path, NEW paths \in Seq(Path)
    PROVE  Elements(<<p>> \o paths) = {p} \cup Elements(paths)
  <1> DEFINE list == <<p>> \o paths
  <1>1. /\ DOMAIN paths = 1 .. Len(paths) /\ Len(paths) \in Nat
        /\ DOMAIN list = 1 .. Len(paths) + 1
        /\ list[1] = p /\ \A i \in 1 .. Len(paths) : list[i + 1] = paths[i]
    OBVIOUS
  <1> HIDE DEF list
  <1>2. ASSUME NEW i \in DOMAIN list PROVE list[i] \in {p} \cup Elements(paths)
    <2>1. CASE i = 1
      BY <1>1, <2>1
    <2>2. CASE i # 1
      <3>1. i - 1 \in 1 .. Len(paths) /\ i = (i - 1) + 1
        BY <1>1, <2>2
      <3> QED
        BY <1>1, <3>1 DEF Elements
    <2> QED
      BY <2>1, <2>2
  <1>3. ASSUME NEW i \in DOMAIN paths PROVE paths[i] \in Elements(list)
    <2>1. i + 1 \in DOMAIN list /\ list[i + 1] = paths[i]
      BY <1>1
    <2> QED
      BY <2>1 DEF Elements
  <1>4. p \in Elements(list)
    BY <1>1 DEF Elements
  <1> QED
    BY <1>2, <1>3, <1>4 DEF Elements, list

\* The published manifest lists old files and the merged one.
LEMMA ElementsOfPublish ==
    ASSUME TypeOK, StorageInv, Publish
    PROVE  Elements(manifest') \subseteq Elements(manifest) \cup {merger.target}
  <1> DEFINE n == Len(manifest) - Len(merger.paths)
  <1>1. merger.target \in Path /\ MergeCurrent
    BY TargetPath DEF Publish
  <1>2. manifest' = SubSeq(manifest, 1, n) \o <<merger.target>>
    BY DEF Publish
  <1>3. /\ n \in 0 .. Len(manifest) /\ manifest' \in Seq(Path) /\ Len(manifest') = n + 1
        /\ \A i \in 1 .. n : manifest'[i] = manifest[i]
        /\ manifest'[n + 1] = merger.target
    BY <1>1, <1>2, PublishedList
  <1>4. DOMAIN manifest = 1 .. Len(manifest) /\ Len(manifest) \in Nat
    BY DEF TypeOK
  <1> HIDE DEF n
  <1> SUFFICES ASSUME NEW i \in 1 .. n + 1
               PROVE  manifest'[i] \in Elements(manifest) \cup {merger.target}
    BY <1>3 DEF Elements
  <1>5. CASE i <= n
    BY <1>3, <1>4, <1>5 DEF Elements
  <1>6. CASE i = n + 1
    BY <1>3, <1>6
  <1> QED
    BY <1>3, <1>5, <1>6

\* A path that a step names for the first time is the one it puts under, or
\* the merged file that it publishes or drops.
LEMMA InUseStep ==
    ASSUME TypeOK, StorageInv, [Next]_vars, NEW p \in InUse'
    PROVE  \/ p \in InUse
           \/ p = nextPath /\ nextPath' = nextPath + 1 /\ merger' = merger
           \/ p = merger.target /\ merger.pc = "merged" /\ merger' = IdleMerger
  <1>1. ASSUME NEW delta \in Deltas, PushDelta(delta)
        PROVE  p \in InUse \/ (p = nextPath /\ nextPath' = nextPath + 1 /\ merger' = merger)
    <2>1. Elements(manifest') = {nextPath} \cup Elements(manifest)
      BY <1>1, ElementsOfPush DEF PushDelta, Put, TypeOK
    <2>2. UNCHANGED <<garbage, merger, reader>> /\ nextPath' = nextPath + 1
      BY <1>1 DEF PushDelta, Put
    <2> QED
      BY <2>1, <2>2 DEF InUse, Elements
  <1>2. ASSUME NEW base \in Bases, Reindex(base)
        PROVE  p \in InUse \/ (p = nextPath /\ nextPath' = nextPath + 1 /\ merger' = merger)
    <2>1. Elements(manifest') = {nextPath}
      BY <1>2 DEF Reindex, Elements
    <2>2. /\ garbage' = garbage \cup Elements(manifest)
          /\ UNCHANGED <<merger, reader>> /\ nextPath' = nextPath + 1
      BY <1>2 DEF Reindex, Put
    <2> QED
      BY <2>1, <2>2 DEF InUse, Elements
  <1>3. CASE StartMerge
    <2>1. Elements(merger'.paths) = Elements(manifest) /\ UNCHANGED <<manifest, garbage, reader>>
      BY <1>3 DEF StartMerge, IdleMerger
    <2> QED
      BY <2>1 DEF InUse, Elements
  <1>4. CASE LoadSegment \/ MergeStep \/ MergeFails \/ MergeDone
    <2>1. merger'.paths = merger.paths /\ UNCHANGED <<manifest, garbage, reader>>
      BY <1>4 DEF LoadSegment, MergeStep, MergeFails, MergeDone, TypeOK
    <2> QED
      BY <2>1 DEF InUse, Elements
  <1>5. CASE Publish
    <2>1. Elements(manifest') \subseteq Elements(manifest) \cup {merger.target}
      BY <1>5, ElementsOfPublish
    <2>2. Elements(merger'.paths) = {}
      BY <1>5 DEF Publish, IdleMerger, Elements
    <2>3. /\ garbage' = garbage \cup Elements(merger.paths) /\ reader' = reader
          /\ merger.pc = "merged" /\ merger' = IdleMerger
      BY <1>5 DEF Publish, Obsolete
    <2> QED
      BY <2>1, <2>2, <2>3 DEF InUse, Elements
  <1>6. CASE AbandonMerge
    <2>1. Elements(merger'.paths) = {}
      BY <1>6 DEF AbandonMerge, IdleMerger, Elements
    <2>2. /\ garbage' = IF merger.pc = "merged" THEN garbage \cup {merger.target} ELSE garbage
          /\ UNCHANGED <<manifest, reader>> /\ merger' = IdleMerger
      BY <1>6 DEF AbandonMerge
    <2> QED
      BY <2>1, <2>2 DEF InUse, Elements
  <1>7. ASSUME NEW c \in Path, Collect(c) PROVE p \in InUse
    BY <1>7 DEF Collect, InUse, Elements
  <1>8. ASSUME NEW r \in Reader, ReaderStep(r) PROVE p \in InUse
    <2>1. /\ UNCHANGED <<manifest, garbage, merger>>
          /\ \A q \in Reader : reader'[q].paths = reader[q].paths \/ reader'[q].paths = manifest
      BY <1>8, ReaderFrame DEF Storage
    <2> QED
      BY <2>1 DEF InUse, Elements
  <1>9. CASE UNCHANGED vars
    BY <1>9 DEF vars, InUse, Elements
  <1> QED
    BY <1>1, <1>2, <1>3, <1>4, <1>5, <1>6, <1>7, <1>8, <1>9 DEF Next, ReaderStep

\* The files that someone may still read have paths.
LEMMA InUseType ==
    ASSUME TypeOK
    PROVE  InUse \subseteq Path
  <1>1. Elements(manifest) \subseteq Path /\ Elements(merger.paths) \subseteq Path
    BY ElementsIn DEF TypeOK
  <1>2. ASSUME NEW r \in Reader PROVE Elements(reader[r].paths) \subseteq Path
    BY ElementsIn DEF TypeOK
  <1> QED
    BY <1>1, <1>2 DEF InUse, TypeOK

\* Every write goes to a path that nothing names, and only files that nobody
\* names but as garbage are deleted: StorageInv is kept.
LEMMA StorageStep ==
    ASSUME TypeOK, StorageInv, TypeOK', [Next]_vars
    PROVE  StorageInv'
  <1>1. /\ nextPath <= nextPath' /\ nextPath \in Nat /\ nextPath' \in Nat
        /\ \A p \in Path : p < nextPath => written'[p] = written[p]
    BY WrittenStable DEF TypeOK
  <1>2. garbage \subseteq InUse /\ garbage \subseteq Path
    BY DEF InUse, TypeOK
  <1>3. objects \in [Path -> SegmentValue \cup {NoObject}] /\ written \in [Path -> SegmentValue]
    BY DEF TypeOK
  <1>4. ASSUME NEW seg, Put(seg)
        PROVE  /\ nextPath \in Path /\ nextPath' = nextPath + 1
               /\ objects'[nextPath] = seg /\ written'[nextPath] = seg
               /\ \A p \in Path \ {nextPath} :
                    objects'[p] = objects[p] /\ written'[p] = written[p]
    BY <1>3, <1>4 DEF Put
  <1>5. ASSUME NEW c \in Path, Collect(c)
        PROVE  /\ c \in garbage /\ objects'[c] = NoObject
               /\ \A p \in Path \ {c} : objects'[p] = objects[p]
               /\ UNCHANGED <<written, merger, nextPath>>
    BY <1>3, <1>5 DEF Collect
  <1>6. \/ \E delta \in Deltas : Put(delta) /\ merger' = merger
        \/ \E base \in Bases : Put(base) /\ merger' = merger
        \/ Put(merger.acc) /\ merger.pc # "merged" /\ merger'.pc = "merged"
             /\ merger'.target = nextPath
        \/ \E c \in Path : Collect(c)
        \/ /\ UNCHANGED <<objects, written, nextPath>>
           /\ merger' = merger \/ merger'.pc # "merged"
    <2>1. ASSUME NEW r \in Reader, ReaderStep(r)
          PROVE  UNCHANGED <<objects, written, nextPath, merger>>
      BY <2>1, ReaderFrame DEF Storage
    <2>2. ASSUME NEW delta \in Deltas, PushDelta(delta) PROVE Put(delta) /\ merger' = merger
      BY <2>2 DEF PushDelta
    <2>3. ASSUME NEW base \in Bases, Reindex(base) PROVE Put(base) /\ merger' = merger
      BY <2>3 DEF Reindex
    <2>4. ASSUME MergeDone
          PROVE  Put(merger.acc) /\ merger.pc # "merged" /\ merger'.pc = "merged"
                   /\ merger'.target = nextPath
      BY <2>4 DEF MergeDone, TypeOK
    <2>5. ASSUME StartMerge \/ LoadSegment \/ MergeStep \/ MergeFails \/ Publish \/ AbandonMerge
          PROVE  UNCHANGED <<objects, written, nextPath>> /\ merger'.pc # "merged"
      <3>1. merger \in MergerType /\ IdleMerger.pc = "idle" /\ IdleMerger \in MergerType
        BY IdleMergerType DEF TypeOK, MergerType, IdleMerger
      <3>2. CASE StartMerge
        BY <3>1, <3>2 DEF StartMerge, MergerType
      <3>3. CASE LoadSegment
        BY <3>1, <3>3 DEF LoadSegment, MergerType
      <3>4. CASE MergeStep \/ MergeFails
        BY <3>1, <3>4 DEF MergeStep, MergeFails, MergerType
      <3>5. CASE Publish \/ AbandonMerge
        BY <3>1, <3>5 DEF Publish, AbandonMerge
      <3> QED
        BY <2>5, <3>2, <3>3, <3>4, <3>5
    <2>6. UNCHANGED vars => UNCHANGED <<objects, written, nextPath, merger>>
      BY DEF vars
    <2> QED
      BY <2>1, <2>2, <2>3, <2>4, <2>5, <2>6 DEF Next, ReaderStep
  <1>7. \A p \in Path : objects'[p] \in {NoObject, written'[p]}
    BY <1>4, <1>5, <1>6 DEF StorageInv
  <1>8. ASSUME NEW p \in InUse' PROVE p < nextPath'
    <2>1. CASE p \in InUse
      <3>1. p < nextPath /\ p \in Nat
        BY <2>1, InUseType DEF StorageInv, Path
      <3> QED
        BY <3>1, <1>1
    <2>2. CASE p = nextPath /\ nextPath' = nextPath + 1
      BY <2>2, <1>1
    <2>3. CASE p = merger.target /\ merger.pc = "merged"
      BY <2>3, <1>1 DEF StorageInv
    <2> QED
      BY <2>1, <2>2, <2>3, InUseStep
  <1>9. ASSUME merger'.pc = "merged"
        PROVE  /\ merger'.target \in 1 .. nextPath' - 1
               /\ merger'.target \notin InUse'
               /\ objects'[merger'.target] # NoObject
    <2>1. CASE merger' = merger
      <3>1. /\ merger.target \in 1 .. nextPath - 1 /\ merger.target \notin InUse
            /\ objects[merger.target] # NoObject /\ merger.target \in Path
        BY <1>9, <2>1, TargetPath DEF StorageInv
      <3>2. merger.target \notin InUse'
        <4> SUFFICES ASSUME merger.target \in InUse' PROVE FALSE
          OBVIOUS
        <4>1. merger.target = nextPath \/ merger' = IdleMerger
          BY <3>1, InUseStep
        <4> QED
          BY <4>1, <3>1, <1>1, <1>9 DEF IdleMerger
      <3>3. objects'[merger.target] # NoObject
        <4>1. merger.target # nextPath /\ merger.target \notin garbage
          BY <3>1, <1>1, <1>2
        <4>2. objects'[merger.target] = objects[merger.target]
          BY <4>1, <3>1, <1>4, <1>5, <1>6
        <4> QED
          BY <4>2, <3>1
      <3> QED
        BY <3>1, <3>2, <3>3, <2>1, <1>1
    <2>2. CASE merger' # merger
      <3>1. Put(merger.acc) /\ merger.pc # "merged" /\ merger'.target = nextPath
        BY <1>5, <1>6, <1>9, <2>2
      <3>5. /\ nextPath \in 1 .. MaxPath /\ nextPath' = nextPath + 1
            /\ objects'[nextPath] = merger.acc
        BY <3>1, <1>4 DEF Path
      <3>2. nextPath \in 1 .. nextPath' - 1 /\ objects'[nextPath] = merger.acc
        BY <3>5, <1>1
      <3>3. merger.acc # NoObject
        BY BaseType, NoObjectAssumption DEF TypeOK
      <3>4. nextPath \notin InUse'
        <4> SUFFICES ASSUME nextPath \in InUse' PROVE FALSE
          OBVIOUS
        <4>1. nextPath \in InUse
          BY <2>2, <3>1, InUseStep
        <4> QED
          BY <4>1, <1>1 DEF StorageInv
      <3> QED
        BY <3>1, <3>2, <3>3, <3>4
    <2> QED
      BY <2>1, <2>2
  <1> QED
    BY <1>7, <1>8, <1>9 DEF StorageInv

\* The manifest's files stay: a put adds a fresh one, a publication swaps the
\* merged file in for the files it makes garbage, and only garbage is deleted.
LEMMA ManifestStep ==
    ASSUME TypeOK, StorageInv, ManifestLive, [Next]_vars
    PROVE  ManifestLive'
  <1> DEFINE Live(list) == /\ \A i \in DOMAIN list : objects'[list[i]] # NoObject
                           /\ \A i \in DOMAIN list : list[i] \notin garbage'
                           /\ \A i, j \in DOMAIN list : list[i] = list[j] => i = j
  <1> SUFFICES Live(manifest')
    BY DEF ManifestLive, Elements
  <1>1. /\ nextPath \in Nat /\ Elements(manifest) \subseteq InUse /\ garbage \subseteq InUse
        /\ \A p \in InUse : p < nextPath /\ p \in Path
        /\ objects \in [Path -> SegmentValue \cup {NoObject}]
    BY InUseType DEF TypeOK, StorageInv, InUse
  <1>2. /\ manifest \in Seq(Path) /\ DOMAIN manifest = 1 .. Len(manifest)
        /\ Len(manifest) \in Nat
        /\ \A i \in DOMAIN manifest : /\ manifest[i] \in InUse
                                      /\ objects[manifest[i]] # NoObject
                                      /\ manifest[i] \notin garbage
        /\ \A i, j \in DOMAIN manifest : manifest[i] = manifest[j] => i = j
    BY <1>1 DEF TypeOK, ManifestLive, Elements
  <1>3. ASSUME NEW seg \in SegmentValue, Put(seg)
        PROVE  /\ nextPath \in Path /\ nextPath \notin InUse
               /\ objects'[nextPath] # NoObject
               /\ \A p \in InUse : objects'[p] = objects[p]
    BY <1>1, <1>3, NoObjectAssumption DEF Put
  <1>4. ASSUME NEW delta \in Deltas, PushDelta(delta) PROVE Live(manifest')
    <2>1. /\ Put(delta) /\ delta \in SegmentValue
          /\ manifest' = <<nextPath>> \o manifest /\ garbage' = garbage
      BY <1>4, InputAssumption DEF PushDelta
    <2>2. /\ DOMAIN manifest' = 1 .. Len(manifest) + 1 /\ manifest'[1] = nextPath
          /\ \A i \in 2 .. Len(manifest) + 1 :
               i - 1 \in DOMAIN manifest /\ manifest'[i] = manifest[i - 1]
      BY <2>1, <1>2
    <2>3. \A i \in DOMAIN manifest' : i = 1 \/ i \in 2 .. Len(manifest) + 1
      BY <2>2, <1>2
    <2>4. \A i \in DOMAIN manifest' :
            objects'[manifest'[i]] # NoObject /\ manifest'[i] \notin garbage'
      BY <2>1, <2>2, <2>3, <1>1, <1>2, <1>3
    <2>5. ASSUME NEW i \in DOMAIN manifest', NEW j \in DOMAIN manifest',
                 manifest'[i] = manifest'[j]
          PROVE  i = j
      <3>1. CASE i = 1 \/ j = 1
        BY <3>1, <2>1, <2>2, <2>3, <2>5, <1>2, <1>3
      <3>2. CASE i \in 2 .. Len(manifest) + 1 /\ j \in 2 .. Len(manifest) + 1
        <4>1. i - 1 = j - 1
          BY <3>2, <2>2, <2>5, <1>2
        <4> QED
          BY <4>1, <3>2
      <3> QED
        BY <3>1, <3>2, <2>3
    <2> QED
      BY <2>4, <2>5
  <1>5. ASSUME NEW base \in Bases, Reindex(base) PROVE Live(manifest')
    <2>1. /\ Put(base) /\ base \in SegmentValue /\ manifest' = <<nextPath>>
          /\ garbage' = garbage \cup Elements(manifest)
      BY <1>5, InputAssumption, BaseType DEF Reindex
    <2>2. DOMAIN manifest' = {1} /\ manifest'[1] = nextPath
      BY <2>1
    <2> QED
      BY <2>1, <2>2, <1>1, <1>3
  <1>6. CASE MergeDone
    <2>1. Put(merger.acc) /\ merger.acc \in SegmentValue /\ UNCHANGED <<manifest, garbage>>
      BY <1>6, BaseType DEF MergeDone, TypeOK
    <2> QED
      BY <2>1, <1>2, <1>3
  <1>7. CASE Publish
    <2> DEFINE n == Len(manifest) - Len(merger.paths)
    <2>1. /\ merger.target \in Path /\ merger.target \notin InUse
          /\ objects[merger.target] # NoObject /\ MergeCurrent
      BY <1>7, TargetPath DEF Publish, StorageInv
    <2>2. /\ manifest' = SubSeq(manifest, 1, n) \o <<merger.target>>
          /\ garbage' = garbage \cup Elements(merger.paths) /\ objects' = objects
      BY <1>7 DEF Publish, Obsolete
    <2>3. /\ n \in 0 .. Len(manifest) /\ manifest' \in Seq(Path) /\ Len(manifest') = n + 1
          /\ \A i \in 1 .. n : manifest'[i] = manifest[i]
          /\ manifest'[n + 1] = merger.target
      BY <2>1, <2>2, PublishedList
    <2>4. \A p \in Elements(merger.paths) : \E j \in n + 1 .. Len(manifest) : p = manifest[j]
      BY <2>1, MergedPart
    <2>5. Elements(merger.paths) \subseteq InUse
      BY DEF InUse
    <2> HIDE DEF n
    <2>6. DOMAIN manifest' = 1 .. n + 1 /\ \A i \in 1 .. n : i \in DOMAIN manifest
      BY <2>3, <1>2
    <2>7. ASSUME NEW i \in 1 .. n PROVE manifest'[i] \notin garbage'
      BY <2>2, <2>3, <2>4, <2>6, <1>2
    <2>8. manifest'[n + 1] \notin garbage' /\ objects'[manifest'[n + 1]] # NoObject
      BY <2>1, <2>2, <2>3, <2>5, <1>1
    <2>9. \A i \in 1 .. n : manifest'[i] \in InUse /\ objects'[manifest'[i]] # NoObject
      BY <2>2, <2>3, <2>6, <1>2
    <2>10. \A i \in 1 .. n + 1 : i = n + 1 \/ i \in 1 .. n
      BY <2>3
    <2>11. ASSUME NEW i \in 1 .. n + 1, NEW j \in 1 .. n + 1, manifest'[i] = manifest'[j]
           PROVE  i = j
      <3>1. CASE i \in 1 .. n /\ j \in 1 .. n
        BY <3>1, <2>3, <2>6, <2>11, <1>2
      <3>2. CASE i = n + 1 \/ j = n + 1
        BY <3>2, <2>1, <2>3, <2>9, <2>10, <2>11
      <3> QED
        BY <3>1, <3>2, <2>10
    <2> QED
      BY <2>6, <2>7, <2>8, <2>9, <2>10, <2>11
  <1>8. CASE AbandonMerge
    <2>1. /\ UNCHANGED <<manifest, objects>>
          /\ garbage' \subseteq IF merger.pc = "merged" THEN garbage \cup {merger.target}
                                ELSE garbage
      BY <1>8 DEF AbandonMerge
    <2>2. merger.pc = "merged" => merger.target \notin InUse
      BY DEF StorageInv
    <2> QED
      BY <2>1, <2>2, <1>2
  <1>9. ASSUME NEW c \in Path, Collect(c) PROVE Live(manifest')
    BY <1>9, <1>1, <1>2 DEF Collect
  <1>10. CASE StartMerge \/ LoadSegment \/ MergeStep \/ MergeFails
    BY <1>10, <1>2 DEF StartMerge, LoadSegment, MergeStep, MergeFails
  <1>11. ASSUME NEW r \in Reader, ReaderStep(r) PROVE Live(manifest')
    BY <1>11, <1>2, ReaderFrame DEF Storage
  <1>12. CASE UNCHANGED vars
    BY <1>12, <1>2 DEF vars
  <1> HIDE DEF Live
  <1> QED
    BY <1>4, <1>5, <1>6, <1>7, <1>8, <1>9, <1>10, <1>11, <1>12 DEF Next, ReaderStep

-----------------------------------------------------------------------------
(* The merger.                                                             *)

\* The segments behind paths in use never change.
LEMMA SegmentsStable ==
    ASSUME TypeOK, [Next]_vars
    PROVE  \A paths \in Seq(Path) :
             (\A i \in DOMAIN paths : paths[i] < nextPath) =>
                 [i \in DOMAIN paths |-> written'[paths[i]]] = SegmentsOf(paths)
  <1> SUFFICES ASSUME NEW paths \in Seq(Path), \A i \in DOMAIN paths : paths[i] < nextPath
               PROVE  \A i \in DOMAIN paths : written'[paths[i]] = written[paths[i]]
    BY DEF SegmentsOf
  <1>1. \A i \in DOMAIN paths : paths[i] \in Path
    OBVIOUS
  <1> QED
    BY <1>1, WrittenStable

\* A merge reads files that were uploaded before.
LEMMA MergerPathsUsed ==
    ASSUME TypeOK, StorageInv
    PROVE  \A i \in DOMAIN merger.paths : merger.paths[i] \in Path /\ merger.paths[i] < nextPath
  <1>1. \A i \in DOMAIN merger.paths : merger.paths[i] \in InUse
    BY DEF InUse, Elements
  <1> QED
    BY <1>1, InUseType DEF StorageInv

\* Nothing that happens outside the merge disturbs it.
LEMMA MergerKept ==
    ASSUME TypeOK, StorageInv, MergerInv, [Next]_vars, merger' = merger
    PROVE  MergerInv'
  <1>1. merger.paths \in Seq(Path) /\ merger.segs \in Seq(SegmentValue)
    BY DEF TypeOK
  <1>2. SegmentsOf(merger.paths)' = SegmentsOf(merger.paths)
    BY <1>1, MergerPathsUsed, SegmentsStable DEF SegmentsOf
  <1>3. merger.pc = "merged" => written'[merger.target] = written[merger.target]
    <2>1. merger.pc = "merged" => merger.target \in Path /\ merger.target < nextPath
      BY TargetPath DEF StorageInv, TypeOK
    <2> QED
      BY <2>1, WrittenStable
  <1>4. ASSUME merger.pc = "loading", NEW i \in DOMAIN merger.segs
        PROVE  written'[merger.paths[i]] = merger.segs[i]
    <2>1. i \in DOMAIN merger.paths /\ merger.segs[i] = written[merger.paths[i]]
      BY <1>1, <1>4 DEF MergerInv
    <2> QED
      BY <2>1, MergerPathsUsed, WrittenStable
  <1>5. MergedIsView'
    BY <1>2, <1>3 DEF MergerInv, MergedIsView, View, ViewOf, Holders
  <1>6. merger.pc = "merging" => (merger.segs = SegmentsOf(merger.paths)
                                    /\ FoldedTo(merger.segs, merger.left, merger.acc))'
    <2>1. FoldedTo(merger.segs, merger.left, merger.acc)'
             <=> FoldedTo(merger.segs, merger.left, merger.acc)
      BY DEF FoldedTo, Holders
    <2> QED
      BY <1>2, <2>1 DEF MergerInv
  <1> QED
    BY <1>3, <1>4, <1>5, <1>6 DEF MergerInv

\* A segment that is loaded, folded, or stored is right.
LEMMA MergerStep ==
    ASSUME TypeOK, StorageInv, MergerInv, [Next]_vars
    PROVE  MergerInv'
  <1>1. /\ merger \in MergerType /\ merger.paths \in Seq(Path)
        /\ merger.segs \in Seq(SegmentValue) /\ merger.acc \in Contents(Value)
    BY DEF TypeOK, MergerType
  <1>2. CASE StartMerge
    <2>1. merger' = [IdleMerger EXCEPT !.pc = "loading", !.paths = manifest] /\ Len(manifest) > 1
      BY <1>2 DEF StartMerge, ShouldMerge, SegmentsOf
    <2>2. /\ merger'.pc = "loading" /\ merger'.paths = manifest /\ merger'.segs = <<>>
          /\ merger'.left = 0 /\ merger'.acc = <<>>
      BY <2>1 DEF IdleMerger
    <2> QED
      BY <2>1, <2>2 DEF MergerInv, MergedIsView
  <1>3. CASE LoadSegment
    <2> DEFINE n   == Len(merger.segs) + 1
               seg == objects[merger.paths[n]]
    <2>1. /\ merger.pc = "loading" /\ n \in DOMAIN merger.paths /\ n <= Len(merger.paths)
          /\ merger.left = 0 /\ merger.acc = <<>>
          /\ \A i \in DOMAIN merger.segs : merger.segs[i] = written[merger.paths[i]]
          /\ UNCHANGED <<objects, written>>
      BY <1>1, <1>3 DEF LoadSegment, MergerInv
    <2>2. CASE seg = NoObject
      BY <1>1, <1>3, <2>2 DEF LoadSegment, ReadAll, MergerType, MergerInv, MergedIsView
    <2>3. CASE seg # NoObject
      <3>1. merger.paths[n] \in Path
        BY <2>1, MergerPathsUsed
      <3>2. seg \in SegmentValue /\ seg = written[merger.paths[n]]
        BY <3>1, <2>3 DEF StorageInv, TypeOK
      <3> DEFINE segs == Append(merger.segs, seg)
      <3> HIDE DEF seg
      <3>3. /\ segs \in Seq(SegmentValue) /\ Len(segs) = n /\ DOMAIN segs = 1 .. n
            /\ segs[n] = seg /\ \A i \in DOMAIN merger.segs : segs[i] = merger.segs[i]
            /\ \A i \in 1 .. n : i = n \/ i \in DOMAIN merger.segs
        BY <1>1, <3>2, SMTT(30)
      <3> HIDE DEF segs
      <3>4. \A i \in DOMAIN segs : segs[i] = written[merger.paths[i]]
        BY <2>1, <3>2, <3>3
      <3>5. CASE n < Len(merger.paths)
        <4>1. merger' = [merger EXCEPT !.segs = segs]
          BY <1>3, <2>3, <3>5 DEF LoadSegment, ReadAll, segs, seg
        <4>2. /\ merger'.pc = "loading" /\ merger'.segs = segs /\ merger'.paths = merger.paths
              /\ merger'.left = 0 /\ merger'.acc = <<>>
          <5>1. merger \in MergerType
            BY <1>1
          <5>2. /\ merger'.pc = merger.pc /\ merger'.segs = segs /\ merger'.paths = merger.paths
                /\ merger'.left = merger.left /\ merger'.acc = merger.acc
            BY <4>1, <5>1 DEF MergerType
          <5> QED
            BY <2>1, <5>2
        <4> HIDE DEF n
        <4> QED
          BY <4>2, <2>1, <3>3, <3>4, <3>5 DEF MergerInv, MergedIsView
      <3>6. CASE ~ (n < Len(merger.paths))
        <4>1. merger' = [merger EXCEPT !.pc = "merging", !.segs = segs, !.left = n]
          BY <1>3, <2>3, <3>6 DEF LoadSegment, ReadAll, segs, seg
        <4>2. /\ merger'.pc = "merging" /\ merger'.segs = segs /\ merger'.paths = merger.paths
              /\ merger'.left = n /\ merger'.acc = <<>>
          BY <4>1, <1>1, <2>1 DEF MergerType
        <4>3. Len(merger.paths) = n
          BY <1>1, <2>1, <3>6
        <4>4. segs = SegmentsOf(merger.paths)'
          <5>1. DOMAIN merger.paths = 1 .. n
            BY <1>1, <4>3
          <5>2. SegmentsOf(merger.paths)' = [i \in 1 .. n |-> written[merger.paths[i]]]
            BY <5>1, <4>2, <2>1 DEF SegmentsOf
          <5>3. segs = [i \in 1 .. n |-> segs[i]]
            BY <3>3
          <5> QED
            BY <5>2, <5>3, <3>3, <3>4
        <4>5. FoldedTo(segs, n, <<>>)
          BY <3>3, FoldStart
        <4>6. n <= Len(segs)
          BY <1>1, <3>3
        <4> HIDE DEF n
        <4> QED
          <5>1. FoldedTo(merger.segs, merger.left, merger.acc)'
            BY <4>2, <4>5 DEF FoldedTo, Holders
          <5>2. merger'.segs = SegmentsOf(merger.paths)' /\ merger'.left <= Len(merger'.segs)
            BY <4>2, <4>4, <4>6
          <5>3. merger'.pc = "merging"
            BY <4>2
          <5> QED
            BY <5>1, <5>2, <5>3 DEF MergerInv, MergedIsView
      <3> QED
        BY <3>5, <3>6
    <2> QED
      BY <2>2, <2>3
  <1>4. CASE MergeStep
    <2> DEFINE acc == Overlay(merger.acc, merger.segs[merger.left])
    <2>1. /\ merger.pc = "merging" /\ merger.segs = SegmentsOf(merger.paths)
          /\ merger.left \in 1 .. Len(merger.segs)
          /\ FoldedTo(merger.segs, merger.left, merger.acc)
      BY <1>1, <1>4 DEF MergeStep, MergerInv, MergerType
    <2>2. FoldedTo(merger.segs, merger.left - 1, acc)
      BY <2>1, <1>1, FoldStep
    <2>3. /\ merger'.pc = "merging" /\ merger'.segs = merger.segs /\ merger'.acc = acc
          /\ merger'.paths = merger.paths /\ merger'.left = merger.left - 1
          /\ written' = written
      BY <1>1, <1>4, <2>1 DEF MergeStep, MergerType
    <2>4. merger.left - 1 <= Len(merger.segs)
      BY <2>1, <1>1
    <2> HIDE DEF acc
    <2>5. SegmentsOf(merger.paths)' = SegmentsOf(merger.paths)
      BY <2>3 DEF SegmentsOf
    <2>6. FoldedTo(merger.segs, merger.left, merger.acc)'
      BY <2>2, <2>3
    <2> QED
      BY <2>1, <2>3, <2>4, <2>5, <2>6 DEF MergerInv, MergedIsView
  <1>5. CASE MergeFails
    BY <1>1, <1>5 DEF MergeFails, MergerType, MergerInv, MergedIsView
  <1>6. CASE MergeDone
    <2>1. /\ merger.pc = "merging" /\ merger.left = 0 /\ merger.segs = SegmentsOf(merger.paths)
          /\ FoldedTo(merger.segs, 0, merger.acc)
      BY <1>6 DEF MergeDone, MergerInv
    <2>2. /\ merger'.pc = "merged" /\ merger'.target = nextPath /\ merger'.paths = merger.paths
      BY <1>1, <1>6 DEF MergeDone, MergerType
    <2>3. written'[nextPath] = merger.acc
      BY <1>6 DEF MergeDone, Put, TypeOK
    <2>4. SegmentsOf(merger.paths)' = SegmentsOf(merger.paths)
      BY <1>1, <2>2, MergerPathsUsed, SegmentsStable DEF SegmentsOf
    <2>5. \A k \in Key : ViewOf(merger.segs, k) =
                            IF k \in DOMAIN merger.acc THEN merger.acc[k] ELSE NoValue
      BY <1>1, <2>1, FoldDone
    <2>6. MergedIsView'
      <3>1. ASSUME NEW k \in Key
            PROVE  View(SegmentsOf(merger.paths))'[k] =
                       IF k \in DOMAIN merger.acc THEN merger.acc[k] ELSE NoValue
        BY <2>1, <2>4, <2>5 DEF View, ViewOf, Holders
      <3> QED
        BY <3>1, <2>2, <2>3 DEF MergedIsView
    <2> QED
      BY <1>1, <2>2, <2>3, <2>6 DEF MergerInv
  <1>7. CASE Publish \/ AbandonMerge
    BY <1>7 DEF Publish, AbandonMerge, IdleMerger, MergerInv, MergedIsView
  <1>8. ASSUME NEW delta \in Deltas, PushDelta(delta) PROVE MergerInv'
    BY <1>8, MergerKept DEF PushDelta
  <1>9. ASSUME NEW base \in Bases, Reindex(base) PROVE MergerInv'
    BY <1>9, MergerKept DEF Reindex
  <1>10. ASSUME NEW c \in Path, Collect(c) PROVE MergerInv'
    BY <1>10, MergerKept DEF Collect
  <1>11. ASSUME NEW r \in Reader, ReaderStep(r) PROVE MergerInv'
    BY <1>11, MergerKept, ReaderFrame DEF Storage
  <1>12. CASE UNCHANGED vars
    BY <1>12, MergerKept DEF vars
  <1> QED
    BY <1>2, <1>3, <1>4, <1>5, <1>6, <1>7, <1>8, <1>9, <1>10, <1>11, <1>12 DEF Next, ReaderStep

-----------------------------------------------------------------------------
(* The readers.                                                            *)

\* AnswerIsSnapshot and ErrorMeansSuperseded of one reader.
AnswerOK(rd) ==
    rd.pc = "open" /\ rd.answer \notin {Pending, StorageError}
        => rd.answer = View(SegmentsOf(rd.paths))[rd.key]
ErrorOK(rd) ==
    rd.pc = "failed" \/ rd.answer = StorageError => Superseded(rd.paths)

\* A complete reader holds what its list stands for.
LEMMA ReaderSegments ==
    ASSUME TypeOK, ReaderInv, NEW r \in Reader, reader[r].pc \in {"open", "getting"}
    PROVE  reader[r].segs = SegmentsOf(reader[r].paths)
  <1>1. /\ reader[r].segs \in Seq(SegmentValue) /\ reader[r].paths \in Seq(Path)
        /\ Len(reader[r].segs) = Len(reader[r].paths)
        /\ \A i \in DOMAIN reader[r].segs : reader[r].segs[i] = written[reader[r].paths[i]]
    BY DEF TypeOK, ReaderInv, ReaderOK
  <1> DEFINE n == Len(reader[r].segs)
  <1>2. DOMAIN reader[r].segs = 1 .. n /\ DOMAIN reader[r].paths = 1 .. n
    BY <1>1
  <1>3. reader[r].segs = [i \in 1 .. n |-> reader[r].segs[i]]
    BY <1>1
  <1> HIDE DEF n
  <1> QED
    BY <1>1, <1>2, <1>3 DEF SegmentsOf

\* A path without an object is not in the manifest.
LEMMA GoneMeansSuperseded ==
    ASSUME ManifestLive, NEW paths, NEW i \in DOMAIN paths, objects[paths[i]] = NoObject
    PROVE  Superseded(paths)
  BY DEF ManifestLive, Superseded, Elements

\* What a get returns and why.
LEMMA ReturnOK ==
    ASSUME TypeOK, ReaderInv, NEW r \in Reader, NEW a, Return(r, a), UNCHANGED Storage,
           reader[r].pc = "getting",
           \/ a = StorageError /\ Superseded(reader[r].paths)
           \/ a # StorageError /\ a = View(SegmentsOf(reader[r].paths))[reader[r].key]
    PROVE  (ReaderOK(reader[r]) /\ AnswerOK(reader[r]) /\ ErrorOK(reader[r]))'
  <1>1. reader \in [Reader -> ReaderType]
    BY DEF TypeOK, ReaderType
  <1>2. /\ reader'[r].pc = "open" /\ reader'[r].answer = a
        /\ reader'[r].paths = reader[r].paths /\ reader'[r].segs = reader[r].segs
        /\ reader'[r].key = reader[r].key
    BY <1>1 DEF Return, ReaderType
  <1>3. written' = written /\ manifest' = manifest
    BY DEF Storage
  <1>4. ReaderOK(reader[r])'
    BY <1>2, <1>3 DEF ReaderInv, ReaderOK
  <1>5. SegmentsOf(reader[r].paths)' = SegmentsOf(reader[r].paths)
    BY <1>2, <1>3 DEF SegmentsOf
  <1>6. (View(SegmentsOf(reader[r].paths))[reader[r].key])'
            = View(SegmentsOf(reader[r].paths))[reader[r].key]
    BY <1>2, <1>5 DEF View, ViewOf, Holders
  <1>7. AnswerOK(reader[r])'
    BY <1>2, <1>6 DEF AnswerOK
  <1>8. ErrorOK(reader[r])'
    BY <1>2, <1>3 DEF ErrorOK, Superseded
  <1> QED
    BY <1>4, <1>7, <1>8

\* A reader's own step: opening caches the listed segments, the walk passes
\* only segments without the key, and answers what the first holder says.
LEMMA ReaderMoves ==
    ASSUME TypeOK, StorageInv, ManifestLive, ReaderInv, AnswerIsSnapshot, ErrorMeansSuperseded,
           NEW r \in Reader, ReaderStep(r)
    PROVE  (ReaderOK(reader[r]) /\ AnswerOK(reader[r]) /\ ErrorOK(reader[r]))'
  <1> DEFINE Goal == (ReaderOK(reader[r]) /\ AnswerOK(reader[r]) /\ ErrorOK(reader[r]))'
  <1>1. /\ reader \in [Reader -> ReaderType] /\ ReaderOK(reader[r])
        /\ reader[r].paths \in Seq(Path) /\ reader[r].segs \in Seq(SegmentValue)
        /\ reader[r].key \in Key
    BY DEF TypeOK, ReaderType, ReaderInv
  <1>2. UNCHANGED Storage /\ written' = written /\ manifest' = manifest
    BY ReaderFrame DEF Storage
  <1>3. Pending # StorageError
    BY ValueAssumption
  <1>4. ErrorOK(reader[r])
    BY DEF ErrorMeansSuperseded, ErrorOK
  <1>5. CASE StartOpen(r)
    <2>1. reader'[r].pc = "opening" /\ reader'[r].segs = <<>> /\ reader'[r].answer = Pending
      BY <1>1, <1>5 DEF StartOpen, ReaderType
    <2> QED
      BY <2>1, <1>3 DEF ReaderOK, AnswerOK, ErrorOK
  <1>6. CASE OpenSegment(r)
    <2> DEFINE n == Len(reader[r].segs) + 1
               p == reader[r].paths[n]
    <2>1. /\ reader[r].pc = "opening" /\ reader[r].answer = Pending /\ n \in DOMAIN reader[r].paths
          /\ p \in Path
      BY <1>1, <1>6 DEF OpenSegment, ReaderOK
    <2>2. CASE objects[p] = NoObject
      <3>1. /\ reader'[r].pc = "failed" /\ reader'[r].answer = Pending
            /\ reader'[r].paths = reader[r].paths /\ reader'[r].segs = reader[r].segs
        BY <1>1, <1>6, <2>1, <2>2 DEF OpenSegment, ReaderType
      <3>2. Superseded(reader[r].paths)
        BY <2>1, <2>2, GoneMeansSuperseded
      <3> QED
        BY <3>1, <3>2, <1>1, <1>2 DEF ReaderOK, AnswerOK, ErrorOK, Superseded
    <2>3. CASE objects[p] # NoObject
      <3>1. objects[p] = written[p] /\ objects[p] \in SegmentValue
        BY <2>1, <2>3 DEF StorageInv, TypeOK
      <3> DEFINE segs == Append(reader[r].segs, objects[p])
      <3>2. /\ reader'[r].pc = "opening" /\ reader'[r].answer = Pending
            /\ reader'[r].paths = reader[r].paths /\ reader'[r].segs = segs
        BY <1>1, <1>6, <2>1, <2>3 DEF OpenSegment, ReaderType
      <3>3. /\ DOMAIN segs = 1 .. n /\ segs[n] = objects[p]
            /\ \A i \in DOMAIN reader[r].segs : segs[i] = reader[r].segs[i]
            /\ \A i \in 1 .. n : i = n \/ i \in DOMAIN reader[r].segs
        BY <1>1, <3>1
      <3> HIDE DEF segs
      <3>4. \A i \in DOMAIN segs :
              i \in DOMAIN reader[r].paths /\ segs[i] = written[reader[r].paths[i]]
        BY <1>1, <2>1, <3>1, <3>3 DEF ReaderOK
      <3> QED
        BY <3>2, <3>4, <1>2, <1>3 DEF ReaderOK, AnswerOK, ErrorOK
    <2> QED
      BY <2>2, <2>3
  <1>7. CASE FromReaders(r)
    <2>1. /\ reader[r].answer = Pending /\ Len(reader[r].segs) = Len(reader[r].paths)
          /\ reader'[r].pc = "open" /\ reader'[r].answer = Pending
          /\ reader'[r].paths = reader[r].paths /\ reader'[r].segs = reader[r].segs
      BY <1>1, <1>7 DEF FromReaders, ReaderType, ReaderOK
    <2> QED
      BY <2>1, <1>1, <1>2, <1>3 DEF ReaderOK, AnswerOK, ErrorOK
  <1>8. ASSUME NEW k \in Key, StartGet(r, k) PROVE Goal
    <2>1. /\ reader[r].pc = "open" /\ reader'[r].pc = "getting" /\ reader'[r].answer = Pending
          /\ reader'[r].paths = reader[r].paths /\ reader'[r].segs = reader[r].segs
          /\ reader'[r].at = 1
      BY <1>1, <1>8 DEF StartGet, ReaderType
    <2>2. 1 \in 1 .. Len(reader[r].segs) + 1 /\ 1 .. 1 - 1 = {}
      BY <1>1
    <2> QED
      BY <2>1, <2>2, <1>1, <1>2, <1>3 DEF ReaderOK, AnswerOK, ErrorOK
  <1>9. ASSUME Getting(r), reader' = [reader EXCEPT ![r].at = reader[r].at + 1],
               reader[r].key \notin DOMAIN reader[r].segs[reader[r].at]
        PROVE  Goal
    <2> DEFINE at == reader[r].at
    <2>1. /\ reader[r].pc = "getting" /\ reader[r].answer = Pending
          /\ at \in 1 .. Len(reader[r].segs) /\ Len(reader[r].segs) \in Nat
          /\ \A i \in 1 .. at - 1 : reader[r].key \notin DOMAIN reader[r].segs[i]
      BY <1>1, <1>9 DEF Getting, ReaderOK
    <2>2. /\ reader'[r].pc = "getting" /\ reader'[r].answer = Pending
          /\ reader'[r].paths = reader[r].paths /\ reader'[r].segs = reader[r].segs
          /\ reader'[r].at = at + 1 /\ reader'[r].key = reader[r].key
      BY <1>1, <1>9, <2>1 DEF ReaderType
    <2> HIDE DEF at
    <2>3. at + 1 \in 1 .. Len(reader[r].segs) + 1 /\ at + 1 - 1 = at
          /\ \A i \in 1 .. at : i = at \/ i \in 1 .. at - 1
      BY <2>1
    <2>4. \A i \in 1 .. at : reader[r].key \notin DOMAIN reader[r].segs[i]
      BY <1>9, <2>1, <2>3 DEF at
    <2> QED
      BY <2>1, <2>2, <2>3, <2>4, <1>1, <1>2, <1>3 DEF ReaderOK, AnswerOK, ErrorOK
  <1>10. CASE SkipSegment(r)
    BY <1>9, <1>10 DEF SkipSegment
  <1>11. CASE ReadSegment(r)
    <2> DEFINE at  == reader[r].at
               p   == reader[r].paths[at]
               seg == objects[p]
               k   == reader[r].key
    <2>1. /\ Getting(r) /\ reader[r].pc = "getting"
          /\ at \in DOMAIN reader[r].paths /\ at \in DOMAIN reader[r].segs
          /\ seg # NoObject => seg = reader[r].segs[at]
      BY <1>11, GettingAt DEF ReadSegment, Getting
    <2>2. CASE seg = NoObject
      <3>1. Return(r, StorageError) /\ Superseded(reader[r].paths)
        BY <1>11, <2>1, <2>2, GoneMeansSuperseded DEF ReadSegment
      <3> QED
        BY <3>1, <1>2, <2>1, ReturnOK
    <2>3. CASE seg # NoObject /\ k \in DOMAIN seg
      <3>1. Return(r, Visible(seg[k]))
        BY <1>11, <2>3 DEF ReadSegment, Decides
      <3>2. ViewOf(reader[r].segs, k) = Visible(reader[r].segs[at][k])
        BY <1>1, <2>1, <2>3, ViewAtFirst, SMTT(30) DEF ReaderOK
      <3>3. Visible(seg[k]) = View(SegmentsOf(reader[r].paths))[k]
        BY <1>1, <2>1, <2>3, <3>2, ReaderSegments DEF View
      <3>4. View(SegmentsOf(reader[r].paths))[k] # StorageError
        BY <1>1, SegmentsType, ViewType, ValueAssumption
      <3> QED
        BY <3>1, <3>3, <3>4, <1>2, <2>1, ReturnOK
    <2>4. CASE seg # NoObject /\ k \notin DOMAIN seg
      BY <1>9, <1>11, <2>1, <2>4 DEF ReadSegment
    <2> QED
      BY <2>2, <2>3, <2>4
  <1>12. CASE Exhausted(r)
    <2>1. Return(r, NoValue) /\ reader[r].pc = "getting"
      BY <1>12 DEF Exhausted
    <2>2. \A i \in DOMAIN reader[r].segs : reader[r].key \notin DOMAIN reader[r].segs[i]
      <3>1. reader[r].at = Len(reader[r].segs) + 1 /\ DOMAIN reader[r].segs = 1 .. Len(reader[r].segs)
        BY <1>1, <1>12 DEF Exhausted, ReaderOK
      <3> QED
        BY <1>1, <2>1, <3>1 DEF ReaderOK
    <2>3. NoValue = View(SegmentsOf(reader[r].paths))[reader[r].key]
      BY <1>1, <2>1, <2>2, ViewOfNone, ReaderSegments DEF View
    <2> QED
      BY <2>1, <2>3, <1>2, ValueAssumption, ReturnOK
  <1>13. CASE Close(r)
    <2>1. reader'[r].pc = "closed" /\ reader'[r].segs = <<>> /\ reader'[r].answer = Pending
      BY <1>1, <1>13 DEF Close, ClosedReader
    <2> QED
      BY <2>1, <1>3 DEF ReaderOK, AnswerOK, ErrorOK
  <1> QED
    BY <1>5, <1>6, <1>7, <1>8, <1>10, <1>11, <1>12, <1>13 DEF ReaderStep

\* A file that is named but no longer listed is never listed again.
LEMMA NeverListedAgain ==
    ASSUME TypeOK, StorageInv, [Next]_vars
    PROVE  \A p \in InUse : p \in Elements(manifest') => p \in Elements(manifest)
  <1>1. \A p \in InUse : p # nextPath
    BY InUseType DEF StorageInv, TypeOK, Path
  <1>2. ASSUME NEW delta \in Deltas, PushDelta(delta)
        PROVE  Elements(manifest') \subseteq Elements(manifest) \cup {nextPath}
    BY <1>2, ElementsOfPush DEF PushDelta, Put, TypeOK
  <1>3. ASSUME NEW base \in Bases, Reindex(base) PROVE Elements(manifest') = {nextPath}
    BY <1>3 DEF Reindex, Elements
  <1>4. ASSUME Publish
        PROVE  /\ Elements(manifest') \subseteq Elements(manifest) \cup {merger.target}
               /\ merger.target \notin InUse
    BY <1>4, ElementsOfPublish DEF Publish, StorageInv
  <1>5. ASSUME StartMerge \/ LoadSegment \/ MergeStep \/ MergeFails \/ MergeDone \/ AbandonMerge
        PROVE  manifest' = manifest
    BY <1>5 DEF StartMerge, LoadSegment, MergeStep, MergeFails, MergeDone, AbandonMerge
  <1>6. ASSUME NEW c \in Path, Collect(c) PROVE manifest' = manifest
    BY <1>6 DEF Collect
  <1>7. ASSUME NEW r \in Reader, ReaderStep(r) PROVE manifest' = manifest
    BY <1>7, ReaderFrame DEF Storage
  <1>8. CASE UNCHANGED vars
    BY <1>8 DEF vars
  <1> QED
    BY <1>1, <1>2, <1>3, <1>4, <1>5, <1>6, <1>7, <1>8 DEF Next, ReaderStep

\* A list that the manifest has replaced is never current again.
LEMMA SupersededStays ==
    ASSUME TypeOK, StorageInv, [Next]_vars
    PROVE  \A paths : Elements(paths) \subseteq InUse /\ Superseded(paths)
                          => ~ (Elements(paths) \subseteq Elements(manifest'))
  BY NeverListedAgain DEF Superseded

\* The segments of a reader that does not move stay, whatever others do.
LEMMA ReaderStays ==
    ASSUME TypeOK, StorageInv, ReaderInv, AnswerIsSnapshot, ErrorMeansSuperseded, [Next]_vars,
           NEW r \in Reader, reader'[r] = reader[r]
    PROVE  (ReaderOK(reader[r]) /\ AnswerOK(reader[r]) /\ ErrorOK(reader[r]))'
  <1>1. reader[r].paths \in Seq(Path) /\ reader[r].segs \in Seq(SegmentValue)
    BY DEF TypeOK
  <1>2. Elements(reader[r].paths) \subseteq InUse
    BY DEF InUse
  <1>3. \A i \in DOMAIN reader[r].paths :
          reader[r].paths[i] \in Path /\ reader[r].paths[i] < nextPath
    BY <1>2, InUseType DEF StorageInv, Elements
  <1>4. ReaderOK(reader[r])'
    <2>1. \A i \in DOMAIN reader[r].segs :
            i \in DOMAIN reader[r].paths /\ reader[r].segs[i] = written'[reader[r].paths[i]]
      BY <1>3, WrittenStable DEF ReaderInv, ReaderOK
    <2> QED
      BY <2>1 DEF ReaderInv, ReaderOK
  <1>5. SegmentsOf(reader[r].paths)' = SegmentsOf(reader[r].paths)
    BY <1>1, <1>3, SegmentsStable DEF SegmentsOf
  <1>6. AnswerOK(reader[r])'
    BY <1>5 DEF AnswerIsSnapshot, Snapshot, AnswerOK, View, ViewOf, Holders
  <1>7. ErrorOK(reader[r])'
    <2>1. Superseded(reader[r].paths) => ~ (Elements(reader[r].paths) \subseteq Elements(manifest'))
      BY <1>2, SupersededStays
    <2> QED
      BY <2>1 DEF ErrorMeansSuperseded, ErrorOK, Superseded, Elements
  <1> QED
    BY <1>4, <1>6, <1>7

\* Readers whose turn it is not keep their state; the writers and the merger
\* do not touch readers.
LEMMA ReadersStep ==
    ASSUME TypeOK, StorageInv, ManifestLive, ReaderInv, AnswerIsSnapshot, ErrorMeansSuperseded,
           [Next]_vars
    PROVE  \A r \in Reader : (ReaderOK(reader[r]) /\ AnswerOK(reader[r]) /\ ErrorOK(reader[r]))'
  <1> SUFFICES ASSUME NEW r \in Reader
               PROVE  (ReaderOK(reader[r]) /\ AnswerOK(reader[r]) /\ ErrorOK(reader[r]))'
    OBVIOUS
  <1>1. CASE ReaderStep(r)
    BY <1>1, ReaderMoves
  <1>2. ASSUME NEW q \in Reader \ {r}, ReaderStep(q) PROVE reader'[r] = reader[r]
    BY <1>2, ReaderFrame
  <1>3. ASSUME \/ \E delta \in Deltas : PushDelta(delta)
               \/ \E base \in Bases : Reindex(base)
               \/ StartMerge \/ LoadSegment \/ MergeStep \/ MergeFails \/ MergeDone
               \/ Publish \/ AbandonMerge
               \/ \E c \in Path : Collect(c)
               \/ UNCHANGED vars
        PROVE  reader' = reader
    BY <1>3 DEF PushDelta, Reindex, StartMerge, LoadSegment, MergeStep, MergeFails, MergeDone,
       Publish, AbandonMerge, Collect, vars
  <1>4. \/ ReaderStep(r) \/ reader' = reader
        \/ \E q \in Reader \ {r} : ReaderStep(q)
    BY <1>3 DEF Next, ReaderStep
  <1> QED
    BY <1>1, <1>2, <1>4, ReaderStays

\* A load of a merge fails only on a list that is no longer the manifest's.
LEMMA LostStep ==
    ASSUME TypeOK, StorageInv, ManifestLive, MergerInv, ErrorMeansSuperseded, [Next]_vars,
           merger'.pc = "lost"
    PROVE  Superseded(merger.paths)'
  <1>1. merger \in MergerType /\ Elements(merger.paths) \subseteq InUse
    BY DEF TypeOK, MergerType, InUse
  <1>2. CASE merger' = merger
    <2>1. Superseded(merger.paths)
      BY <1>2 DEF ErrorMeansSuperseded
    <2> QED
      BY <2>1, <1>1, <1>2, SupersededStays DEF Superseded, Elements
  <1>3. CASE LoadSegment
    <2> DEFINE n == Len(merger.segs) + 1
    <2>1. n \in DOMAIN merger.paths /\ merger.pc = "loading" /\ manifest' = manifest
      BY <1>1, <1>3 DEF LoadSegment, MergerInv, MergerType
    <2>2. objects[merger.paths[n]] = NoObject /\ merger'.paths = merger.paths
      BY <1>1, <1>3, <2>1 DEF LoadSegment, ReadAll, MergerType
    <2>3. Superseded(merger.paths)
      BY <2>1, <2>2, GoneMeansSuperseded
    <2> QED
      BY <2>1, <2>2, <2>3 DEF Superseded, Elements
  <1>4. ASSUME StartMerge \/ MergeStep \/ MergeFails \/ MergeDone \/ Publish \/ AbandonMerge
        PROVE  FALSE
    <2>1. IdleMerger.pc = "idle" /\ IdleMerger \in MergerType
      BY IdleMergerType DEF IdleMerger
    <2>2. ~ StartMerge
      BY <2>1 DEF StartMerge, MergerType
    <2>3. ~ (MergeStep \/ MergeFails \/ MergeDone)
      BY <1>1 DEF MergeStep, MergeFails, MergeDone, MergerType
    <2>4. ~ (Publish \/ AbandonMerge)
      BY <2>1 DEF Publish, AbandonMerge
    <2> QED
      BY <1>4, <2>2, <2>3, <2>4
  <1>5. ASSUME NEW r \in Reader, ReaderStep(r) PROVE merger' = merger
    BY <1>5, ReaderFrame DEF Storage
  <1>6. ASSUME \/ \E delta \in Deltas : PushDelta(delta)
               \/ \E base \in Bases : Reindex(base)
               \/ \E c \in Path : Collect(c)
               \/ UNCHANGED vars
        PROVE  merger' = merger
    BY <1>6 DEF PushDelta, Reindex, Collect, vars
  <1> QED
    BY <1>2, <1>3, <1>4, <1>5, <1>6 DEF Next, ReaderStep

-----------------------------------------------------------------------------
(* The theorems.                                                           *)

\* The inductive invariant holds initially.
LEMMA InitIInv == Init => IInv
  <1> SUFFICES ASSUME Init PROVE IInv
    OBVIOUS
  <1>1. TypeOK
    BY InitType
  <1>2. PICK base \in Bases :
          /\ objects = [p \in Path |-> IF p = 1 THEN base ELSE NoObject]
          /\ written = [p \in Path |-> IF p = 1 THEN base ELSE <<>>]
    BY DEF Init
  <1>3. /\ manifest = <<1>> /\ garbage = {} /\ nextPath = 2 /\ 1 \in Path
        /\ reader = [r \in Reader |-> ClosedReader]
        /\ merger.pc = "idle" /\ merger.paths = <<>>
    BY BoundAssumption DEF Init, IdleMerger, Path
  <1>4. \A r \in Reader : /\ reader[r].pc = "closed" /\ reader[r].paths = <<>>
                          /\ reader[r].segs = <<>> /\ reader[r].answer = Pending
    BY <1>3 DEF ClosedReader
  <1>5. StorageInv
    <2>1. Elements(manifest) = {1} /\ Elements(merger.paths) = {}
      BY <1>3 DEF Elements
    <2>2. \A r \in Reader : Elements(reader[r].paths) = {}
      BY <1>4 DEF Elements
    <2>3. InUse = {1}
      BY <2>1, <2>2, <1>3 DEF InUse
    <2> QED
      BY <2>3, <1>2, <1>3 DEF StorageInv
  <1>6. base # NoObject
    BY BaseType, InputAssumption, NoObjectAssumption
  <1>7. ManifestLive
    BY <1>2, <1>3, <1>6 DEF ManifestLive
  <1>8. MergerInv
    BY <1>3 DEF MergerInv, MergedIsView
  <1>9. ReaderInv
    BY <1>4 DEF ReaderInv, ReaderOK
  <1>10. AnswerIsSnapshot
    BY <1>4 DEF AnswerIsSnapshot
  <1>11. ErrorMeansSuperseded
    BY <1>3, <1>4, ValueAssumption DEF ErrorMeansSuperseded
  <1> QED
    BY <1>1, <1>5, <1>7, <1>8, <1>9, <1>10, <1>11 DEF IInv

\* Every step keeps the inductive invariant.
LEMMA NextIInv == IInv /\ [Next]_vars => IInv'
  <1> SUFFICES ASSUME IInv, [Next]_vars PROVE IInv'
    OBVIOUS
  <1> USE DEF IInv
  <1>1. TypeOK'
    BY TypeStep
  <1>2. StorageInv' /\ ManifestLive'
    BY <1>1, StorageStep, ManifestStep
  <1>3. MergerInv'
    BY MergerStep
  <1>4. \A r \in Reader : (ReaderOK(reader[r]) /\ AnswerOK(reader[r]) /\ ErrorOK(reader[r]))'
    BY ReadersStep
  <1>5. ReaderInv' /\ AnswerIsSnapshot'
    BY <1>4 DEF ReaderInv, AnswerOK, AnswerIsSnapshot, Snapshot
  <1>6. ErrorMeansSuperseded'
    BY <1>4, LostStep DEF ErrorOK, ErrorMeansSuperseded
  <1> QED
    BY <1>1, <1>2, <1>3, <1>5, <1>6

\* Whatever pushes, merges, reindexing, deletions and gets interleave, the
\* inductive invariant holds (layered.rs).
THEOREM Invariant == Spec => []IInv
  BY InitIInv, NextIInv, PTL DEF Spec

\* Every state is of the declared types (layered.rs).
THEOREM TypeCorrect == Spec => []TypeOK
  <1>1. IInv => TypeOK
    BY DEF IInv
  <1> QED
    BY <1>1, Invariant, PTL

\* Every file the manifest lists exists, once, and none awaits deletion
\* (layered.rs all_paths: "after merge, delete these").
THEOREM ManifestAlwaysLive == Spec => []ManifestLive
  <1>1. IInv => ManifestLive
    BY DEF IInv
  <1> QED
    BY <1>1, Invariant, PTL

\* A merged segment holds the visible keys of the merged list with their
\* newest values (layered.rs merge_segments).
THEOREM MergeCorrect == Spec => []MergedIsView
  <1>1. IInv => MergedIsView
    BY DEF IInv, MergerInv
  <1> QED
    BY <1>1, Invariant, PTL

\* A get answers from the version its reader was opened on, whatever is
\* pushed, merged, reindexed and deleted meanwhile (RemoteLayeredReader::get).
THEOREM SnapshotReads == Spec => []AnswerIsSnapshot
  <1>1. IInv => AnswerIsSnapshot
    BY DEF IInv
  <1> QED
    BY <1>1, Invariant, PTL

\* Storage errors reach only readers and merges of superseded versions
\* (layered.rs all_paths, reader.rs is_transient).
THEOREM ErrorsOnlyWhenSuperseded == Spec => []ErrorMeansSuperseded
  <1>1. IInv => ErrorMeansSuperseded
    BY DEF IInv
  <1> QED
    BY <1>1, Invariant, PTL

-----------------------------------------------------------------------------
(* The logical map.                                                        *)

\* The manifest lists files that were uploaded before.
LEMMA ManifestUsed ==
    ASSUME TypeOK, StorageInv
    PROVE  \A i \in DOMAIN manifest : manifest[i] \in Path /\ manifest[i] < nextPath
  <1>1. \A i \in DOMAIN manifest : manifest[i] \in InUse
    BY DEF InUse, Elements
  <1> QED
    BY <1>1, InUseType DEF StorageInv

\* The logical map changes only with the manifest.
LEMMA DbStays ==
    ASSUME TypeOK, StorageInv, [Next]_vars, manifest' = manifest
    PROVE  Db' = Db
  <1>1. SegmentsOf(manifest)' = SegmentsOf(manifest)
    BY ManifestUsed, SegmentsStable, ZenonT(60) DEF SegmentsOf, TypeOK
  <1> QED
    BY <1>1 DEF Db, View, ViewOf, Holders

\* A push overlays the delta; a tombstone deletes.
LEMMA DbPush ==
    ASSUME TypeOK, StorageInv, [Next]_vars, NEW delta \in Deltas, PushDelta(delta)
    PROVE  Db' = [k \in Key |-> IF k \in DOMAIN delta THEN Visible(delta[k]) ELSE Db[k]]
  <1> DEFINE segs == SegmentsOf(manifest)
  <1>1. /\ manifest \in Seq(Path) /\ delta \in SegmentValue
        /\ segs \in Seq(SegmentValue)
    BY InputAssumption, SegmentsType DEF TypeOK
  <1>7. <<delta>> \in Seq(SegmentValue)
    BY <1>1
  <1>2. /\ nextPath \in Path /\ written'[nextPath] = delta
        /\ manifest' = <<nextPath>> \o manifest
    BY DEF PushDelta, Put, TypeOK
  <1>3. \A i \in DOMAIN manifest : written'[manifest[i]] = written[manifest[i]]
    BY ManifestUsed, WrittenStable
  <1>4. SegmentsOf(manifest)' = <<delta>> \o segs
    <2> DEFINE n == Len(manifest) + 1
               new == <<nextPath>> \o manifest
               all == <<delta>> \o segs
    <2>1. /\ DOMAIN manifest = 1 .. Len(manifest) /\ Len(manifest) \in Nat
          /\ Len(segs) = Len(manifest)
          /\ \A i \in DOMAIN manifest : segs[i] = written[manifest[i]]
      BY <1>1, SegmentsType DEF SegmentsOf
    <2>2. /\ DOMAIN new = 1 .. n /\ new[1] = nextPath
          /\ \A i \in 2 .. n : new[i] = manifest[i - 1] /\ i - 1 \in DOMAIN manifest
      BY <1>1, <1>2, <2>1
    <2>3. /\ all = [i \in 1 .. n |-> all[i]] /\ all[1] = delta
          /\ \A i \in 2 .. n : all[i] = segs[i - 1]
      <3> HIDE DEF segs
      <3> QED
        BY <1>1, <2>1, SMTT(30)
    <2>4. \A i \in 1 .. n : i = 1 \/ i \in 2 .. n
      BY <2>1
    <2> HIDE DEF n, new, all
    <2>5. ASSUME NEW i \in 1 .. n PROVE written'[new[i]] = all[i]
      <3>1. CASE i = 1
        BY <1>2, <2>2, <2>3, <3>1
      <3>2. CASE i \in 2 .. n
        <4> DEFINE j == i - 1
        <4>1. j \in DOMAIN manifest /\ new[i] = manifest[j]
          BY <2>2, <3>2
        <4>2. all[i] = segs[j]
          BY <2>3, <3>2
        <4> HIDE DEF j, segs
        <4>3. segs[j] = written[manifest[j]]
          BY <2>1, <4>1
        <4>4. written'[manifest[j]] = written[manifest[j]]
          BY <1>3, <4>1
        <4> QED
          BY <4>1, <4>2, <4>3, <4>4
      <3> QED
        BY <2>4, <3>1, <3>2
    <2>6. SegmentsOf(manifest)' = [i \in 1 .. n |-> written'[new[i]]]
      BY <1>2, <2>2 DEF SegmentsOf, new
    <2> QED
      BY <2>3, <2>5, <2>6 DEF all
  <1> HIDE DEF segs
  <1>5. ASSUME NEW k \in Key
        PROVE  ViewOf(<<delta>> \o segs, k) =
                   IF k \in DOMAIN delta THEN Visible(delta[k]) ELSE ViewOf(segs, k)
    <2>1. /\ DOMAIN <<delta>> = {1} /\ <<delta>>[1] = delta
          /\ \A i \in 1 .. 1 - 1 : k \notin DOMAIN <<delta>>[i]
      OBVIOUS
    <2>2. CASE k \in DOMAIN delta
      <3>2. 1 \in DOMAIN <<delta>> /\ k \in DOMAIN <<delta>>[1]
        BY <2>1, <2>2
      <3>3. ViewOf(<<delta>>, k) = Visible(<<delta>>[1][k])
        BY <1>7, <2>1, <3>2, ViewAtFirst, ZenonT(60)
      <3>1. ViewOf(<<delta>>, k) = Visible(delta[k])
        BY <2>1, <3>3
      <3> QED
        BY <3>1, <1>1, <1>7, <2>1, <2>2, ViewConcat
    <2>3. CASE k \notin DOMAIN delta
      BY <1>1, <1>7, <2>1, <2>3, ViewConcat, ZenonT(60)
    <2> QED
      BY <2>2, <2>3
  <1>6. Db' = View(<<delta>> \o segs)
    BY <1>4 DEF Db, View, ViewOf, Holders
  <1> QED
    BY <1>5, <1>6 DEF Db, View, segs

\* A position behind the first n of a list is one of the rest.
LEMMA PositionInOlder ==
    ASSUME NEW n \in Nat, NEW older \in Nat, NEW all \in Nat, n + older = all,
           NEW i \in 1 .. all, ~ (i <= n)
    PROVE  i - n \in 1 .. older /\ n + (i - n) = i
  OBVIOUS

\* The list of segments splits where its list of paths does.
LEMMA SegmentsOfMerged ==
    ASSUME TypeOK, MergeCurrent
    PROVE  LET n == Len(manifest) - Len(merger.paths)
           IN  SegmentsOf(manifest) =
                   SegmentsOf(SubSeq(manifest, 1, n)) \o SegmentsOf(merger.paths)
  <1> DEFINE n     == Len(manifest) - Len(merger.paths)
             newer == SubSeq(manifest, 1, n)
             segs  == SegmentsOf(manifest)
             new   == SegmentsOf(newer)
             old   == SegmentsOf(merger.paths)
  <1>1. /\ manifest \in Seq(Path) /\ merger.paths \in Seq(Path)
        /\ Len(manifest) \in Nat /\ Len(merger.paths) \in Nat
        /\ DOMAIN manifest = 1 .. Len(manifest)
    BY DEF TypeOK
  <1>2. /\ n \in Nat /\ Len(merger.paths) \in Nat /\ Len(manifest) \in Nat
        /\ n \in 0 .. Len(manifest) /\ n + Len(merger.paths) = Len(manifest)
    <2>1. n \in 0 .. Len(manifest)
      BY MergedPart
    <2> QED
      BY <2>1, <1>1
  <1>3. \A j \in DOMAIN merger.paths : merger.paths[j] = manifest[n + j]
    BY MergedPart
  <1>4. /\ newer \in Seq(Path) /\ Len(newer) = n
        /\ \A i \in 1 .. n : newer[i] = manifest[i]
    <2>1. \A i \in 1 .. n : manifest[i] \in Path
      BY <1>1, <1>2
    <2>2. 1 \in Int /\ n \in Int
      BY <1>2
    <2> HIDE DEF n
    <2>3. /\ newer \in Seq(Path)
          /\ Len(newer) = IF 1 <= n THEN n - 1 + 1 ELSE 0
          /\ \A i \in 1 .. n - 1 + 1 : newer[i] = manifest[1 + i - 1]
      BY <2>1, <2>2, SubSeqProperties
    <2> QED
      BY <2>3, <1>2
  <1>5. /\ segs \in Seq(SegmentValue) /\ Len(segs) = Len(manifest)
        /\ new \in Seq(SegmentValue) /\ Len(new) = n
        /\ old \in Seq(SegmentValue) /\ Len(old) = Len(merger.paths)
    BY <1>1, <1>4, SegmentsType, Zenon
  <1>6. /\ \A i \in 1 .. Len(manifest) : segs[i] = written[manifest[i]]
        /\ \A i \in 1 .. n : new[i] = written[manifest[i]]
        /\ \A i \in 1 .. Len(merger.paths) : old[i] = written[manifest[n + i]]
    <2>1. DOMAIN newer = 1 .. n /\ DOMAIN merger.paths = 1 .. Len(merger.paths)
      BY <1>1, <1>4
    <2> HIDE DEF n, newer
    <2> QED
      BY <1>1, <1>3, <1>4, <2>1 DEF SegmentsOf
  <1> HIDE DEF n, newer, segs, new, old
  <1>7. /\ new \o old \in Seq(SegmentValue) /\ Len(new \o old) = Len(manifest)
        /\ \A i \in 1 .. Len(manifest) :
             (new \o old)[i] = IF i <= n THEN new[i] ELSE old[i - n]
    BY <1>2, <1>5, ConcatProperties
  <1>8. \A i \in 1 .. Len(manifest) : segs[i] = (new \o old)[i]
    <2> SUFFICES ASSUME NEW i \in 1 .. Len(manifest) PROVE segs[i] = (new \o old)[i]
      OBVIOUS
    <2>1. CASE i <= n
      <3>1. i \in 1 .. n
        BY <1>2, <2>1
      <3> QED
        BY <3>1, <2>1, <1>6, <1>7
    <2>2. CASE ~ (i <= n)
      <3>1. i - n \in 1 .. Len(merger.paths) /\ n + (i - n) = i
        BY <1>2, <2>2, PositionInOlder
      <3> QED
        BY <3>1, <2>2, <1>6, <1>7
    <2> QED
      BY <2>1, <2>2
  <1>9. segs = new \o old
    BY <1>5, <1>7, <1>8, SeqEqual
  <1> QED
    BY <1>9 DEF n, newer, segs, new, old

\* The publication of a merge leaves the logical map as it is.
LEMMA DbPublish ==
    ASSUME TypeOK, StorageInv, MergerInv, Publish
    PROVE  Db' = Db
  <1> DEFINE n     == Len(manifest) - Len(merger.paths)
             newer == SubSeq(manifest, 1, n)
             new   == SegmentsOf(newer)
             old   == SegmentsOf(merger.paths)
             base  == written[merger.target]
  <1>1. /\ merger.pc = "merged" /\ MergeCurrent /\ merger.target \in Path
        /\ written' = written /\ manifest' = newer \o <<merger.target>>
        /\ base \in Contents(Value)
    BY TargetPath DEF Publish, MergerInv
  <1>2. /\ n \in 0 .. Len(manifest) /\ manifest \in Seq(Path) /\ Len(manifest) \in Nat
        /\ merger.paths \in Seq(Path)
    BY <1>1, MergedPart DEF TypeOK
  <1>3. newer \in Seq(Path) /\ Len(newer) = n /\ DOMAIN newer = 1 .. n
    <2>1. 1 \in Int /\ n \in Int /\ \A i \in 1 .. n : manifest[i] \in Path
      BY <1>2
    <2> HIDE DEF n
    <2>2. newer \in Seq(Path) /\ Len(newer) = IF 1 <= n THEN n - 1 + 1 ELSE 0
      BY <2>1, SubSeqProperties
    <2> QED
      BY <2>2, <1>2
  <1>4. /\ new \in Seq(SegmentValue) /\ Len(new) = n
        /\ old \in Seq(SegmentValue) /\ <<base>> \in Seq(SegmentValue)
    BY <1>1, <1>2, <1>3, SegmentsType, ViewOfBase
  <1>5. SegmentsOf(manifest)' = new \o <<base>>
    <2> HIDE DEF n, newer
    <2>1. /\ DOMAIN (newer \o <<merger.target>>) = 1 .. n + 1
          /\ \A i \in 1 .. n : (newer \o <<merger.target>>)[i] = newer[i]
          /\ (newer \o <<merger.target>>)[n + 1] = merger.target
      BY <1>1, <1>2, <1>3, SMTT(30)
    <2>2. SegmentsOf(manifest)' =
            [i \in 1 .. n + 1 |-> written[(newer \o <<merger.target>>)[i]]]
      BY <1>1, <2>1 DEF SegmentsOf
    <2>3. \A i \in 1 .. n : new[i] = written[newer[i]]
      BY <1>3 DEF SegmentsOf
    <2> HIDE DEF new, base
    <2>4. /\ new \o <<base>> = [i \in 1 .. n + 1 |-> (new \o <<base>>)[i]]
          /\ \A i \in 1 .. n : (new \o <<base>>)[i] = new[i]
          /\ (new \o <<base>>)[n + 1] = base
      BY <1>2, <1>4
    <2>5. \A i \in 1 .. n + 1 : i \in 1 .. n \/ i = n + 1
      BY <1>2
    <2>6. \A i \in 1 .. n + 1 : written[(newer \o <<merger.target>>)[i]] = (new \o <<base>>)[i]
      BY <2>1, <2>3, <2>4, <2>5 DEF base
    <2> QED
      BY <2>2, <2>4, <2>6
  <1>6. SegmentsOf(manifest) = new \o old
    BY <1>1, SegmentsOfMerged
  <1>7. ASSUME NEW k \in Key PROVE ViewOf(new \o <<base>>, k) = ViewOf(new \o old, k)
    <2>1. ViewOf(<<base>>, k) = IF k \in DOMAIN base THEN base[k] ELSE NoValue
      BY <1>1, ViewOfBase
    <2>2. ViewOf(old, k) = IF k \in DOMAIN base THEN base[k] ELSE NoValue
      BY <1>1 DEF MergerInv, MergedIsView, View
    <2>3. ViewOf(old, k) = ViewOf(<<base>>, k)
      BY <2>1, <2>2
    <2>4. \A late \in Seq(SegmentValue) :
            ViewOf(new \o late, k) =
                IF \E i \in DOMAIN new : k \in DOMAIN new[i] THEN ViewOf(new, k)
                ELSE ViewOf(late, k)
      BY <1>4, ViewConcat
    <2> HIDE DEF new, old, base
    <2> QED
      BY <1>4, <2>3, <2>4
  <1> HIDE DEF new, old, base
  <1>8. Db' = View(new \o <<base>>)
    BY <1>5 DEF Db, View, ViewOf, Holders
  <1> QED
    BY <1>6, <1>7, <1>8 DEF Db, View

\* Merging is invisible: a change of the manifest that follows no upload
\* leaves the logical map as it is (layered.rs "Merge ... background").
THEOREM MergesAreInvisible == Spec => MergeInvisible
  <1>1. IInv /\ [Next]_vars => [(UNCHANGED nextPath) => (Db' = Db)]_vars
    <2> SUFFICES ASSUME IInv, [Next]_vars, nextPath' = nextPath PROVE Db' = Db
      OBVIOUS
    <2> USE DEF IInv
    <2>1. CASE manifest' = manifest
      BY <2>1, DbStays
    <2>2. CASE Publish
      BY <2>2, DbPublish
    <2>3. manifest' = manifest \/ Publish
      <3>1. nextPath \in Nat
        BY DEF TypeOK
      <3>2. ASSUME NEW delta \in Deltas PROVE ~ PushDelta(delta)
        BY <3>1 DEF PushDelta, Put
      <3>3. ASSUME NEW base \in Bases PROVE ~ Reindex(base)
        BY <3>1 DEF Reindex, Put
      <3>4. ASSUME NEW r \in Reader, ReaderStep(r) PROVE manifest' = manifest
        BY <3>4, ReaderFrame DEF Storage
      <3>5. ASSUME \/ StartMerge \/ LoadSegment \/ MergeStep \/ MergeFails \/ MergeDone
                   \/ AbandonMerge \/ UNCHANGED vars
                   \/ \E c \in Path : Collect(c)
            PROVE  manifest' = manifest
        BY <3>5 DEF StartMerge, LoadSegment, MergeStep, MergeFails, MergeDone, AbandonMerge,
           Collect, vars
      <3> QED
        BY <3>2, <3>3, <3>4, <3>5 DEF Next, ReaderStep
    <2> QED
      BY <2>1, <2>2, <2>3
  <1> QED
    BY <1>1, Invariant, PTL DEF Spec, MergeInvisible

-----------------------------------------------------------------------------
(* LayeredIndex implements AbstractIndex.                                  *)

Views   == [r \in Reader |-> Snapshot(r)]
Asked   == [r \in Reader |-> reader[r].key]
Replies == [r \in Reader |-> reader[r].answer]

DbIsMap == Db \in [Key -> Value \cup {NoValue}]

\* The logical map is a map of keys.
LEMMA DbType == TypeOK => DbIsMap
  <1> SUFFICES ASSUME TypeOK PROVE DbIsMap
    OBVIOUS
  <1>1. manifest \in Seq(Path)
    BY DEF TypeOK
  <1> QED
    BY <1>1, SegmentsType, ViewType DEF Db, DbIsMap

\* What a reader sees is a map of keys.
LEMMA SnapshotType ==
    ASSUME TypeOK, NEW r \in Reader
    PROVE  Snapshot(r) \in [Key -> Value \cup {NoValue}]
  <1>1. reader[r].paths \in Seq(Path)
    BY DEF TypeOK
  <1> QED
    BY <1>1, SegmentsType, ViewType DEF Snapshot

\* A reader's version is the one it read from the manifest, for good.
LEMMA SnapshotStays ==
    ASSUME TypeOK, StorageInv, [Next]_vars, NEW r \in Reader,
           reader'[r].paths = reader[r].paths
    PROVE  Snapshot(r)' = Snapshot(r)
  <1>1. reader[r].paths \in Seq(Path)
    BY DEF TypeOK
  <1>2. \A i \in DOMAIN reader[r].paths : reader[r].paths[i] \in InUse
    BY DEF InUse, Elements
  <1>3. \A i \in DOMAIN reader[r].paths : reader[r].paths[i] < nextPath
    BY <1>2 DEF StorageInv
  <1>4. SegmentsOf(reader[r].paths)' = SegmentsOf(reader[r].paths)
    BY <1>1, <1>3, SegmentsStable DEF SegmentsOf
  <1> QED
    BY <1>4 DEF Snapshot, View, ViewOf, Holders

\* A step that moves no reader is invisible to the readers' clients.
LEMMA ClientsStay ==
    ASSUME TypeOK, StorageInv, [Next]_vars, reader' = reader
    PROVE  UNCHANGED <<Views, Asked, Replies>>
  BY SnapshotStays DEF Views, Asked, Replies

\* What a reader's step does to its client, if its list stays.
LEMMA ClientStep ==
    ASSUME TypeOK, StorageInv, [Next]_vars, NEW r \in Reader, ReaderStep(r),
           reader'[r].paths = reader[r].paths
    PROVE  /\ Db' = Db /\ Views' = Views
           /\ Asked' = [Asked EXCEPT ![r] = reader'[r].key]
           /\ Replies' = [Replies EXCEPT ![r] = reader'[r].answer]
  <1>1. /\ manifest' = manifest
        /\ \A q \in Reader \ {r} : reader'[q] = reader[q]
    BY ReaderFrame DEF Storage
  <1>2. \A q \in Reader : reader'[q].paths = reader[q].paths
    BY <1>1
  <1>3. Views' = Views
    BY <1>2, SnapshotStays DEF Views
  <1> QED
    BY <1>1, <1>3, DbStays DEF Asked, Replies

\* A push is an abstract push of what the delta says.
LEMMA PushRefines ==
    ASSUME TypeOK, StorageInv, [Next]_vars, NEW delta \in Deltas, PushDelta(delta)
    PROVE  Abstract!Push
  <1>1. delta \in SegmentValue
    BY InputAssumption
  <1> DEFINE keys    == DOMAIN delta
             changes == [k \in keys |-> Visible(delta[k])]
  <1>2. keys \in SUBSET Key /\ \A k \in keys : delta[k] \in Value \cup {Tombstone}
    BY <1>1 DEF SegmentValue, Contents
  <1>3. changes \in [keys -> Value \cup {NoValue}]
    BY <1>2 DEF Visible
  <1>4. Db' = [k \in Key |-> IF k \in keys THEN changes[k] ELSE Db[k]]
    BY DbPush
  <1>5. UNCHANGED <<Views, Asked, Replies>>
    BY ClientsStay DEF PushDelta
  <1> HIDE DEF keys, changes
  <1> QED
    BY <1>2, <1>3, <1>4, <1>5 DEF Abstract!Push, Views, Asked, Replies

\* A reader's step is an abstract one or is not seen by its client.
LEMMA ReaderRefines ==
    ASSUME TypeOK, StorageInv, ReaderInv, AnswerIsSnapshot', [Next]_vars,
           NEW r \in Reader, ReaderStep(r)
    PROVE  \/ Abstract!Open(r) \/ Abstract!Reset(r) \/ Abstract!Answer(r)
           \/ \E k \in Key : Abstract!Ask(r, k)
           \/ UNCHANGED <<Db, Views, Asked, Replies>>
  <1> DEFINE Goal == \/ Abstract!Open(r) \/ Abstract!Reset(r) \/ Abstract!Answer(r)
                     \/ \E k \in Key : Abstract!Ask(r, k)
                     \/ UNCHANGED <<Db, Views, Asked, Replies>>
  <1>1. /\ reader \in [Reader -> ReaderType] /\ ReaderOK(reader[r])
        /\ manifest' = manifest /\ written' = written
        /\ \A q \in Reader \ {r} : reader'[q] = reader[q]
    BY ReaderFrame DEF TypeOK, ReaderType, ReaderInv, Storage
  <1>2. ASSUME reader'[r].paths = reader[r].paths
        PROVE  /\ Db' = Db /\ Views' = Views
               /\ Asked' = [Asked EXCEPT ![r] = reader'[r].key]
               /\ Replies' = [Replies EXCEPT ![r] = reader'[r].answer]
    BY <1>2, ClientStep
  <1>3. ASSUME reader'[r].paths = reader[r].paths, reader'[r].key = reader[r].key,
               reader'[r].answer = reader[r].answer
        PROVE  Goal
    <2>1. Asked' = Asked /\ Replies' = Replies
      BY <1>2, <1>3, ZenonT(60) DEF Asked, Replies
    <2> QED
      BY <1>2, <1>3, <2>1
  <1>4. CASE StartOpen(r)
    <2>1. /\ reader'[r].paths = manifest /\ reader'[r].answer = Pending
          /\ reader'[r].key = reader[r].key
      BY <1>1, <1>4 DEF StartOpen, ReaderType
    <2>2. Db' = Db
      BY <1>1, DbStays
    <2>3. Snapshot(r)' = Db
      BY <1>1, <2>1 DEF Snapshot, Db, SegmentsOf, View, ViewOf, Holders
    <2>4. \A q \in Reader \ {r} : Snapshot(q)' = Snapshot(q)
      BY <1>1, SnapshotStays
    <2>5. Views' = [Views EXCEPT ![r] = Db]
      BY <2>3, <2>4 DEF Views
    <2>6. Asked' = Asked /\ Replies' = [Replies EXCEPT ![r] = Pending]
      BY <1>1, <2>1 DEF Asked, Replies
    <2>7. Abstract!Open(r)
      BY <2>2, <2>5, <2>6 DEF Abstract!Open, Views, Asked, Replies
    <2> QED
      BY <2>7
  <1>5. CASE OpenSegment(r)
    <2>1. /\ reader'[r].paths = reader[r].paths /\ reader'[r].answer = reader[r].answer
          /\ reader'[r].key = reader[r].key
      BY <1>1, <1>5 DEF OpenSegment, ReaderType
    <2> QED
      BY <1>3, <2>1
  <1>6. CASE FromReaders(r)
    <2>1. /\ reader'[r].paths = reader[r].paths /\ reader'[r].answer = reader[r].answer
          /\ reader'[r].key = reader[r].key
      BY <1>1, <1>6 DEF FromReaders, ReaderType
    <2> QED
      BY <1>3, <2>1
  <1>7. ASSUME reader' = [reader EXCEPT ![r].at = reader[r].at + 1] PROVE Goal
    <2>1. /\ reader'[r].paths = reader[r].paths /\ reader'[r].answer = reader[r].answer
          /\ reader'[r].key = reader[r].key
      BY <1>1, <1>7 DEF ReaderType
    <2> QED
      BY <1>3, <2>1
  <1>8. ASSUME NEW a \in Value \cup {NoValue, StorageError}, Return(r, a),
               reader[r].pc = "getting"
        PROVE  Goal
    <2>1. /\ reader'[r].pc = "open" /\ reader'[r].answer = a
          /\ reader'[r].paths = reader[r].paths /\ reader'[r].key = reader[r].key
          /\ reader[r].answer = Pending
      BY <1>1, <1>8 DEF Return, ReaderType, ReaderOK
    <2>2. a # Pending
      BY ValueAssumption
    <2>3. a \in {Snapshot(r)[reader[r].key], StorageError}
      <3>1. Snapshot(r)' = Snapshot(r)
        BY <2>1, SnapshotStays
      <3>2. a # StorageError => a = Snapshot(r)'[reader[r].key]
        BY <2>1, <2>2 DEF AnswerIsSnapshot, Snapshot
      <3> QED
        BY <3>1, <3>2
    <2>4. /\ Replies[r] = Pending /\ Views[r] = Snapshot(r) /\ Asked[r] = reader[r].key
          /\ Asked' = Asked
      BY <1>2, <2>1 DEF Replies, Views, Asked
    <2>5. Abstract!Answer(r)
      BY <1>2, <2>1, <2>3, <2>4 DEF Abstract!Answer, Views, Asked, Replies
    <2> QED
      BY <2>5
  <1>9. CASE SkipSegment(r)
    BY <1>7, <1>9 DEF SkipSegment
  <1>10. CASE ReadSegment(r)
    <2> DEFINE seg == objects[reader[r].paths[reader[r].at]]
               k   == reader[r].key
    <2>1. Getting(r) /\ reader[r].pc = "getting"
      BY <1>10 DEF ReadSegment, Getting
    <2>2. CASE seg = NoObject
      BY <1>8, <1>10, <2>1, <2>2, SMTT(30) DEF ReadSegment
    <2>3. CASE seg # NoObject /\ k \in DOMAIN seg
      <3>1. seg \in SegmentValue
        BY <2>1, <2>3, GettingAt
      <3>2. seg[k] \in Value \cup {Tombstone}
        BY <3>1, <2>3, StoredValue
      <3>3. Visible(seg[k]) \in Value \cup {NoValue}
        BY <3>2 DEF Visible
      <3>4. Return(r, Visible(seg[k]))
        BY <1>10, <2>3 DEF ReadSegment, Decides
      <3> QED
        BY <1>8, <2>1, <3>3, <3>4
    <2>4. CASE seg # NoObject /\ k \notin DOMAIN seg
      BY <1>7, <1>10, <2>4 DEF ReadSegment
    <2> QED
      BY <2>2, <2>3, <2>4
  <1>11. CASE Exhausted(r)
    BY <1>8, <1>11 DEF Exhausted
  <1>12. CASE Close(r)
    <2>1. /\ reader'[r].paths = reader[r].paths /\ reader'[r].answer = Pending
          /\ reader'[r].key = reader[r].key
      BY <1>1, <1>12 DEF Close, ClosedReader
    <2>2. Asked' = Asked
      BY <1>2, <2>1 DEF Asked
    <2>3. Abstract!Reset(r)
      BY <1>2, <2>1, <2>2 DEF Abstract!Reset, Views, Asked, Replies
    <2> QED
      BY <2>3
  <1>13. ASSUME NEW k \in Key, StartGet(r, k) PROVE Goal
    <2>1. /\ reader'[r].paths = reader[r].paths /\ reader'[r].answer = Pending
          /\ reader'[r].key = k
      BY <1>1, <1>13 DEF StartGet, ReaderType
    <2>2. Abstract!Ask(r, k)
      BY <1>2, <2>1 DEF Abstract!Ask, Views, Asked, Replies
    <2> QED
      BY <2>2
  <1> QED
    BY <1>4, <1>5, <1>6, <1>9, <1>10, <1>11, <1>12, <1>13 DEF ReaderStep

\* Initial states are initial states of the abstract index.
LEMMA InitRefines == Init /\ IInv => Abstract!Init
  <1> SUFFICES ASSUME Init, IInv PROVE Abstract!Init
    OBVIOUS
  <1>1. TypeOK /\ \A r \in Reader : reader[r].key \in Key /\ reader[r].answer = Pending
    BY DEF IInv, Init, TypeOK, ClosedReader
  <1> QED
    BY <1>1, DbType, SnapshotType DEF Abstract!Init, Abstract!Map, DbIsMap

\* Every step is a step of the abstract index or leaves it alone.
LEMMA NextRefines ==
    IInv /\ IInv' /\ [Next]_vars => [Abstract!Next]_(Abstract!vars)
  <1> SUFFICES ASSUME IInv, IInv', [Next]_vars
               PROVE  Abstract!Next \/ UNCHANGED <<Db, Views, Asked, Replies>>
    BY DEF Abstract!vars, Views, Asked, Replies
  <1>1. /\ TypeOK /\ StorageInv /\ MergerInv /\ ReaderInv
        /\ TypeOK' /\ AnswerIsSnapshot'
    BY DEF IInv
  <1>2. ASSUME NEW delta \in Deltas, PushDelta(delta) PROVE Abstract!Next
    BY <1>1, <1>2, PushRefines DEF Abstract!Next
  <1>3. ASSUME NEW base \in Bases, Reindex(base) PROVE Abstract!Next
    <2>1. DbIsMap'
      BY <1>1, DbType, PTL
    <2>2. UNCHANGED <<Views, Asked, Replies>>
      BY <1>1, <1>3, ClientsStay DEF Reindex
    <2> QED
      BY <2>1, <2>2 DEF DbIsMap, Abstract!Next, Abstract!Reindex, Abstract!Map,
         Views, Asked, Replies
  <1>4. ASSUME reader' = reader, manifest' = manifest
        PROVE  UNCHANGED <<Db, Views, Asked, Replies>>
    BY <1>1, <1>4, ClientsStay, DbStays
  <1>5. CASE StartMerge \/ LoadSegment \/ MergeStep \/ MergeFails \/ MergeDone \/ AbandonMerge
             \/ UNCHANGED vars \/ \E c \in Path : Collect(c)
    BY <1>4, <1>5 DEF StartMerge, LoadSegment, MergeStep, MergeFails, MergeDone, AbandonMerge,
       Collect, vars
  <1>6. CASE Publish
    <2>1. reader' = reader
      BY <1>6 DEF Publish
    <2> QED
      BY <1>1, <1>6, <2>1, ClientsStay, DbPublish
  <1>7. ASSUME NEW r \in Reader, ReaderStep(r)
        PROVE  Abstract!Next \/ UNCHANGED <<Db, Views, Asked, Replies>>
    BY <1>1, <1>7, ReaderRefines DEF Abstract!Next
  <1> QED
    BY <1>2, <1>3, <1>5, <1>6, <1>7 DEF Next, ReaderStep

\* The layered index implements the abstract index: readers see one logical
\* map per version, and neither merges nor deletions (layered.rs).
THEOREM Refinement == Spec => ImplementsAbstract
  BY InitRefines, NextRefines, InitIInv, Invariant, PTL
     DEF Spec, ImplementsAbstract, Abstract!Spec
=============================================================================
