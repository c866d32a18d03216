---------------------------- MODULE RemoteReader ----------------------------
(***************************************************************************)
(* RemoteSegmentReader (src/reader.rs) over a StorageBackend               *)
(* (src/storage.rs): open reads the object's size, then its tail, and - if *)
(* the metadata outgrew the budget - the tail once more; get reads one     *)
(* block at the offsets of the cached metadata.  Every request is a step   *)
(* of its own, and between two requests the object may be overwritten or   *)
(* deleted.                                                                *)
(*                                                                         *)
(* Every stored object is a segment as the writer produces it, or has no   *)
(* bytes at all (the historical empty base).                               *)
(***************************************************************************)
EXTENDS SegmentFormat, FiniteSets

CONSTANTS
    Objects,     \* the segments that writers may put at the path
    Key, Value,
    Budgets,     \* tail budgets the caller may choose
    Backends,    \* subset of {"local", "s3"}
    NoObject,    \* the path holds no object
    NoMeta,      \* no metadata cached
    Pending      \* no answer yet

VARIABLES
    backend,  \* which StorageBackend serves the path
    object,   \* what the path holds
    pc,       \* the reader's next request
    budget,   \* tail_budget of the open
    size,     \* segment_size, as the first request of open saw it
    needed,   \* size of the re-read, from TailTooSmall
    meta,     \* SegmentMetadata: footer, fst, bloom
    key,      \* the key of the get
    range,    \* the byte range of the get's block
    answer,   \* result of the get, or error of the open
    seen      \* history: what the path has held since this open began

conn == <<backend, object, seen>>
vars == <<conn, pc, budget, size, needed, meta, key, range, answer>>

ZeroBytes == [blocks |-> <<>>, bloom |-> [len |-> 0, yes |-> {}], fst |-> <<>>,
              footer |-> [dataLen |-> 0, bloomOff |-> 0, bloomLen |-> 0,
                          fstOff |-> 0, fstLen |-> 36, keyCount |-> 0],
              size |-> 0]

\* What open_from_tail keeps; for a zero-byte object, SegmentMetadata::empty().
MetaOf(obj) == [footer |-> obj.footer, fst |-> obj.fst, bloom |-> obj.bloom]

KeysOf(obj) == UNION {{obj.blocks[i].entries[j].key : j \in DOMAIN obj.blocks[i].entries} :
                         i \in DOMAIN obj.blocks}

EntriesOf(obj) == UNION {{obj.blocks[i].entries[j] : j \in DOMAIN obj.blocks[i].entries} :
                            i \in DOMAIN obj.blocks}

\* What is stored: segments as the writer finishes them (SegmentProofs,
\* SegmentWellFormed), of keys and values of the index, or no bytes.
ASSUME ObjectsAssumption ==
    /\ Key \subseteq Nat
    /\ \A obj \in Objects : \/ obj = ZeroBytes
                            \/ WellFormed(obj) /\ EntriesOf(obj) \subseteq [key : Key, val : Value]

\* Option<Vec<u8>>, its absence and the errors are different things.
ASSUME AnswersAssumption ==
    /\ Budgets \subseteq Nat
    /\ Backends \subseteq {"local", "s3"}
    /\ NoObject \notin Objects
    /\ NoMeta \notin {MetaOf(obj) : obj \in Objects \cup {ZeroBytes}}
    /\ Value \cap ReadErrors = {} /\ NotFound \notin Value /\ Pending \notin Value
    /\ NotFound \notin ReadErrors /\ Pending \notin ReadErrors /\ Pending # NotFound

-----------------------------------------------------------------------------
(* Storage requests.                                                       *)

\* object_size, -1 for an error.
ObjectSize == IF object = NoObject THEN -1 ELSE object.size

\* Number of bytes read_tail returns for a request of len bytes, -1 for an
\* error.  The local backend refuses a length beyond the file.
LocalTail(obj, len) == IF obj = NoObject \/ len > obj.size THEN -1 ELSE len

\* S3 answers a longer suffix with the whole object, an empty one with 416.
S3Tail(obj, len) ==
    IF obj = NoObject \/ len = 0 \/ obj.size = 0 THEN -1
    ELSE IF len > obj.size THEN obj.size ELSE len

TailLength(obj, len) == IF backend = "local" THEN LocalTail(obj, len) ELSE S3Tail(obj, len)

\* End of the bytes read_range returns for [start, end), -1 for an error.  The
\* local backend's read_exact fails at the end of the file.
LocalRange(obj, start, end) == IF obj = NoObject \/ end > obj.size THEN -1 ELSE end

\* S3 truncates a range at the end of the object.
S3Range(obj, start, end) ==
    IF obj = NoObject \/ start >= obj.size THEN -1
    ELSE IF end > obj.size THEN obj.size ELSE end

RangeEnd(obj, start, end) ==
    IF backend = "local" THEN LocalRange(obj, start, end) ELSE S3Range(obj, start, end)

-----------------------------------------------------------------------------
(* open_from_tail: the last tailLen bytes of obj, of an object believed to *)
(* be segmentSize bytes long.                                              *)

\* Wrong variant: misplaced directory bytes are not noticed.
TailErrorTrusting(obj, tailLen, segmentSize) ==
    LET f     == obj.footer
        start == segmentSize - tailLen
    IN  IF tailLen < FooterSize THEN "TooSmall"
        ELSE IF ~ ValidateFooterOffsets(f, segmentSize - FooterSize) THEN "InvalidOffset"
        ELSE IF f.bloomOff < start THEN "TailTooSmall"
        ELSE "Ok"

\* The bytes of a section are where the footer says only if segmentSize is the
\* size of the object the tail came from; fst::Map::new rejects other bytes.
TailError(obj, tailLen, segmentSize) ==
    LET f     == obj.footer
        start == segmentSize - tailLen
        Past(off, len) == off - start + len > tailLen - FooterSize
    IN  IF tailLen < FooterSize THEN "TooSmall"
        ELSE IF ~ ValidateFooterOffsets(f, segmentSize - FooterSize) THEN "InvalidOffset"
        ELSE IF f.bloomOff < start THEN "TailTooSmall"
        ELSE IF f.bloomLen > 0 /\ Past(f.bloomOff, f.bloomLen) THEN "InvalidOffset"
        ELSE IF Past(f.fstOff, f.fstLen) THEN "InvalidOffset"
        ELSE IF segmentSize # obj.size THEN "FstError"
        ELSE "Ok"

-----------------------------------------------------------------------------
Init ==
    /\ backend \in Backends
    /\ object \in Objects \cup {NoObject}
    /\ pc = "closed"
    /\ budget \in Budgets
    /\ size = 0 /\ needed = 0
    /\ meta = NoMeta
    /\ key \in Key
    /\ range = <<0, 0>>
    /\ answer = Pending
    /\ seen = {object}

\* Another client overwrites (put) or deletes the object.  The local backend
\* truncates the file before it writes: a put of ZeroBytes before the other.
Change(obj) ==
    /\ object' = obj
    /\ seen' = IF pc = "closed" THEN {obj} ELSE seen \cup {obj}
    /\ UNCHANGED <<backend, pc, budget, size, needed, meta, key, range, answer>>

Put(obj) == obj # object /\ Change(obj)
Delete == object # NoObject /\ Change(NoObject)

Fail(err) ==
    /\ pc' = "failed"
    /\ answer' = err
    /\ UNCHANGED meta

\* object_size; a zero-byte object is an empty segment.
OpenSize ==
    /\ pc = "closed"
    /\ IF ObjectSize = -1
       THEN Fail("Storage") /\ UNCHANGED size
       ELSE /\ size' = ObjectSize
            /\ UNCHANGED answer
            /\ IF ObjectSize = 0
               THEN pc' = "open" /\ meta' = MetaOf(ZeroBytes)
               ELSE pc' = "tail" /\ UNCHANGED meta
    /\ UNCHANGED <<conn, budget, needed, key, range>>

\* The footer comes from the tail's end, directory and filter from the places
\* it names; those of an object of another size hold other bytes.
ParsedMeta ==
    IF size = object.size THEN MetaOf(object)
    ELSE [MetaOf(object) EXCEPT !.fst = <<>>, !.bloom = [len |-> 0, yes |-> {}]]

Opened ==
    /\ pc' = "open"
    /\ meta' = ParsedMeta
    /\ UNCHANGED answer

\* Wrong variant: the budget is not capped by the size.
FirstReadUncapped == budget

\* budget.min(segment_size)
FirstRead == IF budget < size THEN budget ELSE size

\* Wrong variant: the footer is counted twice.
NeededBytesTwice(obj) == size - obj.footer.bloomOff + FooterSize

\* Wrong variant: the re-read leaves out the bloom filter.
NeededBytesNoBloom(obj) == size - obj.footer.fstOff

\* TailTooSmall.needed, capped by the size.
NeededBytes(obj) ==
    LET n == size - obj.footer.bloomOff IN IF n < size THEN n ELSE size

\* The tail read of the budget, and its parse.
OpenTail ==
    /\ pc = "tail"
    /\ LET len == TailLength(object, FirstRead)
           err == TailError(object, len, size)
       IN  IF len = -1 THEN Fail("Storage") /\ UNCHANGED needed
           ELSE IF err = "Ok" THEN Opened /\ UNCHANGED needed
           ELSE IF err = "TailTooSmall"
                THEN /\ pc' = "reread"
                     /\ needed' = NeededBytes(object)
                     /\ UNCHANGED <<meta, answer>>
           ELSE Fail(err) /\ UNCHANGED needed
    /\ UNCHANGED <<conn, budget, size, key, range>>

\* The one targeted re-read; its errors surface.
OpenReread ==
    /\ pc = "reread"
    /\ LET len == TailLength(object, needed)
           err == TailError(object, len, size)
       IN  IF len = -1 THEN Fail("Storage")
           ELSE IF err = "Ok" THEN Opened
           ELSE Fail(err)
    /\ UNCHANGED <<conn, budget, size, needed, key, range>>

\* SegmentMetadata::block_byte_range, for an offset before the end of the data.
BlockByteRange(off) == <<off, FindBlockEnd(meta.fst, off, meta.footer.dataLen)>>

\* The part of get before its request: bloom, directory, block range.
StartGet(k) ==
    LET off == FindBlockForKey(meta.fst, k)
    IN  /\ pc = "open"
        /\ key' = k
        /\ IF ~ MightContain(meta.bloom, k) \/ off = NoOffset
           THEN answer' = NotFound /\ UNCHANGED <<pc, range>>
           ELSE IF off >= meta.footer.dataLen
           THEN answer' = "InvalidBlockOffset" /\ UNCHANGED <<pc, range>>
           ELSE /\ range' = BlockByteRange(off)
                /\ pc' = "block"
                /\ answer' = Pending
        /\ UNCHANGED <<conn, budget, size, needed, meta>>

\* The range read, the CRC check and the search in the block.
GetBlock ==
    /\ pc = "block"
    /\ LET end == RangeEnd(object, range[1], range[2])
       IN  answer' = IF end = -1 THEN "Storage"
                     ELSE BlockGet(object, range[1], end, key)
    /\ pc' = "open"
    /\ UNCHANGED <<conn, budget, size, needed, meta, key, range>>

\* The reader is dropped, and may be opened again with another budget.
Close ==
    /\ pc \in {"open", "failed"}
    /\ pc' = "closed"
    /\ meta' = NoMeta /\ answer' = Pending
    /\ size' = 0 /\ needed' = 0 /\ range' = <<0, 0>>
    /\ budget' \in Budgets
    /\ seen' = {object}
    /\ UNCHANGED <<backend, object, key>>

Next ==
    \/ \E obj \in Objects : Put(obj)
    \/ Delete
    \/ OpenSize \/ OpenTail \/ OpenReread
    \/ \E k \in Key : StartGet(k)
    \/ GetBlock
    \/ Close

Spec == Init /\ [][Next]_vars

-----------------------------------------------------------------------------
(* Properties.                                                             *)

TypeOK ==
    /\ backend \in Backends
    /\ object \in Objects \cup {NoObject}
    /\ pc \in {"closed", "tail", "reread", "open", "block", "failed"}
    /\ budget \in Budgets
    /\ size \in Nat
    /\ needed \in 0 .. size
    /\ meta \in {MetaOf(o) : o \in Objects \cup {ZeroBytes}} \cup {NoMeta}
    /\ key \in Key
    /\ range \in Nat \X Nat
    /\ answer \in Value \cup {NotFound, Pending} \cup ReadErrors
    /\ seen \subseteq Objects \cup {NoObject} /\ object \in seen

\* The path has held one and the same object since the open began.
Unmodified == seen = {object}

IsOpen == pc \in {"open", "block"}

\* Cached metadata is never a mix of two objects: whatever is overwritten
\* between the requests of open, footer, directory and filter are those of one
\* segment the path held meanwhile (reader.rs open, open_from_tail).
OpenCoherent == IsOpen => \E o \in seen \ {NoObject} : meta = MetaOf(o)

\* A segment that nobody touches opens with every budget of at least a footer,
\* however large its metadata (reader.rs "opens any well-formed segment
\* regardless of how large its metadata has grown").
UnmodifiedOpens ==
    pc = "failed" /\ Unmodified /\ budget >= FooterSize => object = NoObject

\* A second TailTooSmall means a concurrently rewritten object
\* (reader.rs RemoteSegmentReader::open).
TailTooSmallMeansRewritten == answer = "TailTooSmall" => ~ Unmodified

\* On an object nobody touches, a reader opened with any budget on any backend
\* answers what the segment holds: the entry's value, or not found
\* (reader.rs RemoteSegmentReader::get).
UnmodifiedGetCorrect ==
    pc = "open" /\ Unmodified /\ answer # Pending /\ object # NoObject =>
        IF key \in KeysOf(object)
        THEN [key |-> key, val |-> answer] \in EntriesOf(object)
        ELSE answer = NotFound

\* Whatever happens to the object, a value that is returned was stored under
\* that very key by some version the path held since the reader was opened.
ValuesAreReal ==
    answer \in Value => \E o \in seen \ {NoObject} :
                            [key |-> key, val |-> answer] \in EntriesOf(o)

\* Corruption is reported only when the object was overwritten: an untouched
\* or deleted segment never sends the caller to the source of truth
\* (reader.rs ReaderError::is_corruption).  A budget that does not hold the
\* footer makes open report TooSmall of an intact segment.
CorruptionMeansRewritten ==
    IsCorruption(answer) /\ budget >= FooterSize =>
        Cardinality(seen \ {NoObject}) > 1

\* Not found is the truth about some version the path held since the open:
\* a segment replaced under an open reader is never silently misread
\* (tests/corruption.rs, row "Segment replaced mid-read").
NotFoundIsReal ==
    answer = NotFound => \E o \in seen \ {NoObject} : key \notin KeysOf(o)

=============================================================================
