--------------------------- MODULE SegmentDamage ---------------------------
(***************************************************************************)
(* What SegmentReader (src/reader.rs) answers on a finished segment whose  *)
(* bytes were damaged at rest: Footer::from_bytes (src/format.rs), the     *)
(* validation of its offsets, the filter's deserialization (src/bloom.rs)  *)
(* and the CRC of blocks (src/block.rs) stand between the damage and the   *)
(* caller.  The faults are those of tests/corruption.rs.                   *)
(*                                                                         *)
(* The file is described by what its readers can tell: its length, the     *)
(* footer bytes that are wrong, the footer, the filter and the directory   *)
(* that parse from it, and the blocks whose bytes changed, which a CRC     *)
(* detects.                                                                *)
(***************************************************************************)
EXTENDS Segment

CONSTANTS
    NoFile,         \* the segment is not written yet
    Unreadable,     \* bytes that do not deserialize
    MaxFaults,      \* bound on the faults of one behaviour (model checking)
    DamagedNumbers, \* what damage leaves in an offset or a length
    DamagedFilters  \* the keys a damaged but readable filter says "maybe" to

ASSUME FaultAssumption ==
    /\ MaxFaults \in Nat
    /\ DamagedNumbers \subseteq Nat
    /\ DamagedFilters \subseteq SUBSET Key
    /\ "Panic" \notin Value \cup {NotFound}

VARIABLES
    file,    \* the segment as it lies in storage
    faults   \* history: the parts that were damaged, in order

damageVars == <<vars, file, faults>>

DamageInit == Init /\ file = NoFile /\ faults = <<>>

\* Footer::to_bytes and the sections before it.
Store ==
    /\ segment # NoSegment /\ file = NoFile
    /\ file' = [size      |-> segment.size,
                wrong     |-> {},               \* fields of the footer
                footer    |-> segment.footer,
                filter    |-> segment.bloom,
                fst       |-> segment.fst,
                badBlocks |-> {}]
    /\ UNCHANGED <<vars, faults>>

-----------------------------------------------------------------------------
(* Faults.                                                                 *)

Fault(part, damaged) ==
    /\ Len(faults) < MaxFaults
    /\ file' = damaged
    /\ faults' = Append(faults, part)
    /\ UNCHANGED vars

Damaged(part) == \E n \in DOMAIN faults : faults[n] = part

\* The end is lost: the last bytes are some of a block, filter or directory.
Truncate(size, wrong) ==
    /\ size < segment.size /\ wrong # {}
    /\ Fault("end", [file EXCEPT !.size = size, !.wrong = wrong])

FooterFields == {"magic", "version", "rest"}

\* Some bytes of the footer change.
ChangeFooter(wrong) ==
    wrong # {} /\ Fault("footer", [file EXCEPT !.wrong = wrong])

MisreadFilters ==
    {Unreadable} \cup {[len |-> FilterLen, yes |-> yes] : yes \in DamagedFilters}

\* A footer with a wrong length or offset is written, with its CRC.  Bytes
\* from elsewhere are not an FST, but may be taken for a filter.
RewriteLength(field, n) ==
    /\ field = "dataLen" \/ (field = "bloomLen" /\ n = 0)
    /\ Fault("footer", [file EXCEPT !.footer[field] = n])

MoveFilter(field, n, filter) ==
    /\ field \in {"bloomOff", "bloomLen"} /\ n # file.footer[field]
    /\ Fault("filter", [file EXCEPT !.footer[field] = n, !.filter = filter])

MoveDirectory(field, n) ==
    /\ field \in {"fstOff", "fstLen"} /\ n # file.footer[field]
    /\ Fault("directory", [file EXCEPT !.footer[field] = n, !.fst = Unreadable])

ChangeFilter(filter) ==
    /\ segment.bloom.len > 0
    /\ Fault("filter", [file EXCEPT !.filter = filter])

\* The directory's header, or its root address: fst::Map::new fails.
BreakDirectory == Fault("directory", [file EXCEPT !.fst = Unreadable])

\* A byte of the automaton, which fst::Map::new does not verify: another key
\* or another offset.
ChangeDirectory(i, entry) ==
    /\ file.fst # Unreadable
    /\ Fault("directory", [file EXCEPT !.fst[i] = entry])

ChangeBlock(b) == Fault("block", [file EXCEPT !.badBlocks = @ \cup {b}])

AnyFault ==
    \/ \E n \in DamagedNumbers, wrong \in SUBSET FooterFields : Truncate(n, wrong)
    \/ \E wrong \in SUBSET FooterFields : ChangeFooter(wrong)
    \/ \E field \in DOMAIN file.footer, n \in DamagedNumbers :
         \/ RewriteLength(field, n)
         \/ \E filter \in MisreadFilters : MoveFilter(field, n, filter)
         \/ MoveDirectory(field, n)
    \/ \E filter \in MisreadFilters : ChangeFilter(filter)
    \/ BreakDirectory
    \/ \E i \in DOMAIN segment.fst :
         \/ \E k \in Key : ChangeDirectory(i, [segment.fst[i] EXCEPT !.key = k])
         \/ \E n \in DamagedNumbers : ChangeDirectory(i, [segment.fst[i] EXCEPT !.off = n])
    \/ \E b \in DOMAIN segment.blocks : ChangeBlock(b)

DamageNext ==
    \/ Next /\ UNCHANGED <<file, faults>>
    \/ Store
    \/ file # NoFile /\ AnyFault

DamageSpec == DamageInit /\ [][DamageNext]_damageVars

-----------------------------------------------------------------------------
(* Reading.                                                                *)

\* Footer::from_bytes: magic, version, then the CRC over all of it.
FooterError ==
    IF "magic" \in file.wrong THEN "InvalidMagic"
    ELSE IF "version" \in file.wrong THEN "UnsupportedVersion"
    ELSE IF file.wrong # {} THEN "FooterChecksumMismatch" ELSE "Ok"

\* SegmentReader::open.  The directory is sliced even when its length is 0,
\* which is not validated.
OpenError ==
    IF file.size < FooterSize THEN "TooSmall"
    ELSE IF FooterError # "Ok" THEN FooterError
    ELSE IF ~ ValidateFooterOffsets(file.footer, file.size - FooterSize) THEN "InvalidOffset"
    ELSE IF file.footer.fstOff + file.footer.fstLen > file.size THEN "Panic"
    ELSE IF file.fst = Unreadable THEN "FstError" ELSE "Ok"

\* Wrong variant: an unreadable filter holds nothing.
FilterSaysMaybeEmpty(k) ==
    file.footer.bloomLen = 0 \/ (file.filter # Unreadable /\ MightContain(file.filter, k))

\* bloom::might_contain on the filter's bytes: no or unreadable bytes, and a
\* panic of the filter's code, mean "check the blocks".
FilterSaysMaybe(k) ==
    file.footer.bloomLen = 0 \/ file.filter = Unreadable \/ MightContain(file.filter, k)

\* read_block slices the file from start to end, whatever the directory says;
\* BlockReader::open checks the CRC.
ReadBlock(start, end, k) ==
    IF start >= file.footer.dataLen THEN "InvalidBlockOffset"
    ELSE IF end < start \/ end > file.size THEN "Panic"
    ELSE IF end - start >= 8 /\ BlocksAt(segment, start, end) \cap file.badBlocks # {}
    THEN "ChecksumMismatch"
    ELSE BlockGet(segment, start, end, k)

\* SegmentReader::get on the file.
FileGet(k) ==
    LET off == FindBlockForKey(file.fst, k)
    IN  IF ~ FilterSaysMaybe(k) \/ off = NoOffset THEN NotFound
        ELSE ReadBlock(off, FindBlockEnd(file.fst, off, file.footer.dataLen), k)

-----------------------------------------------------------------------------
(* Properties.                                                             *)

Opens == file # NoFile /\ OpenError = "Ok"

\* Damage never makes a reader lie: a value it returns is the one added for
\* that key, and a stored key is reported missing only when the directory or a
\* filter that still deserializes was damaged - the two parts without a
\* verified checksum (reader.rs SegmentReader::open, get; bloom.rs "always
\* check the data blocks rather than panic").
DamageNeverLies ==
    Opens => \A k \in Key :
        /\ FileGet(k) \in Value => FileGet(k) = Expected(k)
        /\ FileGet(k) = NotFound /\ Expected(k) # NotFound =>
             Damaged("directory") \/ (Damaged("filter") /\ file.filter # Unreadable)

\* An error caused by damage is reported as corruption, wherever it is, and damaged blocks cost
\* no other block a key: when nothing else is damaged, the keys of the other
\* blocks and absent keys are answered as before
\* (reader.rs is_corruption, block.rs BlockReader::open).
DamageContained ==
    file # NoFile =>
      /\ OpenError \notin {"Ok", "Panic"} => IsCorruption(OpenError)
      /\ Opens => \A k \in Key :
           /\ FileGet(k) \in ReadErrors => IsCorruption(FileGet(k))
           /\ (\A n \in DOMAIN faults : faults[n] = "block") =>
                \/ FileGet(k) = Expected(k)
                \/ \E b \in file.badBlocks :
                     /\ FileGet(k) = "ChecksumMismatch"
                     /\ k <= Last(segment.blocks[b].entries).key
                     /\ b > 1 => k > Last(segment.blocks[b - 1].entries).key

\* Whatever is damaged, open and get return (tests/corruption.rs "pique never
\* panics on corrupt segment data").
NeverPanics ==
    file # NoFile =>
      /\ OpenError # "Panic"
      /\ Opens => \A k \in Key : FileGet(k) # "Panic"
=============================================================================
