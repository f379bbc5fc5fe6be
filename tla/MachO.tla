------------------------------- MODULE MachO -------------------------------
(***************************************************************************)
(* macho.rs: the load commands and signatures of a Mach-O file, read at    *)
(* the offsets they are at.  The start of the file is held; the rest is    *)
(* read from the disk, where any read may fail, or lost where the file is  *)
(* a container member cut short.  A file is a sequence of cells.  An       *)
(* optional value is a set of at most one.                                 *)
(***************************************************************************)
EXTENDS Integers, Sequences, FiniteSetsExt, SequencesExt

CONSTANTS Sources,        \* what may be scanned
          Magic,          \* the cells of a magic number,
          FatHeader,      \* of a fat header, its count included,
          FatEntry,       \* of one entry of its table,
          Header,         \* of a thin header,
          CmdHeader,      \* of a load command's type and size,
          SegHeader,      \* of a segment command without its sections,
          SigHeader,      \* of a signature command,
          SuperHeader,    \* of a signature's SuperBlob without its index
          MaxFat, MaxNcmds, MaxSegments, MaxSections, MaxDylibs, MaxRpaths, MaxBlobs,
          MaxSizeofcmds, MaxSignature, MaxRanged, MaxRangeRead

VARIABLES src,      \* ScanContext as a ByteSource
          pc,       \* "head", "classify", "walk" or "rules"
          io,       \* RangeBudget, what was read from disk, and the last read's success
          head,     \* how much of the start could be read
          offsets,  \* of the slices: {} for an entry outside the head
          magics,   \* what is there
          seen,     \* the offsets walked, and those that could not be
          images, skipped, is_macho

machoVars == <<src, pc, io, head, offsets, magics, seen, images, skipped, is_macho>>

Monus(a, b) == IF a < b THEN 0 ELSE a - b
Least(a, b) == IF a < b THEN a ELSE b
Greatest(a, b) == IF a < b THEN b ELSE a
-----------------------------------------------------------------------------
\* Sources.  cells: the whole object, of which the first s.len are there and
\* the first s.held in memory; file: there is a handle to read the others.
Authoritative(s) == s.file \/ s.len = Len(s.cells)
Truncated(s) == s.held < Len(s.cells)
Cell(s, off) == s.cells[off + 1]

\* read_budgeted, at whose disk read fate decides: only what lies past the
\* held bytes is charged, and a read that the budget refuses is not made.
ReadBudgeted(s, b, off, len, fate) ==
    LET end == off + len
        charge == Monus(end, Greatest(s.held, off))
        paid == charge <= b.left
        fits == end <= s.len /\ len <= MaxRangeRead
        disk == paid /\ fits /\ end > s.held /\ s.file
    IN [left |-> IF paid THEN b.left - charge ELSE b.left,
        disk |-> IF disk THEN b.disk + len ELSE b.disk,
        ok |-> paid /\ fits /\ (end <= s.held \/ (disk /\ fate))]
-----------------------------------------------------------------------------
\* The SuperBlob of a signature.
NoFacts == [entitlements |-> {}, flags |-> {}, cms |-> FALSE]

\* The first entitlements, the flags of all code directories together, and
\* whether an identity's certificates are there.
AddBlob(facts, blob) ==
    IF ~blob.magic THEN facts
    ELSE CASE blob.slot = "entitlements" ->
                IF facts.entitlements = {} THEN [facts EXCEPT !.entitlements = blob.payload] ELSE facts
           [] blob.slot \in {"directory", "alternate"} ->
                [facts EXCEPT !.flags = {blob.adhoc \/ TRUE \in facts.flags}]
           [] blob.slot = "signature" -> [facts EXCEPT !.cms = @ \/ blob.cms]
           [] OTHER -> facts

\* extract_signature_facts_checked: {} for what cannot be parsed.
SignatureFacts(s, off, size) ==
    LET c == Cell(s, off)
    IN IF \/ size < SuperHeader \/ c.u # "super" \/ Len(c.blobs) > MaxBlobs
          \/ SuperHeader + Len(c.blobs) > size
          \/ \E i \in DOMAIN c.blobs : ~c.blobs[i].inside
       THEN {} ELSE {FoldLeft(AddBlob, NoFacts, c.blobs)}

WithFacts(image, facts) ==
    IF facts = {} THEN [image EXCEPT !.region = "malformed"]
    ELSE LET f == CHOOSE f \in facts : TRUE
         IN [image EXCEPT !.region = "read", !.entitlements = f.entitlements,
                          !.flags = f.flags, !.cms = f.cms]

Determined(region) == region \in {"read", "past eof"}
-----------------------------------------------------------------------------
\* Load commands.  A slice starts at base; its buffer ends at end.
AbsoluteRange(base, r) ==
    IF r.len = 0 THEN {} ELSE {[from |-> base + r.at, to |-> base + r.at + r.len]}

SectionRange(base, x) == IF x.zerofill \/ x.at = 0 THEN {} ELSE AbsoluteRange(base, x)

\* collect_segment: the sections that fit in the command and under the cap.
\* A section takes one cell.
CollectSegment(base, c, count) ==
    LET n == Least(Len(c.sections), Least(Monus(c.size, SegHeader), MaxSections - count))
    IN [name |-> c.name, prot |-> c.prot, range |-> AbsoluteRange(base, c),
        sections |-> [i \in 1..n |-> [name |-> c.sections[i].name,
                                      range |-> SectionRange(base, c.sections[i])]],
        whole |-> n = Len(c.sections)]

SectionsOf(segments) == FoldLeft(LAMBDA n, seg : n + Len(seg.sections), 0, segments)

\* text_segment_range: the first __text section, wherever the command ends;
\* none if the headers run off the buffer first, the segment if there is none
\* or more of them than may be looked at.
TextRange(base, off, end, c) ==
    LET named == {i \in DOMAIN c.sections : c.sections[i].name = "__text"}
        last == IF named = {} THEN Len(c.sections) ELSE Min(named)
    IN IF c.name # "__TEXT" THEN {}
       ELSE IF Len(c.sections) > MaxSections /\ off + SegHeader <= end THEN AbsoluteRange(base, c)
       ELSE IF off + SegHeader + last > end THEN {}
       ELSE IF named = {} THEN AbsoluteRange(base, c)
       ELSE AbsoluteRange(base, c.sections[last])

AddSegment(image, base, off, end, c) ==
    LET seg == CollectSegment(base, c, SectionsOf(image.segments))
        named == IF image.text = {} THEN [image EXCEPT !.text = TextRange(base, off, end, c)] ELSE image
    IN IF Len(image.segments) = MaxSegments \/ c.size < SegHeader
       THEN [named EXCEPT !.complete = FALSE]
       ELSE [named EXCEPT !.segments = Append(@, seg), !.complete = @ /\ seg.whole]

\* The signature's place, and its facts if the buffer happens to hold it.
AddSignature(s, image, base, off, end, c) ==
    LET there == [image EXCEPT !.signed = TRUE, !.signature = {[at |-> c.at, len |-> c.len]}]
    IN IF off + SigHeader > end THEN [image EXCEPT !.signed = TRUE]
       ELSE IF base + c.at + c.len > end THEN there
       ELSE WithFacts(there, SignatureFacts(s, base + c.at, c.len))

AddCommand(s, image, base, off, end) ==
    LET c == Cell(s, off)
    IN CASE c.kind = "segment" -> AddSegment(image, base, off, end, c)
         [] c.kind = "dylib" /\ Len(image.dylibs) < MaxDylibs ->
              [image EXCEPT !.dylibs = @ \o SetToSeq(c.path)]
         [] c.kind = "rpath" /\ Len(image.rpaths) < MaxRpaths ->
              [image EXCEPT !.rpaths = @ \o SetToSeq(c.path)]
         [] c.kind = "signature" -> AddSignature(s, image, base, off, end, c)
         [] OTHER -> image

NewImage(c) ==
    [object |-> c.object, text |-> {}, segments |-> <<>>, complete |-> TRUE, dylibs |-> <<>>,
     rpaths |-> <<>>, signed |-> FALSE, signature |-> {}, region |-> "unread",
     entitlements |-> {}, flags |-> {}, cms |-> FALSE]

\* parse_thin over the cells from base to end: {} if a command is smaller than
\* its header or a second signature is declared; commands past the declared or
\* the held bytes are left out, and the segments then incomplete.
ParseThin(s, base, end) ==
    LET c == Cell(s, base)
        limit == Least(base + Header + c.sizeofcmds, end)
        parse[i \in 0..c.ncmds] ==
          IF i = 0 THEN [image |-> NewImage(c), off |-> base + Header, go |-> "on"]
          ELSE LET p == parse[i - 1]
                   size == IF Cell(s, p.off).u = "cmd" THEN Cell(s, p.off).size ELSE 0
                   cut == [p EXCEPT !.go = "cut", !.image.complete = FALSE]
               IN IF p.go # "on" THEN p
                  ELSE IF p.off + CmdHeader > limit THEN cut
                  ELSE IF size < CmdHeader THEN [p EXCEPT !.go = "malformed"]
                  ELSE IF p.off + size > limit THEN cut
                  ELSE IF Cell(s, p.off).kind = "signature" /\ p.image.signed
                  THEN [p EXCEPT !.go = "malformed"]
                  ELSE [p EXCEPT !.off = @ + size,
                                 !.image = AddCommand(s, @, base, p.off, end)]
        last == parse[c.ncmds]
    IN IF c.ncmds > MaxNcmds THEN {}
       ELSE IF last.go = "malformed" THEN {} ELSE {last.image}
-----------------------------------------------------------------------------
\* One slice, with the fates of its three reads.
\* read_signature_ranged.
ReadSignature(s, b, off, image, fate) ==
    LET sig == CHOOSE x \in image.signature : TRUE
        at == off + sig.at
        r == ReadBudgeted(s, b, at, sig.len, fate)
    IN IF image.signature = {} \/ sig.len > MaxSignature THEN [io |-> b, image |-> image]
       ELSE IF at + sig.len > s.len
       THEN [io |-> b, image |-> IF Authoritative(s) THEN [image EXCEPT !.region = "past eof"] ELSE image]
       ELSE [io |-> r, image |-> IF r.ok THEN WithFacts(image, SignatureFacts(s, at, sig.len)) ELSE image]

IsThin(s, off) == Cell(s, off).u = "thin"

\* scan_ranged_slice: {} for a slice that cannot be walked.
ScanSlice(s, b, off, fates) ==
    LET probe == ReadBudgeted(s, b, off, Least(Header, s.len - off), fates[1])
        c == Cell(s, off)
        cmds == off + Header + c.sizeofcmds
        walk == Least(cmds, s.len)
        unwalkable == \/ cmds > s.len /\ ~Authoritative(s)
                      \/ walk > s.held /\ c.sizeofcmds > MaxSizeofcmds
        buf == ReadBudgeted(s, probe, off, walk - off, fates[2])
        parsed == ParseThin(s, off, walk)
        signed == ReadSignature(s, buf, off, CHOOSE x \in parsed : TRUE, fates[3])
    IN IF off >= s.len THEN [io |-> b, image |-> {}]
       ELSE IF ~probe.ok \/ ~IsThin(s, off) THEN [io |-> probe, image |-> {}]
       ELSE IF off + Header > s.len \/ unwalkable THEN [io |-> probe, image |-> {}]
       ELSE IF ~buf.ok \/ parsed = {} THEN [io |-> buf, image |-> {}]
       ELSE [io |-> signed.io, image |-> {signed.image}]
-----------------------------------------------------------------------------
NewIo == [left |-> MaxRanged, disk |-> 0, ok |-> TRUE]

MachoInit ==
    /\ src \in Sources
    /\ pc = "head" /\ io = NewIo /\ head = 0
    /\ offsets = <<>> /\ magics = <<>> /\ seen = [walked |-> {}, failed |-> {}]
    /\ images = <<>> /\ skipped = 0 /\ is_macho = FALSE

Ends(macho, skips) ==
    /\ pc' = "rules" /\ is_macho' = macho /\ skipped' = skips
    /\ UNCHANGED <<offsets, magics>>

HeadLen == Least(FatHeader + MaxFat * FatEntry, src.len)

\* fat_arch_offset, for the entries of the table that the head holds.
Table(c, len) ==
    [i \in 1..c.nfat |-> IF FatHeader + i * FatEntry <= len /\ i \in DOMAIN c.table
                         THEN {c.table[i]} ELSE {}]

\* The head as read: a thin file is its own only slice; a fat one has a table,
\* which may lie past what could be read.
Recognize(len) ==
    LET c == Cell(src, 0)
    IN \/ /\ len < Magic \/ c.u \notin {"thin", "fat"}
          /\ Ends(FALSE, 0)
       \/ /\ len >= Magic /\ c.u = "thin"
          /\ pc' = "walk" /\ is_macho' = TRUE
          /\ offsets' = <<{0}>> /\ magics' = <<"real">>
          /\ UNCHANGED skipped
       \/ /\ len >= Magic /\ c.u = "fat"
          /\ LET unread == len < FatHeader /\ ~(Authoritative(src) /\ src.len < FatHeader)
             IN \/ unread /\ Ends(TRUE, 1)
                \/ ~unread /\ (len < FatHeader \/ c.nfat \notin 1..MaxFat) /\ Ends(FALSE, 0)
       \/ /\ len >= Magic /\ c.u = "fat" /\ len >= FatHeader /\ c.nfat \in 1..MaxFat
          /\ pc' = "classify" /\ offsets' = Table(c, len)
          /\ UNCHANGED <<magics, is_macho, skipped>>

\* scan_ranged: the head, or of it what is held if the rest cannot be read.
ReadHead ==
    /\ pc = "head"
    /\ \E fate \in BOOLEAN :
         LET r == ReadBudgeted(src, io, 0, HeadLen, fate)
             len == IF r.ok THEN HeadLen ELSE Least(src.held, HeadLen)
         IN io' = r /\ head' = len /\ Recognize(len)
    /\ UNCHANGED <<src, seen, images>>

\* classify_slice_magic, for the next entry.  One outside the head is known
\* not to be there only where the head is all there is.
Classify ==
    /\ pc = "classify" /\ Len(magics) < Len(offsets)
    /\ LET entry == offsets[Len(magics) + 1]
           off == CHOOSE o \in entry : TRUE
           absent == IF Authoritative(src) THEN "not macho" ELSE "undetermined"
       IN \/ /\ entry = {}
             /\ magics' = Append(magics, IF head = HeadLen THEN absent ELSE "undetermined")
             /\ UNCHANGED io
          \/ /\ entry # {}
             /\ off >= src.len \/ (src.len - off < Magic /\ Authoritative(src))
             /\ magics' = Append(magics, absent)
             /\ UNCHANGED io
          \/ /\ entry # {}
             /\ off < src.len /\ ~(src.len - off < Magic /\ Authoritative(src))
             /\ \E fate \in BOOLEAN :
                  LET r == ReadBudgeted(src, io, off, Magic, fate)
                  IN /\ io' = r
                     /\ magics' = Append(magics, IF ~r.ok THEN "undetermined"
                                                 ELSE IF IsThin(src, off) THEN "real" ELSE "not macho")
    /\ UNCHANGED <<src, pc, head, offsets, seen, images, skipped, is_macho>>

\* Mutant: entries in doubt count for nothing.
Classified_NoDoubts ==
    /\ pc = "classify" /\ Len(magics) = Len(offsets)
    /\ \/ /\ \E i \in DOMAIN magics : magics[i] = "real"
          /\ pc' = "walk" /\ is_macho' = TRUE
          /\ UNCHANGED <<skipped, offsets, magics>>
       \/ /\ ~\E i \in DOMAIN magics : magics[i] = "real"
          /\ Ends(FALSE, 0)
    /\ UNCHANGED <<src, io, head, seen, images>>

\* Without a single slice confirmed, the entries in doubt are all there is.
Classified ==
    /\ pc = "classify" /\ Len(magics) = Len(offsets)
    /\ LET doubts == Cardinality({i \in DOMAIN magics : magics[i] = "undetermined"})
       IN \/ /\ \E i \in DOMAIN magics : magics[i] = "real"
             /\ pc' = "walk" /\ is_macho' = TRUE
             /\ UNCHANGED <<skipped, offsets, magics>>
          \/ /\ ~\E i \in DOMAIN magics : magics[i] = "real"
             /\ Ends(doubts > 0, doubts)
    /\ UNCHANGED <<src, io, head, seen, images>>

\* The next entry, walked once however many entries name its offset.
WalkSlice ==
    /\ pc = "walk" /\ offsets # <<>>
    /\ offsets' = Tail(offsets)
    /\ LET entry == Head(offsets)
           off == CHOOSE o \in entry : TRUE
       IN IF entry = {} \/ off \in seen.failed
          THEN skipped' = skipped + 1 /\ UNCHANGED <<io, seen, images>>
          ELSE IF off \in seen.walked THEN UNCHANGED <<skipped, io, seen, images>>
          ELSE \E r \in {ScanSlice(src, io, off, fates) : fates \in [1..3 -> BOOLEAN]} :
                 /\ io' = r.io
                 /\ images' = images \o SetToSeq(r.image)
                 /\ skipped' = IF r.image = {} THEN skipped + 1 ELSE skipped
                 /\ seen' = IF r.image = {} THEN [seen EXCEPT !.failed = @ \cup {off}]
                            ELSE [seen EXCEPT !.walked = @ \cup {off}]
    /\ UNCHANGED <<src, pc, head, magics, is_macho>>

Walked ==
    /\ pc = "walk" /\ offsets = <<>>
    /\ pc' = "rules"
    /\ UNCHANGED <<src, io, head, offsets, magics, seen, images, skipped, is_macho>>

Scan == ReadHead \/ Classify \/ Classified \/ WalkSlice \/ Walked

FullyExamined ==
    /\ is_macho /\ images # <<>> /\ skipped = 0
    /\ \A i \in DOMAIN images : ~images[i].signed \/ Determined(images[i].region)
=============================================================================
