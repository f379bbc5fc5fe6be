--------------------------------- MODULE Xar ---------------------------------
(***************************************************************************)
(* nav-core's xar.rs: the header and table of contents of an installer     *)
(* package, and the reading of its heap entries under a budget shared      *)
(* between them.  The file is a sequence of cells: the header, the         *)
(* compressed table, then the heap.                                        *)
(***************************************************************************)
EXTENDS Xml, Streams, FiniteSets

CONSTANTS MaxHeader,     \* longest header, in cells
          Version,       \* the one version read
          MaxNumber      \* the largest integer

NoNumber == -1

\* Decimal text, blanks around it left out.
ParseNumber(raw) ==
    LET t == Trim(raw)
        v == FoldLeft(LAMBDA sum, s : IF sum > MaxNumber THEN sum ELSE 10 * sum + DigitValue[s], 0, t)
    IN IF t = <<>> \/ ~(Range(t) \subseteq DOMAIN DigitValue) THEN NoNumber
       ELSE IF v > MaxNumber THEN NoNumber ELSE v
-----------------------------------------------------------------------------
\* The table of contents.

NoSignature == [style |-> <<>>, offset |-> NoNumber, size |-> NoNumber]
Node(parent, depth) ==
    [parent |-> parent, depth |-> depth, name |-> <<"unnamed">>, kind |-> <<>>,
     offset |-> NoNumber, length |-> NoNumber, size |-> NoNumber]

LastOr(s, none) == IF s = <<>> THEN none ELSE s[Len(s)]
Parent(elems) == IF Len(elems) < 2 THEN "" ELSE elems[Len(elems) - 1]

\* walk_toc: elements may close in any order, a name may follow the files
\* inside it, a text overwrites the one before it.
WalkToc(toc, limits) ==
    LET Halt(s, why) == [s EXCEPT !.halted = why, !.over = TRUE]
        OpenFile(s, selfClosing) ==
          [s EXCEPT !.nodes = Append(@, Node(LastOr(s.files, 0), Len(s.files))),
                    !.files = IF selfClosing THEN @ ELSE Append(@, Len(s.nodes) + 1)]
        Open(s, unit) ==
          LET name == unit.name
              full == Len(s.files) >= limits.depth \/ Len(s.nodes) >= limits.entries
              read == CASE name = "file" -> OpenFile(s, unit.selfClosing)
                        [] name = "signature" /\ ~s.signed /\ s.elems = <<"xar", "toc">> ->
                             [s EXCEPT !.signed = TRUE, !.inSig = ~unit.selfClosing,
                                       !.sig.style = Attr(unit, "style")]
                        [] name = "checksum" /\ s.checksum = <<>> ->
                             [s EXCEPT !.checksum = Attr(unit, "style")]
                        [] name = "toc" -> [s EXCEPT !.sawToc = TRUE]
                        [] OTHER -> s
          IN IF name = "file" /\ full
             THEN Halt(s, IF Len(s.files) >= limits.depth THEN "depth limit" ELSE "entry limit")
             ELSE [read EXCEPT !.elems = IF unit.selfClosing THEN @ ELSE Append(@, name)]
        Close(s, name) ==
          [s EXCEPT !.files = IF name = "file" /\ @ # <<>> THEN Front(@) ELSE @,
                    !.inSig = @ /\ ~(name = "signature" /\ Len(s.elems) = 3),
                    !.elems = IF LastOr(@, "") = name THEN Front(@) ELSE @]
        Text(s, raw) ==
          LET elem == LastOr(s.elems, "")
              above == Parent(s.elems)
              i == LastOr(s.files, 0)
          IN IF elem = "" THEN s
             ELSE IF above = "signature"
             THEN IF s.signed /\ s.inSig /\ Len(s.elems) = 4 /\ elem \in {"offset", "size"}
                  THEN [s EXCEPT !.sig[elem] = ParseNumber(raw)] ELSE s
             ELSE IF i = 0 THEN s
             ELSE IF above = "file" /\ elem = "name"
             THEN [s EXCEPT !.nodes[i].name = DecodeEntities(raw)]
             ELSE IF above = "file" /\ elem = "type"
             THEN [s EXCEPT !.nodes[i].kind = DecodeEntities(raw)]
             ELSE IF above = "data" /\ elem \in {"offset", "length", "size"}
             THEN [s EXCEPT !.nodes[i][elem] = ParseNumber(raw)] ELSE s
        Take(s, ev) ==
          CASE ev.e = "end" -> IF s.elems # <<>> THEN Halt(s, "toc malformed")
                               ELSE [s EXCEPT !.over = TRUE]
            [] ev.e = "bad" -> Halt(s, "toc malformed")
            [] ev.e = "open" -> Open([s EXCEPT !.pos = ev.pos], ev.unit)
            [] ev.e = "close" -> Close([s EXCEPT !.pos = ev.pos], ev.unit.name)
            [] OTHER -> Text([s EXCEPT !.pos = ev.pos], ev.text)
        Step(s, k) == IF s.over THEN s ELSE Take(s, NextEvent(toc, s.pos))
        Walked(s) == IF ~s.sawToc /\ s.halted = None
                     THEN [s EXCEPT !.halted = "toc malformed"] ELSE s
    IN Walked(FoldLeft(Step, [pos |-> 1, over |-> FALSE, halted |-> None, elems |-> <<>>,
                              files |-> <<>>, nodes |-> <<>>, signed |-> FALSE, inSig |-> FALSE,
                              sig |-> NoSignature, checksum |-> <<>>, sawToc |-> FALSE],
                       [k \in 0..Len(toc) |-> k]))

\* Paths are put together once every name is known.
Files(nodes) ==
    LET Path[i \in DOMAIN nodes] ==
          IF nodes[i].parent = 0 THEN nodes[i].name
          ELSE Path[nodes[i].parent] \o <<"/">> \o nodes[i].name
    IN [i \in DOMAIN nodes |-> [path |-> Path[i], name |-> nodes[i].name, depth |-> nodes[i].depth,
                                dir |-> nodes[i].kind = <<"directory">>, offset |-> nodes[i].offset,
                                length |-> nodes[i].length]]

NotXar == [xar |-> FALSE]
IsXar(data) == data # <<>> /\ data[1].u = "xar"

\* parse: a header that is not all there makes it no package at all.
ParseXar(data, limits) ==
    LET h == data[1]
        tocEnd == h.size + h.packed
        Halted(why, heap) == [xar |-> TRUE, files |-> <<>>, signed |-> FALSE, sig |-> NoSignature,
                              checksum |-> <<>>, heap |-> heap, halted |-> why]
        Walked(s) == [xar |-> TRUE, files |-> Files(s.nodes), signed |-> s.signed, sig |-> s.sig,
                      checksum |-> s.checksum, heap |-> tocEnd, halted |-> s.halted]
        Decoded(toc) == CASE toc.result = "budget" -> Halted("toc too large", tocEnd)
                          [] toc.result = "ok" -> Walked(WalkToc(toc.bytes, limits))
                          [] OTHER -> Halted("toc undecodable", tocEnd)
    IN IF ~IsXar(data) \/ h.short THEN NotXar
       ELSE IF h.size \notin 1..MaxHeader THEN Halted("bad header", 0)
       ELSE IF h.version # Version THEN Halted("unsupported version", 0)
       ELSE IF h.unpacked > limits.toc THEN Halted("toc too large", tocEnd)
       ELSE IF tocEnd > Len(data) THEN Halted("toc out of range", tocEnd)
       ELSE Decoded(Inflate("zlib", SubSeq(data, h.size + 1, tocEnd),
                            AtMost(h.unpacked, limits.toc), MaxNumber))

\* The end of the recorded signature's range in the file; 0 when it has none.
SignatureEnd(a) ==
    IF ~a.signed \/ a.sig.offset = NoNumber \/ a.sig.size \in {NoNumber, 0} THEN 0
    ELSE a.heap + a.sig.offset + a.sig.size
PlausiblySigned(a, sourceLen) == SignatureEnd(a) # 0 /\ SignatureEnd(a) <= sourceLen
-----------------------------------------------------------------------------
\* Entries.

Located(data, a, f) ==
    /\ f.offset # NoNumber /\ f.length # NoNumber
    /\ a.heap + f.offset + f.length <= Len(data)
EntryBytes(data, a, f) ==
    SubSeq(data, a.heap + f.offset + 1, a.heap + f.offset + f.length)

\* zlib is the one encoding split for a nested layer.
MayNest(raw) == Opens(raw, "zlib")
RawCost(raw) == AtLeast(Len(raw), BlockSize(raw))
Readable(data, a, f) == Located(data, a, f) /\ ~Opens(EntryBytes(data, a, f), "xz")
EntryAllowance(data, a, f, nested) ==
    LET raw == EntryBytes(data, a, f)
    IN RawCost(raw) * IF nested /\ MayNest(raw) THEN 3 ELSE 2

\* A gzip member's trailer follows the input its decoder used.
Trail == 1

\* decode_entry_to: by the leading cell.
DecodeEntry(raw, caps) ==
    LET Result(a, cap, stream) ==
          [gap |-> IF a.result = "ok" THEN None ELSE a.result, bytes |-> a.bytes, work |-> a.work,
           cap |-> cap, capped |-> a.capped, stream |-> stream, end |-> Len(raw),
           consumed |-> IF stream THEN a.used ELSE 0]
        gzip == Result(Inflate("gzip", raw, caps.stream, caps.paid), caps.stream, TRUE)
    IN IF Opens(raw, "gzip")
       THEN [gzip EXCEPT !.end = IF gzip.gap = None
                                 THEN AtMost(gzip.consumed + Trail, Len(raw)) ELSE Len(raw)]
       ELSE IF Opens(raw, "bzip2") THEN Result(Bunzip(raw, caps.bzip2), caps.bzip2, FALSE)
       ELSE IF Opens(raw, "zlib")
       THEN Result(Inflate("zlib", raw, caps.stream, caps.paid), caps.stream, TRUE)
       ELSE Result(Copy(raw, caps.stored), caps.stored, FALSE)

\* ReadBudget: the shares and what stopped the last read.
NewReadBudget(limits) ==
    [shares |-> NewBudget(limits.readBack), byShare |-> FALSE, atLimit |-> FALSE,
     overInput |-> FALSE]
StartEntry(b, parts) == [b EXCEPT !.shares = StartShare(@, parts)]

Caps(nested, cap, paid) ==
    IF nested THEN [stream |-> paid, paid |-> paid, bzip2 |-> cap, stored |-> MaxNumber]
    ELSE [stream |-> cap, paid |-> paid, bzip2 |-> cap, stored |-> cap]

ReadResult(b, gap, bytes, rest) ==
    [b |-> b, err |-> gap # None /\ bytes = <<>>, gap |-> gap, bytes |-> bytes, rest |-> rest]

\* Once the input is paid for: the output's cap, and who stopped the read.
\* "cut" says that the input is not all of the entry.
ReadPaid(b, paid, input, cut, parts, nested, limits) ==
    LET maxPaid == IF parts = 3 THEN paid.entry \div 2 ELSE paid.entry
        cap == AtMost(AtMost(limits.entry, paid.entry), maxPaid)
        Read(dec) ==
          LET belowMax == dec.cap < limits.entry \/ (nested /\ dec.stream)
              cutShort == cut /\ IF dec.gap = None THEN ~dec.stream ELSE dec.gap = "truncated"
              byShare == cutShort \/ (dec.gap = "budget" /\ (belowMax \/ dec.capped))
          IN ReadResult([b EXCEPT
                           !.shares = Charge(Charge(paid, Len(dec.bytes)), dec.work),
                           !.byShare = byShare,
                           !.atLimit = nested /\ dec.gap = "budget" /\ ~byShare,
                           !.overInput = cut /\ dec.consumed > (limits.readBack \div parts) \div 2],
                        IF cut THEN "budget" ELSE dec.gap, dec.bytes,
                        SubSeq(input, dec.end + 1, Len(input)))
    IN Read(DecodeEntry(input, Caps(nested, cap, maxPaid)))

\* The input share of an entry's bytes, and the charge for what it lets in.
ReadShare(b, raw, nested, limits) ==
    LET parts == IF nested /\ MayNest(raw) THEN 3 ELSE 2
        share == b.shares.entry \div parts
        block == BlockSize(raw)
        cost == IF block > 0 THEN RawCost(raw) ELSE AtMost(Len(raw), share)
        input == IF block > 0 THEN raw ELSE Prefix(raw, share)
    IN IF limits.entry = 0 THEN ReadResult(b, "budget", <<>>, <<>>)
       ELSE IF share = 0 \/ (block > 0 /\ cost > share)
       THEN ReadResult([b EXCEPT !.byShare = TRUE], "budget", <<>>, <<>>)
       ELSE ReadPaid(b, Charge(b.shares, cost), input, Len(input) < Len(raw), parts, nested,
                     limits)

ReadInto(b0, data, a, f, nested, limits) ==
    LET b == [b0 EXCEPT !.byShare = FALSE, !.atLimit = FALSE, !.overInput = FALSE]
    IN IF ~Readable(data, a, f) THEN ReadResult(b, "unreadable", <<>>, <<>>)
       ELSE ReadShare(b, EntryBytes(data, a, f), nested, limits)

\* decode_gzip: one member of input already charged.
DecodeGzip(b, raw) ==
    LET Decoded(a) == [b |-> [b EXCEPT !.shares = Charge(@, Len(a.bytes) + a.work)],
                       bytes |-> a.bytes, used |-> a.used, result |-> a.result]
    IN IF b.shares.entry = 0 THEN [b |-> b, bytes |-> <<>>, used |-> 0, result |-> "budget"]
       ELSE Decoded(Inflate("gzip", raw, b.shares.entry, b.shares.entry))

\* decode_later_members: the gzip members that open "rest", joined.
LaterMembers(b0, rest0) ==
    LET Add(s, r) == [b |-> r.b, bytes |-> s.bytes \o r.bytes, over |-> r.result # "ok",
                      rest |-> SubSeq(s.rest, r.used + Trail + 1, Len(s.rest))]
        Step(s, i) == IF s.over \/ ~Opens(s.rest, "gzip") THEN [s EXCEPT !.over = TRUE]
                      ELSE Add(s, DecodeGzip(s.b, s.rest))
    IN FoldLeft(Step, [b |-> b0, bytes |-> <<>>, over |-> FALSE, rest |-> rest0],
                [i \in DOMAIN rest0 |-> i])

HeldMultiple == 4

\* A nested read's answer, once the members after the first are read too:
\* "within" are those of the stream held.
NestedEntry(outer, b0, gap, first, within, unread) ==
    LET Of(own) == [b |-> own.b, err |-> FALSE, gap |-> gap, first |-> first,
                    later |-> <<within, own.bytes>>, unread |-> unread]
    IN Of(LaterMembers(b0, outer.rest))

\* The gzip stream that the outer read held.
ReadHeld(outer, b, gap, held, limits) ==
    LET Whole(inner, later) ==
          NestedEntry(outer, later.b, gap, inner.bytes, later.bytes, <<>>)
        Broken(inner, left) ==
          NestedEntry(outer, [inner.b EXCEPT !.byShare = @ \/ inner.result = "budget"],
                      IF gap = None THEN inner.result ELSE gap,
                      IF inner.bytes = <<>> THEN left ELSE inner.bytes, <<>>,
                      IF inner.bytes = <<>> THEN <<>> ELSE Prefix(left, limits.entry))
        Behind(n) == SubSeq(held, n + 1, Len(held))
        Read(inner) == IF inner.result = "ok"
                       THEN Whole(inner, LaterMembers(inner.b, Behind(inner.used + Trail)))
                       ELSE Broken(inner, Behind(inner.used))
    IN Read(DecodeGzip(b, held))

\* read_entry_nested: the outer read; a gzip it decodes to is held, up to a
\* cap, and decoded in its turn; then the members after the first, inner
\* ones first.
ReadNested(b0, data, a, f, limits) ==
    LET Held(outer, held) ==
          LET dropped == Len(held) < Len(outer.bytes)
          IN ReadHeld(outer, IF dropped THEN [outer.b EXCEPT !.atLimit = TRUE] ELSE outer.b,
                      IF dropped /\ outer.gap = None THEN "budget" ELSE outer.gap, held, limits)
        Outer(outer) ==
          IF outer.err
          THEN [b |-> outer.b, err |-> TRUE, gap |-> outer.gap, first |-> <<>>, later |-> <<>>,
                unread |-> <<>>]
          ELSE IF Opens(outer.bytes, "gzip")
          THEN Held(outer, Prefix(outer.bytes, HeldMultiple * limits.entry))
          ELSE NestedEntry(outer, outer.b, outer.gap, outer.bytes, <<>>, <<>>)
    IN Outer(ReadInto(b0, data, a, f, TRUE, limits))
=============================================================================
