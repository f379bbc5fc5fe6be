------------------------------ MODULE Package ------------------------------
(***************************************************************************)
(* rules/package.rs: what nav-core says of an installer package.  The      *)
(* entries Installer runs are read first, each under its share of one      *)
(* budget, the rest after them; the members of a Scripts entry are scanned *)
(* while its archive arrives in pieces.                                    *)
(***************************************************************************)
EXTENDS Xar, Distribution, Cpio

CONSTANTS Packages,             \* what is scanned
          Limits,               \* the limits of a scan
          InstallScriptNames,   \* scripts Installer runs
          MarkerWeight          \* of a text the content rules fire on

LaunchWeight == 8
StarvedWeight == 10
MaxScriptWeight == 20
EntryMultiple == 4

VARIABLES file, limits,
          archive,    \* xar::parse's answer
          entries,    \* the Scripts and Distribution entries, in TOC order
          stage,      \* "open", "choose", "group", "read", "walk" or "end"
          trusted,    \* the Distribution's references are all Installer has
          installers, \* the entries Installer runs
          groups,     \* groups of entries still to be read
          work, runs, \* what is left of the current one, and whether Installer runs it
          budget, seen, starved, total,
          unread,     \* the entries not read in full
          zips,       \* what is left for zips among the members
          sink,       \* the Scripts entry whose members are being scanned
          outcome     \* of the two rules

vars == <<file, limits, archive, entries, stage, trusted, installers, groups, work, runs,
          budget, seen, starved, total, unread, zips, sink, outcome>>
-----------------------------------------------------------------------------
\* Install scripts.

\* A name up to the first NUL, without leading "./", in any case.
IsInstallScript(name) ==
    LET nuls == {i \in DOMAIN name : name[i] = "NUL"}
        cut == IF nuls = {} THEN name
               ELSE SubSeq(name, 1, (CHOOSE i \in nuls : \A j \in nuls : i <= j) - 1)
        solid == {i \in DOMAIN cut : cut[i] # "./"}
        first == IF solid = {} THEN Len(cut) + 1 ELSE CHOOSE i \in solid : \A j \in solid : i <= j
    IN /\ first = Len(cut)
       /\ Fold(cut[first]) \in InstallScriptNames

Flag(bytes) == IF \E i \in DOMAIN bytes : bytes[i].flag THEN MarkerWeight ELSE 0

NewPart == [walk |-> NewStream, handed |-> 0, weight |-> 0, overCap |-> FALSE,
            scriptOverCap |-> FALSE, alias |-> FALSE, skipped |-> FALSE, nestedGap |-> FALSE]

\* scan_member: a whole zip is read from what is left for zips; text, with or
\* without a zip behind it, goes through the content rules.
ScanBytes(s, bytes, cut) ==
    LET at == {i \in DOMAIN bytes : bytes[i].u = "zip"}
        read == at # {} /\ ~cut
        z == bytes[CHOOSE i \in at : \A j \in at : i <= j]
        whole == read /\ z.cost <= s.zips
        text == IF ~read \/ bytes[1].u # "zip" THEN Flag(bytes) ELSE 0
    IN [s EXCEPT !.part.weight = @ + text + (IF whole /\ z.flag THEN MarkerWeight ELSE 0),
                 !.part.nestedGap = @ \/ cut \/ bytes[1].u = "image" \/ (at # {} /\ ~whole),
                 !.zips = IF read THEN Monus(@, z.cost) ELSE @]

\* scan_members, one member: links, directories and empty members hold
\* nothing to scan, others only while the entry's scan total lasts.
ScanMember(s, m) ==
    LET script == IsInstallScript(m.name)
        regular == m.mode \in {"file", "none"}
        len == Len(m.data)
        over == m.end = "over cap"
        noted == [s EXCEPT !.part.alias = @ \/ (script /\ (~regular \/ len = 0))]
        read == [noted EXCEPT !.part.overCap = @ \/ over,
                              !.part.scriptOverCap = @ \/ (over /\ script)]
    IN IF ~regular /\ ~script THEN noted
       ELSE IF len = 0 THEN read
       ELSE IF ~script /\ len > s.left THEN [read EXCEPT !.part.skipped = TRUE]
       ELSE ScanBytes([read EXCEPT !.left = Monus(@, len)], m.data, m.end # "whole")

\* push: the members that these bytes complete.
PushPart(s, bytes, max) ==
    LET Pushed(walk) ==
          LET fresh == SubSeq(walk.done, s.part.handed + 1, Len(walk.done))
          IN [FoldLeft(ScanMember, s, fresh) EXCEPT !.part.walk = walk,
                                                   !.part.handed = Len(walk.done)]
    IN Pushed(Feed(s.part.walk, bytes, limits.members, max))

\* finish: what the walk still held, bytes that are no cpio, a member cut off.
FinishPart(s, max, gap) ==
    LET Held(end, rest) ==
          IF end.cpio THEN FoldLeft(ScanMember, rest, end.cut)
          ELSE IF end.raw = <<>> THEN rest ELSE ScanBytes(rest, end.raw, end.more \/ gap)
        Ended(end) ==
          LET fresh == SubSeq(end.entries, s.part.handed + 1, Len(end.entries))
          IN [s |-> Held(end, FoldLeft(ScanMember, s, fresh)),
              trailer |-> end.cpio /\ end.halted = None,
              limitHalt |-> end.halted \in {"entry limit", "byte limit"}]
    IN Ended(Finish(s.part.walk, limits.members, max))
-----------------------------------------------------------------------------
\* The Distribution document.

NulFree(t) == SelectSeq(t, LAMBDA x : x # "NUL")

\* What is scanned of a document: its pieces, and all it holds when they
\* could not be read.
Scanned(d) ==
    LET wide == d # <<>> /\ d[1].u = "bom" /\ d[1].wide
        Weight(pieces) == TextWeight(JoinPieces(pieces), MarkerWeight, LaunchWeight)
        Extras(raw) == <<raw, DecodeEntities(raw)>> \o
                       (IF Occurs(<<"NUL">>, raw) THEN <<NulFree(raw), DecodeEntities(NulFree(raw))>>
                        ELSE <<>>)
        Read(text, p) ==
          LET more == SelectSeq(Extras(TextOf(text)), LAMBDA x : x \notin Range(p.pieces))
          IN [ok |-> p.ok, text |-> text,
              weight |-> Weight(p.pieces \o IF p.ok THEN <<>> ELSE more)]
        Body(text) == Read(text, Pieces(text, wide))
    IN Body(IF wide THEN Tail(d) ELSE d)
-----------------------------------------------------------------------------
\* The entries.

Wanted(data, a) ==
    LET files == SelectSeq(a.files, LAMBDA f : f.name \in {<<"Scripts">>, <<"Distribution">>})
    IN [i \in DOMAIN files |->
          LET nested == files[i].name = <<"Scripts">>
          IN [f |-> files[i], nested |-> nested, readable |-> Readable(data, a, files[i]),
              cost |-> IF Readable(data, a, files[i])
                       THEN EntryAllowance(data, a, files[i], nested) ELSE NoNumber]]

\* Mutant: entries of both kinds that share their heap bytes are read once.
RangeKey_Heap(w) == <<w.f.offset, w.f.length>>

RangeKey(w) == <<w.nested, w.f.offset, w.f.length>>

First(S) == IF S = {} THEN 0 ELSE CHOOSE i \in S : \A j \in S : i <= j

\* The first Scripts of a path is the one Installer resolves.
ScriptsByPath ==
    LET scripts == {i \in DOMAIN entries : /\ entries[i].nested /\ ~entries[i].f.dir
                                           /\ entries[i].f.depth > 0}
        PathOf(i) == Front(Front(entries[i].f.path))
        first == [path \in {PathOf(i) : i \in scripts} |-> First({i \in scripts : PathOf(i) = path})]
    IN Restrict(first, {path \in DOMAIN first : entries[first[path]].readable})

\* Cheapest first, then the shallower, then the earlier; a heap range once.
Before(i, j) ==
    LET a == entries[i]
        b == entries[j]
    IN \/ a.cost < b.cost
       \/ a.cost = b.cost /\ (a.f.depth < b.f.depth \/ (a.f.depth = b.f.depth /\ i < j))
InOrderOfCost(group) ==
    FoldLeft(LAMBDA s, i : IF RangeKey(entries[i]) \in s.seen THEN s
                           ELSE [seen |-> s.seen \cup {RangeKey(entries[i])},
                                 work |-> Append(s.work, i)],
             [seen |-> seen, work |-> <<>>],
             SetToSortSeq({i \in group : entries[i].readable}, Before))

\* Mutant: all entries in one order.
Groups_Merged(run, rest, restRuns) == <<[runs |-> TRUE, members |-> run \cup rest]>>

Groups(run, rest, restRuns) ==
    <<[runs |-> TRUE, members |-> run], [runs |-> restRuns, members |-> rest]>>
-----------------------------------------------------------------------------
\* Actions.

NoSink == [entry |-> 0]

\* UnsignedPackageRule: a signature past the end of a capture may be there.
Unsigned(a) ==
    IF ~a.xar THEN "clean"
    ELSE IF a.halted # None THEN "not applicable"
    ELSE IF PlausiblySigned(a, file.sourceLen) THEN "clean"
    ELSE IF ~file.authoritative /\ SignatureEnd(a) > file.sourceLen THEN "not applicable"
    ELSE "fired"

Open ==
    /\ stage = "open"
    /\ \E a \in {ParseXar(file.data, limits)} :
         LET first == IF ~file.content \/ (a.xar /\ a.halted # None) THEN "not applicable"
                      ELSE IF ~a.xar THEN "clean" ELSE "unset"
         IN /\ archive' = a
            /\ outcome' = [script |-> first,
                           unsigned |-> IF file.content THEN Unsigned(a) ELSE "not applicable"]
            /\ stage' = IF first = "unset" THEN "choose" ELSE "end"
            /\ entries' = IF first = "unset" THEN Wanted(file.data, a) ELSE <<>>
    /\ unread' = {i \in DOMAIN entries' : ~entries'[i].readable}
    /\ UNCHANGED <<file, limits, trusted, installers, groups, work, runs, budget, seen, starved,
                   total, zips, sink>>

\* One Distribution read under its share, and scanned.
ReadDocument(b, i) ==
    LET Of(r, doc) == [b |-> r.b, text |-> doc.text, weight |-> IF r.err THEN 0 ELSE doc.weight,
                       full |-> ~r.err /\ doc.ok /\ r.gap = None]
        Read(r) == Of(r, Scanned(r.bytes))
    IN Read(ReadInto(b, file.data, archive, entries[i].f, FALSE, limits))

\* The first Distribution at the top is read first and says which Scripts
\* Installer runs; without one it is the Scripts at the top.
Choose ==
    /\ stage = "choose"
    /\ LET Top(w) == w.f.depth = 0 /\ ~w.f.dir
           d == First({i \in DOMAIN entries : ~entries[i].nested /\ Top(entries[i])})
           root == First({i \in DOMAIN entries : entries[i].nested /\ Top(entries[i])})
           scripts == {i \in DOMAIN entries : entries[i].nested /\ entries[i].readable}
           reads == d # 0 /\ entries[d].readable
           share == StartEntry(budget, IF scripts = {} THEN 1 ELSE 2)
           run(refs) == IF refs # Untrusted THEN Range(refs)
                        ELSE IF d = 0 /\ root # 0 THEN {root} ELSE {}
       IN \E doc \in {IF reads THEN ReadDocument(share, d)
                      ELSE [b |-> budget, text |-> <<>>, weight |-> 0, full |-> FALSE]} :
          \E refs \in {IF doc.full THEN PkgRefPaths(doc.text, ScriptsByPath, Cardinality(scripts))
                       ELSE Untrusted} :
             /\ trusted' = (refs # Untrusted)
             /\ installers' = run(refs)
             /\ groups' = Groups(run(refs), DOMAIN entries \ (run(refs) \cup {d}),
                                 d # 0 /\ refs = Untrusted)
             /\ budget' = doc.b
             /\ seen' = IF reads THEN {RangeKey(entries[d])} ELSE {}
             /\ total' = total + doc.weight
             /\ unread' = IF reads /\ ~doc.full THEN unread \cup {d} ELSE unread
    /\ stage' = "group"
    /\ UNCHANGED <<file, limits, archive, entries, work, runs, starved, zips, sink, outcome>>

StartGroup ==
    /\ stage = "group" /\ groups # <<>>
    /\ LET ordered == InOrderOfCost(Head(groups).members)
       IN work' = ordered.work /\ seen' = ordered.seen
    /\ runs' = Head(groups).runs
    /\ groups' = Tail(groups)
    /\ stage' = "read"
    /\ UNCHANGED <<file, limits, archive, entries, trusted, installers, budget, starved, total,
                   unread, zips, sink, outcome>>

EndGroup ==
    /\ stage = "read" /\ work = <<>>
    /\ stage' = "group"
    /\ UNCHANGED <<file, limits, archive, entries, trusted, installers, groups, work, runs, budget,
                   seen, starved, total, unread, zips, sink, outcome>>

Share == StartEntry(budget, Len(work))

ReadDistribution ==
    /\ stage = "read" /\ work # <<>> /\ ~entries[Head(work)].nested
    /\ \E doc \in {ReadDocument(Share, Head(work))} :
         /\ budget' = doc.b
         /\ total' = total + doc.weight
         /\ unread' = IF doc.full THEN unread ELSE unread \cup {Head(work)}
    /\ work' = Tail(work)
    /\ UNCHANGED <<file, limits, archive, entries, stage, trusted, installers, groups, runs, seen,
                   starved, zips, sink, outcome>>

\* Whether a limit stopped the read that a Scripts entry of Installer's never
\* comes near.
Cut(b) == (b.byShare /\ ~b.overInput) \/ b.atLimit

\* A Scripts entry that Installer runs and the budget starved is reported once.
Overrun(over, weight) ==
    /\ starved' = (starved \/ (runs /\ over))
    /\ total' = total + weight + (IF runs /\ over /\ ~starved THEN StarvedWeight ELSE 0)

ReadScripts ==
    /\ stage = "read" /\ work # <<>> /\ entries[Head(work)].nested
    /\ \E r \in {ReadNested(Share, file.data, archive, entries[Head(work)].f, limits)} :
         /\ budget' = r.b
         /\ IF r.err
            THEN /\ Overrun(Cut(r.b), 0)
                 /\ unread' = unread \cup {Head(work)}
                 /\ UNCHANGED <<stage, sink>>
            ELSE /\ stage' = "walk"
                 /\ sink' = [entry |-> Head(work), read |-> r, fed |-> 0, part |-> NewPart,
                             left |-> EntryMultiple * limits.entry]
                 /\ UNCHANGED <<starved, total, unread>>
    /\ work' = Tail(work)
    /\ UNCHANGED <<file, limits, archive, entries, trusted, installers, groups, runs, seen, zips,
                   outcome>>

\* The decoder hands over some of the first member's bytes.
Deliver(k) ==
    /\ stage = "walk" /\ sink.fed + k <= Len(sink.read.first)
    /\ \E s \in {PushPart([part |-> sink.part, left |-> sink.left, zips |-> zips],
                          SubSeq(sink.read.first, sink.fed + 1, sink.fed + k), limits.entry)} :
         /\ sink' = [sink EXCEPT !.part = s.part, !.left = s.left, !.fed = @ + k]
         /\ zips' = s.zips
    /\ UNCHANGED <<file, limits, archive, entries, stage, trusted, installers, groups, work, runs,
                   budget, seen, starved, total, unread, outcome>>

\* The later members are walked as they come, on a scan total of their own,
\* and end after the first one, on what it leaves for zips.
WalkLater ==
    LET Walk(s, bytes) ==
          LET Added(t) == [s EXCEPT !.parts = Append(@, t.part), !.left = t.left, !.zips = t.zips]
          IN Added(PushPart([part |-> NewPart, left |-> s.left, zips |-> s.zips], bytes, limits.entry))
    IN FoldLeft(Walk, [parts |-> <<>>, left |-> EntryMultiple * limits.entry, zips |-> zips],
                sink.read.later)
EndLater(walked, z) ==
    LET End(s, part) ==
          LET Added(t) == [weight |-> s.weight + t.part.weight, left |-> t.left, zips |-> t.zips]
          IN Added(FinishPart([part |-> part, left |-> s.left, zips |-> s.zips], limits.entry, FALSE).s)
    IN FoldLeft(End, [weight |-> 0, left |-> walked.left, zips |-> z], walked.parts)

\* The rest of scan_scripts_entry: later members are walked as they come,
\* then all walks end.  Installer runs nothing of the later ones.
EndScripts ==
    /\ stage = "walk" /\ sink.fed = Len(sink.read.first)
    /\ LET r == sink.read
       IN \E walked \in {WalkLater} :
          \E first \in {FinishPart([part |-> sink.part, left |-> sink.left, zips |-> walked.zips],
                                   limits.entry, r.gap # None)} :
          \E end \in {EndLater(walked, first.s.zips)} :
             LET p == first.s.part
                 complete == /\ first.trailer /\ r.gap = None
                             /\ ~p.overCap /\ ~p.skipped /\ ~p.nestedGap
             IN /\ Overrun(\/ Cut(r.b) /\ ~first.trailer
                           \/ first.limitHalt
                           \/ p.scriptOverCap \/ (p.alias /\ p.overCap),
                           Flag(r.unread) + p.weight + end.weight)
                /\ unread' = IF complete THEN unread ELSE unread \cup {sink.entry}
                /\ zips' = end.zips
    /\ sink' = NoSink
    /\ stage' = "read"
    /\ UNCHANGED <<file, limits, archive, entries, trusted, installers, groups, work, runs, budget,
                   seen, outcome>>

\* A finding outranks the gap; nothing found is clean only if all was read.
Conclude ==
    /\ stage = "group" /\ groups = <<>>
    /\ outcome' = [outcome EXCEPT !.script =
         IF total > 0 THEN IF unread = {} THEN "fired" ELSE "fired, incomplete"
         ELSE IF unread # {} THEN "not applicable" ELSE "clean"]
    /\ total' = AtMost(total, MaxScriptWeight)
    /\ stage' = "end"
    /\ UNCHANGED <<file, limits, archive, entries, trusted, installers, groups, work, runs, budget,
                   seen, starved, unread, zips, sink>>

Init ==
    /\ file \in Packages /\ limits \in Limits
    /\ archive = NotXar /\ entries = <<>> /\ stage = "open" /\ trusted = FALSE /\ installers = {}
    /\ groups = <<>> /\ work = <<>> /\ runs = FALSE
    /\ budget = NewReadBudget(limits)
    /\ seen = {} /\ starved = FALSE /\ total = 0 /\ unread = {}
    /\ zips = limits.zips /\ sink = NoSink
    /\ outcome = [script |-> "unset", unsigned |-> "unset"]

Next ==
    \/ Open \/ Choose \/ StartGroup \/ EndGroup \/ ReadDistribution \/ ReadScripts
    \/ \E k \in 1..limits.entry : Deliver(k)
    \/ EndScripts \/ Conclude
    \/ stage = "end" /\ UNCHANGED vars

Spec == Init /\ [][Next]_vars
-----------------------------------------------------------------------------
(***************************************************************************)
(* What Installer would take from the same bytes, without any limit.       *)
(***************************************************************************)

\* A Scripts entry, its wrapper and a gzip inside it taken off.
Unpacked(w) ==
    LET Out(bytes) == IF bytes # <<>> /\ bytes[1].u \in {"gzip", "zlib", "bzip2"}
                      THEN bytes[1].out ELSE bytes
        outer == Out(EntryBytes(file.data, archive, w.f))
    IN IF Opens(outer, "gzip") THEN Out(outer) ELSE outer

\* A document's attribute values and the text inside its scripts.
TextsAt(d, p) ==
    CASE d[p].u = "tag" -> {DecodeEntities(d[p].attrs[i].value) : i \in DOMAIN d[p].attrs}
      [] d[p].u = "text" ->
           IF \E q \in 1..(p - 1) : /\ d[q].u = "tag" /\ d[q].name = "script" /\ ~d[q].closing
                                    /\ \A r \in q..p : d[r].u \in {"tag", "text"} =>
                                         ~(d[r].u = "tag" /\ d[r].closing)
           THEN {DecodeEntities(d[p].t), d[p].t} ELSE {}
      [] OTHER -> {}

Harmless(w) ==
    LET d == Unpacked(w)
        a == Parse(d, Len(d), MaxNumber)
    IN IF w.nested
       THEN /\ IsCpio(d) /\ a.halted = None
            /\ \A i \in DOMAIN a.entries :
                 LET m == a.entries[i]
                 IN (m.mode \in {"file", "none"} \/ IsInstallScript(m.name)) =>
                       \A k \in DOMAIN m.data : ~m.data[k].flag /\ m.data[k].u # "image"
       ELSE \A p \in DOMAIN d : \A t \in TextsAt(d, p) : ~Occurs(Marker, t)

\* A package called clean holds nothing to report in any Scripts or
\* Distribution, however they are packed, padded, split, repeated or named,
\* and whatever the budget (package.rs:88-289).
CleanMeansScanned ==
    outcome.script = "clean" /\ stage = "end" =>
        \A i \in DOMAIN entries : Harmless(entries[i])

\* Every entry Installer runs has an equal share of at least half the budget,
\* whatever else the package holds (package.rs:151-152, 200-226).
InstallerShareKept ==
    (stage = "read" /\ work # <<>> /\ Head(work) \in installers) =>
        Share.shares.entry >= (limits.readBack \div 2) \div Cardinality(installers)

\* Outside comments and CDATA, the tags that are open at p.
Live(d, p) == \A q \in 1..(p - 1) : d[q].u \in {"<!--", "<![CDATA["} =>
                  \E r \in q..p : d[r].u \in Closer(d[q].u)
Around(d, p) ==
    LET tags == {q \in 1..(p - 1) : d[q].u = "tag" /\ Live(d, q) /\ ~d[q].selfClosing}
        opens(q, r) == Cardinality({x \in tags : x \in q..r /\ ~d[x].closing})
        closes(q, r) == Cardinality({x \in tags : x \in q..r /\ d[x].closing})
    IN {q \in tags : ~d[q].closing /\ \A r \in q..(p - 1) : opens(q, r) > closes(q, r)}

\* What any parser may take for the wanted attribute.
IdsOf(unit, want) ==
    {[i \in DOMAIN a.value |-> Fold(a.value[i])] :
        a \in {x \in Range(unit.attrs) : Fold(x.name) = want}}

Tags(d, name) == {p \in DOMAIN d : d[p].u = "tag" /\ ~d[p].closing /\ Live(d, p) /\ Fold(d[p].name) = name}

\* The pkg-refs a choice that a line reaches may install; all of them when
\* the document has no outline.
MayRun(d) ==
    LET lines == {p \in Tags(d, "line") : \E q \in Around(d, p) : Fold(d[q].name) = "choices-outline"}
        reached == UNION {IdsOf(d[p], "choice") : p \in lines}
        choices == {p \in Tags(d, "choice") : IdsOf(d[p], "id") \cap reached # {}}
        ids == UNION {IdsOf(d[p], "id") :
                        p \in {q \in Tags(d, "pkg-ref") : Around(d, q) \cap choices # {}}}
    IN {p \in Tags(d, "pkg-ref") : lines = {} \/ IdsOf(d[p], "id") \cap ids # {}}

Named(d, p) ==
    IF p < Len(d) /\ d[p + 1].u = "text" /\ d[p + 1].t # <<>> /\ d[p + 1].t[1] = "#"
    THEN LET path == Tail(d[p + 1].t)
         IN IF path \in DOMAIN ScriptsByPath THEN ScriptsByPath[path] ELSE 0
    ELSE 0

\* When the references are trusted, they hold every Scripts that any reading
\* of the outline lets Installer run (package.rs:1044-1155).
TrustedRefsCover ==
    (stage = "group" /\ trusted) =>
        LET i == First({j \in DOMAIN entries : /\ ~entries[j].nested /\ ~entries[j].f.dir
                                               /\ entries[j].f.depth = 0})
            d == Unpacked(entries[i])
        IN \A p \in MayRun(d) : Named(d, p) # 0 => Named(d, p) \in installers

\* However its bytes arrive, the walk over a stream finds at every point what
\* the walk over the whole would (cpio.rs:319-633).
StreamIsParse ==
    LET Small(m) == Len(m.data) <= limits.entry
        Agree(s, a, d) ==
          /\ s.cpio = IsCpio(d)
          /\ (/\ s.cpio
              /\ s.halted # "byte limit"
              /\ \A i \in DOMAIN a.entries : Small(a.entries[i])
              /\ \A i \in DOMAIN a.cut : Small(a.cut[i]))
               => s.entries = a.entries /\ s.halted = a.halted /\ s.cut = a.cut
        Fed(d) == Agree(Finish(sink.part.walk, limits.members, limits.entry),
                        Parse(d, limits.members, MaxNumber), d)
    IN (stage = "walk" /\ sink.fed > 0) => Fed(SubSeq(sink.read.first, 1, sink.fed))
=============================================================================
