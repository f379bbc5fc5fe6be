---------------------------- MODULE ContentRules ----------------------------
(***************************************************************************)
(* What the content rules say of a file: rules/macho_structure.rs of a     *)
(* program's load paths and entitlements, rules/entropy.rs of its packed   *)
(* ranges, both over the one scan of it, rules/persistence.rs of a         *)
(* property list, and rules/strings.rs of text.  A weight of 0 is no       *)
(* finding.                                                                *)
(***************************************************************************)
EXTENDS MachO, Plist, StringRule

CONSTANTS Lower(_),           \* of a path component
          Names,              \* components of a path, other than "", "." and ".."
          Plain,              \* components of letters, digits, "_" and "-"
          PayloadMin, MaxPayloads, Block, Chunk, MaxStream

VARIABLES anchored,   \* the signature verifies to an Apple anchor
          rules,      \* those still to run
          outcome,    \* of each that has run
          marked      \* the rules whose stream failed

vars == <<machoVars, anchored, rules, outcome, marked>>

TransientWeight == 15
HomeWeight == 5
SignedWeight == 10
AdHocWeight == 18
SignedCap == 10
MaxLoaderWeight == 30
-----------------------------------------------------------------------------
\* Load paths: absolute or not, and their components.
StartsWith(parts, prefix) == Len(parts) > Len(prefix) /\ IsPrefix(prefix, parts)

\* Mutant: a path through the data volume is taken as it is.
Normalize_NoVolume(parts) ==
    FoldLeft(LAMBDA done, c : CASE c \in {"", "."} -> done
                                [] c = ".." -> SubSeq(done, 1, Len(done) - 1)
                                [] OTHER -> Append(done, Lower(c)), <<>>, parts)

\* normalize_load_path.
Normalize(parts) ==
    LET step(done, c) == CASE c \in {"", "."} -> done
                           [] c = ".." -> SubSeq(done, 1, Len(done) - 1)
                           [] OTHER -> Append(done, Lower(c))
        n == FoldLeft(step, <<>>, parts)
        data == <<"system", "volumes", "data">>
    IN IF StartsWith(n, data) THEN SubSeq(n, Len(data) + 1, Len(n)) ELSE n

SystemPrefixes == {<<"system">>, <<"usr", "lib">>, <<"library">>}

\* load_path_weight.
LoadPathWeight(path) ==
    LET n == Normalize(path.parts)
        hidden == \E i \in DOMAIN n : n[i] \in Hidden
        transient == \E p \in TransientPrefixes : StartsWith(n, [i \in DOMAIN p |-> Lower(p[i])])
        home == StartsWith(n, <<"users">>)
        demotable == /\ home /\ n[2] # "shared" /\ n[2] \in Plain
                     /\ ~transient /\ ~hidden
                     /\ ~\E i \in DOMAIN path.parts : path.parts[i] = ".."
    IN IF \/ ~path.absolute
          \/ \E p \in SystemPrefixes : StartsWith(n, p)
          \/ ~(transient \/ hidden \/ home)
       THEN 0 ELSE IF demotable THEN HomeWeight ELSE TransientWeight
-----------------------------------------------------------------------------
\* Entitlements.

Suspicious == {"library validation", "dyld variables", "page protection", "get task"}

\* entitlements_finding: the keys asked for, those under an ad-hoc signature
\* apart; a gap is what could not be determined.
Entitlements(image) ==
    LET blob == CHOOSE e \in image.entitlements : TRUE
        adhoc == TRUE \in image.flags \/ (image.flags # {} /\ ~image.cms)
        identified == image.flags # {} /\ ~adhoc
        keys == IF image.entitlements = {} \/ ~blob.plist THEN {}
                ELSE (blob.keys \cap Suspicious) \ (IF identified THEN {} ELSE {"get task"})
    IN [gap |-> IF image.entitlements = {} THEN image.signed /\ ~Determined(image.region)
                ELSE ~blob.plist,
        adhoc |-> IF adhoc THEN keys ELSE {},
        signed |-> IF adhoc THEN {} ELSE keys]

\* entitlements_weight.
EntitlementsWeight(adhoc, signed, capped) ==
    AdHocWeight * Cardinality(adhoc) +
    IF capped THEN Least(SignedWeight * Cardinality(signed), SignedCap)
    ELSE SignedWeight * Cardinality(signed)

\* evaluate_with: the paths and the keys of all slices together; a key asked
\* for under an ad-hoc signature counts as such.
LoaderWeight(slices, anchor) ==
    LET paths == UNION {Range(i.dylibs) \cup Range(i.rpaths) : i \in slices}
        found == {Entitlements(i) : i \in slices}
        adhoc == UNION {f.adhoc : f \in found}
        signed == UNION {f.signed : f \in found} \ adhoc
        capped == Cardinality(signed) >= 2 /\ anchor
    IN Least(MaxLoaderWeight,
             Max({0} \cup {LoadPathWeight(p) : p \in paths})
               + EntitlementsWeight(adhoc, signed, capped))

\* What is found, unless it weighs less than `least` and something was not seen.
UnlessGap(weight, least, gap) == IF weight < least /\ gap THEN NotApplicable ELSE Weighed(weight)

Loader ==
    LET slices == Range(images)
        gap == skipped > 0 \/ \E i \in slices : Entitlements(i).gap
    IN IF ~is_macho THEN Weighed(0)
       ELSE IF slices = {} THEN NotApplicable
       ELSE UnlessGap(LoaderWeight(slices, anchored), 1, gap)

LoaderCovers == ~is_macho \/ FullyExamined
-----------------------------------------------------------------------------
\* The ranges the entropy rule measures.

PackedWeight == 15
ElevatedWeight == 4
TextRatio == 4
Excluded == {"__PAGEZERO", "__LINKEDIT", "__DWARF", "__LLVM"}
Standard == Excluded \cup
    {"__TEXT", "__DATA", "__DATA_CONST", "__DATA_DIRTY", "__AUTH", "__AUTH_CONST", "__OBJC",
     "__IMPORT", "__CTF", "__RESTRICT"}

Length(r) == r.to - r.from
Clip(s, r) == [r EXCEPT !.to = Greatest(Least(@, s.len), r.from)]
Overlap(a, b) == Monus(Least(a.to, b.to), Greatest(a.from, b.from))

\* The ranges of a segment that may be a payload: itself if its shape is
\* unusual or it has no sections, otherwise its sections.
RangesOf(image, seg) ==
    LET wx == {"w", "x"} \subseteq seg.prot
        odd == seg.name \notin Standard
        sections == [i \in DOMAIN seg.sections |-> seg.sections[i].range]
        ranges == CASE wx \/ odd -> <<seg.range>>
                    [] ~(wx \/ odd) /\ sections = <<>> -> <<seg.range \ image.text>>
                    [] OTHER -> [i \in DOMAIN sections |-> sections[i] \ image.text]
        each(set) == SetToSeq({[range |-> r, wx |-> wx, odd |-> odd] : r \in set})
    IN IF seg.name \in Excluded /\ "x" \notin seg.prot THEN <<>>
       ELSE FlattenSeq([i \in DOMAIN ranges |-> each(ranges[i])])

\* payload_regions, unclipped.  Text ranges are records of the same kind.
PayloadRegions(s, image) ==
    LET text == {Clip(s, r) : r \in image.text}
        rest(r) == MapThenSumSet(LAMBDA t : Length(t) - Overlap(t, r), text)
        shaped(p) == [range |-> p.range, text |-> FALSE, wx |-> p.wx, odd |-> p.odd,
                      small |-> rest(p.range) * TextRatio < Length(p.range)]
        all == FlattenSeq([i \in DOMAIN image.segments |-> RangesOf(image, image.segments[i])])
    IN IF image.object THEN <<>>
       ELSE SelectSeq([i \in DOMAIN all |-> shaped(all[i])],
                      LAMBDA p : Length(p.range) >= PayloadMin /\ (p.wx \/ p.odd \/ p.small))

TextRegions(image) ==
    [i \in 1..Cardinality(image.text) |->
       [range |-> CHOOSE r \in image.text : TRUE, text |-> TRUE, wx |-> FALSE, odd |-> FALSE,
        small |-> FALSE]]

Structural(p) == p.wx \/ (p.odd /\ p.small)
Weight(p) == IF Structural(p) THEN PackedWeight ELSE ElevatedWeight

\* Each range once, with the heaviest of its shapes.
AddRegion(acc, p) ==
    LET same == {i \in DOMAIN acc.kept : acc.kept[i].text = p.text /\ acc.kept[i].range = p.range}
        i == CHOOSE i \in same : TRUE
        payloads == SelectSeq(acc.kept, LAMBDA k : ~k.text)
    IN IF Length(p.range) = 0 THEN acc
       ELSE IF same # {}
       THEN IF ~p.text /\ Weight(p) > Weight(acc.kept[i]) THEN [acc EXCEPT !.kept[i] = p] ELSE acc
       ELSE IF ~p.text /\ Len(payloads) >= MaxPayloads THEN [acc EXCEPT !.capped = TRUE]
       ELSE [acc EXCEPT !.kept = Append(@, p)]

Regions(s, slices) ==
    LET of(i) == TextRegions(slices[i]) \o PayloadRegions(s, slices[i])
        all == FlattenSeq([i \in DOMAIN slices |-> of(i)])
        clipped == [i \in DOMAIN all |-> [all[i] EXCEPT !.range = Clip(s, @)]]
    IN FoldLeft(AddRegion, [kept |-> <<>>, capped |-> FALSE], clipped)

\* Text first, then structural payloads, then the others; in each group what
\* is held first.
Rank(s, p) == (IF p.text THEN 0 ELSE IF Structural(p) THEN 2 ELSE 4)
              + (IF p.range.to > s.held THEN 1 ELSE 0)
Ranked(s, kept) ==
    FlattenSeq([k \in 1..6 |-> SelectSeq(kept, LAMBDA p : Rank(s, p) = k - 1)])

\* A range too long for what is left of the budget is measured where it is
\* held, once, or not at all.
Include(s, acc, p) ==
    LET held == [from |-> Least(p.range.from, s.held), to |-> Least(p.range.to, s.held)]
        left == MaxStream - acc.total
        fits == Length(p.range) <= left
        part == IF fits THEN p.range ELSE held
        known == part # p.range /\ <<p.text, part>> \in acc.seen
    IN IF ~fits /\ (Length(held) = 0 \/ Length(held) > left \/ known)
       THEN [acc EXCEPT !.all = FALSE]
       ELSE [acc EXCEPT !.all = @ /\ fits, !.total = @ + Length(part),
                        !.seen = @ \cup {<<p.text, part>>},
                        !.included = Append(@, [p EXCEPT !.range = part])]

\* budgeted_ranges.
BudgetedRanges(s, slices) ==
    LET regions == Regions(s, slices)
        ranked == Ranked(s, regions.kept)
        step(acc, p) == Include(s, acc, p)
    IN FoldLeft(step, [included |-> <<>>, total |-> 0, all |-> ~regions.capped,
                       seen |-> {<<p.text, p.range>> : p \in Range(ranked)}], ranked)

\* declares_range_past_a_non_authoritative_capture.
DeclaresPastCapture(s, slices) ==
    /\ ~Authoritative(s)
    /\ \E i \in DOMAIN slices :
         \/ \E r \in slices[i].text : r.to > s.len
         \/ \E p \in Range(PayloadRegions(s, slices[i])) : p.range.to > s.len
-----------------------------------------------------------------------------
\* TextEntropy.  A cell is dense or it is not: bytes are packed if all of them
\* are, and elevated if half of them are.

NewText == [len |-> 0, dense |-> 0, block |-> <<>>, prev |-> {}, window |-> FALSE, windows |-> 0]

ScoreWindow(a) ==
    IF a.prev = {} THEN a
    ELSE LET whole == (CHOOSE b \in a.prev : TRUE) \o a.block
         IN [a EXCEPT !.windows = @ + 1, !.window = @ \/ \A i \in DOMAIN whole : whole[i].u = "dense"]

\* feed, of at most a block's worth at a time.
RECURSIVE Feed(_, _)
Feed(a, bytes) ==
    LET take == Least(Len(bytes), Block - Len(a.block))
        now == SubSeq(bytes, 1, take)
        filled == [a EXCEPT !.block = @ \o now, !.len = @ + take,
                            !.dense = @ + Len(SelectSeq(now, LAMBDA c : c.u = "dense"))]
        scored == ScoreWindow(filled)
    IN IF bytes = <<>> THEN a
       ELSE Feed(IF Len(filled.block) < Block THEN filled
                 ELSE [scored EXCEPT !.prev = {filled.block}, !.block = <<>>],
                 SubSeq(bytes, take + 1, Len(bytes)))

\* finish: windows count only where the whole is as long as one.
Finish(a) ==
    LET long == a.len >= 2 * Block
        last == IF a.block # <<>> /\ long THEN ScoreWindow(a) ELSE a
    IN [len |-> a.len, dense |-> a.dense, window |-> long /\ last.window]

\* macho_signal.
Signal(f, p) ==
    IF ~p.text THEN IF f.window THEN Weight(p) ELSE 0
    ELSE IF f.len < MinSample THEN 0
    ELSE IF f.dense = f.len THEN PackedWeight
    ELSE IF 2 * f.dense >= f.len \/ f.window THEN ElevatedWeight ELSE 0

Bytes(s, r) == SubSeq(s.cells, r.from + 1, r.to)

\* for_each_window without overlap: the chunks of a range.
Chunks(s, r) ==
    [k \in 1..((Length(r) + Chunk - 1) \div Chunk) |->
       Bytes(s, [from |-> r.from + (k - 1) * Chunk, to |-> Least(r.to, r.from + k * Chunk)])]

Held(s, r) == Signal(Finish(Feed(NewText, Bytes(s, [from |-> Least(r.range.from, s.held),
                                                   to |-> Least(r.range.to, s.held)]))), r)

\* Mutant: every chunk begins without the block before it.
Streamed_Anew(s, r) ==
    Signal(Finish(FoldLeft(LAMBDA a, b : Feed([a EXCEPT !.prev = {}], b), NewText, Chunks(s, r.range))), r)

Streamed(s, r) == Signal(Finish(FoldLeft(Feed, NewText, Chunks(s, r.range))), r)

\* eval_macho_range: what is not all held is streamed, if that succeeds.
RangeWeight(s, p, fate) ==
    IF p.range.to <= s.held \/ ~fate THEN Held(s, p) ELSE Streamed(s, p)

\* A signature that verifies demotes what fired by name and size alone.
Demoted(p, w, anchor) ==
    IF w > 0 /\ anchor /\ ~p.text /\ Structural(p) /\ ~p.wx THEN ElevatedWeight ELSE w

\* eval_macho_images_with, where every stream that fails has its fate in
\* fates.  Less than a packed range says nothing while some range is unmeasured.
Entropy(s, slices, ranges, fates) ==
    LET in == ranges.included
        whole == /\ skipped = 0 /\ ranges.all
                 /\ \A i \in DOMAIN slices : slices[i].complete
                 /\ \A i \in DOMAIN in : in[i].range.to <= s.held \/ fates[i]
        weights == {Demoted(in[i], RangeWeight(s, in[i], fates[i]), anchored) : i \in DOMAIN in}
    IN IF ~is_macho THEN Weighed(0)
       ELSE IF slices = <<>> THEN NotApplicable
       ELSE UnlessGap(Max({0} \cup weights), PackedWeight, ~whole)

AllRead(ranges) == ranges.all /\ (ranges.total = 0 \/ src.file)

\* Mutant: regions that the capture cut off are forgotten.
EntropyCovers_Captured ==
    \/ ~is_macho
    \/ /\ images # <<>> /\ "entropy" \notin marked /\ skipped = 0
       /\ \A i \in DOMAIN images : images[i].complete
       /\ AllRead(BudgetedRanges(src, images))

\* covers_truncation; a file that is no program is taken for an opaque one.
EntropyCovers ==
    \/ ~is_macho
    \/ /\ images # <<>> /\ "entropy" \notin marked /\ skipped = 0
       /\ \A i \in DOMAIN images : images[i].complete
       /\ ~DeclaresPastCapture(src, images)
       /\ AllRead(BudgetedRanges(src, images))
-----------------------------------------------------------------------------
\* The strings rule.

HeldCells(s) == SubSeq(s.cells, 1, s.held)

Chars(cells) ==
    [i \in DOMAIN cells |-> CASE cells[i].u = "ch" -> cells[i].c
                             [] cells[i].u \in Markup \cup {"text"} -> "markup"
                             [] OTHER -> "other"]

IsText(s) == ReadsAsText(Chars(HeldCells(s)), s.path)

\* can_stream.
CanStream(s) == s.file /\ Len(s.cells) <= MaxTextStream

\* covers_truncation.
StringsCovers == CanStream(src) /\ "strings" \notin marked
-----------------------------------------------------------------------------
\* default_ruleset, and embedded_content_ruleset for what is in a container,
\* without the entropy rule's other half, which judges text.
Ruleset(s) ==
    (IF IsText(s) THEN <<>> ELSE <<"entropy">>) \o <<"strings">>
      \o (IF s.file THEN <<"launchd", "loader">> ELSE <<>>)

Init ==
    /\ MachoInit
    /\ anchored \in IF src.file THEN BOOLEAN ELSE {FALSE}
    /\ rules = Ruleset(src) /\ outcome = <<>> /\ marked = {}

ScanProgram == Scan /\ UNCHANGED <<anchored, rules, outcome, marked>>

Says(verdict) ==
    /\ outcome' = outcome @@ (Head(rules) :> verdict)
    /\ rules' = Tail(rules)
    /\ UNCHANGED <<machoVars, anchored>>

Runs(rule) == pc = "rules" /\ rules # <<>> /\ Head(rules) = rule

EvaluateLoader == Runs("loader") /\ Says(Loader) /\ UNCHANGED marked

\* Each stream past the held bytes may fail; without a file it always does.
EvaluateEntropy ==
    /\ Runs("entropy")
    /\ \E ranges \in {BudgetedRanges(src, images)} :
       LET in == ranges.included
       IN \E fates \in [DOMAIN in -> IF src.file THEN BOOLEAN ELSE {FALSE}] :
            /\ Says(Entropy(src, images, ranges, fates))
            /\ marked' = IF \E i \in DOMAIN in : in[i].range.to > src.held /\ ~fates[i]
                         THEN marked \cup {"entropy"} ELSE marked

\* A file that is not all held is streamed, unless it is too long, and some
\* read may fail.  A slice the wrong way round ends the program.
StringsSay(verdict) ==
    /\ outcome' = outcome @@ ("strings" :> verdict)
    /\ rules' = IF verdict.says = "panic" THEN <<>> ELSE Tail(rules)
    /\ UNCHANGED <<machoVars, anchored>>

EvaluateStrings ==
    /\ Runs("strings")
    /\ IF Truncated(src) /\ CanStream(src)
       THEN LET all == Chars(src.cells)
            IN \E n \in 0..WindowCount(all) :
                 /\ StringsSay(Strings(StreamHits(all, n), IsText(src), n < WindowCount(all)))
                 /\ marked' = IF n < WindowCount(all) THEN marked \cup {"strings"} ELSE marked
       ELSE /\ StringsSay(Strings(ScanWindow(Chars(HeldCells(src)), TRUE, ~Truncated(src)), IsText(src), FALSE))
            /\ UNCHANGED marked

EvaluateLaunchd ==
    /\ Runs("launchd")
    /\ Says(Launchd(HeldCells(src), Truncated(src), src.file, src.path))
    /\ UNCHANGED marked

Next == ScanProgram \/ EvaluateEntropy \/ EvaluateStrings \/ EvaluateLaunchd \/ EvaluateLoader

Spec == Init /\ [][Next]_vars
-----------------------------------------------------------------------------
\* The object as it is, and its slices as they would be read from all of it.
Whole(s) == [s EXCEPT !.len = Len(s.cells), !.held = Len(s.cells)]

TrueSlices(s) ==
    LET c == Cell(s, 0)
        at == CASE c.u = "thin" -> {0}
                [] c.u = "fat" /\ c.nfat \in 1..MaxFat -> UNION Range(Table(c, Len(s.cells)))
                [] OTHER -> {}
    IN UNION {ScanSlice(Whole(s), NewIo, off, <<TRUE, TRUE, TRUE>>).image : off \in at}

Clean(rule, covers) ==
    rule \in DOMAIN outcome /\ outcome[rule].says = "clean" /\ (Truncated(src) => covers)

\* Whatever could not be read, for want of budget, of the disk or of the rest
\* of a container member, the loader rule calls a program clean, and says that
\* the truncation does not matter, only if no slice of the whole object loads
\* from a bad place or asks for a suspicious entitlement.
LoaderCleanIsClean == Clean("loader", LoaderCovers) => LoaderWeight(TrueSlices(src), anchored) = 0

\* So does the entropy rule, only if no text and no payload region of the whole
\* object is packed.
EntropyCleanIsClean ==
    Clean("entropy", EntropyCovers) =>
      \A p \in Range(Regions(Whole(src), SetToSeq(TrueSlices(src))).kept) : Held(Whole(src), p) = 0

\* Other ways to write an absolute path; what is not under /System is also
\* reached through the data volume.
Respelled(parts) ==
    LET with(i, more) == SubSeq(parts, 1, i) \o more \o SubSeq(parts, i + 1, Len(parts))
        added == {<<".">>, <<"">>} \cup {<<x, "..">> : x \in Names}
        alike(i) == {x \in Names : Lower(x) = Lower(parts[i])}
    IN UNION {{with(i, more) : more \in added} : i \in 0..Len(parts)}
       \cup UNION {{[parts EXCEPT ![i] = x] : x \in alike(i)} : i \in DOMAIN parts}
       \cup {<<"System", "Volumes", "Data">> \o p : p \in {p \in {parts} : Lower(p[1]) # "system"}}

\* No other way to write a load path makes it weigh less.
RespellingNeverHelps ==
    \A i \in DOMAIN images : \A p \in Range(images[i].dylibs) :
      p.absolute => \A q \in Respelled(p.parts) :
                      LoadPathWeight([p EXCEPT !.parts = q]) >= LoadPathWeight(p)

Measured == IF pc = "rules" THEN Range(BudgetedRanges(src, images).included) ELSE {}

\* A range that is streamed weighs what it would if it were held, wherever the
\* chunks of the stream end.
StreamedAsHeld == \A p \in Measured : Streamed(src, p) = Held(Whole(src), p)

\* What the strings rule found in a text, of which some may have been out of
\* reach or streamed: no name that a longer one begins with, and, if it says that
\* the truncation does not matter, every name, and every pattern of a line no
\* longer than the span and the context that the overlap is made of.
StringsSeenWhole ==
    LET whole == Chars(src.cells)
        verdict == outcome["strings"]
        hits == verdict.hits
        decided == verdict.says # "not applicable" /\ (Truncated(src) => StringsCovers)
        short == {l \in Range(Lines(whole)) : l.to - l.from < PatternSpan + Lookback}
    IN "strings" \in DOMAIN outcome /\ verdict.says # "panic" =>
         /\ hits.markers \subseteq MarkersIn(whole, TRUE)
         /\ decided =>
              /\ MarkersIn(whole, TRUE) \subseteq hits.markers
              /\ TccIn(whole) \subseteq hits.patterns
              /\ \A l \in short : ScanLine(l.text, FALSE, FALSE) \subseteq hits.patterns

\* What a binary list means: every way from its top to an object is a value, at
\* the depth of its length.
Parts(d, i) == LET o == d.objects[d.offsets[i]] IN o.keys \o o.refs

Ways(d) ==
    LET at[n \in 0..(MaxDepth + 1)] ==
          IF n = 0 THEN {[way |-> <<>>, index |-> d.top]}
          ELSE UNION {LET parts == Parts(d, w.index)
                      IN {[way |-> Append(w.way, k), index |-> parts[k]] : k \in DOMAIN parts} :
                        w \in at[n - 1]}
    IN at

Unfolded(d) ==
    LET value[i \in DOMAIN d.offsets, n \in 0..MaxDepth] ==
          LET o == d.objects[d.offsets[i]]
          IN CASE o.kind = "leaf" -> The(o.value)
               [] o.kind = "array" -> [array |-> [k \in DOMAIN o.refs |-> value[o.refs[k], n - 1]]]
               [] o.kind = "dict" -> [dict |-> [k \in DOMAIN o.refs |->
                                        <<value[o.keys[k], n - 1].str, value[o.refs[k], n - 1]>>]]
    IN value[d.top, MaxDepth]

Meaning(d) ==
    LET ways == UNION {Ways(d)[n] : n \in 0..MaxDepth}
        object(w) == d.objects[d.offsets[w.index]]
        good(o) ==
          /\ o.inside
          /\ o.kind = "leaf" => o.value # {} /\ (Is("data", The(o.value)) => o.bytes <= MaxDataBytes)
          /\ \A k \in Range(o.keys) : \E v \in d.objects[d.offsets[k]].value : Is("str", v)
    IN IF /\ Ways(d)[MaxDepth + 1] = {}
          /\ \A w \in ways : good(object(w))
          /\ Cardinality(ways) <= MaxNodes
          /\ MapThenSumSet(LAMBDA w : object(w).bytes, ways) <= MaxTotalBytes
       THEN {Unfolded(d)} ELSE {}

\* Where lists are expected, the launchd rule calls one clean only if what the
\* whole of it means is no unusual job.
LaunchdCleanIsClean ==
    Clean("launchd", LaunchdCovers(HeldCells(src))) /\ PlistTarget(src.path) =>
      \A value \in src.means : JobWeight(value, TRUE, src.path) = 0

\* The whole of a list is read as what it means, in each form; what is cut,
\* malformed, cyclic or past a ceiling is not read as something less.
ParsedIsMeant == ParseLaunchd(src.cells) = src.means
=============================================================================
