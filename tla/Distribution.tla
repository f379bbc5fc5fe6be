---------------------------- MODULE Distribution ----------------------------
(***************************************************************************)
(* What rules/package.rs makes of an installer's Distribution document:    *)
(* the JavaScript in it, as an XML parser would deliver it, and the        *)
(* archive paths its pkg-refs name that Installer can run.  "unclear" and  *)
(* Untrusted say that Installer may read the document in another way.      *)
(***************************************************************************)
EXTENDS Xml, FiniteSets

CONSTANTS Marker,         \* the symbols the content rules look for
          Interpreters,   \* basenames system.run should not launch
          Folded,         \* names in another case or with a prefix, and what they fold to
          NonPlain,       \* symbols Installer may read in another way
          PercentCode     \* %XX escapes and what they stand for ("none": not to be trusted)

Occurs(s, t) == \E i \in 0..(Len(t) - Len(s)) : SubSeq(t, i + 1, i + Len(s)) = s

Fold(name) == IF name \in DOMAIN Folded THEN Folded[name] ELSE name
-----------------------------------------------------------------------------
\* The JavaScript.

UnknownEntity(t) == \E i \in DOMAIN t : t[i] \in Undefined

\* A document that Installer's parser reads as the characters scanned here.
Encodings == {"none", "utf-8", "latin-1"}
FaithfullyReadable(d, transcoded) ==
    LET body == IF d # <<>> /\ d[1].u = "bom" THEN Tail(d) ELSE d
        solid == SelectSeq(body, LAMBDA x : ~(x.u = "text" /\ IsBlank(x.t)))
    IN /\ transcoded \/ ~Occurs(<<"NUL">>, TextOf(d))
       /\ solid # <<>> /\ solid[1].u \in Markup
       /\ solid[1].u = "<?" => solid[1].encoding \in Encodings \cup
                                  (IF transcoded THEN {"utf-16"} ELSE {})
       /\ \A i \in DOMAIN d : d[i].u = "<!" => ~d[i].entity

\* A script body: CDATA verbatim, comments and instructions dropped, the
\* rest decoded; and the same without the tags when that differs.
ScriptBody(units) ==
    LET Walk(s, i) ==
          LET u == units[i].u
              close == Find(units, i + 1, Closer(u))
              last == IF close = 0 THEN Len(units) ELSE close - 1
              CData(text) == [s EXCEPT !.from = last + 2, !.with = @ \o text, !.without = @ \o text]
              Here(raw, text) ==
                [s EXCEPT !.ok = @ /\ ~UnknownEntity(raw), !.with = @ \o text,
                          !.without = IF u = "tag" THEN @ ELSE @ \o text]
          IN IF i < s.from THEN s
             ELSE IF u \in {"<!--", "<?"} THEN [s EXCEPT !.from = last + 2]
             ELSE IF u = "<![CDATA[" THEN CData(TextOf(Slice(units, i + 1, last)))
             ELSE Here(RawText(units[i]), DecodeEntities(RawText(units[i])))
        Body(s) ==
          [ok |-> s.ok, texts |-> IF s.with = s.without THEN <<s.with>> ELSE <<s.with, s.without>>]
    IN Body(FoldLeft(Walk, [from |-> 1, ok |-> TRUE, with |-> <<>>, without |-> <<>>],
                     [i \in DOMAIN units |-> i]))

\* distribution_pieces: every attribute value and script body, up to what
\* cannot be read.
ReadAttrs(s, values) ==
    LET odd == {i \in DOMAIN values : UnknownEntity(values[i])}
        read == IF odd = {} THEN values
                ELSE SubSeq(values, 1, CHOOSE i \in odd : \A j \in odd : i <= j)
    IN [s EXCEPT !.saw = TRUE, !.ok = odd = {}, !.over = odd # {},
                 !.pieces = @ \o [i \in DOMAIN read |-> DecodeEntities(read[i])]]

\* "close" is where the script's end tag is, 0 when it has none.
ReadBody(s, close, body) ==
    [s EXCEPT !.pos = close + 1, !.pieces = IF body.ok THEN @ \o body.texts ELSE @,
              !.ok = close # 0 /\ body.ok, !.over = close = 0 \/ ~body.ok]

Pieces(d, transcoded) ==
    LET Script(s, close) ==
          ReadBody(s, close,
                   ScriptBody(Slice(d, s.pos, IF close = 0 THEN Len(d) ELSE close - 1)))
        Tag(s, unit) == IF s.over \/ unit.name # "script" \/ unit.selfClosing THEN s
                        ELSE Script(s, RawUntilClose(d, s.pos, "script"))
        Values(attrs) == [i \in DOMAIN attrs |-> attrs[i].value]
        Take(s, ev) ==
          CASE ev.e = "end" -> [s EXCEPT !.over = TRUE, !.ok = s.saw]
            [] ev.e = "bad" -> [s EXCEPT !.over = TRUE, !.ok = FALSE]
            [] ev.e = "open" ->
                 Tag(ReadAttrs([s EXCEPT !.pos = ev.pos], Values(Attrs(ev.unit))), ev.unit)
            [] OTHER -> [s EXCEPT !.pos = ev.pos]
        Step(s, i) == IF s.over THEN s ELSE Take(s, NextEvent(d, s.pos))
        Read(s) == [ok |-> s.ok, pieces |-> s.pieces]
    IN IF ~FaithfullyReadable(d, transcoded) THEN [ok |-> FALSE, pieces |-> <<>>]
       ELSE Read(FoldLeft(Step, [pos |-> 1, saw |-> FALSE, ok |-> TRUE, over |-> FALSE,
                                 pieces |-> <<>>], [i \in 0..Len(d) |-> i]))

JoinPieces(pieces) ==
    LET kept == SelectSeq(pieces, LAMBDA t : ~IsBlank(t))
    IN FlattenSeq([i \in DOMAIN kept |-> IF i = Len(kept) THEN kept[i] ELSE Append(kept[i], "NL")])

\* system.run( or system.runOnce( with a literal whose basename is an
\* interpreter, perhaps with a version.
LaunchesInterpreter(js) ==
    LET Solid(i) ==     \* the first symbol from i on that is no blank
          LET solid == {k \in i..Len(js) : js[k] \notin {Blank, "NL"}}
          IN IF solid = {} THEN Len(js) + 1 ELSE CHOOSE k \in solid : \A l \in solid : k <= l
        Is(i, sym) == i <= Len(js) /\ js[i] = sym
        Quotes == {"'", "dq", "bt"}
        Literal(q) == LET ends == {k \in (q + 1)..Len(js) : js[k] = js[q]}
                      IN IF ends = {} THEN <<>>
                         ELSE SubSeq(js, q + 1, (CHOOSE k \in ends : \A l \in ends : k <= l) - 1)
        Base(t) == LET cuts == {k \in DOMAIN t : t[k] = "/"}
                   IN IF cuts = {} THEN t
                      ELSE SubSeq(t, (CHOOSE k \in cuts : \A l \in cuts : l <= k) + 1, Len(t))
    IN \E i \in DOMAIN js :
          LET dot == Solid(i + 1)
              run == Solid(dot + 1)
              paren == Solid(IF Is(run + 1, "Once") THEN run + 2 ELSE run + 1)
              quote == Solid(paren + 1)
              base == IF quote <= Len(js) THEN Base(Trim(Literal(quote))) ELSE <<>>
          IN /\ js[i] = "system" /\ Is(dot, ".") /\ Is(run, "run") /\ Is(paren, "(")
             /\ quote <= Len(js) /\ js[quote] \in Quotes
             /\ base # <<>> /\ base[1] \in Interpreters
             /\ \A k \in 2..Len(base) : base[k] \in DOMAIN DigitValue \cup {"."}

\* scan_distribution_text: what the content rules and the launch marker find.
TextWeight(t, markerWeight, launchWeight) ==
    IF t = <<>> THEN 0
    ELSE (IF LaunchesInterpreter(t) THEN launchWeight ELSE 0) +
         (IF Occurs(Marker, t) THEN markerWeight ELSE 0)
-----------------------------------------------------------------------------
\* Wiring: which pkg-ref ids the choices can install.

NoId == <<>>
Names == {"choices-outline", "line", "choice", "pkg-ref"}
IsWiring(name) == Fold(name) \in Names

NewWiring == [names |-> <<>>, depth |-> 0, choices |-> <<>>, outline |-> FALSE, lines |-> FALSE,
              reachable |-> {}, refs |-> {}, unclear |-> FALSE]

\* Mutant: a second attribute of that name is passed over.
ReadId_First(unit, want) ==
    LET found == SelectSeq(Attrs(unit), LAMBDA a : a.name = want)
    IN [id |-> IF found = <<>> THEN NoId ELSE found[1].value, unclear |-> FALSE]

\* The wanted attribute when it is plain; a repeat, another case or an odd
\* value is unclear.
ReadId(unit, want) ==
    LET found == SelectSeq(Attrs(unit), LAMBDA a : Fold(a.name) = want)
        plain == /\ Len(found) = 1 /\ found[1].name = want /\ found[1].value # <<>>
                 /\ Range(found[1].value) \cap (NonPlain \cup DOMAIN Entity \cup {Blank}) = {}
    IN IF found = <<>> THEN [id |-> NoId, unclear |-> FALSE]
       ELSE IF plain THEN [id |-> [i \in DOMAIN found[1].value |-> Fold(found[1].value[i])],
                           unclear |-> FALSE]
       ELSE [id |-> NoId, unclear |-> TRUE]

\* A pkg-ref inside a choice ties the two ids together.
RefIn(w, unit) ==
    LET choice == w.choices[Len(w.choices)]
        inside == w.choices # <<>>
        Read(r) ==
          [id |-> r.id,
           w |-> [w EXCEPT !.unclear = @ \/ r.unclear
                                         \/ (inside /\ (choice = NoId \/ r.id = NoId)),
                           !.refs = IF inside /\ r.id # NoId /\ choice # NoId
                                    THEN @ \cup {<<choice, r.id>>} ELSE @]]
    IN Read(ReadId(unit, "id"))

ReadTag(w, unit, line, choice) ==
    LET name == unit.name
        read == CASE name = "choices-outline" ->
                       IF Len(w.names) = 1 THEN [w EXCEPT !.outline = TRUE]
                       ELSE [w EXCEPT !.unclear = TRUE]
                  [] name = "line" /\ w.depth > 0 ->
                       [w EXCEPT !.lines = TRUE, !.unclear = @ \/ line.unclear,
                                 !.reachable = @ \cup ({line.id} \ {NoId})]
                  [] name = "choice" ->
                       [w EXCEPT !.unclear = @ \/ w.choices # <<>> \/ choice.unclear]
                  [] name = "pkg-ref" -> RefIn(w, unit).w
                  [] OTHER -> w
    IN IF unit.selfClosing THEN read
       ELSE [read EXCEPT !.names = Append(@, name),
                         !.depth = IF name = "choices-outline" THEN @ + 1 ELSE @,
                         !.choices = IF name = "choice" THEN Append(@, choice.id) ELSE @]

OpenTag(w, unit) ==
    ReadTag([w EXCEPT !.unclear = @ \/ (IsWiring(unit.name) /\ unit.name \notin Names)], unit,
            ReadId(unit, "choice"), ReadId(unit, "id"))

CloseTag(w, name) ==
    LET top == IF w.names = <<>> THEN "" ELSE w.names[Len(w.names)]
    IN [w EXCEPT !.unclear = @ \/ top # name,
                 !.names = IF @ = <<>> THEN @ ELSE Front(@),
                 !.depth = IF name = "choices-outline" /\ @ > 0 THEN @ - 1 ELSE @,
                 !.choices = IF name = "choice" /\ @ # <<>> THEN Front(@) ELSE @]

\* A document whose outline is clear keeps what its lines reach.
Clear(w) == w.outline /\ w.lines /\ ~w.unclear /\ w.names = <<>>
Runnable(w) == {r[2] : r \in {x \in w.refs : x[1] \in w.reachable}}
-----------------------------------------------------------------------------
\* ref_path: what a pkg-ref's text names, or that it is ambiguous.

Ambiguous == <<"ambiguous">>
Nothing == <<"nothing">>

PercentDecode(t) == [i \in DOMAIN t |-> IF t[i] \in DOMAIN PercentCode THEN PercentCode[t[i]] ELSE t[i]]

RefPath(content) ==
    LET value == Trim(DecodeEntities(content))
        path == PercentDecode(Tail(value))
        cuts == <<0>> \o SetToSortSeq({i \in DOMAIN path : path[i] = "/"}, LAMBDA a, b : a < b)
                      \o <<Len(path) + 1>>
        segment(k) == SubSeq(path, cuts[k] + 1, cuts[k + 1] - 1)
    IN IF Range(content) \cap NonPlain # {} THEN Ambiguous
       ELSE IF value = <<>> \/ value[1] # "#" THEN Nothing
       ELSE IF "none" \in Range(path)
               \/ (\E k \in 1..(Len(cuts) - 1) : segment(k) \in {<<>>, <<".">>, <<"..">>})
       THEN Ambiguous ELSE path

HasWiringTag(units) == \E i \in DOMAIN units : units[i].u = "tag" /\ IsWiring(units[i].name)

\* A declaration outside comments and CDATA.
HasDeclaration(d) ==
    LET At[q \in 1..(Len(d) + 1)] ==
          IF q > Len(d) THEN FALSE
          ELSE LET close == Find(d, q + 1, Closer(d[q].u))
               IN IF d[q].u = "<!" THEN TRUE
                  ELSE IF d[q].u \in {"<!--", "<![CDATA["} THEN close # 0 /\ At[close + 1]
                  ELSE At[q + 1]
    IN At[1]

Untrusted == <<-1>>

\* The pkg-refs that named an entry, each with its id, as installable: an id
\* given to two entries, or a declaration, leaves the wiring unclear.
KeptPaths(named, w0, declared, max) ==
    LET twice == \E i, j \in DOMAIN named : /\ named[i][1] = named[j][1]
                                            /\ named[i][1] # NoId
                                            /\ named[i][2] # named[j][2]
        Kept(w) == SelectSeq(named, LAMBDA n : Clear(w) => n[1] \in Runnable(w))
        Once(paths, n) == IF n[2] \in Range(paths) THEN paths ELSE Append(paths, n[2])
        UpTo(paths) == SubSeq(paths, 1, IF max < Len(paths) THEN max ELSE Len(paths))
    IN UpTo(FoldLeft(Once, <<>>, Kept([w0 EXCEPT !.unclear = @ \/ twice \/ declared])))

FailRefs(s) == [s EXCEPT !.over = TRUE, !.trusted = FALSE]

OpenRef(s, ev) ==
    LET Opened(r) == [s EXCEPT !.w = r.w, !.open = TRUE, !.id = r.id, !.from = ev.pos,
                               !.content = <<>>, !.child = FALSE, !.pos = ev.pos]
    IN Opened(RefIn(s.w, ev.unit))

\* A reference ends: "path" is what its text names.
CloseRef(d, byPath, s, ev, path) ==
    IF \/ s.child /\ ~IsBlank(s.content)
       \/ Find(SubSeq(d, 1, ev.pos - 2), s.from, {"<![CDATA["}) # 0
       \/ path = Ambiguous
    THEN FailRefs(s)
    ELSE [s EXCEPT !.open = FALSE, !.pos = ev.pos,
                   !.named = IF path # Nothing /\ path \in DOMAIN byPath
                             THEN Append(@, <<s.id, byPath[path]>>) ELSE @]

InsideRef(d, byPath, s, ev) ==
    LET name == ev.unit.name
    IN CASE ev.e = "text" -> [s EXCEPT !.content = @ \o ev.text, !.pos = ev.pos]
         [] ev.e = "open" ->
              IF IsWiring(name) \/ Fold(name) = "script" THEN FailRefs(s)
              ELSE [s EXCEPT !.child = TRUE, !.pos = ev.pos,
                             !.inner = IF ev.unit.selfClosing THEN @ ELSE Append(@, name)]
         [] OTHER ->
              IF s.inner # <<>>
              THEN IF s.inner[Len(s.inner)] = name
                   THEN [s EXCEPT !.inner = Front(@), !.pos = ev.pos] ELSE FailRefs(s)
              ELSE IF name = "pkg-ref" THEN CloseRef(d, byPath, s, ev, RefPath(s.content))
              ELSE FailRefs(s)

OutsideRefs(d, s, ev) ==
    LET Script(close) == IF close = 0 THEN FailRefs(s)
                         ELSE [s EXCEPT !.pos = close + 1, !.w.unclear =
                                 @ \/ HasWiringTag(Slice(d, ev.pos, close - 1))]
    IN CASE ev.e = "text" -> [s EXCEPT !.pos = ev.pos]
         [] ev.e = "close" -> [s EXCEPT !.w = CloseTag(@, ev.unit.name), !.pos = ev.pos]
         [] ev.unit.name = "pkg-ref" /\ ~ev.unit.selfClosing -> OpenRef(s, ev)
         [] ev.unit.name = "script" /\ ~ev.unit.selfClosing ->
              Script(RawUntilClose(d, ev.pos, "script"))
         [] OTHER -> [s EXCEPT !.w = OpenTag(@, ev.unit), !.pos = ev.pos]

\* pkg_ref_paths: the entries the pkg-refs name, in document order, or
\* Untrusted.  "byPath" gives a path's entry, if it has one.
PkgRefPaths(d, byPath, max) ==
    LET Take(s, ev) == IF ev.e = "end" /\ ~s.open THEN [s EXCEPT !.over = TRUE]
                       ELSE IF ev.e \in {"end", "bad"} THEN FailRefs(s)
                       ELSE IF s.open THEN InsideRef(d, byPath, s, ev) ELSE OutsideRefs(d, s, ev)
        Step(s, i) == IF s.over THEN s ELSE Take(s, NextEvent(d, s.pos))
        Paths(s) == IF s.trusted THEN KeptPaths(s.named, s.w, HasDeclaration(d), max) ELSE Untrusted
    IN Paths(FoldLeft(Step, [pos |-> 1, over |-> FALSE, trusted |-> TRUE, open |-> FALSE,
                             id |-> NoId, from |-> 0, content |-> <<>>, inner |-> <<>>,
                             child |-> FALSE, named |-> <<>>, w |-> NewWiring],
                      [i \in 0..Len(d) |-> i]))
=============================================================================
