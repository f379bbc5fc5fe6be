-------------------------------- MODULE Plist --------------------------------
(***************************************************************************)
(* plist.rs: property lists, binary or XML.  Content is a sequence of the  *)
(* units of Xml.tla; a unit "utf16" in front of them is a byte order mark, *)
(* and a binary list is one unit "bplist00" that holds its object table,   *)
(* followed by the rest of its bytes.  An optional value is a set of at    *)
(* most one.                                                               *)
(*                                                                         *)
(* And rules/persistence.rs: what is unusual about a launchd job, of the   *)
(* list that a file holds and of the file's place.  A string of a list is  *)
(* a sequence of symbols: "/", the names in a path, options and what a     *)
(* script says.                                                            *)
(***************************************************************************)
EXTENDS Xml

CONSTANTS MaxDepth, MaxNodes, MaxTotalBytes, MaxDataBytes

CONSTANTS Hidden,         \* names that start with a dot, other than "." and ".."
          ToolRoots,      \* those of developer tools under a home directory
          Shells,         \* names that end in "sh"
          Loaders,        \* what a script says to fetch or decode
          PlistNames,     \* file names with the extension of a list
          ShortInterval

The(set) == CHOOSE x \in set : TRUE

\* PlistValue is a record with one field, named for its kind.
Is(kind, value) == kind \in DOMAIN value

\* get: what the first entry of that key holds.
Get(value, key) ==
    LET found == IF Is("dict", value) THEN SelectSeq(value.dict, LAMBDA e : e[1] = key) ELSE <<>>
    IN IF found = <<>> THEN {} ELSE {found[1][2]}
-----------------------------------------------------------------------------
\* What content may be.
Utf16(c) == c # <<>> /\ c[1].u = "utf16"
Units(c) == IF Utf16(c) THEN Tail(c) ELSE c
Solid(c) == SelectSeq(Units(c), LAMBDA x : ~(x.u = "text" /\ IsBlank(x.t)))

OfKind(c, kinds) == c # <<>> /\ c[1].u \in kinds

\* could_be_plist, could_be_launchd_plist and is_blank.
CouldBePlist(c) == OfKind(c, {"bplist00"}) \/ (Solid(c) # <<>> /\ Solid(c)[1].u \in Markup)
CouldBeLaunchd(c) == OfKind(c, {"bplist01"}) \/ CouldBePlist(c)
BlankContent(c) == Solid(c) = <<>>
-----------------------------------------------------------------------------
\* The binary form: from a number, the place of an object; there, a leaf with
\* its value and bytes, or a container with the numbers of its parts.

WellTabled(d) ==
    /\ d.offsets # <<>> /\ Len(d.offsets) <= MaxNodes
    /\ d.sizes /\ d.top \in DOMAIN d.offsets
    /\ \A i \in DOMAIN d.offsets : d.offsets[i] \in DOMAIN d.objects

\* read_refs, of the keys and of the values.
GoodRefs(d, o) ==
    o.inside /\ \A r \in Range(o.keys) \cup Range(o.refs) : r \in DOMAIN d.offsets

\* Mutant: what an object holds is charged only after it is taken.
DecodeLeaf_LateCharge(o, now) ==
    LET large == \E v \in o.value : Is("data", v) /\ o.bytes > MaxDataBytes
    IN [st |-> [now EXCEPT !.bytes = @ + o.bytes],
        value |-> IF large \/ now.bytes > MaxTotalBytes THEN {} ELSE o.value]

DecodeLeaf(o, now) ==
    LET paid == [now EXCEPT !.bytes = @ + o.bytes]
        large == \E v \in o.value : Is("data", v) /\ o.bytes > MaxDataBytes
    IN [st |-> paid, value |-> IF large \/ paid.bytes > MaxTotalBytes THEN {} ELSE o.value]

\* decode: st counts the values and the bytes so far and holds the containers
\* that are open; a dict's keys and values are read in turn.
RECURSIVE Decode(_, _, _, _)
Decode(d, st, index, depth) ==
    LET now == [st EXCEPT !.nodes = @ + 1]
        o == d.objects[d.offsets[index]]
        none(s) == [st |-> s, value |-> {}]
        key(s, i) == IF o.kind = "array" THEN [st |-> s, value |-> {[str |-> <<>>]}]
                     ELSE Decode(d, s, o.keys[i], depth + 1)
        item(acc, i) ==
          LET k == key(acc.st, i)
              v == Decode(d, k.st, o.refs[i], depth + 1)
          IN IF acc.value = {} THEN acc
             ELSE IF ~\E x \in k.value : Is("str", x) THEN none(k.st)
             ELSE IF v.value = {} THEN v
             ELSE LET part == IF o.kind = "array" THEN The(v.value)
                              ELSE <<The(k.value).str, The(v.value)>>
                  IN [st |-> v.st, value |-> {Append(The(acc.value), part)}]
        all == FoldLeft(item, [st |-> [now EXCEPT !.active = @ \cup {index}], value |-> {<<>>}],
                        [i \in DOMAIN o.refs |-> i])
        whole(parts) == IF o.kind = "array" THEN [array |-> parts] ELSE [dict |-> parts]
    IN IF depth > MaxDepth \/ now.nodes > MaxNodes \/ index \in st.active THEN none(now)
       ELSE IF o.kind = "leaf" THEN DecodeLeaf(o, now)
       ELSE IF ~GoodRefs(d, o) THEN none(now)
       ELSE [st |-> [all.st EXCEPT !.active = st.active], value |-> {whole(p) : p \in all.value}]

\* binary::parse; without its last bytes there is no trailer to begin from.
ParseBinary(c) ==
    LET d == c[1]
    IN IF Len(c) < d.size \/ ~WellTabled(d) THEN {}
       ELSE Decode(d, [nodes |-> 0, bytes |-> 0, active |-> {}], d.top, 0).value
-----------------------------------------------------------------------------
\* The XML form.  A parse is of a value, or none, and where it ends.

AllDigits(t) == t # <<>> /\ Range(t) \subseteq DOMAIN DigitValue
Unsigned(t) == IF t # <<>> /\ t[1] \in {"+", "-"} THEN Tail(t) ELSE t

IntegerOf(t) ==
    LET digits == Unsigned(Trim(t))
        size == FoldLeft(LAMBDA n, s : 10 * n + DigitValue[s], 0, digits)
    IN IF ~AllDigits(digits) THEN {} ELSE {[int |-> IF Trim(t)[1] = "-" THEN -size ELSE size]}

\* With at most one point; exponents and the words for no number are left out, as is
\* the value, which nobody uses.
RealOf(t) ==
    LET number == Unsigned(Trim(t))
        digits == SelectSeq(number, LAMBDA s : s # ".")
    IN IF AllDigits(digits) /\ Len(number) <= Len(digits) + 1 THEN {[real |-> 0]} ELSE {}

Closes(d, p, name) == p <= Len(d) /\ d[p].u = "tag" /\ d[p].closing /\ d[p].name = name
OpensKey(d, p) == PeekTag(d, p) = "key" /\ ~d[p].selfClosing /\ d[p].attrs = <<>>

\* A value of a tag and the text in it.
LeafOf(name, t) ==
    CASE name = "string" -> {[str |-> t]}
      [] name = "integer" -> IntegerOf(t)
      [] name = "real" -> RealOf(t)
      [] name = "date" -> {[date |-> 0]}
      [] name = "data" -> {[data |-> 0]}
      [] OTHER -> {}

EmptyOf(name) ==
    CASE name = "string" -> {[str |-> <<>>]} [] name = "data" -> {[data |-> 0]}
      [] name = "array" -> {[array |-> <<>>]} [] name = "dict" -> {[dict |-> <<>>]}
      [] OTHER -> {}

RECURSIVE ParseValue(_, _, _, _), ParseItems(_, _, _, _, _), ParseEntries(_, _, _, _, _)

ParseValue(d, from, before, depth) ==
    LET p == SkipJunk(d, from)
        name == PeekTag(d, p)
        n == before + 1
        text == ReadText(d, p + 1)
        close == ConsumeClose(d, text.pos, name)
        ends(value, pos) == [value |-> value, pos |-> pos, nodes |-> n]
    IN IF depth > MaxDepth \/ n > MaxNodes \/ name = "" THEN ends({}, p)
       ELSE IF name \in {"true", "false"} THEN ends({[bool |-> name = "true"]}, p + 1)
       ELSE IF d[p].selfClosing THEN ends(EmptyOf(name), p + 1)
       ELSE IF name = "array" THEN ParseItems(d, p + 1, n, depth, <<>>)
       ELSE IF name = "dict" THEN ParseEntries(d, p + 1, n, depth, <<>>)
       ELSE ends(IF close = 0 THEN {} ELSE LeafOf(name, text.text), close)

ParseItems(d, from, n, depth, items) ==
    LET p == SkipJunk(d, from)
        v == ParseValue(d, p, n, depth + 1)
    IN IF Closes(d, p, "array") THEN [value |-> {[array |-> items]}, pos |-> p + 1, nodes |-> n]
       ELSE IF p > Len(d) \/ v.value = {} THEN [value |-> {}, pos |-> p, nodes |-> n]
       ELSE ParseItems(d, v.pos, v.nodes, depth, Append(items, The(v.value)))

ParseEntries(d, from, n, depth, entries) ==
    LET p == SkipJunk(d, from)
        key == ReadText(d, p + 1)
        close == ConsumeClose(d, key.pos, "key")
        v == ParseValue(d, close, n, depth + 1)
        none == [value |-> {}, pos |-> p, nodes |-> n]
    IN IF Closes(d, p, "dict") THEN [none EXCEPT !.value = {[dict |-> entries]}, !.pos = p + 1]
       ELSE IF ~OpensKey(d, p) \/ close = 0 \/ v.value = {} THEN none
       ELSE ParseEntries(d, v.pos, v.nodes, depth, Append(entries, <<key.text, The(v.value)>>))

\* xml_reader::parse_str: the wrapper is optional, and what follows the value
\* is not read.
ParseXml(d) ==
    LET p == SkipJunk(d, 1)
        q == IF PeekTag(d, p) = "plist" THEN ConsumeOpen(d, p, "plist") ELSE p
    IN IF q = 0 THEN {} ELSE ParseValue(d, q, 0, 0).value

\* parse, and parse_launchd, which alone reads UTF-16.
Parse(c) ==
    IF ~CouldBePlist(c) \/ Utf16(c) THEN {}
    ELSE IF OfKind(c, {"bplist00"}) THEN ParseBinary(c) ELSE ParseXml(c)

ParseLaunchd(c) ==
    IF Utf16(c) /\ CouldBePlist(c) THEN IF c[1].odd THEN {} ELSE ParseXml(Tail(c)) ELSE Parse(c)
-----------------------------------------------------------------------------
\* The launchd job of a list.

MaxJobWeight == 30

\* TRANSIENT_PREFIXES, as the names in them.
TransientPrefixes ==
    {<<"tmp">>, <<"private", "tmp">>, <<"var", "tmp">>, <<"private", "var", "tmp">>,
     <<"var", "folders">>, <<"private", "var", "folders">>, <<"Users", "Shared">>}

Slashed(names) == FlattenSeq([i \in DOMAIN names |-> <<"/", names[i]>>]) \o <<"/">>

\* The components of a string between its slashes.
Components(t) ==
    LET step(acc, s) == IF s = "/" THEN Append(acc, <<>>) ELSE [acc EXCEPT ![Len(acc)] = Append(@, s)]
    IN FoldLeft(step, <<<<>>>>, t)
-----------------------------------------------------------------------------
\* LaunchdJob: none for a list that is not a job.
JobOf(value) ==
    LET strings(set) == SelectSeq(SetToSeq(set), LAMBDA x : Is("str", x))
        program == strings(Get(value, <<"Program">>))
        arrays == {x \in Get(value, <<"ProgramArguments">>) : Is("array", x)}
        args == IF arrays = {} THEN <<>> ELSE SelectSeq(The(arrays).array, LAMBDA x : Is("str", x))
        truthy(key) == \E x \in Get(value, key) : Is("dict", x) \/ x = [bool |-> TRUE]
        argv == program \o args
    IN IF strings(Get(value, <<"Label">>)) = <<>> \/ argv = <<>> THEN {}
       ELSE {[argv |-> [i \in DOMAIN argv |-> argv[i].str],
              kept |-> truthy(<<"RunAtLoad">>) /\ truthy(<<"KeepAlive">>),
              interval |-> {x.int : x \in {x \in Get(value, <<"StartInterval">>) : Is("int", x)}}]}

\* program_in_unusual_location: of the hidden names in the path only the first
\* is looked at, and a tool root counts as one only elsewhere than under a home.
UnusualLocation(exe) ==
    LET parts == Components(exe)
        hidden == {i \in DOMAIN parts : parts[i] # <<>> /\ parts[i][1] \in Hidden}
        first == CHOOSE i \in hidden : \A j \in hidden : i <= j
        tool == /\ parts[first][1] \in ToolRoots
                /\ first = 4 /\ parts[1] = <<>> /\ parts[2] = <<"Users">>
    IN \/ \E p \in TransientPrefixes : IsPrefix(Slashed(p), exe)
       \/ hidden # {} /\ ~tool

\* runs_inline_script.
InlineScript(argv) ==
    LET exe == Head(argv)
        has(option) == <<option>> \in Range(argv)
        shell == exe # <<>> /\ (Last(exe) \in Shells \/ IsSuffix(<<"/", "env">>, exe)) /\ has("-c")
        script == (\E a \in Range(argv) : "osascript" \in Range(a)) /\ has("-e")
    IN (shell \/ script) /\ \E a \in Range(argv) : Range(a) \cap Loaders # {}

\* staged_location: in a bundle or on a volume, unless where a bundle's own
\* helpers are installed.
Staged(path) ==
    LET inside(names) == \E i \in 1..(Len(path) - Len(names)) :
                           SubSeq(path, i, i + Len(names) - 1) = names
        helper == \E d \in {"LaunchDaemons", "LaunchAgents"} : inside(<<"Contents", "Library", d>>)
    IN ~helper /\ (inside(<<"Contents">>) \/ inside(<<"Volumes">>))

InLaunchdDir(path) == Range(path) \cap {"LaunchAgents", "LaunchDaemons"} # {}
PlistTarget(path) == Last(path) \in PlistNames \/ InLaunchdDir(path)

\* The weight of a list at a place.
JobWeight(value, file, path) ==
    LET points(job) ==
          (IF job.kept THEN 8 ELSE 0)
          + (IF UnusualLocation(Head(job.argv)) THEN 12 ELSE 0)
          + (IF InlineScript(job.argv) THEN 12 ELSE 0)
          + (IF \E n \in job.interval : n \in 1..(ShortInterval - 1) THEN 6 ELSE 0)
          + (IF file /\ Staged(path) THEN 10 ELSE 0)
    IN Max({Min({points(job), MaxJobWeight}) : job \in JobOf(value)} \cup {0})
-----------------------------------------------------------------------------
Weighed(weight) == [says |-> IF weight = 0 THEN "clean" ELSE "finding", weight |-> weight]
NotApplicable == [says |-> "not applicable", weight |-> 0]

\* Mutant: a list cut short that cannot be read is clean wherever it is.
Launchd_CutIsClean(c, cut, file, path) ==
    LET parsed == ParseLaunchd(c)
    IN IF parsed = {} \/ (~InLaunchdDir(path) /\ ~CouldBeLaunchd(c)) THEN Weighed(0)
       ELSE Weighed(JobWeight(The(parsed), file, path))

\* evaluate, of the content held; cut says that there is more of it.
Launchd(c, cut, file, path) ==
    LET parsed == ParseLaunchd(c)
    IN IF ~InLaunchdDir(path) /\ ~CouldBeLaunchd(c) /\ ~(cut /\ BlankContent(c)) THEN Weighed(0)
       ELSE IF cut /\ (~file \/ PlistTarget(path)) THEN NotApplicable
       ELSE IF parsed = {} THEN IF file /\ PlistTarget(path) THEN NotApplicable ELSE Weighed(0)
       ELSE Weighed(JobWeight(The(parsed), file, path))

\* covers_truncation.
LaunchdCovers(c) == ~CouldBePlist(c)
=============================================================================
