--------------------------- MODULE MCContentRules ---------------------------
\* An instance of ContentRules for TLC: programs of one to three slices, with
\* every kind of load command cut, doubled and malformed, files of which more
\* or less is held, and container members cut short anywhere.
EXTENDS ContentRules

Fill(n) == [i \in 1..n |-> [u |-> "fill"]]
Dense(n) == [i \in 1..n |-> [u |-> "dense"]]

MCLower(c) == CASE c = "Users" -> "users" [] c = "TMP" -> "tmp" [] c = "Shared" -> "shared"
                [] c = "System" -> "system" [] c = "Volumes" -> "volumes" [] c = "Data" -> "data"
                [] c = "Library" -> "library" [] OTHER -> c
MCNames == {"tmp", "TMP", "Users", "users", "bob", "Shared", ".x", "lib"}

Abs(parts) == [absolute |-> TRUE, parts |-> parts]
Temp == Abs(<<"tmp", "lib">>)
Paths == {Temp, Abs(<<"Users", "bob", "lib">>), Abs(<<"Users", "shared", "lib">>),
          Abs(<<"lib", "..", "Users", "bob", "lib">>), Abs(<<"Library", ".x", "lib">>),
          Abs(<<"Users", "bob", ".x", "lib">>), Abs(<<"System", "Volumes", "Data", "TMP", "lib">>),
          Abs(<<"lib", "tmp">>), Abs(<<"Users", "b b", "lib">>),
          [absolute |-> FALSE, parts |-> <<"tmp", "lib">>]}

\* Load commands, as cells.
Cmd(kind, size) == [u |-> "cmd", kind |-> kind, size |-> size]
Cells(c) == <<c>> \o Fill(Greatest(c.size, 1) - 1)
Dylib(p) == Cells(Cmd("dylib", 1) @@ [path |-> {p}])
Rpath(p) == Cells(Cmd("rpath", 1) @@ [path |-> {p}])
Sig(at, len) == Cells(Cmd("signature", 2) @@ [at |-> at, len |-> len])
Section(name, at, len) == [name |-> name, at |-> at, len |-> len, zerofill |-> FALSE]
Segment(name, prot, at, len, sections) ==
    Cells(Cmd("segment", SegHeader + Len(sections)) @@
          [name |-> name, prot |-> prot, at |-> at, len |-> len, sections |-> sections])
Bad(size) == <<Cmd("other", size)>>

\* A slice whose header declares n commands in size cells.
SliceOf(object, n, size, cmds, data) ==
    <<[u |-> "thin", object |-> object, ncmds |-> n, sizeofcmds |-> size]>> \o Fill(Header - 1)
      \o cmds \o data
Thin(cmds, data) ==
    LET all == FlattenSeq(cmds) IN SliceOf(FALSE, Len(cmds), Len(all), all, data)

\* Signatures, of three cells behind commands of 2.
Super(blobs) == <<[u |-> "super", blobs |-> blobs]>> \o Fill(3)
Blob(slot) == [slot |-> slot, inside |-> TRUE, magic |-> TRUE, adhoc |-> FALSE, cms |-> FALSE,
               payload |-> {}]
Directory(slot, adhoc) == [Blob(slot) EXCEPT !.adhoc = adhoc]
Asking(plist, keys) == [Blob("entitlements") EXCEPT !.payload = {[plist |-> plist, keys |-> keys]}]
Cms == [Blob("signature") EXCEPT !.cms = TRUE]
TwoKeys == {"library validation", "page protection"}

Signatures ==
    {Super(<<Directory("directory", FALSE), Cms, Asking(TRUE, TwoKeys)>>),
     Super(<<Directory("directory", FALSE), Asking(TRUE, {"library validation", "get task"})>>),
     Super(<<Directory("directory", FALSE), Directory("alternate", TRUE), Asking(TRUE, TwoKeys)>>),
     Super(<<Cms, Directory("directory", FALSE), Asking(TRUE, {"get task"})>>),
     Super(<<Asking(TRUE, {"dyld variables"}), Asking(TRUE, TwoKeys)>>),
     Super(<<Asking(FALSE, {})>>), Super(<<Directory("directory", TRUE)>>),
     Super(<<[Cms EXCEPT !.inside = FALSE]>>), Super(<<[Blob("entitlements") EXCEPT !.magic = FALSE]>>),
     Fill(4)}
Signed(sig) == Thin(<<Sig(Header + 2, 4)>>, sig)
AdHoc == Signed(Super(<<Directory("directory", TRUE), Asking(TRUE, TwoKeys)>>))
Identity(keys) == Signed(Super(<<Directory("directory", FALSE), Cms, Asking(TRUE, keys)>>))

Padded == Thin(<<Bad(1), Sig(Header + 3, 4)>>, Super(<<Directory("directory", FALSE), Cms, Asking(TRUE, TwoKeys)>>))

Plainest == Thin(<<Bad(1)>>, <<>>)
\* Slices for the loader rule.
Loads ==
    {Thin(<<Dylib(p)>>, <<>>) : p \in Paths} \cup {Signed(s) : s \in Signatures} \cup
    {Plainest, Thin(<<Rpath(Abs(<<"lib", "x">>)), Rpath(Temp)>>, <<>>),
     SliceOf(FALSE, 2, 2, Dylib(Temp) \o Bad(0), <<>>), SliceOf(FALSE, 9, 2, Bad(1) \o Bad(1), <<>>),
     SliceOf(FALSE, 2, 1, Bad(1) \o Dylib(Temp), <<>>), SliceOf(FALSE, 1, 2, Bad(3) \o Dylib(Temp), <<>>),
     SliceOf(FALSE, 1, 9, Dylib(Temp), <<>>),
     Thin(<<Sig(Header + 2, 9)>>, Fill(2)), Thin(<<Sig(Header + 2, 3), Dylib(Temp)>>, Fill(9)),
     Thin(<<Sig(40, 4)>>, <<>>), Thin(<<Sig(Header + 4, 4), Sig(0, 0)>>, Fill(4)),
     Thin(<<Bad(1), Sig(Header, 1)>>, Fill(1)), SliceOf(FALSE, 1, 1, <<Cmd("signature", 1) @@ [at |-> 0, len |-> 0]>>, <<>>)}

\* Fat files: the slices one behind the other, the table by their numbers; 0
\* is the fat header itself and 9 past the end.
Fat(slices, table, nfat) ==
    LET start == FatHeader + Len(table) * FatEntry
        at == [i \in 1..Len(slices) |-> start + Len(FlattenSeq(SubSeq(slices, 1, i - 1)))]
        offset(i) == IF i = 0 THEN 0 ELSE IF i = 9 THEN 60 ELSE at[i]
    IN <<[u |-> "fat", nfat |-> nfat, table |-> [i \in DOMAIN table |-> offset(table[i])]]>>
         \o Fill(start - 1) \o FlattenSeq(slices)

Bads == {Thin(<<Dylib(Temp)>>, <<>>), AdHoc, Identity(TwoKeys), Padded, Identity({"dyld variables"})}
Fats ==
    {Fat(<<Plainest, b>>, <<1, 2>>, 2) : b \in Bads} \cup
    {Fat(<<a, b>>, <<1, 2, 1>>, 3) : a, b \in Bads} \cup
    {Fat(<<b>>, t, Len(t)) : b \in {Plainest, Thin(<<Dylib(Temp)>>, <<>>)},
                             t \in {<<1, 1>>, <<0, 1>>, <<9, 1>>, <<1, 9, 9>>, <<0, 9>>, <<0>>}} \cup
    {Fat(<<Plainest, Thin(<<Bad(1), Bad(0), Dylib(Temp)>>, <<>>)>>, <<1, 2, 2>>, 3),
     Fat(<<AdHoc>>, <<1>>, 0), Fat(<<AdHoc>>, <<1>>, 5), Fat(<<AdHoc>>, <<1>>, 3)}

Others == {Fill(4), Fill(1), <<[u |-> "fat", nfat |-> 1, table |-> <<>>]>> \o Fill(1)}

\* Programs for the entropy rule: text, payloads and their decoys.
RX == {"x"}
Code(at, len) == Segment("__TEXT", RX, at, len, <<Section("__text", at, len)>>)
H(n) == Header + n
Packs ==
    {Thin(<<Code(H(3), 7)>>, d) : d \in {Dense(7), Fill(1) \o Dense(5) \o Fill(1), Dense(4) \o Fill(3),
                                         Fill(7), Dense(2) \o Fill(2) \o Dense(3)}} \cup
    {Thin(<<Segment("ODD", {}, H(2), 6, <<>>)>>, d) : d \in {Dense(6), Fill(6), Dense(4) \o Fill(2)}} \cup
    {Thin(<<Segment("__DATA", {"w", "x"}, H(2), 6, <<>>)>>, Dense(6)),
     Thin(<<Segment("__LINKEDIT", {}, H(2), 6, <<>>)>>, Dense(6)),
     SliceOf(TRUE, 1, 2, Segment("__X", {"w", "x"}, H(2), 6, <<>>), Dense(6)),
     Thin(<<Code(H(6), 1), Segment("__DATA", {}, H(6), 8, <<Section("a", H(7), 4)>>)>>, Fill(1) \o Dense(7)),
     Thin(<<Code(H(6), 1), Segment("__DATA", {}, H(6), 8, <<Section("a", H(7), 4), Section("b", H(7), 5)>>)>>,
           Fill(1) \o Dense(7)),
     Thin(<<Code(H(5), 9), Segment("ODD", {}, H(14), 6, <<>>)>>, Fill(9) \o Dense(6)),
     Thin(<<Code(H(5), 5), Segment("ODD", {}, H(10), 6, <<>>)>>, Fill(5) \o Dense(6)),
     Thin(<<Code(H(7), 4), Segment("ODD", {}, H(11), 4, <<>>), Segment("__D", {"w", "x"}, H(15), 4, <<>>)>>,
           Fill(4) \o Fill(4) \o Dense(4)),
     SliceOf(FALSE, 2, 4, Bad(1) \o Code(H(4), 5), Dense(5)),
     SliceOf(FALSE, 1, 2, Segment("__TEXT", RX, H(4), 5, <<Section("a", 0, 0), Section("__text", H(4), 5)>>), Dense(5)),
     Thin(<<Segment("__TEXT", RX, H(2), 6, <<>>)>>, Dense(6))}
PackedFats ==
    {Fat(<<a, b>>, <<1, 2>>, 2) : a \in {Thin(<<Code(H(3), 7)>>, Fill(7)), Plainest},
                                  b \in {Thin(<<Code(H(3), 7)>>, Dense(7)),
                                         Thin(<<Segment("ODD", {}, H(2), 6, <<>>)>>, Dense(6))}} \cup
    {Fat(<<Thin(<<Segment("ODD", {}, H(4), 4, <<>>), Segment("__D", {"w", "x"}, H(8), 4, <<>>)>>, Fill(8)),
           Thin(<<Segment("ODD", {}, H(2), 6, <<>>)>>, Dense(6))>>, <<1, 2>>, 2)}

Objects == Loads \cup Fats \cup Others \cup Packs \cup PackedFats

\* Property lists, as XML.
Tag(name, closing, selfClosing) ==
    [u |-> "tag", name |-> name, closing |-> closing, selfClosing |-> selfClosing, attrs |-> <<>>]
On(name) == <<Tag(name, FALSE, FALSE)>>
Off(name) == <<Tag(name, TRUE, FALSE)>>
Alone(name) == <<Tag(name, FALSE, TRUE)>>
Text(t) == <<[u |-> "text", t |-> t]>>
Element(name, t) == On(name) \o Text(t) \o Off(name)
Comment(d) == <<[u |-> "<!--"]>> \o d \o <<[u |-> "-->"]>>

RECURSIVE XmlOf(_)
XmlOf(v) ==
    CASE Is("bool", v) -> Alone(IF v.bool THEN "true" ELSE "false")
      [] Is("str", v) -> Element("string", v.str)
      [] Is("int", v) -> Element("integer", IF v.int < 0 THEN <<"-", ToString(-v.int)>>
                                                       ELSE <<Blank, ToString(v.int)>>)
      [] Is("real", v) -> Element("real", <<"+", "2", ".", "5">>)
      [] Is("date", v) -> Element("date", <<"now">>)
      [] Is("data", v) -> Alone("data")
      [] Is("array", v) -> On("array") \o FlattenSeq([i \in DOMAIN v.array |-> XmlOf(v.array[i])]) \o Off("array")
      [] Is("dict", v) -> On("dict") \o FlattenSeq([i \in DOMAIN v.dict |->
                                              Element("key", v.dict[i][1]) \o XmlOf(v.dict[i][2])]) \o Off("dict")

Declared(d) == <<[u |-> "<?"]>> \o Text(<<"xml">>) \o <<[u |-> "?>"]>> \o On("plist") \o d \o Off("plist")

Str(t) == [str |-> t]
Yes == [bool |-> TRUE]
Dict(entries) == [dict |-> entries]
Entry(key, v) == <<<<key>>, v>>
JobRunning(exe, more) == Dict(<<Entry("Label", Str(<<"job">>)), Entry("Program", Str(exe))>> \o more)
JobOfArgs(args) == Dict(<<Entry("Label", Str(<<"job">>)),
                          Entry("ProgramArguments", [array |-> [i \in DOMAIN args |-> Str(args[i])]])>>)
Usual == <<"/", "usr", "/", "lib">>
Exes == {Usual, <<"/", "tmp", "/", "x">>, <<"/", "Users", "/", "bob", "/", ".tool", "/", "x">>,
         <<"/", "Users", "/", "bob", "/", ".x", "/", "x">>, <<"/", "lib", "/", ".tool", "/", "x">>}
Jobs ==
    {JobRunning(e, <<>>) : e \in Exes} \cup
    {JobRunning(Usual, <<Entry("RunAtLoad", Yes), Entry("KeepAlive", k)>>) : k \in {Yes, Dict(<<>>), [int |-> 1]}} \cup
    {JobRunning(Usual, <<Entry("StartInterval", [int |-> n])>>) : n \in {-2, 0, 2, 5}} \cup
    {JobRunning(<<"/", "tmp", "/", "x">>, <<Entry("RunAtLoad", Yes), Entry("KeepAlive", Yes),
                                            Entry("StartInterval", [int |-> 2])>>)} \cup
    {JobOfArgs(a) : a \in {<<<<"/", "sh">>, <<"-c">>, <<"curl">>>>, <<<<"/", "env">>, <<"osascript">>, <<"-e">>, <<"curl">>>>,
                           <<<<"/", "sh">>, <<"curl">>>>, <<>>}}
Lists == Jobs \cup {Dict(<<Entry("Label", Str(<<"job">>))>>), [array |-> <<[date |-> 0], [data |-> 0], [real |-> 0]>>]}

\* Ways to write a list, each with what it means, for launchd; "one" is a
\* string under n arrays.
Nested(n, d) == FlattenSeq([i \in 1..n |-> On("array")]) \o d \o FlattenSeq([i \in 1..n |-> Off("array")])
One == Str(<<"a">>)
Written ==
    {[cells |-> Declared(XmlOf(v)), means |-> {v}] : v \in Lists} \cup
    {[cells |-> Text(<<Blank>>) \o XmlOf(v), means |-> {v}] : v \in Lists} \cup
    {[cells |-> <<[u |-> "utf16", odd |-> odd]>> \o XmlOf(v), means |-> IF odd THEN {} ELSE {v}] :
       v \in Lists, odd \in BOOLEAN} \cup
    {[cells |-> Text(<<Blank>>) \o Comment(XmlOf(One)) \o XmlOf(JobRunning(<<"/", "tmp", "/", "x">>, <<>>)),
      means |-> {JobRunning(<<"/", "tmp", "/", "x">>, <<>>)}],
     [cells |-> XmlOf(One) \o Off("dict"), means |-> {One}],
     [cells |-> Nested(3, XmlOf(One)), means |-> {[array |-> <<[array |-> <<[array |-> <<One>>]>>]>>]}],
     [cells |-> Nested(4, XmlOf(One)), means |-> {}],
     [cells |-> On("array") \o FlattenSeq([i \in 1..MaxNodes |-> XmlOf(One)]) \o Off("array"), means |-> {}],
     [cells |-> Element("string", <<"&evil">>), means |-> {Str(<<"evil">>)}],
     [cells |-> On("true") \o Off("true"), means |-> {Yes}],
     [cells |-> Nested(1, On("true") \o Off("true")), means |-> {}],
     [cells |-> On("dict") \o Element("key", <<"Label">>) \o Off("dict"), means |-> {}],
     [cells |-> On("dict") \o XmlOf(One) \o Off("dict"), means |-> {}],
     [cells |-> On("array") \o XmlOf(One), means |-> {}],
     [cells |-> Element("integer", <<"x">>), means |-> {}],
     [cells |-> Element("integer", <<"+", "-", "2">>), means |-> {}],
     [cells |-> Element("real", <<"2", ".", ".">>), means |-> {}],
     [cells |-> Text(<<"a">>) \o XmlOf(One), means |-> {}],
     [cells |-> <<[u |-> "bplist01"], [u |-> "bytes"]>>, means |-> {}],
     [cells |-> Text(<<Blank, Blank>>), means |-> {}]}

\* Lists in binary: every one of three objects, and those a job takes.
Object(kind, value, bytes, keys, refs) ==
    [kind |-> kind, value |-> value, bytes |-> bytes, keys |-> keys, refs |-> refs, inside |-> TRUE]
LeafOb(v, bytes) == Object("leaf", {v}, bytes, <<>>, <<>>)
ArrayOb(refs) == Object("array", {}, 0, <<>>, refs)
DictOb(keys, refs) == Object("dict", {}, 0, keys, refs)
Small == {LeafOb(One, 1), LeafOb([data |-> 0], 5), Object("leaf", {}, 0, <<>>, <<>>), LeafOb(Yes, 0)}
         \cup {ArrayOb(r) : r \in {<<>>, <<1>>, <<2>>, <<3>>, <<2, 2>>, <<2, 3>>, <<3, 3>>}}
         \cup {DictOb(<<3>>, <<i>>) : i \in 1..3}
Binary(objects, at, top) ==
    LET d == [u |-> "bplist00", size |-> 3, sizes |-> TRUE, objects |-> objects, offsets |-> at, top |-> top]
    IN [cells |-> <<d, [u |-> "bytes"], [u |-> "bytes"]>>,
        means |-> IF top \in DOMAIN at /\ Range(at) \subseteq DOMAIN objects
                  THEN Meaning(d) ELSE {}]
BinaryJob(exe) ==
    <<DictOb(<<2, 4>>, <<3, 5>>), LeafOb(Str(<<"Label">>), 1), LeafOb(Str(<<"job">>), 1),
      LeafOb(Str(<<"Program">>), 1), LeafOb(Str(exe), Len(exe))>>
Numbers(n) == [i \in 1..n |-> i]
Graphs == {Binary(<<a, b, c>>, Numbers(3), 1) : a, b, c \in Small}
Tables ==
    {Binary(BinaryJob(e), Numbers(5), 1) : e \in Exes} \cup
    {Binary(<<ArrayOb(<<2, 2>>), ArrayOb(<<3, 3>>), ArrayOb(<<4, 4>>), LeafOb(Yes, 0)>>, Numbers(4), 1),
     Binary(<<ArrayOb(<<2>>), ArrayOb(<<3>>), ArrayOb(<<4>>), ArrayOb(<<5>>), LeafOb(Yes, 0)>>, Numbers(5), 1),
     Binary(<<ArrayOb(<<2, 2, 2>>), LeafOb(One, 6)>>, Numbers(2), 1),
     Binary(<<ArrayOb(<<2>>)>>, <<1, 1>>, 1), Binary(<<ArrayOb(<<2, 3>>), LeafOb(One, 1)>>, <<1, 2, 2>>, 1),
     Binary(<<LeafOb(One, 1)>>, <<1>>, 2), Binary(<<LeafOb(One, 1)>>, <<2>>, 1),
     Binary(<<[DictOb(<<2>>, <<2>>) EXCEPT !.inside = FALSE], LeafOb(One, 1)>>, <<1, 2>>, 1)}

Expected == <<"LaunchAgents", "job">>
Elsewhere == <<"x", "job">>
Places == {Expected, Elsewhere, <<"x", "job.plist">>, <<"A.app", "Contents", "job.plist">>,
           <<"Contents", "Library", "LaunchAgents", "job.plist">>, <<"Volumes", "v", "job">>}

ListAt(l, p, h) ==
    [cells |-> l.cells, len |-> Len(l.cells), held |-> h, file |-> TRUE, path |-> p, means |-> l.means]
ListSources ==
    {ListAt(l, Expected, Len(l.cells)) : l \in Graphs} \cup
    {ListAt(l, p, Len(l.cells)) : l \in Written \cup Tables, p \in Places} \cup
    UNION {{ListAt(l, p, h) : h \in 1..Len(l.cells)} : l \in Written \cup Tables, p \in {Expected, Elsewhere, <<"x", "job.plist">>}}

\* Files of which any part is held, and members cut anywhere; what is cut is
\* long enough for a magic number.
ProgramSources ==
    UNION {{[cells |-> c, len |-> Len(c), held |-> h, file |-> TRUE, path |-> <<"x", "lib">>, means |-> {}] :
              h \in {x \in {Magic, FatHeader, 5, 8, 12, 16, Len(c) - 3, Len(c)} : x \in Magic..Len(c)}} \cup
           {[cells |-> c, len |-> n, held |-> n, file |-> FALSE, path |-> <<"x", "lib">>, means |-> {}] :
              n \in Least(Magic, Len(c))..Len(c)} :
             c \in Objects}

\* Command lines, most of them of rules/strings.rs's tests: with separators in
\* quotes, words of paths and assignments, pipes into almost a shell, groups.
Sp == <<" ">>
Words(ws) == Tail(FlattenSeq([i \in DOMAIN ws |-> Sp \o ws[i]]))
W(w) == <<w>>
Quoted(t) == <<"double">> \o t \o <<"double">>
PipeTo(t) == <<" ", "|", " ">> \o t
Fetch == <<"curl", " ", "u">>
Commands ==
    {Fetch \o PipeTo(t) : t \in {W("sh"), <<"sh", "asum">>, Words(<<W("sudo"), W("-u"), W("r"), W("sh")>>), <<"/", "bash">>,
                                  <<"/", "sh", "/">>, Words(<<W("env"), <<"A", "=", "b">>, W("sh")>>), Quoted(W("sh"))}} \cup
    {b \o Fetch \o PipeTo(W("sh")) : b \in {<<"A", "=", "b", " ">>, <<"0", "=", "b", " ">>, <<"A", "=", "b", " ", "A", "=", "b", " ">>,
                                           <<"~", "/", "b", "/">>, W("back"), <<"echo", " ">>, <<"x", ";">>, <<"back", ";">>, <<"{", " ">>}} \cup
    {Quoted(Fetch) \o W(";") \o PipeTo(W("sh")), Fetch \o W(";") \o PipeTo(W("sh")), <<"(">> \o Fetch \o <<";", ")">> \o PipeTo(W("sh")),
     Quoted(Fetch \o <<";">>) \o PipeTo(W("sh")), Fetch \o <<" ", "|", "|", " ", "sh">>, <<"(", "curl", "|", "sh", ")">>,
     <<"curl", " ", "back", "nl", "|", " ", "sh">>, <<"curl", " ", "back", "cr", "nl", "|", " ", "sh">>, Fetch \o <<"nl", "|", " ", "sh">>,
     <<"sh", " ", "<", "(", "curl">>, <<"sh", " ", "-c", " ", "$", "(", "wget">>,
     <<"base64", " ", "-d", "|", "sh">>, <<"base64", "|", "sh">>, <<"openssl", " ", "enc", " ", "-d", "|", "sh">>, <<"openssl", " ", "-d", "|", "sh">>,
     <<"xxd", " ", "-r", " ", "|", "&", "sh">>, <<"do", " ", "shell", " ", "script", " ", "double", "curl">>,
     <<"osascript", " ", "do", " ", "shell", " ", "script", " ", "curl">>, <<"do", " ", "shell", " ", "x", " ", "double", "curl">>,
     <<"curl", " ", "-d", " ", "@", "x">>, <<"curl", " ", "-d", " ", "x">>, <<"curl", " ", "-F", " ", "f", "=", "@">>,
     <<"curl", " ", "-F", " ", "f", "=", "x">>, <<"curl", " ", "-F", " ", "f", "f", "=", "@">>, <<"curl", " ", "x", " ", "-T", " ", "x">>,
     <<"curl", " ", "--upload-file">>, Fetch \o <<" ", "x", " ", "x">> \o PipeTo(W("sh")),
     <<"curl", " ", "x", " ", "x", " ", "x", "-F", " ", " ", "x">>, <<"curl", " ", "x", " ", "x", " ", "-F", " ", " ", "x">>,
     <<"|", " ", "sh">>, <<"|", " ", "bash", "x">>, <<"TCC", ".db">>, <<"dlopen", "x", "osascript">>, <<"NSAppleScript", "nul", "SecKeychain">>}

Run(c, n) == [i \in 1..n |-> c]
Indents(n) == {Run("nl", n), Run("x", n)}
Starts == {<<>>, W("other"), W("#!"), <<"#!", "nl">>, <<"nl", "nl", "nl">>}
Letters(t) == [i \in DOMAIN t |-> [u |-> "ch", c |-> t[i]]]
ScriptOf(t, h, file, path) ==
    [cells |-> Letters(t), len |-> IF file THEN Len(t) ELSE h, held |-> h, file |-> file, path |-> path, means |-> {}]

\* Each at any place in the chunks of a stream, held, streamed, too long, cut.
Offsets == 0..(TextChunk + 4)
After == {<<>>, <<"nl", "x">>}
StringSources ==
    UNION {UNION {{ScriptOf(b \o c \o a, h, TRUE, <<"x", "lib">>) : h \in {2, Len(b \o c \o a)}} :
                    b \in Starts, a \in After} : c \in Commands} \cup
    UNION {{ScriptOf(b \o c \o <<"nl">>, 2, TRUE, p) : b \in UNION {Indents(n) : n \in Offsets}, p \in {<<"x", "run.sh">>}} : c \in Commands} \cup
    UNION {{ScriptOf(c, h, FALSE, <<"x", "run.sh">>) : h \in 2..Len(c)} : c \in Commands}

MCSources == ProgramSources \cup ListSources \cup StringSources

MCEntity == [e \in {"&evil"} |-> "evil"]
=============================================================================
