------------------------------ MODULE MCPackage ------------------------------
\* An instance of Package for TLC: packages with Scripts archives wrapped,
\* nested, cut and padded in every way the reader tells apart, and with
\* Distribution documents whose choices, ids and references agree or do not.
EXTENDS Package

\* Cells of what is packed.
Cell(u) == [u |-> u, kind |-> "other", flag |-> FALSE]
Text(t) == [u |-> "text", kind |-> "other", flag |-> Occurs(<<"evil">>, t), t |-> t]
Plain == Text(<<"plain">>)
Evil == Text(<<"evil">>)
ZipOf(cost, flag) == [u |-> "zip", kind |-> "other", flag |-> flag, cost |-> cost]
Cells(n) == [i \in 1..n |-> Cell("fill")]

Member(kind, name, mode, body) ==
    LET head == IF kind = "odc" THEN OdcHeader ELSE NewcHeader
        pad(n) == IF kind = "odc" THEN 0 ELSE AlignUp(n, Alignment) - n
        h == [u |-> "cpio", kind |-> kind, flag |-> FALSE, numbers |-> TRUE, nameSize |-> Len(name),
              fileSize |-> Len(body), name |-> name, mode |-> mode]
    IN <<h>> \o Cells(head + Len(name) - 1) \o Cells(pad(head + Len(name))) \o body \o Cells(pad(Len(body)))
End(kind) == Member(kind, <<"TRAILER">>, "none", <<>>)

Pre(body) == Member("odc", <<"preinstall">>, "file", body)
Helper(body) == Member("odc", <<"helper">>, "file", body)

\* A newc member behind an odc one: padded to even offsets of the whole.
Mixed == LET m == Member("newc", <<"b">>, "file", <<Evil>>)
         IN Pre(<<Plain, Plain>>) \o SubSeq(m, 1, 4) \o Cells(1) \o SubSeq(m, 5, 5) \o Cells(1)

Archives ==
    {Pre(<<Plain>>) \o End("odc"), Pre(<<Evil>>) \o End("odc"),
     Member("newc", <<"./", "POSTINSTALL">>, "file", <<Plain, Evil>>) \o End("newc"),
     Member("newc", <<"a">>, "file", <<Plain>>) \o Pre(<<Evil>>) \o End("odc"),
     Member("newc", <<"a">>, "file", <<Plain, Plain>>) \o
       Member("newc", <<"b">>, "none", <<Evil>>) \o End("newc"),
     Helper(<<Evil, Plain, Plain, Plain>>) \o
       Member("odc", <<"preinstall">>, "link", <<>>) \o End("odc"),
     Member("odc", <<"d">>, "dir", <<>>) \o
       Member("odc", <<"preinstall", "NUL", "x">>, "dir", <<Evil>>) \o End("odc"),
     Pre(<<Plain>>), Pre(<<Evil>>) \o <<Evil>>, SubSeq(Pre(<<Plain, Evil>>), 1, OdcHeader + 2),
     [Pre(<<Plain>>) EXCEPT ![1].numbers = FALSE] \o End("odc"),
     Pre(<<ZipOf(2, FALSE)>>) \o Helper(<<ZipOf(2, TRUE)>>) \o End("odc"),
     Pre(<<Plain, ZipOf(1, FALSE), Evil>>) \o End("odc"), Pre(<<Cell("image")>>) \o End("odc"),
     Mixed \o End("odc"), FlattenSeq([i \in 1..6 |-> Helper(<<Plain>>)]) \o End("odc"),
     <<Plain, Evil, Plain>>, <<Plain>>, <<>>}

\* Wrappers; "used" cells of input hold the whole.
Wrap(u, out) == <<[u |-> u, kind |-> "other", flag |-> FALSE, used |-> 2, out |-> out,
                   work |-> 1, block |-> 3], Cell("more")>>
Gzip(out) == Wrap("gzip", out)
Small == Pre(<<Plain>>) \o End("odc")
Wrapped ==
    {Gzip(a) : a \in Archives} \cup {Wrap("zlib", Gzip(a)) : a \in Archives} \cup
    {Wrap("bzip2", a) : a \in Archives} \cup
    {Gzip(Small) \o <<Cell("trail")>> \o Gzip(Pre(<<Evil>>) \o End("odc")),
     Wrap("zlib", Gzip(Small) \o <<Cell("trail")>> \o Gzip(Small)),
     Wrap("zlib", <<Gzip(Small)[1]>>), Wrap("zlib", Small), SubSeq(Gzip(Small), 1, 1), Small,
     Gzip(Small) \o [i \in 1..9 |-> Evil],
     <<[Gzip(Small)[1] EXCEPT !.used = 30]>> \o [i \in 1..29 |-> Cell("more")], <<Cell("xz")>>}
-----------------------------------------------------------------------------
\* The table of contents.

T(name) == [u |-> "tag", attrs |-> <<>>, name |-> name, closing |-> FALSE, selfClosing |-> FALSE,
            kind |-> "other", flag |-> FALSE]
A(name, key, value) ==
    [T(name) EXCEPT !.attrs = <<[form |-> "value", name |-> key, value |-> value]>>]
Leaf(tag) == [tag EXCEPT !.selfClosing = TRUE]
E(name) == [T(name) EXCEPT !.closing = TRUE]
X(t) == Text(t)
In(name, units) == <<T(name)>> \o units \o <<E(name)>>
Digits(n) == IF n < 10 THEN <<ToString(n)>> ELSE <<ToString(n \div 10), ToString(n % 10)>>

File(name, off, len) ==
    In("file", In("name", <<X(<<name>>)>>) \o
       In("data", In("offset", <<X(Digits(off))>>) \o In("length", <<X(Digits(len))>>)))
Dir(name, inner) ==
    In("file", In("type", <<X(<<"directory">>)>>) \o inner \o In("name", <<X(<<name>>)>>))

Header(packed, unpacked) ==
    [u |-> "xar", short |-> FALSE, size |-> 1, version |-> Version, packed |-> packed,
     unpacked |-> unpacked]
Xar1(toc, heap) ==
    <<Header(1, Len(toc)), [u |-> "zlib", used |-> 1, out |-> toc, work |-> 0]>> \o heap

Item(dir, name, blob) == [dir |-> dir, name |-> name, blob |-> blob, like |-> 0]
Like(dir, name, j) == [dir |-> dir, name |-> name, blob |-> <<>>, like |-> j]

Package(items, more) ==
    LET At[i \in 1..(Len(items) + 1)] == IF i = 1 THEN 0 ELSE At[i-1] + Len(items[i-1].blob)
        toc(i) == LET j == IF items[i].like = 0 THEN i ELSE items[i].like
                      f == File(items[i].name, At[j], Len(items[j].blob))
                  IN IF items[i].dir = "" THEN f ELSE Dir(items[i].dir, f)
    IN Xar1(In("xar", In("toc", more \o FlattenSeq([i \in DOMAIN items |-> toc(i)]))),
            FlattenSeq([i \in DOMAIN items |-> items[i].blob]))

Signature(off, size) ==
    In("signature", In("offset", <<X(Digits(off))>>) \o In("size", <<X(Digits(size))>>))
-----------------------------------------------------------------------------
\* Distributions.

Ref(id, path) == <<A("pkg-ref", "id", id), X(<<"#">> \o path), E("pkg-ref")>>
Choice(id, refs) == <<A("choice", "id", id)>> \o
                    [i \in DOMAIN refs |-> Leaf(A("pkg-ref", "id", refs[i]))] \o <<E("choice")>>
Outline(ids) == In("choices-outline", [i \in DOMAIN ids |-> Leaf(A("line", "choice", ids[i]))])
Doc(units) == In("installer", units)
Both == Ref(<<"r">>, <<"a">>) \o Ref(<<"s">>, <<"b">>)
Twice == [Leaf(A("pkg-ref", "id", <<"s">>)) EXCEPT !.attrs =
            <<[form |-> "value", name |-> "id", value |-> <<"s">>],
              [form |-> "value", name |-> "id", value |-> <<"r">>]>>]
Js(t) == In("script", <<X(t)>>)

Documents ==
    {Doc(Both), Doc(Ref(<<"r">>, <<"a">>)), Doc(<<>>),
     Doc(Outline(<<<<"c">>>>) \o Choice(<<"c">>, <<<<"r">>>>) \o Both),
     Doc(Outline(<<<<"c">>>>) \o Choice(<<"c">>, <<<<"r">>>>) \o Choice(<<"d">>, <<<<"s">>>>) \o Both),
     Doc(Outline(<<<<"c">>>>) \o <<A("choice", "id", <<"c">>), Twice, E("choice")>> \o Both),
     Doc(Outline(<<<<"c">>>>) \o <<A("choice", "ID", <<"c">>), Leaf(A("pkg-ref", "id", <<"r">>)),
                                   E("choice")>> \o Both),
     Doc(Outline(<<<<"C">>>>) \o Choice(<<"c">>, <<<<"s">>>>) \o Both),
     Doc(Outline(<<<<"c">>>>) \o Choice(<<"c">>, <<<<"r">>>>) \o
         <<[u |-> "<!--"]>> \o Choice(<<"c">>, <<<<"s">>>>) \o <<[u |-> "-->"]>> \o Both),
     Doc(In("options", Outline(<<<<"c">>>>)) \o Choice(<<"c">>, <<<<"r">>>>) \o Both),
     Doc(Ref(<<"r">>, <<"a">>) \o <<A("pkg-ref", "id", <<"s">>), X(<<"#", "b">>), T("x"), E("x"),
                                    E("pkg-ref")>>),
     Doc(Ref(<<"r">>, <<"a">>) \o <<A("pkg-ref", "id", <<"s">>), [u |-> "<![CDATA["],
                                    X(<<"#", "b">>), [u |-> "]]>"], E("pkg-ref")>>),
     Doc(Ref(<<"r">>, <<"a">>) \o Ref(<<"s">>, <<"..", "/", "b">>)),
     Doc(Ref(<<"r">>, <<"a">>) \o Ref(<<"r">>, <<"%62">>)),
     <<[u |-> "<!", entity |-> TRUE], X(<<"evil">>), [u |-> ">"]>> \o Doc(Both),
     Doc(Js(<<"evil">>)), Doc(Js(<<"&evil">>) \o Both),
     Doc(Js(<<"system", ".", "run", "(", "'", "bin", "/", "sh", "'">>) \o Both),
     Doc(<<Leaf(A("x", "y", <<"&evil">>))>> \o Both),
     Doc(<<T("script"), [u |-> "<![CDATA["], X(<<"evil">>), [u |-> "]]>"], E("script")>>),
     Doc(<<T("script"), X(<<"evil">>)>>), Doc(<<X(<<"NUL">>)>>),
     Doc(<<T("script"), [u |-> "<!--"], X(<<"evil">>), [u |-> "-->"], E("script")>>)}
-----------------------------------------------------------------------------
\* The packages.

Loud == Gzip(Pre(<<Evil>>) \o End("odc"))
Quiet == Gzip(Small)
Padding(n) == [i \in 1..n |-> Item("p", "Scripts", Gzip(Helper([k \in 1..9 |-> Plain]) \o End("odc")))]

MCPackages ==
    LET Whole(d) == [data |-> d, content |-> TRUE, sourceLen |-> Len(d), authoritative |-> TRUE]
        top(blob) == Package(<<Item("", "Scripts", blob)>>, <<>>)
        both(d) == Package(<<Item("", "Distribution", d), Item("a", "Scripts", Quiet),
                             Item("b", "Scripts", Loud)>>, <<>>)
        one == top(Quiet)
    IN {Whole(top(b)) : b \in Wrapped} \cup {Whole(both(d)) : d \in Documents} \cup
       {Whole(Package(Padding(n) \o <<Item("", "Scripts", b)>>, <<>>)) : n \in 1..2, b \in {Quiet, Loud}} \cup
       {Whole(Package(<<Item("", "Distribution", Doc(Both))>> \o Padding(1) \o
                      <<Item("a", "Scripts", Quiet), Item("b", "Scripts", b)>>, <<>>)) :
          b \in {Quiet, Loud, <<Cell("xz")>>}} \cup
       {Whole(Package(<<Item("", "Scripts", Loud), Like("q", "Scripts", 1)>>, <<>>)),
        Whole(Package(<<Item("", "Distribution", Small), Like("", "Scripts", 1)>>, <<>>)),
        Whole(Package(<<Item("", "Distribution", Doc(Both)), Item("a", "Scripts", Quiet),
                        Item("a", "Scripts", Loud)>>, <<>>)),
        Whole(Package(<<>>, <<>>)), Whole(Package(<<>>, Signature(0, 1))),
        [Whole(Package(<<>>, Signature(0, 9))) EXCEPT !.authoritative = FALSE],
        [Whole(one) EXCEPT !.content = FALSE], Whole(<<Plain>>), Whole(SubSeq(one, 1, 3)),
        Whole([one EXCEPT ![1].short = TRUE]), Whole([one EXCEPT ![1].size = 9]),
        Whole([one EXCEPT ![1].version = 2]), Whole([one EXCEPT ![1].packed = 99]),
        Whole([one EXCEPT ![1].unpacked = 2]), Whole([one EXCEPT ![2].u = "gzip"])} \cup
       \* a Scripts document that is also a Distribution's range
       {Whole(Package(<<Item("", "Distribution", Doc(Js(<<"fine">>))), Like("a", "Scripts", 1)>>, <<>>)),
        Whole(Package(<<Item("b", "Distribution", Loud), Like("a", "Scripts", 1)>>, <<>>)),
        Whole(Package(<<Item("a", "Scripts", Wrap("zlib", Doc(Js(<<"evil">>)))),
                        Like("b", "Distribution", 1)>>, <<>>))}

MCLimits ==
    LET l == [depth |-> 3, entries |-> 9, toc |-> 99, entry |-> 30, readBack |-> 160,
              members |-> 4, zips |-> 3]
    IN {l, [l EXCEPT !.readBack = 90], [l EXCEPT !.readBack = 40], [l EXCEPT !.entry = 2],
        [l EXCEPT !.members = 1], [l EXCEPT !.entry = 1, !.members = 9],
         [l EXCEPT !.readBack = 10], [l EXCEPT !.entry = 0]}

MCMarker == <<"evil">>
MCEntity == [e \in {"&evil"} |-> "evil"]
MCFolded == [e \in {"ID", "C", "POSTINSTALL"} |->
               CASE e = "ID" -> "id" [] e = "C" -> "c" [] OTHER -> "postinstall"]
MCPercentCode == [e \in {"%62"} |-> "b"]
=============================================================================
