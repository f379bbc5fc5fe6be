---------------------------- MODULE MCContainers ----------------------------
\* An instance of Containers for TLC: zips of up to two members whose local
\* headers, directory entries and data agree or differ in every way the
\* reader tells apart, and files that are not zips.
EXTENDS Containers

Text == [u |-> "text", run |-> 1, crc |-> 1, is |-> "plain"]
Bad == [u |-> "text", run |-> 1, crc |-> 1, is |-> "bad"]
Odd == [u |-> "text", run |-> 1, crc |-> 1, is |-> "odd"]
Pair == <<[u |-> "text", run |-> 2, crc |-> 2, is |-> "macho"], [u |-> "text"]>>
Deflated(out) == [u |-> "deflate", used |-> 2, out |-> out, work |-> 1]
Bzipped(out) == [u |-> "bzip2", used |-> 1, out |-> out, block |-> 2]
More == [u |-> "more"]

Local(name, method, size, crc) ==
    [u |-> "local", name |-> name, method |-> method, enc |-> FALSE,
     stream |-> FALSE, csize |-> size, usize |-> size, crc |-> crc, extra |-> <<>>]
Central(l, header) ==
    [u |-> "central", name |-> l.name, method |-> l.method, enc |-> l.enc,
     stream |-> l.stream, csize |-> l.csize, usize |-> l.usize, crc |-> l.crc,
     header |-> header, extra |-> l.extra]
End(n, start) == [u |-> "end", entries |-> n, size |-> n, start |-> start, comment |-> 0]

\* One member (header and data), and where its data would end.
Members ==
    {<<Local("a", STORED, 1, 1), Text>>,
     <<Local("a", STORED, 1, 1), Bad>>,
     <<Local("a", STORED, 2, 2)>> \o Pair,
     <<[Local("a", DEFLATE, 2, 2) EXCEPT !.usize = 2], Deflated(Pair), More>>,
     <<[Local("a", BZIP2, 1, 2) EXCEPT !.usize = 2], Bzipped(Pair)>>,
     <<[Local("a", DEFLATE, 0, 0) EXCEPT !.stream = TRUE], Deflated(Pair), More,
       [u |-> "descriptor"], [u |-> "fields", crc |-> 2, size |-> 2, wide |-> FALSE]>>,
     <<[Local("a", STORED, 0, 0) EXCEPT !.stream = TRUE], Text,
       [u |-> "descriptor"], [u |-> "fields", crc |-> 1, size |-> 1, wide |-> FALSE]>>,
     <<[Local("a", STORED, Wide, 1) EXCEPT !.extra = <<1, 1>>], Text>>,
     <<[Local("a", STORED, 1, 1) EXCEPT !.enc = TRUE], Text>>,
     <<[Local("a", STORED, 1, Junk) EXCEPT !.usize = 2]>> \o Pair,
     <<Local("a", AES, 1, 1), Text>>}

\* What the directory may say of a member's header instead of repeating it.
Lies(l) ==
    {l, [l EXCEPT !.csize = 1, !.usize = 1, !.crc = 1], [l EXCEPT !.method = DEFLATE],
     [l EXCEPT !.csize = 2, !.usize = 2, !.crc = 2], [l EXCEPT !.name = "z"],
     [l EXCEPT !.usize = 2]}

Second == <<Local("b", STORED, 1, 1), Odd>>

Archive(first, entry, shift, listed) ==
    LET second == Len(first) + 1
        body == first \o Second
        dir == (IF "a" \in listed THEN <<Central(entry, 1)>> ELSE <<>>) \o
               (IF "b" \in listed THEN <<Central(Second[1], second)>> ELSE <<>>)
    IN [i \in 1..shift |-> [u |-> "junk"]] \o body \o dir \o
       <<End(Len(dir), Len(body) + 1)>>

Plain ==
    UNION {{Archive(m, e, 0, {"a", "b"}) : e \in Lies(m[1])} : m \in Members} \cup
    {Archive(m, m[1], 1, {"a", "b"}) : m \in Members} \cup
    {Archive(m, m[1], 0, {"b"}) : m \in Members}

Inner == Archive(<<Local("c", STORED, 1, 1), Text>>,
                 [Local("c", STORED, 1, 1) EXCEPT !.csize = 1], 0, {"a", "b"})
Holding(z) == <<[Local("a", DEFLATE, 2, Junk) EXCEPT !.usize = Len(z)], Deflated(z), More>>
Nested ==
    {Archive(Holding(z), Holding(z)[1], 0, {"a", "b"}) :
        z \in {Inner, <<[u |-> "junk"]>> \o Inner}} \cup
    {LET m == [i \in 1..3 |-> Holding(Inner)[i]]
         n == [m EXCEPT ![1].name = "n"]
     IN m \o n \o <<Central(m[1], 1), Central(n[1], 4), End(2, 7)>>}

\* An end record past the data, no directory, a Zip64 record, one header
\* named twice, and one header inside another member's data.
Special ==
    LET m == <<Local("a", STORED, 1, 1), Text>>
        inside == <<Local("a", STORED, 3, Junk)>> \o Second \o <<Text>>
    IN {m, m \o <<End(1, 9)>>, m \o <<End(0, 1)>>, <<End(0, 1)>>,
        m \o <<Central(m[1], 1), [u |-> "end64", entries |-> 1, size |-> 1, start |-> 3],
               [u |-> "locator", at |-> 4], [End(9, 9) EXCEPT !.size = 9]>>,
        m \o <<Central(m[1], 1), Central([m[1] EXCEPT !.name = "y"], 1), End(2, 3)>>,
        m \o <<Central(m[1], 1), [End(1, 3) EXCEPT !.comment = 1], More>>,
        m \o <<Central(m[1], 1), End(2, 3)>>,
        inside \o <<Central(inside[1], 1), Central(Second[1], 2), End(2, 5)>>}

\* Two streams before a member the directory does not list: the first listed
\* or not, the second listed at its size or at one that reaches further.
Streamed(name) ==
    <<[Local(name, DEFLATE, 0, 0) EXCEPT !.stream = TRUE], Deflated(Pair), More,
      [u |-> "descriptor"], [u |-> "fields", crc |-> 2, size |-> 2, wide |-> FALSE]>>
At(m, n) == [m[1] EXCEPT !.csize = n, !.usize = 2, !.crc = 2]
TwoStreams ==
    LET a == Streamed("a")
        b == Streamed("b")
    IN {a \o b \o Second \o dir \o <<End(Len(dir), 13)>> :
          dir \in {<<Central(At(b, n), 6)>> : n \in {2, 6}} \cup
                 {<<Central(At(a, 2), 1), Central(At(b, n), 6)>> : n \in {2, 6}}}

MCZips == Plain \cup Nested \cup Special \cup TwoStreams

MCLimits ==
    {[entries |-> 9, depth |-> 2, member |-> 9, readBack |-> 60, ratio |-> 9],
     [entries |-> 9, depth |-> 2, member |-> 9, readBack |-> 12, ratio |-> 9],
     [entries |-> 9, depth |-> 1, member |-> 1, readBack |-> 60, ratio |-> 1],
     [entries |-> 9, depth |-> 2, member |-> 9, readBack |-> 36, ratio |-> 9],
     [entries |-> 9, depth |-> 2, member |-> 9, readBack |-> 24, ratio |-> 9],
     [entries |-> 9, depth |-> 2, member |-> 9, readBack |-> 18, ratio |-> 9],
     [entries |-> 9, depth |-> 2, member |-> 9, readBack |-> 6, ratio |-> 9],
     [entries |-> 2, depth |-> 2, member |-> 9, readBack |-> 24, ratio |-> 1]}

Whole(data) ==
    [data |-> data, sized |-> TRUE, content |-> TRUE, truncated |-> FALSE, unread |-> "none",
     source |-> "File", real |-> <<"Downloads", "a.zip">>, probes |-> <<"other", "other">>]
OneZip == Archive(<<Local("a", STORED, 1, 1), Text>>, Local("a", STORED, 1, 1), 0, {"a", "b"})
MCFiles ==
    {Whole(z) : z \in MCZips} \cup
    {[Whole(OneZip) EXCEPT !.real = <<"X.app", "Contents", "a.zip">>],
     [Whole(OneZip) EXCEPT !.real = <<"X.app", "Contents", "a.zip">>, !.source = "Embedded"],
     [Whole(OneZip) EXCEPT !.truncated = TRUE],
     [Whole(OneZip) EXCEPT !.truncated = TRUE, !.source = "Embedded"],
     [Whole(OneZip) EXCEPT !.content = FALSE],
     [Whole(OneZip) EXCEPT !.sized = FALSE],
     [Whole(<<Text>>) EXCEPT !.probes = <<"other", "image">>],
     [Whole(<<Text>>) EXCEPT !.probes = <<"unread", "image">>]} \cup
    {[Whole(<<Text>> \o OneZip) EXCEPT !.unread = u] : u \in {"head", "end", "tail"}}

\* Everything those files hold, and what the streams in them hold in turn.
Held(S) == S \cup UNION {Range(c.out) : c \in {x \in S : x.u \in {"deflate", "bzip2"}}}
MCUnits == Held(Held(UNION {Range(f.data) : f \in MCFiles}))

Kind(finds) == [finds |-> finds, unsigned |-> 0, unverified |-> FALSE, whole |-> TRUE,
                container |-> FALSE]
MCKinds ==
    [k \in {"plain", "bad", "odd", "macho"} |->
        CASE k = "plain" -> Kind({})
          [] k = "bad"   -> Kind({<<"entropy", 10>>, <<"strings", 15>>})
          [] k = "odd"   -> Kind({<<"entropy", 5>>})
          [] k = "macho" -> [Kind({}) EXCEPT !.unsigned = 5]]
=============================================================================
