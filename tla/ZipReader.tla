----------------------------- MODULE ZipReader -----------------------------
(***************************************************************************)
(* nav-core's zip.rs: the reading of a ZIP archive and of the zips inside  *)
(* it.  The reader collects the members of two views of the same bytes,    *)
(* the central directory's and the one a streaming tool has, and decodes   *)
(* each distinct interpretation once, cheapest first, under shares of one  *)
(* allowance.  Data is a sequence of units: one unit is a header, a        *)
(* directory record, a stream's first cell or any other cell; offsets and  *)
(* sizes count units.  A frame of "stack" is one call of Reader::archive.  *)
(***************************************************************************)
EXTENDS FiniteSets, Streams

CONSTANTS Units,         \* the units that data may hold
          Limits,        \* the limits a read may be under
          EntryCost,     \* charged for every member started
          SearchLen      \* how far back an end record is looked for

ASSUME ZipAssumption ==
    /\ EntryCost \in Nat \ {0} /\ SearchLen \in Nat \ {0}
    /\ \A l \in Limits : l \in [entries : Nat, depth : Nat, member : Nat,
                                readBack : Nat, ratio : Nat]

\* A header or a record has the fields its format gives it, and a stream's
\* first cell says what the stream holds and how many cells it takes.
Locals == [u : {"local"}, name : STRING, method : Nat, enc : BOOLEAN, stream : BOOLEAN,
           csize : Nat, usize : Nat, crc : Int, extra : Seq(Nat)]
Centrals == [u : {"central"}, name : STRING, method : Nat, enc : BOOLEAN, stream : BOOLEAN,
             csize : Nat, usize : Nat, crc : Int, extra : Seq(Nat), header : Nat]

ASSUME UnitsAssumption ==
    \A c \in Units :
       /\ c.u = "local" => c \in Locals
       /\ c.u = "central" => c \in Centrals
       /\ c.u \in {"end", "end64"} => c.entries \in Nat /\ c.size \in Nat /\ c.start \in Nat
       /\ c.u = "end" => c.comment \in Nat
       /\ c.u = "locator" => c.at \in Nat
       /\ c.u = "fields" => c.size \in Nat /\ c.crc \in Int /\ c.wide \in BOOLEAN
       /\ c.u \in {"deflate", "bzip2"} => c.used \in Nat /\ c.out \in Seq(Units)
       /\ c.u = "deflate" => c.work \in Nat
       /\ c.u = "bzip2" => c.block \in Nat

VARIABLES limits, stack, entries, gaps, visits,
          opened,        \* ghost: what was read as an archive
          work           \* ghost: units read, written and searched

readVars == <<limits, stack, entries, gaps, visits, opened, work>>

STORED == 0
DEFLATE == 8
BZIP2 == 12
AES == 99
Decodable(method) == method \in {STORED, DEFLATE, BZIP2}

Stream == -1     \* the extent of a member whose end only a decode finds
NoCrc == -1
Junk == -2       \* what a field reads as where there is no such field
Wide == 9999     \* the largest 32-bit size: it refers to the Zip64 extra field

IsA(d, p, kind) == p \in DOMAIN d /\ d[p].u = kind
-----------------------------------------------------------------------------
\* The end record.

EndCandidates(d) == {p \in DOMAIN d : p > Len(d) - SearchLen /\ d[p].u = "end"}
CommentEnd(d, p) == p + d[p].comment

Nearest(S) == CHOOSE p \in S : \A q \in S : q <= p

FindEnd(d) ==
    LET exact == {p \in EndCandidates(d) : CommentEnd(d, p) = Len(d)}
    IN IF exact # {} THEN Nearest(exact)
       ELSE IF EndCandidates(d) # {} THEN Nearest(EndCandidates(d)) ELSE 0

\* Where the fields are: the end record at p, or the Zip64 record that the
\* locator before it names or that precedes the locator; 0 when neither is.
RecordOf(d, p) ==
    IF ~IsA(d, p - 1, "locator") THEN p
    ELSE IF IsA(d, d[p-1].at, "end64") THEN d[p-1].at
    ELSE IF IsA(d, p - 2, "end64") THEN p - 2 ELSE 0

\* A local header first, or an end record with entries whose comment
\* reaches the end.
IsZipFormat(d) ==
    \/ IsA(d, 1, "local")
    \/ LET exact == {p \in EndCandidates(d) : CommentEnd(d, p) = Len(d)}
       IN exact # {} /\ d[Nearest(exact)].entries # 0
-----------------------------------------------------------------------------
\* Headers.

\* Each value that is Wide takes the next one of the Zip64 extra field.
Widened(values, extra) ==
    [i \in DOMAIN values |->
        LET k == Cardinality({j \in 1..i : values[j] = Wide})
        IN IF values[i] = Wide /\ k <= Len(extra) THEN extra[k] ELSE values[i]]

LocalAt(d, p) ==
    LET v == Widened(<<d[p].usize, d[p].csize>>, d[p].extra)
    IN [d[p] EXCEPT !.usize = v[1], !.csize = v[2]]

CentralAt(d, p) ==
    LET v == Widened(<<d[p].usize, d[p].csize, d[p].header>>, d[p].extra)
    IN [d[p] EXCEPT !.usize = v[1], !.csize = v[2], !.header = v[3]]

FromLocal(p, l) ==
    [name |-> l.name, aliases |-> <<>>, header |-> p, start |-> p + 1,
     method |-> l.method, enc |-> l.enc, extent |-> l.csize, crc |-> l.crc,
     zip64 |-> l.extra # <<>>, verify |-> FALSE]

Encrypted(i) == i.enc \/ i.method = AES
Key(i) == <<i.start, i.method, i.extent, Encrypted(i)>>

Cost(i, d) == 2 * IF i.extent = Stream THEN Monus(Len(d) + 1, i.start)
                                       ELSE i.extent

\* Mutant: a stored member is read at its compressed size only.
Enqueue_One(queue, i, usize) == Append(queue, i)

\* A stored member whose two sizes differ is also read at its other size.
Enqueue(queue, i, usize) ==
    queue \o <<i>> \o
    IF i.extent # Stream /\ i.method = STORED /\ i.extent # usize
    THEN <<[i EXCEPT !.extent = usize]>> ELSE <<>>

\* A merged item keeps every name, and checks where its stream ends if any
\* copy does.
Merge(kept, i) ==
    [kept EXCEPT !.verify = @ \/ i.verify,
                 !.aliases = IF i.name = kept.name \/ i.name \in Range(@)
                             THEN @ ELSE Append(@, i.name)]

Keep(out, i, done) ==
    IF Key(i) \in done THEN out
    ELSE IF \E k \in DOMAIN out : Key(out[k]) = Key(i)
    THEN [k \in DOMAIN out |-> IF Key(out[k]) = Key(i) THEN Merge(out[k], i) ELSE out[k]]
    ELSE Append(out, i)

\* Without those already decoded, one per key.
Dedup(items, done) ==
    LET kept[n \in 0..Len(items)] ==
          IF n = 0 THEN <<>> ELSE Keep(kept[n - 1], items[n], done)
    IN kept[Len(items)]

\* Cheaper, or as cheap and not further on.
NotAfter(a, b, d) ==
    LET Rank(i) == <<Cost(i, d), i.header, i.method>>
    IN \/ Rank(a)[1] < Rank(b)[1]
       \/ Rank(a)[1] = Rank(b)[1] /\ Rank(a)[2] < Rank(b)[2]
       \/ Rank(a)[1] = Rank(b)[1] /\ Rank(a)[2] = Rank(b)[2] /\ Rank(a)[3] <= Rank(b)[3]

Insert(out, i, d) ==
    LET k == Cardinality({j \in DOMAIN out : NotAfter(out[j], i, d)})
    IN SubSeq(out, 1, k) \o <<i>> \o SubSeq(out, k + 1, Len(out))

\* Cheapest first, stable.
Sorted(items, d) ==
    LET sorted[n \in 0..Len(items)] ==
          IF n = 0 THEN <<>> ELSE Insert(sorted[n - 1], items[n], d)
    IN sorted[Len(items)]

\* Where the next header is after a data descriptor at p: its signature is
\* optional, its sizes one unit or two.
SkipDescriptor(d, p, zip64) ==
    LET base == IF IsA(d, p, "descriptor") THEN p + 1 ELSE p
        After(wide) == base + IF wide THEN 2 ELSE 1
        IsHeader(q) == IsA(d, q, "local") \/ IsA(d, q, "central")
    IN IF ~IsHeader(After(zip64)) /\ IsHeader(After(~zip64))
       THEN After(~zip64) ELSE After(zip64)

DescriptorCrc(d, p) ==
    LET q == IF IsA(d, p, "descriptor") THEN p + 1 ELSE p
    IN IF q \notin DOMAIN d THEN NoCrc
       ELSE IF d[q].u = "fields" THEN d[q].crc ELSE Junk

\* The first signed descriptor whose size is its distance from "start":
\* that size (or -1), the CRC and the units searched.
FindStoredEnd(d, start, zip64, limit) ==
    LET rest == AtMost(Monus(Len(d) + 1, start), limit)
        Size(p) == IF IsA(d, p, "fields") /\ (zip64 => d[p].wide)
                   THEN d[p].size ELSE Junk
        hits == {n \in 0..(rest - 1) : /\ IsA(d, start + n, "descriptor")
                                       /\ Size(start + n + 1) = n}
        n == CHOOSE m \in hits : \A k \in hits : m <= k
    IN IF hits = {} THEN [size |-> -1, crc |-> NoCrc, scanned |-> rest]
       ELSE [size |-> n, crc |-> d[start + n + 1].crc, scanned |-> n + 1]
-----------------------------------------------------------------------------
\* The CRC of decoded units: a cell that starts a run knows the run's.
CrcOf(bytes) == IF bytes # <<>> /\ "run" \in DOMAIN bytes[1] /\ bytes[1].run = Len(bytes)
                THEN bytes[1].crc ELSE Junk
-----------------------------------------------------------------------------
Top == stack[Len(stack)]
Under(f) == [stack EXCEPT ![Len(stack)] = f]

\* Counting a header fails once the limit over all levels is reached.
MayCount == entries < limits.entries

NewFrame(data, depth, path, total) ==
    [data |-> data, depth |-> depth, path |-> path, shares |-> NewBudget(total),
     phase |-> "open", dirs |-> <<>>, at |-> 0, left |-> 0,
     byHeader |-> <<>>, queue |-> <<>>, blocked |-> <<>>, walks |-> <<>>,
     pos |-> 0, walked |-> {}, done |-> {}, round |-> <<>>, streams |-> 0,
     promise |-> 0, spans |-> {}]

Gap(path, kind) == <<path, kind>>

\* The places the directory starts, where a directory header is: where the
\* end record says, and where it is when bytes before the archive shifted it.
Starts(d, r) ==
    LET actual == r - d[r].size
        delta == actual - d[r].start
        At(p, shift) == IF IsA(d, p, "central") THEN <<[at |-> p, delta |-> shift]>> ELSE <<>>
    IN IF actual >= 1 /\ delta = 0 THEN At(actual, 0)
       ELSE (IF actual >= 1 /\ delta > 0 THEN At(actual, delta) ELSE <<>>) \o At(d[r].start, 0)

\* Reader::archive begins: the end record, then both views' first headers.
Open ==
    LET f == Top
        d == f.data
        p == FindEnd(d)
        r == IF p = 0 THEN 0 ELSE RecordOf(d, p)
        empty == r # 0 /\ d[r].entries = 0 /\ d[r].size = 0
        dirs == IF r = 0 \/ empty THEN <<>> ELSE Starts(d, r)
        locals == {q \in DOMAIN d : d[q].u = "local"}
    IN /\ stack # <<>> /\ f.phase = "open"
       /\ stack' = Under([f EXCEPT
            !.phase = "central", !.dirs = dirs,
            !.at = IF dirs = <<>> THEN 0 ELSE dirs[1].at,
            !.left = IF dirs = <<>> THEN 0 ELSE d[r].entries,
            !.walks = IF locals = {} THEN <<>>
                      ELSE <<CHOOSE q \in locals : \A o \in locals : q <= o>>])
       /\ gaps' = gaps \cup
            (IF p = 0 THEN {Gap(f.path, "no end record")}
             ELSE IF ~empty /\ dirs = <<>> THEN {Gap(f.path, "no central directory")}
             ELSE {})
       /\ opened' = opened \cup {d}
       /\ UNCHANGED <<limits, entries, visits, work>>

\* The next place the directory may start, or the walk when there is none.
NextDirectory(f) ==
    IF Len(f.dirs) <= 1 THEN [f EXCEPT !.phase = "walk", !.dirs = <<>>]
    ELSE LET r == RecordOf(f.data, FindEnd(f.data))
         IN [f EXCEPT !.dirs = Tail(@), !.at = f.dirs[2].at,
                      !.left = f.data[r].entries]

Differs(local, entry) ==
    \/ local.name # entry.name \/ local.method # entry.method
    \/ local.enc # entry.enc \/ local.stream # entry.stream
    \/ /\ ~local.stream
       /\ \/ local.crc # entry.crc \/ local.csize # entry.csize
          \/ local.usize # entry.usize

\* central_entry: the entry's reading of its member, and the local header's
\* own where the two differ.
EntryReadings(f, entry) ==
    LET header == entry.header + f.dirs[1].delta
        label == Append(f.path, entry.name)
        local == LocalAt(f.data, header)
        item == [FromLocal(header, local) EXCEPT
                   !.name = entry.name, !.method = entry.method, !.enc = entry.enc,
                   !.extent = entry.csize, !.crc = entry.crc]
        own == IF local.stream
               THEN [FromLocal(header, local) EXCEPT !.extent = entry.csize,
                                                     !.crc = entry.crc]
               ELSE FromLocal(header, local)
        first == Enqueue(f.queue, item, entry.usize)
        sizes == [csize |-> entry.csize, usize |-> entry.usize, crc |-> entry.crc]
    IN IF ~IsA(f.data, header, "local")
       THEN [frame |-> f, gaps |-> {Gap(label, "local header missing")}]
       ELSE [frame |-> [f EXCEPT
               !.byHeader = [q \in DOMAIN @ \cup {header} |->
                               IF q \in DOMAIN @ THEN @[q] ELSE sizes],
               !.queue = IF Differs(local, entry)
                         THEN Enqueue(first, own, IF local.stream THEN entry.usize
                                                  ELSE local.usize)
                         ELSE first],
             gaps |-> IF Differs(local, entry) THEN {Gap(label, "headers disagree")}
                      ELSE {}]

CentralEntry ==
    LET f == Top
    IN /\ stack # <<>> /\ f.phase = "central"
       /\ \/ /\ f.dirs = <<>> \/ f.left = 0
             /\ stack' = Under(NextDirectory(f))
             /\ UNCHANGED <<entries, gaps>>
          \/ /\ f.dirs # <<>> /\ f.left > 0 /\ ~IsA(f.data, f.at, "central")
             /\ gaps' = gaps \cup {Gap(f.path, "central directory short")}
             /\ stack' = Under(NextDirectory(f))
             /\ UNCHANGED entries
          \/ /\ f.dirs # <<>> /\ f.left > 0 /\ IsA(f.data, f.at, "central")
             /\ ~MayCount
             /\ gaps' = gaps \cup {Gap(f.path, "entries")}
             /\ stack' = Under([f EXCEPT !.phase = "walk", !.dirs = <<>>])
             /\ UNCHANGED entries
          \/ /\ f.dirs # <<>> /\ f.left > 0 /\ IsA(f.data, f.at, "central")
             /\ MayCount
             /\ LET r == EntryReadings(f, CentralAt(f.data, f.at))
                IN /\ stack' = Under([r.frame EXCEPT !.at = @ + 1, !.left = @ - 1])
                   /\ gaps' = gaps \cup r.gaps
             /\ entries' = entries + 1
       /\ UNCHANGED <<limits, visits, opened, work>>
-----------------------------------------------------------------------------
\* What a streaming reader makes of the local header at f.pos: its extent
\* (-1 when it cannot know) and the item; a stored member with a descriptor
\* and no directory entry is searched for its end.
Reading(f, local) ==
    LET p == f.pos
        item == FromLocal(p, local)
        known == p \in DOMAIN f.byHeader
        sizes == f.byHeader[p]
        search == FindStoredEnd(f.data, p + 1, local.extra # <<>>, f.shares.remaining)
        Unknown == [item |-> item, extent |-> -1, usize |-> 0, scanned |-> 0]
    IN IF ~local.stream
       THEN [Unknown EXCEPT !.extent = local.csize, !.usize = local.usize]
       ELSE IF known
       THEN [Unknown EXCEPT !.item.verify = local.method \in {DEFLATE, BZIP2},
                         !.item.crc = sizes.crc, !.item.extent = sizes.csize,
                         !.extent = sizes.csize, !.usize = sizes.usize]
       ELSE IF local.method = STORED
       THEN [Unknown EXCEPT !.item.crc = search.crc, !.item.extent = search.size,
                         !.extent = search.size, !.usize = search.size,
                         !.scanned = search.scanned]
       ELSE Unknown

\* A stream whose end only a decode can find blocks the walk.
Blocks(f, local) ==
    /\ local.stream /\ f.pos \notin DOMAIN f.byHeader
    /\ local.method # STORED /\ Decodable(local.method) /\ ~local.enc

WalkGaps(f, local, r) ==
    LET label == Append(f.path, local.name)
        searched == local.stream /\ f.pos \notin DOMAIN f.byHeader /\ local.method = STORED
    IN IF searched /\ Monus(Len(f.data), f.pos) > f.shares.remaining
       THEN {Gap(label, "budget")}
       ELSE {Gap(label, "unknown size")} \cup
            (IF Encrypted(r.item) THEN {Gap(label, "encrypted")}
             ELSE IF ~Decodable(local.method) THEN {Gap(label, "method")} ELSE {})

WalkEnds(f) == [f EXCEPT !.pos = 0]

\* walk, one header: queue its reading and go to the next one.
Walk ==
    LET f == [Top EXCEPT !.pos = IF @ = 0 THEN Top.walks[Len(Top.walks)] ELSE @,
                         !.walks = IF Top.pos = 0 THEN Front(@) ELSE @]
        seen == [f EXCEPT !.walked = @ \cup {f.pos}]
        local == LocalAt(f.data, f.pos)
        counts == f.pos \notin DOMAIN f.byHeader
        r == Reading(f, local)
        charged == [seen EXCEPT !.shares = Charge(@, r.scanned)]
        end == f.pos + 1 + r.extent
    IN /\ stack # <<>> /\ Top.phase = "walk" /\ (Top.pos # 0 \/ Top.walks # <<>>)
       /\ \/ /\ f.pos \in f.walked \/ ~IsA(f.data, f.pos, "local")
             /\ stack' = Under(WalkEnds(seen))
             /\ UNCHANGED <<entries, gaps, work>>
          \/ /\ f.pos \notin f.walked /\ IsA(f.data, f.pos, "local")
             /\ counts /\ ~MayCount
             /\ gaps' = gaps \cup {Gap(f.path, "entries")}
             /\ stack' = Under(WalkEnds(seen))
             /\ UNCHANGED <<entries, work>>
          \/ /\ f.pos \notin f.walked /\ IsA(f.data, f.pos, "local")
             /\ counts => MayCount
             /\ entries' = entries + IF counts THEN 1 ELSE 0
             /\ work' = work + r.scanned
             /\ IF Blocks(f, local)
                THEN /\ stack' = Under(WalkEnds([seen EXCEPT !.blocked =
                            Append(@, [r.item EXCEPT !.extent = Stream, !.crc = NoCrc])]))
                     /\ UNCHANGED gaps
                ELSE IF r.extent = -1
                THEN /\ stack' = Under(WalkEnds(charged))
                     /\ gaps' = gaps \cup WalkGaps(f, local, r)
                ELSE /\ stack' = Under([charged EXCEPT
                            !.queue = Enqueue(@, r.item, r.usize),
                            !.pos = IF local.stream
                                    THEN SkipDescriptor(f.data, end, local.extra # <<>>)
                                    ELSE end])
                     /\ UNCHANGED gaps
       /\ UNCHANGED <<limits, visits, opened>>
-----------------------------------------------------------------------------
Walked(f) == f.phase = "walk" /\ f.pos = 0 /\ f.walks = <<>>

\* A round decodes what the walk found, the streams that block it last and
\* with one more share kept back.
StartRound ==
    LET f == Top
        known == Sorted(Dedup(f.queue, f.done), f.data)
        streams == Dedup(f.blocked, f.done)
        round == known \o streams
    IN /\ stack # <<>> /\ Walked(f) /\ f.round = <<>> /\ round # <<>>
       /\ stack' = Under([f EXCEPT !.phase = "round", !.queue = <<>>, !.blocked = <<>>,
                                   !.round = round, !.streams = Len(streams),
                                   \* ghost: the least share a member is to have
                                   !.promise = f.shares.remaining \div Len(round)])
       /\ UNCHANGED <<limits, entries, gaps, visits, opened, work>>

\* Mutant: the parts are those of the whole round, not of what is left of it.
Share_Fixed(f) == StartShare(f.shares, Len(f.round) + Cardinality(f.done))

Share(f) == StartShare(f.shares, Len(f.round) + IF Len(f.round) <= f.streams
                                                THEN 1 ELSE 0)

\* One interpretation decoded under budget b: what it cost, and the rest of
\* what "member" works out before it reports.
Decode(f, i, b) ==
    LET known == i.extent # Stream
        avail == SubSeq(f.data, i.start, Len(f.data))
        want == IF known THEN i.extent ELSE Len(avail)
        present == Prefix(avail, want)
        share == b.entry \div 2
        input == Prefix(present, share)
        block == IF i.method = BZIP2 THEN BlockSize(input) ELSE 0
        paid == IF known THEN Charge(b, AtLeast(Len(input), block)) ELSE b
        ratioCap == IF known THEN limits.ratio * AtLeast(want, 1) ELSE limits.member + paid.entry
        cap == AtMost(limits.member, AtMost(paid.entry, ratioCap))
        a == CASE i.method = STORED  -> Copy(input, cap)
               [] i.method = DEFLATE -> Inflate("deflate", input, cap, paid.entry)
               [] OTHER              -> Bunzip(input, cap)
        after == Charge(Charge(IF known THEN paid ELSE Charge(paid, AtLeast(a.used, block)),
                               Len(a.bytes)), a.work)
        limit == IF a.capped \/ cap = paid.entry THEN "budget"
                 ELSE IF cap = limits.member THEN "member size"
                 ELSE IF cap = ratioCap THEN "ratio" ELSE "budget"
        trouble == IF a.result = "ok"
                   THEN IF Len(avail) < want THEN "cut short"
                        ELSE IF Len(input) < Len(present) /\ i.method = STORED THEN "budget"
                        ELSE "none"
                   ELSE IF a.result = "budget" THEN limit
                   ELSE IF a.result = "truncated"
                   THEN IF Len(input) < Len(present) THEN "budget" ELSE "cut short"
                   ELSE "undecodable"
    IN [refused |-> share = 0 \/ block > share, bytes |-> a.bytes, used |-> a.used,
        trouble |-> trouble, shares |-> after,
        \* ghost: what was really read and written
        cost |-> (IF known THEN Len(input) ELSE a.used) + Len(a.bytes)]

\* Checks of a member decoded whole.
WholeGaps(f, i, r) ==
    LET end == i.start + r.used
        crc == IF i.extent # Stream THEN i.crc ELSE DescriptorCrc(f.data, end)
    IN (IF crc # NoCrc /\ CrcOf(r.bytes) # crc THEN {"crc mismatch"} ELSE {}) \cup
       (IF Len(r.bytes) > limits.ratio * AtLeast(r.used, 1) THEN {"ratio"} ELSE {}) \cup
       (IF i.verify /\ i.extent # r.used THEN {"stream end"} ELSE {})

\* Where the walk resumes: after a stream whose end the decode found.
Resumes(f, i, r) ==
    IF r.trouble = "none" /\ (i.extent = Stream \/ (i.verify /\ i.extent # r.used))
    THEN <<SkipDescriptor(f.data, i.start + r.used, i.zip64)>> ELSE <<>>

\* deliver: the member is visited under each name its share still pays for,
\* or read as a zip of its own, or (a zip behind a prefix) both.
Visits(f, i, r) ==
    LET label(name) == Append(f.path, name)
        nested == IsZipFormat(r.bytes)
        deep == nested /\ f.depth >= limits.depth
        reads == nested /\ ~deep
        visited == ~reads \/ ~(IsA(r.bytes, 1, "local") \/ IsA(r.bytes, 1, "end"))
        cost == EntryCost + Len(r.bytes)
        names == AtMost(Len(i.aliases), r.shares.entry \div cost)
        Visit(name) == [path |-> label(name), bytes |-> r.bytes,
                        cut |-> r.trouble # "none"]
    IN IF r.bytes = <<>>
       THEN [visits |-> {}, gaps |-> {}, reads |-> FALSE, shares |-> r.shares, cost |-> 0]
       ELSE [visits |-> IF visited
                        THEN {Visit(i.name)} \cup {Visit(i.aliases[k]) : k \in 1..names}
                        ELSE {},
             gaps |-> (IF deep THEN {Gap(label(i.name), "depth")} ELSE {}) \cup
                      (IF visited THEN {Gap(label(i.aliases[k]), "budget") :
                                         k \in (names + 1)..Len(i.aliases)} ELSE {}),
             reads |-> reads,
             shares |-> IF visited THEN Charge(r.shares, names * cost) ELSE r.shares,
             cost |-> IF visited THEN names * Len(r.bytes) ELSE 0]

\* The item's span, for the overlap check: a stream's is known once decoded.
Span(i, r) == <<i.header, i.start + IF i.extent = Stream THEN r.used ELSE i.extent>>

\* member: one interpretation read and handed on.
Member ==
    /\ stack # <<>> /\ Top.phase = "round" /\ Top.round # <<>>
    /\ LET f == Top
           i == Head(f.round)
           label == Append(f.path, i.name)
           b == Charge(Share(f), EntryCost)
           next == [f EXCEPT !.round = Tail(@), !.done = @ \cup {Key(i)}]
       IN \E r \in {Decode(f, i, b)} :
          \E v \in {Visits(f, i, r)} :
             LET spanned == [next EXCEPT !.spans = @ \cup {Span(i, r)}]
                 early == IF i.extent = Stream THEN next ELSE spanned
                 read == [spanned EXCEPT !.shares = v.shares, !.walks = @ \o Resumes(f, i, r)]
                 whole == IF r.trouble = "none" THEN WholeGaps(f, i, r) ELSE {r.trouble}
             IN IF Encrypted(i) \/ ~Decodable(i.method) \/ r.refused
                THEN /\ stack' = Under([early EXCEPT !.shares = b])
                     /\ gaps' = gaps \cup {Gap(label, IF Encrypted(i) THEN "encrypted"
                                                      ELSE IF ~Decodable(i.method) THEN "method"
                                                      ELSE "budget")}
                     /\ UNCHANGED <<visits, work>>
                ELSE /\ stack' = IF v.reads
                                 THEN Append(Under(read), NewFrame(r.bytes, f.depth + 1, label,
                                                                   v.shares.entry))
                                 ELSE Under(read)
                     /\ gaps' = gaps \cup {Gap(label, k) : k \in whole} \cup v.gaps
                     /\ visits' = visits \cup v.visits
                     /\ work' = work + r.cost + v.cost
    /\ UNCHANGED <<limits, entries, opened>>

EndRound ==
    /\ stack # <<>> /\ Top.phase = "round" /\ Top.round = <<>>
    /\ stack' = Under([Top EXCEPT !.phase = "walk"])
    /\ UNCHANGED <<limits, entries, gaps, visits, opened, work>>

\* One member's data runs over another's header.
Overlaps(f) ==
    \E s, t \in f.spans : s[1] < t[1] /\ t[1] < s[2]

\* Reader::archive returns: a nested zip's cost is charged to its member.
Close ==
    LET f == Top
        below == Front(stack)
        parent == below[Len(below)]
        spent == parent.shares.entry - f.shares.remaining
    IN /\ stack # <<>> /\ Walked(f) /\ f.round = <<>>
       /\ Dedup(f.queue, f.done) \o Dedup(f.blocked, f.done) = <<>>
       /\ gaps' = gaps \cup IF Overlaps(f) THEN {Gap(f.path, "overlap")} ELSE {}
       /\ stack' = IF below = <<>> THEN below
                   ELSE [below EXCEPT ![Len(below)].shares = Charge(@, spent)]
       /\ UNCHANGED <<limits, entries, visits, opened, work>>
-----------------------------------------------------------------------------
ReadNext == Open \/ CentralEntry \/ Walk \/ StartRound \/ Member \/ EndRound \/ Close
=============================================================================
