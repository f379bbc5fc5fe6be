-------------------------- MODULE ContainersCover --------------------------
(***************************************************************************)
(* What a clean verdict of Containers means, for any files, limits and     *)
(* scanned kinds: a reading that reports nothing hands over every member   *)
(* that another tool would take.  The invariant says, of every archive     *)
(* being read, where each entry of the directory and each header that      *)
(* walking comes to stands: still ahead, queued under its interpretation,  *)
(* or decoded and handed over.  When the archive is closed nothing is      *)
(* ahead or queued, and what the two views take follows from the rest.     *)
(***************************************************************************)
EXTENDS ContainersProofs

-----------------------------------------------------------------------------
(***************************************************************************)
(* The invariant: where what is still to be read stands.                   *)
(***************************************************************************)
\* What was handed over: visited whole, or read as an archive.
Handled ==
  {<<>>} \cup opened \cup {v.bytes : v \in {x \in visits : ~x.cut}} \cup
  {stack[k].data : k \in DOMAIN stack}

\* The interpretations that were decoded or will be, and the places the walk
\* was at or will be.
Claims(f) ==
  f.done \cup {Key(i) : i \in Range(f.queue) \cup Range(f.blocked) \cup Range(f.round)}
Ahead(f) == f.walked \cup Range(f.walks) \cup {f.pos, 0}
Coming(f, p) == IsA(f.data, p, "local") => p \in Ahead(f)

\* The cell a stream of the method opens with.
Coder(method) == IF method = DEFLATE THEN "deflate" ELSE "bzip2"

\* Where the walk goes on behind n cells from start, the header before them.
Behind(d, start, n) == SkipDescriptor(d, start + n, LocalAt(d, start - 1).extra # <<>>)

\* What an interpretation stands for was handed over, its end within it.
Yields(d, k, H) ==
  /\ Decodable(k[2]) /\ ~k[4]
  /\ k[2] = STORED => Extracted(d, k[1], STORED, k[3]) \in H
  /\ k[2] # STORED => /\ IsA(d, k[1], Coder(k[2])) /\ d[k[1]].out \in H
                      /\ k[3] # Stream => d[k[1]].used <= k[3]

\* What was decoded was handed over, and the walk goes on behind a stream.
DoneRead(f, H) ==
  \A k \in f.done :
    /\ Yields(f.data, k, H)
    /\ k[3] = Stream => k[2] # STORED /\ Coming(f, Behind(f.data, k[1], f.data[k[1]].used))

\* The directory's entry at q, where the directory starts at s.
EntryRead(f, s, q) ==
  LET c == CentralAt(f.data, q)
      h == c.header + s.delta
  IN /\ h \in DOMAIN f.byHeader
     /\ <<h + 1, c.method, c.csize, Encrypted(c)>> \in Claims(f)
     /\ c.method = STORED => <<h + 1, c.method, c.usize, Encrypted(c)>> \in Claims(f)

\* The end record, 0 if there is none.
RecordAt(d) == IF FindEnd(d) = 0 THEN 0 ELSE RecordOf(d, FindEnd(d))

\* Every place of the directory is still to be read or was, to its end.
DirectoryRead(f) ==
  LET d == f.data
      r == RecordAt(d)
  IN r # 0 =>
     /\ Range(f.dirs) \subseteq Range(Starts(d, r))
     /\ \A s \in Range(Starts(d, r)) :
          s \in Range(f.dirs) \/ \A q \in Listed(d, r, s.at) : EntryRead(f, s, q)
     /\ f.dirs # <<>> =>
          /\ f.at >= f.dirs[1].at /\ f.at + f.left = f.dirs[1].at + d[r].entries
          /\ \A q \in f.dirs[1].at .. (f.at - 1) :
               IsA(d, q, "central") /\ EntryRead(f, f.dirs[1], q)

\* Sizes by header are the directory's.
HeadersRead(f) == \A h \in DOMAIN f.byHeader : <<h, f.byHeader[h].csize>> \in Sized(f.data)

\* Decoding the interpretation will check where its stream ends.
Checks(f, key) ==
  /\ key \notin f.done
  /\ Decodable(key[2]) =>
       /\ \E i \in Range(f.queue) \cup Range(f.round) : Key(i) = key /\ i.verify
       /\ \A i \in Range(f.round) : Key(i) = key => i.verify

\* The stream behind the header at q ends where the directory says, or the
\* end is only trusted.
Ends(d, q, n) ==
  \/ EndTrusted(d, q)
  \/ IsA(d, q + 1, "deflate") \/ IsA(d, q + 1, "bzip2") => d[q + 1].used = n

\* The header at q was walked: its member and the next header are known of,
\* or wait for the decode that finds where it ends.
HeaderWalked(f, q) ==
  LET l == LocalAt(f.data, q)
      n == f.byHeader[q].csize
      KeyOf(size) == <<q + 1, l.method, size, Encrypted(l)>>
  IN \/ l.stream /\ l.method = STORED
     \/ l.stream /\ q \notin DOMAIN f.byHeader /\ KeyOf(Stream) \in Claims(f)
     \/ /\ l.stream /\ q \in DOMAIN f.byHeader
        /\ KeyOf(n) \in Claims(f) /\ Coming(f, Behind(f.data, q + 1, n))
        /\ Ends(f.data, q, n) \/ Checks(f, KeyOf(n))
     \/ /\ ~l.stream
        /\ KeyOf(l.csize) \in Claims(f) /\ Coming(f, q + 1 + l.csize)

\* Where a tool that streams starts.
FirstLocal(d, q) ==
  IsA(d, q, "local") /\ \A o \in DOMAIN d : IsA(d, o, "local") => q <= o

\* The walk has been wherever it was, and has the first header before it.
WalkRead(f) ==
  /\ \A q \in f.walked : IsA(f.data, q, "local") => HeaderWalked(f, q)
  /\ f.phase # "open" => \A q \in DOMAIN f.data : FirstLocal(f.data, q) => q \in Ahead(f)

\* A stream the directory does not list.
Blocker(f, o) ==
  /\ IsA(f.data, o, "local") /\ f.data[o].stream /\ o \notin DOMAIN f.byHeader
  /\ f.data[o].method # STORED

\* The streams that wait for a decode are such; once one was decoded the
\* walk is behind it.
BlockersRead(f) ==
  /\ \A i \in Range(f.blocked) \cup {x \in Range(f.round) : x.extent = Stream} :
       /\ Blocker(f, i.header) /\ i.start = i.header + 1
       /\ i.zip64 = (LocalAt(f.data, i.header).extra # <<>>)
  /\ f.done # {} =>
       \A p \in (Range(f.walks) \cup {f.pos}) \ {0} :
         \E o \in DOMAIN f.data : o < p /\ o < Len(f.data) /\ Blocker(f, o)

\* What is empty in each phase.
PhaseRead(f) ==
  /\ f.phase \in {"open", "central"} =>
       f.walked = {} /\ f.done = {} /\ f.round = <<>> /\ f.blocked = <<>> /\ f.pos = 0
  /\ f.phase = "open" => f.byHeader = <<>> /\ f.walks = <<>> /\ f.queue = <<>>
  /\ f.phase = "walk" => f.round = <<>> /\ f.dirs = <<>>
  /\ f.phase = "round" => /\ f.queue = <<>> /\ f.blocked = <<>> /\ f.pos = 0 /\ f.dirs = <<>>
                          /\ f.done = {} => f.walks = <<>>

\* A frame loses nothing, H being what was handed over.
FrameCover(f, H) ==
  /\ DoneRead(f, H) /\ (f.phase # "open" => DirectoryRead(f)) /\ HeadersRead(f)
  /\ WalkRead(f) /\ BlockersRead(f) /\ PhaseRead(f)

\* No frame of the reading does.
FramesCovered ==
  \A k \in DOMAIN stack :
    FrameCover(stack[k], Handled) /\ (stack[k].phase # "open" => stack[k].data \in opened)

\* An archive that was opened is being read, or all it holds was handed over.
OpenedCovered ==
  \A d \in opened :
    \/ Views(d) \subseteq Handled
    \/ \E k \in DOMAIN stack : stack[k].data = d /\ stack[k].phase # "open"

\* As long as nothing is reported.
CoverInv == gaps = {} => FramesCovered /\ OpenedCovered

-----------------------------------------------------------------------------
(***************************************************************************)
(* What a sequence holds.                                                  *)
(***************************************************************************)
LEMMA RangeHas ==
  ASSUME NEW s
  PROVE  \A x : x \in Range(s) <=> \E k \in DOMAIN s : x = s[k]
BY Zenon DEF Range

\* Of an item appended,
LEMMA AppendRange ==
  ASSUME NEW V, NEW s \in Seq(V), NEW e \in V
  PROVE  Append(s, e) \in Seq(V) /\ Range(Append(s, e)) = Range(s) \cup {e}
<1>. DEFINE t == Append(s, e)
<1>1. DOMAIN s = 1..Len(s) /\ DOMAIN t = 1..(Len(s) + 1) /\ Len(s) \in Nat
  OBVIOUS
<1>2. t[Len(s) + 1] = e /\ \A k \in DOMAIN s : t[k] = s[k]
  OBVIOUS
<1>3. \A k \in 1..(Len(s) + 1) : k = Len(s) + 1 \/ k \in 1..Len(s)
  BY <1>1
<1>4. Len(s) + 1 \in 1..(Len(s) + 1) /\ \A k \in 1..Len(s) : k \in 1..(Len(s) + 1)
  BY <1>1
<1>. HIDE DEF t
<1>5. \A x : x \in Range(t) <=> x \in Range(s) \/ x = e
  BY <1>1, <1>2, <1>3, <1>4, RangeHas
<1>6. t \in Seq(V)
  BY DEF t
<1>. QED BY <1>5, <1>6 DEF t

\* of two sequences in a row,
LEMMA ConcatRange ==
  ASSUME NEW V, NEW s \in Seq(V), NEW t \in Seq(V)
  PROVE  s \o t \in Seq(V) /\ Range(s \o t) = Range(s) \cup Range(t)
<1>. DEFINE u == s \o t
<1>0. Len(s) \in Nat /\ Len(t) \in Nat /\ DOMAIN u = 1..(Len(s) + Len(t))
      /\ DOMAIN s = 1..Len(s) /\ DOMAIN t = 1..Len(t)
  OBVIOUS
<1>1. \A k \in DOMAIN u : \/ k \in DOMAIN s /\ u[k] = s[k]
                          \/ k - Len(s) \in DOMAIN t /\ u[k] = t[k - Len(s)]
  OBVIOUS
<1>2. \A k \in DOMAIN s : k \in DOMAIN u /\ u[k] = s[k]
  OBVIOUS
<1>3. \A k \in DOMAIN t : Len(s) + k \in DOMAIN u /\ u[Len(s) + k] = t[k]
  OBVIOUS
<1>. HIDE DEF u
<1>4. \A x : x \in Range(u) <=> x \in Range(s) \/ x \in Range(t)
  BY <1>1, <1>2, <1>3, RangeHas
<1>5. u \in Seq(V)
  BY DEF u
<1>. QED BY <1>4, <1>5 DEF u

\* of the first item and the rest,
LEMMA HeadRange ==
  ASSUME NEW V, NEW s \in Seq(V), s # <<>>
  PROVE  Range(s) = {Head(s)} \cup Range(Tail(s)) /\ Head(s) \in V
<1>. DEFINE t == Tail(s)
            n == Len(s)
<1>1. n \in Nat \ {0} /\ DOMAIN s = 1..n /\ Head(s) = s[1] /\ Head(s) \in V
  OBVIOUS
<1>2. DOMAIN t = 1..(n - 1) /\ \A k \in 1..(n - 1) : t[k] = s[k + 1]
  OBVIOUS
<1>. HIDE DEF t, n
<1>3. \A k \in 1..n : k = 1 \/ (k - 1 \in 1..(n - 1) /\ (k - 1) + 1 = k)
  BY <1>1
<1>4. 1 \in 1..n /\ \A k \in 1..(n - 1) : k + 1 \in 1..n
  BY <1>1
<1>5. \A k \in DOMAIN s : s[k] = Head(s) \/ \E j \in DOMAIN t : s[k] = t[j]
  <2>. TAKE k \in DOMAIN s
  <2>1. CASE k = 1
    BY <1>1, <2>1
  <2>2. CASE k # 1
    <3>1. k - 1 \in DOMAIN t /\ t[k - 1] = s[k]
      BY <1>1, <1>2, <1>3, <2>2
    <3>. QED BY <3>1
  <2>. QED BY <2>1, <2>2
<1>6. \A j \in DOMAIN t : \E k \in DOMAIN s : t[j] = s[k]
  BY <1>1, <1>2, <1>4
<1>7. \A x : x \in Range(s) <=> x \in Range(t) \/ x = Head(s)
  BY <1>1, <1>4, <1>5, <1>6, RangeHas
<1>. QED BY <1>1, <1>7 DEF t

\* of the last one and those before it.
LEMMA FrontRange ==
  ASSUME NEW V, NEW s \in Seq(V), s # <<>>
  PROVE  Range(s) = Range(Front(s)) \cup {s[Len(s)]} /\ s[Len(s)] \in V
<1>. DEFINE t == Front(s)
            n == Len(s)
<1>1. n \in Nat \ {0} /\ DOMAIN s = 1..n /\ s[n] \in V
  OBVIOUS
<1>2. DOMAIN t = 1..(n - 1) /\ \A k \in 1..(n - 1) : t[k] = s[k]
  <2>1. t = SubSeq(s, 1, n - 1)
    BY Zenon DEF Front
  <2>. HIDE DEF t
  <2>. QED BY <2>1
<1>. HIDE DEF t, n
<1>3. \A k \in 1..n : k = n \/ k \in 1..(n - 1)
  BY <1>1
<1>4. n \in 1..n /\ \A k \in 1..(n - 1) : k \in 1..n
  BY <1>1
<1>5. \A x : x \in Range(s) <=> x \in Range(t) \/ x = s[n]
  BY <1>1, <1>2, <1>3, <1>4, RangeHas
<1>. QED BY <1>1, <1>5 DEF t, n

\* Of the beginnings of a sequence,
LEMMA PrefixFacts ==
  ASSUME NEW s \in Data
  PROVE  /\ s # <<>> => Len(s) >= 1
         /\ SubSeq(s, 1, Len(s)) = s
         /\ \A n \in Nat : n >= 1 /\ n <= Len(s) => SubSeq(s, 1, n)[1] = s[1]
<1>1. s \in Seq(Units) /\ (s # <<>> => Len(s) >= 1) /\ SubSeq(s, 1, Len(s)) = s
  BY DEF Data
<1>2. ASSUME NEW n \in Nat, n >= 1, n <= Len(s) PROVE SubSeq(s, 1, n)[1] = s[1]
  <2>1. 1 \in 1..n
    BY <1>2
  <2>. QED BY <1>1, <1>2, <2>1
<1>. QED BY <1>1, <1>2

\* and of the cells further on.
LEMMA SubOfRest ==
  ASSUME NEW s \in Data, NEW m \in Nat \ {0}, NEW n \in Nat,
         n <= Len(SubSeq(s, m, Len(s))), n # 0
  PROVE  SubSeq(SubSeq(s, m, Len(s)), 1, n) = SubSeq(s, m, m + n - 1)
<1>. DEFINE t == SubSeq(s, m, Len(s))
            u == SubSeq(t, 1, n)
            w == SubSeq(s, m, m + n - 1)
            V == Units
<1>. s \in Seq(V)
  BY DEF Data
<1>1. /\ Len(s) \in Nat /\ t \in Seq(V) /\ Len(t) = (IF m <= Len(s) THEN Len(s) - m + 1 ELSE 0)
      /\ \A k \in 1..Len(t) : t[k] = s[m + k - 1]
  OBVIOUS
<1>2. m + n - 1 <= Len(s) /\ m <= m + n - 1 /\ n <= Len(t)
  BY <1>1
<1>3. w \in Seq(V) /\ Len(w) = n /\ \A k \in 1..n : w[k] = s[m + k - 1]
  BY <1>1, <1>2
<1>. HIDE DEF t
<1>4. u \in Seq(V) /\ Len(u) = n /\ \A k \in 1..n : u[k] = t[k]
  BY <1>1, <1>2
<1>5. \A k \in 1..n : u[k] = w[k]
  BY <1>1, <1>2, <1>3, <1>4
<1>. HIDE DEF u, w
<1>6. u = w
  BY <1>3, <1>4, <1>5
<1>. QED BY <1>6 DEF t, u, w

-----------------------------------------------------------------------------
(***************************************************************************)
(* Headers, and what is behind them.                                       *)
(***************************************************************************)
\* Only a header's sizes are widened.
LEMMA LocalFields ==
  ASSUME NEW d \in Data, NEW p, IsA(d, p, "local")
  PROVE  LET l == LocalAt(d, p) IN
         /\ d[p].stream = l.stream /\ d[p].method = l.method /\ d[p].enc = l.enc
         /\ d[p].extra = l.extra /\ l \in Locals /\ p \in Nat \ {0} /\ p \in DOMAIN d
<1>1. d[p] \in Locals /\ p \in DOMAIN d
  BY UnitsAssumption DEF IsA, Data
<1>. DEFINE v == Widened(<<d[p].usize, d[p].csize>>, d[p].extra)
<1>2. LocalAt(d, p) = [d[p] EXCEPT !.usize = v[1], !.csize = v[2]]
  BY Zenon DEF LocalAt
<1>. HIDE DEF v
<1>. DEFINE l == LocalAt(d, p)
<1>3. d[p].stream = l.stream /\ d[p].method = l.method /\ d[p].enc = l.enc /\ d[p].extra = l.extra
  BY <1>1, <1>2 DEF Locals
<1>. QED BY <1>1, <1>3, LocalIs

\* A data descriptor takes at least one unit.
LEMMA SkipAfter ==
  ASSUME NEW d, NEW p \in Nat, NEW zip64
  PROVE  SkipDescriptor(d, p, zip64) \in Nat /\ p < SkipDescriptor(d, p, zip64)
<1>. DEFINE base == IF IsA(d, p, "descriptor") THEN p + 1 ELSE p
            After(wide) == base + IF wide THEN 2 ELSE 1
            IsHeader(q) == IsA(d, q, "local") \/ IsA(d, q, "central")
<1>1. base \in Nat /\ p <= base
  OBVIOUS
<1>. HIDE DEF base
<1>2. \A w : After(w) \in Nat /\ p < After(w)
  BY <1>1
<1>3. SkipDescriptor(d, p, zip64) = IF ~IsHeader(After(zip64)) /\ IsHeader(After(~zip64))
                                    THEN After(~zip64) ELSE After(zip64)
  BY Zenon DEF SkipDescriptor, base
<1>. HIDE DEF After, IsHeader
<1>. QED BY <1>2, <1>3

\* A tool that takes a coded member takes what its first cell holds, if that
\* cell opens a stream of the kind.
LEMMA ExtractedIs ==
  ASSUME NEW d \in Data, NEW start \in Nat \ {0}, NEW method \in {DEFLATE, BZIP2},
         NEW size \in Nat, Extracted(d, start, method, size) # <<>>
  PROVE  IsA(d, start, Coder(method)) /\ Extracted(d, start, method, size) = d[start].out
<1>. DEFINE cells == SubSeq(d, start, AtMost(start + size - 1, Len(d)))
<1>1. method # STORED /\ Len(d) \in Nat
  BY DEF STORED, DEFLATE, BZIP2, Data
<1>2. /\ cells # <<>> /\ cells[1].u = (IF method = DEFLATE THEN "deflate" ELSE "bzip2")
      /\ Extracted(d, start, method, size) = cells[1].out
  <2>. HIDE DEF cells
  <2>1. Extracted(d, start, method, size) =
          IF cells = <<>> THEN <<>>
          ELSE IF method = STORED THEN cells
          ELSE IF cells[1].u = (IF method = DEFLATE THEN "deflate" ELSE "bzip2")
                  /\ Len(cells) >= cells[1].used
          THEN cells[1].out ELSE <<>>
    BY Zenon DEF Extracted, cells
  <2>. QED BY <1>1, <2>1
<1>3. start \in DOMAIN d /\ cells[1] = d[start]
  BY <1>1, <1>2 DEF AtMost, Data
<1>. HIDE DEF cells
<1>. QED BY <1>2, <1>3 DEF IsA, Coder

\* What is decoded whole is what the interpretation stands for, and a stream
\* ends within the extent it was given.
LEMMA DecodedIs ==
  ASSUME limits \in LimitRecords,
         NEW f, f.data \in Data, NEW i \in Knowns \cup Blockings, Decodable(i.method), NEW b,
         b.entry \in Nat, Decode(f, i, b).trouble = "none"
  PROVE  LET r == Decode(f, i, b) IN
         /\ i.method = STORED => r.bytes = Extracted(f.data, i.start, STORED, i.extent)
         /\ i.method # STORED => /\ IsA(f.data, i.start, Coder(i.method))
                                 /\ r.bytes = f.data[i.start].out /\ r.used = f.data[i.start].used
                                 /\ i.extent # Stream => r.used <= i.extent
<1>. DEFINE d == f.data
            known == i.extent # Stream
            avail == SubSeq(f.data, i.start, Len(f.data))
            want == IF known THEN i.extent ELSE Len(avail)
            present == Prefix(avail, want)
            share == b.entry \div 2
            input == Prefix(present, share)
            block == IF i.method = BZIP2 THEN BlockSize(input) ELSE 0
            paid == IF known THEN Charge(b, AtLeast(Len(input), block)) ELSE b
            ratioCap == IF known THEN limits.ratio * AtLeast(want, 1) ELSE limits.member + paid.entry
            cap == AtMost(limits.member, AtMost(paid.entry, ratioCap))
            a == CASE i.method = STORED  -> Copy(input, cap)
                   [] i.method = DEFLATE -> Inflate("deflate", input, cap, paid.entry)
                   [] OTHER              -> Bunzip(input, cap)
            limit == IF a.capped \/ cap = paid.entry THEN "budget"
                     ELSE IF cap = limits.member THEN "member size"
                     ELSE IF cap = ratioCap THEN "ratio" ELSE "budget"
            r == Decode(f, i, b)
<1>1. /\ r.bytes = a.bytes /\ r.used = a.used
      /\ r.trouble =
           IF a.result = "ok"
           THEN IF Len(avail) < want THEN "cut short"
                ELSE IF Len(input) < Len(present) /\ i.method = STORED THEN "budget"
                ELSE "none"
           ELSE IF a.result = "budget" THEN limit
           ELSE IF a.result = "truncated"
           THEN IF Len(input) < Len(present) THEN "budget" ELSE "cut short"
           ELSE "undecodable"
  BY Zenon DEF Decode
<1>2. /\ a.result = "ok" /\ ~(Len(avail) < want)
      /\ ~(Len(input) < Len(present) /\ i.method = STORED)
  <2>1. limit # "none"
    <3>. HIDE DEF a, cap, paid, ratioCap
    <3>. QED OBVIOUS
  <2>. HIDE DEF a, limit, avail, want, input, present
  <2>. QED BY <1>1, <2>1
<1>3. i.start \in Nat \ {0} /\ (i.method = STORED => known) /\ (known => i.extent \in Nat)
  BY DEF Knowns, Blockings, Stream, STORED, DEFLATE, BZIP2
<1>4. d \in Data /\ Len(d) \in Nat /\ avail \in Data /\ Len(avail) \in Nat
  BY <1>3, RestIs DEF Data
<1>5. want \in Nat /\ want <= Len(avail) /\ (known => want = i.extent)
  BY <1>2, <1>3, <1>4
<1>6. share \in Nat
  OBVIOUS
<1>7. present \in Data /\ Len(present) = want /\ Len(present) \in Nat
  <2>. HIDE DEF avail, want
  <2>. QED BY <1>4, <1>5, PrefixIs DEF AtMost
<1>8. input \in Data /\ Len(input) = AtMost(share, want) /\ Len(input) \in Nat
  <2>. HIDE DEF present, share, want
  <2>1. input \in Data /\ Len(input) = AtMost(share, Len(present))
    BY <1>6, <1>7, PrefixIs
  <2>. QED BY <1>7, <2>1 DEF Data
<1>9. /\ Len(input) <= want
      /\ input # <<>> => input[1] = d[i.start] /\ i.start \in DOMAIN d
  <2>1. Len(input) <= want
    <3>. HIDE DEF want, share, input
    <3>. QED BY <1>5, <1>6, <1>8 DEF AtMost
  <2>2. ASSUME input # <<>> PROVE input[1] = d[i.start] /\ i.start \in DOMAIN d
    <3>1. Len(input) >= 1
      <4>. HIDE DEF input
      <4>. QED BY <1>8, <2>2, PrefixFacts
    <3>2. want >= 1 /\ Len(avail) >= 1
      <4>. HIDE DEF want, input, avail
      <4>. QED BY <1>4, <1>5, <1>8, <2>1, <3>1
    <3>3. input[1] = present[1]
      <4>. DEFINE n == AtMost(share, Len(present))
      <4>1. n >= 1 /\ n \in Nat /\ n <= Len(present)
        <5>. HIDE DEF want, input, share, present
        <5>. QED BY <1>6, <1>7, <1>8, <3>1 DEF AtMost
      <4>2. input = SubSeq(present, 1, n)
        BY DEF Prefix
      <4>. HIDE DEF n, present, input
      <4>. QED BY <1>7, <4>1, <4>2, PrefixFacts
    <3>4. present[1] = avail[1]
      <4>. HIDE DEF avail, want
      <4>1. present = SubSeq(avail, 1, want)
        BY <1>4, <1>5 DEF Prefix, AtMost
      <4>. HIDE DEF present
      <4>. QED BY <1>4, <1>5, <3>2, <4>1, PrefixFacts
    <3>5. avail[1] = d[i.start] /\ i.start \in DOMAIN d
      BY <1>3, <1>4, <3>2 DEF Data
    <3>. QED BY <3>3, <3>4, <3>5
  <2>. QED BY <2>1, <2>2
<1>10. CASE i.method = STORED
  <2>0. cap \in Nat
    <3>1. block = 0
      BY <1>10 DEF STORED, BZIP2
    <3>. HIDE DEF input, want
    <3>2. AtLeast(Len(input), block) \in Nat
      BY <1>8, <3>1 DEF AtLeast
    <3>3. paid.entry \in Nat
      <4>. HIDE DEF block
      <4>. QED BY <1>3, <1>10, <3>2 DEF Charge, Monus
    <3>. HIDE DEF paid
    <3>4. ratioCap \in Nat
      <4>1. limits.ratio \in Nat /\ AtLeast(want, 1) \in Nat
        BY <1>5 DEF LimitRecords, AtLeast
      <4>2. limits.ratio * AtLeast(want, 1) \in Nat
        BY <4>1
      <4>. QED BY <1>3, <1>10, <4>2
    <3>. HIDE DEF ratioCap
    <3>. QED BY <3>3, <3>4 DEF AtMost, LimitRecords
  <2>1. a = Copy(input, cap)
    <3>1. STORED # DEFLATE
      BY DEF STORED, DEFLATE
    <3>. HIDE DEF input, cap, paid
    <3>. QED BY <1>10, <3>1
  <2>2. Len(input) = want /\ want = i.extent
    <3>. HIDE DEF want, input, present, share
    <3>. QED BY <1>2, <1>3, <1>5, <1>7, <1>8, <1>9, <1>10
  <2>3. present = SubSeq(d, i.start, AtMost(i.start + want - 1, Len(d)))
    <3>1. present = SubSeq(avail, 1, want)
      <4>. HIDE DEF avail, want
      <4>. QED BY <1>4, <1>5 DEF Prefix, AtMost
    <3>2. want # 0 => AtMost(i.start + want - 1, Len(d)) = i.start + want - 1
      <4>1. Len(avail) = IF i.start <= Len(d) THEN Len(d) - i.start + 1 ELSE 0
        BY <1>3, <1>4 DEF Data
      <4>. HIDE DEF want, avail
      <4>. QED BY <1>3, <1>4, <1>5, <4>1 DEF AtMost
    <3>. DEFINE n == want
    <3>3. n \in Nat /\ n <= Len(avail)
      BY <1>5
    <3>4. AtMost(i.start + n - 1, Len(d)) \in Int /\ AtMost(i.start + n - 1, Len(d)) <= i.start + n - 1
      <4>. HIDE DEF n
      <4>. QED BY <1>3, <1>4, <3>3 DEF AtMost
    <3>. HIDE DEF n
    <3>5. CASE n = 0
      <4>1. SubSeq(avail, 1, n) = <<>>
        <5>. HIDE DEF avail
        <5>. QED BY <1>4, <3>5 DEF Data
      <4>2. SubSeq(d, i.start, AtMost(i.start + n - 1, Len(d))) = <<>>
        BY <1>3, <1>4, <3>4, <3>5 DEF Data
      <4>. QED BY <3>1, <4>1, <4>2 DEF n
    <3>6. CASE n # 0
      <4>1. SubSeq(avail, 1, n) = SubSeq(d, i.start, i.start + n - 1)
        BY <1>3, <1>4, <3>3, <3>6, SubOfRest
      <4>. QED BY <3>1, <3>2, <3>6, <4>1 DEF n
    <3>. QED BY <3>5, <3>6
  <2>4. input = present
    <3>. HIDE DEF present, share, want
    <3>1. Len(present) <= share
      BY <1>6, <1>7, <1>8, <2>2 DEF AtMost
    <3>. QED BY <1>6, <1>7, <3>1 DEF Prefix, AtMost, Data
  <2>5. a.bytes = input
    <3>. HIDE DEF input, cap
    <3>. DEFINE n == AtMost(Len(input), cap)
    <3>1. /\ Copy(input, cap).bytes = Prefix(input, n)
          /\ Copy(input, cap).result = IF n < Len(input) THEN "budget" ELSE "ok"
      BY Zenon DEF Copy, Answer
    <3>2. ~(n < Len(input))
      BY <1>2, <2>1, <3>1
    <3>3. n = Len(input)
      <4>1. Len(input) \in Nat
        BY <1>8
      <4>. QED BY <2>0, <3>2, <4>1 DEF AtMost
    <3>4. Prefix(input, Len(input)) = input
      <4>1. AtMost(Len(input), Len(input)) = Len(input)
        BY DEF AtMost
      <4>. QED BY <1>8, <4>1, PrefixFacts DEF Prefix
    <3>. QED BY <2>1, <3>1, <3>3, <3>4
  <2>6. Extracted(d, i.start, STORED, i.extent) =
          SubSeq(d, i.start, AtMost(i.start + i.extent - 1, Len(d)))
    BY DEF Extracted
  <2>. HIDE DEF a, input, present, want, d
  <2>. QED BY <1>1, <1>10, <2>2, <2>3, <2>4, <2>5, <2>6 DEF d
<1>11. CASE i.method = DEFLATE
  <2>1. i.method # STORED
    BY <1>11 DEF STORED, DEFLATE
  <2>2. a = Inflate("deflate", input, cap, paid.entry)
    BY <1>11, <2>1, Zenon
  <2>. DEFINE s == input[1]
  <2>3. /\ input # <<>> /\ s.u = "deflate" /\ a.bytes = s.out /\ a.used = s.used
        /\ ~(Len(input) < s.used)
    <3>. HIDE DEF input, cap, paid
    <3>. QED BY <1>2, <2>2 DEF Inflate, Answer
  <2>. HIDE DEF a, input, want
  <2>4. s.used \in Nat
    BY <1>4, <1>9, <2>3, UnitsAssumption DEF Data
  <2>5. known => s.used <= i.extent
    BY <1>3, <1>5, <1>8, <1>9, <2>3, <2>4
  <2>. QED BY <1>1, <1>9, <1>11, <2>1, <2>3, <2>5 DEF IsA, Coder
<1>12. CASE i.method = BZIP2
  <2>1. i.method # STORED /\ i.method # DEFLATE
    BY <1>12 DEF STORED, DEFLATE, BZIP2
  <2>2. a = Bunzip(input, cap)
    BY <1>12, <2>1, Zenon
  <2>. DEFINE s == input[1]
  <2>3. /\ input # <<>> /\ s.u = "bzip2" /\ a.bytes = s.out /\ a.used = s.used
        /\ ~(Len(input) < s.used)
    <3>. HIDE DEF input, cap
    <3>. QED BY <1>2, <2>2 DEF Bunzip, Answer
  <2>. HIDE DEF a, input, want
  <2>4. s.used \in Nat
    BY <1>4, <1>9, <2>3, UnitsAssumption DEF Data
  <2>5. known => s.used <= i.extent
    BY <1>3, <1>5, <1>8, <1>9, <2>3, <2>4
  <2>. QED BY <1>1, <1>9, <1>12, <2>1, <2>3, <2>5 DEF IsA, Coder
<1>. HIDE DEF r
<1>. QED BY <1>10, <1>11, <1>12 DEF Decodable, r

\* A member decoded whole is visited whole or read as an archive.
LEMMA VisitsDeliver ==
  ASSUME NEW f, NEW i, NEW r, r.trouble = "none", r.bytes # <<>>
  PROVE  LET v == Visits(f, i, r) IN
         v.reads \/ \E w \in v.visits : w.bytes = r.bytes /\ ~w.cut
<1>. DEFINE label(name) == Append(f.path, name)
            nested == IsZipFormat(r.bytes)
            deep == nested /\ f.depth >= limits.depth
            reads == nested /\ ~deep
            visited == ~reads \/ ~(IsA(r.bytes, 1, "local") \/ IsA(r.bytes, 1, "end"))
            names == AtMost(Len(i.aliases), r.shares.entry \div (EntryCost + Len(r.bytes)))
            Visit(name) == [path |-> label(name), bytes |-> r.bytes, cut |-> r.trouble # "none"]
            v == Visits(f, i, r)
            found == {Visit(i.name)} \cup {Visit(i.aliases[k]) : k \in 1..names}
<1>1. v.reads = reads /\ v.visits = IF visited THEN found ELSE {}
  BY Zenon DEF Visits
<1>2. Visit(i.name).bytes = r.bytes /\ ~Visit(i.name).cut
  OBVIOUS
<1>3. Visit(i.name) \in found
  OBVIOUS
<1>4. reads \/ visited
  OBVIOUS
<1>. HIDE DEF reads, visited, found, Visit
<1>5. CASE reads
  BY <1>1, <1>5
<1>6. CASE visited
  BY <1>1, <1>2, <1>3, <1>6
<1>. QED BY <1>4, <1>5, <1>6

-----------------------------------------------------------------------------
(***************************************************************************)
(* Nothing is lost in the queues.                                          *)
(***************************************************************************)
LEMMA EnqueueHolds ==
  ASSUME NEW queue \in Seq(Knowns), NEW i \in Knowns, NEW usize \in Nat
  PROVE  LET q == Enqueue(queue, i, usize) IN
         /\ Range(queue) \subseteq Range(q) /\ i \in Range(q)
         /\ i.method = STORED =>
              \E j \in Range(q) : Key(j) = <<i.start, i.method, usize, Encrypted(i)>>
<1>. DEFINE j == [i EXCEPT !.extent = usize]
            t == IF i.extent # Stream /\ i.method = STORED /\ i.extent # usize THEN <<j>> ELSE <<>>
            q == Enqueue(queue, i, usize)
<1>1. /\ j \in Knowns /\ j.start = i.start /\ j.method = i.method /\ j.extent = usize
      /\ j.enc = i.enc /\ i.extent # Stream
  <2>1. j \in Knowns
    BY DEF Knowns
  <2>2. j.start = i.start /\ j.method = i.method /\ j.extent = usize /\ j.enc = i.enc
    BY DEF Knowns
  <2>3. i.extent \in Nat
    BY DEF Knowns
  <2>4. i.extent # Stream
    BY <2>3 DEF Stream
  <2>. QED BY <2>1, <2>2, <2>4
<1>2. Key(j) = <<i.start, i.method, usize, Encrypted(i)>>
  BY <1>1 DEF Key, Encrypted
<1>3. q = queue \o <<i>> \o t
  BY Zenon DEF Enqueue
<1>. HIDE DEF j, q
<1>4. /\ <<i>> \in Seq(Knowns) /\ t \in Seq(Knowns) /\ queue \o <<i>> \in Seq(Knowns)
      /\ i \in Range(<<i>>)
  <2>. HIDE DEF Knowns
  <2>1. <<i>> \in Seq(Knowns) /\ <<j>> \in Seq(Knowns) /\ <<>> \in Seq(Knowns)
    BY <1>1
  <2>2. i \in Range(<<i>>)
    <3>1. 1 \in DOMAIN <<i>> /\ i = <<i>>[1]
      OBVIOUS
    <3>. QED BY <3>1, RangeHas
  <2>. QED BY <2>1, <2>2
<1>5. Range(q) = Range(queue) \cup Range(<<i>>) \cup Range(t)
  <2>. HIDE DEF Knowns, t
  <2>1. Range(queue \o <<i>>) = Range(queue) \cup Range(<<i>>)
    BY <1>4, ConcatRange
  <2>. DEFINE a == queue \o <<i>>
              V == Knowns
  <2>2. a \in Seq(V) /\ t \in Seq(V) /\ Range(a) = Range(queue) \cup Range(<<i>>)
    BY <1>4, <2>1
  <2>3. q = a \o t
    BY <1>3
  <2>. HIDE DEF a, V
  <2>4. Range(a \o t) = Range(a) \cup Range(t)
    BY <2>2, ConcatRange
  <2>. QED BY <2>2, <2>3, <2>4
<1>6. ASSUME i.method = STORED
      PROVE  \E x \in Range(q) : Key(x) = <<i.start, i.method, usize, Encrypted(i)>>
  <2>1. CASE i.extent = usize
    <3>1. Key(i) = <<i.start, i.method, usize, Encrypted(i)>>
      BY <2>1 DEF Key
    <3>. QED BY <1>4, <1>5, <3>1
  <2>2. CASE i.extent # usize
    <3>1. t = <<j>>
      BY <1>1, <1>6, <2>2
    <3>2. j \in Range(t)
      <4>1. 1 \in DOMAIN <<j>> /\ j = <<j>>[1]
        OBVIOUS
      <4>. QED BY <3>1, <4>1, RangeHas
    <3>. QED BY <1>2, <1>5, <3>2
  <2>. QED BY <2>1, <2>2
<1>. HIDE DEF t
<1>7. Range(queue) \subseteq Range(q) /\ i \in Range(q)
  BY <1>4, <1>5
<1>. QED BY <1>6, <1>7 DEF q

\* Two items for the same bytes of the same member.
SameMember(k, i) ==
  k.header = i.header /\ k.start = i.start /\ k.zip64 = i.zip64 /\ k.extent = i.extent
  /\ Key(k) = Key(i)

\* What an item asks for was done or is in out, and checked if it asks for that.
Kept(out, i, done) ==
  \/ Key(i) \in done
  \/ /\ \E k \in Range(out) : Key(k) = Key(i)
     /\ \A k \in Range(out) : Key(k) = Key(i) /\ i.verify => k.verify

\* Merging leaves which member an item is for, and checks its end if either did.
LEMMA MergeSame ==
  ASSUME NEW V, Sort(V), NEW k \in V, NEW i \in V
  PROVE  Merge(k, i) \in V /\ SameMember(Merge(k, i), k)
         /\ (Merge(k, i).verify <=> k.verify \/ i.verify)
<1>. DEFINE m == Merge(k, i)
<1>1. m \in V
  BY MergeIn
<1>2. /\ m.header = k.header /\ m.start = k.start /\ m.zip64 = k.zip64 /\ m.extent = k.extent
      /\ m.method = k.method /\ m.enc = k.enc /\ m.verify = (k.verify \/ i.verify)
  <2>. DEFINE v == k.verify \/ i.verify
              a == IF i.name = k.name \/ i.name \in Range(k.aliases)
                   THEN k.aliases ELSE Append(k.aliases, i.name)
  <2>1. m = [k EXCEPT !.verify = v, !.aliases = a]
    BY DEF Merge
  <2>. HIDE DEF v, a, m
  <2>2. /\ m.header = k.header /\ m.start = k.start /\ m.zip64 = k.zip64 /\ m.extent = k.extent
        /\ m.method = k.method /\ m.enc = k.enc /\ m.verify = v
    <3>1. CASE V = Knowns
      BY <2>1, <3>1 DEF Knowns
    <3>2. CASE V = Blockings
      BY <2>1, <3>2 DEF Blockings
    <3>. QED BY <3>1, <3>2 DEF Sort
  <2>. QED BY <2>2 DEF v
<1>. HIDE DEF m
<1>3. Key(m) = Key(k)
  BY <1>2 DEF Key, Encrypted
<1>. QED BY <1>1, <1>2, <1>3 DEF SameMember, m

\* Keep sees to the item and loses none of those before it.
LEMMA KeepHolds ==
  ASSUME NEW V, Sort(V), NEW out \in Seq(V), NEW i \in V, NEW done
  PROVE  LET o == Keep(out, i, done) IN
         /\ o \in Seq(V) /\ Kept(o, i, done)
         /\ \A x \in V : Kept(out, x, done) => Kept(o, x, done)
         /\ \A k \in Range(o) :
              \/ \E j \in Range(out) : SameMember(k, j)
              \/ SameMember(k, i) /\ Key(i) \notin done
<1>. DEFINE o == Keep(out, i, done)
            m == [k \in DOMAIN out |-> IF Key(out[k]) = Key(i) THEN Merge(out[k], i) ELSE out[k]]
<1>1. \A j \in V : SameMember(j, j)
  BY DEF SameMember
<1>2. \A k \in DOMAIN out : out[k] \in V
  OBVIOUS
<1>3. o \in Seq(V)
  BY KeepIn
<1>4. CASE Key(i) \in done
  <2>1. o = out
    BY <1>4, Zenon DEF Keep
  <2>2. \A k \in Range(out) : k \in V
    BY <1>2, RangeHas
  <2>. HIDE DEF o
  <2>. QED BY <1>1, <1>3, <1>4, <2>1, <2>2 DEF Kept, o
<1>5. CASE Key(i) \notin done /\ \E k \in DOMAIN out : Key(out[k]) = Key(i)
  <2>1. o = m
    BY <1>5, Zenon DEF Keep
  <2>2. DOMAIN m = DOMAIN out
        /\ \A k \in DOMAIN out : m[k] = IF Key(out[k]) = Key(i) THEN Merge(out[k], i) ELSE out[k]
    OBVIOUS
  <2>. HIDE DEF o, m
  <2>3. ASSUME NEW k \in DOMAIN out
        PROVE  /\ SameMember(m[k], out[k]) /\ m[k] \in V
               /\ m[k].verify <=> (out[k].verify \/ (Key(out[k]) = Key(i) /\ i.verify))
    <3>1. out[k] \in V
      BY <1>2
    <3>2. CASE Key(out[k]) = Key(i)
      <4>1. m[k] = Merge(out[k], i)
        BY <2>2, <3>2
      <4>. QED BY <3>1, <3>2, <4>1, MergeSame
    <3>3. CASE Key(out[k]) # Key(i)
      BY <1>1, <2>2, <3>1, <3>3
    <3>. QED BY <3>2, <3>3
  <2>4. \A k \in DOMAIN out : Key(m[k]) = Key(out[k])
    BY <2>3 DEF SameMember
  <2>5. Kept(m, i, done)
    <3>1. \E k \in Range(m) : Key(k) = Key(i)
      BY <1>5, <2>2, <2>4, RangeHas
    <3>2. \A k \in Range(m) : Key(k) = Key(i) /\ i.verify => k.verify
      BY <2>2, <2>3, <2>4, RangeHas
    <3>. QED BY <3>1, <3>2 DEF Kept
  <2>6. ASSUME NEW x \in V, Kept(out, x, done) PROVE Kept(m, x, done)
    <3>1. CASE Key(x) \in done
      BY <3>1 DEF Kept
    <3>2. CASE Key(x) \notin done
      <4>1. /\ \E k \in DOMAIN out : Key(out[k]) = Key(x)
            /\ \A k \in DOMAIN out : Key(out[k]) = Key(x) /\ x.verify => out[k].verify
        BY <2>6, <3>2, RangeHas DEF Kept
      <4>2. \E k \in Range(m) : Key(k) = Key(x)
        BY <2>2, <2>4, <4>1, RangeHas
      <4>3. \A k \in Range(m) : Key(k) = Key(x) /\ x.verify => k.verify
        BY <2>2, <2>3, <2>4, <4>1, RangeHas
      <4>. QED BY <4>2, <4>3 DEF Kept
    <3>. QED BY <3>1, <3>2
  <2>7. \A k \in Range(m) : \E j \in Range(out) : SameMember(k, j)
    BY <2>2, <2>3, RangeHas
  <2>. QED BY <1>3, <2>1, <2>5, <2>6, <2>7 DEF o
<1>6. CASE Key(i) \notin done /\ ~\E k \in DOMAIN out : Key(out[k]) = Key(i)
  <2>1. o = Append(out, i)
    BY <1>6, Zenon DEF Keep
  <2>. HIDE DEF o
  <2>2. Range(o) = Range(out) \cup {i}
    BY <2>1, AppendRange
  <2>3. \A k \in Range(out) : k \in V /\ Key(k) # Key(i)
    BY <1>2, <1>6, RangeHas
  <2>4. Kept(o, i, done)
    BY <2>2, <2>3 DEF Kept
  <2>5. ASSUME NEW x \in V, Kept(out, x, done) PROVE Kept(o, x, done)
    BY <2>2, <2>3, <2>5 DEF Kept
  <2>. QED BY <1>1, <1>3, <1>6, <2>2, <2>3, <2>4, <2>5 DEF o
<1>. QED BY <1>4, <1>5, <1>6

\* Every item that is not yet done is in the round, once and with the check
\* it asks for, and nothing else is.
LEMMA DedupHolds ==
  ASSUME NEW V, Sort(V), NEW items \in Seq(V), NEW done
  PROVE  LET ks == Dedup(items, done) IN
         /\ ks \in Seq(V) /\ \A i \in Range(items) : Kept(ks, i, done)
         /\ \A k \in Range(ks) : Key(k) \notin done /\ \E i \in Range(items) : SameMember(k, i)
<1>. DEFINE N == Len(items)
<1>1. N \in Nat /\ DOMAIN items = 1..N /\ \A n \in 1..N : items[n] \in V
  OBVIOUS
<1>. HIDE DEF N
<1>2. PICK s \in [0..N -> Seq(V)] :
        /\ s[0] = <<>> /\ Dedup(items, done) = s[N]
        /\ \A n \in 1..N : s[n] = Keep(s[n - 1], items[n], done)
  <2>1. PICK s \in [0..Len(items) -> Seq(V)] : DedupRun(s, items, done)
    BY DedupRuns
  <2>. QED BY <2>1 DEF DedupRun, N
<1>. DEFINE Good(n) ==
       /\ \A m \in 1..n : Kept(s[n], items[m], done)
       /\ \A k \in Range(s[n]) :
            Key(k) \notin done /\ \E m \in 1..n : SameMember(k, items[m])
            S == {n \in Nat : n <= N => Good(n)}
<1>3. 0 \in S
  <2>1. DOMAIN s[0] = {} /\ 1..0 = {}
    BY <1>2
  <2>2. \A k \in Range(s[0]) : FALSE
    BY <2>1, RangeHas
  <2>. QED BY <2>1, <2>2
<1>4. ASSUME NEW n \in Nat, n \in S PROVE n + 1 \in S
  <2>1. SUFFICES ASSUME n + 1 <= N PROVE Good(n + 1)
    OBVIOUS
  <2>2. /\ n + 1 \in 1..N /\ (n + 1) - 1 = n /\ n <= N /\ n \in 0..N /\ 1..n \subseteq 1..N
        /\ \A m \in 1..(n + 1) : m \in 1..n \/ m = n + 1
        /\ \A m \in 1..n : m \in 1..(n + 1)
        /\ n + 1 \in 1..(n + 1)
    BY <1>1, <2>1
  <2>3. Good(n)
    BY <1>4, <2>2
  <2>. DEFINE o == s[n + 1]
              p == s[n]
              i == items[n + 1]
  <2>4. o = Keep(p, i, done) /\ p \in Seq(V) /\ i \in V
    BY <1>1, <1>2, <2>2
  <2>5. /\ Kept(o, i, done) /\ \A x \in V : Kept(p, x, done) => Kept(o, x, done)
        /\ \A k \in Range(o) :
             \/ \E j \in Range(p) : SameMember(k, j)
             \/ SameMember(k, i) /\ Key(i) \notin done
    <3>. HIDE DEF o, p, i
    <3>. QED BY <2>4, KeepHolds
  <2>6. \A m \in 1..(n + 1) : Kept(o, items[m], done)
    <3>1. \A m \in 1..n : Kept(p, items[m], done) /\ items[m] \in V
      BY <1>1, <2>2, <2>3
    <3>. HIDE DEF o, p
    <3>. QED BY <2>2, <2>5, <3>1
  <2>7. ASSUME NEW k \in Range(o)
        PROVE  Key(k) \notin done /\ \E m \in 1..(n + 1) : SameMember(k, items[m])
    <3>1. CASE \E j \in Range(p) : SameMember(k, j)
      <4>1. PICK j \in Range(p) : SameMember(k, j)
        BY <3>1
      <4>2. PICK m \in 1..n : SameMember(j, items[m]) /\ Key(j) \notin done
        BY <2>3
      <4>3. SameMember(k, items[m]) /\ Key(k) \notin done
        BY <4>1, <4>2 DEF SameMember
      <4>. QED BY <2>2, <4>3
    <3>2. CASE SameMember(k, i) /\ Key(i) \notin done
      BY <2>2, <3>2 DEF SameMember
    <3>. HIDE DEF o, p, i
    <3>. QED BY <2>5, <3>1, <3>2
  <2>. QED BY <2>6, <2>7
<1>. HIDE DEF S, Good
<1>5. Nat \subseteq S
  BY <1>3, <1>4, UpFromZero
<1>6. Good(N)
  <2>1. N \in S /\ N <= N
    BY <1>1, <1>5
  <2>. QED BY <2>1 DEF S
<1>7. Dedup(items, done) \in Seq(V)
  BY DedupIn
<1>8. \A i \in Range(items) : \E m \in 1..N : i = items[m]
  BY <1>1, RangeHas
<1>9. \A m \in 1..N : items[m] \in Range(items)
  BY <1>1, RangeHas
<1>. QED BY <1>2, <1>6, <1>7, <1>8, <1>9 DEF Good

\* Insert adds the item wherever it puts it.
LEMMA InsertRange ==
  ASSUME NEW V, NEW out \in Seq(V), NEW i \in V, NEW d
  PROVE  Insert(out, i, d) \in Seq(V) /\ Range(Insert(out, i, d)) = Range(out) \cup {i}
<1>. DEFINE T == {j \in DOMAIN out : NotAfter(out[j], i, d)}
            k == Cardinality(T)
            a == SubSeq(out, 1, k)
            c == SubSeq(out, k + 1, Len(out))
<1>1. k \in Nat /\ k <= Len(out)
  <2>1. IsFiniteSet(1..Len(out)) /\ Cardinality(1..Len(out)) = Len(out)
    <3>1. 1 \in Int /\ Len(out) \in Int /\ Len(out) \in Nat
      OBVIOUS
    <3>2. IsFiniteSet(1..Len(out))
          /\ Cardinality(1..Len(out)) = IF 1 > Len(out) THEN 0 ELSE Len(out) - 1 + 1
      BY <3>1, FS_Interval
    <3>. QED BY <3>1, <3>2
  <2>2. T \in SUBSET (1..Len(out))
    OBVIOUS
  <2>. HIDE DEF T
  <2>3. IsFiniteSet(T) /\ Cardinality(T) <= Cardinality(1..Len(out))
    BY <2>1, <2>2, FS_Subset
  <2>. QED BY <2>1, <2>3, FS_CardinalityType
<1>2. Insert(out, i, d) = a \o <<i>> \o c
  BY DEF Insert
<1>. HIDE DEF k
<1>3. a \in Seq(V) /\ c \in Seq(V) /\ <<i>> \in Seq(V)
  BY <1>1
<1>4. Range(out) = Range(a) \cup Range(c)
  <2>1. DOMAIN a = 1..k /\ \A x \in 1..k : a[x] = out[x]
    BY <1>1
  <2>2. DOMAIN c = 1..(Len(out) - k) /\ \A x \in 1..(Len(out) - k) : c[x] = out[k + x]
    BY <1>1
  <2>. HIDE DEF a, c
  <2>3. ASSUME NEW x \in DOMAIN out PROVE out[x] \in Range(a) \/ out[x] \in Range(c)
    <3>1. CASE x <= k
      <4>1. x \in DOMAIN a /\ a[x] = out[x]
        BY <1>1, <2>1, <3>1
      <4>. QED BY <4>1, RangeHas
    <3>2. CASE ~(x <= k)
      <4>1. x - k \in DOMAIN c /\ k + (x - k) = x
        BY <1>1, <2>2, <3>2
      <4>2. c[x - k] = out[x]
        BY <2>2, <4>1
      <4>. QED BY <4>1, <4>2, RangeHas
    <3>. QED BY <3>1, <3>2
  <2>4. \A x \in DOMAIN a : a[x] \in Range(out)
    <3>1. \A x \in DOMAIN a : x \in DOMAIN out /\ a[x] = out[x]
      BY <1>1, <2>1
    <3>. QED BY <3>1, RangeHas
  <2>5. \A x \in DOMAIN c : c[x] \in Range(out)
    <3>1. \A x \in DOMAIN c : k + x \in DOMAIN out /\ c[x] = out[k + x]
      BY <1>1, <2>2
    <3>. QED BY <3>1, RangeHas
  <2>6. \A x : x \in Range(out) <=> x \in Range(a) \/ x \in Range(c)
    BY <2>3, <2>4, <2>5, RangeHas
  <2>. QED BY <2>6
<1>. HIDE DEF a, c
<1>5. Range(<<i>>) = {i}
  <2>1. DOMAIN <<i>> = {1} /\ <<i>>[1] = i
    OBVIOUS
  <2>2. \A x : x \in Range(<<i>>) <=> x = i
    BY <2>1, RangeHas
  <2>. QED BY <2>2
<1>. DEFINE b == <<i>>
<1>. HIDE DEF b
<1>6. a \o b \in Seq(V) /\ Range(a \o b) = Range(a) \cup Range(b)
  BY <1>3, ConcatRange, ZenonT(60) DEF b
<1>7. Range((a \o b) \o c) = Range(a \o b) \cup Range(c)
  <2>. DEFINE e == a \o b
  <2>. HIDE DEF e
  <2>1. e \in Seq(V)
    BY <1>6 DEF e
  <2>2. e \o c \in Seq(V) /\ Range(e \o c) = Range(e) \cup Range(c)
    BY <1>3, <2>1, ConcatRange
  <2>. QED BY <2>2 DEF e
<1>8. Insert(out, i, d) \in Seq(V)
  BY InsertIn
<1>. QED BY <1>2, <1>4, <1>5, <1>6, <1>7, <1>8 DEF b

\* The same of Sorted.
LEMMA SortedRange ==
  ASSUME NEW V, NEW items \in Seq(V), NEW d
  PROVE  Sorted(items, d) \in Seq(V) /\ Range(Sorted(items, d)) = Range(items)
<1>. DEFINE N == Len(items)
<1>1. N \in Nat /\ DOMAIN items = 1..N /\ \A n \in 1..N : items[n] \in V
  OBVIOUS
<1>. HIDE DEF N
<1>2. PICK s \in [0..N -> Seq(V)] :
        /\ s[0] = <<>> /\ Sorted(items, d) = s[N]
        /\ \A n \in 1..N : s[n] = Insert(s[n - 1], items[n], d)
  <2>1. PICK s \in [0..Len(items) -> Seq(V)] : SortedRun(s, items, d)
    BY SortedRuns
  <2>. QED BY <2>1 DEF SortedRun, N
<1>. DEFINE Good(n) == \A x : x \in Range(s[n]) <=> \E m \in 1..n : x = items[m]
            S == {n \in Nat : n <= N => Good(n)}
<1>3. 0 \in S
  <2>1. DOMAIN s[0] = {} /\ 1..0 = {}
    BY <1>2
  <2>. QED BY <2>1, RangeHas
<1>4. ASSUME NEW n \in Nat, n \in S PROVE n + 1 \in S
  <2>1. SUFFICES ASSUME n + 1 <= N PROVE Good(n + 1)
    OBVIOUS
  <2>2. /\ n + 1 \in 1..N /\ (n + 1) - 1 = n /\ n <= N /\ n \in 0..N
        /\ \A m \in 1..(n + 1) : m \in 1..n \/ m = n + 1
        /\ \A m \in 1..n : m \in 1..(n + 1)
        /\ n + 1 \in 1..(n + 1)
    BY <1>1, <2>1
  <2>3. Good(n)
    BY <1>4, <2>2
  <2>4. s[n + 1] = Insert(s[n], items[n + 1], d) /\ s[n] \in Seq(V) /\ items[n + 1] \in V
    BY <1>1, <1>2, <2>2
  <2>5. Range(s[n + 1]) = Range(s[n]) \cup {items[n + 1]}
    BY <2>4, InsertRange
  <2>. QED BY <2>2, <2>3, <2>5
<1>. HIDE DEF S, Good
<1>5. Nat \subseteq S
  BY <1>3, <1>4, UpFromZero
<1>6. Good(N)
  <2>1. N \in S /\ N <= N
    BY <1>1, <1>5
  <2>. QED BY <2>1 DEF S
<1>7. \A x : x \in Range(items) <=> \E m \in 1..N : x = items[m]
  BY <1>1, RangeHas
<1>8. Sorted(items, d) \in Seq(V)
  BY SortedIn
<1>9. \A x : x \in Range(Sorted(items, d)) <=> x \in Range(items)
  BY <1>2, <1>6, <1>7 DEF Good
<1>. QED BY <1>8, <1>9

-----------------------------------------------------------------------------
(***************************************************************************)
(* What covers a frame still covers it.                                    *)
(***************************************************************************)
\* More was handed over.
LEMMA DoneMore ==
  ASSUME NEW f, NEW g, NEW H, NEW H2, H \subseteq H2, DoneRead(f, H),
         g.data = f.data, g.done = f.done, Ahead(f) \subseteq Ahead(g)
  PROVE  DoneRead(g, H2)
<1>1. \A d, k : Yields(d, k, H) => Yields(d, k, H2)
  BY DEF Yields
<1>2. \A p : Coming(f, p) => Coming(g, p)
  BY DEF Coming
<1>. QED BY <1>1, <1>2 DEF DoneRead

\* The same of an entry of the directory,
LEMMA EntryMore ==
  ASSUME NEW f, NEW g, g.data = f.data, DOMAIN f.byHeader \subseteq DOMAIN g.byHeader,
         Claims(f) \subseteq Claims(g), NEW s, NEW q, EntryRead(f, s, q)
  PROVE  EntryRead(g, s, q)
BY DEF EntryRead

\* of the directory,
LEMMA DirectoryMore ==
  ASSUME NEW f, NEW g, g.data = f.data, DOMAIN f.byHeader \subseteq DOMAIN g.byHeader,
         Claims(f) \subseteq Claims(g), g.dirs = f.dirs, g.at = f.at, g.left = f.left,
         DirectoryRead(f)
  PROVE  DirectoryRead(g)
<1>1. \A s, q : EntryRead(f, s, q) => EntryRead(g, s, q)
  BY EntryMore
<1>. QED BY <1>1 DEF DirectoryRead

\* The key under which a header the directory lists is queued.
ListedKey(f, q) ==
  <<q + 1, LocalAt(f.data, q).method, f.byHeader[q].csize, Encrypted(LocalAt(f.data, q))>>

\* and of a header walked, unless its end is still to be checked.
LEMMA WalkedMore ==
  ASSUME NEW f, NEW g, g.data = f.data, g.byHeader = f.byHeader, g.phase # "open", f.phase # "open",
         Claims(f) \subseteq Claims(g), Ahead(f) \subseteq Ahead(g),
         NEW q, HeaderWalked(f, q),
         LocalAt(f.data, q).method # STORED /\ q \in DOMAIN f.byHeader /\ Checks(f, ListedKey(f, q)) =>
           Checks(g, ListedKey(f, q)) \/ Ends(f.data, q, f.byHeader[q].csize)
  PROVE  HeaderWalked(g, q)
<1>1. \A p : Coming(f, p) => Coming(g, p)
  BY DEF Coming
<1>. QED BY <1>1 DEF HeaderWalked, ListedKey

\* A frame with a budget of its own is covered as the other is.
LEMMA FrameMore ==
  ASSUME NEW f, NEW g, NEW H, NEW H2, H \subseteq H2, FrameCover(f, H),
         g.data = f.data, g.phase = f.phase, g.dirs = f.dirs, g.at = f.at, g.left = f.left,
         g.byHeader = f.byHeader, g.queue = f.queue, g.blocked = f.blocked, g.walks = f.walks,
         g.pos = f.pos, g.walked = f.walked, g.done = f.done, g.round = f.round
  PROVE  FrameCover(g, H2)
<1>1. Claims(g) = Claims(f) /\ Ahead(g) = Ahead(f)
  BY DEF Claims, Ahead
<1>2. DoneRead(g, H2)
  BY <1>1, DoneMore DEF FrameCover
<1>3. g.phase # "open" => DirectoryRead(g)
  BY <1>1, DirectoryMore DEF FrameCover
<1>4. HeadersRead(g)
  BY DEF HeadersRead, FrameCover
<1>5. \A k : Checks(g, k) <=> Checks(f, k)
  BY DEF Checks
<1>6. \A p : Coming(g, p) <=> Coming(f, p)
  BY <1>1 DEF Coming
<1>7. \A q : HeaderWalked(f, q) => HeaderWalked(g, q)
  BY <1>1, <1>5, <1>6 DEF HeaderWalked
<1>8. WalkRead(g)
  BY <1>1, <1>7 DEF WalkRead, FrameCover
<1>9. BlockersRead(g)
  <2>1. \A o : Blocker(g, o) <=> Blocker(f, o)
    BY DEF Blocker
  <2>. QED BY <2>1 DEF BlockersRead, FrameCover
<1>10. PhaseRead(g)
  BY DEF PhaseRead, FrameCover
<1>. QED BY <1>2, <1>3, <1>4, <1>8, <1>9, <1>10 DEF FrameCover

-----------------------------------------------------------------------------
(***************************************************************************)
(* A step of the topmost frame.                                            *)
(***************************************************************************)
\* What the whole visits hold.
Whole == {v.bytes : v \in {x \in visits : ~x.cut}}

\* What Handled has, by its parts.
LEMMA HandledHas ==
  \A x : x \in Handled <=> x = <<>> \/ x \in opened \/ x \in Whole
                           \/ \E k \in DOMAIN stack : x = stack[k].data
BY DEF Handled, Whole

\* A visit more.
LEMMA WholeMore ==
  ASSUME visits \subseteq visits'
  PROVE  Whole \subseteq Whole'
BY DEF Whole

\* The topmost frame is replaced by one for the same bytes.
LEMMA UnderIs ==
  ASSUME ReadInv, stack # <<>>, NEW g \in Frames, stack' = Under(g)
  PROVE  /\ DOMAIN stack' = DOMAIN stack /\ Len(stack) \in DOMAIN stack
         /\ stack'[Len(stack)] = g /\ Top = stack[Len(stack)]
         /\ \A k \in DOMAIN stack : k # Len(stack) => stack'[k] = stack[k]
<1>1. stack \in Seq(Frames) /\ stack' = [stack EXCEPT ![Len(stack)] = g]
  BY DEF Under, ReadInv, TypeOK
<1>2. LET t == [stack EXCEPT ![Len(stack)] = g] IN
      /\ t \in Seq(Frames) /\ Len(t) = Len(stack) /\ t # <<>> /\ DOMAIN t = 1..Len(stack)
      /\ t[Len(stack)] = g /\ \A k \in 1..Len(stack) : k # Len(stack) => t[k] = stack[k]
  BY <1>1, ExceptLast
<1>3. DOMAIN stack = 1..Len(stack) /\ Len(stack) \in 1..Len(stack)
  BY TopIs
<1>. QED BY <1>1, <1>2, <1>3, Zenon DEF Top

\* What was handed over stays so,
LEMMA UnderHandles ==
  ASSUME ReadInv, stack # <<>>, NEW g \in Frames, stack' = Under(g), g.data = Top.data,
         visits \subseteq visits', opened \subseteq opened'
  PROVE  Handled \subseteq Handled'
<1>1. \A k \in DOMAIN stack : k \in DOMAIN stack' /\ stack'[k].data = stack[k].data
  BY UnderIs
<1>2. \A x : x \in Handled' <=> x = <<>> \/ x \in opened' \/ x \in Whole'
                             \/ \E k \in DOMAIN stack' : x = stack'[k].data
  BY DEF Handled, Whole
<1>. QED BY <1>1, <1>2, HandledHas, WholeMore

\* and the invariant is kept if the frame that changed is covered.
LEMMA UnderCovers ==
  ASSUME ReadInv, FramesCovered, OpenedCovered, stack # <<>>, NEW g \in Frames,
         stack' = Under(g), g.data = Top.data, Handled \subseteq Handled',
         opened \subseteq opened', opened' \subseteq opened \cup {Top.data},
         FrameCover(g, Handled'), g.phase # "open", g.data \in opened'
  PROVE  CoverInv'
<1>. DEFINE N == Len(stack)
<1>1. /\ DOMAIN stack' = DOMAIN stack /\ N \in DOMAIN stack /\ stack'[N] = g /\ Top = stack[N]
      /\ \A k \in DOMAIN stack : k # N => stack'[k] = stack[k]
  BY UnderIs
<1>. HIDE DEF N
<1>2. ASSUME NEW k \in DOMAIN stack'
      PROVE  /\ FrameCover(stack'[k], Handled')
             /\ stack'[k].phase # "open" => stack'[k].data \in opened'
  <2>1. CASE k = N
    BY <1>1, <2>1
  <2>2. CASE k # N
    <3>1. /\ stack'[k] = stack[k] /\ FrameCover(stack[k], Handled)
          /\ stack[k].phase # "open" => stack[k].data \in opened
      BY <1>1, <2>2 DEF FramesCovered
    <3>2. FrameCover(stack[k], Handled')
      BY <3>1, FrameMore
    <3>. QED BY <3>1, <3>2
  <2>. QED BY <2>1, <2>2
<1>3. ASSUME NEW d \in opened'
      PROVE  Views(d) \subseteq Handled' \/ \E k \in DOMAIN stack' : stack'[k].data = d /\ stack'[k].phase # "open"
  <2>1. CASE d = Top.data
    BY <1>1, <2>1
  <2>2. CASE d # Top.data
    BY <1>1, <2>2 DEF OpenedCovered
  <2>. QED BY <2>1, <2>2
<1>. QED BY <1>2, <1>3 DEF CoverInv, FramesCovered, OpenedCovered

-----------------------------------------------------------------------------
(***************************************************************************)
(* A nested archive is pushed.                                             *)
(***************************************************************************)
LEMMA NewCovered ==
  ASSUME NEW data, NEW depth, NEW path, NEW total, NEW H
  PROVE  LET h == NewFrame(data, depth, path, total) IN
         FrameCover(h, H) /\ h.phase = "open" /\ h.data = data
<1>. DEFINE h == NewFrame(data, depth, path, total)
<1>1. /\ h.phase = "open" /\ h.data = data /\ h.done = {} /\ h.walked = {} /\ h.round = <<>>
      /\ h.blocked = <<>> /\ h.pos = 0 /\ h.byHeader = <<>> /\ h.walks = <<>> /\ h.queue = <<>>
  BY DEF NewFrame
<1>. HIDE DEF h
<1>2. \A x : x \notin Range(<<>>)
  BY RangeHas
<1>3. DoneRead(h, H) /\ HeadersRead(h) /\ WalkRead(h) /\ BlockersRead(h) /\ PhaseRead(h)
  BY <1>1, <1>2 DEF DoneRead, HeadersRead, WalkRead, BlockersRead, PhaseRead
<1>4. FrameCover(h, H)
  BY <1>1, <1>3 DEF FrameCover
<1>. QED BY <1>1, <1>4 DEF h

\* The stack with one frame more,
LEMMA PushIs ==
  ASSUME ReadInv, stack # <<>>, NEW g \in Frames, NEW h \in Frames, stack' = Append(Under(g), h)
  PROVE  /\ Len(stack) \in DOMAIN stack /\ Len(stack) + 1 \notin DOMAIN stack
         /\ DOMAIN stack' = DOMAIN stack \cup {Len(stack) + 1}
         /\ stack'[Len(stack)] = g /\ stack'[Len(stack) + 1] = h /\ Top = stack[Len(stack)]
         /\ \A k \in DOMAIN stack : k # Len(stack) => stack'[k] = stack[k]
<1>. DEFINE t == [stack EXCEPT ![Len(stack)] = g]
            N == Len(stack)
<1>1. stack \in Seq(Frames) /\ stack' = Append(t, h)
  BY DEF Under, ReadInv, TypeOK
<1>2. /\ t \in Seq(Frames) /\ Len(t) = N /\ t # <<>> /\ DOMAIN t = 1..N
      /\ t[N] = g /\ \A k \in 1..N : k # N => t[k] = stack[k]
  BY <1>1, ExceptLast
<1>3. DOMAIN stack = 1..N /\ N \in 1..N /\ N \in Nat
  BY TopIs
<1>. HIDE DEF t, N
<1>4. DOMAIN Append(t, h) = 1..(N + 1) /\ Append(t, h)[N + 1] = h
      /\ \A k \in 1..N : Append(t, h)[k] = t[k]
  BY <1>2, <1>3
<1>5. 1..(N + 1) = 1..N \cup {N + 1} /\ N + 1 \notin 1..N
  BY <1>3
<1>. QED BY <1>1, <1>2, <1>3, <1>4, <1>5 DEF Top, N

\* what was handed over then,
LEMMA PushHandles ==
  ASSUME ReadInv, stack # <<>>, NEW g \in Frames, NEW h \in Frames,
         stack' = Append(Under(g), h), g.data = Top.data,
         visits \subseteq visits', opened \subseteq opened'
  PROVE  Handled \subseteq Handled' /\ h.data \in Handled'
<1>1. /\ \A k \in DOMAIN stack : k \in DOMAIN stack' /\ stack'[k].data = stack[k].data
      /\ \E k \in DOMAIN stack' : h.data = stack'[k].data
  <2>. DEFINE N == Len(stack)
  <2>1. /\ N \in DOMAIN stack /\ N + 1 \notin DOMAIN stack /\ DOMAIN stack' = DOMAIN stack \cup {N + 1}
        /\ stack'[N] = g /\ stack'[N + 1] = h /\ Top = stack[N]
        /\ \A k \in DOMAIN stack : k # N => stack'[k] = stack[k]
    BY PushIs
  <2>. HIDE DEF N
  <2>. QED BY <2>1
<1>2. \A x : x \in Handled' <=> x = <<>> \/ x \in opened' \/ x \in Whole'
                             \/ \E k \in DOMAIN stack' : x = stack'[k].data
  BY DEF Handled, Whole
<1>. QED BY <1>1, <1>2, HandledHas, WholeMore

\* and the invariant kept, if the frame below is covered.
LEMMA PushCovers ==
  ASSUME ReadInv, FramesCovered, OpenedCovered, stack # <<>>, NEW g \in Frames, NEW h \in Frames,
         stack' = Append(Under(g), h), g.data = Top.data, Handled \subseteq Handled',
         opened' = opened, FrameCover(g, Handled'), g.phase # "open", g.data \in opened,
         FrameCover(h, Handled'), h.phase = "open"
  PROVE  CoverInv'
<1>. DEFINE N == Len(stack)
<1>1. /\ N \in DOMAIN stack /\ N + 1 \notin DOMAIN stack /\ DOMAIN stack' = DOMAIN stack \cup {N + 1}
      /\ stack'[N] = g /\ stack'[N + 1] = h /\ Top = stack[N]
      /\ \A k \in DOMAIN stack : k # N => stack'[k] = stack[k]
  BY PushIs
<1>. HIDE DEF N
<1>2. ASSUME NEW k \in DOMAIN stack'
      PROVE  /\ FrameCover(stack'[k], Handled')
             /\ stack'[k].phase # "open" => stack'[k].data \in opened'
  <2>1. CASE k = N \/ k = N + 1
    BY <1>1, <2>1
  <2>2. CASE k # N /\ k # N + 1
    <3>1. /\ stack'[k] = stack[k] /\ FrameCover(stack[k], Handled)
          /\ stack[k].phase # "open" => stack[k].data \in opened
      BY <1>1, <2>2 DEF FramesCovered
    <3>2. FrameCover(stack[k], Handled')
      BY <3>1, FrameMore
    <3>. QED BY <3>1, <3>2
  <2>. QED BY <2>1, <2>2
<1>3. ASSUME NEW d \in opened'
      PROVE  Views(d) \subseteq Handled' \/ \E k \in DOMAIN stack' : stack'[k].data = d /\ stack'[k].phase # "open"
  <2>1. CASE d = Top.data
    BY <1>1, <2>1
  <2>2. CASE d # Top.data
    BY <1>1, <2>2 DEF OpenedCovered
  <2>. QED BY <2>1, <2>2
<1>. QED BY <1>2, <1>3 DEF CoverInv, FramesCovered, OpenedCovered

\* The frame put on top is one.
LEMMA UnderIn ==
  ASSUME ReadInv, ReadInv', stack # <<>>, NEW g, stack' = Under(g)
  PROVE  g \in Frames
<1>. DEFINE V == Frames \cup {g}
            N == Len(stack)
            t == [stack EXCEPT ![N] = g]
<1>1. stack \in Seq(Frames) /\ stack' \in Seq(Frames) /\ stack' = t
  BY DEF Under, ReadInv, TypeOK
<1>2. stack \in Seq(V)
  <2>. HIDE DEF Frames
  <2>. QED BY <1>1
<1>3. g \in V
  OBVIOUS
<1>4. Len(t) = N /\ t[N] = g
  <2>. HIDE DEF V
  <2>. QED BY <1>2, <1>3, ExceptLast
<1>5. N \in 1..N
  BY TopIs
<1>. HIDE DEF t, N, Frames
<1>. QED BY <1>1, <1>4, <1>5

-----------------------------------------------------------------------------
(***************************************************************************)
(* The steps, while nothing is reported.                                   *)
(***************************************************************************)
LEMMA FirstIs ==
  ASSUME NEW T \in SUBSET Nat, NEW q \in T, \A o \in T : q <= o
  PROVE  (CHOOSE x \in T : \A o \in T : x <= o) = q
<1>. DEFINE m == CHOOSE x \in T : \A o \in T : x <= o
<1>1. m \in T /\ \A o \in T : m <= o
  <2>1. \E x \in T : \A o \in T : x <= o
    OBVIOUS
  <2>. QED BY <2>1, Zenon
<1>2. m \in Nat /\ q \in Nat /\ m <= q /\ q <= m
  BY <1>1
<1>. HIDE DEF m
<1>3. m = q
  BY <1>2
<1>. QED BY <1>3 DEF m

\* Opening an archive: its directories and the first header are to come.
LEMMA OpenCovers ==
  ASSUME ReadInv, FramesCovered, OpenedCovered, Open, gaps' = {}
  PROVE  CoverInv'
<1>. DEFINE f == Top
            d == f.data
            p == FindEnd(d)
            r == IF p = 0 THEN 0 ELSE RecordOf(d, p)
            empty == r # 0 /\ d[r].entries = 0 /\ d[r].size = 0
            dirs == IF r = 0 \/ empty THEN <<>> ELSE Starts(d, r)
            locals == {q \in DOMAIN d : d[q].u = "local"}
            at == IF dirs = <<>> THEN 0 ELSE dirs[1].at
            left == IF dirs = <<>> THEN 0 ELSE d[r].entries
            first == CHOOSE q \in locals : \A o \in locals : q <= o
            walks == IF locals = {} THEN <<>> ELSE <<first>>
            g == [f EXCEPT !.phase = "central", !.dirs = dirs, !.at = at, !.left = left,
                           !.walks = walks]
<1>1. /\ stack # <<>> /\ f.phase = "open" /\ stack' = Under(g) /\ opened' = opened \cup {d}
      /\ visits' = visits
  BY Zenon DEF Open
<1>2. p # 0 /\ (empty \/ dirs # <<>>)
  BY Zenon DEF Open
<1>3. /\ f \in Frames /\ Shaped(f) /\ d \in Data /\ FrameCover(f, Handled)
      /\ f = stack[Len(stack)] /\ Len(stack) \in DOMAIN stack
  BY <1>1, TopIs DEF Frames, FramesCovered, Top
<1>4. g \in Frames
  <2>1. ReadInv'
    BY OpenKeeps
  <2>. HIDE DEF g
  <2>. QED BY <1>1, <2>1, UnderIn
<1>5. /\ f.walked = {} /\ f.done = {} /\ f.round = <<>> /\ f.blocked = <<>> /\ f.pos = 0
      /\ f.byHeader = <<>> /\ f.walks = <<>> /\ f.queue = <<>>
  <2>. HIDE DEF f
  <2>. QED BY <1>1, <1>3 DEF FrameCover, PhaseRead
<1>. HIDE DEF dirs, at, left, walks
<1>6. /\ g.data = d /\ g.phase = "central" /\ g.dirs = dirs /\ g.at = at /\ g.left = left
      /\ g.walks = walks /\ g.walked = {} /\ g.done = {} /\ g.round = <<>> /\ g.blocked = <<>>
      /\ g.pos = 0 /\ g.byHeader = <<>> /\ g.queue = <<>>
  <2>. HIDE DEF f
  <2>. QED BY <1>3, <1>5 DEF Frames
<1>. HIDE DEF g
<1>7. \A x : x \notin Range(<<>>)
  BY RangeHas
<1>8. DoneRead(g, Handled') /\ HeadersRead(g) /\ BlockersRead(g) /\ PhaseRead(g)
  BY <1>6, <1>7 DEF DoneRead, HeadersRead, BlockersRead, PhaseRead
<1>9. WalkRead(g)
  <2>1. ASSUME NEW q \in DOMAIN d, FirstLocal(d, q) PROVE q \in Range(walks)
    <3>1. locals \in SUBSET Nat /\ q \in locals /\ \A o \in locals : q <= o
      <4>. HIDE DEF d
      <4>. QED BY <1>3, <2>1 DEF FirstLocal, IsA, Data
    <3>. HIDE DEF locals
    <3>2. first = q /\ locals # {}
      BY <3>1, FirstIs
    <3>3. walks = <<q>>
      BY <3>2 DEF walks
    <3>4. 1 \in DOMAIN <<q>> /\ q = <<q>>[1]
      OBVIOUS
    <3>. QED BY <3>3, <3>4, RangeHas
  <2>2. \A q \in DOMAIN g.data : FirstLocal(g.data, q) => q \in Ahead(g)
    BY <1>6, <2>1 DEF Ahead
  <2>. QED BY <1>6, <2>2 DEF WalkRead
<1>10. DirectoryRead(g)
  <2>. DEFINE R == RecordAt(d)
  <2>0. r = R
    BY DEF RecordAt
  <2>1. SUFFICES ASSUME R # 0
                 PROVE  /\ Range(dirs) \subseteq Range(Starts(d, R))
                        /\ \A s \in Range(Starts(d, R)) :
                             s \in Range(dirs) \/ \A q \in Listed(d, R, s.at) : EntryRead(g, s, q)
                        /\ dirs # <<>> =>
                             /\ at >= dirs[1].at /\ at + left = dirs[1].at + d[R].entries
                             /\ \A q \in dirs[1].at .. (at - 1) :
                                  IsA(d, q, "central") /\ EntryRead(g, dirs[1], q)
    BY <1>6 DEF DirectoryRead
  <2>2. R \in Nat /\ d[R].entries \in Nat /\ d[R].size \in Nat /\ d[R].start \in Nat
        /\ FindEnd(d) # 0 /\ RecordOf(d, FindEnd(d)) # 0 /\ R = RecordOf(d, FindEnd(d))
    <3>1. FindEnd(d) # 0 /\ RecordOf(d, FindEnd(d)) # 0 /\ R = RecordOf(d, FindEnd(d))
      BY <2>1 DEF RecordAt
    <3>. HIDE DEF R, d
    <3>. QED BY <1>3, <3>1, RecordIs
  <2>. HIDE DEF R, d, f
  <2>3. CASE empty
    <3>1. dirs = <<>>
      BY <2>3 DEF dirs
    <3>2. \A s \in Nat : Listed(d, R, s) = {}
      <4>1. d[R].entries = 0
        BY <2>0, <2>3
      <4>2. DOMAIN d \subseteq Nat
        BY <1>3 DEF Data
      <4>3. ASSUME NEW s \in Nat, NEW q \in Listed(d, R, s) PROVE FALSE
        <5>1. q \in DOMAIN d /\ q >= s /\ q < s + 0
          BY <4>1 DEF Listed
        <5>. QED BY <4>2, <5>1
      <4>. QED BY <4>3
    <3>3. \A s \in Range(Starts(d, R)) : s.at \in Nat
      <4>1. Starts(d, R) \in Seq(Places)
        BY <1>3, <2>2, StartsIn
      <4>2. \A s \in Range(Starts(d, R)) : s \in Places
        <5>. HIDE DEF Places
        <5>. QED BY <4>1, RangeHas
      <4>. QED BY <4>2 DEF Places
    <3>. QED BY <1>7, <3>1, <3>2, <3>3
  <2>4. CASE ~empty
    <3>1. dirs = Starts(d, R) /\ dirs # <<>>
      BY <1>2, <2>0, <2>1, <2>4 DEF dirs
    <3>2. dirs \in Seq(Places)
      BY <1>3, <2>2, <3>1, StartsIn
    <3>3. dirs[1].at \in Nat /\ at = dirs[1].at /\ left = d[R].entries
      <4>1. dirs[1] \in Places
        <5>. HIDE DEF Places
        <5>. QED BY <3>1, <3>2
      <4>. QED BY <2>0, <3>1, <4>1 DEF at, left, Places
    <3>4. dirs[1].at .. (at - 1) = {}
      BY <3>3
    <3>. QED BY <2>2, <3>1, <3>3, <3>4
  <2>. QED BY <2>3, <2>4
<1>11. FrameCover(g, Handled')
  BY <1>8, <1>9, <1>10 DEF FrameCover
<1>12. Handled \subseteq Handled'
  BY <1>1, <1>4, <1>6, UnderHandles
<1>. QED BY <1>1, <1>4, <1>6, <1>11, <1>12, UnderCovers

\* A place of the directory is left for the next one when it was read to its
\* end.
LEMMA NextDirectoryCovers ==
  ASSUME NEW f \in Frames, Shaped(f), f.phase = "central", f.dirs = <<>> \/ f.left = 0,
         NEW H, NEW H2, H \subseteq H2, FrameCover(f, H)
  PROVE  LET g == NextDirectory(f) IN
         FrameCover(g, H2) /\ g.data = f.data /\ g.phase # "open"
<1>. DEFINE g == NextDirectory(f)
            d == f.data
            r == RecordAt(d)
<1>1. /\ f.dirs \in Seq(Places) /\ d \in Data /\ f.at \in Nat /\ f.left \in Nat
      /\ DirectoryRead(f) /\ f.walked = {} /\ f.done = {} /\ f.round = <<>> /\ f.blocked = <<>>
      /\ f.pos = 0 /\ HeadersRead(f) /\ WalkRead(f)
  BY DEF Frames, FrameCover, PhaseRead
<1>2. f.dirs # <<>> => r # 0 /\ r = RecordOf(d, FindEnd(d)) /\ d[r].entries \in Nat
  <2>1. f.dirs # <<>> => FindEnd(d) # 0 /\ RecordOf(d, FindEnd(d)) # 0
    BY DEF Shaped, Placed
  <2>. QED BY <1>1, <2>1, RecordIs DEF RecordAt
<1>. HIDE DEF r
<1>3. /\ g.data = d /\ g.byHeader = f.byHeader /\ g.queue = f.queue /\ g.blocked = <<>>
      /\ g.walks = f.walks /\ g.pos = 0 /\ g.walked = {} /\ g.done = {} /\ g.round = <<>>
      /\ IF Len(f.dirs) <= 1 THEN g.phase = "walk" /\ g.dirs = <<>>
         ELSE /\ g.phase = "central" /\ g.dirs = Tail(f.dirs) /\ g.at = f.dirs[2].at
              /\ g.left = d[RecordOf(d, FindEnd(d))].entries
  <2>1. CASE Len(f.dirs) <= 1
    <3>1. g = [f EXCEPT !.phase = "walk", !.dirs = <<>>]
      BY <2>1 DEF NextDirectory
    <3>. HIDE DEF g
    <3>. QED BY <1>1, <2>1, <3>1 DEF Frames
  <2>2. CASE ~(Len(f.dirs) <= 1)
    <3>. DEFINE e == d[RecordOf(d, FindEnd(d))].entries
    <3>1. g = [f EXCEPT !.dirs = Tail(f.dirs), !.at = f.dirs[2].at, !.left = e]
      BY <2>2 DEF NextDirectory
    <3>. HIDE DEF g, e
    <3>2. /\ g.data = d /\ g.byHeader = f.byHeader /\ g.queue = f.queue /\ g.blocked = f.blocked
          /\ g.walks = f.walks /\ g.pos = f.pos /\ g.walked = f.walked /\ g.done = f.done
          /\ g.round = f.round
      BY <3>1 DEF Frames
    <3>3. /\ g.phase = f.phase /\ g.dirs = Tail(f.dirs) /\ g.at = f.dirs[2].at /\ g.left = e
      BY <3>1 DEF Frames
    <3>. QED BY <1>1, <2>2, <3>2, <3>3 DEF e
  <2>. QED BY <2>1, <2>2
<1>. HIDE DEF g
<1>4. \A x : x \notin Range(<<>>)
  BY RangeHas
<1>5. /\ DoneRead(g, H2) /\ HeadersRead(g) /\ BlockersRead(g) /\ PhaseRead(g) /\ g.phase # "open"
  BY <1>1, <1>3, <1>4 DEF DoneRead, HeadersRead, BlockersRead, PhaseRead
<1>6. Claims(g) = Claims(f) /\ Ahead(g) = Ahead(f)
  BY <1>1, <1>3 DEF Claims, Ahead
<1>7. WalkRead(g)
  BY <1>1, <1>3, <1>6 DEF WalkRead
<1>8. \A s, q : EntryRead(f, s, q) => EntryRead(g, s, q)
  BY <1>3, <1>6, EntryMore
<1>9. f.dirs # <<>> => \A q \in Listed(d, r, f.dirs[1].at) : EntryRead(g, f.dirs[1], q)
  <2>1. SUFFICES ASSUME f.dirs # <<>>, NEW q \in Listed(d, r, f.dirs[1].at)
                 PROVE  EntryRead(g, f.dirs[1], q)
    OBVIOUS
  <2>2. f.dirs[1].at \in Nat
    <3>1. f.dirs[1] \in Places
      <4>. HIDE DEF Places
      <4>. QED BY <1>1, <2>1
    <3>. QED BY <3>1 DEF Places
  <2>3. f.at = f.dirs[1].at + d[r].entries /\ \A x \in f.dirs[1].at .. (f.at - 1) : EntryRead(f, f.dirs[1], x)
    <3>1. r # 0 /\ f.left = 0 /\ r = RecordAt(d)
      BY <1>2, <2>1 DEF r
    <3>. HIDE DEF d
    <3>2. /\ f.at + f.left = f.dirs[1].at + d[r].entries
          /\ \A x \in f.dirs[1].at .. (f.at - 1) : EntryRead(f, f.dirs[1], x)
      BY <1>1, <2>1, <3>1 DEF DirectoryRead, d
    <3>. QED BY <1>1, <3>1, <3>2
  <2>4. q \in Nat /\ q >= f.dirs[1].at /\ q < f.dirs[1].at + d[r].entries
    BY <1>1 DEF Listed, Data
  <2>5. q \in f.dirs[1].at .. (f.at - 1)
    BY <1>1, <1>2, <2>1, <2>2, <2>3, <2>4
  <2>. QED BY <1>8, <2>3, <2>5
<1>10. DirectoryRead(g)
  <2>1. SUFFICES ASSUME r # 0
                 PROVE  /\ Range(g.dirs) \subseteq Range(Starts(d, r))
                        /\ \A s \in Range(Starts(d, r)) :
                             s \in Range(g.dirs) \/ \A q \in Listed(d, r, s.at) : EntryRead(g, s, q)
                        /\ g.dirs # <<>> =>
                             /\ g.at >= g.dirs[1].at /\ g.at + g.left = g.dirs[1].at + d[r].entries
                             /\ \A q \in g.dirs[1].at .. (g.at - 1) :
                                  IsA(d, q, "central") /\ EntryRead(g, g.dirs[1], q)
    BY <1>3 DEF DirectoryRead, r
  <2>2. /\ Range(f.dirs) \subseteq Range(Starts(d, r))
        /\ \A s \in Range(Starts(d, r)) :
             s \in Range(f.dirs) \/ \A q \in Listed(d, r, s.at) : EntryRead(g, s, q)
    BY <1>1, <1>8, <2>1 DEF DirectoryRead, r
  <2>3. f.dirs # <<>> => Range(f.dirs) = {f.dirs[1]} \cup Range(Tail(f.dirs))
    <3>. HIDE DEF Places
    <3>1. f.dirs # <<>> => Range(f.dirs) = {Head(f.dirs)} \cup Range(Tail(f.dirs))
      BY <1>1, HeadRange
    <3>. QED BY <1>1, <3>1
  <2>4. CASE Len(f.dirs) <= 1
    <3>1. f.dirs # <<>> => Tail(f.dirs) = <<>>
      <4>. HIDE DEF Places
      <4>. QED BY <1>1, <2>4
    <3>. QED BY <1>3, <1>4, <1>9, <2>2, <2>3, <2>4, <3>1
  <2>5. CASE ~(Len(f.dirs) <= 1)
    <3>1. f.dirs # <<>> /\ g.dirs = Tail(f.dirs) /\ g.dirs # <<>> /\ g.dirs[1] = f.dirs[2]
          /\ f.dirs[2] \in Places
      <4>. DEFINE w == f.dirs
      <4>1. w \in Seq(Places) /\ ~(Len(w) <= 1) /\ g.dirs = Tail(w)
        BY <1>1, <1>3, <2>5
      <4>. HIDE DEF Places, w
      <4>2. w # <<>> /\ Tail(w) # <<>> /\ Tail(w)[1] = w[2] /\ w[2] \in Places
        <5>. DEFINE n == Len(w)
                    t == Tail(w)
        <5>1. n \in Nat /\ ~(n <= 1) /\ w # <<>> /\ w[2] \in Places
          BY <4>1
        <5>2. t \in Seq(Places) /\ Len(t) = n - 1
          BY <4>1, <5>1
        <5>3. 1 \in 1..(n - 1) /\ t[1] = w[1 + 1]
          BY <4>1, <5>1
        <5>4. t # <<>>
          <6>. HIDE DEF t, n
          <6>. QED BY <5>1, <5>2
        <5>. QED BY <5>1, <5>3, <5>4
      <4>. QED BY <4>1, <4>2 DEF w
    <3>2. g.at = g.dirs[1].at /\ g.left = d[r].entries /\ g.at \in Nat
      BY <1>2, <1>3, <2>5, <3>1 DEF Places
    <3>3. g.dirs[1].at .. (g.at - 1) = {}
      BY <3>2
    <3>4. d[r].entries \in Nat
      BY <1>2, <3>1
    <3>5. /\ g.at >= g.dirs[1].at /\ g.at + g.left = g.dirs[1].at + d[r].entries
      <4>. DEFINE e == d[r].entries
                  a == g.dirs[1].at
      <4>1. g.at = a /\ g.left = e /\ a \in Nat /\ e \in Nat
        BY <3>2, <3>4
      <4>. HIDE DEF a, e
      <4>2. g.at >= a /\ g.at + g.left = a + e
        BY <4>1
      <4>. QED BY <4>2 DEF a, e
    <3>6. Range(f.dirs) = {f.dirs[1]} \cup Range(g.dirs)
      BY <2>3, <3>1
    <3>7. \A q \in Listed(d, r, f.dirs[1].at) : EntryRead(g, f.dirs[1], q)
      BY <1>9, <3>1
    <3>. HIDE DEF d
    <3>. QED BY <2>2, <3>3, <3>5, <3>6, <3>7
  <2>. QED BY <2>4, <2>5
<1>11. FrameCover(g, H2)
  BY <1>5, <1>7, <1>10 DEF FrameCover
<1>. QED BY <1>3, <1>5, <1>11 DEF g

\* An entry whose header is there and says the same is queued in full.
LEMMA EntryCovers ==
  ASSUME NEW f \in Frames, Shaped(f), f.phase = "central", f.dirs # <<>>, f.left > 0,
         IsA(f.data, f.at, "central"), NEW H, NEW H2, H \subseteq H2, FrameCover(f, H),
         EntryReadings(f, CentralAt(f.data, f.at)).gaps = {}
  PROVE  LET g == [EntryReadings(f, CentralAt(f.data, f.at)).frame EXCEPT !.at = @ + 1, !.left = @ - 1]
         IN FrameCover(g, H2) /\ g.data = f.data /\ g.phase = "central"
<1>. DEFINE d == f.data
            r == RecordAt(d)
            entry == CentralAt(f.data, f.at)
            s1 == f.dirs[1]
            header == entry.header + f.dirs[1].delta
            local == LocalAt(f.data, header)
            item == [FromLocal(header, local) EXCEPT
                       !.name = entry.name, !.method = entry.method, !.enc = entry.enc,
                       !.extent = entry.csize, !.crc = entry.crc]
            first == Enqueue(f.queue, item, entry.usize)
            sizes == [csize |-> entry.csize, usize |-> entry.usize, crc |-> entry.crc]
            readings == [q \in DOMAIN f.byHeader \cup {header} |->
                           IF q \in DOMAIN f.byHeader THEN f.byHeader[q] ELSE sizes]
            h == EntryReadings(f, entry).frame
            g == [h EXCEPT !.at = @ + 1, !.left = @ - 1]
<1>1. /\ IsA(d, header, "local") /\ ~Differs(local, entry)
      /\ h = [f EXCEPT !.byHeader = readings, !.queue = first]
  <2>1. IsA(f.data, header, "local")
    BY Zenon DEF EntryReadings
  <2>2. ~Differs(local, entry)
    BY <2>1, Zenon DEF EntryReadings
  <2>3. h = [f EXCEPT !.byHeader = readings, !.queue = first]
    BY <2>1, <2>2 DEF EntryReadings
  <2>. QED BY <2>1, <2>2, <2>3
<1>2. /\ f.dirs \in Seq(Places) /\ d \in Data /\ f.at \in Nat /\ f.left \in Nat
      /\ DirectoryRead(f) /\ f.walked = {} /\ f.done = {} /\ f.round = <<>> /\ f.blocked = <<>>
      /\ f.pos = 0 /\ HeadersRead(f) /\ WalkRead(f) /\ f.queue \in Seq(Knowns)
  BY DEF Frames, FrameCover, PhaseRead
<1>3. /\ s1 \in Places /\ s1.at \in Nat /\ s1.delta \in Nat /\ entry \in Centrals
      /\ entry.header \in Nat /\ header \in Nat
  <2>1. s1 \in Places
    <3>. HIDE DEF Places
    <3>. QED BY <1>2
  <2>2. entry \in Centrals
    BY <1>2, CentralIs
  <2>. HIDE DEF entry
  <2>3. s1.at \in Nat /\ s1.delta \in Nat /\ entry.header \in Nat
    BY <2>1, <2>2 DEF Places, Centrals
  <2>. QED BY <2>1, <2>2, <2>3
<1>4. r # 0 /\ r = RecordOf(d, FindEnd(d)) /\ d[r].entries \in Nat /\ FindEnd(d) # 0
  <2>1. FindEnd(d) # 0 /\ RecordOf(d, FindEnd(d)) # 0
    BY DEF Shaped, Placed
  <2>. QED BY <1>2, <2>1, RecordIs DEF RecordAt
<1>5. /\ g.data = d /\ g.phase = "central" /\ g.dirs = f.dirs /\ g.at = f.at + 1 /\ g.left = f.left - 1
      /\ g.byHeader = readings /\ g.queue = first /\ g.blocked = <<>> /\ g.walks = f.walks
      /\ g.pos = 0 /\ g.walked = {} /\ g.done = {} /\ g.round = <<>>
  <2>. HIDE DEF readings, first, h
  <2>1. /\ h.data = d /\ h.phase = "central" /\ h.dirs = f.dirs /\ h.at = f.at /\ h.left = f.left
        /\ h.byHeader = readings /\ h.queue = first /\ h.blocked = <<>> /\ h.walks = f.walks
        /\ h.pos = 0 /\ h.walked = {} /\ h.done = {} /\ h.round = <<>>
        /\ DOMAIN h = DOMAIN f
    BY <1>1, <1>2 DEF Frames
  <2>2. "at" \in DOMAIN h /\ "left" \in DOMAIN h
    BY <2>1 DEF Frames
  <2>. QED BY <2>1, <2>2
<1>6. /\ item \in Knowns /\ Key(item) = <<header + 1, entry.method, entry.csize, Encrypted(entry)>>
      /\ entry.usize \in Nat /\ item.method = entry.method /\ item.start = header + 1
      /\ Encrypted(item) = Encrypted(entry)
  <2>1. local \in Locals
    <3>. HIDE DEF entry, header
    <3>. QED BY <1>1, <1>2, LocalIs
  <2>. HIDE DEF local, header, entry
  <2>2. FromLocal(header, local) \in Knowns /\ FromLocal(header, local).start = header + 1
    BY <1>3, <2>1, FromLocalIs DEF FromLocal
  <2>. DEFINE k == FromLocal(header, local)
  <2>. HIDE DEF k
  <2>3. /\ entry.name \in STRING /\ entry.method \in Nat /\ entry.enc \in BOOLEAN
        /\ entry.csize \in Nat /\ entry.usize \in Nat /\ entry.crc \in Int
    BY <1>3 DEF Centrals
  <2>. DEFINE j == [k EXCEPT !.name = entry.name, !.method = entry.method, !.enc = entry.enc,
                             !.extent = entry.csize, !.crc = entry.crc]
  <2>4. j \in Knowns /\ j.method = entry.method /\ j.start = k.start /\ j.enc = entry.enc
        /\ j.extent = entry.csize
    <3>1. k \in Knowns
      BY <2>2 DEF k
    <3>2. j \in Knowns
      BY <2>3, <3>1 DEF Knowns
    <3>3. j.method = entry.method /\ j.start = k.start /\ j.enc = entry.enc /\ j.extent = entry.csize
      BY <2>3, <3>1 DEF Knowns
    <3>. QED BY <3>2, <3>3
  <2>5. item = j
    BY DEF k
  <2>. HIDE DEF j, item
  <2>6. Encrypted(item) = Encrypted(entry)
    BY <2>4, <2>5 DEF Encrypted
  <2>7. k.start = header + 1
    BY <2>2 DEF k
  <2>. QED BY <2>3, <2>4, <2>5, <2>6, <2>7 DEF Key
<1>. HIDE DEF item, local, h, g, r
<1>7. /\ Range(f.queue) \subseteq Range(first) /\ item \in Range(first)
      /\ entry.method = STORED =>
           \E j \in Range(first) : Key(j) = <<header + 1, entry.method, entry.usize, Encrypted(entry)>>
  <2>. HIDE DEF entry, header, Knowns
  <2>. QED BY <1>2, <1>6, EnqueueHolds
<1>. HIDE DEF first
<1>8. \A x : x \notin Range(<<>>)
  BY RangeHas
<1>9. Claims(f) \subseteq Claims(g)
  BY <1>2, <1>5, <1>7 DEF Claims
<1>10. Ahead(g) = Ahead(f)
  BY <1>2, <1>5 DEF Ahead
<1>11. DoneRead(g, H2) /\ BlockersRead(g) /\ PhaseRead(g)
  BY <1>5, <1>8 DEF DoneRead, BlockersRead, PhaseRead
<1>12. WalkRead(g)
  BY <1>2, <1>5, <1>10 DEF WalkRead
<1>13. /\ DOMAIN readings = DOMAIN f.byHeader \cup {header}
       /\ \A q \in DOMAIN f.byHeader : readings[q] = f.byHeader[q]
       /\ header \notin DOMAIN f.byHeader => readings[header].csize = entry.csize
  <2>. HIDE DEF header, entry
  <2>. QED OBVIOUS
<1>. HIDE DEF readings
<1>14. \A s, q : EntryRead(f, s, q) => EntryRead(g, s, q)
  BY <1>5, <1>9, <1>13, EntryMore
<1>15. EntryRead(g, s1, f.at)
  <2>1. /\ <<header + 1, entry.method, entry.csize, Encrypted(entry)>> \in Claims(g)
        /\ entry.method = STORED =>
             <<header + 1, entry.method, entry.usize, Encrypted(entry)>> \in Claims(g)
    <3>. HIDE DEF entry, header
    <3>. QED BY <1>5, <1>6, <1>7 DEF Claims
  <2>. QED BY <1>5, <1>13, <2>1 DEF EntryRead
<1>16. /\ Range(f.dirs) \subseteq Range(Starts(d, r))
       /\ \A s \in Range(Starts(d, r)) :
            s \in Range(f.dirs) \/ \A q \in Listed(d, r, s.at) : EntryRead(f, s, q)
       /\ f.at >= s1.at /\ f.at + f.left = s1.at + d[r].entries
       /\ \A q \in s1.at .. (f.at - 1) : IsA(d, q, "central") /\ EntryRead(f, s1, q)
  BY <1>2, <1>4 DEF DirectoryRead, r
<1>17. \A q \in s1.at .. (g.at - 1) : IsA(d, q, "central") /\ EntryRead(g, s1, q)
  <2>1. \A q \in s1.at .. (g.at - 1) : q \in s1.at .. (f.at - 1) \/ q = f.at
    BY <1>2, <1>3, <1>5
  <2>. HIDE DEF s1, d
  <2>2. IsA(d, f.at, "central")
    BY DEF d
  <2>. QED BY <1>14, <1>15, <1>16, <2>1, <2>2
<1>18. DirectoryRead(g)
  <2>1. /\ g.at >= s1.at /\ g.at + g.left = s1.at + d[r].entries
    <3>. DEFINE a == s1.at
                e == d[r].entries
    <3>. HIDE DEF a, e
    <3>1. a \in Nat /\ e \in Nat /\ f.at >= a /\ f.at + f.left = a + e
      BY <1>3, <1>4, <1>16 DEF a, e
    <3>2. g.at >= a /\ g.at + g.left = a + e
      BY <1>2, <1>5, <3>1, SMTT(60)
    <3>. QED BY <3>2 DEF a, e
  <2>2. /\ \A s \in Range(Starts(d, r)) :
             s \in Range(g.dirs) \/ \A q \in Listed(d, r, s.at) : EntryRead(g, s, q)
        /\ Range(g.dirs) \subseteq Range(Starts(d, r)) /\ g.dirs[1] = s1
    BY <1>5, <1>14, <1>16
  <2>. HIDE DEF s1
  <2>. QED BY <1>5, <1>17, <2>1, <2>2 DEF DirectoryRead, r
<1>19. HeadersRead(g)
  <2>1. <<header, entry.csize>> \in Sized(d)
    <3>1. f.at \in Listed(d, r, s1.at)
      <4>1. f.at \in DOMAIN d /\ f.at >= s1.at /\ f.at < s1.at + d[r].entries
        <5>. DEFINE a == s1.at
                    e == d[r].entries
        <5>1. a \in Nat /\ e \in Nat /\ f.at >= a /\ f.at + f.left = a + e
          BY <1>3, <1>4, <1>16
        <5>2. f.at \in DOMAIN d
          BY DEF IsA
        <5>. HIDE DEF a, e
        <5>3. f.at < a + e
          BY <1>2, <5>1
        <5>. QED BY <5>1, <5>2, <5>3 DEF a, e
      <4>2. \A x \in s1.at .. f.at : IsA(d, x, "central")
        <5>1. s1.at .. f.at = s1.at .. (g.at - 1)
          BY <1>2, <1>5
        <5>. QED BY <1>17, <5>1
      <4>. HIDE DEF d, s1
      <4>. QED BY <4>1, <4>2 DEF Listed
    <3>2. s1 \in Range(Starts(d, r))
      <4>1. s1 \in Range(f.dirs)
        <5>. HIDE DEF Places
        <5>1. f.dirs # <<>> => 1 \in DOMAIN f.dirs
          BY <1>2
        <5>. QED BY <5>1, RangeHas
      <4>. HIDE DEF s1
      <4>. QED BY <1>16, <4>1
    <3>. HIDE DEF d, s1
    <3>3. <<CentralAt(d, f.at).header + s1.delta, CentralAt(d, f.at).csize>> \in Sized(d)
      <4>. DEFINE t == Listed(d, r, s1.at)
                  e(s, q) == <<CentralAt(d, q).header + s.delta, CentralAt(d, q).csize>>
      <4>1. Sized(d) = UNION {{e(s, q) : q \in Listed(d, r, s.at)} : s \in Range(Starts(d, r))}
        BY <1>4 DEF Sized
      <4>2. e(s1, f.at) \in {e(s1, q) : q \in Listed(d, r, s1.at)}
        BY <3>1
      <4>. HIDE DEF e
      <4>3. e(s1, f.at) \in UNION {{e(s, q) : q \in Listed(d, r, s.at)} : s \in Range(Starts(d, r))}
        BY <3>2, <4>2
      <4>. QED BY <4>1, <4>3 DEF e
    <3>. QED BY <3>3 DEF d, s1
  <2>2. \A q \in DOMAIN f.byHeader : <<q, f.byHeader[q].csize>> \in Sized(d)
    BY <1>2 DEF HeadersRead
  <2>. HIDE DEF header, entry, d
  <2>3. ASSUME NEW q \in DOMAIN g.byHeader PROVE <<q, g.byHeader[q].csize>> \in Sized(d)
    <3>1. CASE q \in DOMAIN f.byHeader
      BY <1>5, <1>13, <2>2, <3>1
    <3>2. CASE q = header /\ header \notin DOMAIN f.byHeader
      BY <1>5, <1>13, <2>1, <3>2
    <3>. QED BY <1>5, <1>13, <3>1, <3>2
  <2>. QED BY <1>5, <2>3 DEF HeadersRead
<1>20. FrameCover(g, H2)
  BY <1>11, <1>12, <1>18, <1>19 DEF FrameCover
<1>. QED BY <1>5, <1>20 DEF g, h

\* A step through the directory.
LEMMA CentralCovers ==
  ASSUME ReadInv, FramesCovered, OpenedCovered, CentralEntry, gaps' = {}
  PROVE  CoverInv'
<1>. DEFINE f == Top
            r == EntryReadings(f, CentralAt(f.data, f.at))
            on == [r.frame EXCEPT !.at = @ + 1, !.left = @ - 1]
<1>1. stack # <<>> /\ f.phase = "central" /\ opened' = opened /\ visits' = visits
  BY DEF CentralEntry
<1>2. \/ (f.dirs = <<>> \/ f.left = 0) /\ stack' = Under(NextDirectory(f))
      \/ /\ f.dirs # <<>> /\ f.left > 0 /\ IsA(f.data, f.at, "central")
         /\ r.gaps = {} /\ stack' = Under(on)
  <2>1. \/ (f.dirs = <<>> \/ f.left = 0) /\ stack' = Under(NextDirectory(f))
        \/ \E x : gaps' = gaps \cup {x}
        \/ /\ f.dirs # <<>> /\ f.left > 0 /\ IsA(f.data, f.at, "central")
           /\ gaps' = gaps \cup r.gaps /\ stack' = Under(on)
    BY Zenon DEF CentralEntry
  <2>. HIDE DEF r, on
  <2>. QED BY <2>1
<1>3. /\ f \in Frames /\ Shaped(f) /\ FrameCover(f, Handled) /\ f.data \in opened
  <2>1. /\ f \in Frames /\ Shaped(f) /\ f = stack[Len(stack)] /\ Len(stack) \in DOMAIN stack
    BY <1>1, TopIs DEF Top
  <2>. QED BY <1>1, <2>1 DEF FramesCovered
<1>4. ReadInv'
  BY CentralKeeps
<1>5. CASE (f.dirs = <<>> \/ f.left = 0) /\ stack' = Under(NextDirectory(f))
  <2>. DEFINE g == NextDirectory(f)
  <2>1. \A H2 : Handled \subseteq H2 => FrameCover(g, H2)
    <3>. HIDE DEF f
    <3>. QED BY <1>1, <1>3, <1>5, NextDirectoryCovers
  <2>2. g.data = f.data /\ g.phase # "open"
    <3>. HIDE DEF f
    <3>. QED BY <1>1, <1>3, <1>5, NextDirectoryCovers
  <2>3. stack' = Under(g)
    BY <1>5
  <2>. HIDE DEF g
  <2>4. g \in Frames
    BY <1>1, <1>4, <2>3, UnderIn
  <2>5. Handled \subseteq Handled'
    BY <1>1, <2>2, <2>3, <2>4, UnderHandles
  <2>6. FrameCover(g, Handled')
    BY <2>1, <2>5
  <2>. QED BY <1>1, <1>3, <2>2, <2>3, <2>4, <2>5, <2>6, UnderCovers
<1>6. CASE /\ f.dirs # <<>> /\ f.left > 0 /\ IsA(f.data, f.at, "central")
           /\ r.gaps = {} /\ stack' = Under(on)
  <2>. DEFINE g == on
  <2>1. \A H2 : Handled \subseteq H2 => FrameCover(g, H2)
    <3>. HIDE DEF f
    <3>. QED BY <1>1, <1>3, <1>6, EntryCovers
  <2>2. g.data = f.data /\ g.phase # "open"
    <3>. HIDE DEF f
    <3>1. g.data = f.data /\ g.phase = "central"
      BY <1>1, <1>3, <1>6, EntryCovers
    <3>. HIDE DEF g
    <3>. QED BY <3>1
  <2>3. stack' = Under(g)
    BY <1>6
  <2>. HIDE DEF g
  <2>4. g \in Frames
    BY <1>1, <1>4, <2>3, UnderIn
  <2>5. Handled \subseteq Handled'
    BY <1>1, <2>2, <2>3, <2>4, UnderHandles
  <2>6. FrameCover(g, Handled')
    BY <2>1, <2>5
  <2>. QED BY <1>1, <1>3, <2>2, <2>3, <2>4, <2>5, <2>6, UnderCovers
<1>. HIDE DEF r, on
<1>. QED BY <1>2, <1>5, <1>6

\* A round that ends.
LEMMA EndRoundCovers ==
  ASSUME ReadInv, FramesCovered, OpenedCovered, EndRound, gaps' = {}
  PROVE  CoverInv'
<1>. DEFINE f == Top
            g == [f EXCEPT !.phase = "walk"]
<1>1. /\ stack # <<>> /\ f.phase = "round" /\ f.round = <<>> /\ stack' = Under(g)
      /\ opened' = opened /\ visits' = visits
  BY DEF EndRound
<1>2. f \in Frames /\ FrameCover(f, Handled) /\ f.data \in opened
  <2>1. f \in Frames /\ f = stack[Len(stack)] /\ Len(stack) \in DOMAIN stack
    BY <1>1, TopIs DEF Top
  <2>. QED BY <1>1, <2>1 DEF FramesCovered
<1>3. /\ g.data = f.data /\ g.phase = "walk" /\ g.dirs = f.dirs /\ g.at = f.at /\ g.left = f.left
      /\ g.byHeader = f.byHeader /\ g.queue = f.queue /\ g.blocked = f.blocked
      /\ g.walks = f.walks /\ g.pos = f.pos /\ g.walked = f.walked /\ g.done = f.done
      /\ g.round = f.round
  <2>. HIDE DEF f
  <2>. QED BY <1>2 DEF Frames
<1>4. g \in Frames
  <2>1. ReadInv'
    BY EndRoundKeeps
  <2>. HIDE DEF g
  <2>. QED BY <1>1, <2>1, UnderIn
<1>. HIDE DEF g
<1>5. Handled \subseteq Handled'
  BY <1>1, <1>3, <1>4, UnderHandles
<1>6. FrameCover(g, Handled')
  <2>. HIDE DEF f
  <2>1. /\ DoneRead(f, Handled) /\ DirectoryRead(f) /\ HeadersRead(f) /\ WalkRead(f)
        /\ BlockersRead(f) /\ PhaseRead(f)
    BY <1>1, <1>2 DEF FrameCover
  <2>2. Claims(g) = Claims(f) /\ Ahead(g) = Ahead(f) /\ \A k : Checks(g, k) <=> Checks(f, k)
    BY <1>3 DEF Claims, Ahead, Checks
  <2>3. DoneRead(g, Handled') /\ DirectoryRead(g) /\ HeadersRead(g)
    BY <1>3, <1>5, <2>1, <2>2, DoneMore, DirectoryMore DEF HeadersRead
  <2>4. WalkRead(g)
    <3>1. \A p : Coming(f, p) => Coming(g, p)
      BY <1>3, <2>2 DEF Coming
    <3>2. \A q : HeaderWalked(f, q) => HeaderWalked(g, q)
      BY <1>3, <2>2, <3>1 DEF HeaderWalked
    <3>. QED BY <1>1, <1>3, <2>1, <2>2, <3>2 DEF WalkRead
  <2>5. BlockersRead(g)
    <3>1. \A o : Blocker(g, o) <=> Blocker(f, o)
      BY <1>3 DEF Blocker
    <3>. QED BY <1>3, <2>1, <3>1 DEF BlockersRead
  <2>6. PhaseRead(g)
    BY <1>1, <1>3, <2>1 DEF PhaseRead
  <2>. QED BY <2>3, <2>4, <2>5, <2>6 DEF FrameCover
<1>7. g.phase # "open"
  BY <1>3
<1>. QED BY <1>1, <1>2, <1>3, <1>4, <1>5, <1>6, <1>7, UnderCovers

-----------------------------------------------------------------------------
(***************************************************************************)
(* The walk.                                                               *)
(***************************************************************************)
\* What the walk makes of a header: the interpretation it queues, and how far
\* the member goes.
LEMMA ReadingSays ==
  ASSUME NEW f \in Frames, IsA(f.data, f.pos, "local")
  PROVE  LET local == LocalAt(f.data, f.pos)
             r == Reading(f, local)
             KeyOf(n) == <<f.pos + 1, local.method, n, Encrypted(local)>>
         IN /\ ~local.stream => Key(r.item) = KeyOf(local.csize) /\ r.extent = local.csize
            /\ local.stream /\ f.pos \in DOMAIN f.byHeader =>
                 /\ Key(r.item) = KeyOf(f.byHeader[f.pos].csize)
                 /\ r.extent = f.byHeader[f.pos].csize
                 /\ r.item.verify = (local.method \in {DEFLATE, BZIP2})
            /\ local.stream /\ f.pos \notin DOMAIN f.byHeader /\ local.method # STORED =>
                 r.item = FromLocal(f.pos, local) /\ r.extent = -1
<1>. DEFINE local == LocalAt(f.data, f.pos)
            r == Reading(f, local)
            p == f.pos
            item == FromLocal(p, local)
            known == p \in DOMAIN f.byHeader
            sizes == f.byHeader[p]
            search == FindStoredEnd(f.data, p + 1, local.extra # <<>>, f.shares.remaining)
            Unknown == [item |-> item, extent |-> -1, usize |-> 0, scanned |-> 0]
            KeyOf(n) == <<p + 1, local.method, n, Encrypted(local)>>
<1>1. /\ f.data \in Data /\ f.byHeader \in UNION {[S -> Sizes] : S \in SUBSET Nat}
  BY DEF Frames
<1>2. local \in Locals /\ p \in Nat
  <2>. HIDE DEF p
  <2>1. IsA(f.data, p, "local")
    BY DEF p
  <2>. QED BY <1>1, <2>1, LocalIs DEF p
<1>3. /\ ~local.stream => r = [Unknown EXCEPT !.extent = local.csize, !.usize = local.usize]
      /\ local.stream /\ known =>
           r = [Unknown EXCEPT !.item.verify = local.method \in {DEFLATE, BZIP2},
                         !.item.crc = sizes.crc, !.item.extent = sizes.csize,
                         !.extent = sizes.csize, !.usize = sizes.usize]
      /\ local.stream /\ ~known /\ local.method # STORED => r = Unknown
  BY DEF Reading
<1>. HIDE DEF local, known, sizes
<1>4. /\ item \in Knowns /\ item.start = p + 1 /\ item.method = local.method /\ item.enc = local.enc
      /\ item.extent = local.csize
  BY <1>2, FromLocalIs DEF FromLocal
<1>. HIDE DEF item, r
<1>5. CASE ~local.stream
  <2>1. r.item = item /\ r.extent = local.csize
    BY <1>3, <1>5
  <2>2. Key(item) = KeyOf(local.csize)
    BY <1>4 DEF Key, Encrypted
  <2>. QED BY <1>5, <2>1, <2>2 DEF r, local
<1>6. CASE local.stream /\ known
  <2>. DEFINE v == local.method \in {DEFLATE, BZIP2}
              j == [item EXCEPT !.verify = v, !.crc = sizes.crc, !.extent = sizes.csize]
  <2>1. r.item = j /\ r.extent = sizes.csize
    <3>1. r = [Unknown EXCEPT !.item.verify = v, !.item.crc = sizes.crc,
                         !.item.extent = sizes.csize,
                         !.extent = sizes.csize, !.usize = sizes.usize]
      BY <1>3, <1>6
    <3>. HIDE DEF v
    <3>. QED BY <3>1
  <2>. HIDE DEF v
  <2>2. j.start = p + 1 /\ j.method = local.method /\ j.enc = local.enc /\ j.extent = sizes.csize
        /\ j.verify = v
    BY <1>4 DEF Knowns
  <2>. HIDE DEF j
  <2>3. Key(j) = KeyOf(sizes.csize)
    BY <2>2 DEF Key, Encrypted
  <2>. QED BY <1>6, <2>1, <2>2, <2>3 DEF r, local, known, sizes, v
<1>7. CASE local.stream /\ ~known /\ local.method # STORED
  <2>1. r.item = item /\ r.extent = -1
    BY <1>3, <1>7
  <2>. QED BY <1>7, <2>1 DEF r, local, known, item
<1>8. CASE local.stream /\ ~known /\ local.method = STORED
  BY <1>8 DEF r, local, known
<1>. QED BY <1>5, <1>6, <1>7, <1>8

\* A header more was walked.
LEMMA WalkStep ==
  ASSUME NEW f, NEW g, NEW H, NEW H2, H \subseteq H2, FrameCover(f, H), f.phase = "walk",
         g.phase = "walk", g.data = f.data, g.byHeader = f.byHeader, g.done = f.done,
         g.round = f.round, g.dirs = f.dirs, g.at = f.at, g.left = f.left,
         NEW pos, g.walked = f.walked \cup {pos},
         Range(f.queue) \subseteq Range(g.queue), Range(f.blocked) \subseteq Range(g.blocked),
         Ahead(f) \subseteq Ahead(g),
         IsA(f.data, pos, "local") => pos \in f.walked \/ HeaderWalked(g, pos),
         \A i \in Range(g.blocked) \ Range(f.blocked) :
           /\ Blocker(g, i.header) /\ i.start = i.header + 1
           /\ i.zip64 = (LocalAt(g.data, i.header).extra # <<>>),
         f.done # {} => \A p \in (Range(g.walks) \cup {g.pos}) \ {0} :
                          \E o \in DOMAIN g.data : o < p /\ o < Len(g.data) /\ Blocker(g, o)
  PROVE  FrameCover(g, H2)
<1>1. /\ DoneRead(f, H) /\ DirectoryRead(f) /\ HeadersRead(f) /\ WalkRead(f)
      /\ BlockersRead(f) /\ PhaseRead(f)
  BY DEF FrameCover
<1>2. Claims(f) \subseteq Claims(g)
  BY DEF Claims
<1>3. DoneRead(g, H2) /\ DirectoryRead(g) /\ HeadersRead(g)
  BY <1>1, <1>2, DoneMore, DirectoryMore DEF HeadersRead
<1>4. \A k : Checks(f, k) => Checks(g, k)
  BY DEF Checks
<1>5. \A q : HeaderWalked(f, q) => HeaderWalked(g, q)
  BY <1>2, <1>4, WalkedMore
<1>6. WalkRead(g)
  <2>1. ASSUME NEW q \in g.walked, IsA(g.data, q, "local") PROVE HeaderWalked(g, q)
    <3>1. q \in f.walked \/ HeaderWalked(g, q)
      BY <2>1
    <3>. QED BY <1>1, <1>5, <2>1, <3>1 DEF WalkRead
  <2>2. \A q \in DOMAIN g.data : FirstLocal(g.data, q) => q \in Ahead(g)
    BY <1>1 DEF WalkRead
  <2>. QED BY <2>1, <2>2 DEF WalkRead
<1>7. \A o : Blocker(g, o) <=> Blocker(f, o)
  BY DEF Blocker
<1>8. BlockersRead(g)
  BY <1>1, <1>7 DEF BlockersRead
<1>9. PhaseRead(g)
  BY <1>1 DEF PhaseRead
<1>. QED BY <1>3, <1>6, <1>8, <1>9 DEF FrameCover

\* The walk takes up a place it was to go to.
LEMMA MovedCovers ==
  ASSUME NEW f, NEW g, NEW H, FrameCover(f, H), f.phase = "walk",
         g.data = f.data, g.phase = f.phase, g.dirs = f.dirs, g.at = f.at, g.left = f.left,
         g.byHeader = f.byHeader, g.queue = f.queue, g.blocked = f.blocked,
         g.walked = f.walked, g.done = f.done, g.round = f.round,
         Range(g.walks) \cup {g.pos, 0} = Range(f.walks) \cup {f.pos, 0}
  PROVE  FrameCover(g, H) /\ Ahead(g) = Ahead(f)
<1>1. /\ DoneRead(f, H) /\ DirectoryRead(f) /\ HeadersRead(f) /\ WalkRead(f)
      /\ BlockersRead(f) /\ PhaseRead(f)
  BY DEF FrameCover
<1>2. Claims(g) = Claims(f) /\ Ahead(g) = Ahead(f) /\ \A k : Checks(g, k) <=> Checks(f, k)
  BY DEF Claims, Ahead, Checks
<1>3. DoneRead(g, H) /\ DirectoryRead(g) /\ HeadersRead(g)
  BY <1>1, <1>2, DoneMore, DirectoryMore DEF HeadersRead
<1>4. WalkRead(g)
  <2>1. \A p : Coming(f, p) => Coming(g, p)
    BY <1>2 DEF Coming
  <2>2. \A q : HeaderWalked(f, q) => HeaderWalked(g, q)
    BY <1>2, <2>1 DEF HeaderWalked
  <2>. QED BY <1>1, <1>2, <2>2 DEF WalkRead
<1>5. BlockersRead(g)
  <2>1. \A o : Blocker(g, o) <=> Blocker(f, o)
    BY DEF Blocker
  <2>2. (Range(g.walks) \cup {g.pos}) \ {0} = (Range(f.walks) \cup {f.pos}) \ {0}
    OBVIOUS
  <2>. QED BY <1>1, <2>1, <2>2 DEF BlockersRead
<1>6. PhaseRead(g)
  BY <1>1 DEF PhaseRead
<1>. QED BY <1>2, <1>3, <1>4, <1>5, <1>6 DEF FrameCover

\* Every header the directory lists was seen when the walk begins.
LEMMA ListedSeen ==
  ASSUME NEW f, DirectoryRead(f), f.dirs = <<>>, NEW e \in Sized(f.data)
  PROVE  e[1] \in DOMAIN f.byHeader
<1>. DEFINE d == f.data
            p == FindEnd(d)
            r == RecordOf(d, p)
            listed(s) == {<<CentralAt(d, q).header + s.delta, CentralAt(d, q).csize>> :
                            q \in Listed(d, r, s.at)}
<1>1. p # 0 /\ r # 0 /\ e \in UNION {listed(s) : s \in Range(Starts(d, r))}
  BY DEF Sized
<1>2. PICK s \in Range(Starts(d, r)) : e \in listed(s)
  BY <1>1
<1>3. PICK q \in Listed(d, r, s.at) : e = <<CentralAt(d, q).header + s.delta, CentralAt(d, q).csize>>
  BY <1>2
<1>4. RecordAt(d) = r /\ \A x : x \notin Range(<<>>)
  BY <1>1, RangeHas DEF RecordAt
<1>5. EntryRead(f, s, q)
  <2>. HIDE DEF r
  <2>. QED BY <1>1, <1>4 DEF DirectoryRead
<1>. QED BY <1>3, <1>5 DEF EntryRead

\* A listed stream that was decoded before ends where the directory says, or
\* behind a stream the directory does not list.
LEMMA DoneEnds ==
  ASSUME NEW f \in Frames, NEW H, FrameCover(f, H), f.phase = "walk",
         IsA(f.data, f.pos, "local"), LocalAt(f.data, f.pos).stream,
         LocalAt(f.data, f.pos).method # STORED,
         f.pos \in DOMAIN f.byHeader, ListedKey(f, f.pos) \in f.done
  PROVE  Ends(f.data, f.pos, f.byHeader[f.pos].csize)
<1>. DEFINE d == f.data
            p == f.pos
            n == f.byHeader[p].csize
            l == LocalAt(d, p)
            k == ListedKey(f, p)
<1>1. /\ d \in Data /\ p \in Nat /\ n \in Nat /\ p \in DOMAIN d
  <2>1. f.byHeader \in UNION {[S -> Sizes] : S \in SUBSET Nat} /\ d \in Data /\ p \in Nat
    BY DEF Frames
  <2>2. f.byHeader[p] \in Sizes
    BY <2>1
  <2>. QED BY <2>1, <2>2 DEF Sizes, IsA
<1>2. k = <<p + 1, l.method, n, Encrypted(l)>>
  BY DEF ListedKey
<1>3. Yields(d, k, H) /\ DirectoryRead(f) /\ HeadersRead(f) /\ BlockersRead(f) /\ f.dirs = <<>>
  BY DEF FrameCover, DoneRead, PhaseRead
<1>4. Decodable(l.method) /\ IsA(d, p + 1, Coder(l.method)) /\ d[p + 1].used <= n
  <2>. HIDE DEF k, l, n
  <2>1. k[1] = p + 1 /\ k[2] = l.method /\ k[3] = n
    BY <1>2
  <2>2. n # Stream
    BY <1>1 DEF Stream
  <2>. QED BY <1>3, <2>1, <2>2 DEF Yields, l
<1>5. d[p + 1].u \in {"deflate", "bzip2"} /\ p + 1 \in DOMAIN d /\ d[p + 1].used \in Nat
  <2>1. d[p + 1].u \in {"deflate", "bzip2"} /\ p + 1 \in DOMAIN d
    BY <1>4 DEF IsA, Coder
  <2>. HIDE DEF d, p
  <2>2. d[p + 1] \in Units
    BY <1>1, <2>1 DEF Data
  <2>. QED BY <2>1, <2>2, UnitsAssumption
<1>6. CASE d[p + 1].used = n
  BY <1>6 DEF Ends
<1>7. CASE d[p + 1].used # n
  <2>1. n > d[p + 1].used
    <3>. HIDE DEF d, p, n
    <3>. QED BY <1>1, <1>4, <1>5, <1>7
  <2>2. d[p].stream = l.stream /\ d[p].method = l.method
    BY <1>1, LocalFields
  <2>3. p < Len(d) /\ p # 0
    <3>. HIDE DEF d, p
    <3>. QED BY <1>1, <1>5 DEF Data
  <2>4. PICK o \in DOMAIN d : o < p /\ o < Len(d) /\ Blocker(f, o)
    BY <1>3, <2>3 DEF BlockersRead
  <2>. DEFINE streams == {q \in DOMAIN d : /\ IsA(d, q, "local") /\ d[q].stream
                                           /\ d[q].method # STORED /\ q < Len(d)}
              listed == {e[1] : e \in Sized(d)}
  <2>5. p \in streams /\ o \in streams
    BY <1>1, <2>2, <2>3, <2>4 DEF Blocker
  <2>6. o \notin listed
    <3>1. o \notin DOMAIN f.byHeader
      BY <2>4 DEF Blocker
    <3>2. \A e \in Sized(d) : e[1] \in DOMAIN f.byHeader
      BY <1>3, ListedSeen
    <3>. QED BY <3>1, <3>2
  <2>7. <<p, n>> \in Sized(d) /\ <<p, n>>[1] = p /\ <<p, n>>[2] > d[p + 1].used
    BY <1>3, <2>1 DEF HeadersRead
  <2>8. EndTrusted(d, p)
    <3>1. \E x \in streams \ listed : x < p
      BY <2>4, <2>5, <2>6
    <3>2. \E e \in Sized(d) : /\ e[1] = p /\ d[p + 1].u \in {"deflate", "bzip2"}
                              /\ e[2] > d[p + 1].used
      <4>. HIDE DEF n, d, p
      <4>. QED BY <1>5, <2>7
    <3>. HIDE DEF d, p
    <3>. QED BY <2>5, <3>1, <3>2 DEF EndTrusted
  <2>. QED BY <2>8 DEF Ends
<1>. QED BY <1>6, <1>7

\* A header whose member is queued: what waits is its decode, and where the
\* walk is then.
LEMMA QueuedWalked ==
  ASSUME NEW f \in Frames, NEW H, FrameCover(f, H), f.phase = "walk",
         IsA(f.data, f.pos, "local"), Reading(f, LocalAt(f.data, f.pos)).extent # -1,
         NEW g, g.data = f.data, g.byHeader = f.byHeader, g.done = f.done, g.round = f.round,
         LET local == LocalAt(f.data, f.pos)
             r == Reading(f, local)
             end == f.pos + 1 + r.extent
         IN /\ g.queue = Enqueue(f.queue, r.item, r.usize)
            /\ g.pos = IF local.stream THEN SkipDescriptor(f.data, end, local.extra # <<>>) ELSE end
  PROVE  /\ HeaderWalked(g, f.pos) /\ Range(f.queue) \subseteq Range(g.queue)
         /\ f.pos \in Nat /\ g.pos \in Nat /\ f.pos < g.pos
<1>. DEFINE d == f.data
            p == f.pos
            local == LocalAt(f.data, f.pos)
            r == Reading(f, local)
            end == p + 1 + r.extent
            n == f.byHeader[p].csize
            KeyOf(x) == <<p + 1, local.method, x, Encrypted(local)>>
<1>1. /\ d \in Data /\ p \in Nat /\ f.queue \in Seq(Knowns) /\ local \in Locals /\ p \in DOMAIN d
      /\ f.byHeader \in UNION {[S -> Sizes] : S \in SUBSET Nat}
  <2>1. d \in Data /\ p \in Nat /\ f.queue \in Seq(Knowns)
        /\ f.byHeader \in UNION {[S -> Sizes] : S \in SUBSET Nat}
    BY DEF Frames
  <2>2. local \in Locals
    BY <2>1, LocalIs
  <2>. QED BY <2>1, <2>2 DEF IsA
<1>2. r.item \in Knowns /\ r.extent \in Nat /\ r.usize \in Nat
  BY ReadingIs
<1>3. /\ ~local.stream => Key(r.item) = KeyOf(local.csize) /\ r.extent = local.csize
      /\ local.stream /\ p \in DOMAIN f.byHeader =>
           /\ Key(r.item) = KeyOf(n) /\ r.extent = n
           /\ r.item.verify = (local.method \in {DEFLATE, BZIP2})
      /\ local.stream /\ p \notin DOMAIN f.byHeader => local.method = STORED
  BY ReadingSays
<1>4. /\ g.queue = Enqueue(f.queue, r.item, r.usize)
      /\ g.pos = IF local.stream THEN SkipDescriptor(d, end, local.extra # <<>>) ELSE end
  OBVIOUS
<1>. HIDE DEF r
<1>5. Range(f.queue) \subseteq Range(g.queue) /\ r.item \in Range(g.queue)
  <2>. HIDE DEF Knowns
  <2>. QED BY <1>1, <1>2, <1>4, EnqueueHolds
<1>6. end \in Nat /\ p < end
  BY <1>1, <1>2
<1>. HIDE DEF local
<1>7. g.pos \in Nat /\ p < g.pos
  <2>1. CASE local.stream
    <3>. HIDE DEF end, d, p
    <3>1. SkipDescriptor(d, end, local.extra # <<>>) \in Nat
          /\ end < SkipDescriptor(d, end, local.extra # <<>>)
      BY <1>6, SkipAfter
    <3>. DEFINE x == SkipDescriptor(d, end, local.extra # <<>>)
    <3>2. g.pos = x /\ x \in Nat /\ end < x
      BY <1>4, <2>1, <3>1
    <3>. HIDE DEF x
    <3>. QED BY <1>1, <1>6, <3>2
  <2>2. CASE ~local.stream
    BY <1>4, <1>6, <2>2
  <2>. QED BY <2>1, <2>2
<1>8. Key(r.item) \in Claims(g) /\ g.pos \in Ahead(g)
  BY <1>5 DEF Claims, Ahead
<1>9. HeaderWalked(g, p)
  <2>1. CASE ~local.stream
    <3>1. KeyOf(local.csize) \in Claims(g) /\ p + 1 + local.csize \in Ahead(g)
      BY <1>3, <1>4, <1>8, <2>1
    <3>. HIDE DEF d, p
    <3>. QED BY <2>1, <3>1 DEF HeaderWalked, Coming, local, d, p
  <2>2. CASE local.stream /\ local.method = STORED
    BY <2>2 DEF HeaderWalked, local
  <2>3. CASE local.stream /\ local.method # STORED
    <3>1. p \in DOMAIN f.byHeader /\ Key(r.item) = KeyOf(n) /\ r.extent = n
          /\ r.item.verify = (local.method \in {DEFLATE, BZIP2})
      BY <1>3, <2>3
    <3>2. n \in Nat
      <4>1. f.byHeader[p] \in Sizes
        BY <1>1, <3>1
      <4>. QED BY <4>1 DEF Sizes
    <3>3. KeyOf(n) \in Claims(g)
      BY <1>8, <3>1
    <3>4. Coming(g, Behind(d, p + 1, n))
      <4>1. (p + 1) - 1 = p /\ p + 1 + n = end
        BY <1>1, <3>1
      <4>2. Behind(d, p + 1, n) = g.pos
        <5>1. Behind(d, p + 1, n) = SkipDescriptor(d, p + 1 + n, LocalAt(d, (p + 1) - 1).extra # <<>>)
          BY DEF Behind
        <5>. HIDE DEF end, n
        <5>2. LocalAt(d, (p + 1) - 1) = local
          BY <4>1 DEF local
        <5>. HIDE DEF d, p
        <5>. QED BY <1>4, <2>3, <4>1, <5>1, <5>2
      <4>. QED BY <1>8, <4>2 DEF Coming
    <3>5. Ends(d, p, n) \/ Checks(g, KeyOf(n))
      <4>1. CASE KeyOf(n) \in f.done
        <5>1. ListedKey(f, p) = KeyOf(n)
          BY DEF ListedKey, local
        <5>2. local.stream /\ local.method # STORED
          BY <2>3
        <5>3. Ends(f.data, f.pos, f.byHeader[f.pos].csize)
          BY <3>1, <4>1, <5>1, <5>2, DoneEnds DEF local
        <5>. QED BY <5>3
      <4>2. CASE KeyOf(n) \notin f.done
        <5>. DEFINE key == KeyOf(n)
        <5>1. key[2] = local.method /\ key \notin g.done /\ Key(r.item) = key
          BY <3>1, <4>2
        <5>2. Decodable(local.method) => r.item.verify
          BY <2>3, <3>1 DEF Decodable
        <5>3. \A x : x \notin Range(g.round)
          BY RangeHas DEF FrameCover, PhaseRead
        <5>. HIDE DEF key, d, p, n
        <5>4. Checks(g, key)
          BY <1>5, <5>1, <5>2, <5>3 DEF Checks
        <5>. QED BY <5>4 DEF key
      <4>. QED BY <4>1, <4>2
    <3>6. LocalAt(g.data, p) = local /\ g.byHeader = f.byHeader
      BY DEF local
    <3>7. \/ /\ local.stream /\ p \in DOMAIN g.byHeader
             /\ KeyOf(n) \in Claims(g) /\ Coming(g, Behind(g.data, p + 1, n))
             /\ Ends(g.data, p, n) \/ Checks(g, KeyOf(n))
      BY <2>3, <3>1, <3>3, <3>4, <3>5
    <3>. HIDE DEF p
    <3>. QED BY <3>6, <3>7 DEF HeaderWalked
  <2>. QED BY <2>1, <2>2, <2>3
<1>. QED BY <1>1, <1>5, <1>7, <1>9

\* A walk that stops at a header it cannot pass reports it.
LEMMA WalkGapsSome ==
  ASSUME NEW f, NEW local, NEW r
  PROVE  WalkGaps(f, local, r) # {}
<1>. DEFINE label == Append(f.path, local.name)
            rest == IF Encrypted(r.item) THEN {Gap(label, "encrypted")}
                    ELSE IF ~Decodable(local.method) THEN {Gap(label, "method")} ELSE {}
<1>1. WalkGaps(f, local, r) = {Gap(label, "budget")}
      \/ WalkGaps(f, local, r) = {Gap(label, "unknown size")} \cup rest
  BY Zenon DEF WalkGaps
<1>. HIDE DEF label, rest
<1>. QED BY <1>1

\* What becomes of the header at the place the walk is at, f before and g
\* behind it: nothing, it waits, or it is queued.
Passed(f, g) ==
  /\ g.pos = 0 /\ g.queue = f.queue /\ g.blocked = f.blocked
  /\ f.pos \in f.walked \/ ~IsA(f.data, f.pos, "local")
\* or the header's stream waits for its decode,
Waits(f, g) ==
  LET local == LocalAt(f.data, f.pos)
  IN /\ IsA(f.data, f.pos, "local") /\ Blocks(f, local)
     /\ g.pos = 0 /\ g.queue = f.queue
     /\ g.blocked = Append(f.blocked,
                           [Reading(f, local).item EXCEPT !.extent = Stream, !.crc = NoCrc])
\* or its member is queued and the walk goes on.
Queued(f, g) ==
  LET local == LocalAt(f.data, f.pos)
      r == Reading(f, local)
      end == f.pos + 1 + r.extent
  IN /\ IsA(f.data, f.pos, "local") /\ r.extent # -1
     /\ g.blocked = f.blocked /\ g.queue = Enqueue(f.queue, r.item, r.usize)
     /\ g.pos = IF local.stream THEN SkipDescriptor(f.data, end, local.extra # <<>>) ELSE end

\* A step of the walk that reports nothing is one of the three.
LEMMA WalkCases ==
  ASSUME ReadInv, FramesCovered, Walk, gaps' = {}
  PROVE  \E f, g :
           /\ f \in Frames
           /\ FrameCover(f, Handled) /\ f.data = Top.data /\ f.phase = "walk" /\ f.data \in opened
           /\ stack # <<>> /\ opened' = opened /\ visits' = visits /\ stack' = Under(g)
           /\ g.walked = f.walked \cup {f.pos} /\ g.walks = f.walks
           /\ g.phase = "walk" /\ g.data = f.data /\ g.byHeader = f.byHeader /\ g.done = f.done
           /\ g.round = f.round /\ g.dirs = f.dirs /\ g.at = f.at /\ g.left = f.left
           /\ Passed(f, g) \/ Waits(f, g) \/ Queued(f, g)
<1>. DEFINE pos == IF Top.pos = 0 THEN Top.walks[Len(Top.walks)] ELSE Top.pos
            walks == IF Top.pos = 0 THEN Front(Top.walks) ELSE Top.walks
            f == [Top EXCEPT !.pos = pos, !.walks = walks]
            seen == [f EXCEPT !.walked = @ \cup {f.pos}]
            local == LocalAt(f.data, f.pos)
            r == Reading(f, local)
            charged == [seen EXCEPT !.shares = Charge(@, r.scanned)]
            end == f.pos + 1 + r.extent
            block == [r.item EXCEPT !.extent = Stream, !.crc = NoCrc]
            blocked == WalkEnds([seen EXCEPT !.blocked = Append(@, block)])
            next == IF local.stream THEN SkipDescriptor(f.data, end, local.extra # <<>>)
                    ELSE end
            on == [charged EXCEPT !.queue = Enqueue(@, r.item, r.usize), !.pos = next]
<1>1. stack # <<>> /\ Top.phase = "walk" /\ (Top.pos # 0 \/ Top.walks # <<>>)
      /\ opened' = opened /\ visits' = visits
  BY DEF Walk
<1>2. \/ (f.pos \in f.walked \/ ~IsA(f.data, f.pos, "local")) /\ stack' = Under(WalkEnds(seen))
      \/ /\ IsA(f.data, f.pos, "local")
         /\ \/ Blocks(f, local) /\ stack' = Under(blocked)
            \/ r.extent # -1 /\ stack' = Under(on)
  <2>1. \/ (f.pos \in f.walked \/ ~IsA(f.data, f.pos, "local")) /\ stack' = Under(WalkEnds(seen))
        \/ \E x : gaps' = gaps \cup {x}
        \/ /\ IsA(f.data, f.pos, "local")
           /\ \/ Blocks(f, local) /\ stack' = Under(blocked)
              \/ gaps' = gaps \cup WalkGaps(f, local, r)
              \/ r.extent # -1 /\ stack' = Under(on)
    BY Zenon DEF Walk
  <2>2. WalkGaps(f, local, r) # {}
    BY WalkGapsSome
  <2>. HIDE DEF f, seen, local, r, blocked, on
  <2>. QED BY <2>1, <2>2
<1>3. Top \in Frames /\ FrameCover(Top, Handled) /\ Top.data \in opened
  <2>1. Top \in Frames /\ Top = stack[Len(stack)] /\ Len(stack) \in DOMAIN stack
    BY <1>1, TopIs DEF Top
  <2>. QED BY <1>1, <2>1 DEF FramesCovered
<1>4. pos \in Nat /\ walks \in Seq(Nat)
      /\ Range(walks) \cup {pos, 0} = Range(Top.walks) \cup {Top.pos, 0}
  <2>1. Top.walks \in Seq(Nat) /\ Top.pos \in Nat
    BY <1>3 DEF Frames
  <2>. DEFINE w == Top.walks
              p == Top.pos
  <2>2. CASE p = 0
    <3>1. w \in Seq(Nat) /\ w # <<>>
      BY <1>1, <2>1, <2>2
    <3>2. pos = w[Len(w)] /\ walks = Front(w)
      BY <2>2
    <3>3. Range(w) = Range(Front(w)) \cup {w[Len(w)]} /\ w[Len(w)] \in Nat
      <4>. HIDE DEF w
      <4>. QED BY <3>1, FrontRange
    <3>. HIDE DEF w, pos, walks
    <3>4. walks \in Seq(Nat)
      BY <3>1, <3>2 DEF Front
    <3>5. Range(walks) \cup {pos, 0} = Range(w) \cup {p, 0}
      BY <2>2, <3>2, <3>3
    <3>. QED BY <3>2, <3>3, <3>4, <3>5 DEF w
  <2>3. CASE p # 0
    BY <2>1, <2>3
  <2>. QED BY <2>2, <2>3
<1>. HIDE DEF pos, walks
<1>5. /\ f \in Frames /\ f.pos = pos /\ f.walks = walks
      /\ f.data = Top.data /\ f.phase = Top.phase /\ f.dirs = Top.dirs /\ f.at = Top.at /\ f.left = Top.left
      /\ f.byHeader = Top.byHeader /\ f.queue = Top.queue /\ f.blocked = Top.blocked
      /\ f.walked = Top.walked /\ f.done = Top.done /\ f.round = Top.round
  <2>. HIDE DEF Top
  <2>. QED BY <1>3, <1>4 DEF Frames
<1>. HIDE DEF f
<1>6. FrameCover(f, Handled)
  <2>1. Range(f.walks) \cup {f.pos, 0} = Range(Top.walks) \cup {Top.pos, 0}
    BY <1>4, <1>5
  <2>. QED BY <1>1, <1>3, <1>5, <2>1, MovedCovers
<1>7. /\ seen \in Frames /\ seen.walked = f.walked \cup {f.pos} /\ seen.walks = f.walks
      /\ seen.phase = f.phase /\ seen.data = f.data /\ seen.byHeader = f.byHeader
      /\ seen.done = f.done /\ seen.round = f.round /\ seen.dirs = f.dirs /\ seen.at = f.at
      /\ seen.left = f.left /\ seen.queue = f.queue /\ seen.blocked = f.blocked
  BY <1>5 DEF Frames
<1>. HIDE DEF seen
<1>8. CASE (f.pos \in f.walked \/ ~IsA(f.data, f.pos, "local")) /\ stack' = Under(WalkEnds(seen))
  <2>. DEFINE g == WalkEnds(seen)
  <2>1. /\ g.walked = seen.walked /\ g.walks = seen.walks /\ g.pos = 0
        /\ g.phase = seen.phase /\ g.data = seen.data /\ g.byHeader = seen.byHeader
        /\ g.done = seen.done /\ g.round = seen.round /\ g.dirs = seen.dirs /\ g.at = seen.at
        /\ g.left = seen.left /\ g.queue = seen.queue /\ g.blocked = seen.blocked
    BY <1>7 DEF Frames, WalkEnds
  <2>2. stack' = Under(g)
    BY <1>8
  <2>. HIDE DEF g, local, r, end
  <2>3. Passed(f, g)
    BY <1>7, <1>8, <2>1 DEF Passed
  <2>. QED BY <1>1, <1>3, <1>5, <1>6, <1>7, <2>1, <2>2, <2>3
<1>9. CASE IsA(f.data, f.pos, "local") /\ Blocks(f, local) /\ stack' = Under(blocked)
  <2>. DEFINE q == Append(seen.blocked, block)
              g == WalkEnds([seen EXCEPT !.blocked = q])
  <2>0. stack' = Under(g)
    BY <1>9
  <2>. HIDE DEF q
  <2>1. /\ g.walked = seen.walked /\ g.walks = seen.walks /\ g.pos = 0
        /\ g.phase = seen.phase /\ g.data = seen.data /\ g.byHeader = seen.byHeader
        /\ g.done = seen.done /\ g.round = seen.round /\ g.dirs = seen.dirs /\ g.at = seen.at
        /\ g.left = seen.left /\ g.queue = seen.queue /\ g.blocked = q
    BY <1>7 DEF Frames, WalkEnds
  <2>. HIDE DEF g
  <2>2. g.blocked = Append(f.blocked,
             [Reading(f, LocalAt(f.data, f.pos)).item EXCEPT !.extent = Stream, !.crc = NoCrc])
    BY <1>7, <2>1 DEF q
  <2>3. IsA(f.data, f.pos, "local") /\ Blocks(f, LocalAt(f.data, f.pos))
    BY <1>9
  <2>4. Waits(f, g)
    BY <1>7, <2>1, <2>2, <2>3, Zenon DEF Waits
  <2>. HIDE DEF local, r, end
  <2>. QED BY <1>1, <1>3, <1>5, <1>6, <1>7, <2>0, <2>1, <2>4
<1>10. CASE IsA(f.data, f.pos, "local") /\ r.extent # -1 /\ stack' = Under(on)
  <2>. DEFINE c == Charge(seen.shares, r.scanned)
              q == Enqueue(seen.queue, r.item, r.usize)
              g == [[seen EXCEPT !.shares = c] EXCEPT !.queue = Enqueue(@, r.item, r.usize), !.pos = next]
  <2>0. stack' = Under(g)
    BY <1>10
  <2>. HIDE DEF c, r, next, local
  <2>1. /\ g.walked = seen.walked /\ g.walks = seen.walks /\ g.pos = next
        /\ g.phase = seen.phase /\ g.data = seen.data /\ g.byHeader = seen.byHeader
        /\ g.done = seen.done /\ g.round = seen.round /\ g.dirs = seen.dirs /\ g.at = seen.at
        /\ g.left = seen.left /\ g.queue = q /\ g.blocked = seen.blocked
    BY <1>7 DEF Frames
  <2>. HIDE DEF g
  <2>2. g.queue = Enqueue(f.queue, r.item, r.usize)
    BY <1>7, <2>1
  <2>. HIDE DEF q
  <2>3. /\ IsA(f.data, f.pos, "local") /\ r.extent # -1
        /\ g.blocked = f.blocked /\ g.queue = Enqueue(f.queue, r.item, r.usize)
        /\ g.pos = IF local.stream THEN SkipDescriptor(f.data, end, local.extra # <<>>) ELSE end
    BY <1>7, <1>10, <2>1, <2>2 DEF next
  <2>4. Queued(f, g)
    BY <2>3, Zenon DEF Queued, local, r, end
  <2>. HIDE DEF end
  <2>. QED BY <1>1, <1>3, <1>5, <1>6, <1>7, <2>0, <2>1, <2>4
<1>. HIDE DEF local, r, blocked, on
<1>. QED BY <1>2, <1>8, <1>9, <1>10

\* A step of the walk.
LEMMA WalkCovers ==
  ASSUME ReadInv, FramesCovered, OpenedCovered, Walk, gaps' = {}
  PROVE  CoverInv'
<1>1. PICK f, g :
        /\ f \in Frames
        /\ FrameCover(f, Handled) /\ f.data = Top.data /\ f.phase = "walk" /\ f.data \in opened
        /\ stack # <<>> /\ opened' = opened /\ visits' = visits /\ stack' = Under(g)
        /\ g.walked = f.walked \cup {f.pos} /\ g.walks = f.walks
        /\ g.phase = "walk" /\ g.data = f.data /\ g.byHeader = f.byHeader /\ g.done = f.done
        /\ g.round = f.round /\ g.dirs = f.dirs /\ g.at = f.at /\ g.left = f.left
        /\ Passed(f, g) \/ Waits(f, g) \/ Queued(f, g)
  BY WalkCases
<1>2. f \in Frames /\ g \in Frames
  BY <1>1, WalkKeeps, UnderIn
<1>3. Handled \subseteq Handled'
  BY <1>1, <1>2, UnderHandles
<1>4. f.data \in Data /\ f.pos \in Nat /\ f.blocked \in Seq(Blockings) /\ BlockersRead(f)
  BY <1>1 DEF Frames, FrameCover
<1>5. f.pos \in Ahead(g) /\ Range(f.walks) \subseteq Ahead(g) /\ f.walked \subseteq Ahead(g) /\ 0 \in Ahead(g)
  BY <1>1 DEF Ahead
<1>6. Ahead(f) \subseteq Ahead(g)
  BY <1>5 DEF Ahead
<1>7. f.done # {} => \A p \in (Range(f.walks) \cup {f.pos}) \ {0} :
                        \E o \in DOMAIN f.data : o < p /\ o < Len(f.data) /\ Blocker(f, o)
  BY <1>4 DEF BlockersRead
<1>8. \A o : Blocker(g, o) <=> Blocker(f, o)
  BY <1>1 DEF Blocker
<1>9. CASE Passed(f, g)
  <2>1. g.pos = 0 /\ g.queue = f.queue /\ g.blocked = f.blocked
        /\ (f.pos \in f.walked \/ ~IsA(f.data, f.pos, "local"))
    BY <1>9 DEF Passed
  <2>2. f.done # {} => \A p \in (Range(g.walks) \cup {g.pos}) \ {0} :
                        \E o \in DOMAIN g.data : o < p /\ o < Len(g.data) /\ Blocker(g, o)
    BY <1>1, <1>7, <1>8, <2>1
  <2>3. FrameCover(g, Handled')
    <3>. HIDE DEF Handled
    <3>. QED BY <1>1, <1>3, <1>6, <2>1, <2>2, WalkStep
  <2>. QED BY <1>1, <1>2, <1>3, <2>3, UnderCovers
<1>10. CASE Waits(f, g)
  <2>. DEFINE local == LocalAt(f.data, f.pos)
              item == Reading(f, local).item
              block == [item EXCEPT !.extent = Stream, !.crc = NoCrc]
  <2>1. IsA(f.data, f.pos, "local") /\ Blocks(f, local)
        /\ g.pos = 0 /\ g.queue = f.queue /\ g.blocked = Append(f.blocked, block)
    BY <1>10, Zenon DEF Waits
  <2>2. /\ local.stream /\ f.pos \notin DOMAIN f.byHeader /\ local.method # STORED
        /\ f.data[f.pos].stream = local.stream /\ f.data[f.pos].method = local.method
        /\ local \in Locals
    <3>1. /\ f.data[f.pos].stream = local.stream /\ f.data[f.pos].method = local.method
          /\ local \in Locals
      BY <1>4, <2>1, LocalFields
    <3>. HIDE DEF local
    <3>2. local.stream /\ f.pos \notin DOMAIN f.byHeader /\ local.method # STORED
      BY <2>1 DEF Blocks
    <3>. QED BY <3>1, <3>2
  <2>3. item = FromLocal(f.pos, local)
    BY <1>2, <2>1, <2>2, ReadingSays
  <2>. HIDE DEF item
  <2>4. /\ block.header = f.pos /\ block.start = f.pos + 1 /\ block.method = local.method
        /\ block.enc = local.enc /\ block.extent = Stream
        /\ block.zip64 = (local.extra # <<>>)
    <3>. HIDE DEF local
    <3>1. item = [name |-> local.name, aliases |-> <<>>, header |-> f.pos, start |-> f.pos + 1,
                  method |-> local.method, enc |-> local.enc, extent |-> local.csize, crc |-> local.crc,
                  zip64 |-> local.extra # <<>>, verify |-> FALSE]
      BY <2>3 DEF FromLocal
    <3>. DEFINE z == local.extra # <<>>
    <3>2. item = [name |-> local.name, aliases |-> <<>>, header |-> f.pos, start |-> f.pos + 1,
                  method |-> local.method, enc |-> local.enc, extent |-> local.csize, crc |-> local.crc,
                  zip64 |-> z, verify |-> FALSE]
      BY <3>1
    <3>. HIDE DEF z
    <3>3. /\ block.header = f.pos /\ block.start = f.pos + 1 /\ block.method = local.method
          /\ block.enc = local.enc /\ block.extent = Stream /\ block.zip64 = z
      BY <3>2
    <3>. QED BY <3>3 DEF z
  <2>5. Range(g.blocked) = Range(f.blocked) \cup {block}
    <3>1. block \in Blockings
      BY <1>1, <2>1, ReadingIs DEF item
    <3>. HIDE DEF block, Blockings
    <3>. QED BY <1>4, <2>1, <3>1, AppendRange
  <2>. HIDE DEF block
  <2>6. Blocker(g, f.pos)
    BY <1>8, <2>1, <2>2 DEF Blocker
  <2>7. HeaderWalked(g, f.pos)
    <3>. DEFINE k == <<f.pos + 1, local.method, Stream, Encrypted(local)>>
    <3>1. Key(block) = k
      <4>. HIDE DEF local
      <4>. QED BY <2>4 DEF Key, Encrypted
    <3>. HIDE DEF k
    <3>2. k \in Claims(g)
      BY <2>5, <3>1 DEF Claims
    <3>3. <<f.pos + 1, LocalAt(g.data, f.pos).method, Stream, Encrypted(LocalAt(g.data, f.pos))>> = k
      BY <1>1 DEF k
    <3>4. LocalAt(g.data, f.pos).stream /\ f.pos \notin DOMAIN g.byHeader
      BY <1>1, <2>2
    <3>. QED BY <3>2, <3>3, <3>4 DEF HeaderWalked
  <2>8. \A i \in Range(g.blocked) \ Range(f.blocked) :
           /\ Blocker(g, i.header) /\ i.start = i.header + 1
           /\ i.zip64 = (LocalAt(g.data, i.header).extra # <<>>)
    BY <1>1, <2>4, <2>5, <2>6
  <2>9. f.done # {} => \A p \in (Range(g.walks) \cup {g.pos}) \ {0} :
                        \E o \in DOMAIN g.data : o < p /\ o < Len(g.data) /\ Blocker(g, o)
    BY <1>1, <1>7, <1>8, <2>1
  <2>10. FrameCover(g, Handled')
    <3>1. Range(f.queue) \subseteq Range(g.queue) /\ Range(f.blocked) \subseteq Range(g.blocked)
      BY <2>1, <2>5
    <3>. HIDE DEF Handled, local
    <3>. QED BY <1>1, <1>3, <1>6, <2>7, <2>8, <2>9, <3>1, WalkStep
  <2>. QED BY <1>1, <1>2, <1>3, <2>10, UnderCovers
<1>11. CASE Queued(f, g)
  <2>1. /\ IsA(f.data, f.pos, "local") /\ Reading(f, LocalAt(f.data, f.pos)).extent # -1
        /\ g.blocked = f.blocked
        /\ LET local == LocalAt(f.data, f.pos)
               r == Reading(f, local)
               end == f.pos + 1 + r.extent
           IN /\ g.queue = Enqueue(f.queue, r.item, r.usize)
              /\ g.pos = IF local.stream
                         THEN SkipDescriptor(f.data, end, local.extra # <<>>) ELSE end
    BY <1>11, Zenon DEF Queued
  <2>2. HeaderWalked(g, f.pos) /\ Range(f.queue) \subseteq Range(g.queue)
        /\ g.pos \in Nat /\ f.pos < g.pos
    BY <1>1, <2>1, QueuedWalked
  <2>3. f.pos # 0 /\ Len(f.data) \in Nat /\ DOMAIN f.data = 1..Len(f.data)
    BY <1>4, <2>1 DEF IsA, Data
  <2>4. f.done # {} => \A p \in (Range(g.walks) \cup {g.pos}) \ {0} :
                        \E o \in DOMAIN g.data : o < p /\ o < Len(g.data) /\ Blocker(g, o)
    <3>1. SUFFICES ASSUME f.done # {}, NEW p \in (Range(g.walks) \cup {g.pos}) \ {0}
                   PROVE  \E o \in DOMAIN g.data : o < p /\ o < Len(g.data) /\ Blocker(g, o)
      OBVIOUS
    <3>2. CASE p \in Range(g.walks)
      BY <1>1, <1>7, <1>8, <3>1, <3>2
    <3>3. CASE p = g.pos
      <4>1. PICK o \in DOMAIN f.data : o < f.pos /\ o < Len(f.data) /\ Blocker(f, o)
        BY <1>7, <2>3, <3>1
      <4>2. o < g.pos
        BY <1>4, <2>2, <2>3, <4>1
      <4>. QED BY <1>1, <1>8, <3>3, <4>1, <4>2
    <3>. QED BY <3>2, <3>3
  <2>5. FrameCover(g, Handled')
    <3>1. Range(f.blocked) \subseteq Range(g.blocked)
          /\ \A i \in Range(g.blocked) \ Range(f.blocked) :
               /\ Blocker(g, i.header) /\ i.start = i.header + 1
               /\ i.zip64 = (LocalAt(g.data, i.header).extra # <<>>)
      BY <2>1
    <3>. HIDE DEF Handled
    <3>. QED BY <1>1, <1>3, <1>6, <2>2, <2>4, <3>1, WalkStep
  <2>. QED BY <1>1, <1>2, <1>3, <2>5, UnderCovers
<1>. QED BY <1>1, <1>9, <1>10, <1>11

-----------------------------------------------------------------------------
(***************************************************************************)
(* A round, and the members decoded in it.                                 *)
(***************************************************************************)
\* What waits goes into the round, once per interpretation.
LEMMA RoundHolds ==
  ASSUME NEW f \in Frames
  PROVE  LET known == Sorted(Dedup(f.queue, f.done), f.data)
             streams == Dedup(f.blocked, f.done)
             round == known \o streams
         IN /\ Range(round) = Range(known) \cup Range(streams)
            /\ \A i \in Range(f.queue) : Kept(known, i, f.done)
            /\ \A i \in Range(f.blocked) : Kept(streams, i, f.done)
            /\ \A k \in Range(known) : k \in Knowns
            /\ \A k \in Range(streams) :
                 k \in Blockings /\ \E i \in Range(f.blocked) : SameMember(k, i)
<1>. DEFINE queue == f.queue
            blocked == f.blocked
            ks == Dedup(queue, f.done)
            known == Sorted(ks, f.data)
            streams == Dedup(blocked, f.done)
            V == Knowns \cup Blockings
<1>1. queue \in Seq(Knowns) /\ blocked \in Seq(Blockings)
  BY DEF Frames
<1>. HIDE DEF Knowns, Blockings, queue, blocked
<1>2. ks \in Seq(Knowns) /\ \A i \in Range(queue) : Kept(ks, i, f.done)
  BY <1>1, DedupHolds DEF Sort
<1>3. /\ streams \in Seq(Blockings) /\ \A i \in Range(blocked) : Kept(streams, i, f.done)
      /\ \A k \in Range(streams) : \E i \in Range(blocked) : SameMember(k, i)
  BY <1>1, DedupHolds DEF Sort
<1>. HIDE DEF ks, streams
<1>4. known \in Seq(Knowns) /\ Range(known) = Range(ks)
  BY <1>2, SortedRange
<1>. HIDE DEF known
<1>5. \A i \in Range(queue) : Kept(known, i, f.done)
  BY <1>2, <1>4 DEF Kept
<1>6. Range(known \o streams) = Range(known) \cup Range(streams)
  <2>1. known \in Seq(V) /\ streams \in Seq(V)
    BY <1>3, <1>4
  <2>. HIDE DEF V
  <2>. QED BY <2>1, ConcatRange
<1>7. /\ \A k \in Range(known) : k \in Knowns
      /\ \A k \in Range(streams) : k \in Blockings
  BY <1>3, <1>4, RangeHas
<1>. QED BY <1>3, <1>5, <1>6, <1>7 DEF known, streams, queue, blocked, ks

\* The frame of a round that starts is covered.
LEMMA StartFrame ==
  ASSUME NEW f \in Frames, NEW g, NEW H, NEW H2, H \subseteq H2, FrameCover(f, H), Walked(f),
         f.round = <<>>,
         LET known == Sorted(Dedup(f.queue, f.done), f.data)
             streams == Dedup(f.blocked, f.done)
         IN g.round = known \o streams,
         g.queue = <<>>, g.blocked = <<>>, g.phase = "round",
         g.data = f.data, g.dirs = f.dirs, g.at = f.at, g.left = f.left, g.byHeader = f.byHeader,
         g.walks = f.walks, g.pos = f.pos, g.walked = f.walked, g.done = f.done
  PROVE  FrameCover(g, H2)
<1>. DEFINE known == Sorted(Dedup(f.queue, f.done), f.data)
            streams == Dedup(f.blocked, f.done)
<1>1. /\ Range(g.round) = Range(known) \cup Range(streams)
      /\ \A i \in Range(f.queue) : Kept(known, i, f.done)
      /\ \A i \in Range(f.blocked) : Kept(streams, i, f.done)
      /\ \A k \in Range(known) : k \in Knowns
      /\ \A k \in Range(streams) :
           k \in Blockings /\ \E i \in Range(f.blocked) : SameMember(k, i)
  BY RoundHolds
<1>. HIDE DEF known, streams
<1>2. /\ DoneRead(f, H) /\ DirectoryRead(f) /\ HeadersRead(f) /\ WalkRead(f)
      /\ BlockersRead(f) /\ PhaseRead(f) /\ f.phase = "walk" /\ f.pos = 0 /\ f.walks = <<>>
  BY DEF FrameCover, Walked
<1>3. \A x : x \notin Range(f.round) /\ x \notin Range(g.blocked) /\ x \notin Range(g.queue)
  BY RangeHas
<1>4. Claims(f) \subseteq Claims(g)
  <2>1. \A i \in Range(f.queue) : Key(i) \in g.done \/ \E k \in Range(g.round) : Key(k) = Key(i)
    BY <1>1 DEF Kept
  <2>2. \A i \in Range(f.blocked) : Key(i) \in g.done \/ \E k \in Range(g.round) : Key(k) = Key(i)
    BY <1>1 DEF Kept
  <2>. QED BY <1>3, <2>1, <2>2 DEF Claims
<1>5. Ahead(g) = Ahead(f)
  BY DEF Ahead
<1>6. \A i \in Range(f.queue) \cup Range(known) : Key(i)[3] \in Nat
  <2>1. \A i \in Range(f.queue) : i \in Knowns
    BY RangeHas DEF Frames
  <2>2. \A i \in Knowns : Key(i)[3] \in Nat
    BY DEF Knowns, Key
  <2>. HIDE DEF Knowns
  <2>. QED BY <1>1, <2>1, <2>2
<1>7. \A i \in Range(streams) : i.extent = Stream /\ Key(i)[3] = Stream
  <2>1. \A i \in Blockings : i.extent = Stream /\ Key(i)[3] = Stream
    BY DEF Blockings, Key
  <2>. HIDE DEF Blockings
  <2>. QED BY <1>1, <2>1
<1>8. \A i \in Range(known) : i.extent # Stream
  <2>1. \A i \in Knowns : i.extent # Stream
    BY DEF Knowns, Stream
  <2>. HIDE DEF Knowns
  <2>. QED BY <1>1, <2>1
<1>9. ASSUME NEW key, Checks(f, key) PROVE Checks(g, key)
  <2>1. key \notin g.done
    BY <1>9 DEF Checks
  <2>2. ASSUME Decodable(key[2])
        PROVE  /\ \E i \in Range(g.queue) \cup Range(g.round) : Key(i) = key /\ i.verify
               /\ \A i \in Range(g.round) : Key(i) = key => i.verify
    <3>1. PICK i \in Range(f.queue) : Key(i) = key /\ i.verify
      BY <1>3, <1>9, <2>2 DEF Checks
    <3>2. Kept(known, i, f.done) /\ Key(i) \notin f.done
      BY <1>1, <2>1, <3>1
    <3>3. PICK k \in Range(known) : Key(k) = key /\ k.verify
      BY <3>1, <3>2 DEF Kept
    <3>4. \A j \in Range(known) : Key(j) = key => j.verify
      BY <3>1, <3>2 DEF Kept
    <3>5. \A j \in Range(streams) : Key(j) # key
      BY <1>6, <1>7, <3>1 DEF Stream
    <3>. QED BY <1>1, <3>3, <3>4, <3>5
  <2>. QED BY <2>1, <2>2 DEF Checks
<1>10. DoneRead(g, H2) /\ DirectoryRead(g) /\ HeadersRead(g)
  BY <1>2, <1>4, <1>5, DoneMore, DirectoryMore DEF HeadersRead
<1>11. WalkRead(g)
  <2>1. \A q : HeaderWalked(f, q) => HeaderWalked(g, q)
    BY <1>2, <1>4, <1>5, <1>9, WalkedMore
  <2>. QED BY <1>2, <1>5, <2>1 DEF WalkRead
<1>12. BlockersRead(g)
  <2>1. \A o : Blocker(g, o) <=> Blocker(f, o)
    BY DEF Blocker
  <2>2. ASSUME NEW i \in Range(g.round), i.extent = Stream
        PROVE  /\ Blocker(g, i.header) /\ i.start = i.header + 1
               /\ i.zip64 = (LocalAt(g.data, i.header).extra # <<>>)
    <3>1. PICK j \in Range(f.blocked) : SameMember(i, j)
      BY <1>1, <1>8, <2>2
    <3>2. i.header = j.header /\ i.start = j.start /\ i.zip64 = j.zip64
      BY <3>1 DEF SameMember
    <3>3. /\ Blocker(f, j.header) /\ j.start = j.header + 1
          /\ j.zip64 = (LocalAt(f.data, j.header).extra # <<>>)
      BY <1>2 DEF BlockersRead
    <3>. QED BY <2>1, <3>2, <3>3
  <2>3. f.done # {} => \A p \in (Range(f.walks) \cup {f.pos}) \ {0} :
                        \E o \in DOMAIN f.data : o < p /\ o < Len(f.data) /\ Blocker(f, o)
    BY <1>2 DEF BlockersRead
  <2>. QED BY <1>3, <2>1, <2>2, <2>3 DEF BlockersRead
<1>13. PhaseRead(g)
  BY <1>2 DEF PhaseRead
<1>. QED BY <1>10, <1>11, <1>12, <1>13 DEF FrameCover

\* A round that starts.
LEMMA StartRoundCovers ==
  ASSUME ReadInv, FramesCovered, OpenedCovered, StartRound, gaps' = {}
  PROVE  CoverInv'
<1>. DEFINE f == Top
            known == Sorted(Dedup(f.queue, f.done), f.data)
            streams == Dedup(f.blocked, f.done)
            round == known \o streams
            promise == f.shares.remaining \div Len(round)
            g == [f EXCEPT !.phase = "round", !.queue = <<>>, !.blocked = <<>>,
                           !.round = round, !.streams = Len(streams), !.promise = promise]
<1>1. stack # <<>> /\ stack' = Under(g) /\ opened' = opened /\ visits' = visits
      /\ Walked(f) /\ f.round = <<>>
  BY Zenon DEF StartRound
<1>2. f \in Frames /\ FrameCover(f, Handled) /\ f.data \in opened
  <2>1. f \in Frames /\ f = stack[Len(stack)] /\ Len(stack) \in DOMAIN stack
    BY <1>1, TopIs DEF Top
  <2>. QED BY <1>1, <2>1 DEF FramesCovered, Walked
<1>. HIDE DEF promise, streams, known
<1>3. /\ g.round = round /\ g.queue = <<>> /\ g.blocked = <<>> /\ g.phase = "round"
      /\ g.data = f.data /\ g.dirs = f.dirs /\ g.at = f.at /\ g.left = f.left
      /\ g.byHeader = f.byHeader
      /\ g.walks = f.walks /\ g.pos = f.pos /\ g.walked = f.walked /\ g.done = f.done
  <2>. HIDE DEF f, round
  <2>. QED BY <1>2 DEF Frames
<1>. HIDE DEF g
<1>4. g \in Frames
  BY <1>1, StartRoundKeeps, UnderIn
<1>5. Handled \subseteq Handled'
  BY <1>1, <1>3, <1>4, UnderHandles
<1>6. FrameCover(g, Handled')
  <2>1. g.round = Sorted(Dedup(f.queue, f.done), f.data) \o Dedup(f.blocked, f.done)
    BY <1>3 DEF known, streams
  <2>. HIDE DEF f, round, Handled
  <2>. QED BY <1>1, <1>2, <1>3, <1>5, <2>1, StartFrame
<1>7. g.phase # "open" /\ g.data \in opened' /\ opened' = opened
  BY <1>1, <1>2, <1>3
<1>. HIDE DEF round
<1>. QED BY <1>1, <1>3, <1>4, <1>5, <1>6, <1>7, UnderCovers

\* What a member decoded whole, with nothing to report, was.
LEMMA MemberSays ==
  ASSUME limits \in LimitRecords, NEW f \in Frames, NEW H, FrameCover(f, H),
         f.phase = "round", NEW i \in Range(f.round), Decodable(i.method), ~Encrypted(i),
         NEW b, b.entry \in Nat, Decode(f, i, b).trouble = "none",
         WholeGaps(f, i, Decode(f, i, b)) = {}
  PROVE  LET r == Decode(f, i, b)
             d == f.data
         IN /\ Yields(d, Key(i), {r.bytes})
            /\ i.extent = Stream =>
                 /\ i.method # STORED /\ r.used = d[i.start].used /\ r.used \in Nat
                 /\ Blocker(f, i.header) /\ i.start = i.header + 1
                 /\ i.header < Len(d) /\ i.header \in DOMAIN d
                 /\ Resumes(f, i, r) = <<Behind(d, i.start, r.used)>>
                 /\ Behind(d, i.start, r.used) \in Nat /\ i.header < Behind(d, i.start, r.used)
            /\ i.extent # Stream => Resumes(f, i, r) = <<>>
            /\ i.verify /\ i.extent # Stream /\ i.method # STORED => d[i.start].used = i.extent
<1>. DEFINE r == Decode(f, i, b)
            d == f.data
            k == Key(i)
<1>1. /\ d \in Data /\ i \in Knowns \cup Blockings /\ BlockersRead(f)
  <2>1. d \in Data /\ f.round \in Seq(Knowns \cup Blockings)
    BY DEF Frames
  <2>. HIDE DEF Knowns, Blockings
  <2>2. i \in Knowns \cup Blockings
    BY <2>1, RangeHas
  <2>. QED BY <2>1, <2>2 DEF FrameCover
<1>2. /\ i.method = STORED => r.bytes = Extracted(d, i.start, STORED, i.extent)
      /\ i.method # STORED => /\ IsA(d, i.start, Coder(i.method))
                              /\ r.bytes = d[i.start].out /\ r.used = d[i.start].used
                              /\ i.extent # Stream => r.used <= i.extent
  <2>. HIDE DEF Knowns, Blockings
  <2>. QED BY <1>1, DecodedIs
<1>3. k[1] = i.start /\ k[2] = i.method /\ k[3] = i.extent /\ k[4] = Encrypted(i)
  BY DEF Key
<1>4. /\ i.start \in Nat \ {0} /\ i.header \in Nat
      /\ i.extent = Stream => i.method \in {DEFLATE, BZIP2}
  BY <1>1 DEF Knowns, Blockings, Stream
<1>5. i.verify => i.extent = r.used
  <2>1. (IF i.verify /\ i.extent # r.used THEN {"stream end"} ELSE {}) \subseteq WholeGaps(f, i, r)
    <3>. HIDE DEF r
    <3>. QED BY DEF WholeGaps
  <2>. HIDE DEF r
  <2>2. WholeGaps(f, i, r) = {}
    BY DEF r
  <2>. QED BY <2>1, <2>2
<1>6. r.trouble = "none"
  OBVIOUS
<1>. HIDE DEF r, k, d
<1>7. Yields(d, k, {r.bytes})
  BY <1>2, <1>3 DEF Yields
<1>8. ASSUME i.extent = Stream
      PROVE  /\ i.method # STORED /\ r.used = d[i.start].used /\ r.used \in Nat
             /\ Blocker(f, i.header) /\ i.start = i.header + 1
             /\ i.header < Len(d) /\ i.header \in DOMAIN d
             /\ Resumes(f, i, r) = <<Behind(d, i.start, r.used)>>
             /\ Behind(d, i.start, r.used) \in Nat /\ i.header < Behind(d, i.start, r.used)
  <2>1. i.method # STORED /\ i.method \in {DEFLATE, BZIP2}
    BY <1>4, <1>8 DEF STORED, DEFLATE, BZIP2
  <2>2. IsA(d, i.start, Coder(i.method)) /\ r.used = d[i.start].used
    BY <1>2, <2>1
  <2>3. i.start \in DOMAIN d /\ d[i.start].u \in {"deflate", "bzip2"}
    BY <2>1, <2>2 DEF IsA, Coder
  <2>4. r.used \in Nat
    <3>1. d[i.start] \in Units
      BY <1>1, <2>3 DEF Data
    <3>. QED BY <2>2, <2>3, <3>1, UnitsAssumption
  <2>5. /\ Blocker(f, i.header) /\ i.start = i.header + 1
        /\ i.zip64 = (LocalAt(d, i.header).extra # <<>>)
    BY <1>1, <1>8 DEF BlockersRead, d
  <2>6. i.header < Len(d) /\ i.header \in DOMAIN d
    <3>1. i.start \in 1..Len(d) /\ Len(d) \in Nat
      BY <1>1, <2>3 DEF Data
    <3>2. i.header \in DOMAIN d
      BY <2>5 DEF Blocker, IsA, d
    <3>. QED BY <1>4, <2>5, <3>1, <3>2
  <2>7. i.start - 1 = i.header
    BY <1>4, <2>5
  <2>. DEFINE x == SkipDescriptor(d, i.start + r.used, i.zip64)
  <2>8. Behind(d, i.start, r.used) = x
    <3>1. LocalAt(d, i.start - 1) = LocalAt(d, i.header)
      BY <2>7
    <3>. QED BY <2>5, <3>1 DEF Behind
  <2>9. x \in Nat /\ i.start + r.used < x /\ i.start + r.used \in Nat
    BY <1>4, <2>4, SkipAfter
  <2>10. Resumes(f, i, r) = <<x>>
    BY <1>6, <1>8 DEF Resumes, d
  <2>. HIDE DEF x
  <2>. QED BY <1>4, <2>1, <2>2, <2>4, <2>5, <2>6, <2>8, <2>9, <2>10
<1>9. i.extent # Stream => Resumes(f, i, r) = <<>>
  BY <1>5 DEF Resumes
<1>10. i.verify /\ i.extent # Stream /\ i.method # STORED => d[i.start].used = i.extent
  BY <1>2, <1>5
<1>. QED BY <1>7, <1>8, <1>9, <1>10 DEF d, k, r

\* More was handed over.
LEMMA YieldsMore ==
  ASSUME NEW d, NEW k, NEW H, NEW H2, H \subseteq H2, Yields(d, k, H)
  PROVE  Yields(d, k, H2)
BY DEF Yields

\* One place more for the walk, or none.
LEMMA OneMore ==
  ASSUME NEW w \in Seq(Nat)
  PROVE  /\ w \o <<>> = w
         /\ \A x \in Nat : Range(w \o <<x>>) = Range(w) \cup {x}
<1>1. ASSUME NEW x \in Nat PROVE Range(w \o <<x>>) = Range(w) \cup {x}
  <2>. DEFINE z == <<x>>
  <2>1. z \in Seq(Nat) /\ DOMAIN z = {1} /\ z[1] = x
    OBVIOUS
  <2>. HIDE DEF z
  <2>2. Range(z) = {x} /\ Range(w \o z) = Range(w) \cup Range(z)
    BY <2>1, RangeHas, ConcatRange
  <2>. QED BY <2>2 DEF z
<1>. QED BY <1>1

\* The frame a member was decoded for is covered.
LEMMA MemberFrame ==
  ASSUME limits \in LimitRecords, NEW f \in Frames, NEW g, NEW H, NEW H2, H \subseteq H2,
         FrameCover(f, H), f.phase = "round", f.round # <<>>,
         NEW i, i = Head(f.round), Decodable(i.method), ~Encrypted(i),
         NEW b, b.entry \in Nat, NEW r, r = Decode(f, i, b), r.trouble = "none",
         WholeGaps(f, i, r) = {}, r.bytes \in H2,
         g.round = Tail(f.round), g.done = f.done \cup {Key(i)},
         g.walks = f.walks \o Resumes(f, i, r),
         g.data = f.data, g.phase = f.phase, g.dirs = f.dirs, g.at = f.at, g.left = f.left,
         g.byHeader = f.byHeader, g.queue = f.queue, g.blocked = f.blocked,
         g.pos = f.pos, g.walked = f.walked
  PROVE  FrameCover(g, H2)
<1>. DEFINE d == f.data
            k == Key(i)
            next == Behind(d, i.start, r.used)
<1>1. Range(f.round) = {i} \cup Range(g.round) /\ f.walks \in Seq(Nat) /\ d \in Data
      /\ f.byHeader \in UNION {[S -> Sizes] : S \in SUBSET Nat}
  <2>1. f.round \in Seq(Knowns \cup Blockings) /\ f.walks \in Seq(Nat) /\ d \in Data
        /\ f.byHeader \in UNION {[S -> Sizes] : S \in SUBSET Nat}
    BY DEF Frames
  <2>. DEFINE s == f.round
  <2>. HIDE DEF Knowns, Blockings, s
  <2>2. Range(s) = {Head(s)} \cup Range(Tail(s))
    <3>. DEFINE V == Knowns \cup Blockings
    <3>1. s \in Seq(V) /\ s # <<>>
      BY <2>1 DEF s
    <3>. HIDE DEF V
    <3>. QED BY <3>1, HeadRange
  <2>. QED BY <2>1, <2>2 DEF s
<1>2. /\ Yields(d, k, {r.bytes})
      /\ i.extent = Stream =>
           /\ i.method # STORED /\ r.used = d[i.start].used /\ r.used \in Nat
           /\ Blocker(f, i.header) /\ i.start = i.header + 1
           /\ i.header < Len(d) /\ i.header \in DOMAIN d
           /\ Resumes(f, i, r) = <<next>> /\ next \in Nat /\ i.header < next
      /\ i.extent # Stream => Resumes(f, i, r) = <<>>
      /\ i.verify /\ i.extent # Stream /\ i.method # STORED => d[i.start].used = i.extent
  <2>1. i \in Range(f.round)
    BY <1>1
  <2>. QED BY <2>1, MemberSays, ZenonT(60)
<1>3. /\ DoneRead(f, H) /\ DirectoryRead(f) /\ HeadersRead(f) /\ WalkRead(f)
      /\ BlockersRead(f) /\ PhaseRead(f)
  BY DEF FrameCover
<1>. HIDE DEF next
<1>4. /\ Range(f.walks) \subseteq Range(g.walks)
      /\ i.extent = Stream => Range(g.walks) = Range(f.walks) \cup {next}
      /\ i.extent # Stream => Range(g.walks) = Range(f.walks)
  <2>1. /\ i.extent = Stream => Range(g.walks) = Range(f.walks) \cup {next}
        /\ i.extent # Stream => g.walks = f.walks
    <3>. DEFINE w == f.walks
                z == Resumes(f, i, r)
    <3>1. w \in Seq(Nat) /\ g.walks = w \o z
          /\ (i.extent = Stream => z = <<next>> /\ next \in Nat) /\ (i.extent # Stream => z = <<>>)
      BY <1>1, <1>2
    <3>2. /\ w \o <<>> = w
          /\ next \in Nat => Range(w \o <<next>>) = Range(w) \cup {next}
      BY <3>1, OneMore
    <3>. HIDE DEF w, z
    <3>3. CASE i.extent = Stream
      BY Zenon, <3>1, <3>2, <3>3 DEF w
    <3>4. CASE i.extent # Stream
      BY Zenon, <3>1, <3>2, <3>4 DEF w
    <3>. QED BY <3>3, <3>4
  <2>. QED BY <2>1
<1>5. Ahead(f) \subseteq Ahead(g) /\ (i.extent = Stream => next \in Ahead(g))
  BY <1>4 DEF Ahead
<1>6. Claims(f) \subseteq Claims(g)
  BY <1>1 DEF Claims
<1>7. k[1] = i.start /\ k[2] = i.method /\ k[3] = i.extent
  BY DEF Key
<1>8. DoneRead(g, H2)
  <2>1. ASSUME NEW x \in f.done
        PROVE  /\ Yields(d, x, H2)
               /\ x[3] = Stream => x[2] # STORED /\ Coming(g, Behind(d, x[1], d[x[1]].used))
    <3>1. /\ Yields(d, x, H)
          /\ x[3] = Stream => x[2] # STORED /\ Coming(f, Behind(d, x[1], d[x[1]].used))
      BY <1>3 DEF DoneRead
    <3>. QED BY <1>5, <3>1, YieldsMore DEF Coming
  <2>2. /\ Yields(d, k, H2)
        /\ k[3] = Stream => k[2] # STORED /\ Coming(g, Behind(d, k[1], d[k[1]].used))
    <3>1. Yields(d, k, H2)
      BY <1>2, YieldsMore
    <3>2. i.extent = Stream => Behind(d, k[1], d[k[1]].used) = next
      BY <1>2, <1>7 DEF next
    <3>. HIDE DEF k
    <3>. QED BY <1>2, <1>5, <1>7, <3>1, <3>2 DEF Coming
  <2>. QED BY <2>1, <2>2 DEF DoneRead
<1>9. DirectoryRead(g) /\ HeadersRead(g)
  BY <1>3, <1>6, DirectoryMore DEF HeadersRead
<1>10. WalkRead(g)
  <2>1. ASSUME NEW q, LocalAt(d, q).method # STORED, q \in DOMAIN f.byHeader,
               Checks(f, ListedKey(f, q))
        PROVE  Checks(g, ListedKey(f, q)) \/ Ends(d, q, f.byHeader[q].csize)
    <3>. DEFINE key == ListedKey(f, q)
                n == f.byHeader[q].csize
    <3>1. key[1] = q + 1 /\ key[2] = LocalAt(d, q).method /\ key[3] = n
      BY DEF ListedKey
    <3>2. n \in Nat
      <4>1. f.byHeader \in UNION {[S -> Sizes] : S \in SUBSET Nat} /\ q \in DOMAIN f.byHeader
        BY <1>1, <2>1
      <4>2. f.byHeader[q] \in Sizes
        BY ONLY <4>1
      <4>. QED BY <4>2 DEF Sizes
    <3>. HIDE DEF key, n
    <3>3. Checks(f, key)
      BY <2>1 DEF key
    <3>4. CASE key # k
      <4>1. Checks(g, key)
        <5>. HIDE DEF k
        <5>1. key \notin g.done
          BY <3>3, <3>4 DEF Checks, k
        <5>2. \A j : j \in Range(f.round) /\ Key(j) = key <=> j \in Range(g.round) /\ Key(j) = key
          BY <1>1, <3>4 DEF k
        <5>3. Decodable(key[2]) =>
                 /\ \E j \in Range(g.queue) \cup Range(g.round) : Key(j) = key /\ j.verify
                 /\ \A j \in Range(g.round) : Key(j) = key => j.verify
          BY <3>3, <5>2 DEF Checks
        <5>. QED BY <5>1, <5>3 DEF Checks
      <4>. QED BY <4>1 DEF key
    <3>5. CASE key = k
      <4>1. i.verify
        <5>1. Decodable(key[2])
          BY <1>7, <3>5
        <5>. QED BY <1>1, <3>3, <3>5, <5>1 DEF Checks
      <4>2. i.extent = n /\ i.start = q + 1 /\ i.method # STORED /\ i.extent # Stream
        <5>. HIDE DEF k
        <5>. QED BY <1>7, <2>1, <3>1, <3>2, <3>5 DEF Stream
      <4>3. d[q + 1].used = n
        BY <1>2, <4>1, <4>2
      <4>. QED BY <4>3 DEF Ends, n
    <3>. QED BY <3>4, <3>5
  <2>2. \A q : HeaderWalked(f, q) => HeaderWalked(g, q)
    BY <1>5, <1>6, <2>1, WalkedMore
  <2>. QED BY <1>3, <1>5, <2>2 DEF WalkRead
<1>11. BlockersRead(g)
  <2>1. \A o : Blocker(g, o) <=> Blocker(f, o)
    BY DEF Blocker
  <2>2. \A x \in Range(g.blocked) \cup {y \in Range(g.round) : y.extent = Stream} :
           /\ Blocker(g, x.header) /\ x.start = x.header + 1
           /\ x.zip64 = (LocalAt(g.data, x.header).extra # <<>>)
    BY <1>1, <1>3, <2>1 DEF BlockersRead
  <2>3. ASSUME NEW p \in (Range(g.walks) \cup {g.pos}) \ {0}
        PROVE  \E o \in DOMAIN g.data : o < p /\ o < Len(g.data) /\ Blocker(g, o)
    <3>1. f.pos = 0 /\ (f.done = {} => f.walks = <<>>)
      BY <1>3 DEF PhaseRead
    <3>2. CASE p \in Range(f.walks)
      <4>1. f.done # {}
        BY <3>1, <3>2, RangeHas
      <4>. QED BY <1>3, <2>1, <2>3, <3>2, <4>1 DEF BlockersRead
    <3>3. CASE p = next /\ i.extent = Stream
      BY <1>2, <2>1, <3>3
    <3>. QED BY <1>4, <2>3, <3>1, <3>2, <3>3
  <2>. QED BY <2>2, <2>3 DEF BlockersRead
<1>12. PhaseRead(g)
  BY <1>3 DEF PhaseRead
<1>. QED BY <1>8, <1>9, <1>10, <1>11, <1>12 DEF FrameCover

\* Both frames on top are frames.
LEMMA PushIn ==
  ASSUME ReadInv, ReadInv', stack # <<>>, NEW g, NEW h, stack' = Append(Under(g), h)
  PROVE  g \in Frames /\ h \in Frames
<1>. DEFINE V == Frames \cup {g, h}
            N == Len(stack)
            t == [stack EXCEPT ![N] = g]
            u == Append(t, h)
<1>1. stack \in Seq(Frames) /\ stack' \in Seq(Frames) /\ stack' = u
  BY DEF Under, ReadInv, TypeOK
<1>2. stack \in Seq(V)
  <2>. HIDE DEF Frames
  <2>. QED BY <1>1
<1>3. g \in V /\ h \in V
  OBVIOUS
<1>4. t \in Seq(V) /\ Len(t) = N /\ t[N] = g /\ DOMAIN t = 1..N
  <2>. HIDE DEF V
  <2>. QED BY <1>2, <1>3, ExceptLast
<1>5. N \in 1..N /\ N \in Nat
  BY TopIs
<1>. HIDE DEF t, N, Frames, V
<1>6. N \in DOMAIN u /\ N + 1 \in DOMAIN u /\ u[N] = g /\ u[N + 1] = h
  BY <1>3, <1>4, <1>5
<1>. HIDE DEF u
<1>. QED BY <1>1, <1>6

\* A member read with nothing to report.
LEMMA MemberCase ==
  ASSUME Member, gaps' = {}
  PROVE  LET f == Top
             i == Head(f.round)
             b == Charge(Share(f), EntryCost)
             r == Decode(f, i, b)
             v == Visits(f, i, r)
             read == [f EXCEPT !.round = Tail(@), !.done = @ \cup {Key(i)},
                               !.spans = @ \cup {Span(i, r)},
                               !.shares = v.shares, !.walks = @ \o Resumes(f, i, r)]
         IN /\ stack # <<>> /\ f.phase = "round" /\ f.round # <<>> /\ opened' = opened
            /\ ~Encrypted(i) /\ Decodable(i.method) /\ ~r.refused
            /\ r.trouble = "none" /\ WholeGaps(f, i, r) = {}
            /\ visits' = visits \cup v.visits
            /\ IF v.reads
               THEN stack' = Append(Under(read), NewFrame(r.bytes, f.depth + 1, Append(f.path, i.name),
                                                          v.shares.entry))
               ELSE stack' = Under(read)
<1>. DEFINE f == Top
            i == Head(f.round)
            label == Append(f.path, i.name)
            b == Charge(Share(f), EntryCost)
            r == Decode(f, i, b)
            v == Visits(f, i, r)
            round == Tail(f.round)
            done == f.done \cup {Key(i)}
            spans == f.spans \cup {Span(i, r)}
            walks == f.walks \o Resumes(f, i, r)
            next == [f EXCEPT !.round = Tail(@), !.done = @ \cup {Key(i)}]
            spanned == [next EXCEPT !.spans = @ \cup {Span(i, r)}]
            read == [spanned EXCEPT !.shares = v.shares, !.walks = @ \o Resumes(f, i, r)]
            on == [f EXCEPT !.round = Tail(@), !.done = @ \cup {Key(i)},
                            !.spans = @ \cup {Span(i, r)},
                            !.shares = v.shares, !.walks = @ \o Resumes(f, i, r)]
            whole == IF r.trouble = "none" THEN WholeGaps(f, i, r) ELSE {r.trouble}
            nested == NewFrame(r.bytes, f.depth + 1, label, v.shares.entry)
            refused == Encrypted(i) \/ ~Decodable(i.method) \/ r.refused
<1>1. stack # <<>> /\ f.phase = "round" /\ f.round # <<>> /\ opened' = opened
  BY DEF Member
<1>2. \/ refused /\ \E x : gaps' = gaps \cup {x}
      \/ /\ ~refused /\ gaps' = gaps \cup {Gap(label, k) : k \in whole} \cup v.gaps
         /\ visits' = visits \cup v.visits
         /\ stack' = IF v.reads THEN Append(Under(read), nested) ELSE Under(read)
  BY ZenonT(60) DEF Member
<1>3. read = on
  OBVIOUS
<1>. HIDE DEF read, on, nested, v
<1>4. ~refused /\ whole = {} /\ visits' = visits \cup v.visits
      /\ stack' = IF v.reads THEN Append(Under(read), nested) ELSE Under(read)
  <2>. HIDE DEF whole, refused
  <2>. QED BY <1>2
<1>5. r.trouble = "none" /\ WholeGaps(f, i, r) = {}
  <2>. HIDE DEF r, i, f
  <2>. QED BY <1>4
<1>6. ~Encrypted(i) /\ Decodable(i.method) /\ ~r.refused
  BY <1>4
<1>. HIDE DEF refused, whole, r, i, f, b
<1>. QED BY <1>1, <1>3, <1>4, <1>5, <1>6, Zenon DEF r, i, f, b, on, nested, v, label

\* A member decoded, a nested archive opened or not.
LEMMA MemberCovers ==
  ASSUME ReadInv, FramesCovered, OpenedCovered, Member, gaps' = {}
  PROVE  CoverInv'
<1>. DEFINE f == Top
            i == Head(f.round)
            b == Charge(Share(f), EntryCost)
            r == Decode(f, i, b)
            v == Visits(f, i, r)
            round == Tail(f.round)
            done == f.done \cup {Key(i)}
            spans == f.spans \cup {Span(i, r)}
            walks == f.walks \o Resumes(f, i, r)
            read == [f EXCEPT !.round = Tail(@), !.done = @ \cup {Key(i)},
                              !.spans = @ \cup {Span(i, r)},
                              !.shares = v.shares, !.walks = @ \o Resumes(f, i, r)]
            g == [f EXCEPT !.round = round, !.done = done, !.spans = spans,
                           !.shares = v.shares, !.walks = walks]
            depth == f.depth + 1
            label == Append(f.path, i.name)
            entry == v.shares.entry
            h == NewFrame(r.bytes, depth, label, entry)
<1>1. /\ stack # <<>> /\ f.phase = "round" /\ f.round # <<>> /\ opened' = opened
      /\ ~Encrypted(i) /\ Decodable(i.method) /\ ~r.refused
      /\ r.trouble = "none" /\ WholeGaps(f, i, r) = {}
      /\ visits' = visits \cup v.visits
      /\ IF v.reads THEN stack' = Append(Under(read), h) ELSE stack' = Under(read)
  BY Zenon, MemberCase
<1>2. read = g
  OBVIOUS
<1>. HIDE DEF read
<1>3. /\ f \in Frames /\ Sound(f.shares) /\ Shaped(f) /\ Promised(f, f.shares.remaining)
      /\ limits \in LimitRecords /\ FrameCover(f, Handled) /\ f.data \in opened
  <2>1. /\ f \in Frames /\ f = stack[Len(stack)] /\ Len(stack) \in DOMAIN stack
        /\ Sound(f.shares) /\ Shaped(f) /\ Promised(f, f.shares.remaining)
        /\ limits \in LimitRecords
    BY <1>1, TopIs DEF Top, ReadInv, TypeOK
  <2>. QED BY <1>1, <2>1 DEF FramesCovered
<1>4. b.entry \in Nat
  <2>1. Sound(b)
    <3>. HIDE DEF f
    <3>. QED BY <1>1, <1>3, NextMember
  <2>. HIDE DEF b
  <2>. QED BY <2>1 DEF Sound, Budgets
<1>. HIDE DEF b
<1>. HIDE DEF v, round, done, spans, walks
<1>5. /\ g.round = round /\ g.done = done /\ g.walks = walks
      /\ g.data = f.data /\ g.phase = f.phase /\ g.dirs = f.dirs /\ g.at = f.at /\ g.left = f.left
      /\ g.byHeader = f.byHeader /\ g.queue = f.queue /\ g.blocked = f.blocked
      /\ g.pos = f.pos /\ g.walked = f.walked
  <2>. HIDE DEF f
  <2>. QED BY <1>3 DEF Frames
<1>. HIDE DEF g
<1>6. ASSUME NEW H2, Handled \subseteq H2, r.bytes \in H2 PROVE FrameCover(g, H2)
  <2>. HIDE DEF r, i, f
  <2>1. r = Decode(f, i, b) /\ i = Head(f.round)
    BY DEF r, i
  <2>2. /\ g.round = Tail(f.round) /\ g.done = f.done \cup {Key(i)}
        /\ g.walks = f.walks \o Resumes(f, i, r)
    BY <1>5 DEF round, done, walks
  <2>. HIDE DEF Handled
  <2>. QED BY <1>1, <1>3, <1>4, <1>5, <1>6, <2>1, <2>2, MemberFrame
<1>7. v.visits \subseteq visits' /\ visits \subseteq visits' /\ opened \subseteq opened'
  BY <1>1
<1>8. g.data = f.data /\ g.data \in opened /\ g.phase # "open"
  BY <1>1, <1>3, <1>5
<1>9. ReadInv'
  BY MemberKeeps
<1>10. CASE v.reads
  <2>1. stack' = Append(Under(g), h)
    BY <1>1, <1>2, <1>10
  <2>. HIDE DEF depth, label, entry, r
  <2>2. FrameCover(h, Handled') /\ h.phase = "open" /\ h.data = r.bytes
    BY NewCovered
  <2>. HIDE DEF h
  <2>3. g \in Frames /\ h \in Frames
    BY <1>1, <1>9, <2>1, PushIn
  <2>4. Handled \subseteq Handled' /\ h.data \in Handled'
    BY <1>1, <1>7, <1>8, <2>1, <2>3, PushHandles
  <2>5. FrameCover(g, Handled')
    BY <1>6, <2>2, <2>4
  <2>. HIDE DEF f
  <2>. QED BY <1>1, <1>8, <2>1, <2>2, <2>3, <2>4, <2>5, PushCovers DEF f
<1>11. CASE ~v.reads
  <2>1. stack' = Under(g)
    BY <1>1, <1>2, <1>11
  <2>2. g \in Frames
    BY <1>1, <1>9, <2>1, UnderIn
  <2>3. Handled \subseteq Handled'
    BY <1>1, <1>7, <1>8, <2>1, <2>2, UnderHandles
  <2>4. r.bytes \in Handled'
    <3>1. CASE r.bytes = <<>>
      BY <3>1 DEF Handled
    <3>2. CASE r.bytes # <<>>
      <4>. HIDE DEF r, i, f
      <4>1. PICK w \in v.visits : w.bytes = r.bytes /\ ~w.cut
        BY <1>1, <1>11, <3>2, VisitsDeliver DEF v
      <4>2. w \in visits'
        BY <1>7
      <4>. QED BY <4>1, <4>2 DEF Handled
    <3>. QED BY <3>1, <3>2
  <2>5. FrameCover(g, Handled')
    BY <1>6, <2>3, <2>4
  <2>6. opened' \subseteq opened \cup {Top.data} /\ g.data \in opened'
    BY <1>1, <1>8
  <2>. QED BY <1>1, <1>7, <1>8, <2>1, <2>2, <2>3, <2>5, <2>6, UnderCovers
<1>. QED BY <1>10, <1>11

-----------------------------------------------------------------------------
(***************************************************************************)
(* What another tool takes from an archive that was read.                  *)
(***************************************************************************)
\* A member decoded is what another tool extracts from its place.
LEMMA YieldsExtracted ==
  ASSUME NEW d \in Data, NEW start \in Nat \ {0}, NEW method, NEW size \in Nat, NEW k,
         NEW H, <<>> \in H, Yields(d, k, H), k[1] = start, k[2] = method,
         method = STORED => k[3] = size
  PROVE  Extracted(d, start, method, size) \in H
<1>1. CASE method = STORED
  BY <1>1 DEF Yields
<1>2. CASE method # STORED
  <2>1. method \in {DEFLATE, BZIP2}
    BY <1>2 DEF Yields, Decodable
  <2>2. d[start].out \in H
    BY <1>2 DEF Yields
  <2>3. CASE Extracted(d, start, method, size) = <<>>
    BY <2>3
  <2>4. CASE Extracted(d, start, method, size) # <<>>
    BY <2>1, <2>2, <2>4, ExtractedIs
  <2>. QED BY <2>3, <2>4
<1>. QED BY <1>1, <1>2

\* Where the end record says the directory starts is one of its places.
LEMMA StartsHas ==
  ASSUME NEW d \in Data, NEW r \in Nat, d[r].size \in Nat, d[r].start \in Nat,
         IsA(d, d[r].start, "central")
  PROVE  \E s \in Range(Starts(d, r)) : s.at = d[r].start /\ s.delta = 0
<1>. DEFINE actual == r - d[r].size
            start == d[r].start
            delta == actual - start
            At(p, shift) == IF IsA(d, p, "central") THEN <<[at |-> p, delta |-> shift]>> ELSE <<>>
            here == [at |-> start, delta |-> 0]
            front == IF actual >= 1 /\ delta > 0 THEN At(actual, delta) ELSE <<>>
<1>1. actual \in Int /\ start \in Nat /\ delta \in Int
  OBVIOUS
<1>2. Starts(d, r) = IF actual >= 1 /\ delta = 0 THEN At(actual, 0) ELSE front \o At(start, 0)
  BY Zenon DEF Starts
<1>3. At(start, 0) = <<here>>
  OBVIOUS
<1>4. CASE actual >= 1 /\ delta = 0
  <2>1. actual = start
    <3>. HIDE DEF actual, start
    <3>. QED BY <1>1, <1>4
  <2>2. Starts(d, r) = <<here>>
    <3>1. Starts(d, r) = At(actual, 0)
      BY <1>2, <1>4
    <3>. HIDE DEF actual, start, here
    <3>. QED BY <1>3, <2>1, <3>1
  <2>3. here \in Range(<<here>>) /\ here.at = start /\ here.delta = 0
    <3>1. DOMAIN <<here>> = {1} /\ <<here>>[1] = here
      OBVIOUS
    <3>. QED BY <3>1, RangeHas
  <2>. QED BY <2>2, <2>3
<1>5. CASE ~(actual >= 1 /\ delta = 0)
  <2>. DEFINE other == [at |-> actual, delta |-> delta]
              V == {here, other}
              last == <<here>>
  <2>1. front \in Seq(V) /\ last \in Seq(V)
    <3>1. front = <<other>> \/ front = <<>>
      OBVIOUS
    <3>. HIDE DEF here, front, other
    <3>2. <<other>> \in Seq(V) /\ <<>> \in Seq(V) /\ <<here>> \in Seq(V)
      OBVIOUS
    <3>. QED BY <3>1, <3>2
  <2>2. here \in Range(last)
    <3>1. DOMAIN last = {1} /\ last[1] = here
      OBVIOUS
    <3>. HIDE DEF last
    <3>. QED BY <3>1, RangeHas
  <2>3. Starts(d, r) = front \o last
    BY <1>2, <1>3, <1>5
  <2>. HIDE DEF V, front, last, other
  <2>4. Range(front \o last) = Range(front) \cup Range(last)
    BY <2>1, ConcatRange
  <2>5. here.at = start /\ here.delta = 0
    OBVIOUS
  <2>. QED BY <2>2, <2>3, <2>4, <2>5
<1>. QED BY <1>4, <1>5

\* Nothing waits: all that was claimed was decoded.
LEMMA SettledClaims ==
  ASSUME NEW f \in Frames, f.round = <<>>, Dedup(f.queue, f.done) \o Dedup(f.blocked, f.done) = <<>>
  PROVE  Claims(f) \subseteq f.done
<1>. DEFINE queue == f.queue
            blocked == f.blocked
            ks == Dedup(queue, f.done)
            streams == Dedup(blocked, f.done)
<1>1. queue \in Seq(Knowns) /\ blocked \in Seq(Blockings)
  BY DEF Frames
<1>. HIDE DEF Knowns, Blockings, queue, blocked
<1>2. ks \in Seq(Knowns) /\ \A i \in Range(queue) : Kept(ks, i, f.done)
  BY <1>1, DedupHolds DEF Sort
<1>3. streams \in Seq(Blockings) /\ \A i \in Range(blocked) : Kept(streams, i, f.done)
  BY <1>1, DedupHolds DEF Sort
<1>4. ks \o streams = <<>>
  BY DEF queue, blocked
<1>. HIDE DEF ks, streams
<1>5. ks = <<>> /\ streams = <<>>
  BY <1>2, <1>3, <1>4
<1>6. \A i : Kept(<<>>, i, f.done) => Key(i) \in f.done
  BY RangeHas DEF Kept
<1>7. \A x : x \notin Range(f.round)
  BY RangeHas
<1>. QED BY <1>2, <1>3, <1>5, <1>6, <1>7 DEF Claims, queue, blocked

\* What a tool that trusts the directory takes was handed over.
LEMMA DirectoryTaken ==
  ASSUME NEW f \in Frames, NEW H, <<>> \in H, DoneRead(f, H), DirectoryRead(f), f.dirs = <<>>,
         Claims(f) \subseteq f.done
  PROVE  DirectoryView(f.data) \subseteq H
<1>. DEFINE d == f.data
            p == FindEnd(d)
            r == RecordOf(d, p)
            SizesOf(c) == {c.csize} \cup (IF c.method = STORED THEN {c.usize} ELSE {})
            Taken(c) == IF IsA(d, c.header, "local") /\ ~c.enc /\ Decodable(c.method)
                        THEN {Extracted(d, c.header + 1, c.method, n) : n \in SizesOf(c)} ELSE {}
<1>1. d \in Data
  BY DEF Frames
<1>2. SUFFICES ASSUME NEW x \in DirectoryView(d) PROVE x \in H
  OBVIOUS
<1>3. p # 0 /\ r # 0 /\ x \in UNION {Taken(CentralAt(d, q)) : q \in Listed(d, r, d[r].start)}
  BY <1>2 DEF DirectoryView
<1>4. PICK q \in Listed(d, r, d[r].start) : x \in Taken(CentralAt(d, q))
  BY <1>3
<1>. DEFINE c == CentralAt(d, q)
<1>5. PICK n \in SizesOf(c) : x = Extracted(d, c.header + 1, c.method, n)
  BY <1>4
<1>6. IsA(d, c.header, "local") /\ ~c.enc /\ Decodable(c.method)
  BY <1>4
<1>7. r \in DOMAIN d /\ r \in Nat /\ d[r].entries \in Nat /\ d[r].size \in Nat /\ d[r].start \in Nat
  BY <1>1, <1>3, RecordIs
<1>. HIDE DEF d, p, r
<1>8. q \in DOMAIN d /\ IsA(d, q, "central") /\ IsA(d, d[r].start, "central")
  <2>1. q \in DOMAIN d /\ q >= d[r].start /\ \A y \in d[r].start..q : IsA(d, y, "central")
    BY DEF Listed
  <2>2. q \in Nat
    BY <1>1, <2>1 DEF Data
  <2>3. d[r].start \in d[r].start..q /\ q \in d[r].start..q
    BY <1>7, <2>1, <2>2
  <2>. QED BY <2>1, <2>3
<1>9. c.csize \in Nat /\ c.usize \in Nat /\ c.header \in Nat
  BY <1>1, <1>8, CentralIs DEF Centrals
<1>10. PICK s \in Range(Starts(d, r)) : s.at = d[r].start /\ s.delta = 0
  BY <1>1, <1>7, <1>8, StartsHas
<1>11. EntryRead(f, s, q)
  <2>1. RecordAt(d) = r
    BY <1>3 DEF RecordAt, p, r
  <2>2. \A y : y \notin Range(f.dirs)
    BY RangeHas
  <2>. QED BY <1>3, <1>10, <2>1, <2>2 DEF DirectoryRead, d
<1>. HIDE DEF c
<1>12. /\ <<c.header + 1, c.method, c.csize, Encrypted(c)>> \in f.done
       /\ c.method = STORED => <<c.header + 1, c.method, c.usize, Encrypted(c)>> \in f.done
  <2>1. c.header + s.delta = c.header
    BY <1>9, <1>10
  <2>. QED BY <1>11, <2>1 DEF EntryRead, c, d
<1>13. ASSUME NEW m \in Nat, <<c.header + 1, c.method, m, Encrypted(c)>> \in f.done
       PROVE  Extracted(d, c.header + 1, c.method, m) \in H
  <2>. DEFINE k == <<c.header + 1, c.method, m, Encrypted(c)>>
  <2>1. Yields(d, k, H)
    BY <1>13 DEF DoneRead, d
  <2>2. k[1] = c.header + 1 /\ k[2] = c.method /\ k[3] = m /\ c.header + 1 \in Nat \ {0}
    BY <1>9
  <2>. HIDE DEF k
  <2>. QED BY <1>1, <2>1, <2>2, YieldsExtracted
<1>14. n = c.csize \/ (c.method = STORED /\ n = c.usize)
  BY <1>5 DEF c
<1>. QED BY <1>5, <1>9, <1>12, <1>13, <1>14

\* What a streaming tool takes at a header that was walked, when nothing waits.
LEMMA StreamedIs ==
  ASSUME NEW f \in Frames, NEW H, <<>> \in H, DoneRead(f, H), Claims(f) \subseteq f.done,
         NEW q, IsA(f.data, q, "local"), HeaderWalked(f, q)
  PROVE  LET at == StreamedAt(f.data, q) IN
         /\ at.bytes \in H
         /\ ~EndTrusted(f.data, q) /\ IsA(f.data, at.next, "local") => at.next \in Ahead(f)
<1>. DEFINE d == f.data
            l == LocalAt(d, q)
            cell == d[q + 1]
            coded == q < Len(d) /\ l.method # STORED /\ cell.u \in {"deflate", "bzip2"}
            size == IF ~l.stream THEN l.csize ELSE IF coded THEN cell.used ELSE 0
            bytes == IF l.enc \/ ~Decodable(l.method) THEN <<>>
                     ELSE Extracted(d, q + 1, l.method, size)
            next == IF l.stream /\ ~coded THEN 0
                    ELSE IF l.stream THEN SkipDescriptor(d, q + 1 + size, l.extra # <<>>)
                    ELSE q + 1 + size
            n == f.byHeader[q].csize
            KeyOf(m) == <<q + 1, l.method, m, Encrypted(l)>>
<1>1. StreamedAt(d, q).bytes = bytes /\ StreamedAt(d, q).next = next
  BY DEF StreamedAt
<1>2. d \in Data /\ f.byHeader \in UNION {[S -> Sizes] : S \in SUBSET Nat}
  BY DEF Frames
<1>3. l \in Locals /\ q \in Nat \ {0} /\ q \in DOMAIN d
  BY <1>2, LocalFields
<1>4. l.csize \in Nat /\ l.method \in Nat
  BY <1>3 DEF Locals
<1>5. /\ \/ l.stream /\ l.method = STORED
         \/ l.stream /\ KeyOf(Stream) \in f.done
         \/ /\ l.stream /\ q \in DOMAIN f.byHeader
            /\ KeyOf(n) \in f.done /\ Coming(f, Behind(d, q + 1, n)) /\ Ends(d, q, n)
         \/ /\ ~l.stream /\ KeyOf(l.csize) \in f.done /\ Coming(f, q + 1 + l.csize)
  BY DEF HeaderWalked, Checks
<1>. HIDE DEF d, l, n
<1>6. ASSUME NEW m, KeyOf(m) \in f.done
      PROVE  /\ Yields(d, KeyOf(m), H)
             /\ m = Stream => l.method # STORED /\ Coming(f, Behind(d, q + 1, d[q + 1].used))
             /\ l.method # STORED =>
                  /\ d[q + 1].u \in {"deflate", "bzip2"} /\ q + 1 \in DOMAIN d /\ q < Len(d)
                  /\ d[q + 1].used \in Nat
  <2>. DEFINE k == KeyOf(m)
  <2>1. k[1] = q + 1 /\ k[2] = l.method /\ k[3] = m
    OBVIOUS
  <2>2. k \in f.done
    BY <1>6
  <2>. HIDE DEF k
  <2>3. Yields(d, k, H) /\ (k[3] = Stream => k[2] # STORED /\ Coming(f, Behind(d, k[1], d[k[1]].used)))
    BY <2>2 DEF DoneRead, d
  <2>4. ASSUME l.method # STORED
        PROVE  /\ d[q + 1].u \in {"deflate", "bzip2"} /\ q + 1 \in DOMAIN d /\ q < Len(d)
               /\ d[q + 1].used \in Nat
    <3>1. IsA(d, q + 1, Coder(l.method))
      BY <2>1, <2>3, <2>4 DEF Yields
    <3>2. d[q + 1].u \in {"deflate", "bzip2"} /\ q + 1 \in DOMAIN d
      BY <3>1 DEF IsA, Coder
    <3>3. d[q + 1] \in Units /\ q < Len(d)
      BY <1>2, <1>3, <3>2 DEF Data
    <3>. QED BY <3>2, <3>3, UnitsAssumption
  <2>. QED BY <2>1, <2>3, <2>4 DEF k
<1>7. CASE l.stream /\ l.method = STORED
  <2>1. size = 0 /\ next = 0
    BY <1>7
  <2>2. Extracted(d, q + 1, STORED, 0) = <<>>
    <3>1. AtMost(q + 1 + 0 - 1, Len(d)) = q /\ SubSeq(d, q + 1, q) = <<>>
      BY <1>2, <1>3 DEF AtMost, Data
    <3>. DEFINE cells == SubSeq(d, q + 1, AtMost(q + 1 + 0 - 1, Len(d)))
    <3>2. cells = <<>>
      BY <3>1
    <3>. QED BY <3>2, Zenon DEF Extracted
  <2>3. bytes \in H
    BY <1>7, <2>1, <2>2
  <2>4. 0 \notin DOMAIN d
    BY <1>2 DEF Data
  <2>. HIDE DEF bytes
  <2>. QED BY <1>1, <2>1, <2>3, <2>4 DEF IsA, d
<1>8. CASE l.stream /\ l.method # STORED
  <2>1. PICK m : /\ KeyOf(m) \in f.done
                 /\ ~EndTrusted(d, q) => Coming(f, Behind(d, q + 1, d[q + 1].used))
    <3>1. CASE KeyOf(Stream) \in f.done
      BY <1>6, <3>1
    <3>2. CASE KeyOf(n) \in f.done /\ Coming(f, Behind(d, q + 1, n)) /\ Ends(d, q, n)
      <4>1. d[q + 1].u \in {"deflate", "bzip2"} /\ q + 1 \in DOMAIN d
        BY <1>6, <1>8, <3>2
      <4>2. EndTrusted(d, q) \/ d[q + 1].used = n
        BY <3>2, <4>1 DEF Ends, IsA
      <4>. QED BY <3>2, <4>2
    <3>. QED BY <1>5, <1>8, <3>1, <3>2
  <2>2. /\ d[q + 1].u \in {"deflate", "bzip2"} /\ q + 1 \in DOMAIN d /\ q < Len(d)
        /\ d[q + 1].used \in Nat /\ Yields(d, KeyOf(m), H)
    BY <1>6, <1>8, <2>1
  <2>3. size = d[q + 1].used /\ next = SkipDescriptor(d, q + 1 + size, l.extra # <<>>)
    BY <1>8, <2>2
  <2>. HIDE DEF size, next
  <2>4. next = Behind(d, q + 1, d[q + 1].used)
    <3>1. (q + 1) - 1 = q
      BY <1>3
    <3>2. LocalAt(d, (q + 1) - 1) = l
      BY <3>1 DEF l
    <3>. QED BY <2>3, <3>2 DEF Behind
  <2>5. Extracted(d, q + 1, l.method, size) \in H
    <3>. DEFINE k == KeyOf(m)
    <3>1. k[1] = q + 1 /\ k[2] = l.method /\ q + 1 \in Nat \ {0}
      BY <1>3
    <3>2. Yields(d, k, H)
      BY <2>2
    <3>. HIDE DEF k
    <3>. QED BY <1>2, <1>8, <2>2, <2>3, <3>1, <3>2, YieldsExtracted
  <2>6. ~EndTrusted(d, q) /\ IsA(d, next, "local") => next \in Ahead(f)
    BY <2>1, <2>4 DEF Coming, d
  <2>. QED BY <1>1, <2>5, <2>6 DEF d
<1>9. CASE ~l.stream
  <2>1. KeyOf(l.csize) \in f.done /\ Coming(f, q + 1 + l.csize)
    BY <1>5, <1>9
  <2>2. Yields(d, KeyOf(l.csize), H)
    BY <1>6, <2>1
  <2>3. Extracted(d, q + 1, l.method, l.csize) \in H
    <3>. DEFINE k == KeyOf(l.csize)
    <3>1. k[1] = q + 1 /\ k[2] = l.method /\ k[3] = l.csize /\ q + 1 \in Nat \ {0}
      BY <1>3
    <3>2. Yields(d, k, H)
      BY <2>2
    <3>. HIDE DEF k
    <3>. QED BY <1>2, <1>4, <3>1, <3>2, YieldsExtracted
  <2>4. size = l.csize /\ next = q + 1 + l.csize
    BY <1>9
  <2>. QED BY <1>1, <2>1, <2>3, <2>4 DEF Coming, d
<1>. QED BY <1>7, <1>8, <1>9

\* What a streaming tool reaches, header by header.
Headers(d) == {q \in DOMAIN d : d[q].u = "local"}
\* one header further,
Onward(d, before) ==
  before \cup ({StreamedAt(d, q).next : q \in {x \in before : ~EndTrusted(d, x)}} \cap Headers(d))
\* from the first one on,
FirstOf(d) == {q \in Headers(d) : \A o \in Headers(d) : q <= o}
\* s being what is reached in each number of steps.
StreamRun(s, d) ==
  /\ s[0] = FirstOf(d)
  /\ \A n \in 1..Len(d) : s[n] = Onward(d, s[n - 1])
  /\ StreamView(d) = {StreamedAt(d, q).bytes : q \in s[Len(d)]}

\* There is such an s.
LEMMA StreamRuns ==
  ASSUME NEW d \in Data
  PROVE  \E s : StreamRun(s, d)
<1>. DEFINE W == SUBSET Headers(d)
            N == Len(d)
            g == [n \in Nat |-> [v \in W |-> Onward(d, v)]]
            G(f) == [n \in 0..N |-> IF n = 0 THEN FirstOf(d) ELSE Onward(d, f[n - 1])]
            reached == CHOOSE f : f = G(f)
<1>1. N \in Nat /\ FirstOf(d) \in W /\ \A v \in W : Onward(d, v) \in W
  <2>1. N \in Nat
    BY DEF Data
  <2>2. FirstOf(d) \in W
    BY DEF FirstOf
  <2>3. \A v \in W : Onward(d, v) \in W
    BY DEF Onward
  <2>. QED BY <2>1, <2>2, <2>3
<1>2. g \in [Nat -> [W -> W]]
  <2>. HIDE DEF W
  <2>. QED BY <1>1
<1>3. PICK f \in [0..N -> W] : Recurs(f, g, FirstOf(d), N)
  <2>. HIDE DEF g, W, N
  <2>. QED BY <1>1, <1>2, RecursionExists
<1>4. f = G(f)
  <2>1. ASSUME NEW n \in 0..N, n # 0 PROVE g[n][f[n - 1]] = Onward(d, f[n - 1])
    <3>1. n \in Nat /\ n - 1 \in 0..N
      BY <1>1, <2>1
    <3>. HIDE DEF W, N
    <3>2. f[n - 1] \in W
      BY <3>1
    <3>. DEFINE v == f[n - 1]
    <3>. HIDE DEF v
    <3>3. g[n][v] = Onward(d, v)
      BY <3>1, <3>2 DEF v
    <3>. QED BY <3>3 DEF v
  <2>. HIDE DEF g, W
  <2>. QED BY <1>3, <2>1 DEF Recurs
<1>5. reached = G(reached)
  <2>. HIDE DEF G
  <2>. QED BY <1>4, Zenon
<1>6. StreamView(d) = {StreamedAt(d, q).bytes : q \in reached[N]}
  BY Zenon DEF StreamView, Onward, FirstOf, Headers
<1>. HIDE DEF reached, g
<1>7. 0 \in 0..N /\ \A n \in 1..N : n \in 0..N /\ n # 0
  BY <1>1
<1>8. reached[0] = FirstOf(d) /\ \A n \in 1..N : reached[n] = Onward(d, reached[n - 1])
  <2>. HIDE DEF N, W
  <2>. QED BY <1>5, <1>7
<1>9. StreamRun(reached, d)
  BY <1>6, <1>8 DEF StreamRun
<1>. QED BY <1>9

\* What a tool that streams takes was handed over: the walk was wherever it
\* comes.
LEMMA StreamTaken ==
  ASSUME NEW f \in Frames, NEW H, <<>> \in H, DoneRead(f, H), WalkRead(f), Claims(f) \subseteq f.done,
         f.phase = "walk", f.pos = 0, f.walks = <<>>
  PROVE  StreamView(f.data) \subseteq H
<1>. DEFINE d == f.data
            N == Len(d)
<1>1. d \in Data
  BY DEF Frames
<1>2. PICK s : StreamRun(s, d)
  BY <1>1, StreamRuns
<1>3. N \in Nat /\ DOMAIN d = 1..N
  BY <1>1 DEF Data
<1>4. \A q \in Headers(d) : q \in Ahead(f) => q \in f.walked
  <2>1. \A x : x \notin Range(f.walks)
    BY RangeHas
  <2>2. \A q \in Headers(d) : q # 0
    BY <1>3 DEF Headers
  <2>. QED BY <2>1, <2>2 DEF Ahead
<1>5. \A q : q \in Headers(d) <=> IsA(d, q, "local")
  BY DEF Headers, IsA
<1>6. \A q \in Headers(d) : q \in f.walked =>
        /\ StreamedAt(d, q).bytes \in H
        /\ ~EndTrusted(d, q) /\ StreamedAt(d, q).next \in Headers(d) => StreamedAt(d, q).next \in f.walked
  <2>1. ASSUME NEW q \in Headers(d), q \in f.walked
        PROVE  /\ StreamedAt(d, q).bytes \in H
               /\ ~EndTrusted(d, q) /\ StreamedAt(d, q).next \in Headers(d) => StreamedAt(d, q).next \in f.walked
    <3>1. IsA(d, q, "local") /\ HeaderWalked(f, q)
      BY <1>5, <2>1 DEF WalkRead
    <3>2. /\ StreamedAt(d, q).bytes \in H
          /\ ~EndTrusted(d, q) /\ IsA(d, StreamedAt(d, q).next, "local") => StreamedAt(d, q).next \in Ahead(f)
      BY <3>1, StreamedIs
    <3>. QED BY <1>4, <1>5, <3>2
  <2>. QED BY <2>1
<1>. DEFINE S == {n \in Nat : n <= N => s[n] \subseteq Headers(d) \cap f.walked}
<1>. HIDE DEF d, N
<1>7. 0 \in S
  <2>1. ASSUME NEW q \in FirstOf(d) PROVE q \in Headers(d) /\ q \in f.walked
    <3>1. q \in Headers(d) /\ q \in DOMAIN d /\ FirstLocal(d, q)
      <4>1. q \in Headers(d) /\ \A o \in Headers(d) : q <= o
        BY DEF FirstOf
      <4>. QED BY <1>5, <4>1 DEF FirstLocal, IsA
    <3>2. q \in Ahead(f)
      BY <3>1 DEF WalkRead, d
    <3>. QED BY <1>4, <3>1, <3>2
  <2>. QED BY <1>2, <2>1 DEF StreamRun
<1>8. ASSUME NEW n \in Nat, n \in S PROVE n + 1 \in S
  <2>1. SUFFICES ASSUME n + 1 <= N PROVE s[n + 1] \subseteq Headers(d) \cap f.walked
    OBVIOUS
  <2>2. n + 1 \in 1..Len(d) /\ (n + 1) - 1 = n /\ n <= N
    BY <1>3, <2>1 DEF N
  <2>3. s[n + 1] = Onward(d, s[n])
    BY <1>2, <2>2 DEF StreamRun
  <2>4. s[n] \subseteq Headers(d) \cap f.walked
    BY <1>8, <2>2
  <2>5. Onward(d, s[n]) \subseteq Headers(d) \cap f.walked
    BY <1>6, <2>4 DEF Onward
  <2>. QED BY <2>3, <2>5
<1>. HIDE DEF S
<1>9. Nat \subseteq S
  BY <1>7, <1>8, UpFromZero
<1>10. s[N] \subseteq Headers(d) \cap f.walked
  <2>1. N \in S /\ N <= N
    BY <1>3, <1>9
  <2>. QED BY <2>1 DEF S
<1>11. StreamView(d) = {StreamedAt(d, q).bytes : q \in s[N]}
  BY <1>2 DEF StreamRun, N
<1>12. StreamView(d) \subseteq H
  BY <1>6, <1>10, <1>11
<1>. QED BY <1>12 DEF d

\* An archive whose reading ends with nothing to report handed over all that
\* either view has.
LEMMA CloseViews ==
  ASSUME NEW f \in Frames, NEW H, <<>> \in H, FrameCover(f, H), Walked(f), f.round = <<>>,
         Dedup(f.queue, f.done) \o Dedup(f.blocked, f.done) = <<>>
  PROVE  Views(f.data) \subseteq H
<1>1. /\ DoneRead(f, H) /\ DirectoryRead(f) /\ WalkRead(f) /\ PhaseRead(f)
      /\ f.phase = "walk" /\ f.pos = 0 /\ f.walks = <<>>
  BY DEF FrameCover, Walked
<1>2. f.dirs = <<>>
  BY <1>1 DEF PhaseRead
<1>3. Claims(f) \subseteq f.done
  BY SettledClaims
<1>4. DirectoryView(f.data) \subseteq H
  BY <1>1, <1>2, <1>3, DirectoryTaken
<1>5. StreamView(f.data) \subseteq H
  BY <1>1, <1>3, StreamTaken
<1>. QED BY <1>4, <1>5 DEF Views

-----------------------------------------------------------------------------
(***************************************************************************)
(* The end of an archive.                                                  *)
(***************************************************************************)
\* Two frames that differ in their budget only.
SameReading(g, f) ==
  /\ g.data = f.data /\ g.phase = f.phase /\ g.dirs = f.dirs /\ g.at = f.at /\ g.left = f.left
  /\ g.byHeader = f.byHeader /\ g.queue = f.queue /\ g.blocked = f.blocked
  /\ g.walks = f.walks /\ g.pos = f.pos /\ g.walked = f.walked /\ g.done = f.done
  /\ g.round = f.round

\* Closing an archive takes its frame away.
LEMMA CloseIs ==
  ASSUME ReadInv, Close
  PROVE  /\ stack # <<>> /\ Len(stack) \in Nat \ {0} /\ DOMAIN stack = 1..Len(stack)
         /\ DOMAIN stack' = 1..(Len(stack) - 1)
         /\ \A k \in DOMAIN stack' : SameReading(stack'[k], stack[k])
<1>. DEFINE N == Len(stack)
            below == Front(stack)
            parent == below[Len(below)]
            spent == parent.shares.entry - Top.shares.remaining
<1>0. stack # <<>>
      /\ stack' = IF below = <<>> THEN below
                  ELSE [below EXCEPT ![Len(below)].shares = Charge(@, spent)]
  BY DEF Close
<1>1. /\ N \in Nat \ {0} /\ DOMAIN stack = 1..N /\ stack \in Seq(Frames)
  BY <1>0, TopIs DEF ReadInv, TypeOK
<1>2. /\ below \in Seq(Frames) /\ Len(below) = N - 1 /\ \A k \in 1..(N - 1) : below[k] = stack[k]
      /\ DOMAIN below = 1..(N - 1)
  BY <1>1 DEF Front
<1>. HIDE DEF N
<1>3. CASE below = <<>>
  <2>1. stack' = below
    BY <1>0, <1>3
  <2>. HIDE DEF below
  <2>. QED BY <1>0, <1>1, <1>2, <2>1 DEF SameReading, N
<1>4. CASE below # <<>>
  <2>. DEFINE M == Len(below)
              c == Charge(parent.shares, spent)
              g == [parent EXCEPT !.shares = c]
  <2>1. M \in 1..(N - 1) /\ M = N - 1
    <3>1. Len(below) # 0
      <4>. HIDE DEF below
      <4>. QED BY <1>2, <1>4
    <3>. HIDE DEF below
    <3>. QED BY <1>1, <1>2, <3>1
  <2>2. stack' = [below EXCEPT ![M] = g]
    BY <1>0, <1>4
  <2>3. parent = stack[M] /\ parent \in Frames
    <3>. HIDE DEF below, M
    <3>1. below[M] = stack[M] /\ stack[M] \in Frames
      <4>. HIDE DEF Frames
      <4>. QED BY <1>1, <1>2, <2>1
    <3>. QED BY <3>1 DEF M
  <2>. HIDE DEF c, parent
  <2>4. SameReading(g, stack[M])
    <3>1. SameReading(g, parent)
      BY <2>3 DEF Frames, SameReading
    <3>. HIDE DEF g
    <3>. QED BY <2>3, <3>1
  <2>. HIDE DEF g, below, M
  <2>5. DOMAIN stack' = 1..(N - 1) /\ stack'[M] = g
        /\ \A k \in 1..(N - 1) : k # M => stack'[k] = stack[k]
    BY <1>2, <2>1, <2>2
  <2>6. \A k \in 1..(N - 1) : SameReading(stack'[k], stack[k])
    BY <2>4, <2>5 DEF SameReading
  <2>. QED BY <1>0, <1>1, <2>5, <2>6 DEF N
<1>. QED BY <1>3, <1>4

\* An archive that is closed.
LEMMA CloseCovers ==
  ASSUME ReadInv, FramesCovered, OpenedCovered, Close
  PROVE  CoverInv'
<1>. DEFINE N == Len(stack)
            f == Top
<1>1. /\ stack # <<>> /\ N \in Nat \ {0} /\ DOMAIN stack = 1..N
      /\ DOMAIN stack' = 1..(N - 1) /\ \A k \in DOMAIN stack' : SameReading(stack'[k], stack[k])
  BY CloseIs
<1>2. /\ Walked(f) /\ f.round = <<>> /\ Dedup(f.queue, f.done) \o Dedup(f.blocked, f.done) = <<>>
      /\ opened' = opened /\ visits' = visits
  BY DEF Close
<1>3. f \in Frames /\ f = stack[N] /\ FrameCover(f, Handled) /\ f.data \in opened
  <2>1. f \in Frames /\ f = stack[N] /\ N \in DOMAIN stack
    BY <1>1, TopIs DEF Top
  <2>. QED BY <1>2, <2>1 DEF FramesCovered, Walked
<1>. HIDE DEF N
<1>4. \A k \in DOMAIN stack : k = N \/ k \in DOMAIN stack'
  BY <1>1
<1>5. \A k \in DOMAIN stack' : k \in DOMAIN stack
  BY <1>1
<1>6. Handled \subseteq Handled'
  <2>1. \A k \in DOMAIN stack : stack[k].data \in opened \/ \E j \in DOMAIN stack' : stack'[j].data = stack[k].data
    <3>. HIDE DEF f
    <3>. QED BY <1>1, <1>3, <1>4 DEF SameReading
  <2>2. \A x : x \in Handled' <=> x = <<>> \/ x \in opened' \/ x \in Whole'
                               \/ \E k \in DOMAIN stack' : x = stack'[k].data
    BY DEF Handled, Whole
  <2>3. Whole' = Whole
    BY <1>2 DEF Whole
  <2>. QED BY <1>2, <2>1, <2>2, <2>3, HandledHas
<1>7. Views(f.data) \subseteq Handled
  <2>1. <<>> \in Handled
    BY DEF Handled
  <2>. HIDE DEF f, Handled
  <2>. QED BY <1>2, <1>3, <2>1, CloseViews
<1>8. ASSUME NEW k \in DOMAIN stack'
      PROVE  /\ FrameCover(stack'[k], Handled')
             /\ stack'[k].phase # "open" => stack'[k].data \in opened'
  <2>1. /\ FrameCover(stack[k], Handled) /\ SameReading(stack'[k], stack[k])
        /\ stack[k].phase # "open" => stack[k].data \in opened
    BY <1>1, <1>5 DEF FramesCovered
  <2>. HIDE DEF Handled
  <2>2. FrameCover(stack'[k], Handled')
    <3>. DEFINE H2 == Handled'
    <3>1. Handled \subseteq H2
      BY <1>6
    <3>. HIDE DEF H2
    <3>2. FrameCover(stack'[k], H2)
      BY <2>1, <3>1, FrameMore DEF SameReading
    <3>. QED BY <3>2 DEF H2
  <2>. QED BY <1>2, <2>1, <2>2 DEF SameReading
<1>9. ASSUME NEW d \in opened'
      PROVE  Views(d) \subseteq Handled' \/ \E k \in DOMAIN stack' : stack'[k].data = d /\ stack'[k].phase # "open"
  <2>1. Views(d) \subseteq Handled \/ \E k \in DOMAIN stack : stack[k].data = d /\ stack[k].phase # "open"
    BY <1>2 DEF OpenedCovered
  <2>2. CASE Views(d) \subseteq Handled
    BY <1>6, <2>2
  <2>3. CASE \E k \in DOMAIN stack : stack[k].data = d /\ stack[k].phase # "open"
    <3>1. PICK k \in DOMAIN stack : stack[k].data = d /\ stack[k].phase # "open"
      BY <2>3
    <3>2. CASE k = N
      <4>. HIDE DEF Handled, f
      <4>. QED BY <1>3, <1>6, <1>7, <3>1, <3>2
    <3>3. CASE k \in DOMAIN stack'
      BY <1>1, <3>1, <3>3 DEF SameReading
    <3>. QED BY <1>4, <3>2, <3>3
  <2>. QED BY <2>1, <2>2, <2>3
<1>. QED BY <1>8, <1>9 DEF CoverInv, FramesCovered, OpenedCovered

-----------------------------------------------------------------------------
(***************************************************************************)
(* Every step.                                                             *)
(***************************************************************************)
\* Every step of the reading keeps what the invariant says.
LEMMA ReadCovers ==
  ASSUME ReadInv, CoverInv, ReadNext
  PROVE  CoverInv'
<1>1. gaps \subseteq gaps'
  BY ReadKeeps
<1>2. CASE gaps' # {}
  BY <1>2 DEF CoverInv
<1>3. CASE gaps' = {}
  <2>1. FramesCovered /\ OpenedCovered
    BY <1>1, <1>3 DEF CoverInv
  <2>. QED BY <1>3, <2>1, OpenCovers, CentralCovers, WalkCovers, StartRoundCovers, MemberCovers,
              EndRoundCovers, CloseCovers DEF ReadNext
<1>. QED BY <1>2, <1>3

\* The reading starts with a frame that holds nothing yet.
LEMMA InspectCovers ==
  ASSUME Inv, CoverInv, NEW r \in Rules, Inspect(r)
  PROVE  CoverInv'
<1>. DEFINE h == NewFrame(file.data, 1, <<>>, limits.readBack)
<1>1. stack = <<>> /\ gaps' = gaps /\ opened' = opened /\ visits' = visits
  BY DEF Inspect, Inv
<1>2. stack' = stack \/ stack' = <<h>>
  BY Zenon DEF Inspect
<1>3. FrameCover(h, Handled') /\ h.phase = "open"
  <2>. DEFINE H == Handled'
  <2>. HIDE DEF H
  <2>1. FrameCover(h, H) /\ h.phase = "open"
    BY NewCovered
  <2>. QED BY <2>1 DEF H
<1>. HIDE DEF h
<1>4. DOMAIN stack = {}
  BY <1>1
<1>5. Handled \subseteq Handled'
  BY <1>1, <1>4 DEF Handled
<1>6. \A k \in DOMAIN stack' : stack'[k] = h
  BY <1>1, <1>2
<1>7. FramesCovered'
  <2>. HIDE DEF Handled
  <2>. QED BY <1>3, <1>6 DEF FramesCovered
<1>8. OpenedCovered => OpenedCovered'
  <2>. HIDE DEF Handled
  <2>. QED BY <1>1, <1>4, <1>5 DEF OpenedCovered
<1>. QED BY <1>1, <1>7, <1>8 DEF CoverInv

\* Nothing of the reading changes,
LEMMA CoverSame ==
  ASSUME CoverInv, stack' = stack, gaps' = gaps, opened' = opened, visits' = visits
  PROVE  CoverInv'
BY DEF CoverInv, FramesCovered, OpenedCovered, Handled

\* so every step keeps the invariant,
LEMMA CoverStep ==
  ASSUME Inv, CoverInv, [Next]_vars
  PROVE  CoverInv'
<1>1. CASE ReadNext
  BY <1>1, ReadCovers DEF Inv
<1>2. CASE \E r \in Rules : Inspect(r)
  BY <1>2, InspectCovers
<1>3. CASE \E r \in Rules : Evaluate(r)
  <2>1. UNCHANGED readVars
    BY <1>3 DEF Evaluate
  <2>. QED BY <2>1, CoverSame DEF readVars
<1>4. CASE Inspected
  <2>1. UNCHANGED readVars
    BY <1>4 DEF Inspected
  <2>. QED BY <2>1, CoverSame DEF readVars
<1>5. CASE UNCHANGED vars
  <2>1. UNCHANGED readVars
    BY <1>5 DEF vars
  <2>. QED BY <2>1, CoverSame DEF readVars
<1>. QED BY <1>1, <1>2, <1>3, <1>4, <1>5 DEF Next

\* which holds at first.
LEMMA CoverInit == Init => CoverInv
<1>. SUFFICES ASSUME Init PROVE CoverInv
  OBVIOUS
<1>1. DOMAIN stack = {} /\ opened = {}
  BY DEF Init
<1>. QED BY <1>1 DEF CoverInv, FramesCovered, OpenedCovered

-----------------------------------------------------------------------------
(***************************************************************************)
(* What the rule says once the reading ended.                              *)
(***************************************************************************)
\* A probe of the image formats that were looked for.
LEMMA ProbeIs ==
  ASSUME NEW probes \in Seq({"other", "unread", "image"})
  PROVE  ProbeImageFormat(probes) \in {"no image", "unread", "image"}
<1>. DEFINE hits == {i \in DOMAIN probes : probes[i] # "other"}
<1>1. CASE hits = {}
  BY <1>1 DEF ProbeImageFormat
<1>2. CASE hits # {}
  <2>1. hits \in SUBSET Nat
    OBVIOUS
  <2>2. \E x \in hits : \A y \in hits : x <= y
    BY <1>2, <2>1, Least
  <2>3. Min(hits) \in hits
    BY <2>2 DEF Min
  <2>4. ProbeImageFormat(probes) = probes[Min(hits)]
    BY <1>2 DEF ProbeImageFormat
  <2>5. \A i \in hits : probes[i] \in {"no image", "unread", "image"}
    <3>1. \A i \in DOMAIN probes : probes[i] \in {"other", "unread", "image"}
      OBVIOUS
    <3>. QED BY <3>1
  <2>. HIDE DEF hits
  <2>. QED BY <2>3, <2>4, <2>5
<1>. QED BY <1>1, <1>2

\* A rule that answered clean of a file that is to be read did so when the
\* reading was over and had reported nothing.
OutcomeInv ==
  /\ DOMAIN outcome = Rules
  /\ cache \in {"reading", "read"} => Inspectable(file)
  /\ cache = "read" => stack = <<>>
  /\ outcome["uninspected-container"] = "clean" =>
       ~Inspectable(file) \/ (cache = "read" /\ AllGaps = {})

\* The rule is clean of a file that is to be read only if the reading is over
\* and reported nothing.
LEMMA CleanSays ==
  ASSUME file \in Files, Evaluate("uninspected-container"), file.content, Inspectable(file),
         Uninspected(file) = "clean"
  PROVE  cache = "read" /\ AllGaps = {}
<1>1. IsZip(file) = "zip" /\ ~InsideAppBundle(file)
  BY DEF Inspectable
<1>2. DiskImageFormat(file) \in {"no image", "unread", "image"}
  BY ProbeIs, FilesAssumption DEF DiskImageFormat
<1>3. /\ ~(file.truncated /\ file.source # "File") /\ DiskImageFormat(file) = "no image"
      /\ cache # "none" /\ AllGaps = {}
  BY <1>1, <1>2 DEF Uninspected
<1>4. Needs("uninspected-container", file)
  BY <1>1, <1>3 DEF Needs
<1>. QED BY <1>3, <1>4 DEF Evaluate

\* Every step keeps it,
LEMMA OutcomeStep ==
  ASSUME Inv, OutcomeInv, [Next]_vars
  PROVE  OutcomeInv'
<1>. DEFINE u == "uninspected-container"
<1>0. u \in Rules
  BY DEF Rules
<1>1. CASE ReadNext /\ UNCHANGED <<file, cache, todo, outcome>>
  <2>1. cache = "reading"
    BY <1>1, ReadKeeps DEF Inv
  <2>. QED BY <1>1, <2>1 DEF OutcomeInv, Inspectable
<1>2. CASE \E r \in Rules : Inspect(r)
  <2>1. /\ cache = "unset" /\ file' = file /\ outcome' = outcome
        /\ cache' = IF Inspectable(file) THEN "reading" ELSE "none"
    BY <1>2 DEF Inspect
  <2>. HIDE DEF Inspectable
  <2>2. Inspectable(file)' <=> Inspectable(file)
    BY <2>1 DEF Inspectable
  <2>. QED BY <2>1, <2>2 DEF OutcomeInv
<1>3. CASE \E r \in Rules : Evaluate(r)
  <2>1. PICK r \in Rules : Evaluate(r)
    BY <1>3
  <2>2. /\ UNCHANGED readVars /\ file' = file /\ cache' = cache
        /\ DOMAIN outcome' = Rules /\ (r # u => outcome'[u] = outcome[u])
        /\ (r = u => outcome'[u] = IF file.content THEN Uninspected(file) ELSE "not applicable")
    <3>1. UNCHANGED readVars /\ file' = file /\ cache' = cache
      BY <2>1 DEF Evaluate
    <3>2. DOMAIN outcome' = Rules /\ (r # u => outcome'[u] = outcome[u])
      BY <1>0, <2>1 DEF Evaluate, OutcomeInv
    <3>3. r = u => outcome'[u] = IF file.content THEN Uninspected(file) ELSE "not applicable"
      BY <1>0, <2>1 DEF Evaluate, OutcomeInv
    <3>. QED BY <3>1, <3>2, <3>3
  <2>3. (AllGaps' = AllGaps) /\ (Inspectable(file)' <=> Inspectable(file)) /\ stack' = stack
    BY <2>2 DEF readVars, AllGaps, MemberGaps, Inspectable
  <2>4. ASSUME outcome'[u] = "clean", Inspectable(file)
        PROVE  cache = "read" /\ AllGaps = {}
    <3>1. CASE r = u
      <4>1. Evaluate(u) /\ Uninspected(file) = "clean" /\ file.content
        BY <2>1, <2>2, <2>4, <3>1
      <4>. QED BY <2>4, <4>1, CleanSays DEF Inv
    <3>2. CASE r # u
      BY <2>2, <2>4, <3>2 DEF OutcomeInv
    <3>. QED BY <3>1, <3>2
  <2>. QED BY <2>2, <2>3, <2>4 DEF OutcomeInv
<1>4. CASE Inspected
  <2>1. /\ cache = "reading" /\ stack' = stack /\ stack = <<>> /\ file' = file
        /\ outcome' = outcome /\ (Inspectable(file)' <=> Inspectable(file))
    BY <1>4 DEF Inspected, readVars, Inspectable
  <2>. QED BY <2>1 DEF OutcomeInv
<1>5. CASE UNCHANGED vars
  <2>1. /\ cache' = cache /\ stack' = stack /\ file' = file /\ outcome' = outcome
        /\ AllGaps' = AllGaps /\ (Inspectable(file)' <=> Inspectable(file))
    BY <1>5 DEF vars, readVars, AllGaps, MemberGaps, Inspectable
  <2>. QED BY <2>1 DEF OutcomeInv
<1>. QED BY <1>1, <1>2, <1>3, <1>4, <1>5 DEF Next

\* and it holds at first.
LEMMA OutcomeInit == Init => OutcomeInv
<1>. SUFFICES ASSUME Init PROVE OutcomeInv
  OBVIOUS
<1>1. cache = "unset" /\ outcome = [r \in Rules |-> "unset"]
  BY DEF Init
<1>2. "uninspected-container" \in Rules
  BY DEF Rules
<1>. QED BY <1>1, <1>2 DEF OutcomeInv

\* Nothing is left to read and nothing was reported.
LEMMA NothingHidden ==
  ASSUME CoverInv, OutcomeInv
  PROVE  CleanHidesNothing
<1>. SUFFICES ASSUME outcome["uninspected-container"] = "clean", cache = "read",
                     NEW d \in opened, NEW bytes \in Views(d)
              PROVE  \/ bytes \in opened
                     \/ \E v \in visits : /\ v.bytes = bytes /\ ~v.cut
                                          /\ Scan(bytes).whole /\ ~Scan(bytes).container
                                          /\ ~Scan(bytes).unverified
  BY Zenon DEF CleanHidesNothing
<1>1. AllGaps = {} /\ stack = <<>>
  BY DEF OutcomeInv
<1>2. gaps = {} /\ MemberGaps = {}
  BY <1>1 DEF AllGaps
<1>3. DOMAIN stack = {}
  BY <1>1
<1>4. Views(d) \subseteq Handled
  BY <1>2, <1>3 DEF CoverInv, OpenedCovered
<1>5. bytes # <<>> /\ bytes \in Handled
  BY <1>4, Zenon DEF Views
<1>6. bytes \in opened \/ \E v \in visits : v.bytes = bytes /\ ~v.cut
  BY <1>3, <1>5 DEF Handled
<1>7. ASSUME NEW v \in visits, v.bytes = bytes, ~v.cut
      PROVE  Scan(bytes).whole /\ ~Scan(bytes).container /\ ~Scan(bytes).unverified
  BY <1>2, <1>7, Zenon DEF MemberGaps
<1>. QED BY <1>6, <1>7

\* A file that is reported neither as fired nor as not applicable hides
\* nothing: whatever a tool that trusts the directory and one that reads from
\* the first header on would take from it, or from a zip in it, was scanned
\* whole or read as a zip, and scanning it left nothing unread or unverified
\* (zip.rs:1-10, container.rs:165-226). Excepted is what the second tool would
\* find behind an end that was only trusted (EndTrusted), which the code misses.
THEOREM HidesNothing == Spec => []CleanHidesNothing
<1>1. Init => CoverInv /\ OutcomeInv
  BY CoverInit, OutcomeInit
<1>2. Inv /\ (CoverInv /\ OutcomeInv) /\ [Next]_vars => (CoverInv /\ OutcomeInv)'
  BY CoverStep, OutcomeStep
<1>3. CoverInv /\ OutcomeInv => CleanHidesNothing
  BY NothingHidden
<1>. QED BY <1>1, <1>2, <1>3, Invariant, PTL DEF Spec

=============================================================================
