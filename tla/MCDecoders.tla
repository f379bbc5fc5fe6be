----------------------------- MODULE MCDecoders -----------------------------
\* An instance of Decoders for TLC: bytes of two bits, seven-symbol tables
\* and a window of four bytes, with an encoder for both formats.
EXTENDS Decoders

MCFixedLit == <<3, 3, 3, 3, 3, 3, 3, 3>>
MCFixedDist == <<2, 2, 2, 2>>
MCClenOrder == <<4, 5, 6, 0, 2, 1, 3>>
MCRepeats == <<[base |-> 2, bits |-> 1], [base |-> 2, bits |-> 1], [base |-> 4, bits |-> 1]>>
MCLengthBase == <<2, 3>>
MCLengthExtra == <<0, 1>>
MCDistBase == <<1, 2, 3>>
MCDistExtra == <<0, 0, 1>>
MCRNums == <<2, 3>>

Number(v, n) == [i \in 1..n |-> (v \div 2^(i - 1)) % 2]
Pad(bits) == bits \o [i \in 1..((ByteBits - (Len(bits) % ByteBits)) % ByteBits) |-> 0]
Bytes(bs) == FlattenSeq([i \in DOMAIN bs |-> Number(bs[i], ByteBits)])

\* A token is a literal, or a length symbol with its extra bits' value and a
\* distance symbol with its own.
Lit(b) == [sym |-> b, text |-> TRUE]
Copy(sym, extra, dist, dextra) == [sym |-> sym, text |-> FALSE, extra |-> extra,
                                  dist |-> dist, dextra |-> dextra]
TokenBits(t, lit, dist) ==
    CanonicalCode(lit, t.sym) \o
    IF t.text THEN <<>>
    ELSE (IF t.sym - EndOfBlock <= Len(LengthExtra)
          THEN Number(t.extra, LengthExtra[t.sym - EndOfBlock]) ELSE <<>>) \o
         CanonicalCode(dist, t.dist) \o
         (IF t.dist < Len(DistExtra) THEN Number(t.dextra, DistExtra[t.dist + 1]) ELSE <<>>)
Tokens(ts, lit, dist) ==
    FlattenSeq([i \in DOMAIN ts |-> TokenBits(ts[i], lit, dist)]) \o
    CanonicalCode(lit, EndOfBlock)

StoredBlock(bs) == [type |-> 0, bytes |-> bs, nlen |-> EndOfBlock - 1 - Len(bs)]
Fixed(ts) == [type |-> 1, tokens |-> ts]
\* "codes" are the code-length symbols, each with its repeat's extra value.
DynamicBlock(clens, codes, lit, dist, ts) ==
    [type |-> 2, clens |-> clens, codes |-> codes, lit |-> lit, dist |-> dist, tokens |-> ts]

DynamicBits(b) ==
    Number(Len(b.lit) - EndOfBlock - 1, CountBits) \o Number(Len(b.dist) - 1, CountBits) \o
    Number(3, CountBits) \o
    FlattenSeq([i \in DOMAIN ClenOrder |-> Number(b.clens[ClenOrder[i] + 1], ClenBits)]) \o
    FlattenSeq([i \in DOMAIN b.codes |->
        CanonicalCode(b.clens, b.codes[i][1]) \o
        IF b.codes[i][1] > MaxBits THEN Number(b.codes[i][2], 1) ELSE <<>>]) \o
    Tokens(b.tokens, b.lit, b.dist)

Encode(blocks) ==
    LET Step(bits, i) ==
          LET b == blocks[i]
              h == bits \o <<IF i = Len(blocks) THEN 1 ELSE 0>> \o Number(b.type, 2)
          IN CASE b.type = 0 -> Pad(h) \o Bytes(<<Len(b.bytes), b.nlen>> \o b.bytes)
               [] b.type = 1 -> h \o Tokens(b.tokens, FixedLit, FixedDist)
               [] b.type = 2 -> h \o DynamicBits(b)
               [] OTHER -> h
    IN Pad(FoldLeft(Step, <<>>, [i \in DOMAIN blocks |-> i]))

Expand(text, t) ==
    IF t.text THEN Append(text, t.sym)
    ELSE LET len == LengthBase[t.sym - EndOfBlock] + t.extra
             distance == DistBase[t.dist + 1] + t.dextra
         IN FoldLeft(LAMBDA s, i : Append(s, s[Len(s) - distance + 1]), text,
                     [i \in 1..len |-> i])
Text(blocks) ==
    FoldLeft(LAMBDA text, b : IF b.type = 0 THEN text \o b.bytes
                              ELSE IF b.type = 3 THEN text
                              ELSE FoldLeft(Expand, text, b.tokens), <<>>, blocks)

Valid ==
    {<<Fixed(<<Lit(3), Lit(1), Copy(5, 0, 1, 0), Lit(0), Copy(6, 1, 2, 1), Lit(2)>>)>>,
     <<StoredBlock(<<3, 3, 3>>), Fixed(<<Lit(3), Copy(6, 1, 0, 0)>>)>>,
     <<Fixed(<<>>), Fixed(<<Lit(2)>>), StoredBlock(<<>>)>>,
     <<Fixed(<<Lit(1)>>), Fixed(<<>>), Fixed(<<>>), Fixed(<<>>), Fixed(<<>>), Fixed(<<>>)>>,
     <<DynamicBlock(<<0, 1, 0, 0, 0, 1, 0>>,
                    <<<<1, 0>>, <<5, 1>>, <<1, 0>>, <<5, 0>>, <<1, 0>>>>,
                    <<1, 0, 0, 0, 1, 0, 0>>, <<1>>, <<Lit(0), Lit(0)>>)>>,
     <<DynamicBlock(<<0, 1, 0, 0, 0, 0, 1>>, <<<<6, 0>>, <<1, 0>>, <<1, 0>>>>,
                    <<0, 0, 0, 0, 1>>, <<1>>, <<>>)>>,
     <<DynamicBlock(<<2, 2, 2, 0, 2, 0, 0>>,
                    <<<<2, 0>>, <<4, 0>>, <<0, 0>>, <<2, 0>>, <<1, 0>>>>,
                    <<2, 2, 2, 0, 2>>, <<1>>, <<Lit(2), Lit(1)>>)>>,
     <<DynamicBlock(<<2, 2, 2, 0, 2, 0, 0>>,
                    <<<<0, 0>>, <<2, 0>>, <<2, 0>>, <<0, 0>>, <<2, 0>>, <<2, 0>>,
                      <<1, 0>>, <<0, 0>>>>,
                    <<0, 2, 2, 0, 2, 2>>, <<1, 0>>, <<Lit(1), Lit(2), Copy(5, 0, 0, 0)>>)>>,
     <<DynamicBlock(<<0, 1, 0, 1, 0, 0, 0>>,
                    <<<<1, 0>>, <<3, 0>>, <<3, 0>>, <<3, 0>>, <<3, 0>>, <<1, 0>>, <<1, 0>>>>,
                    <<1, 3, 3, 3, 3>>, <<1, 1>>, <<Lit(3), Lit(0), Lit(1)>>),
       StoredBlock(<<2>>)>>}

\* Streams that go wrong, after the text that precedes.
Invalid ==
    {[blocks |-> <<[StoredBlock(<<1>>) EXCEPT !.nlen = 1]>>, text |-> <<>>],
     [blocks |-> <<Fixed(<<Lit(1)>>), [type |-> 3]>>, text |-> <<1>>],
     [blocks |-> <<Fixed(<<Lit(1), Lit(2), Copy(5, 0, 2, 0)>>)>>, text |-> <<1, 2>>],
     [blocks |-> <<Fixed(<<Lit(1), Copy(7, 0, 0, 0)>>)>>, text |-> <<1>>],
     [blocks |-> <<Fixed(<<Lit(1), Copy(5, 0, 3, 0)>>)>>, text |-> <<1>>]} \cup
    {[blocks |-> <<DynamicBlock(c[1], c[2], c[3], c[4], <<>>)>>, text |-> <<>>] : c \in
        {\* over-subscribed, no end of block, nothing to repeat, a run too long
         <<<<0, 1, 0, 0, 0, 0, 1>>, <<<<1, 0>>, <<1, 0>>, <<1, 0>>, <<1, 0>>, <<1, 0>>, <<1, 0>>>>,
           <<1, 1, 1, 1, 1>>, <<1>>>>,
         <<<<0, 1, 0, 0, 0, 0, 1>>, <<<<1, 0>>, <<6, 0>>, <<1, 0>>>>, <<1, 0, 0, 0, 0>>, <<1>>>>,
         <<<<0, 1, 0, 0, 1, 0, 0>>, <<<<4, 0>>, <<1, 0>>>>, <<0, 0, 0, 0, 1>>, <<1>>>>,
         <<<<0, 1, 0, 0, 0, 0, 1>>, <<<<1, 0>>, <<6, 1>>, <<1, 0>>>>, <<0, 0, 0, 0, 1>>, <<1>>>>,
         \* alphabets past their ceilings, a lone or over-subscribed length code
         <<<<0, 1, 0, 0, 0, 0, 1>>, <<>>, <<0, 0, 0, 0, 1, 0, 0, 0>>, <<1>>>>,
         <<<<0, 1, 0, 0, 0, 0, 1>>, <<>>, <<0, 0, 0, 0, 1>>, <<0, 0, 0, 1>>>>,
         <<<<0, 1, 0, 0, 0, 0, 0>>, <<<<1, 0>>>>, <<0, 0, 0, 0, 1>>, <<1>>>>,
         <<<<1, 1, 0, 0, 0, 0, 1>>, <<>>, <<0, 0, 0, 0, 1>>, <<1>>>>}}

Two(v) == <<v % 2^ByteBits, v \div 2^ByteBits>>
TrailerOf(wrap, text) ==
    CASE wrap = "raw" -> <<>>
      [] wrap = "zlib" -> <<AdlerOf(text)[2], AdlerOf(text)[1]>>
      [] wrap = "gzip" -> Two(CrcOfBytes(text)) \o <<Len(text) % 2^ByteBits>>
HeaderOf(wrap) ==
    LET n == CASE wrap = "raw" -> 0 [] wrap = "zlib" -> 2 [] wrap = "gzip" -> 10
    IN [bad |-> n, present |-> n, size |-> n]

Job(wrap, blocks, budget, paid) ==
    LET text == Text(blocks)
    IN [wrap |-> wrap, head |-> HeaderOf(wrap), text |-> text, valid |-> TRUE, trailed |-> TRUE,
        bits |-> Encode(blocks) \o Bytes(TrailerOf(wrap, text)), budget |-> budget,
        paid |-> paid]

Budgets3(text) == {0, 1, Len(text) - 1, Len(text), Len(text) + 2} \cap Nat
Some == Job("zlib", CHOOSE b \in Valid : Len(b) = 1, 20, 20)

MCJobs ==
    UNION {{Job(w, b, n, p) : w \in {"raw", "zlib", "gzip"}, n \in Budgets3(Text(b)),
                              p \in {0, 1, 3, Len(Text(b)) + 1, 20}} : b \in Valid} \cup
    UNION {LET j == Job("raw", b, 20, 20)
           IN {[j EXCEPT !.bits = SubSeq(@, 1, n * ByteBits), !.valid = FALSE] :
                 n \in 0..(Len(j.bits) \div ByteBits - 1)} : b \in Valid} \cup
    {[Job("raw", <<Fixed(<<>>)>>, 20, p) EXCEPT !.bits = Encode(i.blocks), !.text = i.text,
                                                !.valid = FALSE] :
        i \in Invalid, p \in {1, 3, 20}} \cup
    {[Job(w, <<Fixed(<<Lit(3)>>)>>, 20, 20) EXCEPT !.bits = SubSeq(@, 1, Len(@) - ByteBits) \o s,
                                                   !.trailed = FALSE, !.valid = s # <<>>] :
        w \in {"zlib", "gzip"}, s \in {<<>>, <<1, 1>>}} \cup
    {[Some EXCEPT !.valid = FALSE, !.text = <<>>, !.wrap = w, !.head = h] :
        w \in {"zlib", "gzip"},
        h \in {[bad |-> 0, present |-> 1, size |-> 2], [bad |-> 1, present |-> 10, size |-> 10],
               [bad |-> 4, present |-> 1, size |-> 2], [bad |-> 3, present |-> 4, size |-> 10],
               [bad |-> 4, present |-> 10, size |-> 12]}}
MCNoJob == [Some EXCEPT !.valid = FALSE, !.text = <<>>,
                        !.head = [bad |-> 0, present |-> 1, size |-> 2]]
-----------------------------------------------------------------------------
\* bzip2: a text's runs, the block sorted, its values by recency, the runs
\* of the front value in base two, and the codes.
Runs1(text) ==
    LET Step(s, c) ==
          IF s.n = 4 /\ c = s.last /\ s.more < EndOfBlock - 1
          THEN [s EXCEPT !.more = @ + 1]
          ELSE LET base == IF s.n = 4 THEN Append(s.out, s.more) ELSE s.out
                   n == IF s.n \in 1..3 /\ c = s.last THEN s.n + 1 ELSE 1
               IN [out |-> Append(base, c), last |-> c, n |-> n, more |-> 0]
        r == FoldLeft(Step, [out |-> <<>>, last |-> 0, n |-> 0, more |-> 0], text)
    IN IF r.n = 4 THEN Append(r.out, r.more) ELSE r.out

Rotation(s, i) == SubSeq(s, i, Len(s)) \o SubSeq(s, 1, i - 1)
RotationsSorted(s) ==
    LET Less(i, j) ==
          LET a == Rotation(s, i)  b == Rotation(s, j)
              diff == {k \in DOMAIN a : a[k] # b[k]}
          IN IF diff = {} THEN i < j ELSE a[Min(diff)] < b[Min(diff)]
    IN InOrder(DOMAIN s, Less)

RunDigits(n) ==
    LET digits[k \in 0..8] ==
          IF k = 0 THEN [left |-> n, out |-> <<>>]
          ELSE LET p == digits[k-1]
               IN IF p.left = 0 THEN p
                  ELSE [left |-> (p.left - 1) \div 2, out |-> Append(p.out, (p.left - 1) % 2)]
    IN digits[8].out

Symbols(last, used) ==
    LET Step(s, c) ==
          LET k == CHOOSE i \in DOMAIN s.mtf : s.mtf[i] = c
          IN IF k = 1 THEN [s EXCEPT !.run = @ + 1]
             ELSE [mtf |-> ToFront(s.mtf, k), run |-> 0,
                   out |-> s.out \o RunDigits(s.run) \o <<k>>]
        r == FoldLeft(Step, [mtf |-> used, run |-> 0, out |-> <<>>], last)
    IN r.out \o RunDigits(r.run) \o <<Len(used) + 1>>

\* What randomising flips: where the schedule's counter reaches one.
Flipped(s) ==
    LET Step(a, c) ==
          LET r == Randomised(a)
          IN [toGo |-> r.toGo, rand |-> r.rand,
              out |-> Append(a.out, IF r.flip THEN c ^^ 1 ELSE c)]
    IN FoldLeft(Step, [toGo |-> 0, rand |-> 0, out |-> <<>>], s).out

\* Lengths 3 for all, or one shorter code, as deltas.
Lengths(alpha) == [start |-> 3, deltas |-> [i \in 1..alpha |-> <<>>]]
Mixed(alpha) ==
    IF alpha > 5
    THEN [start |-> 2, deltas |-> [i \in 1..alpha |-> IF i = 2 THEN <<1>> ELSE <<>>]]
    ELSE [start |-> 1, deltas |-> [i \in 1..alpha |-> IF i = 2 THEN <<1, 1>> ELSE <<>>]]

Coded(symbols, used, tables) ==
    LET lengths(i) == Deltas(tables[1 + (((i - 1) \div GroupSize) % 2)]).lengths
        count == (Len(symbols) + GroupSize - 1) \div GroupSize
    IN [cut |-> "none", used |-> used, groups |-> 2, tables |-> tables, count |-> count,
        selectors |-> [i \in 1..count |-> IF i = 1 THEN 0 ELSE 1],
        bits |-> FlattenSeq([i \in DOMAIN symbols |->
                                CanonicalCode(lengths(i), symbols[i])])]
Sorted2(s, order, used) ==
    LET last == [i \in DOMAIN s |-> Last(Rotation(s, order[i]))]
    IN [orig |-> (CHOOSE i \in DOMAIN order : order[i] = 1) - 1] @@
       Coded(Symbols(last, used), used, <<Lengths(Len(used) + 2), Mixed(Len(used) + 2)>>)
MCBlock(text, randomised) ==
    LET Of(s) == Sorted2(s, RotationsSorted(s), Ascending(Range(s)))
        Runs2(runs) == Of(IF randomised THEN Flipped(runs) ELSE runs)
    IN [crc |-> CrcMsb(text), randomised |-> randomised] @@ Runs2(Runs1(text))

Good == [bad |-> 4, present |-> 4]
Combined(bs) ==
    FoldLeft(LAMBDA c, b : (((2 * c) % 2^CrcBits) + c \div 2^(CrcBits - 1)) ^^ b.crc, 0, bs)
Bz(texts, randomised, budget) ==
    LET Of(bs) == [head |-> Good, level |-> 1, blocks |-> bs, tail |-> "end", end |-> Combined(bs),
                   budget |-> budget, text |-> FlattenSeq(texts), valid |-> TRUE]
    IN Of([i \in DOMAIN texts |-> MCBlock(texts[i], randomised)])

BzTexts == {<<<<2>>>>, <<<<0, 1, 0, 1, 2>>>>, <<<<1, 1, 1, 1>>>>, <<<<2, 2, 2, 2, 2, 2, 0>>>>,
            <<<<3, 0, 3, 3, 3>>, <<1>>>>, <<<<1, 1, 1, 1, 1, 1, 1, 1, 1, 1>>, <<1, 1>>>>, <<>>,
            <<<<0, 0, 0, 0, 0, 3, 3, 3, 3, 3>>>>, <<<<2, 1, 2, 1, 2, 1>>>>}
OneBlock == Bz(<<<<0, 1, 0>>>>, FALSE, 20)
Spoilt(one) ==
    LET With(field, v) == [one EXCEPT !.valid = FALSE, !.blocks[1][field] = v]
        bad == [one EXCEPT !.valid = FALSE]
    IN {With("cut", c) : c \in {"header", "selectors", "tables"}} \cup
       {With("bits", SubSeq(one.blocks[1].bits, 1, n)) : n \in 0..(Len(one.blocks[1].bits) - 1)} \cup
       {With("orig", 3), With("groups", 1), With("groups", 7), With("used", <<>>),
        With("count", 0), With("selectors", <<2>>), With("selectors", <<>>),
        With("tables", <<Lengths(4), [start |-> 4, deltas |-> <<<<>>, <<-1>>, <<>>, <<>>>>]>>),
        [With("crc", 0) EXCEPT !.text = <<0, 1, 0>>],
        [bad EXCEPT !.end = 15], [bad EXCEPT !.tail = "cut"], [bad EXCEPT !.tail = "other"]}
MCStreams ==
    UNION {{Bz(t, r, n) : r \in BOOLEAN, n \in {0, 1, 5, 20}} : t \in BzTexts} \cup Spoilt(OneBlock)
MCNoStream == [OneBlock EXCEPT !.valid = FALSE, !.head = [bad |-> 3, present |-> 4]]
=============================================================================
