------------------------------- MODULE Inflate -------------------------------
(***************************************************************************)
(* nav-core's inflate.rs: DEFLATE with its zlib and gzip wrappers, bit by  *)
(* bit, under an output budget, a work cap and, in the metered form, a     *)
(* ceiling on the paid work.  Output goes to a sink, behind a window kept  *)
(* for back-references.  The constants shrink the format: fewer bits to a  *)
(* byte, shorter codes and tables, a smaller window.                       *)
(*                                                                         *)
(* The same stream is decoded twice, "plain" and "metered": what the meter *)
(* changes is part of what is checked.                                     *)
(***************************************************************************)
EXTENDS Coding

CONSTANTS
    LengthBase, LengthExtra, DistBase, DistExtra,   \* of the symbols, in order
    ClenOrder,                     \* the order code-length code lengths arrive in
    CountBits, ClenBits, Repeats,  \* widths of a dynamic block's fields
    MaxLit, MaxDist,               \* ceilings on its alphabets
    FixedLit, FixedDist,           \* the fixed code lengths
    Window, FlushChunk,
    BlockWork, DynamicBlockWork, WorkPerByte, WorkSlack

VARIABLES job,     \* the stream, its budget and the metered run's ceiling
          dec      \* both decoders

inflateVars == <<job, dec>>

Runs == {"plain", "metered"}
NoCap == -1
EndOfBlock == 2^ByteBits
WorkCap(budget) == budget * WorkPerByte + WorkSlack
-----------------------------------------------------------------------------
\* The bit reader: d.pos bits are read.  A byte begun counts as read.

BytePos(d) == (d.pos + ByteBits - 1) \div ByteBits
Aligned(d) == [d EXCEPT !.pos = BytePos(d) * ByteBits]

Has(d, n) == d.pos + n <= Len(job.bits)

\* The next n bits as a number, the first the least significant.
Bits(d, n) ==
    LET bit(i) == job.bits[d.pos + i] * 2^(i - 1)
    IN FoldLeft(+, 0, [i \in 1..n |-> bit(i)])

Skip(d, n) == [d EXCEPT !.pos = @ + n]
ByteAt(k) == Bits([pos |-> k * ByteBits], ByteBits)
TotalBytes == Len(job.bits) \div ByteBits
-----------------------------------------------------------------------------
\* The output: all but the last Window bytes go to the sink once enough
\* build up, checksummed on the way.

Written(d) == Len(d.sink) + Len(d.window)

CheckUpdate(sum, data) ==
    CASE job.wrap = "raw" -> sum
      [] job.wrap = "zlib" -> AdlerUpdate(sum, data)
      [] job.wrap = "gzip" -> CrcUpdate(sum, data)

FlushTo(d, n) ==
    LET old == SubSeq(d.window, 1, n)
    IN [d EXCEPT !.sink = @ \o old, !.window = SubSeq(@, n + 1, Len(@)),
                 !.check = IF n = 0 THEN @ ELSE CheckUpdate(@, old)]

\* Mutant: all of the window goes, nothing is kept for back-references.
FlushOld_All(d) ==
    IF Len(d.window) >= Window + FlushChunk THEN FlushTo(d, Len(d.window)) ELSE d

FlushOld(d) ==
    IF Len(d.window) >= Window + FlushChunk THEN FlushTo(d, Len(d.window) - Window) ELSE d

Push(d, byte) == FlushOld([d EXCEPT !.window = Append(@, byte)])
Extend(d, bytes) == FlushOld([d EXCEPT !.window = @ \o bytes])

Stop(d, result) == [FlushTo(d, Len(d.window)) EXCEPT !.phase = "stopped", !.result = result]

\* One byte at a time: the copy may read what it has just written.
CopyBack(d, distance, n) ==
    FoldLeft(LAMBDA e, i :
               LET at == Len(e.window) - distance + 1
               IN IF e.phase = "stopped" THEN e
                  ELSE IF at < 1 THEN Stop(e, "malformed")
                  ELSE Push(e, e.window[at]),
             d, [i \in 1..n |-> i])
-----------------------------------------------------------------------------
\* The work meter.

Paid(d) == Written(d) + d.blocks

OverCap(d) == BytePos(d) + Paid(d) > WorkCap(job.budget)
OverPaid(d) == d.paidCap # NoCap /\ Paid(d) > d.paidCap

StopAtLimit(d) ==
    [Stop(d, "budget") EXCEPT !.capped = ~OverCap(d) /\ Written(d) < job.budget]

\* Mutant: a block over the ceiling is charged and begun.
MayCharge_Over(d, charge) == ~OverCap([d EXCEPT !.blocks = @ + charge])

MayCharge(d, charge) ==
    LET charged == [d EXCEPT !.blocks = @ + charge]
    IN ~OverCap(charged) /\ ~OverPaid(charged)

\* A block refused is not charged, but is what the stop is judged by.
RefuseBlock(d, charge) ==
    [StopAtLimit([d EXCEPT !.blocks = @ + charge]) EXCEPT !.blocks = d.blocks]

OutputLimit(d) ==
    IF d.paidCap = NoCap THEN job.budget
    ELSE Min({job.budget, Room(d.paidCap, d.blocks)})

\* A block stopped by its output limit: below the budget it is the ceiling's.
StopInBlock(d) == [Stop(d, "budget") EXCEPT !.capped = d.limit < job.budget]
-----------------------------------------------------------------------------
\* The wrappers.

NewDecoder(paidCap) ==
    [pos |-> 0, sink |-> <<>>, window |-> <<>>, blocks |-> 0, paidCap |-> paidCap,
     capped |-> FALSE, limit |-> 0, final |-> FALSE, phase |-> "header",
     lit |-> <<>>, dist |-> <<>>, used |-> 0, result |-> "none",
     check |-> IF job.wrap = "zlib" THEN AdlerInit ELSE Ones]

\* The header's fixed bytes in order ("bad" is the first wrong one), then
\* whatever optional fields its flags announce.
HeaderError ==
    LET fixed == CASE job.wrap = "raw" -> 0 [] job.wrap = "zlib" -> 2 [] job.wrap = "gzip" -> 4
        h == job.head
    IN IF fixed = 0 THEN "none"
       ELSE IF job.wrap = "zlib" /\ h.present < 2 THEN "truncated"
       ELSE IF h.bad < Min({h.present, fixed}) THEN "bad header"
       ELSE IF h.present < h.size THEN "truncated" ELSE "none"

Header(d) ==
    IF HeaderError # "none" THEN Stop(d, HeaderError) ELSE [d EXCEPT !.phase = "block"]

\* The trailer's own checksum, most significant byte first or last, and the
\* length modulo the width of its field.
Trailer(d) ==
    LET at == BytePos(d)
        high == 2^ByteBits
        size == CASE job.wrap = "raw" -> 0 [] job.wrap = "zlib" -> 2 [] job.wrap = "gzip" -> 3
        e == FlushTo(d, Len(d.window))
        done == [e EXCEPT !.used = job.head.size + at]
        right == CASE job.wrap = "raw" -> TRUE
                   [] job.wrap = "zlib" -> e.check = <<ByteAt(at + 1), ByteAt(at)>>
                   [] job.wrap = "gzip" ->
                        /\ Ones - e.check = ByteAt(at) + ByteAt(at + 1) * high
                        /\ Written(e) % high = ByteAt(at + 2)
    IN IF at + size > TotalBytes THEN Stop(done, "truncated")
       ELSE Stop(done, IF right THEN "ok" ELSE "checksum")
-----------------------------------------------------------------------------
\* Blocks.

Stored(d) ==
    LET a == Aligned(d)
        len == Bits(a, ByteBits)
        nlen == Bits(Skip(a, ByteBits), ByteBits)
        at == Skip(a, 2 * ByteBits)
        want == Min({len, Room(a.limit, Written(a))})
        got == Min({want, TotalBytes - BytePos(at)})
        e == Extend([Skip(at, got * ByteBits) EXCEPT
                       !.phase = IF a.final THEN "trailer" ELSE "block"],
                    [i \in 1..got |-> ByteAt(BytePos(at) + i - 1)])
    IN IF ~Has(a, 2 * ByteBits) THEN Stop(a, "truncated")
       ELSE IF nlen # EndOfBlock - 1 - len THEN Stop(at, "malformed")
       ELSE IF len > Room(a.limit, Written(a)) THEN StopInBlock(e)
       ELSE IF got < want THEN Stop(e, "truncated") ELSE e

\* The lengths both tables are made of: r is the next symbol of their code,
\* a length or a repetition.
AddLengths(s, r, total) ==
    LET repeat == Repeats[r.sym - MaxBits]
        Add(n, value, next) ==
          IF next > Len(job.bits) THEN [s EXCEPT !.error = "truncated", !.pos = r.next]
          ELSE IF Len(s.lengths) + n > total
          THEN [s EXCEPT !.error = "malformed", !.pos = next]
          ELSE [s EXCEPT !.pos = next, !.lengths = @ \o [k \in 1..n |-> value]]
    IN IF r.error # "none" THEN [s EXCEPT !.error = r.error, !.pos = r.next]
       ELSE IF r.sym <= MaxBits THEN Add(1, r.sym, r.next)
       ELSE IF r.sym = MaxBits + 1 /\ s.lengths = <<>>
       THEN [s EXCEPT !.error = "malformed", !.pos = r.next]
       ELSE Add(repeat.base + Bits([pos |-> r.next], repeat.bits),
                IF r.sym = MaxBits + 1 THEN s.lengths[Len(s.lengths)] ELSE 0,
                r.next + repeat.bits)

ReadLengths(d, clen, total) ==
    LET Step(s, i) == IF s.error # "none" \/ Len(s.lengths) = total THEN s
                      ELSE AddLengths(s, ReadSymbol(clen, job.bits, s.pos), total)
    IN FoldLeft(Step, [pos |-> d.pos, lengths |-> <<>>, error |-> "none"],
                [i \in 1..total |-> i])

\* A dynamic block's tables, or why there are none.
MakeTables(e, lit, dist) ==
    IF lit[EndOfBlock + 1] = 0 \/ ~Accepts(lit, TRUE) \/ ~Accepts(dist, TRUE)
    THEN Stop(e, "malformed")
    ELSE [e EXCEPT !.phase = "symbols", !.lit = Table(lit), !.dist = Table(dist)]

ReadTables(d, clens, hlit, hdist) ==
    LET Read(r) == IF r.error # "none" THEN Stop([d EXCEPT !.pos = r.pos], r.error)
                   ELSE MakeTables([d EXCEPT !.pos = r.pos], SubSeq(r.lengths, 1, hlit),
                                   SubSeq(r.lengths, hlit + 1, hlit + hdist))
    IN IF ~Accepts(clens, FALSE) THEN Stop(d, "malformed")
       ELSE Read(ReadLengths(d, Table(clens), hlit + hdist))

Dynamic(d) ==
    LET Tables(at, hlit, hdist, hclen) ==
          LET clens == [s \in 1..Len(ClenOrder) |->
                 LET k == CHOOSE i \in DOMAIN ClenOrder : ClenOrder[i] = s - 1
                 IN IF k <= hclen THEN Bits(Skip(at, (k - 1) * ClenBits), ClenBits) ELSE 0]
          IN IF hlit > MaxLit \/ hdist > MaxDist THEN Stop(at, "malformed")
             ELSE IF ~Has(at, hclen * ClenBits) THEN Stop(at, "truncated")
             ELSE ReadTables(Skip(at, hclen * ClenBits), clens, hlit, hdist)
    IN IF ~Has(d, 3 * CountBits) THEN Stop(d, "truncated")
       ELSE Tables(Skip(d, 3 * CountBits), Bits(d, CountBits) + EndOfBlock + 1,
                   Bits(Skip(d, CountBits), CountBits) + 1,
                   Bits(Skip(d, 2 * CountBits), CountBits) + 4)

\* A block's header: the meter is checked before and after it is charged.
Block(d) ==
    LET type == Bits(Skip(d, 1), 2)
        charge == IF type = 2 THEN DynamicBlockWork ELSE BlockWork
        h == [Skip(d, 3) EXCEPT !.final = Bits(d, 1) = 1]
        charged == [h EXCEPT !.blocks = @ + charge]
        begun == [charged EXCEPT !.limit = OutputLimit(charged)]
    IN IF OverCap(d) \/ OverPaid(d) THEN StopAtLimit(d)
       ELSE IF ~Has(d, 3) THEN Stop(d, "truncated")
       ELSE IF ~MayCharge(h, charge) THEN RefuseBlock(h, charge)
       ELSE CASE type = 0 -> Stored(begun)
              [] type = 1 -> [begun EXCEPT !.phase = "symbols", !.lit = Table(FixedLit),
                                           !.dist = Table(FixedDist)]
              [] type = 2 -> Dynamic(begun)
              [] OTHER    -> Stop(begun, "malformed")

\* Mutant: what does not fit is dropped and the decode goes on.
CopyRun_Clamped(d, distance, len) ==
    CopyBack(d, distance, Min({len, Room(d.limit, Written(d))}))

CopyRun(d, distance, len) ==
    LET room == Room(d.limit, Written(d))
        Ended(e) == IF e.phase # "stopped" /\ len > room THEN StopInBlock(e) ELSE e
    IN Ended(CopyBack(d, distance, Min({len, room})))

\* The distance of a copy: s is its symbol, f the decoder behind it.
CopyAt(f, s, len) ==
    LET extra == DistExtra[s.sym + 1]
        Copied(g, distance) == IF distance > Written(g) THEN Stop(g, "malformed")
                               ELSE CopyRun(g, distance, len)
    IN IF s.sym = -1 THEN Stop(f, s.error)
       ELSE IF s.sym >= Len(DistBase) THEN Stop(f, "malformed")
       ELSE IF ~Has(f, extra) THEN Stop(f, "truncated")
       ELSE Copied(Skip(f, extra), DistBase[s.sym + 1] + Bits(f, extra))

\* A copy of the li-th length, its extra bits still to be read.
CopyOf(e, li) ==
    LET At(f, len) ==
          LET Read(s) == CopyAt([f EXCEPT !.pos = s.next], s, len)
          IN Read(ReadSymbol(f.dist, job.bits, f.pos))
        extra == LengthExtra[li]
    IN IF li > Len(LengthBase) THEN Stop(e, "malformed")
       ELSE IF ~Has(e, extra) THEN Stop(e, "truncated")
       ELSE At(Skip(e, extra), LengthBase[li] + Bits(e, extra))

\* One symbol of a compressed block.
DecodeSymbol(d) ==
    LET Take(e, l) ==
          IF l.sym = -1 THEN Stop(e, l.error)
          ELSE IF l.sym < EndOfBlock
          THEN IF Written(e) >= e.limit THEN StopInBlock(e) ELSE Push(e, l.sym)
          ELSE IF l.sym = EndOfBlock
          THEN [e EXCEPT !.phase = IF e.final THEN "trailer" ELSE "block"]
          ELSE CopyOf(e, l.sym - EndOfBlock)
        Read(l) == Take([d EXCEPT !.pos = l.next], l)
    IN Read(ReadSymbol(d.lit, job.bits, d.pos))
-----------------------------------------------------------------------------
Advance(d) ==
    LET Counted(e) == IF e.phase = "stopped" /\ d.phase \notin {"header", "trailer"}
                      THEN [e EXCEPT !.used = job.head.size + BytePos(e)] ELSE e
    IN Counted(CASE d.phase = "header" -> Header(d)
                 [] d.phase = "block" -> Block(d)
                 [] d.phase = "symbols" -> DecodeSymbol(d)
                 [] d.phase = "trailer" -> Trailer(d))

StartDecode(j) ==
    /\ job = j
    /\ dec = [r \in Runs |-> NewDecoder(IF r = "plain" THEN NoCap ELSE j.paid)]

DecodeStep ==
    \E r \in Runs :
        /\ dec[r].phase # "stopped"
        /\ r = "metered" => dec["plain"].phase = "stopped"
        /\ dec' = [dec EXCEPT ![r] = Advance(@)]
        /\ UNCHANGED job

\* The sink and the window behind it.
Output(d) == d.sink \o d.window
=============================================================================
