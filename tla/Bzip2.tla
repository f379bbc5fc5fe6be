-------------------------------- MODULE Bzip2 --------------------------------
(***************************************************************************)
(* nav-core's bzip2.rs: one bzip2 stream decoded symbol by symbol and byte *)
(* by byte under an output budget.  The fields of a block are numbers and  *)
(* sequences of numbers; only the coded symbols are bits.  "cut" names the *)
(* part of a block the input ends in.                                      *)
(***************************************************************************)
EXTENDS Coding

CONSTANTS BlockUnit,        \* the block size of level 1
          MaxGroups,
          MaxSelectors,     \* those beyond are read and discarded
          GroupSize,        \* symbols decoded with one selector
          MaxRunWeight,
          RNums             \* the randomisation schedule

VARIABLES stream,  \* the stream and the budget
          bz       \* the decoder

bzip2Vars == <<stream, bz>>

BStop(d, result) == [d EXCEPT !.phase = "stopped", !.result = result]
Block2(d) == stream.blocks[d.block]
MaxBlock == stream.level * BlockUnit

NewBzip ==
    [phase |-> "header", block |-> 1, out |-> <<>>, start |-> 0, combined |-> 0,
     selectors |-> <<>>, tables |-> <<>>, group |-> 0, left |-> 0, pos |-> 0,
     mtf |-> <<>>, run |-> 0, weight |-> 1, tt |-> <<>>, next |-> <<>>, at |-> 0,
     walked |-> 0, last |-> 0, same |-> 0, toGo |-> 0, rand |-> 0, result |-> "none"]

\* The four fixed bytes: "BZh" and a level.
BHeader(d) ==
    LET h == stream.head
    IN IF h.bad < Min({h.present, 4}) THEN BStop(d, "bad header")
       ELSE IF h.present < 4 THEN BStop(d, "truncated")
       ELSE [d EXCEPT !.phase = "magic"]

\* The i-th of a list moved to its front.
ToFront(list, i) == <<list[i]>> \o RemoveAt(list, i)

\* Each selector is an index into the tables, most recently used first.
Selectors(block) ==
    LET Step(s, j) == LET order == ToFront(s.order, j + 1)
                      IN [order |-> order, out |-> Append(s.out, order[1])]
        all == FoldLeft(Step, [order |-> [i \in 1..MaxGroups |-> i], out |-> <<>>],
                        block.selectors)
    IN SubSeq(all.out, 1, Min({Len(all.out), MaxSelectors}))

\* A table's lengths: each starts from the one before and goes up or down by
\* one; all values on the way must be lengths.
Deltas(table) ==
    LET Step(s, symbol) ==
          LET end == s.curr + FoldLeft(+, 0, symbol)
              ways == {s.curr + FoldLeft(+, 0, SubSeq(symbol, 1, k)) : k \in 0..Len(symbol)}
          IN [curr |-> end, lengths |-> Append(s.lengths, end),
              ok |-> s.ok /\ ways \subseteq 1..MaxBits]
    IN FoldLeft(Step, [curr |-> table.start, lengths |-> <<>>, ok |-> TRUE], table.deltas)

\* decode_stream's loop: a block, whose tables are read here, or the trailer.
BMagic(d) ==
    IF d.block > Len(stream.blocks)
    THEN CASE stream.tail = "cut" -> BStop(d, "truncated")
           [] stream.tail = "other" -> BStop(d, "malformed")
           [] OTHER -> BStop(d, IF stream.end = d.combined THEN "ok" ELSE "checksum")
    ELSE LET b == Block2(d)
             tables == [i \in DOMAIN b.tables |-> Deltas(b.tables[i])]
         IN IF b.cut = "header" THEN BStop(d, "truncated")
            ELSE IF b.used = <<>> \/ b.groups \notin 2..MaxGroups \/ b.count = 0
            THEN BStop(d, "malformed")
            ELSE IF \E i \in DOMAIN b.selectors : b.selectors[i] >= b.groups
            THEN BStop(d, "malformed")
            ELSE IF b.cut = "selectors" THEN BStop(d, "truncated")
            ELSE IF \E i \in DOMAIN tables : ~tables[i].ok THEN BStop(d, "malformed")
            ELSE IF b.cut = "tables" THEN BStop(d, "truncated")
            ELSE [d EXCEPT !.phase = "symbols", !.selectors = Selectors(b), !.group = 0,
                           !.left = 0, !.pos = 0, !.mtf = b.used, !.run = 0, !.weight = 1,
                           !.tt = <<>>,
                           !.tables = [i \in DOMAIN tables |-> Limits2(tables[i].lengths)]]

\* A run of the front value, once its length is known.
FlushRun(d) ==
    [d EXCEPT !.tt = @ \o [i \in 1..d.run |-> d.mtf[1]], !.run = 0, !.weight = 1]

\* The inverse of the transform: each place's successor.
Successors(tt) ==
    LET Before(i, j) == tt[i] < tt[j] \/ (tt[i] = tt[j] /\ i < j)
    IN InOrder(DOMAIN tt, Before)

EndSymbols(d) ==
    LET n == Len(d.tt)
        next == Successors(d.tt)
        orig == Block2(d).orig
    IN IF orig >= n THEN BStop(d, "malformed")
       ELSE [d EXCEPT !.phase = "walk", !.next = next, !.at = next[orig + 1],
                      !.start = Len(d.out), !.walked = 0, !.last = 0, !.same = 0,
                      !.toGo = 0, !.rand = 0]

\* A value's place, or the end: the run before it is flushed first.
PutSymbol(f, sym, used) ==
    LET Moved(mtf) == [f EXCEPT !.mtf = mtf, !.tt = Append(@, mtf[1])]
    IN IF sym = Len(used) + 1 THEN EndSymbols(f)
       ELSE IF Len(f.tt) >= MaxBlock THEN BStop(f, "malformed")
       ELSE Moved(ToFront(f.mtf, sym))

TakeSymbol(e, r, used) ==
    LET run == e.run + (r.sym + 1) * e.weight
    IN IF r.sym = -1 THEN BStop(e, r.error)
       ELSE IF r.sym <= 1
       THEN IF e.weight >= MaxRunWeight \/ run > MaxBlock THEN BStop(e, "malformed")
            ELSE [e EXCEPT !.run = run, !.weight = 2 * @]
       ELSE IF e.run > 0 /\ Len(e.tt) + e.run > MaxBlock THEN BStop(e, "malformed")
       ELSE PutSymbol(FlushRun(e), r.sym, used)

\* One symbol: part of a run's length, a value's place, or the end.
BSymbol(d) ==
    LET begun == IF d.left = 0
                 THEN [d EXCEPT !.group = @ + 1, !.left = GroupSize] ELSE d
        ended == d.left = 0 /\ d.group >= Len(d.selectors)
        table == d.selectors[begun.group]
        Read(r) == TakeSymbol([begun EXCEPT !.left = @ - 1, !.pos = r.next], r, Block2(d).used)
    IN IF ended \/ table > Len(d.tables) THEN BStop(d, "malformed")
       ELSE Read(ReadSymbol2(d.tables[table], Block2(d).bits, d.pos))

\* put_byte and put_run: never past the budget.
Put(d, byte, n) ==
    LET take == Min({n, Room(stream.budget, Len(d.out))})
        e == [d EXCEPT !.out = @ \o [i \in 1..take |-> byte]]
    IN IF take < n THEN BStop(e, "budget") ELSE e

\* The obsolete randomisation flips a bit of every byte its schedule names.
Randomised(d) ==
    LET fresh == d.toGo = 0
        toGo == (IF fresh THEN RNums[d.rand + 1] ELSE d.toGo) - 1
    IN [flip |-> toGo = 1, toGo |-> toGo,
        rand |-> IF fresh THEN (d.rand + 1) % Len(RNums) ELSE d.rand]

EndBlock(d) ==
    LET b == Block2(d)
        top == d.combined \div 2^(CrcBits - 1)
        rotated == ((2 * d.combined) % 2^CrcBits) + top
    IN IF d.same = 4 THEN BStop(d, "malformed")
       ELSE IF CrcMsb(SubSeq(d.out, d.start + 1, Len(d.out))) # b.crc
       THEN BStop(d, "checksum")
       ELSE [d EXCEPT !.phase = "magic", !.block = @ + 1, !.combined = rotated ^^ b.crc]

\* After a run and its count the next byte starts afresh.
Counted(d) == [d EXCEPT !.same = 0]

\* One byte of the walk; four equal ones are followed by a count of more.
BWalk(d) ==
    LET r == Randomised(d)
        flips == Block2(d).randomised
        raw == d.tt[d.at]
        ch == IF flips /\ r.flip THEN raw ^^ 1 ELSE raw
        e == [d EXCEPT !.at = d.next[@], !.walked = @ + 1,
                       !.toGo = IF flips THEN r.toGo ELSE @,
                       !.rand = IF flips THEN r.rand ELSE @]
    IN IF d.walked = Len(d.tt) THEN EndBlock(d)
       ELSE IF d.same = 4 THEN Put(Counted(e), d.last, ch)
       ELSE IF d.same > 0 /\ ch = d.last
       THEN Put([e EXCEPT !.same = @ + 1], ch, 1)
       ELSE Put([e EXCEPT !.last = ch, !.same = 1], ch, 1)

BAdvance(d) ==
    CASE d.phase = "header" -> BHeader(d)
      [] d.phase = "magic" -> BMagic(d)
      [] d.phase = "symbols" -> BSymbol(d)
      [] d.phase = "walk" -> BWalk(d)

StartBzip(s) == stream = s /\ bz = NewBzip

BzipStep == bz.phase # "stopped" /\ bz' = BAdvance(bz) /\ UNCHANGED stream
=============================================================================
