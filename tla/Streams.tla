------------------------------- MODULE Streams -------------------------------
(***************************************************************************)
(* What the container readers share.  The accounting: what is left of an   *)
(* archive-wide total, and of the current entry's equal share of it        *)
(* (budget.rs).  The decompressors as the readers call them: data is a     *)
(* sequence of cells, the first cell of a stream says what the stream      *)
(* holds and how many cells it takes.  Inflate and Bzip2 model them from   *)
(* their own side.                                                         *)
(***************************************************************************)
EXTENDS Integers, Sequences, SequencesExt

Monus(a, b) == IF a > b THEN a - b ELSE 0

AtMost(a, b) == IF a < b THEN a ELSE b
AtLeast(a, b) == IF a < b THEN b ELSE a

Budgets == [remaining : Nat, entry : Nat]

NewBudget(total) == [remaining |-> total, entry |-> total]

\* The next entry's share is one of "parts" equal parts of what remains.
StartShare(b, parts) ==
    [b EXCEPT !.entry = b.remaining \div AtLeast(parts, 1)]

\* Mutant: only the entry's share is charged.
Charge_EntryOnly(b, n) == [b EXCEPT !.entry = Monus(@, n)]

\* Both saturate at zero: a charge past the end is not a debt.
Charge(b, n) ==
    [remaining |-> Monus(b.remaining, n), entry |-> Monus(b.entry, n)]
-----------------------------------------------------------------------------

None == "none"

\* How much input was used, what was written, block work, whether the meter
\* alone stopped it, and the result.
Answer(used, bytes, extra, capped, result) ==
    [used |-> used, bytes |-> bytes, work |-> extra, capped |-> capped,
     result |-> result]

Prefix(s, n) == SubSeq(s, 1, AtMost(n, Len(s)))

Opens(input, kind) == input # <<>> /\ input[1].u = kind

Copy(input, cap) ==
    LET n == AtMost(Len(input), cap)
    IN Answer(n, Prefix(input, n), 0, FALSE,
              IF n < Len(input) THEN "budget" ELSE "ok")

\* A stream that opens with a cell of the given kind; "cap" bounds what it
\* writes, "maxPaid" that and its block work.
Inflate(kind, input, cap, maxPaid) ==
    IF input = <<>> THEN Answer(0, <<>>, 0, FALSE, "truncated")
    ELSE IF input[1].u # kind THEN Answer(1, <<>>, 0, FALSE, "malformed")
    ELSE LET s == input[1]
             limit == AtMost(cap, Monus(maxPaid, s.work))
             short == Len(input) < s.used
         IN IF s.work > maxPaid THEN Answer(1, <<>>, 0, cap > 0, "budget")
            ELSE IF Len(s.out) > limit
            THEN Answer(AtMost(s.used, Len(input)), Prefix(s.out, limit), s.work,
                        limit < cap, "budget")
            ELSE IF short
            THEN Answer(Len(input), Prefix(s.out, 1), s.work, FALSE, "truncated")
            ELSE Answer(s.used, s.out, s.work, FALSE, "ok")

Bunzip(input, cap) ==
    IF input = <<>> THEN Answer(0, <<>>, 0, FALSE, "truncated")
    ELSE IF input[1].u # "bzip2" THEN Answer(1, <<>>, 0, FALSE, "malformed")
    ELSE LET s == input[1]
         IN IF Len(input) < s.used THEN Answer(Len(input), <<>>, 0, FALSE, "truncated")
            ELSE IF Len(s.out) > cap
            THEN Answer(s.used, Prefix(s.out, cap), 0, FALSE, "budget")
            ELSE Answer(s.used, s.out, 0, FALSE, "ok")

\* The size of a bzip2 stream's first block, 0 for anything else.
BlockSize(input) == IF Opens(input, "bzip2") THEN input[1].block ELSE 0
=============================================================================
