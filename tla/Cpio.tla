--------------------------------- MODULE Cpio ---------------------------------
(***************************************************************************)
(* nav-core's cpio.rs: the walk over a whole archive (parse), and the walk *)
(* over one that arrives in pieces (CpioStream).  Data is a sequence of    *)
(* cells; the first cell of a header carries its fields, the others are    *)
(* fillers.  Lengths are counted in cells.                                 *)
(***************************************************************************)
EXTENDS Streams

CONSTANTS Magic,                   \* cells of a magic
          OdcHeader, NewcHeader,   \* cells of the two headers, a magic included
          Alignment                \* of newc names and bodies

ASSUME CpioAssumption ==
    /\ Magic \in Nat \ {0} /\ Alignment \in Nat \ {0}
    /\ OdcHeader \in Nat /\ NewcHeader \in Nat
    /\ Magic < OdcHeader /\ OdcHeader < NewcHeader

Rest(d, off) == SubSeq(d, off + 1, Len(d))

AlignUp(v, align) == ((v + align - 1) \div align) * align

\* What a header at the start of "avail" says: "short" when its magic is not
\* all there, "other" when it is no magic, "unread" when its fields are not
\* all there or not all numbers.
HeaderOf(avail) ==
    IF Len(avail) < Magic THEN [h |-> "short"]
    ELSE LET c == avail[1]
             size == IF c.kind = "odc" THEN OdcHeader ELSE NewcHeader
         IN IF c.kind = "other" THEN [h |-> "other"]
            ELSE IF Len(avail) < size \/ ~c.numbers \/ c.nameSize = 0 THEN [h |-> "unread"]
            ELSE [h |-> "read", nameEnd |-> size + c.nameSize, name |-> c.name,
                  mode |-> c.mode, nameSize |-> c.nameSize, fileSize |-> c.fileSize,
                  align |-> IF c.kind = "odc" THEN 1 ELSE Alignment]

\* A header that cannot be read is short of bytes, or wrong, by how much
\* follows its start: the longer header's size decides.
Unread(avail) == IF Len(avail) < NewcHeader THEN "truncated" ELSE "malformed"

Trailer(h) == h.name = <<"TRAILER">>

Entry(h, data, end) == [name |-> h.name, mode |-> h.mode, data |-> data, end |-> end]
-----------------------------------------------------------------------------
\* parse: the members, why it halted (none at the trailer), and the member
\* cut short.

IsCpio(d) == Len(d) >= Magic /\ d[1].kind # "other"

Parse(d, maxEntries, maxTotal) ==
    LET Halt(s, why) == [s EXCEPT !.halted = why, !.over = TRUE]
        Step(s, i) ==
          LET avail == Rest(d, s.off)
              h == HeaderOf(avail)
              dataStart == AlignUp(s.off + h.nameEnd, h.align)
              dataEnd == dataStart + h.fileSize
          IN IF s.over THEN s
             ELSE IF h.h = "short" THEN Halt(s, "truncated")
             ELSE IF h.h = "other" THEN Halt(s, "malformed")
             ELSE IF h.h = "unread" THEN Halt(s, Unread(avail))
             ELSE IF s.off + h.nameEnd > Len(d) THEN Halt(s, "truncated")
             ELSE IF Trailer(h) THEN Halt(s, None)
             ELSE IF Len(s.entries) >= maxEntries THEN Halt(s, "entry limit")
             ELSE IF s.total + h.fileSize > maxTotal THEN Halt(s, "byte limit")
             ELSE IF dataEnd > Len(d)
             THEN [Halt(s, "truncated") EXCEPT
                     !.cut = <<Entry(h, Rest(d, dataStart), "cut short")>>]
             ELSE [s EXCEPT !.entries = Append(@, Entry(h,
                                SubSeq(d, dataStart + 1, dataEnd), "whole")),
                            !.total = @ + h.fileSize, !.off = AlignUp(dataEnd, h.align)]
    IN FoldLeft(Step, [entries |-> <<>>, halted |-> None, cut |-> <<>>, over |-> FALSE,
                       total |-> 0, off |-> 0], [i \in 0..Len(d) |-> i])
-----------------------------------------------------------------------------
\* CpioStream: a record with the walk ("start", "not cpio", "header", "body",
\* "pad" or "done"), what is pending in buf, and the members handed over.

NewStream ==
    [walk |-> "start", buf |-> <<>>, entries |-> 0, consumed |-> 0, notCpioCut |-> FALSE,
     member |-> <<>>, skip |-> 0, left |-> 0, pad |-> 0, halted |-> None, done |-> <<>>]

EndWalk(s, why) == [s EXCEPT !.walk = "done", !.halted = why]

\* Finished bodies are handed over, spent padding is left behind.
Settle(s) ==
    LET handed == IF s.walk = "body" /\ s.skip = 0 /\ s.left = 0
                  THEN [s EXCEPT !.walk = "pad", !.done = Append(@, s.member)] ELSE s
    IN IF handed.walk = "pad" /\ handed.pad = 0 THEN [handed EXCEPT !.walk = "header"]
       ELSE handed

\* How much of a pending header decides it.
HeaderWant(pending) ==
    IF Len(pending) < NewcHeader THEN NewcHeader
    ELSE LET h == HeaderOf(pending)
         IN IF h.h = "read" THEN AtLeast(h.nameEnd, NewcHeader) ELSE NewcHeader

Used(s, n) == [s |-> s, used |-> n, waits |-> FALSE]

\* Mutant: padding is counted from where the member's header began.
Layout_Relative(consumed, h) ==
    LET dataEnd == AlignUp(h.nameEnd, h.align) + h.fileSize
    IN [skip |-> AlignUp(h.nameEnd, h.align) - h.nameEnd,
        pad |-> AlignUp(dataEnd, h.align) - dataEnd]

\* What follows the name and the body: padding is to offsets in the whole
\* archive, of which "consumed" cells are gone.
Layout(consumed, h) ==
    LET nameEnd == consumed + h.nameEnd
        dataEnd == AlignUp(nameEnd, h.align) + h.fileSize
    IN [skip |-> AlignUp(nameEnd, h.align) - nameEnd,
        pad |-> AlignUp(dataEnd, h.align) - dataEnd]

\* The header that opens "avail": waits, ends the walk, or begins a body.
ReadHeader(s, avail, maxEntries, maxMember, atEnd) ==
    LET h == HeaderOf(avail)
        layout == Layout(s.consumed, h)
    IN IF Len(avail) < NewcHeader /\ ~atEnd THEN [Used(s, 0) EXCEPT !.waits = TRUE]
       ELSE IF h.h = "short" THEN Used(EndWalk(s, "truncated"), 0)
       ELSE IF h.h = "other" THEN Used(EndWalk(s, "malformed"), 0)
       ELSE IF h.h = "unread" THEN Used(EndWalk(s, Unread(avail)), 0)
       ELSE IF h.nameSize > maxMember THEN Used(EndWalk(s, "byte limit"), 0)
       ELSE IF h.nameEnd > Len(avail)
       THEN IF atEnd THEN Used(EndWalk(s, "truncated"), 0) ELSE [Used(s, 0) EXCEPT !.waits = TRUE]
       ELSE IF Trailer(h) THEN Used(EndWalk(s, None), 0)
       ELSE IF s.entries >= maxEntries THEN Used(EndWalk(s, "entry limit"), 0)
       ELSE Used([s EXCEPT !.entries = @ + 1, !.walk = "body", !.consumed = @ + h.nameEnd,
                           !.member = Entry(h, <<>>, "whole"),
                           !.skip = layout.skip, !.left = h.fileSize,
                           !.pad = layout.pad], h.nameEnd)

\* A member's body: its padding skipped, then up to the cap of it kept.
FeedBody(s, input, maxMember) ==
    LET skipped == AtMost(s.skip, Len(input))
        n == IF skipped = s.skip THEN AtMost(s.left, Len(input) - skipped) ELSE 0
        body == SubSeq(input, skipped + 1, skipped + n)
        room == Monus(maxMember, Len(s.member.data))
    IN Settle([s EXCEPT !.skip = @ - skipped, !.left = @ - n,
                        !.consumed = @ + skipped + n,
                        !.member.end = IF n > room THEN "over cap" ELSE @,
                        !.member.data = @ \o SubSeq(body, 1, AtMost(room, n))])

\* feed: the input through the walk, piece by piece; what remains of it and
\* of the pending header's lookahead goes on through the loop.
Feed(s0, input0, maxEntries, maxMember) ==
    LET Header(f) ==
          LET want == IF f.s.buf = <<>> THEN Len(f.input)
                      ELSE AtMost(Monus(HeaderWant(f.s.buf), Len(f.s.buf)), Len(f.input))
              avail == f.s.buf \o SubSeq(f.input, 1, want)
              rest == Rest(f.input, want)
              r == ReadHeader([f.s EXCEPT !.buf = <<>>], avail, maxEntries, maxMember, FALSE)
          IN IF r.waits THEN [s |-> [f.s EXCEPT !.buf = avail], input |-> rest]
             ELSE IF r.s.walk = "done" THEN [s |-> r.s, input |-> <<>>]
             ELSE [s |-> Settle(r.s), input |-> Rest(avail, r.used) \o rest]
        Step(f, i) ==
          LET s == f.s
              n == Len(f.input)
          IN IF n = 0 \/ s.walk = "done" THEN f
             ELSE CASE s.walk = "start" ->
                         LET take == AtMost(n, Magic - Len(s.buf))
                             buf == s.buf \o SubSeq(f.input, 1, take)
                         IN [s |-> [s EXCEPT !.buf = buf, !.walk =
                                      IF Len(buf) < Magic THEN @
                                      ELSE IF IsCpio(buf) THEN "header" ELSE "not cpio"],
                             input |-> Rest(f.input, take)]
                    [] s.walk = "not cpio" ->
                         LET keep == AtMost(n, Monus(maxMember, Len(s.buf)))
                         IN [s |-> [s EXCEPT !.buf = @ \o SubSeq(f.input, 1, keep),
                                             !.notCpioCut = @ \/ keep < n],
                             input |-> <<>>]
                    [] s.walk = "header" -> Header(f)
                    [] s.walk = "body" ->
                         [s |-> FeedBody(s, f.input, maxMember),
                          input |-> Rest(f.input, AtMost(n, s.skip + s.left))]
                    [] s.walk = "pad" ->
                         LET k == AtMost(s.pad, n)
                         IN [s |-> Settle([s EXCEPT !.pad = @ - k, !.consumed = @ + k]),
                             input |-> Rest(f.input, k)]
    IN FoldLeft(Step, [s |-> s0, input |-> input0],
                [i \in 1..(3 * (Len(input0) + Len(s0.buf)) + 1) |-> i]).s

\* finish: what is pending is decided as it stands.
Finish(s0, maxEntries, maxMember) ==
    LET Step(s, i) ==
          CASE s.walk = "header" ->
                 LET Read(r) == IF r.s.walk = "done" THEN r.s
                                ELSE Feed(Settle(r.s), Rest(s.buf, r.used), maxEntries, maxMember)
                 IN Read(ReadHeader([s EXCEPT !.buf = <<>>], s.buf, maxEntries, maxMember, TRUE))
            [] s.walk = "pad" -> EndWalk(s, "truncated")
            [] OTHER -> s
        Ended(last) ==
          IF last.walk \in {"start", "not cpio"}
          THEN [cpio |-> FALSE, entries |-> <<>>, halted |-> None, cut |-> <<>>,
                raw |-> last.buf, more |-> last.notCpioCut]
          ELSE [cpio |-> TRUE, entries |-> last.done, raw |-> <<>>, more |-> FALSE,
                halted |-> IF last.walk = "body" THEN "truncated" ELSE last.halted,
                cut |-> IF last.walk = "body"
                        THEN <<[last.member EXCEPT !.end = "cut short"]>> ELSE <<>>]
    IN Ended(FoldLeft(Step, s0, [i \in 0..Len(s0.buf) |-> i]))
=============================================================================
