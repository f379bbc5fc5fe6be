--------------------------------- MODULE Xml ---------------------------------
(***************************************************************************)
(* nav-core's xml.rs: the one XML scanner that the package and plist       *)
(* readers share.  A document is a sequence of units: a whole tag, the     *)
(* opener or closer of a comment, CDATA section, processing instruction or *)
(* declaration, or a text, which is a sequence of symbols; an entity       *)
(* reference is one symbol.                                                *)
(***************************************************************************)
EXTENDS Integers, Sequences, SequencesExt, TLC

CONSTANTS Entity,       \* what each entity reference that is known stands for
          Undefined     \* entity references that only a declaration could define

Blank == " "

DigitValue == [s \in {"0", "1", "2", "3", "4", "5", "6", "7", "8", "9"} |->
    CHOOSE n \in 0..9 : ToString(n) = s]

IsBlank(t) == \A i \in DOMAIN t : t[i] = Blank
Trim(t) ==
    LET solid == {i \in DOMAIN t : t[i] # Blank}
    IN IF solid = {} THEN <<>>
       ELSE SubSeq(t, CHOOSE i \in solid : \A j \in solid : i <= j,
                      CHOOSE i \in solid : \A j \in solid : j <= i)

\* Each reference is decoded once: what it stands for is not read again.
DecodeEntities(t) == [i \in DOMAIN t |-> IF t[i] \in DOMAIN Entity THEN Entity[t[i]] ELSE t[i]]

\* The units that begin with "<", and those that hold a ">".
Markup == {"<!--", "<![CDATA[", "<?", "<!", "tag", "broken"}
HoldsGt == {"tag", "-->", "]]>", "?>", ">"}
Closer(u) == CASE u = "<!--" -> {"-->"} [] u = "<![CDATA[" -> {"]]>"}
               [] u = "<?" -> {"?>"} [] OTHER -> HoldsGt

\* Where the first unit of the given kinds is from p on; 0 when none is.
Find(d, p, kinds) ==
    LET hits == {q \in p..Len(d) : d[q].u \in kinds}
    IN IF hits = {} THEN 0 ELSE CHOOSE q \in hits : \A r \in hits : q <= r

\* A unit, and units, as the text they are.
RawText(unit) ==
    CASE unit.u = "text" -> unit.t
      [] unit.u = "tag" -> <<"<">> \o FlattenSeq([i \in DOMAIN unit.attrs |-> unit.attrs[i].value])
                                   \o <<">">>
      [] OTHER -> <<unit.u>>
TextOf(units) == FlattenSeq([i \in DOMAIN units |-> RawText(units[i])])
Slice(d, p, q) == SubSeq(d, p, q)
-----------------------------------------------------------------------------
\* Attributes: those without a value are passed over, and one that cannot
\* be read ends the list.
Attrs(unit) ==
    LET bad == {i \in DOMAIN unit.attrs : unit.attrs[i].form = "malformed"}
        read == IF bad = {} THEN unit.attrs
                ELSE SubSeq(unit.attrs, 1, (CHOOSE i \in bad : \A j \in bad : i <= j) - 1)
    IN SelectSeq(read, LAMBDA a : a.form = "value")

\* The first attribute of that name, decoded; <<>> when it has none.
Attr(unit, name) ==
    LET found == SelectSeq(Attrs(unit), LAMBDA a : a.name = name)
    IN IF found = <<>> THEN <<>> ELSE DecodeEntities(found[1].value)
-----------------------------------------------------------------------------
\* Scanner: the next event at p, past comments, instructions and
\* declarations, and where the scanner then stands.
Event(e, unit, text, pos) == [e |-> e, unit |-> unit, text |-> text, pos |-> pos]
NoUnit == [u |-> "none"]

NextEvent(d, p) ==
    LET At[q \in p..(Len(d) + 1)] ==
          IF q > Len(d) THEN Event("end", NoUnit, <<>>, q)
          ELSE LET u == d[q].u
                   close == Find(d, q + 1, Closer(u))
                   stop == LET m == Find(d, q, Markup) IN IF m = 0 THEN Len(d) + 1 ELSE m
               IN IF u \notin Markup
                  THEN Event("text", NoUnit, TextOf(Slice(d, q, stop - 1)), stop)
                  ELSE IF u = "tag"
                  THEN Event(IF d[q].closing THEN "close" ELSE "open", d[q], <<>>, q + 1)
                  ELSE IF u = "broken" \/ close = 0 THEN Event("bad", NoUnit, <<>>, q)
                  ELSE IF u = "<![CDATA["
                  THEN Event("text", NoUnit, TextOf(Slice(d, q + 1, close - 1)), close + 1)
                  ELSE At[close + 1]
    IN At[p]

\* raw_until_close: where the close tag of that name is, not counting those
\* in CDATA, comments and instructions; 0 when there is none, or one of
\* these does not end.
RawUntilClose(d, p, name) ==
    LET At[q \in p..(Len(d) + 1)] ==
          IF q > Len(d) THEN 0
          ELSE LET u == d[q].u
                   close == Find(d, q + 1, Closer(u))
               IN IF u \in {"<!--", "<![CDATA[", "<?"}
                  THEN IF close = 0 THEN 0 ELSE At[close + 1]
                  ELSE IF u = "tag" /\ d[q].closing /\ d[q].name = name THEN q
                  ELSE At[q + 1]
    IN At[p]
-----------------------------------------------------------------------------
\* The cursor the plist reader moves.

\* Past blanks, comments, instructions and the DOCTYPE; to the end when one
\* of them does not end.
SkipJunk(d, p) ==
    LET At[q \in p..(Len(d) + 1)] ==
          IF q > Len(d) THEN q
          ELSE LET u == d[q].u
                   close == Find(d, q, IF u = "<![CDATA[" THEN HoldsGt ELSE Closer(u))
               IN IF u = "text" /\ IsBlank(d[q].t) THEN At[q + 1]
                  ELSE IF u \in {"<!--", "<?", "<!", "<![CDATA["}
                  THEN IF close = 0 THEN Len(d) + 1 ELSE At[close + 1]
                  ELSE q
    IN At[p]

\* The name of the start tag at p; "" when there is none.
PeekTag(d, p) == IF p <= Len(d) /\ d[p].u = "tag" /\ ~d[p].closing THEN d[p].name ELSE ""

\* Past <name>, past </name>: 0 when it is not there.
ConsumeOpen(d, p, name) ==
    LET q == SkipJunk(d, p)
    IN IF PeekTag(d, q) = name /\ ~d[q].selfClosing THEN q + 1 ELSE 0

ConsumeClose(d, p, name) ==
    LET q == IF p <= Len(d) /\ d[p].u = "text" /\ IsBlank(d[p].t) THEN p + 1 ELSE p
    IN IF q <= Len(d) /\ d[q].u = "tag" /\ d[q].closing /\ d[q].name = name THEN q + 1 ELSE 0

\* The text up to the next markup, decoded, and where that is.
ReadText(d, p) ==
    LET m == Find(d, p, Markup)
        stop == IF m = 0 THEN Len(d) + 1 ELSE m
    IN [text |-> DecodeEntities(TextOf(Slice(d, p, stop - 1))), pos |-> stop]
=============================================================================
