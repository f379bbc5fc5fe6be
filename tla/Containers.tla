----------------------------- MODULE Containers -----------------------------
(***************************************************************************)
(* What nav-core says of one file that may be a disk image or a zip        *)
(* (rules/container.rs, rules/zip_member.rs): three rules share one        *)
(* reading of the zip, made by whichever of them needs it first; every     *)
(* member handed over by the reader is scanned as embedded content.        *)
(***************************************************************************)
EXTENDS ZipReader, FiniteSetsExt

CONSTANTS Files,      \* the files scanned
          Kinds       \* what scanning a member whose first unit is of a kind finds

\* A probe finds another format's bytes or none, cannot be read, or finds an image.
ASSUME FilesAssumption == \A f \in Files : /\ f.data \in Seq(Units)
                                           /\ f.probes \in Seq({"other", "unread", "image"})

VARIABLES file,
          cache,      \* "unset", "reading", "none" or "read": zip_cache
          todo,       \* rules to evaluate
          outcome     \* what each evaluated rule returned

vars == <<readVars, file, cache, todo, outcome>>

Rules == {"uninspected-container", "zip-member-suspicious", "zip-member-unsigned"}
-----------------------------------------------------------------------------
\* The file, seen from outside.

\* IMAGE_FORMATS probed in order: a probe outside the file is "other", one
\* that cannot be read ends the search.
ProbeImageFormat(probes) ==
    LET hits == {i \in DOMAIN probes : probes[i] # "other"}
    IN IF hits = {} THEN "no image" ELSE probes[Min(hits)]

DiskImageFormat(f) == IF f.sized THEN ProbeImageFormat(f.probes) ELSE "unread"

\* detect_zip: the head, then the last 22 bytes, then the whole tail, each
\* read only if the one before did not decide.
IsZip(f) ==
    LET d == f.data
        decided == d # <<>> /\ IsA(d, Len(d), "end") /\ d[Len(d)].comment = 0
    IN IF ~f.sized \/ f.unread = "head" THEN "unread"
       ELSE IF IsA(d, 1, "local") THEN "zip"
       ELSE IF f.unread = "end" THEN "unread"
       ELSE IF decided THEN IF d[Len(d)].entries # 0 THEN "zip" ELSE "other"
       ELSE IF f.unread = "tail" THEN "unread"
       ELSE IF IsZipFormat(d) THEN "zip" ELSE "other"

\* Judged by where the file really is; embedded content is never exempt.
InsideAppBundle(f) ==
    /\ f.source = "File"
    /\ \E i \in 1..(Len(f.real) - 1) : f.real[i] = "X.app" /\ f.real[i+1] = "Contents"

\* Only content that is there, whole and a zip is read.
Inspectable(f) ==
    f.content /\ ~f.truncated /\ IsZip(f) = "zip" /\ ~InsideAppBundle(f)
-----------------------------------------------------------------------------
\* The members, scanned.

MaxZipMemberWeight == 20

\* What the embedded rules and the Mach-O parser make of a member's bytes.
Scan(bytes) == IF "is" \in DOMAIN bytes[1] THEN Kinds[bytes[1].is] ELSE Kinds["plain"]

\* Each distinct finding counts once, at its strongest member.
Strongest ==
    LET found == UNION {Scan(v.bytes).finds : v \in visits}
    IN [id \in {w[1] : w \in found} |-> Max({w[2] : w \in {x \in found : x[1] = id}})]

UnsignedWeights == {Scan(v.bytes).unsigned : v \in visits} \ {0}

\* What the reader could not read, and what scanning the members could not.
MemberGaps ==
    {Gap(v.path, "unread container") : v \in {x \in visits : Scan(x.bytes).container}} \cup
    {Gap(v.path, "signature not verified") : v \in {x \in visits : Scan(x.bytes).unverified}} \cup
    {Gap(v.path, "not fully scanned") :
        v \in {x \in visits : ~x.cut /\ ~Scan(x.bytes).whole}}

AllGaps == gaps \cup MemberGaps
-----------------------------------------------------------------------------
\* The rules.

Suspicious ==
    LET total == FoldFunction(LAMBDA w, sum : w + sum, 0, Strongest)
    IN IF cache = "none" \/ total <= 0 THEN "clean"
       ELSE IF total < MaxZipMemberWeight THEN "weak" ELSE "capped"

UnsignedMembers == IF cache = "none" \/ UnsignedWeights = {} THEN "clean" ELSE "fired"

Uninspected(f) ==
    LET image == DiskImageFormat(f)
    IN IF f.truncated /\ f.source # "File" THEN "not applicable"
       ELSE IF image = "unread" THEN "not applicable"
       ELSE IF image = "image" THEN "fired"
       ELSE IF IsZip(f) = "unread" THEN "not applicable"
       ELSE IF IsZip(f) = "other" \/ InsideAppBundle(f) THEN "clean"
       ELSE IF cache = "none" \/ AllGaps # {} THEN "fired" ELSE "clean"

\* The rule looks at the zip's members.
Needs(r, f) ==
    /\ f.content
    /\ r = "uninspected-container" =>
          /\ ~(f.truncated /\ f.source # "File")
          /\ DiskImageFormat(f) = "no image" /\ IsZip(f) = "zip" /\ ~InsideAppBundle(f)

\* The first rule to need it has the zip read, or learns that it is not to be.
Inspect(r) ==
    /\ r \in todo /\ Needs(r, file) /\ cache = "unset"
    /\ IF Inspectable(file)
       THEN cache' = "reading" /\ stack' = <<NewFrame(file.data, 1, <<>>, limits.readBack)>>
       ELSE cache' = "none" /\ UNCHANGED stack
    /\ UNCHANGED <<limits, entries, gaps, visits, opened, work, file, todo, outcome>>

Inspected ==
    /\ cache = "reading" /\ stack = <<>>
    /\ cache' = "read"
    /\ UNCHANGED <<readVars, file, todo, outcome>>

Evaluate(r) ==
    /\ r \in todo /\ (Needs(r, file) => cache \in {"none", "read"})
    /\ cache # "reading"
    /\ outcome' = [outcome EXCEPT ![r] =
         IF ~file.content THEN "not applicable"
         ELSE CASE r = "uninspected-container" -> Uninspected(file)
                [] r = "zip-member-suspicious" -> Suspicious
                [] r = "zip-member-unsigned"   -> UnsignedMembers]
    /\ todo' = todo \ {r}
    /\ UNCHANGED <<readVars, file, cache>>

Init ==
    /\ file \in Files
    /\ limits \in Limits
    /\ stack = <<>>
    /\ entries = 0 /\ gaps = {} /\ visits = {} /\ opened = {} /\ work = 0
    /\ cache = "unset" /\ todo = Rules /\ outcome = [r \in Rules |-> "unset"]

Next ==
    \/ ReadNext /\ UNCHANGED <<file, cache, todo, outcome>>
    \/ \E r \in Rules : Inspect(r) \/ Evaluate(r)
    \/ Inspected
    \/ todo = {} /\ UNCHANGED vars

Spec == Init /\ [][Next]_vars
-----------------------------------------------------------------------------
(***************************************************************************)
(* What another tool would take from the same bytes.                       *)
(***************************************************************************)

\* The first "size" cells from "start", through the method's decoder.
Extracted(d, start, method, size) ==
    LET cells == SubSeq(d, start, AtMost(start + size - 1, Len(d)))
    IN IF cells = <<>> THEN <<>>
       ELSE IF method = STORED THEN cells
       ELSE IF cells[1].u = (IF method = DEFLATE THEN "deflate" ELSE "bzip2")
               /\ Len(cells) >= cells[1].used
       THEN cells[1].out ELSE <<>>

\* The directory's records, where it starts at "start".
Listed(d, r, start) ==
    {q \in DOMAIN d : /\ q >= start /\ q < start + d[r].entries
                      /\ \A x \in start..q : IsA(d, x, "central")}

\* A tool that trusts the directory where the end record says it is.
DirectoryView(d) ==
    LET p == FindEnd(d)
        r == RecordOf(d, p)
        \* ditto takes a stored member at its uncompressed size.
        Sizes(c) == {c.csize} \cup (IF c.method = STORED THEN {c.usize} ELSE {})
        Taken(c) == IF IsA(d, c.header, "local") /\ ~c.enc /\ Decodable(c.method)
                    THEN {Extracted(d, c.header + 1, c.method, n) : n \in Sizes(c)} ELSE {}
    IN IF p = 0 \/ r = 0 THEN {}
       ELSE UNION {Taken(CentralAt(d, q)) : q \in Listed(d, r, d[r].start)}

\* A tool that reads from the first header on; where it stands at p it takes
\* a member and goes on behind it.
StreamedAt(d, p) ==
    LET l == LocalAt(d, p)
        cell == d[p + 1]
        coded == p < Len(d) /\ l.method # STORED /\ cell.u \in {"deflate", "bzip2"}
        size == IF ~l.stream THEN l.csize ELSE IF coded THEN cell.used ELSE 0
    IN [bytes |-> IF l.enc \/ ~Decodable(l.method) THEN <<>>
                  ELSE Extracted(d, p + 1, l.method, size),
        next |-> IF l.stream /\ ~coded THEN 0
                 ELSE IF l.stream THEN SkipDescriptor(d, p + 1 + size, l.extra # <<>>)
                 ELSE p + 1 + size]

\* The members the directory lists with a size, wherever it may start.
Sized(d) ==
    LET p == FindEnd(d)
        r == RecordOf(d, p)
    IN IF p = 0 \/ r = 0 THEN {}
       ELSE UNION {{<<CentralAt(d, q).header + s.delta, CentralAt(d, q).csize>> :
                      q \in Listed(d, r, s.at)} : s \in Range(Starts(d, r))}

\* The walk stops at a stream the directory does not list until it is decoded
\* (zip.rs:768-772). A stream behind it is decoded with it, to the end the
\* directory says; that this is not its own end is what only the walk would
\* look for, and coming there later it finds the stream done (zip.rs:1046).
EndTrusted(d, p) ==
    LET streams == {q \in DOMAIN d : /\ IsA(d, q, "local") /\ d[q].stream
                                     /\ d[q].method # STORED /\ q < Len(d)}
        listed == {e[1] : e \in Sized(d)}
    IN /\ p \in streams
       /\ \E o \in streams \ listed : o < p
       /\ \E e \in Sized(d) : /\ e[1] = p /\ d[p + 1].u \in {"deflate", "bzip2"}
                              /\ e[2] > d[p + 1].used

StreamView(d) ==
    LET locals == {q \in DOMAIN d : d[q].u = "local"}
        Reached[n \in 0..Len(d)] ==
            IF n = 0 THEN {q \in locals : \A o \in locals : q <= o}
            ELSE LET before == Reached[n-1]
                 IN before \cup ({StreamedAt(d, q).next : q \in {x \in before : ~EndTrusted(d, x)}}
                                \cap locals)
    IN {StreamedAt(d, q).bytes : q \in Reached[Len(d)]}

Views(d) == (DirectoryView(d) \cup StreamView(d)) \ {<<>>}

\* A file that is reported neither as fired nor as not applicable hides
\* nothing: whatever either kind of tool would take from it, or from a zip
\* in it, was scanned whole or read as a zip, and found to need no more
\* (zip.rs:1-10, container.rs:165-226). What a streaming tool would find
\* behind an end that was only trusted is left out: the code misses it.
CleanHidesNothing ==
    (outcome["uninspected-container"] = "clean" /\ cache = "read") =>
        \A d \in opened : \A bytes \in Views(d) :
            \/ bytes \in opened
            \/ \E v \in visits : /\ v.bytes = bytes /\ ~v.cut
                                 /\ Scan(bytes).whole /\ ~Scan(bytes).container
                                 /\ ~Scan(bytes).unverified

\* A member of a round whose end is known has at least the share the round
\* promised each of its members, whatever the ones before it cost
\* (budget.rs:34-37, zip.rs:563-571).
PromiseKept ==
    \A k \in DOMAIN stack :
        LET f == stack[k]
        IN (f.phase = "round" /\ Len(f.round) > f.streams /\ f.promise >= EntryCost)
             => Share(f).entry >= f.promise

\* The reading is one of those MeteredRead allows: it never does more than
\* the allowance pays for and takes back no report.
Metered == INSTANCE MeteredRead WITH
    total <- limits.readBack, spent <- work, reported <- gaps, ended <- todo = {}
MeteredSpec == Metered!Spec
=============================================================================
