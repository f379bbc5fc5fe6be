---------------------------- MODULE SampleStore ----------------------------
(***************************************************************************)
(* The bench's sample store: the manifest that names the samples           *)
(* (manifest.rs), the check of one sample (hash.rs), and "malware fetch"   *)
(* (fetch.rs), which fills the store archive by archive.                   *)
(*                                                                         *)
(* A sample is a record                                                    *)
(*   id, archive, archiveSha, category, scope, kind, expected              *)
(*             (archives are numbers, in the order of their names)           *)
(*   member    its path in the archive, a sequence of components           *)
(*   digests   which digests the manifest gives it, of "file" and "tree"   *)
(*   digest    what the digest must be, and bytes the size                 *)
(* A directory is a function from the paths in it to [kind, data, size].   *)
(* SHA-256 is taken to tell contents apart: a file's digest is its data,   *)
(* a tree's is the set of its files' paths and data.                       *)
(*                                                                         *)
(* A fetch is a record, and FetchSteps the set of records one step of it   *)
(* may lead to, so that several stores can be filled at once and one       *)
(* filling can be cut short at any step:                                   *)
(*   pc      group, locate, extract, place, swap, done or tool (an error   *)
(*           of the tool itself)                                           *)
(*   todo    archives left, group the samples of the one at hand not yet   *)
(*           placed, by their places in the manifest                       *)
(*   cache   archives in the cache whose digest is right                   *)
(*   tmp     what was extracted, Nothing when there is no temporary        *)
(*           directory                                                     *)
(*   download  whether a downloaded archive lies in the store              *)
(*   store   what stands at each sample's path, report its outcome         *)
(*   strange whether the outside world failed the fetch                    *)
(***************************************************************************)
EXTENDS Naturals, Sequences, SequencesExt, FiniteSetsExt

CONSTANTS
    Contents,  \* an archive's directory, by the archive's digest
    Nothing    \* a model value: what is not there

IsBundle(kind) == kind \in {"app", "bundle"}

\* Manifest::validate, the rules on what samples may say together and on
\* where a member may lie; the alphabets of names and digests are left out.
\* A path keeps a leading "." as a component of its own, so "./a" and "a"
\* are not prefixes of one another here.
Valid(samples) ==
    /\ \A i, j \in DOMAIN samples : samples[i].id = samples[j].id => i = j
    /\ \A i \in DOMAIN samples :
          LET s == samples[i] IN
          /\ s.digests \in {{"file"}, {"tree"}}
          /\ s.member # <<>> /\ ".." \notin Range(s.member)
          /\ (s.category = "apt") = (s.scope = "out")
          /\ IsBundle(s.kind) = (s.digests = {"tree"})
          /\ \A j \in 1..i-1 : samples[j].archive = s.archive =>
                ~(IsPrefix(samples[j].member, s.member) \/ IsPrefix(s.member, samples[j].member))

\* What stands at a path of dir, and below it.
Part(dir, at) == [p \in {q \in DOMAIN dir : IsPrefix(at, q)} |-> dir[p]]

\* walk, tree_digest: links and other special files are passed over.
Under(part, root) == {p \in DOMAIN part : p # root /\ part[p].kind = "file"}

MeasureOf(part, at) ==
    IF part[at].kind = "dir"
    THEN [kind |-> "dir",
          digest |-> {<<SubSeq(p, Len(at) + 1, Len(p)), part[p].data>> : p \in Under(part, at)},
          bytes |-> MapThenSumSet(LAMBDA p : part[p].size, Under(part, at))]
    ELSE [kind |-> part[at].kind, digest |-> {<<<<>>, part[at].data>>}, bytes |-> part[at].size]

Measure(dir, at) == MeasureOf(Part(dir, at), at)

\* check_sample: what stands there is of the right kind, no link, and has the
\* digest and the size the manifest gives.
Matches(s, found) ==
    /\ found # Nothing
    /\ found.kind = IF s.digests = {"tree"} THEN "dir" ELSE "file"
    /\ found.digest = s.digest
    /\ found.bytes = s.bytes

\* The components of a path, as Rust's Path gives them: "." is none.
Path(member) ==
    LET names  == {n \in DOMAIN member : member[n] # "."}
        nth(k) == CHOOSE n \in names : Cardinality(names \cap (1..n)) = k
    IN  [k \in 1..Cardinality(names) |-> member[nth(k)]]

\* find_member: every directory on the way must exist and be no link.
FindMember(dir, member) ==
    LET path == Path(member)
        way  == {SubSeq(path, 1, n) : n \in 1..Len(path)}
    IN  IF \A p \in way : p \in DOMAIN dir /\ dir[p].kind # "link" THEN path ELSE Nothing

Without(dir, root) == [p \in {q \in DOMAIN dir : ~IsPrefix(root, q)} |-> dir[p]]

-----------------------------------------------------------------------------

Archives(samples) == {s.archive : s \in Range(samples)}
GroupOf(samples, archive) == {i \in DOMAIN samples : samples[i].archive = archive}

\* The sample at hand, the first of the group that is left.
First(f) == Min(f.group)

\* The start of fetch over what an earlier one left: its temporary names are
\* of another process, so what it left lies about unseen.
NewFetch(samples, cache, store) ==
    [pc |-> "group", todo |-> Archives(samples), group |-> {}, cache |-> cache, tmp |-> Nothing,
     download |-> FALSE, store |-> store, strange |-> FALSE,
     report |-> [i \in {s.id : s \in Range(samples)} |-> "none"]]

Told(f, ids, said) == [f EXCEPT !.report = [i \in DOMAIN f.report |->
                                               IF i \in ids THEN said ELSE f.report[i]]]
Ids(group, samples) == {samples[i].id : i \in group}

\* Cleanup: leaving fetch_archive, by any way, removes both temporaries.
Cleaned(f) == [f EXCEPT !.tmp = Nothing, !.download = FALSE]

GroupFails(f, samples) == [Cleaned(Told(f, Ids(f.group, samples), "failed")) EXCEPT !.pc = "group", !.group = {}]
ToolError(f) == [Cleaned(f) EXCEPT !.pc = "tool", !.strange = TRUE]

\* fetch, the loop over archives, in the order of their names; an archive
\* given two digests fails its samples.
NextGroup(f, samples) ==
    IF f.todo = {} THEN {[f EXCEPT !.pc = "done"]}
    ELSE LET a == Min(f.todo)
             g == GroupOf(samples, a)
             h == [f EXCEPT !.todo = @ \ {a}, !.group = g]
         IN  IF \E i, j \in g : samples[i].archiveSha # samples[j].archiveSha
             THEN {GroupFails(h, samples)}
             ELSE {[h EXCEPT !.pc = "locate"]}

\* locate_archive: the cached one when its digest is right, else a download,
\* which may fail or bring something else.
Locate(f, samples) ==
    IF samples[First(f)].archiveSha \in f.cache THEN {[f EXCEPT !.pc = "extract"]}
    ELSE {[f EXCEPT !.pc = "extract", !.download = TRUE],
          [GroupFails(f, samples) EXCEPT !.strange = TRUE], ToolError(f)}

\* extract_and_place, unzip; its exit 1 goes on with what is there, where a
\* file or a directory may be missing.
Extract(f, samples) ==
    LET dir == Contents[samples[First(f)].archiveSha]
    IN  {[f EXCEPT !.pc = "place", !.tmp = dir],
         [GroupFails(f, samples) EXCEPT !.strange = TRUE], ToolError(f)}
        \cup {[f EXCEPT !.pc = "place", !.tmp = Without(dir, p), !.strange = TRUE] : p \in DOMAIN dir}

Place_Unchecked(f, samples) ==
    IF f.group = {} THEN {[Cleaned(f) EXCEPT !.pc = "group"]}
    ELSE IF FindMember(f.tmp, samples[First(f)].member) = Nothing
         THEN {[Told(f, {samples[First(f)].id}, "failed") EXCEPT !.group = @ \ {First(f)}]}
         ELSE {[f EXCEPT !.pc = "swap", !.store[samples[First(f)].id] = Nothing]}

\* place, up to the removal of what the store held.
Place(f, samples) ==
    IF f.group = {} THEN {[Cleaned(f) EXCEPT !.pc = "group"]}
    ELSE LET s  == samples[First(f)]
             at == FindMember(f.tmp, s.member)
         IN  IF at = Nothing \/ ~Matches(s, Measure(f.tmp, at))
             THEN {[Told(f, {s.id}, "failed") EXCEPT !.group = @ \ {First(f)}]}
             ELSE {[f EXCEPT !.pc = "swap", !.store[s.id] = Nothing], ToolError(f)}

\* place, the rename into the store.
Swap(f, samples) ==
    LET s  == samples[First(f)]
        at == FindMember(f.tmp, s.member)
    IN  {[Told(f, {s.id}, "ok") EXCEPT !.pc = "place", !.group = @ \ {First(f)}, !.store[s.id] = Measure(f.tmp, at),
                                       !.tmp = Without(@, at)],
         ToolError(f)}

FetchSteps(f, samples) ==
    CASE f.pc = "group" -> NextGroup(f, samples)
      [] f.pc = "locate" -> Locate(f, samples)
      [] f.pc = "extract" -> Extract(f, samples)
      [] f.pc = "place" -> Place(f, samples)
      [] f.pc = "swap" -> Swap(f, samples)

\* Report::finish, and the error of the tool.
FetchExit(f) == IF f.pc = "tool" THEN 1
                ELSE IF \E i \in DOMAIN f.report : f.report[i] = "failed" THEN 2
                ELSE 0

\* verify: the selected samples that stand in the store as the manifest says.
Verified(samples, store) == {s.id : s \in {t \in Range(samples) : Matches(t, store[t.id])}}
=============================================================================
