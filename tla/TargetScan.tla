----------------------------- MODULE TargetScan -----------------------------
(***************************************************************************)
(* One whole-target scan (crates/nav-core/src/target.rs): the walk over a  *)
(* directory or an .app bundle under a ScanBudget, the scoring of what the *)
(* walk found under the byte ceiling, and the exit code a script sees      *)
(* (crates/nav-core/src/presentation.rs, crates/navctl/src/output.rs).     *)
(*                                                                         *)
(* Everything the file system decides is left open: the tree, the order    *)
(* directories list in, which directory, entry or file cannot be read, how *)
(* long a file is and how much its scan reads.  What a file's own scan     *)
(* answers is left open too.                                               *)
(***************************************************************************)
EXTENDS Integers, Sequences, FiniteSets

CONSTANTS Nodes,        \* what there is under the target, and the target
          Root,         \* the target
          Trees,        \* the trees to consider: [up |-> parents, kind |-> kinds]
          Budgets,      \* the budgets to consider
          Sizes,        \* lengths of files and amounts a scan reads
          StreamCap     \* MAX_STREAM_BYTES

Kinds == {"dir", "file", "inert", "other"}   \* inert: a bundle resource

ASSUME TreesOK ==
  /\ Root \in Nodes /\ IsFiniteSet(Nodes)
  /\ Trees \subseteq [up : [Nodes \ {Root} -> Nodes], kind : [Nodes -> Kinds]]
  /\ \A t \in Trees : t.kind[Root] = "dir"

ASSUME BudgetsOK ==
  /\ Budgets \subseteq [max_files : Nat, max_total_bytes : Nat,
                        max_depth : Nat, max_entries : Nat]
  /\ Sizes \subseteq Nat
  /\ StreamCap \in Nat

VARIABLES
  tree, budget, recursive, bundle,   \* the call: never changed
  phase,        \* "walk", "list", "scan", "done", or "error"
  stack,        \* directories still to read, with their depth
  dir, depth,   \* the directory being listed
  listing,      \* its entries not yet examined
  entries_seen,
  out,          \* the files collected
  limit_hit,    \* the ceiling the walk hit
  unreadable,   \* directories whose listing failed in whole or in part
  queue,        \* files still to score
  results,      \* what each scored file's scan answered
  used,         \* bytes charged
  byte_limit,   \* the byte ceiling stopped the scan
  entered,      \* directories whose listing was opened (ghost)
  last_read     \* bytes the last file charged (ghost)

call == <<tree, budget, recursive, bundle>>
walk == <<stack, dir, depth, listing, entries_seen, out, limit_hit, unreadable,
          entered>>
score == <<queue, results, used, byte_limit, last_read>>
vars == <<call, walk, score, phase>>

Kind(n) == tree.kind[n]
IsFile(n) == Kind(n) \in {"file", "inert"}
Children(d) == {n \in Nodes \ {Root} : tree.up[n] = d}

\* A bundle is always traversed in full.
Descends == recursive \/ bundle

Verdicts == [completeness : {"Complete", "Partial", "Indeterminate"},
             recommendation : {"NoAction", "Notify", "Quarantine"}]
Unread == [completeness |-> "Indeterminate", recommendation |-> "NoAction"]

Init ==
  /\ tree \in Trees /\ budget \in Budgets
  /\ recursive \in BOOLEAN /\ bundle \in BOOLEAN
  /\ phase = "walk"
  /\ stack = << <<Root, 0>> >>
  /\ dir = Root /\ depth = 0 /\ listing = {}
  /\ entries_seen = 0 /\ out = {} /\ limit_hit = "none" /\ unreadable = {}
  /\ queue = {} /\ results = << >> /\ used = 0 /\ byte_limit = "none"
  /\ entered = {} /\ last_read = 0

(***************************************************************************)
(* collect_files.                                                          *)
(***************************************************************************)
Top == stack[Len(stack)]
Rest == SubSeq(stack, 1, Len(stack) - 1)

\* Mutant: the directory is read but left on the stack.
OpenDir_Peek ==
  /\ phase = "walk" /\ stack # << >>
  /\ phase' = "list"
  /\ dir' = Top[1] /\ depth' = Top[2]
  /\ listing' = Children(Top[1])
  /\ entered' = entered \cup {Top[1]}
  /\ UNCHANGED <<call, score, stack, entries_seen, out, limit_hit, unreadable>>

OpenDir ==
  /\ phase = "walk" /\ stack # << >>
  /\ phase' = "list"
  /\ stack' = Rest
  /\ dir' = Top[1] /\ depth' = Top[2]
  /\ listing' = Children(Top[1])
  /\ entered' = entered \cup {Top[1]}
  /\ UNCHANGED <<call, score, entries_seen, out, limit_hit, unreadable>>

\* A directory that cannot be opened is noted, unless it is the target itself.
OpenDirFails ==
  /\ phase = "walk" /\ stack # << >>
  /\ IF Top[2] = 0
     THEN phase' = "error" /\ UNCHANGED <<stack, unreadable>>
     ELSE /\ stack' = Rest
          /\ unreadable' = unreadable \cup {Top[1]}
          /\ UNCHANGED phase
  /\ UNCHANGED <<call, score, dir, depth, listing, entries_seen, out, limit_hit,
                 entered>>

ListingEnds ==
  /\ phase = "list" /\ listing = {}
  /\ phase' = "walk"
  /\ UNCHANGED <<call, walk, score>>

\* The bundle resources are set aside before anything is scored.
Scored(files) == {f \in files : ~(bundle /\ Kind(f) = "inert")}

\* The walk is over: what it collected is scored.
Collected(files) ==
  /\ phase' = "scan"
  /\ queue' = Scored(files)
  /\ UNCHANGED <<results, used, byte_limit, last_read>>

MoreEntries == phase = "list" /\ listing # {}
Within == entries_seen < budget.max_entries

\* The entry ceiling is checked before the entry is looked at.
TooManyEntries ==
  /\ MoreEntries /\ ~Within
  /\ entries_seen' = entries_seen + 1
  /\ limit_hit' = "Entries"
  /\ Collected(out)
  /\ UNCHANGED <<call, stack, dir, depth, listing, out, unreadable, entered>>

\* An entry that cannot be read, or whose type cannot: the listing may go on with
\* the next entry or end there.
EntryFails ==
  /\ MoreEntries /\ Within
  /\ entries_seen' = entries_seen + 1
  /\ \E n \in listing : listing' \in {listing \ {n}, {}}
  /\ unreadable' = unreadable \cup {dir}
  /\ UNCHANGED <<call, score, phase, stack, dir, depth, out, limit_hit, entered>>

\* A directory is stacked, unless it would be too deep: then the walk notes the
\* first time and goes on.
TakeDir ==
  /\ MoreEntries /\ Within
  /\ entries_seen' = entries_seen + 1
  /\ \E n \in listing :
       /\ Kind(n) = "dir"
       /\ listing' = listing \ {n}
       /\ CASE ~Descends -> UNCHANGED <<stack, limit_hit>>
            [] Descends /\ depth < budget.max_depth ->
                 /\ stack' = Append(stack, <<n, depth + 1>>)
                 /\ UNCHANGED <<limit_hit>>
            [] OTHER ->
                 /\ limit_hit' = IF limit_hit = "none" THEN "Depth" ELSE limit_hit
                 /\ UNCHANGED stack
  /\ UNCHANGED <<call, score, phase, dir, depth, out, unreadable, entered>>

FilesFull == Cardinality(out) >= budget.max_files

TakeFile ==
  /\ MoreEntries /\ Within
  /\ entries_seen' = entries_seen + 1
  /\ \E n \in listing :
       /\ IsFile(n)
       /\ listing' = listing \ {n}
       /\ IF FilesFull
          THEN /\ limit_hit' = "Files"
               /\ Collected(out)
               /\ UNCHANGED out
          ELSE /\ out' = out \cup {n}
               /\ UNCHANGED <<score, phase, limit_hit>>
  /\ UNCHANGED <<call, stack, dir, depth, unreadable, entered>>

\* Symlinks, sockets, fifos, devices.
PassOver ==
  /\ MoreEntries /\ Within
  /\ entries_seen' = entries_seen + 1
  /\ \E n \in listing : Kind(n) = "other" /\ listing' = listing \ {n}
  /\ UNCHANGED <<call, score, phase, stack, dir, depth, out, limit_hit, unreadable,
                 entered>>

WalkEnds ==
  /\ phase = "walk" /\ stack = << >>
  /\ Collected(out)
  /\ UNCHANGED <<call, walk>>

(***************************************************************************)
(* scan_within_bytes.  The files are taken in the order of their names,    *)
(* which is any order.                                                     *)
(***************************************************************************)
Least(a, b) == IF a <= b THEN a ELSE b
First == DOMAIN results = {}

Admits(len) ==
  First \/ used + Least(len, StreamCap) <= budget.max_total_bytes

Record(f, verdict) ==
  /\ results' = [g \in DOMAIN results \cup {f} |->
                   IF g = f THEN verdict ELSE results[g]]
  /\ queue' = queue \ {f}

\* A file that cannot be opened is never refused, and charges nothing.
ScoreUnopened ==
  /\ phase = "scan"
  /\ \E f \in queue : Record(f, Unread)
  /\ UNCHANGED <<call, walk, phase, used, byte_limit, last_read>>

\* The prefix and every read past it are charged, a failed read's too.
ScoreFile ==
  /\ phase = "scan"
  /\ \E f \in queue, len \in Sizes, reads \in Sizes, verdict \in Verdicts :
       /\ Admits(len)
       /\ Record(f, verdict)
       /\ used' = used + reads
       /\ last_read' = reads
  /\ UNCHANGED <<call, walk, phase, byte_limit>>

RefuseFile ==
  /\ phase = "scan" /\ queue # {}
  /\ \E len \in Sizes : ~Admits(len)
  /\ byte_limit' = "TotalBytes"
  /\ phase' = "done"
  /\ UNCHANGED <<call, walk, queue, results, used, last_read>>

AllScored ==
  /\ phase = "scan" /\ queue = {}
  /\ phase' = "done"
  /\ UNCHANGED <<call, walk, score>>

\* The process has exited.
Ended == phase \in {"done", "error"} /\ UNCHANGED vars

Next ==
  \/ OpenDir \/ OpenDirFails \/ ListingEnds
  \/ TooManyEntries \/ EntryFails \/ TakeDir \/ TakeFile \/ PassOver
  \/ WalkEnds
  \/ ScoreUnopened \/ ScoreFile \/ RefuseFile \/ AllScored
  \/ Ended

Spec == Init /\ [][Next]_vars

(***************************************************************************)
(* What the caller is told.                                                *)
(***************************************************************************)
\* outcome(): one limit is reported.
Reported ==
  IF limit_hit \in {"Files", "none"} /\ byte_limit # "none"
  THEN byte_limit ELSE limit_hit

\* Mutant: a directory that could not be read is not held against the scan.
CoverageComplete_BudgetOnly == Reported = "none"

CoverageComplete == Reported = "none" /\ unreadable = {}

SeverityRank(r) ==
  CASE r.recommendation = "Quarantine" -> 3
    [] r.recommendation = "Notify" -> 2
    [] r.recommendation = "NoAction" -> IF r.completeness = "Complete" THEN 0 ELSE 1

\* worst(): the score breaks ties between equals in rank, which exit alike.
Worst ==
  CHOOSE f \in DOMAIN results :
    \A g \in DOMAIN results : SeverityRank(results[g]) <= SeverityRank(results[f])

Clean == 0
Suspicious == 1
HighRisk == 2
Indeterminate == 3
OperationalError == 4

ForResult(r) ==
  CASE r.recommendation = "Quarantine" -> HighRisk
    [] r.recommendation = "Notify" -> Suspicious
    [] r.recommendation = "NoAction" ->
         IF r.completeness = "Complete" THEN Clean ELSE Indeterminate

ForTarget ==
  LET worst == ForResult(results[Worst])
  IN IF ~CoverageComplete /\ worst = Clean THEN Indeterminate ELSE worst

\* The exit code of `navctl scan`, with its own code for a target without files.
ExitCode ==
  IF phase = "error" THEN OperationalError
  ELSE IF DOMAIN results # {} THEN ForTarget
  ELSE IF CoverageComplete THEN OperationalError ELSE Indeterminate

(***************************************************************************)
(* Properties.                                                             *)
(***************************************************************************)
\* Every variable stays in its set; only directories are read or fail to be, only
\* collected files are scored.
TypeOK ==
  /\ tree \in Trees /\ budget \in Budgets
  /\ recursive \in BOOLEAN /\ bundle \in BOOLEAN
  /\ phase \in {"walk", "list", "scan", "done", "error"}
  /\ stack \in Seq({d \in Nodes : Kind(d) = "dir"} \X Nat)
  /\ dir \in Nodes /\ Kind(dir) = "dir" /\ depth \in Nat
  /\ listing \subseteq Children(dir)
  /\ entries_seen \in Nat
  /\ out \subseteq {f \in Nodes : IsFile(f)}
  /\ limit_hit \in {"none", "Files", "Depth", "Entries"}
  /\ unreadable \subseteq {d \in Nodes : Kind(d) = "dir"}
  /\ entered \subseteq Nodes
  /\ queue \subseteq Scored(out)
  /\ DOMAIN results \subseteq Scored(out)
  /\ \A f \in DOMAIN results : results[f] \in Verdicts
  /\ used \in Nat /\ last_read \in Nat
  /\ byte_limit \in {"none", "TotalBytes"}

\* What the walk owes and the scoring keeps: as long as no ceiling was hit and no
\* listing failed, every entry of a directory that was opened is collected, opened,
\* or waiting - except those the current listing has not come to - and every
\* collected file is scored or queued.
Stacked == {stack[i][1] : i \in 1..Len(stack)}

Handled(n) ==
  /\ IsFile(n) => n \in out
  /\ Kind(n) = "dir" /\ Descends => n \in entered \cup Stacked

Pending(n) == phase = "list" /\ n \in listing

OwedInv ==
  limit_hit = "none" /\ unreadable = {} /\ phase # "error" =>
    /\ Root \in entered \cup Stacked
    /\ \A n \in Nodes \ {Root} :
         tree.up[n] \in entered /\ ~Pending(n) => Handled(n)

KeptInv ==
  /\ phase \in {"scan", "done"} =>
       /\ limit_hit = "none" => stack = << >>
       /\ Scored(out) \subseteq queue \cup DOMAIN results
  /\ phase = "done" /\ byte_limit = "none" => queue = {}
  /\ phase \in {"walk", "list"} => DOMAIN results = {} /\ byte_limit = "none"
  /\ DOMAIN results = {} => used = 0

WalkInv == OwedInv /\ KeptInv

\* The files the user asked about: those in directories one gets to from the target
\* (every set of directories that holds the target and, when the scan descends, the
\* subdirectories of its members, holds their parent).
Closed(S) ==
  /\ Root \in S
  /\ Descends => \A d \in Nodes \ {Root} :
                   Kind(d) = "dir" /\ tree.up[d] \in S => d \in S

Reachable(f) ==
  f # Root /\ \A S \in SUBSET Nodes : Closed(S) => tree.up[f] \in S

\* Exit code 0 means what the table says, "no significant findings, scan complete":
\* every file there was under the target, whatever failed on the way and whichever
\* ceiling was hit, was scored, completely, with nothing to report.
CleanMeansChecked ==
  phase = "done" /\ ExitCode = Clean =>
    \A f \in Nodes : IsFile(f) /\ Reachable(f) /\ f \in Scored({f}) =>
      /\ f \in DOMAIN results
      /\ results[f] = [completeness |-> "Complete", recommendation |-> "NoAction"]

\* "A finding outranks incompleteness": whatever else failed or was cut short, the
\* most severe finding decides the exit code.
FindingOutranks ==
  phase = "done" =>
    /\ (\E f \in DOMAIN results : results[f].recommendation = "Quarantine")
         <=> ExitCode = HighRisk
    /\ (\E f \in DOMAIN results : results[f].recommendation = "Notify")
         => ExitCode \in {HighRisk, Suspicious}

\* The work a target can cause is bounded by its budget: files, entries, depth, and
\* through them the directories waiting.
BudgetHeld ==
  /\ Cardinality(out) <= budget.max_files
  /\ entries_seen <= budget.max_entries + 1
  /\ \A i \in 1..Len(stack) : stack[i][2] <= budget.max_depth
  /\ Len(stack) <= entries_seen + 1

\* "The ceiling can be overshot by one file's reads", and by no more.
OneFileOver == used <= budget.max_total_bytes + last_read

\* Every step of a scan brings it nearer its end, by a measure that depends on the
\* budget alone: whatever the target holds, a scan is over after fewer than
\* max_files + 3 * max_entries + 9 of these steps.  (It is never stuck before:
\* TLC looks for deadlocks.)
Left == budget.max_entries + 1 - entries_seen

Work ==
  CASE phase = "walk" -> budget.max_files + 3 + 3 * Left + 2 * Len(stack)
    [] phase = "list" -> budget.max_files + 4 + 3 * Left + 2 * Len(stack)
    [] phase = "scan" -> Cardinality(queue) + 1
    [] phase \in {"done", "error"} -> 0

ScanAdvances == [][Work' < Work /\ Work' >= 0]_vars

(***************************************************************************)
(* What the docs say and the code does not do.                             *)
(***************************************************************************)
=============================================================================
