----------------------------- MODULE CorpusGate -----------------------------
(***************************************************************************)
(* `cargo xtask corpus compare` (crates/xtask/src/corpus): the planned     *)
(* chunks go through a pool of workers, each runs the base build's navctl  *)
(* and then the new build's on its chunk and appends what they print to    *)
(* one sink per build; the two sinks are read back and compared, and the   *)
(* exit status is the gate of a release.                                   *)
(*                                                                         *)
(* Left open: what a build says of a file (the same each time), which      *)
(* navctl runs die and after how many lines, where a ceiling stops a walk, *)
(* which images are mounted, which calls fail.                             *)
(***************************************************************************)
EXTENDS CorpusPlan

CONSTANTS Invocations,  \* runs of the tool: records as in CorpusPlan, with the
                        \* planned chunks as a sequence, the inert resources
                        \* (is_inert_bundle_resource) and the volume of each disk
                        \* image: the members a mount of it shows
          Verdicts      \* what a build can say of a file, as much of it as the gate
                        \* looks at: rec_rank and comp_rank

Builds == <<"base", "new">>
BuildNames == {"base", "new"}

\* The order of the chunks is that of the roots and the names below them: any.
ASSUME InvocationsOK ==
  \A k \in Invocations :
    /\ k.jobs \in Nat
    /\ k.chunks \in Seq(Plan(k))
    /\ \A c \in Plan(k) : \E i \in 1..Len(k.chunks) : k.chunks[i] = c
    /\ \A i, j \in 1..Len(k.chunks) : k.chunks[i] = k.chunks[j] => i = j

\* A path is below a directory, and deeper than it: a walk follows no links.
ASSUME FileSystemsOK ==
  /\ IsFiniteSet(Nodes)
  /\ \A k \in Invocations :
       /\ DOMAIN k.up \subseteq Nodes /\ k.kind \in [Nodes -> Kinds]
       /\ \A i \in DOMAIN k.roots : k.roots[i] \in Nodes
       /\ \A n \in DOMAIN k.up : k.up[n] \in Nodes => Directory(k, k.up[n])
  /\ \A up \in {k.up : k \in Invocations} :
       \E depth \in [Nodes -> 0..Cardinality(Nodes)] :
         \A n \in DOMAIN up : up[n] \in Nodes => depth[up[n]] < depth[n]

ASSUME VerdictsOK == Verdicts \subseteq [rec : 0..2, comp : 0..2]

VARIABLES
  call,       \* the run of the tool: never changed
  main,       \* main thread: "start", "pool", "diff" or "done"
  wpc,        \* workers: "none", "take", "check", "run" or "gone"
  next,       \* the shared counter, an index of the chunks
  at,         \* the chunk a worker has taken
  build,      \* which build a worker runs on it, an index of Builds
  failure,    \* the first error of any worker
  sink,       \* per build, the verdict of each file it has a line for
  torn,       \* per build, it has a line cut short
  status,     \* the exit status: 0, 1 or 2
  ran,        \* per build and chunk, how often navctl was run on it (ghost)
  ended       \* per build and chunk, how navctl's run on it ended (ghost)

pool == <<wpc, next, at, build, failure>>
output == <<sink, torn, ran, ended>>
vars == <<call, main, pool, output, status>>

Chunks == call.chunks
Total == Len(Chunks)
Workers == 1..call.jobs

Passed == 0
ToolError == 1
RegressionExit == 2

Init ==
  /\ call \in Invocations
  /\ main = "start"
  /\ wpc = [w \in Workers |-> "none"]
  /\ next = 1
  /\ at = [w \in Workers |-> 0]
  /\ build = [w \in Workers |-> 1]
  /\ failure = "none"
  /\ sink = [b \in BuildNames |-> << >>]
  /\ torn = [b \in BuildNames |-> FALSE]
  /\ ran = [b \in BuildNames |-> [i \in 1..Total |-> 0]]
  /\ ended = [b \in BuildNames |-> [i \in 1..Total |-> "none"]]
  /\ status = -1

Exit(code) == main' = "done" /\ status' = code

(***************************************************************************)
(* Main thread, up to the pool and after it.                               *)
(***************************************************************************)
\* Nothing planned, no jobs, or a sink that cannot be created is a tool error;
\* otherwise as many workers start as there are jobs and chunks for.
StartPool ==
  /\ main = "start"
  /\ \/ /\ Chunks # << >> /\ call.jobs > 0
        /\ main' = "pool"
        /\ wpc' = [w \in Workers |-> IF w <= Total THEN "take" ELSE "gone"]
        /\ UNCHANGED status
     \/ Exit(ToolError) /\ UNCHANGED wpc
  /\ UNCHANGED <<call, next, at, build, failure, output>>

\* The scope ends with its last worker. An error of any of them, or a sink that
\* cannot be flushed, is the tool's.
Join ==
  /\ main = "pool" /\ \A w \in Workers : wpc[w] = "gone"
  /\ \/ failure = "none" /\ main' = "diff" /\ UNCHANGED status
     \/ Exit(ToolError)
  /\ UNCHANGED <<call, pool, output>>

(***************************************************************************)
(* Workers.                                                                *)
(***************************************************************************)
\* Mutant: a load and a store, with another worker's in between.
Take_LostUpdate(w) ==
  /\ main = "pool" /\ wpc[w] = "take"
  /\ next' \in {next, next + 1}
  /\ at' = [at EXCEPT ![w] = next]
  /\ wpc' = [wpc EXCEPT ![w] = IF next <= Total THEN "check" ELSE "gone"]
  /\ UNCHANGED <<call, main, build, failure, output, status>>

\* fetch_add, and `get` of what it returned.
Take(w) ==
  /\ main = "pool" /\ wpc[w] = "take"
  /\ next' = next + 1
  /\ at' = [at EXCEPT ![w] = next]
  /\ wpc' = [wpc EXCEPT ![w] = IF next <= Total THEN "check" ELSE "gone"]
  /\ UNCHANGED <<call, main, build, failure, output, status>>

\* A worker that sees another's failure leaves its chunk unscanned.
CheckFailure(w) ==
  /\ wpc[w] = "check"
  /\ wpc' = [wpc EXCEPT ![w] = IF failure = "none" THEN "run" ELSE "gone"]
  /\ build' = [build EXCEPT ![w] = 1]
  /\ UNCHANGED <<call, main, next, at, failure, output, status>>

Build(w) == Builds[build[w]]

\* Lines printed for some files of the chunk, under the sink's lock. A build says
\* the same of a file whenever it is asked.
Printed(b, files, lines) ==
  /\ lines \in [files -> Verdicts]
  /\ \A f \in files \cap DOMAIN sink[b] : lines[f] = sink[b][f]

Recorded(w, lines) ==
  LET b == Build(w)
  IN /\ sink' = [sink EXCEPT ![b] =
                   [f \in DOMAIN @ \cup DOMAIN lines |->
                      IF f \in DOMAIN lines THEN lines[f] ELSE @[f]]]
     /\ ran' = [ran EXCEPT ![b][at[w]] = @ + 1]
     /\ IF build[w] < Len(Builds)
        THEN build' = [build EXCEPT ![w] = @ + 1] /\ UNCHANGED wpc
        ELSE wpc' = [wpc EXCEPT ![w] = "take"] /\ UNCHANGED build

\* The files of a chunk navctl has a line for: a bundle's inert resources have none.
Listed(k, c) ==
  IF k.kind[c.path] = "app" THEN Covered(k, c) \ k.inert ELSE Covered(k, c)

Image(k, c) == c.path \in DOMAIN k.volume
Volume(k, c) == IF Image(k, c) THEN k.volume[c.path] ELSE {}

\* How a run that answers (0-3) may end, and the files it has lines for then. Only the
\* ceilings on files and bytes are lifted, and only where the build knows the flags:
\* any other stops a walk, which is no failure. A disk image that mounts has its
\* members' lines and none of its own. Nothing at all to show for a whole walk is a
\* failure, unless something could not be listed.
Answers(k, c, how, files) ==
  \/ /\ how = "all" /\ files = Listed(k, c)
     /\ files # {} \/ LockedBelow(k)[c.path] # {}
  \/ how = "stopped" /\ Directory(k, c.path) /\ files \subseteq Listed(k, c)
  \/ how = "mounted" /\ Image(k, c) /\ files \subseteq Volume(k, c)

\* navctl answers with a verdict of its own and its lines.
RunChunk(w) ==
  LET c == Chunks[at[w]]
  IN /\ wpc[w] = "run"
     /\ \E how \in {"all", "stopped", "mounted"},
           files \in SUBSET Listed(call, c) \cup SUBSET Volume(call, c) :
          /\ Answers(call, c, how, files)
          /\ \E lines \in [files -> Verdicts] :
               Printed(Build(w), files, lines) /\ Recorded(w, lines)
          /\ ended' = [ended EXCEPT ![Build(w)][at[w]] = how]
     /\ UNCHANGED <<call, main, next, at, failure, torn, status>>

\* It fails: killed, crashed, or with another code, after some of the lines and
\* perhaps within one. The sink gets what there was, and a line of its own for it.
RunChunkDies(w) ==
  LET c == Chunks[at[w]]
  IN /\ wpc[w] = "run"
     /\ \E files \in SUBSET Listed(call, c) \cup SUBSET Volume(call, c), cut \in BOOLEAN :
          /\ \E lines \in [files -> Verdicts] :
               Printed(Build(w), files, lines) /\ Recorded(w, lines)
          /\ torn' = [torn EXCEPT ![Build(w)] = @ \/ cut]
     /\ ended' = [ended EXCEPT ![Build(w)][at[w]] = "died"]
     /\ UNCHANGED <<call, main, next, at, failure, status>>

\* navctl cannot be started or the sink cannot be written: the first such error is
\* kept and the worker leaves.
RunChunkFails(w) ==
  /\ wpc[w] = "run"
  /\ failure' = IF failure = "none" THEN "error" ELSE failure
  /\ wpc' = [wpc EXCEPT ![w] = "gone"]
  /\ UNCHANGED <<call, main, next, at, build, output, status>>

(***************************************************************************)
(* The gate.                                                               *)
(***************************************************************************)
Base == sink["base"]
New == sink["new"]

\* A file whose recommendation or completeness got worse, or a new one above
\* no-action.
Regressed(f) ==
  IF f \in DOMAIN Base
  THEN New[f].rec > Base[f].rec \/ New[f].comp > Base[f].comp
  ELSE New[f].rec # 0

Regressions == {f \in DOMAIN New : Regressed(f)}

\* Mutant: what is missing from the new scan is not held against it.
GatePassed_NotMissing == DOMAIN Base # {} /\ Regressions = {}

GatePassed ==
  DOMAIN Base # {} /\ Regressions = {} /\ DOMAIN Base \subseteq DOMAIN New

\* A line cut short does not parse, which is a tool error, as is a report that
\* cannot be written.
Diff ==
  /\ main = "diff"
  /\ \/ /\ \A b \in BuildNames : ~torn[b]
        /\ Exit(IF GatePassed THEN Passed ELSE RegressionExit)
     \/ Exit(ToolError)
  /\ UNCHANGED <<call, pool, output>>

Ended == main = "done" /\ UNCHANGED vars

Worker(w) ==
  \/ Take(w) \/ CheckFailure(w)
  \/ RunChunk(w) \/ RunChunkDies(w) \/ RunChunkFails(w)

Next ==
  \/ StartPool \/ Join \/ Diff
  \/ \E w \in Workers : Worker(w)
  \/ Ended

Spec == Init /\ [][Next]_vars

\* How navctl's run on a chunk may have ended.
Endings == {"none", "all", "stopped", "mounted", "died"}

(***************************************************************************)
(* Properties.                                                             *)
(***************************************************************************)
\* Types; a worker at work holds a chunk of the plan, and the two builds run back to
\* back on it.
TypeOK ==
  /\ main \in {"start", "pool", "diff", "done"}
  /\ wpc \in [Workers -> {"none", "take", "check", "run", "gone"}]
  /\ next \in Nat \ {0}
  /\ at \in [Workers -> Nat]
  /\ \A w \in Workers : wpc[w] \in {"check", "run"} => at[w] \in 1..Total
  /\ build \in [Workers -> 1..2]
  /\ failure \in {"none", "error"}
  /\ DOMAIN sink = BuildNames
  /\ \A b \in BuildNames : sink[b] \in [DOMAIN sink[b] -> Verdicts]
  /\ torn \in [BuildNames -> BOOLEAN]
  /\ ran \in [BuildNames -> [1..Total -> Nat]]
  /\ ended \in [BuildNames -> [1..Total -> Endings]]
  /\ status \in {-1, Passed, ToolError, RegressionExit}

\* However a file system is split, each file a walk can come to is scanned once per
\* root, and what cannot be listed is said by someone.
PlanAccounts == main = "start" => \A i \in DOMAIN call.roots : Accounts(call, i)

\* Whatever the workers' steps interleave like and whichever of them leave early, no
\* navctl is run twice on a chunk, and a pool that ended without an error has run
\* both builds on every chunk.
PoolComplete ==
  /\ \A b \in BuildNames, i \in 1..Total : ran[b][i] <= 1
  /\ main = "diff" \/ status \in {Passed, RegressionExit} =>
       \A b \in BuildNames, i \in 1..Total : ran[b][i] = 1

Planned == UNION {Covered(call, Chunks[i]) : i \in 1..Total}

\* "Exit status: 0 gate passed": no worker failed, no line was lost half-way, whatever
\* the base build has a line for the new one reports and no worse, and the new build has
\* nothing against anything else. A planned file that was compared by nobody has a
\* reason in each of its chunks: navctl died on it, a ceiling stopped its walk, the file
\* is an image that was mounted, or a bundle's inert resource. None of the four is held
\* against the new build where the base build has no line either.
PassedMeansNoWorse ==
  status = Passed =>
    /\ failure = "none" /\ \A b \in BuildNames : ~torn[b]
    /\ \A f \in DOMAIN Base :
         f \in DOMAIN New /\ New[f].rec <= Base[f].rec /\ New[f].comp <= Base[f].comp
    /\ \A f \in DOMAIN New \ DOMAIN Base : New[f].rec = 0
    /\ \A b \in BuildNames : \A f \in Planned \ DOMAIN sink[b] : \A i \in 1..Total :
         f \in Covered(call, Chunks[i]) =>
           \/ ended[b][i] \in {"died", "stopped", "mounted"}
           \/ f \notin Listed(call, Chunks[i])
=============================================================================
