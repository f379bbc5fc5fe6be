------------------------------- MODULE Bench -------------------------------
(***************************************************************************)
(* The malware bench, "cargo xtask malware" (crates/xtask/src/malware):    *)
(* runs of "malware vm" on the host, each of which bundles two commits,    *)
(* clones the golden VM, and has the clone fetch the samples and compare   *)
(* the two builds over them; and the VMs, in which a left one may be used  *)
(* again by hand.                                                          *)
(*                                                                         *)
(* Two runs may start in the same second, which is all that tells their    *)
(* refs, VMs and output directories apart, or be given one output          *)
(* directory. A run may be killed between any two steps, which skips every *)
(* drop; a VM may die between any two of its steps. git, tart, curl,       *)
(* unzip and cargo fail at will, MaxFaults times in all.                   *)
(***************************************************************************)
EXTENDS SampleStore, SampleGate, BuildPair

CONSTANTS
    Runs,          \* runs of "malware vm"
    Seconds,       \* seconds in which a run may start
    Requests,      \* command lines a run may be given
    Manifests,     \* manifests, by name; "committed" is the repository's
    Samples,       \* their samples, a sequence for each
    Cache,         \* archives the golden VM has cached, by digest
    Findings,      \* result lists navctl may print for a sample, by id
    MaxFaults, MaxKills, MaxReruns

ASSUME BoundsAssumption == /\ 0 \notin Seconds /\ Nothing \notin Runs
                           /\ MaxFaults \in Nat /\ MaxKills \in Nat /\ MaxReruns \in Nat

\* A manifest is a list of samples, and a run is given one of them.
ASSUME ManifestAssumption ==
    /\ \A m \in Manifests : Samples[m] \in Seq(Range(Samples[m]))
    /\ \A m \in Manifests : \A s \in Range(Samples[m]) :
          s.archive \in Nat /\ s.member \in Seq(Range(s.member))
    /\ "committed" \in Manifests
    /\ \A r \in Runs : \A a \in Requests[r] : a.manifest \in Manifests

\* A line navctl prints of a sample names a path below it in the store.
ASSUME FindingsAssumption ==
    \A m \in Manifests : \A s \in Range(Samples[m]) :
       /\ s.expected.rec \in 0..2 /\ s.expected.comp \in 0..2
       /\ Nothing \notin Findings[s.id]
       /\ \A x \in Findings[s.id] :
             /\ x \in Seq(Range(x))
             /\ \A r \in Range(x) : /\ IsStrictPrefix(<<"store">>, r.path) /\ r.path[2] = s.id
                                    /\ r.rec \in 0..2 /\ r.comp \in 0..2

VARIABLES
    run,      \* each run's progress; its ghost stuck, that its bundle could
              \* not be removed
    refs,     \* the temporary refs, by the second in their names
    bundle,   \* src.bundle, by output directory
    vm,       \* the clones, by the second in their names; one that is not there
              \* has no owner
    faults, kills

vars == <<run, refs, bundle, vm, faults, kills>>

NoRefs == [new |-> Nothing, base |-> Nothing]
OutDirs == Seconds \cup {0}  \* 0 is a directory named on the command line

Going == 3  \* no exit status yet

\* A clone, before its guest has done anything.
NewVm(r) ==
    [owner |-> r, on |-> FALSE, bundle |-> Nothing, manifest |-> "committed", new |-> Nothing, base |-> Nothing,
     pc |-> "idle", head |-> Nothing, commits |-> {}, fetch |-> Nothing, build |-> Nothing, ok |-> {},
     exit |-> Going, lost |-> FALSE, strange |-> FALSE, tries |-> 0]

There(t) == vm[t].owner # Nothing

Init ==
    /\ run = [r \in Runs |-> [pc |-> "start", secs |-> 0, out |-> 0, new |-> Nothing, base |-> Nothing,
                              manifest |-> "committed", keep |-> FALSE, exit |-> Going, warned |-> FALSE,
                              stuck |-> FALSE]]
    /\ refs = [t \in Seconds |-> NoRefs]
    /\ bundle = [o \in OutDirs |-> Nothing]
    /\ vm = [t \in Seconds |-> NewVm(Nothing)]
    /\ faults = 0
    /\ kills = 0

Fault == faults < MaxFaults /\ faults' = faults + 1

-----------------------------------------------------------------------------
(* The host: vm.rs. *)

\* run, up to the output directory: the revisions are resolved to commits
\* and the second taken.
Start(r) ==
    /\ run[r].pc = "start"
    /\ \E t \in Seconds, a \in Requests[r] :
          run' = [run EXCEPT ![r] = [@ EXCEPT !.pc = "refNew", !.secs = t, !.out = IF a.given THEN 0 ELSE t,
                                              !.new = a.new, !.base = a.base, !.manifest = a.manifest,
                                              !.keep = a.keep]]
    /\ UNCHANGED <<refs, bundle, vm, faults, kills>>

AfterFailure_RefsLast(pc) ==
    CASE pc \in {"refNew", "refBase"} -> "dropBundle"
      [] pc = "bundle" -> "dropRefs"
      [] pc = "clone" -> "dropBundle"
      [] OTHER -> "dropVm"

AfterFailure_GuardFirst(pc) ==
    CASE pc \in {"refNew", "refBase", "bundle"} -> "dropRefs"
      [] OTHER -> "dropVm"

\* The drop that an error at pc comes to first: BundleRefs is there before
\* the first ref, VmGuard only once the clone is, and TempFile always.
AfterFailure(pc) ==
    CASE pc \in {"refNew", "refBase", "bundle"} -> "dropRefs"
      [] pc = "clone" -> "dropBundle"
      [] OTHER -> "dropVm"

GoTo(r, pc) == run' = [run EXCEPT ![r].pc = pc]
Bail(r) == run' = [run EXCEPT ![r].pc = AfterFailure(run[r].pc), ![r].exit = 1]

\* A command of this step fails by itself.
StepFails(r) ==
    /\ run[r].pc \in {"refNew", "refBase", "bundle", "clone", "log", "agent", "copyBundle", "copyManifest", "exec"}
    /\ Fault
    /\ Bail(r)
    /\ UNCHANGED <<refs, bundle, vm, kills>>

\* make_bundle.
RefNew(r) ==
    /\ run[r].pc = "refNew"
    /\ refs' = [refs EXCEPT ![run[r].secs].new = run[r].new]
    /\ GoTo(r, "refBase")
    /\ UNCHANGED <<bundle, vm, faults, kills>>

RefBase(r) ==
    /\ run[r].pc = "refBase"
    /\ refs' = [refs EXCEPT ![run[r].secs].base = run[r].base]
    /\ GoTo(r, "bundle")
    /\ UNCHANGED <<bundle, vm, faults, kills>>

CreateBundle(r) ==
    /\ run[r].pc = "bundle"
    /\ LET there == refs[run[r].secs]
       IN  IF there.new = Nothing \/ there.base = Nothing
           THEN Bail(r) /\ UNCHANGED bundle
           ELSE bundle' = [bundle EXCEPT ![run[r].out] = there] /\ GoTo(r, "dropRefs")
    /\ UNCHANGED <<refs, vm, faults, kills>>

\* BundleRefs::drop; a ref that cannot be deleted is warned of.
DropRefs(r) ==
    /\ run[r].pc = "dropRefs"
    /\ LET next == IF run[r].exit = 1 THEN "dropBundle" ELSE "clone"
       IN  \/ /\ refs' = [refs EXCEPT ![run[r].secs] = NoRefs]
              /\ GoTo(r, next)
              /\ UNCHANGED faults
           \/ /\ Fault
              /\ run' = [run EXCEPT ![r].pc = next, ![r].warned = TRUE]
              /\ UNCHANGED refs
    /\ UNCHANGED <<bundle, vm, kills>>

\* tart clone, which refuses a name that is taken.
Clone(r) ==
    /\ run[r].pc = "clone"
    /\ IF There(run[r].secs)
       THEN Bail(r) /\ UNCHANGED vm
       ELSE vm' = [vm EXCEPT ![run[r].secs] = NewVm(r)] /\ GoTo(r, "log")
    /\ UNCHANGED <<refs, bundle, faults, kills>>

\* The log and tart run.
Spawn(r) ==
    /\ run[r].pc = "log"
    /\ vm' = [vm EXCEPT ![run[r].secs].on = TRUE]
    /\ GoTo(r, "agent")
    /\ UNCHANGED <<refs, bundle, faults, kills>>

Answers(r) == There(run[r].secs) /\ vm[run[r].secs].on

\* wait_for_agent: a VM that is off ends the wait, its tart run having ended.
WaitForAgent(r) ==
    /\ run[r].pc = "agent"
    /\ IF Answers(r) THEN GoTo(r, "copyBundle") ELSE Bail(r)
    /\ UNCHANGED <<refs, bundle, vm, faults, kills>>

\* copy_in of the bundle, from where any run may have written or removed it.
CopyBundle(r) ==
    /\ run[r].pc = "copyBundle"
    /\ IF Answers(r) /\ bundle[run[r].out] # Nothing
       THEN /\ vm' = [vm EXCEPT ![run[r].secs].bundle = bundle[run[r].out]]
            /\ GoTo(r, IF run[r].manifest = "committed" THEN "exec" ELSE "copyManifest")
       ELSE Bail(r) /\ UNCHANGED vm
    /\ UNCHANGED <<refs, bundle, faults, kills>>

CopyManifest(r) ==
    /\ run[r].pc = "copyManifest"
    /\ IF Answers(r)
       THEN vm' = [vm EXCEPT ![run[r].secs].manifest = run[r].manifest] /\ GoTo(r, "exec")
       ELSE Bail(r) /\ UNCHANGED vm
    /\ UNCHANGED <<refs, bundle, faults, kills>>

\* tart exec of GUEST_SCRIPT, with guest_args.
Exec(r) ==
    /\ run[r].pc = "exec"
    /\ IF Answers(r)
       THEN /\ vm' = [vm EXCEPT ![run[r].secs] = [@ EXCEPT !.pc = "checkout", !.new = run[r].new,
                                                           !.base = run[r].base]]
            /\ GoTo(r, "wait")
       ELSE Bail(r) /\ UNCHANGED vm
    /\ UNCHANGED <<refs, bundle, faults, kills>>

\* The script ended, or tart exec did with its VM; map_exit.
Collect(r) ==
    /\ run[r].pc = "wait"
    /\ ~Answers(r) \/ vm[run[r].secs].pc = "ended"
    /\ run' = [run EXCEPT ![r].pc = "dropVm", ![r].exit = IF Answers(r) THEN vm[run[r].secs].exit ELSE 1]
    /\ UNCHANGED <<refs, bundle, vm, faults, kills>>

\* VmGuard::drop: whatever tart stop says, the child is killed.
StopVm(r) ==
    /\ run[r].pc = "dropVm"
    /\ vm' = [vm EXCEPT ![run[r].secs].on = FALSE]
    /\ GoTo(r, IF run[r].keep THEN "dropBundle" ELSE "delete")
    /\ UNCHANGED <<refs, bundle, faults, kills>>

DeleteVm(r) ==
    /\ run[r].pc = "delete"
    /\ \/ vm' = [vm EXCEPT ![run[r].secs] = NewVm(Nothing)] /\ GoTo(r, "dropBundle") /\ UNCHANGED faults
       \/ Fault /\ run' = [run EXCEPT ![r].pc = "dropBundle", ![r].warned = TRUE] /\ UNCHANGED vm
    /\ UNCHANGED <<refs, bundle, kills>>

\* TempFile::drop; a bundle that cannot be removed stays without a word.
DropBundle(r) ==
    /\ run[r].pc = "dropBundle"
    /\ \/ /\ bundle' = [bundle EXCEPT ![run[r].out] = Nothing]
          /\ GoTo(r, "done")
          /\ UNCHANGED faults
       \/ /\ Fault
          /\ run' = [run EXCEPT ![r].pc = "done", ![r].stuck = TRUE]
          /\ UNCHANGED bundle
    /\ UNCHANGED <<refs, vm, kills>>

\* Ctrl-C, or worse: no drop runs. Whether the VM goes on is not known.
Kill(r) ==
    /\ run[r].pc \notin {"start", "done", "killed"}
    /\ kills < MaxKills
    /\ kills' = kills + 1
    /\ GoTo(r, "killed")
    /\ \/ UNCHANGED vm
       \/ /\ Answers(r) /\ vm[run[r].secs].owner = r
          /\ vm' = [vm EXCEPT ![run[r].secs].on = FALSE]
    /\ UNCHANGED <<refs, bundle, faults>>

-----------------------------------------------------------------------------
(* The guest: GUEST_SCRIPT, malware fetch and malware compare. *)

\* Whether something outside the bench failed the guest.
Strange(g) == g.strange \/ (g.fetch # Nothing /\ g.fetch.strange) \/ (g.build # Nothing /\ g.build.strange)

\* One step of the guest t to any of the states in gs, such a failure counted.
GuestGoes(t, gs) ==
    \E g \in gs :
       /\ vm' = [vm EXCEPT ![t] = g]
       /\ IF Strange(g) /\ ~Strange(vm[t]) THEN Fault ELSE UNCHANGED faults
       /\ UNCHANGED <<run, refs, bundle, kills>>

GuestAt(t, pc) == There(t) /\ vm[t].on /\ vm[t].pc = pc

Ended(g, exit) == [g EXCEPT !.pc = "ended", !.exit = exit]

EmptyStore(samples) == [i \in {s.id : s \in Range(samples)} |-> Nothing]

\* fetch's run: load, then the store as it stands.
StartFetch(g, m, store) ==
    IF Valid(Samples[m])
    THEN [g EXCEPT !.pc = "fetch", !.manifest = m, !.build = Nothing, !.ok = {}, !.exit = Going, !.lost = FALSE,
                   !.strange = FALSE, !.fetch = NewFetch(Samples[m], Cache, store)]
    ELSE Ended([g EXCEPT !.manifest = m, !.build = Nothing], 1)

Checkout_ByRef(t) ==
    /\ GuestAt(t, "checkout")
    /\ LET g == vm[t]
           there == [g EXCEPT !.commits = {g.bundle.new, g.bundle.base}, !.head = g.bundle.new]
       IN  GuestGoes(t, {StartFetch(there, g.manifest, EmptyStore(Samples[g.manifest])),
                         [Ended(g, 1) EXCEPT !.strange = TRUE]})

\* The script up to its fetch: a new clone of the bundle's refs, with the
\* new commit checked out by its id.
Checkout(t) ==
    /\ GuestAt(t, "checkout")
    /\ LET g == vm[t]
           there == [g EXCEPT !.commits = {g.bundle.new, g.bundle.base}, !.head = g.new]
       IN  GuestGoes(t, IF g.new \notin there.commits
                        THEN {Ended(g, 1)}
                        ELSE {StartFetch(there, g.manifest, EmptyStore(Samples[g.manifest])),
                              [Ended(g, 1) EXCEPT !.strange = TRUE]})

Fetch(t) ==
    /\ GuestAt(t, "fetch")
    /\ LET g == vm[t] IN
       GuestGoes(t, IF g.fetch.pc \notin {"done", "tool"}
                    THEN {[g EXCEPT !.fetch = f] : f \in FetchSteps(g.fetch, Samples[g.manifest])}
                    ELSE IF FetchExit(g.fetch) = 1 THEN {Ended(g, 1)}
                    ELSE {[g EXCEPT !.pc = "verify"]})

\* compare's run: load, prepare; nothing to scan is a failure of the gate.
Worktrees(g) == IF g.build = Nothing THEN {} ELSE g.build.worktrees

Verify(t) ==
    /\ GuestAt(t, "verify")
    /\ LET g  == vm[t]
           ok == Verified(Samples[g.manifest], g.fetch.store)
       IN  GuestGoes(t, IF ok = {} THEN {Ended(g, 2)}
                        ELSE {[g EXCEPT !.pc = "build", !.ok = ok,
                                        !.build = NewBuild(g.head, g.base, g.commits, "out", {"dated"},
                                                           Worktrees(g))]})

Build(t) ==
    /\ GuestAt(t, "build")
    /\ LET g == vm[t] IN
       GuestGoes(t, IF g.build.pc \notin {"built", "error"}
                    THEN {[g EXCEPT !.build = b] : b \in BuildSteps(g.build)}
                    ELSE IF g.build.pc = "error" THEN {Ended(g, 1)}
                    ELSE {[g EXCEPT !.pc = "scan"]})

\* What the two navctls may print over the samples in ok, Nothing when
\* one fails on a sample.
Scans(ok) == [ok -> UNION {Findings[i] : i \in ok} \cup {Nothing}]
ScansOf(ok) == {x \in Scans(ok) : \A i \in ok : x[i] = Nothing \/ x[i] \in Findings[i]}

\* The lines of the JSONL file, each known by its sample and its place among
\* the sample's, and the ids navctl failed on.
Printed(x) ==
    LET lines == UNION {{<<i, n>> : n \in DOMAIN x[i]} : i \in {j \in DOMAIN x : x[j] # Nothing}}
    IN  [l \in lines |-> x[l[1]][l[2]]]
Crashed(x) == {i \in DOMAIN x : x[i] = Nothing}

\* What should fail the gate, said of the results themselves: a sample not
\* scanned by both, less of it scanned, or an in-scope detection gone.
Lost(samples, ok, base, new) ==
    \E s \in Range(samples) :
       \/ s.id \notin ok
       \/ base[s.id] = Nothing \/ new[s.id] = Nothing
       \/ LET b == Range(base[s.id])
              n == Range(new[s.id])
              e == s.expected
          IN  \/ n = {}
              \/ Len(new[s.id]) < Len(base[s.id])
              \/ \E x \in n : b # {} /\ \A y \in b : x.comp > y.comp
              \/ e # NoOutcome /\ \E x \in n : x.comp > e.comp
              \/ s.scope = "in" /\ \E y \in b : \A x \in n : x.rec < y.rec
              \/ s.scope = "in" /\ e # NoOutcome /\ \A x \in n : x.rec < e.rec

\* compare's run, from the scans on: every exit a comparison of the samples
\* in ok can have, and whether something was lost.
Verdict(samples, ok, base, new) ==
    LET ids == {s.id : s \in Range(samples)}
        bad == (ids \ ok) \cup ScanFaults({<<"store", i>> : i \in Crashed(base) \cup Crashed(new)}, <<"store">>, ids)
    IN  [exit |-> GateExit(samples, <<"store">>, Printed(base), Printed(new), bad),
         lost |-> Lost(samples, ok, base, new) \/ DOMAIN Printed(base) = {}]

Verdicts == UNION {UNION {
    {[manifest |-> m, ok |-> ok, verdict |-> Verdict(Samples[m], ok, base, new)] :
        base \in ScansOf(ok), new \in ScansOf(ok)} :
    ok \in SUBSET {s.id : s \in Range(Samples[m])}} : m \in Manifests}

Scan(t) ==
    /\ GuestAt(t, "scan")
    /\ LET g == vm[t] IN
       GuestGoes(t, {[Ended(g, v.verdict.exit) EXCEPT !.lost = v.verdict.lost] :
                        v \in {w \in Verdicts : w.manifest = g.manifest /\ w.ok = g.ok}}
                    \cup {[Ended(g, 1) EXCEPT !.strange = TRUE]})

\* The VM goes down: tart run ends, or the guest of a left VM is shut down.
VmDies(t) ==
    /\ There(t) /\ vm[t].on
    /\ Fault
    /\ vm' = [vm EXCEPT ![t].on = FALSE]
    /\ UNCHANGED <<run, refs, bundle, kills>>

\* A left VM, its host's run over, is started by hand and fetch and compare
\* run in it again, perhaps with another manifest.
Rerun(t) ==
    /\ There(t)
    /\ run[vm[t].owner].pc \in {"done", "killed"}
    /\ vm[t].fetch # Nothing
    /\ vm[t].pc = "ended" \/ ~vm[t].on
    /\ vm[t].tries < MaxReruns
    /\ \E m \in Manifests :
          LET g == vm[t]
              had == g.fetch.store
              store == [i \in DOMAIN EmptyStore(Samples[m]) |-> IF i \in DOMAIN had THEN had[i] ELSE Nothing]
              again == StartFetch(g, m, store)
          IN  vm' = [vm EXCEPT ![t] = [again EXCEPT !.on = TRUE, !.tries = @ + 1, !.build = g.build,
                                                     !.strange = FALSE]]
    /\ UNCHANGED <<run, refs, bundle, faults, kills>>

-----------------------------------------------------------------------------

Host(r) ==
    \/ Start(r) \/ RefNew(r) \/ RefBase(r) \/ CreateBundle(r) \/ DropRefs(r) \/ Clone(r) \/ Spawn(r)
    \/ WaitForAgent(r) \/ CopyBundle(r) \/ CopyManifest(r) \/ Exec(r) \/ Collect(r) \/ StopVm(r)
    \/ DeleteVm(r) \/ DropBundle(r) \/ StepFails(r) \/ Kill(r)

Guest(t) == Checkout(t) \/ Fetch(t) \/ Verify(t) \/ Build(t) \/ Scan(t) \/ VmDies(t) \/ Rerun(t)

Over == /\ \A r \in Runs : run[r].pc \in {"done", "killed"}
        /\ \A t \in Seconds : There(t) => ~vm[t].on \/ vm[t].pc \in {"idle", "ended"}
        /\ UNCHANGED vars

Next == (\E r \in Runs : Host(r)) \/ (\E t \in Seconds : Guest(t)) \/ Over

Spec == Init /\ [][Next]_vars

-----------------------------------------------------------------------------
(* Properties. *)

Between(r, first) == run[r].pc \in first \cup {"killed"}

\* LeavesNothing: a run that came to its own end without a warning, however
\* far it got, has left no VM of its own but one it was told to keep, which
\* is off until somebody starts it; no ref but what another run of the same
\* second has there; and no bundle but what another run of the same directory
\* has there, or what could not be removed, which nothing tells. It is about
\* the order in which run and make_bundle set up their guards.
LeavesNothing ==
    \A r \in Runs : run[r].pc = "done" /\ ~run[r].warned =>
       /\ \A t \in Seconds : There(t) /\ vm[t].owner = r =>
             run[r].keep /\ (vm[t].on => vm[t].tries > 0)
       /\ refs[run[r].secs] # NoRefs =>
             \E q \in Runs \ {r} : run[q].secs = run[r].secs
                 /\ (run[q].warned \/ Between(q, {"refBase", "bundle", "dropRefs"}))
       /\ bundle[run[r].out] # Nothing =>
             \E q \in Runs : run[q].out = run[r].out /\ (run[q].pc = "done" => run[q].stuck)

\* OthersVmKept: a VM is stopped or deleted by a step of the run that cloned
\* it, never by another that took its name in the same second.
OthersVmKept ==
    [][\A r \in Runs, t \in Seconds :
          There(t) /\ vm[t].owner # r /\ run'[r] # run[r] =>
             vm'[t].owner = vm[t].owner /\ vm'[t].on = vm[t].on]_vars

\* ComparesWhatItNamed: a run that ends with a verdict had the two commits it
\* named built and compared, in spite of the bundle and the refs being shared
\* by runs and both builds going through one target directory.
ComparesWhatItNamed ==
    \A r \in Runs, t \in Seconds :
       There(t) /\ vm[t].owner = r /\ vm[t].pc = "ended" /\ vm[t].exit \in {0, 2} =>
          /\ vm[t].build # Nothing /\ vm[t].ok # {} =>
                vm[t].build.navctlNew = run[r].new /\ vm[t].build.navctlBase = run[r].base
          /\ vm[t].head = run[r].new /\ vm[t].base = run[r].base

\* PassMeansKept: a comparison passes just when it scanned something with the
\* base and no sample failed verification, crashed a navctl, lost a file or
\* coverage, or, in scope, lost its detection.
PassMeansKept ==
    \A t \in Seconds : There(t) /\ vm[t].pc = "ended" =>
       /\ vm[t].exit = 0 => ~vm[t].lost /\ vm[t].ok = {s.id : s \in Range(Samples[vm[t].manifest])}
       /\ vm[t].exit = 2 /\ vm[t].ok # {} => vm[t].lost

\* StoredAreVerified: what fetch puts in the store is what the manifest says,
\* and what it reports as ok is there, however it was cut short before.
StoredAreVerified ==
    \A t \in Seconds :
       There(t) /\ vm[t].fetch # Nothing /\ Valid(Samples[vm[t].manifest]) =>
       LET f == vm[t].fetch IN
       \A s \in Range(Samples[vm[t].manifest]) :
          /\ s.id \in DOMAIN f.report /\ f.report[s.id] = "ok" => Matches(s, f.store[s.id])
          /\ s.id \in DOMAIN f.report /\ vm[t].tries = 0 /\ f.store[s.id] # Nothing => Matches(s, f.store[s.id])

Holds(s) == LET dir == Contents[s.archiveSha]
                at  == FindMember(dir, s.member)
            IN  at # Nothing /\ Matches(s, Measure(dir, at))

\* LeftoversHarmless: a fetch and compare over whatever an earlier one left
\* in the VM fails as a tool only if something outside it fails again, places
\* every sample its archive holds, and leaves no worktree.
LeftoversHarmless ==
    \A t \in Seconds :
       LET g == vm[t] IN
       There(t) /\ g.pc = "ended" /\ g.fetch # Nothing /\ Valid(Samples[g.manifest]) /\ ~Strange(g) =>
          /\ g.exit = 1 => g.base \notin g.commits
          /\ \A s \in Range(Samples[g.manifest]) : Holds(s) => g.fetch.report[s.id] = "ok"
          /\ g.ok # {} => Worktrees(g) = {}
=============================================================================
