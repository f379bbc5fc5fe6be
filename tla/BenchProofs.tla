---------------------------- MODULE BenchProofs ----------------------------
(***************************************************************************)
(* Theorems about Bench, for any runs, seconds, requests, manifests,       *)
(* archives and results, and any number of failures, kills and reruns.     *)
(***************************************************************************)
EXTENDS Bench, FiniteSetTheorems, WellFoundedInduction, TLAPS

(***************************************************************************)
(* Shapes: what is kept is records, whatever their fields hold.            *)
(***************************************************************************)
RunFields == {"pc", "secs", "out", "new", "base", "manifest", "keep", "exit", "warned", "stuck"}
VmFields == {"owner", "on", "bundle", "manifest", "new", "base", "pc", "head", "commits", "fetch",
             "build", "ok", "exit", "lost", "strange", "tries"}

Stages == {"refNew", "refBase", "bundle", "dropRefs", "clone", "log", "agent", "copyBundle",
           "copyManifest", "exec", "wait", "dropVm", "delete", "dropBundle"}

Shape ==
  /\ DOMAIN run = Runs /\ \A r \in Runs : DOMAIN run[r] = RunFields
  /\ DOMAIN refs = Seconds /\ DOMAIN bundle = OutDirs /\ DOMAIN vm = Seconds
  /\ \A t \in Seconds : DOMAIN refs[t] = {"new", "base"} /\ DOMAIN vm[t] = VmFields
  /\ \A r \in Runs : /\ run[r].pc \in Stages \cup {"start", "done", "killed"}
                     /\ run[r].pc # "start" => run[r].secs \in Seconds /\ run[r].out \in OutDirs

-----------------------------------------------------------------------------
(***************************************************************************)
(* What a run leaves: of refs, bundles and VMs.                            *)
(***************************************************************************)
\* A ref is there for a run that is at it, was killed, or warned of it.
RefInv ==
  \A t \in Seconds : refs[t] # NoRefs =>
    \E q \in Runs :
      /\ run[q].secs = t
      /\ \/ run[q].warned /\ run[q].pc # "start"
         \/ run[q].pc \in {"refBase", "bundle", "dropRefs", "killed"}

\* A bundle is there for a run that has not come to its drop, or whose drop
\* could not remove it.
BundleInv ==
  \A o \in OutDirs : bundle[o] # Nothing =>
    \E q \in Runs : /\ run[q].out = o /\ run[q].pc # "start"
                    /\ run[q].pc = "done" => run[q].stuck

\* The stages at which a run has a VM, and those at which it may have left one.
Has == {"log", "agent", "copyBundle", "copyManifest", "exec", "wait", "dropVm", "delete"}
MayLeave == {"dropBundle", "done", "killed"}

VmInv ==
  /\ \A r \in Runs : run[r].pc \in Has => vm[run[r].secs].owner = r
  /\ \A t \in Seconds : There(t) =>
       LET r == vm[t].owner IN
       /\ r \in Runs /\ run[r].secs = t
       /\ run[r].pc \in Has \cup MayLeave
       /\ vm[t].tries \in Nat
       /\ run[r].pc \in {"dropBundle", "done"} /\ ~run[r].warned =>
            run[r].keep /\ (vm[t].on => vm[t].tries > 0)

HostInv == Shape /\ RefInv /\ BundleInv /\ VmInv

-----------------------------------------------------------------------------
(***************************************************************************)
(* Lemmas.                                                                 *)
(***************************************************************************)
\* What a guest step keeps of its VM.
Keeps(g, h) ==
  DOMAIN h = VmFields /\ h.owner = g.owner /\ h.on = g.on /\ h.tries = g.tries

LEMMA EndedKeeps ==
  ASSUME NEW g, DOMAIN g = VmFields, NEW e
  PROVE  /\ Keeps(g, Ended(g, e))
         /\ Keeps(g, [Ended(g, e) EXCEPT !.strange = TRUE])
BY DEF Keeps, Ended, VmFields

LEMMA StartFetchKeeps ==
  ASSUME NEW g, DOMAIN g = VmFields, NEW m, NEW store
  PROVE  Keeps(g, StartFetch(g, m, store))
<1>. DEFINE f == NewFetch(Samples[m], Cache, store)
            h == [g EXCEPT !.pc = "fetch", !.manifest = m, !.build = Nothing, !.ok = {},
                           !.exit = Going, !.lost = FALSE, !.strange = FALSE, !.fetch = f]
            k == Ended([g EXCEPT !.manifest = m, !.build = Nothing], 1)
<1>1. Keeps(g, h)
  <2>. HIDE DEF f
  <2>. QED BY DEF Keeps, VmFields
<1>2. Keeps(g, k)
  BY DEF Keeps, VmFields, Ended
<1>. HIDE DEF h, k
<1>3. StartFetch(g, m, store) = IF Valid(Samples[m]) THEN h ELSE k
  BY DEF StartFetch, h, k
<1>. QED BY <1>1, <1>2, <1>3

\* The guest t moves to one of the states in gs.
LEMMA GuestGoesKeeps ==
  ASSUME Shape, NEW t \in Seconds, NEW gs, GuestGoes(t, gs), \A g \in gs : Keeps(vm[t], g)
  PROVE  /\ UNCHANGED <<run, refs, bundle, kills>>
         /\ DOMAIN vm' = Seconds /\ Keeps(vm[t], vm'[t])
         /\ vm'[t] \in gs
         /\ \A u \in Seconds \ {t} : vm'[u] = vm[u]
BY DEF GuestGoes, Shape

\* What any step of a guest, or by hand on its VM, does.
GuestMoves(t) ==
  /\ UNCHANGED <<run, refs, bundle>>
  /\ There(t)
  /\ DOMAIN vm' = Seconds /\ \A u \in Seconds \ {t} : vm'[u] = vm[u]
  /\ DOMAIN vm'[t] = VmFields /\ vm'[t].owner = vm[t].owner
  /\ \/ vm'[t].tries = vm[t].tries /\ (vm'[t].on => vm[t].on)
     \/ vm'[t].tries = vm[t].tries + 1

LEMMA GuestStep ==
  ASSUME Shape, NEW t \in Seconds, Guest(t)
  PROVE  GuestMoves(t)
<1>. DEFINE g == vm[t]
<1>0. DOMAIN g = VmFields
  BY DEF Shape
<1>1. ASSUME NEW gs, GuestGoes(t, gs), \A h \in gs : Keeps(g, h), There(t) PROVE GuestMoves(t)
  BY <1>1, GuestGoesKeeps DEF GuestMoves, Keeps
<1>2. CASE Checkout(t)
  <2>. DEFINE there == [g EXCEPT !.commits = {g.bundle.new, g.bundle.base}, !.head = g.new]
              h1 == Ended(g, 1)
              h2 == StartFetch(there, g.manifest, EmptyStore(Samples[g.manifest]))
              h3 == [Ended(g, 1) EXCEPT !.strange = TRUE]
              gs == IF g.new \notin there.commits THEN {h1} ELSE {h2, h3}
  <2>1. Keeps(g, there)
    BY <1>0 DEF Keeps, VmFields
  <2>2. Keeps(g, h1) /\ Keeps(g, h3)
    BY <1>0, EndedKeeps
  <2>3. Keeps(g, h2)
    <3>. HIDE DEF there
    <3>1. DOMAIN there = VmFields
      BY <2>1 DEF Keeps
    <3>2. Keeps(there, h2)
      BY <3>1, StartFetchKeeps
    <3>. QED BY <2>1, <3>2 DEF Keeps
  <2>4. GuestGoes(t, gs) /\ There(t)
    BY <1>2 DEF Checkout, GuestAt
  <2>5. \A h \in gs : h \in {h1, h2, h3}
    <3>. HIDE DEF h1, h2, h3
    <3>. QED OBVIOUS
  <2>. HIDE DEF h1, h2, h3, gs
  <2>. QED BY <1>1, <2>2, <2>3, <2>4, <2>5
<1>3. CASE Fetch(t)
  <2>. DEFINE F == FetchSteps(g.fetch, Samples[g.manifest])
              gs == IF g.fetch.pc \notin {"done", "tool"}
                    THEN {[g EXCEPT !.fetch = f] : f \in F}
                    ELSE IF FetchExit(g.fetch) = 1 THEN {Ended(g, 1)}
                    ELSE {[g EXCEPT !.pc = "verify"]}
  <2>1. \A h \in gs : Keeps(g, h)
    <3>. HIDE DEF F
    <3>1. \A f \in F : Keeps(g, [g EXCEPT !.fetch = f])
      BY <1>0 DEF Keeps, VmFields
    <3>2. Keeps(g, Ended(g, 1)) /\ Keeps(g, [g EXCEPT !.pc = "verify"])
      BY <1>0, EndedKeeps DEF Keeps, VmFields
    <3>. QED BY <3>1, <3>2
  <2>2. GuestGoes(t, gs) /\ There(t)
    BY <1>3 DEF Fetch, GuestAt
  <2>. HIDE DEF gs
  <2>. QED BY <1>1, <2>1, <2>2
<1>4. CASE Verify(t)
  <2>. DEFINE ok == Verified(Samples[g.manifest], g.fetch.store)
              b == NewBuild(g.head, g.base, g.commits, "out", {"dated"}, Worktrees(g))
              gs == IF ok = {} THEN {Ended(g, 2)}
                    ELSE {[g EXCEPT !.pc = "build", !.ok = ok, !.build = b]}
  <2>1. \A h \in gs : Keeps(g, h)
    <3>. DEFINE h1 == Ended(g, 2)
                h2 == [g EXCEPT !.pc = "build", !.ok = ok, !.build = b]
    <3>1. Keeps(g, h1)
      BY <1>0, EndedKeeps
    <3>2. Keeps(g, h2)
      <4>. HIDE DEF ok, b
      <4>. QED BY <1>0 DEF Keeps, VmFields
    <3>3. gs = IF ok = {} THEN {h1} ELSE {h2}
      OBVIOUS
    <3>. HIDE DEF gs, h1, h2, ok, b
    <3>. QED BY <3>1, <3>2, <3>3
  <2>2. GuestGoes(t, gs) /\ There(t)
    BY <1>4 DEF Verify, GuestAt
  <2>. HIDE DEF gs
  <2>. QED BY <1>1, <2>1, <2>2
<1>5. CASE Build(t)
  <2>. DEFINE B == BuildSteps(g.build)
              gs == IF g.build.pc \notin {"built", "error"}
                    THEN {[g EXCEPT !.build = b] : b \in B}
                    ELSE IF g.build.pc = "error" THEN {Ended(g, 1)}
                    ELSE {[g EXCEPT !.pc = "scan"]}
  <2>1. \A h \in gs : Keeps(g, h)
    <3>. HIDE DEF B
    <3>1. \A b \in B : Keeps(g, [g EXCEPT !.build = b])
      BY <1>0 DEF Keeps, VmFields
    <3>2. Keeps(g, Ended(g, 1)) /\ Keeps(g, [g EXCEPT !.pc = "scan"])
      BY <1>0, EndedKeeps DEF Keeps, VmFields
    <3>. QED BY <3>1, <3>2
  <2>2. GuestGoes(t, gs) /\ There(t)
    BY <1>5 DEF Build, GuestAt
  <2>. HIDE DEF gs
  <2>. QED BY <1>1, <2>1, <2>2
<1>6. CASE Scan(t)
  <2>. DEFINE V == {w \in Verdicts : w.manifest = g.manifest /\ w.ok = g.ok}
              gs == {[Ended(g, v.verdict.exit) EXCEPT !.lost = v.verdict.lost] : v \in V}
                    \cup {[Ended(g, 1) EXCEPT !.strange = TRUE]}
  <2>1. \A h \in gs : Keeps(g, h)
    <3>. HIDE DEF V
    <3>1. \A v \in V : Keeps(g, [Ended(g, v.verdict.exit) EXCEPT !.lost = v.verdict.lost])
      BY <1>0 DEF Keeps, VmFields, Ended
    <3>. QED BY <1>0, <3>1, EndedKeeps
  <2>2. GuestGoes(t, gs) /\ There(t)
    BY <1>6 DEF Scan, GuestAt
  <2>. HIDE DEF gs
  <2>. QED BY <1>1, <2>1, <2>2
<1>7. CASE VmDies(t)
  BY <1>0, <1>7 DEF VmDies, GuestMoves, VmFields, Shape
<1>8. CASE Rerun(t)
  <2>. DEFINE had == g.fetch.store
              Store(m) == [i \in DOMAIN EmptyStore(Samples[m]) |->
                             IF i \in DOMAIN had THEN had[i] ELSE Nothing]
  <2>1. PICK m \in Manifests :
          LET again == StartFetch(g, m, Store(m))
          IN  vm' = [vm EXCEPT ![t] = [again EXCEPT !.on = TRUE, !.tries = @ + 1, !.build = g.build,
                                                     !.strange = FALSE]]
    BY <1>8 DEF Rerun
  <2>. DEFINE again == StartFetch(g, m, Store(m))
  <2>2. Keeps(g, again)
    BY <1>0, StartFetchKeeps
  <2>3. vm' = [vm EXCEPT ![t] = [again EXCEPT !.on = TRUE, !.tries = @ + 1, !.build = g.build,
                                              !.strange = FALSE]]
    BY <2>1
  <2>. HIDE DEF again
  <2>4. There(t) /\ UNCHANGED <<run, refs, bundle>>
    BY <1>8 DEF Rerun
  <2>. QED BY <2>2, <2>3, <2>4 DEF GuestMoves, Keeps, VmFields, Shape
<1>. QED
  BY <1>2, <1>3, <1>4, <1>5, <1>6, <1>7, <1>8 DEF Guest

LEMMA HostStep ==
  ASSUME HostInv, NEW r \in Runs, Host(r)
  PROVE  HostInv'
<1>. USE DEF HostInv, Stages, GoTo, Bail, AfterFailure, Fault, NoRefs
<1>1. CASE Start(r)
  <2>1. Shape'
    BY <1>1 DEF Shape, Start, Answers, There, RunFields, VmFields, OutDirs, NewVm
  <2>2. RefInv'
    BY <1>1 DEF RefInv, Start, Shape, RunFields
  <2>3. BundleInv'
    BY <1>1 DEF BundleInv, Start, Shape, RunFields
  <2>4. VmInv'
    BY <1>1 DEF VmInv, Start, Shape, RunFields, VmFields, Answers, There, Has, MayLeave, NewVm
  <2>. QED BY <2>1, <2>2, <2>3, <2>4
<1>2. CASE RefNew(r)
  <2>1. Shape'
    BY <1>2 DEF Shape, RefNew, Answers, There, RunFields, VmFields, OutDirs, NewVm
  <2>2. RefInv'
    BY <1>2 DEF RefInv, RefNew, Shape, RunFields
  <2>3. BundleInv'
    BY <1>2 DEF BundleInv, RefNew, Shape, RunFields
  <2>4. VmInv'
    BY <1>2 DEF VmInv, RefNew, Shape, RunFields, VmFields, Answers, There, Has, MayLeave, NewVm
  <2>. QED BY <2>1, <2>2, <2>3, <2>4
<1>3. CASE RefBase(r)
  <2>1. Shape'
    BY <1>3 DEF Shape, RefBase, Answers, There, RunFields, VmFields, OutDirs, NewVm
  <2>2. RefInv'
    BY <1>3 DEF RefInv, RefBase, Shape, RunFields
  <2>3. BundleInv'
    BY <1>3 DEF BundleInv, RefBase, Shape, RunFields
  <2>4. VmInv'
    BY <1>3 DEF VmInv, RefBase, Shape, RunFields, VmFields, Answers, There, Has, MayLeave, NewVm
  <2>. QED BY <2>1, <2>2, <2>3, <2>4
<1>4. CASE CreateBundle(r)
  <2>1. Shape'
    BY <1>4 DEF Shape, CreateBundle, Answers, There, RunFields, VmFields, OutDirs, NewVm
  <2>2. RefInv'
    BY <1>4 DEF RefInv, CreateBundle, Shape, RunFields
  <2>3. BundleInv'
    BY <1>4 DEF BundleInv, CreateBundle, Shape, RunFields
  <2>4. VmInv'
    BY <1>4 DEF VmInv, CreateBundle, Shape, RunFields, VmFields, Answers, There, Has, MayLeave, NewVm
  <2>. QED BY <2>1, <2>2, <2>3, <2>4
<1>5. CASE DropRefs(r)
  <2>1. Shape'
    BY <1>5 DEF Shape, DropRefs, Answers, There, RunFields, VmFields, OutDirs, NewVm
  <2>2. RefInv'
    BY <1>5 DEF RefInv, DropRefs, Shape, RunFields
  <2>3. BundleInv'
    BY <1>5 DEF BundleInv, DropRefs, Shape, RunFields
  <2>4. VmInv'
    BY <1>5 DEF VmInv, DropRefs, Shape, RunFields, VmFields, Answers, There, Has, MayLeave, NewVm
  <2>. QED BY <2>1, <2>2, <2>3, <2>4
<1>6. CASE Clone(r)
  <2>. DEFINE t == run[r].secs
  <2>1. t \in Seconds /\ run[r].pc = "clone" /\ UNCHANGED <<refs, bundle>>
    BY <1>6 DEF Clone, Shape
  <2>2. CASE There(t)
    <3>1. UNCHANGED vm /\ run' = [run EXCEPT ![r].pc = "dropBundle", ![r].exit = 1]
      BY <1>6, <2>1, <2>2 DEF Clone
    <3>2. vm[t].owner # r
      BY <2>1, <2>2 DEF VmInv, Has, MayLeave
    <3>. QED BY <2>1, <3>1, <3>2
             DEF Shape, RefInv, BundleInv, VmInv, RunFields, OutDirs, There, Has, MayLeave
  <2>3. CASE ~There(t)
    <3>1. /\ run' = [run EXCEPT ![r].pc = "log"]
          /\ vm' = [vm EXCEPT ![t] = NewVm(r)]
      BY <1>6, <2>3 DEF Clone
    <3>2. /\ DOMAIN vm' = Seconds /\ \A u \in Seconds \ {t} : vm'[u] = vm[u]
          /\ DOMAIN vm'[t] = VmFields /\ vm'[t].owner = r /\ vm'[t].tries = 0
      BY <2>1, <3>1 DEF Shape, NewVm, VmFields
    <3>3. Shape' /\ RefInv' /\ BundleInv'
      BY <2>1, <3>1, <3>2 DEF Shape, RefInv, BundleInv, RunFields, OutDirs
    <3>4. \A q \in Runs : run[q].pc \in Has => run[q].secs # t
      BY <2>3, BoundsAssumption DEF VmInv, There
    <3>5. /\ \A q \in Runs \ {r} : run'[q] = run[q]
          /\ run'[r].secs = t /\ run'[r].pc = "log"
      BY <3>1 DEF Shape, RunFields
    <3>6. \A u \in Seconds : There(u) => vm[u].owner # r
      BY <2>1 DEF VmInv, Has, MayLeave
    <3>. HIDE DEF t
    <3>7. \A q \in Runs : run'[q].pc \in Has => vm'[run'[q].secs].owner = q
      <4>1. \A q \in Runs \ {r} : run[q].pc \in Has => run[q].secs \in Seconds \ {t}
        BY <3>4 DEF Shape, Has
      <4>. QED BY <3>2, <3>5, <4>1 DEF VmInv
    <3>8. VmInv'
      <4>1. ASSUME NEW u \in Seconds \ {t}, There(u) PROVE run'[vm[u].owner] = run[vm[u].owner]
        BY <3>5, <3>6, <4>1 DEF VmInv
      <4>. QED BY <2>1, <3>2, <3>5, <3>7, <4>1 DEF VmInv, There, Has
    <3>. QED BY <3>3, <3>8
  <2>. QED BY <2>2, <2>3
<1>7. CASE Spawn(r)
  <2>. DEFINE t == run[r].secs
  <2>0. /\ t \in Seconds /\ run[r].pc = "log" /\ run' = [run EXCEPT ![r].pc = "agent"]
        /\ vm' = [vm EXCEPT ![t].on = TRUE] /\ vm[t].owner = r /\ UNCHANGED <<refs, bundle>>
    BY <1>7 DEF Spawn, Shape, VmInv, Has
  <2>1. Shape'
    BY <2>0 DEF Shape, RunFields, VmFields, OutDirs
  <2>2. RefInv' /\ BundleInv'
    BY <2>0 DEF RefInv, BundleInv, Shape, RunFields
  <2>3. \A u \in Seconds : vm'[u].owner = vm[u].owner /\ vm'[u].tries = vm[u].tries
    BY <2>0 DEF Shape, VmFields
  <2>4. \A u \in Seconds : u # t => vm'[u] = vm[u]
    BY <2>0 DEF Shape
  <2>5. /\ \A q \in Runs \ {r} : run'[q] = run[q]
        /\ run'[r].secs = t /\ run'[r].pc = "agent"
    BY <2>0 DEF Shape, RunFields
  <2>. HIDE DEF t
  <2>6. VmInv'
    BY <2>0, <2>3, <2>4, <2>5 DEF VmInv, There, Has, MayLeave
  <2>. QED BY <2>1, <2>2, <2>6
<1>8. CASE WaitForAgent(r)
  <2>1. Shape'
    BY <1>8 DEF Shape, WaitForAgent, Answers, There, RunFields, VmFields, OutDirs, NewVm
  <2>2. RefInv'
    BY <1>8 DEF RefInv, WaitForAgent, Shape, RunFields
  <2>3. BundleInv'
    BY <1>8 DEF BundleInv, WaitForAgent, Shape, RunFields
  <2>4. VmInv'
    BY <1>8 DEF VmInv, WaitForAgent, Shape, RunFields, VmFields, Answers, There, Has, MayLeave, NewVm
  <2>. QED BY <2>1, <2>2, <2>3, <2>4
<1>9. CASE CopyBundle(r)
  <2>1. Shape'
    BY <1>9 DEF Shape, CopyBundle, Answers, There, RunFields, VmFields, OutDirs, NewVm
  <2>2. RefInv'
    BY <1>9 DEF RefInv, CopyBundle, Shape, RunFields
  <2>3. BundleInv'
    BY <1>9 DEF BundleInv, CopyBundle, Shape, RunFields
  <2>4. VmInv'
    BY <1>9 DEF VmInv, CopyBundle, Shape, RunFields, VmFields, Answers, There, Has, MayLeave, NewVm
  <2>. QED BY <2>1, <2>2, <2>3, <2>4
<1>10. CASE CopyManifest(r)
  <2>1. Shape'
    BY <1>10 DEF Shape, CopyManifest, Answers, There, RunFields, VmFields, OutDirs, NewVm
  <2>2. RefInv'
    BY <1>10 DEF RefInv, CopyManifest, Shape, RunFields
  <2>3. BundleInv'
    BY <1>10 DEF BundleInv, CopyManifest, Shape, RunFields
  <2>4. VmInv'
    BY <1>10 DEF VmInv, CopyManifest, Shape, RunFields, VmFields, Answers, There, Has, MayLeave, NewVm
  <2>. QED BY <2>1, <2>2, <2>3, <2>4
<1>11. CASE Exec(r)
  <2>. DEFINE t == run[r].secs
              g == vm[t]
              h == [g EXCEPT !.pc = "checkout", !.new = run[r].new, !.base = run[r].base]
  <2>1. t \in Seconds /\ DOMAIN g = VmFields /\ run[r].pc = "exec" /\ UNCHANGED <<refs, bundle>>
    BY <1>11 DEF Exec, Shape
  <2>2. Keeps(g, h)
    BY <2>1 DEF Keeps, VmFields
  <2>3. \/ vm' = [vm EXCEPT ![t] = h] /\ run' = [run EXCEPT ![r].pc = "wait"]
        \/ UNCHANGED vm /\ run' = [run EXCEPT ![r].pc = "dropVm", ![r].exit = 1]
    BY <1>11 DEF Exec
  <2>. HIDE DEF h
  <2>4. Shape'
    BY <2>1, <2>2, <2>3 DEF Shape, Keeps, RunFields, OutDirs
  <2>5. RefInv' /\ BundleInv'
    BY <2>1, <2>3 DEF RefInv, BundleInv, Shape, RunFields
  <2>6. \A u \in Seconds : /\ vm'[u].owner = vm[u].owner /\ vm'[u].tries = vm[u].tries
                            /\ vm'[u].on = vm[u].on
    BY <2>1, <2>2, <2>3 DEF Shape, Keeps
  <2>7. /\ DOMAIN run' = Runs /\ \A q \in Runs \ {r} : run'[q] = run[q]
        /\ run'[r].secs = run[r].secs /\ run'[r].pc \in {"wait", "dropVm"}
    BY <2>3 DEF Shape, RunFields
  <2>8. VmInv'
    BY <2>1, <2>6, <2>7 DEF VmInv, Shape, There, Has, MayLeave
  <2>. QED BY <2>4, <2>5, <2>8
<1>12. CASE Collect(r)
  <2>1. Shape'
    BY <1>12 DEF Shape, Collect, Answers, There, RunFields, VmFields, OutDirs, NewVm
  <2>2. RefInv'
    BY <1>12 DEF RefInv, Collect, Shape, RunFields
  <2>3. BundleInv'
    BY <1>12 DEF BundleInv, Collect, Shape, RunFields
  <2>4. VmInv'
    BY <1>12 DEF VmInv, Collect, Shape, RunFields, VmFields, Answers, There, Has, MayLeave, NewVm
  <2>. QED BY <2>1, <2>2, <2>3, <2>4
<1>13. CASE StopVm(r)
  <2>. DEFINE t == run[r].secs
              next == IF run[r].keep THEN "dropBundle" ELSE "delete"
  <2>0. /\ t \in Seconds /\ run[r].pc = "dropVm" /\ run' = [run EXCEPT ![r].pc = next]
        /\ vm' = [vm EXCEPT ![t].on = FALSE] /\ vm[t].owner = r /\ UNCHANGED <<refs, bundle>>
    BY <1>13 DEF StopVm, Shape, VmInv, Has
  <2>1. Shape'
    BY <2>0 DEF Shape, RunFields, VmFields, OutDirs
  <2>2. RefInv' /\ BundleInv'
    BY <2>0 DEF RefInv, BundleInv, Shape, RunFields
  <2>3. \A u \in Seconds : vm'[u].owner = vm[u].owner /\ vm'[u].tries = vm[u].tries
    BY <2>0 DEF Shape, VmFields
  <2>4. \A u \in Seconds : u # t => vm'[u] = vm[u]
    BY <2>0 DEF Shape
  <2>5. vm'[t].on = FALSE
    BY <2>0 DEF Shape, VmFields
  <2>6. /\ DOMAIN run' = Runs /\ \A q \in Runs \ {r} : run'[q] = run[q]
        /\ run'[r].secs = t /\ run'[r].pc = next /\ run'[r].keep = run[r].keep
        /\ run'[r].warned = run[r].warned
    BY <2>0 DEF Shape, RunFields
  <2>7. (next = "dropBundle" /\ run[r].keep) \/ next = "delete"
    OBVIOUS
  <2>. HIDE DEF t, next
  <2>8. \A q \in Runs : run'[q].pc \in Has => run[q].pc \in Has
    BY <2>0, <2>6 DEF Has
  <2>9. VmInv'
    BY <2>0, <2>3, <2>4, <2>5, <2>6, <2>7, <2>8 DEF VmInv, There, Has, MayLeave
  <2>. QED BY <2>1, <2>2, <2>9
<1>14. CASE DeleteVm(r)
  <2>1. Shape'
    BY <1>14 DEF Shape, DeleteVm, Answers, There, RunFields, VmFields, OutDirs, NewVm
  <2>2. RefInv'
    BY <1>14 DEF RefInv, DeleteVm, Shape, RunFields
  <2>3. BundleInv'
    BY <1>14 DEF BundleInv, DeleteVm, Shape, RunFields
  <2>4. VmInv'
    BY <1>14 DEF VmInv, DeleteVm, Shape, RunFields, VmFields, Answers, There, Has, MayLeave, NewVm
  <2>. QED BY <2>1, <2>2, <2>3, <2>4
<1>15. CASE DropBundle(r)
  <2>1. Shape'
    BY <1>15 DEF Shape, DropBundle, Answers, There, RunFields, VmFields, OutDirs, NewVm
  <2>2. RefInv'
    BY <1>15 DEF RefInv, DropBundle, Shape, RunFields
  <2>3. BundleInv'
    BY <1>15 DEF BundleInv, DropBundle, Shape, RunFields
  <2>4. VmInv'
    BY <1>15 DEF VmInv, DropBundle, Shape, RunFields, VmFields, Answers, There, Has, MayLeave, NewVm
  <2>. QED BY <2>1, <2>2, <2>3, <2>4
<1>16. CASE StepFails(r)
  <2>1. Shape'
    BY <1>16 DEF Shape, StepFails, Answers, There, RunFields, VmFields, OutDirs, NewVm
  <2>2. RefInv'
    BY <1>16 DEF RefInv, StepFails, Shape, RunFields
  <2>3. BundleInv'
    BY <1>16 DEF BundleInv, StepFails, Shape, RunFields
  <2>4. VmInv'
    BY <1>16 DEF VmInv, StepFails, Shape, RunFields, VmFields, Answers, There, Has, MayLeave, NewVm
  <2>. QED BY <2>1, <2>2, <2>3, <2>4
<1>17. CASE Kill(r)
  <2>1. Shape'
    BY <1>17 DEF Shape, Kill, Answers, There, RunFields, VmFields, OutDirs, NewVm
  <2>2. RefInv'
    BY <1>17 DEF RefInv, Kill, Shape, RunFields
  <2>3. BundleInv'
    BY <1>17 DEF BundleInv, Kill, Shape, RunFields
  <2>4. VmInv'
    BY <1>17 DEF VmInv, Kill, Shape, RunFields, VmFields, Answers, There, Has, MayLeave, NewVm
  <2>. QED BY <2>1, <2>2, <2>3, <2>4
<1>. QED BY <1>1, <1>2, <1>3, <1>4, <1>5, <1>6, <1>7, <1>8, <1>9, <1>10, <1>11, <1>12, <1>13, <1>14, <1>15, <1>16, <1>17 DEF Host

LEMMA GuestStepInv ==
  ASSUME HostInv, NEW t \in Seconds, GuestMoves(t)
  PROVE  HostInv'
<1>1. Shape' /\ RefInv' /\ BundleInv'
  BY DEF HostInv, Shape, RefInv, BundleInv, GuestMoves
<1>2. \A u \in Seconds : vm'[u].owner = vm[u].owner
  BY DEF GuestMoves
<1>3. \A u \in Seconds : There(u) =>
         /\ vm'[u].tries \in Nat
         /\ vm'[u].tries > 0 \/ ((vm'[u].on => vm[u].on) /\ vm'[u].tries = vm[u].tries)
  <2>. SUFFICES ASSUME NEW u \in Seconds, There(u)
                PROVE  /\ vm'[u].tries \in Nat
                       /\ \/ vm'[u].tries > 0
                          \/ (vm'[u].on => vm[u].on) /\ vm'[u].tries = vm[u].tries
    OBVIOUS
  <2>1. vm[u].tries \in Nat
    BY DEF HostInv, VmInv
  <2>2. CASE u # t
    BY <2>1, <2>2 DEF GuestMoves
  <2>3. CASE u = t
    <3>1. CASE vm'[t].tries = vm[t].tries + 1
      <4>1. vm'[u].tries \in Nat /\ vm'[u].tries > 0
        BY <2>1, <2>3, <3>1
      <4>. QED BY <4>1, Zenon
    <3>2. CASE vm'[t].tries = vm[t].tries /\ (vm'[t].on => vm[t].on)
      <4>1. vm'[u].tries = vm[u].tries /\ (vm'[u].on => vm[u].on)
        BY <2>3, <3>2, Zenon
      <4>2. vm'[u].tries \in Nat
        BY <2>1, <2>3, <3>2
      <4>. QED BY <4>1, <4>2, Zenon
    <3>. QED BY <3>1, <3>2 DEF GuestMoves
  <2>. QED BY <2>2, <2>3
<1>4. VmInv'
  <2>1. \A q \in Runs : run[q].pc \in Has => run[q].secs \in Seconds
    BY DEF HostInv, Shape, Has
  <2>. QED BY <1>2, <1>3, <2>1 DEF HostInv, VmInv, There, GuestMoves
<1>. QED BY <1>1, <1>4 DEF HostInv

(***************************************************************************)
(* The invariant the host's properties rest on.                            *)
(***************************************************************************)
LEMMA HostInvariant == Spec => []HostInv
<1>1. Init => HostInv
  BY DEF Init, HostInv, Shape, RefInv, BundleInv, VmInv, RunFields, VmFields, NewVm, NoRefs, There, Has
<1>2. HostInv /\ [Next]_vars => HostInv'
  <2>. SUFFICES ASSUME HostInv, [Next]_vars PROVE HostInv'
    OBVIOUS
  <2>1. CASE \E r \in Runs : Host(r)
    BY <2>1, HostStep
  <2>2. CASE \E t \in Seconds : Guest(t)
    BY <2>2, GuestStep, GuestStepInv DEF HostInv
  <2>3. CASE UNCHANGED vars
    BY <2>3 DEF vars, HostInv, Shape, RefInv, BundleInv, VmInv, There
  <2>. QED BY <2>1, <2>2, <2>3 DEF Next, Over
<1>. QED BY <1>1, <1>2, PTL DEF Spec

(***************************************************************************)
(* A run that came to its own end without a warning has left no VM of its  *)
(* own but one it was told to keep, and no ref and no bundle but what      *)
(* another run has there or what could not be removed: the order in which  *)
(* vm.rs sets up its guards leaves no gap, wherever a command fails and    *)
(* whatever other runs do.                                                 *)
(***************************************************************************)
THEOREM NothingLeft == Spec => []LeavesNothing
<1>1. HostInv => LeavesNothing
  <2>. SUFFICES ASSUME HostInv, NEW r \in Runs, run[r].pc = "done", ~run[r].warned
                PROVE  /\ \A t \in Seconds : There(t) /\ vm[t].owner = r =>
                             run[r].keep /\ (vm[t].on => vm[t].tries > 0)
                       /\ refs[run[r].secs] # NoRefs =>
                             \E q \in Runs \ {r} : run[q].secs = run[r].secs
                                 /\ (run[q].warned \/ Between(q, {"refBase", "bundle", "dropRefs"}))
                       /\ bundle[run[r].out] # Nothing =>
                             \E q \in Runs : run[q].out = run[r].out /\ (run[q].pc = "done" => run[q].stuck)
    BY DEF LeavesNothing
  <2>1. run[r].secs \in Seconds /\ run[r].out \in OutDirs
    BY DEF HostInv, Shape
  <2>2. \A t \in Seconds : There(t) /\ vm[t].owner = r =>
          run[r].keep /\ (vm[t].on => vm[t].tries > 0)
    BY DEF HostInv, VmInv
  <2>3. refs[run[r].secs] # NoRefs =>
          \E q \in Runs \ {r} : run[q].secs = run[r].secs
              /\ (run[q].warned \/ Between(q, {"refBase", "bundle", "dropRefs"}))
    BY <2>1 DEF HostInv, RefInv, Between
  <2>4. bundle[run[r].out] # Nothing =>
          \E q \in Runs : run[q].out = run[r].out /\ (run[q].pc = "done" => run[q].stuck)
    BY <2>1 DEF HostInv, BundleInv
  <2>. QED BY <2>2, <2>3, <2>4
<1>. QED BY <1>1, HostInvariant, PTL

\* A step of the run r moves no other run, and no VM another run cloned.
LEMMA HostOnlyOwn ==
  ASSUME HostInv, NEW r \in Runs, Host(r)
  PROVE  /\ \A q \in Runs \ {r} : run'[q] = run[q]
         /\ \A t \in Seconds : There(t) /\ vm[t].owner # r => vm'[t] = vm[t]
<1>1. DOMAIN run = Runs /\ DOMAIN vm = Seconds
  BY DEF HostInv, Shape
<1>2. \A t \in Seconds : vm[t].owner # r /\ run[r].pc \in Has => run[r].secs # t
  BY DEF HostInv, VmInv
<1>. USE DEF GoTo, Bail
<1>3. CASE Start(r)
  BY <1>1, <1>2, <1>3 DEF Start, Has
<1>4. CASE RefNew(r)
  BY <1>1, <1>2, <1>4 DEF RefNew, Has
<1>5. CASE RefBase(r)
  BY <1>1, <1>2, <1>5 DEF RefBase, Has
<1>6. CASE CreateBundle(r)
  BY <1>1, <1>2, <1>6 DEF CreateBundle, Has
<1>7. CASE DropRefs(r)
  BY <1>1, <1>2, <1>7 DEF DropRefs, Has
<1>8. CASE Clone(r)
  BY <1>1, <1>2, <1>8 DEF Clone, Has, There
<1>9. CASE Spawn(r)
  BY <1>1, <1>2, <1>9 DEF Spawn, Has
<1>10. CASE WaitForAgent(r)
  BY <1>1, <1>2, <1>10 DEF WaitForAgent, Has
<1>11. CASE CopyBundle(r)
  BY <1>1, <1>2, <1>11 DEF CopyBundle, Has
<1>12. CASE CopyManifest(r)
  BY <1>1, <1>2, <1>12 DEF CopyManifest, Has
<1>13. CASE Exec(r)
  BY <1>1, <1>2, <1>13 DEF Exec, Has
<1>14. CASE Collect(r)
  BY <1>1, <1>2, <1>14 DEF Collect, Has
<1>15. CASE StopVm(r)
  BY <1>1, <1>2, <1>15 DEF StopVm, Has
<1>16. CASE DeleteVm(r)
  BY <1>1, <1>2, <1>16 DEF DeleteVm, Has
<1>17. CASE DropBundle(r)
  BY <1>1, <1>2, <1>17 DEF DropBundle, Has
<1>18. CASE StepFails(r)
  BY <1>1, <1>2, <1>18 DEF StepFails, Has
<1>19. CASE Kill(r)
  BY <1>1, <1>2, <1>19 DEF Kill, Has, There
<1>. QED BY <1>3, <1>4, <1>5, <1>6, <1>7, <1>8, <1>9, <1>10, <1>11, <1>12, <1>13, <1>14, <1>15, <1>16, <1>17, <1>18, <1>19 DEF Host

(***************************************************************************)
(* A VM is stopped or deleted by a step of the run that cloned it, never   *)
(* by another that took its name in the same second (VmGuard is there only *)
(* once tart clone has succeeded).                                         *)
(***************************************************************************)
THEOREM VmsKept == Spec => OthersVmKept
<1>. DEFINE Kept == \A r \in Runs, t \in Seconds :
                      There(t) /\ vm[t].owner # r /\ run'[r] # run[r] =>
                         vm'[t].owner = vm[t].owner /\ vm'[t].on = vm[t].on
<1>1. HostInv /\ [Next]_vars => [Kept]_vars
  <2>. SUFFICES ASSUME HostInv, Next, NEW r \in Runs, NEW t \in Seconds,
                       There(t), vm[t].owner # r, run'[r] # run[r]
                PROVE  vm'[t] = vm[t]
    BY DEF vars
  <2>1. ASSUME NEW q \in Runs, Host(q) PROVE vm'[t] = vm[t]
    <3>1. CASE q = r
      BY <2>1, <3>1, HostOnlyOwn
    <3>2. CASE q # r
      <4>1. run'[r] = run[r]
        BY <2>1, <3>2, HostOnlyOwn
      <4>. QED BY <4>1
    <3>. QED BY <3>1, <3>2
  <2>2. ASSUME NEW u \in Seconds, Guest(u) PROVE FALSE
    BY <2>2, GuestStep DEF HostInv, GuestMoves
  <2>. QED BY <2>1, <2>2 DEF Next, Over, vars
<1>2. Spec => [][Kept]_vars
  BY <1>1, HostInvariant, PTL DEF Spec
<1>. QED BY <1>2 DEF OthersVmKept

-----------------------------------------------------------------------------
(***************************************************************************)
(* What a VM's guest has done: it has the two commits its run named, and   *)
(* its fetch is at the manifest it names.                                  *)
(***************************************************************************)
BuildFields == {"pc", "head", "base", "commits", "dir", "root", "worktrees", "bin", "navctlNew",
                "navctlBase", "fate", "strange"}

\* A build of new and base: whose build stands where, at each step.
BuildOf(b, new, base) ==
  /\ DOMAIN b = BuildFields
  /\ b.pc \in {"new", "copyNew", "stale", "add", "base", "copyBase", "remove", "built", "error"}
  /\ b.fate \in {"built", "error"}
  /\ b.head = new /\ b.base = base
  /\ b.pc = "copyNew" => b.bin = new
  /\ b.pc \in {"stale", "add", "base", "copyBase", "remove", "built"} => b.navctlNew = new
  /\ b.pc = "copyBase" => b.bin = base
  /\ b.pc = "built" \/ (b.pc = "remove" /\ b.fate = "built") => b.navctlBase = base

FetchFields == {"pc", "todo", "group", "cache", "tmp", "download", "store", "strange", "report"}

IdsOf(samples) == {s.id : s \in Range(samples)}

\* A fetch of the samples, in a VM that is used the first time or not.
FetchOf(f, samples, first) ==
  /\ DOMAIN f = FetchFields /\ DOMAIN f.report = IdsOf(samples) /\ DOMAIN f.store = IdsOf(samples)
  /\ f.pc \in {"group", "locate", "extract", "place", "swap", "done", "tool"}
  /\ f.group \subseteq DOMAIN samples /\ f.todo \subseteq Archives(samples)
  /\ f.pc = "group" => f.group = {}
  /\ \A i \in f.group : samples[i].archive \notin f.todo
  /\ \A i \in DOMAIN samples :
       i \in f.group \/ samples[i].archive \in f.todo => f.report[samples[i].id] = "none"
  /\ f.pc = "swap" => /\ f.group # {}
                      /\ LET s == samples[First(f)]
                             at == FindMember(f.tmp, s.member)
                         IN  at # Nothing /\ Matches(s, Measure(f.tmp, at))
  /\ \A i \in DOMAIN samples :
       LET s == samples[i] IN
       /\ f.report[s.id] = "ok" => Matches(s, f.store[s.id])
       /\ first /\ f.store[s.id] # Nothing => Matches(s, f.store[s.id])

Early == {"log", "agent", "copyBundle", "copyManifest", "exec"}

\* The guest's side of a VM whose run named new and base.
GuestOf(g, new, base) ==
  /\ g.manifest \in Manifests
  /\ g.pc \in {"idle", "checkout", "fetch", "verify", "build", "scan", "ended"}
  /\ g.pc \in {"idle", "checkout"} => g.fetch = Nothing
  /\ g.pc # "idle" => g.new = new /\ g.base = base
  /\ g.fetch # Nothing \/ g.pc \in {"fetch", "verify", "build", "scan"} => g.head = new
  /\ g.pc \in {"fetch", "verify"} => g.ok = {}
  /\ g.pc \in {"build", "scan"} => BuildOf(g.build, new, base)
  /\ g.pc = "scan" => g.build.pc = "built"
  /\ g.pc = "ended" /\ g.exit # 1 =>
       /\ g.head = new
       /\ g.ok # {} => g.build.navctlNew = new /\ g.build.navctlBase = base

GuestInv ==
  /\ \A r \in Runs : run[r].manifest \in Manifests
  /\ \A t \in Seconds : There(t) =>
       LET r == run[vm[t].owner]
       IN  /\ r.pc \in Early => vm[t].pc = "idle"
           /\ GuestOf(vm[t], r.new, r.base)

FetchInv ==
  \A t \in Seconds :
    /\ There(t)
    /\ vm[t].fetch # Nothing \/ vm[t].pc = "fetch"
    /\ Valid(Samples[vm[t].manifest])
    => FetchOf(vm[t].fetch, Samples[vm[t].manifest], vm[t].tries = 0)

\* What a host step leaves of a guest: all but whether it is on, what has been
\* copied into it, and, while it is idle, the manifest.
SameGuest(g, h) ==
  /\ DOMAIN g = VmFields /\ DOMAIN h = VmFields
  /\ \A x \in VmFields \ {"on", "bundle", "manifest"} : h[x] = g[x]
  /\ g.pc # "idle" => h.manifest = g.manifest

\* What a host step may do to a VM that is there afterwards.
HostOn(t) ==
  LET g == vm[t]
      h == vm'[t]
      q == h.owner
  IN  /\ q \in Runs
      /\ \/ /\ There(t)
            /\ SameGuest(g, h) /\ h.manifest \in {g.manifest, run[q].manifest}
            /\ run'[q].pc \in Early => run[q].pc \in Early
         \/ h = NewVm(q)
         \/ /\ There(t) /\ g.owner = q
            /\ run[q].pc = "exec" /\ run'[q].pc = "wait"
            /\ h = [g EXCEPT !.pc = "checkout", !.new = run[q].new, !.base = run[q].base]

\* The commits and the manifest of a run are named once.
LEMMA NamedOnce ==
  ASSUME HostInv, NEW r \in Runs, Host(r), NEW q \in Runs
  PROVE  \/ run[q].pc = "start" /\ q = r /\ Start(r)
         \/ /\ run'[q].new = run[q].new /\ run'[q].base = run[q].base
            /\ run'[q].manifest = run[q].manifest
<1>. DOMAIN run = Runs /\ DOMAIN run[r] = RunFields
  BY DEF HostInv, Shape
<1>. USE DEF GoTo, Bail, RunFields
<1>1. CASE Start(r)
  BY <1>1 DEF Start
<1>2. CASE RefNew(r)
  BY <1>2 DEF RefNew
<1>3. CASE RefBase(r)
  BY <1>3 DEF RefBase
<1>4. CASE CreateBundle(r)
  BY <1>4 DEF CreateBundle
<1>5. CASE DropRefs(r)
  BY <1>5 DEF DropRefs
<1>6. CASE Clone(r)
  BY <1>6 DEF Clone
<1>7. CASE Spawn(r)
  BY <1>7 DEF Spawn
<1>8. CASE WaitForAgent(r)
  BY <1>8 DEF WaitForAgent
<1>9. CASE CopyBundle(r)
  BY <1>9 DEF CopyBundle
<1>10. CASE CopyManifest(r)
  BY <1>10 DEF CopyManifest
<1>11. CASE Exec(r)
  BY <1>11 DEF Exec
<1>12. CASE Collect(r)
  BY <1>12 DEF Collect
<1>13. CASE StopVm(r)
  BY <1>13 DEF StopVm
<1>14. CASE DeleteVm(r)
  BY <1>14 DEF DeleteVm
<1>15. CASE DropBundle(r)
  BY <1>15 DEF DropBundle
<1>16. CASE StepFails(r)
  BY <1>16 DEF StepFails
<1>17. CASE Kill(r)
  BY <1>17 DEF Kill
<1>. QED BY <1>1, <1>2, <1>3, <1>4, <1>5, <1>6, <1>7, <1>8, <1>9, <1>10, <1>11, <1>12, <1>13, <1>14, <1>15, <1>16, <1>17 DEF Host

LEMMA HostOnVm ==
  ASSUME HostInv, GuestInv, NEW r \in Runs, Host(r), NEW t \in Seconds, There(t)'
  PROVE  HostOn(t)
<1>. DEFINE s == run[r].secs
<1>0. /\ DOMAIN run = Runs /\ DOMAIN vm = Seconds /\ DOMAIN run[r] = RunFields
      /\ \A u \in Seconds : DOMAIN vm[u] = VmFields
  BY DEF HostInv, Shape
<1>1. \A u \in Seconds : There(u) => vm[u].owner \in Runs /\ run[vm[u].owner].secs = u
  BY DEF HostInv, VmInv
<1>2. run[r].pc \in Has => s \in Seconds /\ vm[s].owner = r /\ There(s)
  BY BoundsAssumption DEF HostInv, VmInv, Shape, Has, There
<1>3. There(t) /\ run[vm[t].owner].pc \in Early => vm[t].pc = "idle"
  BY DEF GuestInv
<1>4. ASSUME vm'[t] = vm[t], run'[r].pc \in Early => run[r].pc \in Early \cup {"clone"}
      PROVE  HostOn(t)
  <2>1. There(t) /\ SameGuest(vm[t], vm'[t])
    BY <1>0, <1>4 DEF There, SameGuest
  <2>2. \A q \in Runs \ {r} : run'[q] = run[q]
    BY HostOnlyOwn
  <2>3. run[r].pc = "clone" => vm[t].owner # r
    BY <2>1 DEF HostInv, VmInv, Has, MayLeave
  <2>. QED BY <1>1, <1>4, <2>1, <2>2, <2>3 DEF HostOn
<1>. USE DEF GoTo, Bail
<1>5. CASE Start(r)
  BY <1>0, <1>4, <1>5 DEF Start, Early, RunFields, AfterFailure
<1>6. CASE RefNew(r)
  BY <1>0, <1>4, <1>6 DEF RefNew, Early, RunFields, AfterFailure
<1>7. CASE RefBase(r)
  BY <1>0, <1>4, <1>7 DEF RefBase, Early, RunFields, AfterFailure
<1>8. CASE CreateBundle(r)
  BY <1>0, <1>4, <1>8 DEF CreateBundle, Early, RunFields, AfterFailure
<1>9. CASE DropRefs(r)
  BY <1>0, <1>4, <1>9 DEF DropRefs, Early, RunFields, AfterFailure
<1>10. CASE Clone(r)
  <2>1. CASE t = s /\ ~There(s)
    <3>1. vm'[t] = NewVm(r)
      BY <1>0, <1>10, <2>1 DEF Clone
    <3>. QED BY <3>1 DEF HostOn, NewVm
  <2>2. CASE ~(t = s /\ ~There(s))
    BY <1>0, <1>4, <1>10, <2>2 DEF Clone, Early, RunFields
  <2>. QED BY <2>1, <2>2
<1>11. CASE Spawn(r)
  <2>1. run'[r].pc \in Early => run[r].pc \in Early
    BY <1>0, <1>11 DEF Spawn, Early, RunFields, AfterFailure
  <2>2. CASE t = s /\ vm' # vm
    <3>1. vm[s].owner = r /\ vm' = [vm EXCEPT ![s].on = TRUE]
      BY <1>2, <1>11, <2>2 DEF Spawn, Has
    <3>2. DOMAIN vm'[t] = VmFields /\ \A x \in VmFields \ {"on"} : vm'[t][x] = vm[t][x]
      BY <1>0, <2>2, <3>1 DEF VmFields
    <3>3. vm'[t].owner = r /\ vm[t].owner = r /\ There(t)
      BY <2>2, <3>1, <3>2, BoundsAssumption DEF VmFields, There
    <3>4. SameGuest(vm[t], vm'[t]) /\ vm'[t].manifest = vm[t].manifest
      BY <1>0, <3>2 DEF SameGuest, VmFields
    <3>. QED BY <2>1, <3>3, <3>4 DEF HostOn
  <2>3. CASE ~(t = s /\ vm' # vm)
    <3>1. vm'[t] = vm[t]
      BY <1>0, <1>11, <2>3 DEF Spawn
    <3>. QED BY <1>4, <2>1, <3>1
  <2>. QED BY <2>2, <2>3
<1>12. CASE WaitForAgent(r)
  BY <1>0, <1>4, <1>12 DEF WaitForAgent, Early, RunFields, AfterFailure
<1>13. CASE CopyBundle(r)
  <2>1. run'[r].pc \in Early => run[r].pc \in Early
    BY <1>0, <1>13 DEF CopyBundle, Early, RunFields, AfterFailure
  <2>2. CASE t = s /\ vm' # vm
    <3>1. vm[s].owner = r /\ vm' = [vm EXCEPT ![s].bundle = bundle[run[r].out]]
      BY <1>2, <1>13, <2>2 DEF CopyBundle, Has
    <3>2. DOMAIN vm'[t] = VmFields /\ \A x \in VmFields \ {"bundle"} : vm'[t][x] = vm[t][x]
      BY <1>0, <2>2, <3>1 DEF VmFields
    <3>3. vm'[t].owner = r /\ vm[t].owner = r /\ There(t)
      BY <2>2, <3>1, <3>2, BoundsAssumption DEF VmFields, There
    <3>4. SameGuest(vm[t], vm'[t]) /\ vm'[t].manifest = vm[t].manifest
      BY <1>0, <3>2 DEF SameGuest, VmFields
    <3>. QED BY <2>1, <3>3, <3>4 DEF HostOn
  <2>3. CASE ~(t = s /\ vm' # vm)
    <3>1. vm'[t] = vm[t]
      BY <1>0, <1>13, <2>3 DEF CopyBundle
    <3>. QED BY <1>4, <2>1, <3>1
  <2>. QED BY <2>2, <2>3
<1>14. CASE CopyManifest(r)
  <2>1. run'[r].pc \in Early => run[r].pc \in Early
    BY <1>0, <1>14 DEF CopyManifest, Early, RunFields, AfterFailure
  <2>2. CASE t = s /\ vm' # vm
    <3>1. vm[s].owner = r /\ vm' = [vm EXCEPT ![s].manifest = run[r].manifest] /\ run[r].pc = "copyManifest"
      BY <1>2, <1>14, <2>2 DEF CopyManifest, Has
    <3>2. DOMAIN vm'[t] = VmFields /\ \A x \in VmFields \ {"manifest"} : vm'[t][x] = vm[t][x]
      BY <1>0, <2>2, <3>1 DEF VmFields
    <3>3. vm'[t].owner = r /\ vm[t].owner = r /\ There(t)
      BY <2>2, <3>1, <3>2, BoundsAssumption DEF VmFields, There
    <3>4. vm[t].pc = "idle" /\ vm'[t].manifest = run[r].manifest
      BY <1>0, <1>3, <2>2, <3>1, <3>3 DEF Early, VmFields
    <3>5. SameGuest(vm[t], vm'[t])
      BY <1>0, <3>2, <3>4 DEF SameGuest
    <3>. QED BY <2>1, <3>3, <3>4, <3>5 DEF HostOn
  <2>3. CASE ~(t = s /\ vm' # vm)
    <3>1. vm'[t] = vm[t]
      BY <1>0, <1>14, <2>3 DEF CopyManifest
    <3>. QED BY <1>4, <2>1, <3>1
  <2>. QED BY <2>2, <2>3
<1>15. CASE Exec(r)
  <2>. DEFINE h == [vm[s] EXCEPT !.pc = "checkout", !.new = run[r].new, !.base = run[r].base]
  <2>1. run[r].pc = "exec" /\ s \in Seconds /\ vm[s].owner = r /\ There(s)
    BY <1>2, <1>15 DEF Exec, Has
  <2>2. h.owner = r
    BY <1>0, <2>1 DEF VmFields
  <2>3. \/ vm' = [vm EXCEPT ![s] = h] /\ run' = [run EXCEPT ![r].pc = "wait"]
        \/ UNCHANGED vm /\ run' = [run EXCEPT ![r].pc = "dropVm", ![r].exit = 1]
    BY <1>15 DEF Exec, AfterFailure
  <2>4. CASE t = s /\ vm' # vm
    <3>. HIDE DEF h
    <3>1. vm'[t] = h /\ run'[r].pc = "wait"
      BY <1>0, <2>1, <2>3, <2>4 DEF RunFields
    <3>2. vm'[t] = [vm[t] EXCEPT !.pc = "checkout", !.new = run[r].new, !.base = run[r].base]
      BY <2>4, <3>1 DEF h
    <3>. QED BY <2>1, <2>2, <2>4, <3>1, <3>2 DEF HostOn
  <2>5. CASE ~(t = s /\ vm' # vm)
    <3>. HIDE DEF h
    <3>1. vm'[t] = vm[t]
      BY <1>0, <2>3, <2>5
    <3>2. run'[r].pc \notin Early
      BY <1>0, <2>3 DEF Early, RunFields
    <3>. QED BY <1>4, <3>1, <3>2
  <2>. QED BY <2>4, <2>5
<1>16. CASE Collect(r)
  BY <1>0, <1>4, <1>16 DEF Collect, Early, RunFields, AfterFailure
<1>17. CASE StopVm(r)
  <2>1. run'[r].pc \in Early => run[r].pc \in Early
    BY <1>0, <1>17 DEF StopVm, Early, RunFields, AfterFailure
  <2>2. CASE t = s /\ vm' # vm
    <3>1. vm[s].owner = r /\ vm' = [vm EXCEPT ![s].on = FALSE]
      BY <1>2, <1>17, <2>2 DEF StopVm, Has
    <3>2. DOMAIN vm'[t] = VmFields /\ \A x \in VmFields \ {"on"} : vm'[t][x] = vm[t][x]
      BY <1>0, <2>2, <3>1 DEF VmFields
    <3>3. vm'[t].owner = r /\ vm[t].owner = r /\ There(t)
      BY <2>2, <3>1, <3>2, BoundsAssumption DEF VmFields, There
    <3>4. SameGuest(vm[t], vm'[t]) /\ vm'[t].manifest = vm[t].manifest
      BY <1>0, <3>2 DEF SameGuest, VmFields
    <3>. QED BY <2>1, <3>3, <3>4 DEF HostOn
  <2>3. CASE ~(t = s /\ vm' # vm)
    <3>1. vm'[t] = vm[t]
      BY <1>0, <1>17, <2>3 DEF StopVm
    <3>. QED BY <1>4, <2>1, <3>1
  <2>. QED BY <2>2, <2>3
<1>18. CASE DeleteVm(r)
  <2>1. vm'[t] = vm[t]
    <3>1. CASE vm' = [vm EXCEPT ![s] = NewVm(Nothing)]
      BY <1>0, <3>1 DEF There, NewVm
    <3>. QED BY <1>18, <3>1 DEF DeleteVm
  <2>. QED BY <1>0, <1>4, <1>18, <2>1 DEF DeleteVm, Early, RunFields
<1>19. CASE DropBundle(r)
  BY <1>0, <1>4, <1>19 DEF DropBundle, Early, RunFields, AfterFailure
<1>20. CASE StepFails(r)
  BY <1>0, <1>4, <1>20 DEF StepFails, Early, RunFields, AfterFailure
<1>21. CASE Kill(r)
  <2>1. run'[r].pc \in Early => run[r].pc \in Early
    BY <1>0, <1>21 DEF Kill, Early, RunFields, AfterFailure
  <2>2. CASE t = s /\ vm' # vm
    <3>1. vm[s].owner = r /\ vm' = [vm EXCEPT ![s].on = FALSE]
      BY <1>2, <1>21, <2>2 DEF Kill, Has
    <3>2. DOMAIN vm'[t] = VmFields /\ \A x \in VmFields \ {"on"} : vm'[t][x] = vm[t][x]
      BY <1>0, <2>2, <3>1 DEF VmFields
    <3>3. vm'[t].owner = r /\ vm[t].owner = r /\ There(t)
      BY <2>2, <3>1, <3>2, BoundsAssumption DEF VmFields, There
    <3>4. SameGuest(vm[t], vm'[t]) /\ vm'[t].manifest = vm[t].manifest
      BY <1>0, <3>2 DEF SameGuest, VmFields
    <3>. QED BY <2>1, <3>3, <3>4 DEF HostOn
  <2>3. CASE ~(t = s /\ vm' # vm)
    <3>1. vm'[t] = vm[t]
      BY <1>0, <1>21, <2>3 DEF Kill
    <3>. QED BY <1>4, <2>1, <3>1
  <2>. QED BY <2>2, <2>3
<1>. QED BY <1>5, <1>6, <1>7, <1>8, <1>9, <1>10, <1>11, <1>12, <1>13, <1>14, <1>15, <1>16, <1>17, <1>18, <1>19, <1>20, <1>21 DEF Host

LEMMA SameGuestOf ==
  ASSUME NEW g, NEW h, NEW new, NEW base,
         SameGuest(g, h), h.manifest \in Manifests, GuestOf(g, new, base)
  PROVE  GuestOf(h, new, base) /\ h.pc = g.pc /\ h.owner = g.owner
<1>1. /\ h.pc = g.pc /\ h.new = g.new /\ h.base = g.base /\ h.head = g.head /\ h.fetch = g.fetch
      /\ h.build = g.build /\ h.ok = g.ok /\ h.exit = g.exit /\ h.owner = g.owner
  BY DEF SameGuest, VmFields
<1>. QED BY <1>1 DEF GuestOf

LEMMA HostGuestInv ==
  ASSUME HostInv, GuestInv, NEW r \in Runs, Host(r)
  PROVE  GuestInv'
<1>1. \A q \in Runs : run'[q].manifest \in Manifests
  <2>1. ASSUME Start(r) PROVE run'[r].manifest \in Manifests
    <3>1. PICK t \in Seconds, a \in Requests[r] :
            run' = [run EXCEPT ![r] = [@ EXCEPT !.pc = "refNew", !.secs = t,
                                                !.out = IF a.given THEN 0 ELSE t, !.new = a.new,
                                                !.base = a.base, !.manifest = a.manifest, !.keep = a.keep]]
      BY <2>1 DEF Start
    <3>2. run'[r].manifest = a.manifest
      BY <3>1 DEF HostInv, Shape, RunFields
    <3>. QED BY <3>2, ManifestAssumption
  <2>. QED BY <2>1, NamedOnce DEF GuestInv
<1>. SUFFICES ASSUME NEW t \in Seconds, There(t)'
              PROVE  /\ run'[vm'[t].owner].pc \in Early => vm'[t].pc = "idle"
                     /\ GuestOf(vm'[t], run'[vm'[t].owner].new, run'[vm'[t].owner].base)
  BY <1>1 DEF GuestInv
<1>. DEFINE q == vm'[t].owner
            g == vm[t]
            h == vm'[t]
<1>2. HostOn(t)
  BY HostOnVm
<1>3. ASSUME There(t), g.owner = q
      PROVE  /\ q \in Runs /\ run'[q].new = run[q].new /\ run'[q].base = run[q].base
             /\ run[q].manifest \in Manifests /\ g.manifest \in Manifests
             /\ run[q].pc \in Early => g.pc = "idle"
             /\ GuestOf(g, run[q].new, run[q].base)
  <2>1. q \in Runs /\ run[q].pc # "start"
    BY <1>3 DEF HostInv, VmInv, Has, MayLeave
  <2>. QED BY <1>3, <2>1, NamedOnce DEF GuestInv, GuestOf
<1>4. CASE /\ There(t)
           /\ SameGuest(g, h) /\ h.manifest \in {g.manifest, run[q].manifest}
           /\ run'[q].pc \in Early => run[q].pc \in Early
  <2>1. g.owner = q
    BY <1>4 DEF SameGuest, VmFields
  <2>2. h.manifest \in Manifests
    BY <1>3, <1>4, <2>1
  <2>3. GuestOf(h, run[q].new, run[q].base) /\ h.pc = g.pc
    BY <1>3, <1>4, <2>1, <2>2, SameGuestOf
  <2>. QED BY <1>3, <1>4, <2>1, <2>3
<1>5. CASE h = NewVm(q)
  <2>1. \A x, new, base : NewVm(x).pc = "idle" /\ GuestOf(NewVm(x), new, base)
    BY ManifestAssumption DEF NewVm, GuestOf
  <2>. QED BY <1>5, <2>1
<1>6. CASE /\ There(t) /\ g.owner = q
           /\ run[q].pc = "exec" /\ run'[q].pc = "wait"
           /\ h = [g EXCEPT !.pc = "checkout", !.new = run[q].new, !.base = run[q].base]
  <2>1. DOMAIN g = VmFields
    BY DEF HostInv, Shape
  <2>2. /\ h.pc = "checkout" /\ h.new = run[q].new /\ h.base = run[q].base /\ h.fetch = g.fetch
        /\ h.manifest = g.manifest
    <3>. HIDE DEF q, g, h
    <3>. QED BY <1>6, <2>1 DEF VmFields
  <2>3. g.fetch = Nothing /\ g.manifest \in Manifests
    BY <1>3, <1>6 DEF GuestOf, Early
  <2>. QED BY <1>3, <1>6, <2>2, <2>3 DEF GuestOf, Early
<1>. QED BY <1>2, <1>4, <1>5, <1>6 DEF HostOn

LEMMA HostFetchInv ==
  ASSUME HostInv, GuestInv, FetchInv, NEW r \in Runs, Host(r)
  PROVE  FetchInv'
<1>. SUFFICES ASSUME NEW t \in Seconds, There(t)', vm'[t].fetch # Nothing \/ vm'[t].pc = "fetch",
                     Valid(Samples[vm'[t].manifest])
              PROVE  FetchOf(vm'[t].fetch, Samples[vm'[t].manifest], vm'[t].tries = 0)
  BY DEF FetchInv
<1>1. HostOn(t)
  BY HostOnVm
<1>2. There(t) => (vm[t].pc = "idle" => vm[t].fetch = Nothing)
  BY DEF GuestInv, GuestOf
<1>3. CASE There(t) /\ SameGuest(vm[t], vm'[t])
  <2>1. vm'[t].fetch = vm[t].fetch /\ vm'[t].tries = vm[t].tries /\ vm'[t].pc = vm[t].pc
    BY <1>3 DEF SameGuest, VmFields
  <2>2. vm'[t].manifest = vm[t].manifest
    BY <1>2, <1>3, <2>1 DEF SameGuest
  <2>. QED BY <1>3, <2>1, <2>2 DEF FetchInv
<1>4. CASE vm'[t] = NewVm(vm'[t].owner)
  <2>1. \A q : NewVm(q).fetch = Nothing /\ NewVm(q).pc = "idle"
    BY DEF NewVm
  <2>. QED BY <1>4, <2>1
<1>5. CASE /\ There(t) /\ vm[t].owner = vm'[t].owner /\ run[vm'[t].owner].pc = "exec"
           /\ vm'[t] = [vm[t] EXCEPT !.pc = "checkout", !.new = run[vm'[t].owner].new,
                                     !.base = run[vm'[t].owner].base]
  <2>1. vm[t].fetch = Nothing
    BY <1>2, <1>5 DEF GuestInv, Early
  <2>2. vm'[t].fetch = vm[t].fetch /\ vm'[t].pc = "checkout"
    BY <1>5 DEF HostInv, Shape, VmFields
  <2>. QED BY <2>1, <2>2
<1>. QED BY <1>1, <1>3, <1>4, <1>5 DEF HostOn

-----------------------------------------------------------------------------
(***************************************************************************)
(* The steps of a build and of a fetch.                                    *)
(***************************************************************************)
LEMMA NewBuildOf ==
  ASSUME NEW new, NEW base, NEW commits, NEW dir, NEW root, NEW worktrees
  PROVE  BuildOf(NewBuild(new, base, commits, dir, root, worktrees), new, base)
BY DEF BuildOf, BuildFields, NewBuild

LEMMA BuildStep ==
  ASSUME NEW new, NEW base, NEW b, BuildOf(b, new, base), b.pc \notin {"built", "error"},
         NEW c \in BuildSteps(b)
  PROVE  BuildOf(c, new, base)
<1>1. DOMAIN b = BuildFields
  BY DEF BuildOf
<1>2. BuildOf(Failed(b), new, base)
  BY DEF BuildOf, Failed, BuildFields
<1>3. CASE b.pc = "new"
  BY <1>2, <1>3 DEF BuildSteps, BuildNew, BuildOf, BuildFields
<1>4. CASE b.pc = "copyNew"
  BY <1>2, <1>4 DEF BuildSteps, CopyNew, BuildOf, BuildFields
<1>5. CASE b.pc = "stale"
  <2>. DEFINE cleared == [b EXCEPT !.worktrees = @ \ (b.root \cup {b.dir})]
  <2>1. BuildOf(cleared, new, base) /\ cleared.pc = "stale" /\ DOMAIN cleared = BuildFields
    BY <1>5 DEF BuildOf, BuildFields
  <2>2. c \in {[cleared EXCEPT !.pc = "add"], Failed(cleared), [cleared EXCEPT !.pc = "error"]}
    BY <1>5 DEF BuildSteps, RemoveStale
  <2>. HIDE DEF cleared
  <2>. QED BY <2>1, <2>2 DEF BuildOf, BuildFields, Failed
<1>6. CASE b.pc = "add"
  BY <1>6, ZenonT(60) DEF BuildSteps, AddWorktree, BuildOf, BuildFields
<1>7. CASE b.pc = "base"
  BY <1>7, ZenonT(60) DEF BuildSteps, BuildBase, BuildOf, BuildFields
<1>8. CASE b.pc = "copyBase"
  BY <1>8 DEF BuildSteps, CopyBase, BuildOf, BuildFields
<1>9. CASE b.pc = "remove"
  BY <1>9 DEF BuildSteps, RemoveWorktree, BuildOf, BuildFields
<1>. QED BY <1>3, <1>4, <1>5, <1>6, <1>7, <1>8, <1>9 DEF BuildOf

\* The first of some numbers is one of them.
LEMMA MinIn ==
  ASSUME NEW T \in SUBSET Nat, T # {}
  PROVE  Min(T) \in T
<1>. DEFINE R == OpToRel(<, Nat)
<1>1. IsWellFoundedOn(R, Nat)
  BY NatLessThanWellFounded
<1>2. \A a, b \in Nat : a < b => <<a, b>> \in R
  BY DEF OpToRel
<1>3. \E x \in T : \A y \in T : ~(<<y, x>> \in R)
  <2>. HIDE DEF R
  <2>. T \subseteq Nat /\ T # {}
    OBVIOUS
  <2>. QED BY <1>1, WFMin, Zenon
<1>. HIDE DEF R
<1>4. \A x, y \in Nat : ~(y < x) => x <= y
  OBVIOUS
<1>5. \A x, y \in T : ~(<<y, x>> \in R) => x <= y
  BY <1>2, <1>4, Zenon
<1>6. \E x \in T : \A y \in T : x <= y
  BY <1>3, <1>5, Zenon
<1>. QED BY <1>6 DEF Min

LEMMA NewFetchOf ==
  ASSUME NEW samples, NEW store, DOMAIN store = IdsOf(samples), NEW cache, NEW first,
         first => \A i \in DOMAIN store : store[i] = Nothing
  PROVE  FetchOf(NewFetch(samples, cache, store), samples, first)
<1>. DEFINE f == NewFetch(samples, cache, store)
<1>1. /\ DOMAIN f = FetchFields /\ f.pc = "group" /\ f.group = {} /\ f.store = store
      /\ f.todo = Archives(samples)
      /\ f.report = [i \in IdsOf(samples) |-> "none"]
  BY DEF NewFetch, FetchFields, IdsOf
<1>2. \A i \in DOMAIN samples : samples[i].id \in IdsOf(samples)
  BY DEF IdsOf, Range
<1>3. FetchOf(f, samples, first)
  <2>. HIDE DEF f
  <2>1. \A i \in DOMAIN samples : /\ f.report[samples[i].id] = "none"
                                  /\ first => f.store[samples[i].id] = Nothing
    BY <1>1, <1>2
  <2>. QED BY <1>1, <2>1 DEF FetchOf
<1>. QED BY <1>3

\* What FetchStep is about.
ListOf(samples) ==
  /\ samples \in Seq(Range(samples)) /\ \A s \in Range(samples) : s.archive \in Nat
  /\ Valid(samples)

LEMMA ListFacts ==
  ASSUME NEW samples, ListOf(samples)
  PROVE  /\ DOMAIN samples \subseteq Nat
         /\ \A i \in DOMAIN samples : samples[i].id \in IdsOf(samples)
         /\ \A i, j \in DOMAIN samples : samples[i].id = samples[j].id => i = j
         /\ Archives(samples) \subseteq Nat
BY DEF ListOf, Valid, IdsOf, Range, Archives

\* Samples that are told of a failure, others left alone.
LEMMA FailedKeep ==
  ASSUME NEW samples, ListOf(samples), NEW first, NEW f, FetchOf(f, samples, first),
         NEW told \in SUBSET DOMAIN samples, NEW h,
         DOMAIN h = FetchFields,
         h.pc \in {"group", "locate", "extract", "place", "swap", "done", "tool"} \ {"swap"},
         h.group \subseteq f.group \ told, h.pc = "group" => h.group = {},
         h.todo = f.todo, h.store = f.store,
         \A i \in told : samples[i].archive \notin f.todo,
         h.report = [x \in DOMAIN f.report |-> IF x \in Ids(told, samples) THEN "failed" ELSE f.report[x]]
  PROVE  FetchOf(h, samples, first)
<1>1. \A i \in DOMAIN samples : i \notin told => h.report[samples[i].id] = f.report[samples[i].id]
  BY ListFacts DEF Ids, FetchOf
<1>2. \A i \in DOMAIN samples : h.report[samples[i].id] = "ok" => f.report[samples[i].id] = "ok"
  BY ListFacts DEF FetchOf
<1>3. DOMAIN h.report = IdsOf(samples)
  BY DEF FetchOf
<1>. QED BY <1>1, <1>2, <1>3 DEF FetchOf

LEMMA FetchStep ==
  ASSUME NEW samples, ListOf(samples), NEW first, NEW f, FetchOf(f, samples, first),
         f.pc \notin {"done", "tool"}, NEW h \in FetchSteps(f, samples)
  PROVE  FetchOf(h, samples, first)
<1>0. DOMAIN f = FetchFields /\ f.group \subseteq DOMAIN samples
  BY DEF FetchOf
<1>1. f.group # {} => First(f) \in f.group
  BY <1>0, ListFacts, MinIn DEF First
<1>2. FetchOf(ToolError(f), samples, first)
  <2>. DEFINE k == ToolError(f)
  <2>1. /\ DOMAIN k = FetchFields /\ k.pc = "tool" /\ k.group = f.group /\ k.todo = f.todo
        /\ k.store = f.store /\ k.report = f.report
    BY <1>0 DEF ToolError, Cleaned, FetchFields
  <2>2. FetchOf(k, samples, first)
    <3>. HIDE DEF k
    <3>. QED BY <2>1 DEF FetchOf
  <2>. QED BY <2>2
<1>3. f.pc # "group" => \A k : k = GroupFails(f, samples) \/ k = [GroupFails(f, samples) EXCEPT !.strange = TRUE]
         => FetchOf(k, samples, first)
  <2>. SUFFICES ASSUME NEW k, k = GroupFails(f, samples) \/ k = [GroupFails(f, samples) EXCEPT !.strange = TRUE]
                PROVE  FetchOf(k, samples, first)
    OBVIOUS
  <2>1. /\ DOMAIN k = FetchFields /\ k.pc = "group" /\ k.group = {} /\ k.todo = f.todo
        /\ k.store = f.store
        /\ k.report = [x \in DOMAIN f.report |-> IF x \in Ids(f.group, samples) THEN "failed"
                                                ELSE f.report[x]]
    BY <1>0 DEF GroupFails, Cleaned, Told, FetchFields
  <2>2. \A i \in f.group : samples[i].archive \notin f.todo
    BY DEF FetchOf
  <2>. QED BY <1>0, <2>1, <2>2, FailedKeep
<1>4. CASE f.pc = "group"
  <2>1. CASE f.todo = {}
    <3>1. h = [f EXCEPT !.pc = "done"]
      BY <1>4, <2>1 DEF FetchSteps, NextGroup
    <3>2. /\ DOMAIN h = FetchFields /\ h.pc = "done" /\ h.group = f.group /\ h.todo = f.todo
          /\ h.store = f.store /\ h.report = f.report
      BY <1>0, <3>1 DEF FetchFields
    <3>. QED BY <3>2 DEF FetchOf
  <2>2. CASE f.todo # {}
    <3>. DEFINE a == Min(f.todo)
                g == GroupOf(samples, a)
                k == [f EXCEPT !.todo = @ \ {a}, !.group = g]
    <3>1. a \in f.todo
      BY <2>2, ListFacts, MinIn DEF FetchOf
    <3>2. h = GroupFails(k, samples) \/ h = [k EXCEPT !.pc = "locate"]
      BY <1>4, <2>2 DEF FetchSteps, NextGroup
    <3>3. g \subseteq DOMAIN samples /\ \A i \in DOMAIN samples : i \in g <=> samples[i].archive = a
      BY DEF GroupOf
    <3>. HIDE DEF a, g
    <3>4. /\ DOMAIN k = FetchFields /\ k.pc = "group" /\ k.group = g /\ k.todo = f.todo \ {a}
          /\ k.store = f.store /\ k.report = f.report
      BY <1>0, <1>4 DEF FetchFields
    <3>. HIDE DEF k
    <3>5. CASE h = [k EXCEPT !.pc = "locate"]
      <4>1. /\ DOMAIN h = FetchFields /\ h.pc = "locate" /\ h.group = g /\ h.todo = f.todo \ {a}
            /\ h.store = f.store /\ h.report = f.report
        BY <3>4, <3>5 DEF FetchFields
      <4>. QED BY <3>1, <3>3, <4>1 DEF FetchOf
    <3>6. CASE h = GroupFails(k, samples)
      <4>1. /\ DOMAIN h = FetchFields /\ h.pc = "group" /\ h.group = {} /\ h.todo = f.todo \ {a}
            /\ h.store = f.store
            /\ h.report = [x \in DOMAIN f.report |-> IF x \in Ids(g, samples) THEN "failed"
                                                    ELSE f.report[x]]
        BY <3>4, <3>6 DEF GroupFails, Cleaned, Told, FetchFields
      <4>2. \A i \in DOMAIN samples : i \notin g => h.report[samples[i].id] = f.report[samples[i].id]
        BY <3>3, <4>1, ListFacts DEF Ids, FetchOf
      <4>3. \A i \in DOMAIN samples : h.report[samples[i].id] = "ok" => f.report[samples[i].id] = "ok"
        BY <4>1, ListFacts DEF FetchOf
      <4>4. DOMAIN h.report = IdsOf(samples)
        BY <4>1 DEF FetchOf
      <4>5. \A i \in DOMAIN samples : samples[i].archive \in h.todo => h.report[samples[i].id] = "none"
        BY <3>3, <4>1, <4>2 DEF FetchOf
      <4>. QED BY <3>3, <4>1, <4>3, <4>4, <4>5 DEF FetchOf
    <3>. QED BY <3>2, <3>5, <3>6
  <2>. QED BY <2>1, <2>2
<1>5. CASE f.pc = "locate"
  <2>1. \/ h \in {[f EXCEPT !.pc = "extract"], [f EXCEPT !.pc = "extract", !.download = TRUE]}
        \/ h = [GroupFails(f, samples) EXCEPT !.strange = TRUE]
        \/ h = ToolError(f)
    BY <1>5 DEF FetchSteps, Locate
  <2>2. ASSUME h \in {[f EXCEPT !.pc = "extract"], [f EXCEPT !.pc = "extract", !.download = TRUE]}
        PROVE  FetchOf(h, samples, first)
    <3>1. /\ DOMAIN h = FetchFields /\ h.pc = "extract" /\ h.group = f.group /\ h.todo = f.todo
          /\ h.store = f.store /\ h.report = f.report
      BY <1>0, <2>2 DEF FetchFields
    <3>. QED BY <3>1 DEF FetchOf
  <2>. QED BY <1>2, <1>3, <1>5, <2>1, <2>2
<1>6. CASE f.pc = "extract"
  <2>. DEFINE dir == Contents[samples[First(f)].archiveSha]
  <2>1. \/ h = [f EXCEPT !.pc = "place", !.tmp = dir]
        \/ h = [GroupFails(f, samples) EXCEPT !.strange = TRUE]
        \/ h = ToolError(f)
        \/ \E p \in DOMAIN dir :
             h = [f EXCEPT !.pc = "place", !.tmp = Without(dir, p), !.strange = TRUE]
    BY <1>6 DEF FetchSteps, Extract
  <2>. HIDE DEF dir
  <2>2. ASSUME NEW dir2,
               \/ h = [f EXCEPT !.pc = "place", !.tmp = dir2]
               \/ h = [f EXCEPT !.pc = "place", !.tmp = dir2, !.strange = TRUE]
        PROVE  FetchOf(h, samples, first)
    <3>1. /\ DOMAIN h = FetchFields /\ h.pc = "place" /\ h.group = f.group /\ h.todo = f.todo
          /\ h.store = f.store /\ h.report = f.report
      BY <1>0, <2>2 DEF FetchFields
    <3>. QED BY <3>1 DEF FetchOf
  <2>. QED BY <1>2, <1>3, <1>6, <2>1, <2>2
<1>7. CASE f.pc = "place"
  <2>1. CASE f.group = {}
    <3>1. h = [Cleaned(f) EXCEPT !.pc = "group"]
      BY <1>7, <2>1 DEF FetchSteps, Place
    <3>2. /\ DOMAIN h = FetchFields /\ h.pc = "group" /\ h.group = f.group /\ h.todo = f.todo
          /\ h.store = f.store /\ h.report = f.report
      BY <1>0, <3>1 DEF FetchFields, Cleaned
    <3>. QED BY <2>1, <3>2 DEF FetchOf
  <2>2. CASE f.group # {}
    <3>. DEFINE n == First(f)
                s == samples[n]
                at == FindMember(f.tmp, s.member)
                good == at # Nothing /\ Matches(s, Measure(f.tmp, at))
                k == [Told(f, {s.id}, "failed") EXCEPT !.group = @ \ {n}]
                w == [f EXCEPT !.pc = "swap", !.store[s.id] = Nothing]
    <3>1. n \in f.group /\ n \in DOMAIN samples
      BY <1>0, <1>1, <2>2
    <3>2. (~good /\ h = k) \/ (good /\ h \in {w, ToolError(f)})
      BY <1>7, <2>2 DEF FetchSteps, Place
    <3>3. h = w => First(h) = n /\ h.tmp = f.tmp
      BY <1>0 DEF FetchFields, First
    <3>. HIDE DEF n, good
    <3>4. ASSUME h = k PROVE FetchOf(h, samples, first)
      <4>1. /\ DOMAIN h = FetchFields /\ h.pc = "place" /\ h.group = f.group \ {n}
            /\ h.todo = f.todo /\ h.store = f.store
            /\ h.report = [x \in DOMAIN f.report |-> IF x \in {s.id} THEN "failed" ELSE f.report[x]]
        BY <1>0, <1>7, <3>4 DEF FetchFields, Told
      <4>2. Ids({n}, samples) = {s.id}
        BY DEF Ids
      <4>3. samples[n].archive \notin f.todo
        BY <3>1 DEF FetchOf
      <4>. QED BY <3>1, <4>1, <4>2, <4>3, FailedKeep
    <3>5. ASSUME h = w, good PROVE FetchOf(h, samples, first)
      <4>1. /\ DOMAIN h = FetchFields /\ h.pc = "swap" /\ h.group = f.group /\ h.todo = f.todo
            /\ h.store = [f.store EXCEPT ![s.id] = Nothing] /\ h.report = f.report
        BY <1>0, <3>5 DEF FetchFields
      <4>2. f.report[s.id] = "none"
        BY <3>1 DEF FetchOf
      <4>3. \A i \in DOMAIN samples :
               h.store[samples[i].id] = IF i = n THEN Nothing ELSE f.store[samples[i].id]
        BY <3>1, <4>1, ListFacts DEF FetchOf
      <4>4. LET x == samples[First(h)]
                p == FindMember(h.tmp, x.member)
            IN  p # Nothing /\ Matches(x, Measure(h.tmp, p))
        BY <3>3, <3>5 DEF good
      <4>5. \A i \in DOMAIN samples :
               LET x == samples[i] IN
               /\ h.report[x.id] = "ok" => Matches(x, h.store[x.id])
               /\ first /\ h.store[x.id] # Nothing => Matches(x, h.store[x.id])
        BY <4>1, <4>2, <4>3 DEF FetchOf
      <4>6. DOMAIN h.store = IdsOf(samples)
        BY <4>1 DEF FetchOf
      <4>. HIDE DEF s
      <4>. QED BY <2>2, <4>1, <4>4, <4>5, <4>6 DEF FetchOf
    <3>. QED BY <1>2, <3>2, <3>4, <3>5
  <2>. QED BY <2>1, <2>2
<1>8. CASE f.pc = "swap"
  <2>. DEFINE n == First(f)
              s == samples[n]
              at == FindMember(f.tmp, s.member)
              placed == Measure(f.tmp, at)
              left == Without(f.tmp, at)
              k == [Told(f, {s.id}, "ok") EXCEPT !.pc = "place", !.group = @ \ {n},
                                                 !.store[s.id] = placed, !.tmp = left]
  <2>1. n \in f.group /\ n \in DOMAIN samples /\ Matches(s, placed)
    BY <1>0, <1>1, <1>8 DEF FetchOf
  <2>2. h = k \/ h = ToolError(f)
    BY <1>0, <1>8 DEF FetchSteps, Swap, Told, FetchFields
  <2>3. ASSUME h = k PROVE FetchOf(h, samples, first)
    <3>. HIDE DEF n, placed, left
    <3>1. /\ DOMAIN h = FetchFields /\ h.pc = "place" /\ h.group = f.group \ {n} /\ h.todo = f.todo
          /\ h.store = [f.store EXCEPT ![s.id] = placed]
          /\ h.report = [x \in DOMAIN f.report |-> IF x \in {s.id} THEN "ok" ELSE f.report[x]]
      BY <1>0, <2>3 DEF FetchFields, Told
    <3>2. \A i \in DOMAIN samples :
             /\ h.store[samples[i].id] = IF i = n THEN placed ELSE f.store[samples[i].id]
             /\ h.report[samples[i].id] = IF i = n THEN "ok" ELSE f.report[samples[i].id]
      BY <2>1, <3>1, ListFacts DEF FetchOf
    <3>3. \A i \in DOMAIN samples :
             LET x == samples[i] IN
             /\ h.report[x.id] = "ok" => Matches(x, h.store[x.id])
             /\ first /\ h.store[x.id] # Nothing => Matches(x, h.store[x.id])
      BY <2>1, <3>2 DEF FetchOf
    <3>4. DOMAIN h.store = IdsOf(samples) /\ DOMAIN h.report = IdsOf(samples)
      BY <3>1 DEF FetchOf
    <3>5. \A i \in DOMAIN samples :
             i \in h.group \/ samples[i].archive \in h.todo => h.report[samples[i].id] = "none"
      BY <2>1, <3>1, <3>2 DEF FetchOf
    <3>. HIDE DEF s
    <3>. QED BY <3>1, <3>3, <3>4, <3>5 DEF FetchOf
  <2>. QED BY <1>2, <2>2, <2>3
<1>. QED BY <1>4, <1>5, <1>6, <1>7, <1>8 DEF FetchOf

-----------------------------------------------------------------------------
(***************************************************************************)
(* The steps of a guest.                                                   *)
(***************************************************************************)
LEMMA StartFetchTo ==
  ASSUME NEW g, DOMAIN g = VmFields, NEW m, NEW store, NEW h, h = StartFetch(g, m, store)
  PROVE  /\ DOMAIN h = VmFields /\ h.new = g.new /\ h.base = g.base /\ h.head = g.head
         /\ h.manifest = m /\ h.owner = g.owner /\ h.tries = g.tries
         /\ \/ /\ h.pc = "fetch" /\ h.ok = {} /\ h.fetch = NewFetch(Samples[m], Cache, store)
            \/ ~Valid(Samples[m]) /\ h.pc = "ended" /\ h.exit = 1 /\ h.fetch = g.fetch
<1>. DEFINE f == NewFetch(Samples[m], Cache, store)
            x == [g EXCEPT !.pc = "fetch", !.manifest = m, !.build = Nothing, !.ok = {},
                           !.exit = Going, !.lost = FALSE, !.strange = FALSE, !.fetch = f]
            y == Ended([g EXCEPT !.manifest = m, !.build = Nothing], 1)
<1>1. /\ DOMAIN x = VmFields /\ x.new = g.new /\ x.base = g.base /\ x.head = g.head
      /\ x.manifest = m /\ x.pc = "fetch" /\ x.ok = {} /\ x.fetch = f
      /\ x.owner = g.owner /\ x.tries = g.tries
  <2>. HIDE DEF f
  <2>. QED BY DEF VmFields
<1>2. /\ DOMAIN y = VmFields /\ y.new = g.new /\ y.base = g.base /\ y.head = g.head
      /\ y.manifest = m /\ y.pc = "ended" /\ y.exit = 1 /\ y.fetch = g.fetch
      /\ y.owner = g.owner /\ y.tries = g.tries
  BY DEF VmFields, Ended
<1>3. h = IF Valid(Samples[m]) THEN x ELSE y
  BY DEF StartFetch
<1>. HIDE DEF x, y
<1>. QED BY <1>1, <1>2, <1>3

\* A guest that ends for a reason of its own.
LEMMA EndedTo ==
  ASSUME NEW g, DOMAIN g = VmFields, NEW e, NEW h,
         h = Ended(g, e) \/ h = [Ended(g, e) EXCEPT !.strange = TRUE]
  PROVE  /\ DOMAIN h = VmFields /\ h.pc = "ended" /\ h.exit = e
         /\ \A x \in VmFields \ {"pc", "exit", "strange"} : h[x] = g[x]
BY DEF Ended, VmFields

\* Ending with a failure of the tool leaves nothing to say.
LEMMA EndedOf ==
  ASSUME NEW g, DOMAIN g = VmFields, NEW new, NEW base, GuestOf(g, new, base), NEW h,
         g.pc # "idle",
         h = Ended(g, 1) \/ h = [Ended(g, 1) EXCEPT !.strange = TRUE]
  PROVE  GuestOf(h, new, base)
<1>1. /\ h.pc = "ended" /\ h.exit = 1 /\ h.manifest = g.manifest /\ h.new = g.new
      /\ h.base = g.base /\ h.fetch = g.fetch /\ h.head = g.head
  BY EndedTo DEF VmFields
<1>. QED BY <1>1 DEF GuestOf

LEMMA GuestTo ==
  ASSUME HostInv, GuestInv, NEW t \in Seconds, Guest(t),
         NEW new, NEW base, GuestOf(vm[t], new, base)
  PROVE  GuestOf(vm'[t], new, base) /\ (vm[t].pc = "idle" => vm'[t].pc = "idle" \/ Rerun(t))
<1>. DEFINE g == vm[t]
            h == vm'[t]
<1>0. DOMAIN g = VmFields /\ Shape /\ DOMAIN vm = Seconds
  BY DEF HostInv, Shape
<1>1. ASSUME NEW gs, GuestGoes(t, gs) PROVE h \in gs
  BY <1>0, <1>1 DEF GuestGoes
<1>2. CASE Checkout(t)
  <2>. DEFINE there == [g EXCEPT !.commits = {g.bundle.new, g.bundle.base}, !.head = g.new]
              x == StartFetch(there, g.manifest, EmptyStore(Samples[g.manifest]))
              gs == IF g.new \notin there.commits THEN {Ended(g, 1)}
                    ELSE {x, [Ended(g, 1) EXCEPT !.strange = TRUE]}
  <2>1. GuestGoes(t, gs) /\ g.pc = "checkout"
    BY <1>2 DEF Checkout, GuestAt
  <2>2. h \in gs
    BY <1>1, <2>1
  <2>3. h = x \/ h = Ended(g, 1) \/ h = [Ended(g, 1) EXCEPT !.strange = TRUE]
    <3>. HIDE DEF there, x
    <3>. QED BY <2>2
  <2>4. ASSUME h = x PROVE GuestOf(h, new, base)
    <3>1. DOMAIN there = VmFields /\ there.new = g.new /\ there.base = g.base /\ there.head = g.new
          /\ there.fetch = g.fetch
      BY <1>0 DEF VmFields
    <3>. HIDE DEF there, h
    <3>2. /\ h.new = g.new /\ h.base = g.base /\ h.head = g.new /\ h.manifest = g.manifest
          /\ \/ h.pc = "fetch" /\ h.ok = {}
             \/ h.pc = "ended" /\ h.exit = 1
      BY <2>4, <3>1, StartFetchTo
    <3>. QED BY <2>1, <3>2 DEF GuestOf
  <2>. QED BY <1>0, <2>1, <2>3, <2>4, EndedOf
<1>3. CASE Fetch(t)
  <2>. DEFINE F == FetchSteps(g.fetch, Samples[g.manifest])
              gs == IF g.fetch.pc \notin {"done", "tool"} THEN {[g EXCEPT !.fetch = f] : f \in F}
                    ELSE IF FetchExit(g.fetch) = 1 THEN {Ended(g, 1)}
                    ELSE {[g EXCEPT !.pc = "verify"]}
  <2>1. GuestGoes(t, gs) /\ g.pc = "fetch"
    BY <1>3 DEF Fetch, GuestAt
  <2>2. h \in gs
    BY <1>1, <2>1
  <2>3. (\E f : h = [g EXCEPT !.fetch = f]) \/ h = Ended(g, 1) \/ h = [g EXCEPT !.pc = "verify"]
    <3>. HIDE DEF F
    <3>. QED BY <2>2
  <2>4. ASSUME NEW f, h = [g EXCEPT !.fetch = f] PROVE GuestOf(h, new, base) /\ h.pc # "idle"
    <3>1. h.fetch = f /\ \A x \in VmFields \ {"fetch"} : h[x] = g[x]
      BY <1>0, <2>4 DEF VmFields
    <3>. HIDE DEF h
    <3>. QED BY <2>1, <3>1 DEF GuestOf, VmFields
  <2>5. ASSUME h = [g EXCEPT !.pc = "verify"] PROVE GuestOf(h, new, base)
    <3>1. h.pc = "verify" /\ \A x \in VmFields \ {"pc"} : h[x] = g[x]
      BY <1>0, <2>5 DEF VmFields
    <3>. HIDE DEF h
    <3>. QED BY <2>1, <3>1 DEF GuestOf, VmFields
  <2>. QED BY <1>0, <2>1, <2>3, <2>4, <2>5, EndedOf
<1>4. CASE Verify(t)
  <2>. DEFINE ok == Verified(Samples[g.manifest], g.fetch.store)
              b == NewBuild(g.head, g.base, g.commits, "out", {"dated"}, Worktrees(g))
              gs == IF ok = {} THEN {Ended(g, 2)}
                    ELSE {[g EXCEPT !.pc = "build", !.ok = ok, !.build = b]}
  <2>1. GuestGoes(t, gs) /\ g.pc = "verify"
    BY <1>4 DEF Verify, GuestAt
  <2>2. h \in gs
    BY <1>1, <2>1
  <2>3. BuildOf(b, g.head, g.base)
    BY NewBuildOf
  <2>. HIDE DEF ok, b
  <2>4. h = Ended(g, 2) \/ h = [g EXCEPT !.pc = "build", !.ok = ok, !.build = b]
    BY <2>2
  <2>5. ASSUME h = Ended(g, 2) PROVE GuestOf(h, new, base)
    <3>1. /\ h.pc = "ended" /\ h.exit = 2 /\ \A x \in VmFields \ {"pc", "exit", "strange"} : h[x] = g[x]
      BY <1>0, <2>5, EndedTo
    <3>. HIDE DEF h
    <3>. QED BY <2>1, <3>1 DEF GuestOf, VmFields
  <2>6. ASSUME h = [g EXCEPT !.pc = "build", !.ok = ok, !.build = b] PROVE GuestOf(h, new, base)
    <3>1. h.pc = "build" /\ h.build = b /\ \A x \in VmFields \ {"pc", "ok", "build"} : h[x] = g[x]
      BY <1>0, <2>6 DEF VmFields
    <3>. HIDE DEF h
    <3>. QED BY <2>1, <2>3, <3>1 DEF GuestOf, VmFields
  <2>. QED BY <2>1, <2>4, <2>5, <2>6
<1>5. CASE Build(t)
  <2>. DEFINE gs == IF g.build.pc \notin {"built", "error"}
                    THEN {[g EXCEPT !.build = b] : b \in BuildSteps(g.build)}
                    ELSE IF g.build.pc = "error" THEN {Ended(g, 1)}
                    ELSE {[g EXCEPT !.pc = "scan"]}
  <2>1. GuestGoes(t, gs) /\ g.pc = "build"
    BY <1>5 DEF Build, GuestAt
  <2>2. h \in gs
    BY <1>1, <2>1
  <2>3. \/ g.build.pc \notin {"built", "error"} /\ \E b \in BuildSteps(g.build) : h = [g EXCEPT !.build = b]
        \/ h = Ended(g, 1)
        \/ g.build.pc = "built" /\ h = [g EXCEPT !.pc = "scan"]
    <3>. DEFINE B == BuildSteps(g.build)
    <3>1. BuildOf(g.build, new, base)
      BY <2>1 DEF GuestOf
    <3>. HIDE DEF B
    <3>. QED BY <2>2, <3>1 DEF BuildOf
  <2>4. ASSUME NEW b \in BuildSteps(g.build), h = [g EXCEPT !.build = b],
               g.build.pc \notin {"built", "error"}
        PROVE  GuestOf(h, new, base)
    <3>1. h.build = b /\ \A x \in VmFields \ {"build"} : h[x] = g[x]
      BY <1>0, <2>4 DEF VmFields
    <3>2. BuildOf(b, new, base)
      BY <2>1, <2>4, BuildStep DEF GuestOf
    <3>. HIDE DEF h
    <3>. QED BY <2>1, <3>1, <3>2 DEF GuestOf, VmFields
  <2>5. ASSUME h = [g EXCEPT !.pc = "scan"], g.build.pc = "built" PROVE GuestOf(h, new, base)
    <3>1. h.pc = "scan" /\ \A x \in VmFields \ {"pc"} : h[x] = g[x]
      BY <1>0, <2>5 DEF VmFields
    <3>. HIDE DEF h
    <3>. QED BY <2>1, <2>5, <3>1 DEF GuestOf, VmFields
  <2>. QED BY <1>0, <2>1, <2>3, <2>4, <2>5, EndedOf
<1>6. CASE Scan(t)
  <2>. DEFINE V == {w \in Verdicts : w.manifest = g.manifest /\ w.ok = g.ok}
              gs == {[Ended(g, v.verdict.exit) EXCEPT !.lost = v.verdict.lost] : v \in V}
                    \cup {[Ended(g, 1) EXCEPT !.strange = TRUE]}
  <2>1. GuestGoes(t, gs) /\ g.pc = "scan"
    BY <1>6 DEF Scan, GuestAt
  <2>2. h \in gs
    BY <1>1, <2>1
  <2>3. \/ \E v \in V : h = [Ended(g, v.verdict.exit) EXCEPT !.lost = v.verdict.lost]
        \/ h = [Ended(g, 1) EXCEPT !.strange = TRUE]
    <3>. HIDE DEF V
    <3>. QED BY <2>2
  <2>4. ASSUME NEW v, h = [Ended(g, v.verdict.exit) EXCEPT !.lost = v.verdict.lost]
        PROVE  GuestOf(h, new, base)
    <3>1. h.pc = "ended" /\ \A x \in VmFields \ {"pc", "exit", "lost"} : h[x] = g[x]
      BY <1>0, <2>4 DEF VmFields, Ended
    <3>. HIDE DEF h
    <3>. QED BY <2>1, <3>1 DEF GuestOf, BuildOf, VmFields
  <2>. QED BY <1>0, <2>1, <2>3, <2>4, EndedOf
<1>7. CASE VmDies(t)
  <2>1. \A x \in VmFields \ {"on"} : h[x] = g[x]
    BY <1>0, <1>7 DEF VmDies, VmFields
  <2>2. GuestOf(h, new, base) /\ h.pc = g.pc
    <3>. HIDE DEF h
    <3>. QED BY <2>1 DEF GuestOf, VmFields
  <2>. QED BY <2>2
<1>8. CASE Rerun(t)
  <2>. DEFINE had == g.fetch.store
              Store(m) == [i \in DOMAIN EmptyStore(Samples[m]) |->
                             IF i \in DOMAIN had THEN had[i] ELSE Nothing]
  <2>1. PICK m \in Manifests :
          LET again == StartFetch(g, m, Store(m))
          IN  vm' = [vm EXCEPT ![t] = [again EXCEPT !.on = TRUE, !.tries = @ + 1, !.build = g.build,
                                                     !.strange = FALSE]]
    BY <1>8 DEF Rerun
  <2>. DEFINE again == StartFetch(g, m, Store(m))
  <2>2. /\ DOMAIN again = VmFields /\ again.new = g.new /\ again.base = g.base /\ again.head = g.head
        /\ again.manifest = m
        /\ \/ again.pc = "fetch" /\ again.ok = {}
           \/ again.pc = "ended" /\ again.exit = 1
    BY <1>0, StartFetchTo
  <2>3. h = [again EXCEPT !.on = TRUE, !.tries = @ + 1, !.build = g.build, !.strange = FALSE]
    BY <1>0, <2>1
  <2>. HIDE DEF again
  <2>4. \A x \in VmFields \ {"on", "tries", "build", "strange"} : h[x] = again[x]
    BY <2>2, <2>3 DEF VmFields
  <2>5. g.fetch # Nothing
    BY <1>8 DEF Rerun
  <2>6. GuestOf(h, new, base)
    <3>. HIDE DEF h
    <3>. QED BY <2>2, <2>4, <2>5 DEF GuestOf, VmFields
  <2>. QED BY <1>8, <2>6
<1>. QED BY <1>2, <1>3, <1>4, <1>5, <1>6, <1>7, <1>8 DEF Guest

\* Steps of a guest that are not its fetch's.
LEMMA QuietKeeps ==
  ASSUME Shape, NEW t \in Seconds, Verify(t) \/ Build(t) \/ Scan(t) \/ VmDies(t)
  PROVE  /\ vm'[t].fetch = vm[t].fetch /\ vm'[t].manifest = vm[t].manifest /\ vm'[t].tries = vm[t].tries
         /\ vm'[t].pc = "fetch" => vm[t].pc = "fetch"
<1>. DEFINE g == vm[t]
            h == vm'[t]
            Quiet == /\ h.fetch = g.fetch /\ h.manifest = g.manifest /\ h.tries = g.tries
                     /\ h.pc = "fetch" => g.pc = "fetch"
<1>0. DOMAIN g = VmFields /\ DOMAIN vm = Seconds
  BY DEF Shape
<1>1. ASSUME NEW gs, GuestGoes(t, gs) PROVE h \in gs
  BY <1>0, <1>1 DEF GuestGoes
<1>2. ASSUME NEW e, h = Ended(g, e) \/ h = [Ended(g, e) EXCEPT !.strange = TRUE] PROVE Quiet
  <2>. HIDE DEF g, h
  <2>. QED BY <1>0, <1>2, EndedTo DEF VmFields
<1>3. ASSUME Verify(t) PROVE Quiet
  <2>. DEFINE ok == Verified(Samples[g.manifest], g.fetch.store)
              b == NewBuild(g.head, g.base, g.commits, "out", {"dated"}, Worktrees(g))
              gs == IF ok = {} THEN {Ended(g, 2)}
                    ELSE {[g EXCEPT !.pc = "build", !.ok = ok, !.build = b]}
  <2>1. h \in gs
    BY <1>1, <1>3 DEF Verify
  <2>. HIDE DEF ok, b
  <2>2. h = Ended(g, 2) \/ h = [g EXCEPT !.pc = "build", !.ok = ok, !.build = b]
    BY <2>1
  <2>3. ASSUME h = [g EXCEPT !.pc = "build", !.ok = ok, !.build = b] PROVE Quiet
    BY <1>0, <2>3 DEF VmFields
  <2>. HIDE DEF Quiet, h
  <2>. QED BY <1>2, <2>2, <2>3
<1>4. ASSUME Build(t) PROVE Quiet
  <2>. DEFINE B == BuildSteps(g.build)
              gs == IF g.build.pc \notin {"built", "error"} THEN {[g EXCEPT !.build = b] : b \in B}
                    ELSE IF g.build.pc = "error" THEN {Ended(g, 1)}
                    ELSE {[g EXCEPT !.pc = "scan"]}
  <2>1. h \in gs
    BY <1>1, <1>4 DEF Build
  <2>. HIDE DEF B
  <2>2. (\E b \in B : h = [g EXCEPT !.build = b]) \/ h = Ended(g, 1) \/ h = [g EXCEPT !.pc = "scan"]
    BY <2>1
  <2>3. ASSUME NEW b, h = [g EXCEPT !.build = b] \/ h = [g EXCEPT !.pc = "scan"] PROVE Quiet
    BY <1>0, <2>3 DEF VmFields
  <2>. HIDE DEF Quiet, h
  <2>. QED BY <1>2, <2>2, <2>3
<1>5. ASSUME Scan(t) PROVE Quiet
  <2>. DEFINE V == {w \in Verdicts : w.manifest = g.manifest /\ w.ok = g.ok}
              gs == {[Ended(g, v.verdict.exit) EXCEPT !.lost = v.verdict.lost] : v \in V}
                    \cup {[Ended(g, 1) EXCEPT !.strange = TRUE]}
  <2>1. h \in gs
    BY <1>1, <1>5 DEF Scan
  <2>. HIDE DEF V
  <2>2. \/ \E v \in V : h = [Ended(g, v.verdict.exit) EXCEPT !.lost = v.verdict.lost]
        \/ h = [Ended(g, 1) EXCEPT !.strange = TRUE]
    BY <2>1
  <2>3. ASSUME NEW v, h = [Ended(g, v.verdict.exit) EXCEPT !.lost = v.verdict.lost] PROVE Quiet
    BY <1>0, <2>3 DEF VmFields, Ended
  <2>. HIDE DEF Quiet, h
  <2>. QED BY <1>2, <2>2, <2>3
<1>6. ASSUME VmDies(t) PROVE Quiet
  BY <1>0, <1>6 DEF VmDies, VmFields
<1>. QED BY <1>3, <1>4, <1>5, <1>6

LEMMA GuestGuestInv ==
  ASSUME HostInv, GuestInv, NEW t \in Seconds, Guest(t)
  PROVE  GuestInv'
<1>1. GuestMoves(t)
  BY GuestStep DEF HostInv
<1>2. There(t) /\ UNCHANGED run /\ vm'[t].owner = vm[t].owner
      /\ \A u \in Seconds \ {t} : vm'[u] = vm[u]
  BY <1>1 DEF GuestMoves
<1>. DEFINE r == run[vm[t].owner]
<1>3. GuestOf(vm[t], r.new, r.base) /\ (r.pc \in Early => vm[t].pc = "idle")
  BY <1>2 DEF GuestInv
<1>4. GuestOf(vm'[t], r.new, r.base) /\ (vm[t].pc = "idle" => vm'[t].pc = "idle" \/ Rerun(t))
  BY <1>3, GuestTo
<1>5. Rerun(t) => r.pc \notin Early
  BY DEF Rerun, Early
<1>. QED BY <1>2, <1>3, <1>4, <1>5 DEF GuestInv, There

LEMMA GuestFetchInv ==
  ASSUME HostInv, GuestInv, FetchInv, NEW t \in Seconds, Guest(t)
  PROVE  FetchInv'
<1>. DEFINE g == vm[t]
            h == vm'[t]
            Kept == h.fetch # Nothing \/ h.pc = "fetch" =>
                      (Valid(Samples[h.manifest]) => FetchOf(h.fetch, Samples[h.manifest], h.tries = 0))
<1>0. DOMAIN g = VmFields /\ Shape /\ DOMAIN vm = Seconds
  BY DEF HostInv, Shape
<1>1. There(t) /\ \A u \in Seconds \ {t} : vm'[u] = vm[u]
  BY <1>0, GuestStep DEF GuestMoves
<1>2. /\ g.manifest \in Manifests /\ g.tries \in Nat
      /\ g.pc \in {"idle", "checkout"} => g.fetch = Nothing
  BY <1>1 DEF GuestInv, GuestOf, HostInv, VmInv
<1>3. g.fetch # Nothing \/ g.pc = "fetch" =>
        (Valid(Samples[g.manifest]) => FetchOf(g.fetch, Samples[g.manifest], g.tries = 0))
  BY <1>1 DEF FetchInv
<1>4. \A m \in Manifests : DOMAIN EmptyStore(Samples[m]) = IdsOf(Samples[m])
                           /\ \A i \in IdsOf(Samples[m]) : EmptyStore(Samples[m])[i] = Nothing
  BY DEF EmptyStore, IdsOf
<1>5. ASSUME NEW gs, GuestGoes(t, gs) PROVE h \in gs
  BY <1>0, <1>5 DEF GuestGoes
<1>6. ASSUME h.fetch = g.fetch, h.manifest = g.manifest, h.tries = g.tries, h.pc = "fetch" => g.pc = "fetch"
      PROVE  Kept
  BY <1>3, <1>6
<1>7. ASSUME NEW e, h = Ended(g, e) \/ h = [Ended(g, e) EXCEPT !.strange = TRUE] PROVE Kept
  <2>1. h.fetch = g.fetch /\ h.manifest = g.manifest /\ h.tries = g.tries /\ h.pc = "ended"
    <3>. HIDE DEF g, h
    <3>. QED BY <1>0, <1>7, EndedTo DEF VmFields
  <2>. QED BY <1>6, <2>1
<1>8. ASSUME Checkout(t) PROVE Kept
  <2>. DEFINE there == [g EXCEPT !.commits = {g.bundle.new, g.bundle.base}, !.head = g.new]
              x == StartFetch(there, g.manifest, EmptyStore(Samples[g.manifest]))
              gs == IF g.new \notin there.commits THEN {Ended(g, 1)}
                    ELSE {x, [Ended(g, 1) EXCEPT !.strange = TRUE]}
  <2>1. GuestGoes(t, gs) /\ g.pc = "checkout"
    BY <1>8 DEF Checkout, GuestAt
  <2>2. h \in gs
    BY <1>5, <2>1
  <2>3. h = x \/ h = Ended(g, 1) \/ h = [Ended(g, 1) EXCEPT !.strange = TRUE]
    <3>. HIDE DEF there, x
    <3>. QED BY <2>2
  <2>4. ASSUME h = x PROVE Kept
    <3>1. DOMAIN there = VmFields /\ there.fetch = g.fetch
      BY <1>0 DEF VmFields
    <3>. HIDE DEF there, h
    <3>2. /\ h.manifest = g.manifest
          /\ \/ h.fetch = NewFetch(Samples[g.manifest], Cache, EmptyStore(Samples[g.manifest]))
             \/ h.pc = "ended" /\ h.fetch = Nothing
      BY <1>2, <2>1, <2>4, <3>1, StartFetchTo
    <3>3. FetchOf(NewFetch(Samples[g.manifest], Cache, EmptyStore(Samples[g.manifest])),
                  Samples[g.manifest], h.tries = 0)
      BY <1>2, <1>4, NewFetchOf
    <3>. QED BY <3>2, <3>3
  <2>. HIDE DEF Kept, x, h
  <2>. QED BY <1>7, <2>3, <2>4
<1>9. ASSUME Fetch(t) PROVE Kept
  <2>. DEFINE F == FetchSteps(g.fetch, Samples[g.manifest])
              gs == IF g.fetch.pc \notin {"done", "tool"} THEN {[g EXCEPT !.fetch = f] : f \in F}
                    ELSE IF FetchExit(g.fetch) = 1 THEN {Ended(g, 1)}
                    ELSE {[g EXCEPT !.pc = "verify"]}
  <2>1. GuestGoes(t, gs) /\ g.pc = "fetch"
    BY <1>9 DEF Fetch, GuestAt
  <2>2. h \in gs
    BY <1>5, <2>1
  <2>3. \/ g.fetch.pc \notin {"done", "tool"} /\ \E f \in F : h = [g EXCEPT !.fetch = f]
        \/ h = Ended(g, 1) \/ h = [g EXCEPT !.pc = "verify"]
    <3>. HIDE DEF F
    <3>. QED BY <2>2
  <2>4. ASSUME NEW f \in F, h = [g EXCEPT !.fetch = f], g.fetch.pc \notin {"done", "tool"} PROVE Kept
    <3>1. h.fetch = f /\ h.manifest = g.manifest /\ h.tries = g.tries
      BY <1>0, <2>4 DEF VmFields
    <3>2. ASSUME Valid(Samples[g.manifest]) PROVE FetchOf(f, Samples[g.manifest], g.tries = 0)
      <4>1. ListOf(Samples[g.manifest])
        BY <1>2, <3>2, ManifestAssumption DEF ListOf
      <4>. QED BY <1>3, <2>1, <2>4, <3>2, <4>1, FetchStep
    <3>. QED BY <3>1, <3>2
  <2>5. ASSUME h = [g EXCEPT !.pc = "verify"] PROVE Kept
    <3>1. h.fetch = g.fetch /\ h.manifest = g.manifest /\ h.tries = g.tries
      BY <1>0, <2>5 DEF VmFields
    <3>. QED BY <1>6, <2>1, <3>1
  <2>. HIDE DEF Kept, F, h
  <2>. QED BY <1>7, <2>3, <2>4, <2>5
<1>10. ASSUME Verify(t) \/ Build(t) \/ Scan(t) \/ VmDies(t) PROVE Kept
  <2>1. h.fetch = g.fetch /\ h.manifest = g.manifest /\ h.tries = g.tries
        /\ (h.pc = "fetch" => g.pc = "fetch")
    BY <1>0, <1>10, QuietKeeps
  <2>. QED BY <1>6, <2>1
<1>11. ASSUME Rerun(t) PROVE Kept
  <2>. DEFINE had == g.fetch.store
              Store(m) == [i \in DOMAIN EmptyStore(Samples[m]) |->
                             IF i \in DOMAIN had THEN had[i] ELSE Nothing]
  <2>1. PICK m \in Manifests :
          LET again == StartFetch(g, m, Store(m))
          IN  vm' = [vm EXCEPT ![t] = [again EXCEPT !.on = TRUE, !.tries = @ + 1, !.build = g.build,
                                                     !.strange = FALSE]]
    BY <1>11 DEF Rerun
  <2>. DEFINE again == StartFetch(g, m, Store(m))
  <2>2. /\ DOMAIN again = VmFields /\ again.manifest = m /\ again.tries = g.tries
        /\ \/ again.fetch = NewFetch(Samples[m], Cache, Store(m))
           \/ ~Valid(Samples[m])
    BY <1>0, StartFetchTo
  <2>3. h = [again EXCEPT !.on = TRUE, !.tries = @ + 1, !.build = g.build, !.strange = FALSE]
    BY <1>0, <2>1
  <2>4. FetchOf(NewFetch(Samples[m], Cache, Store(m)), Samples[m], FALSE)
    <3>1. DOMAIN Store(m) = IdsOf(Samples[m])
      BY <1>4
    <3>. HIDE DEF Store
    <3>. QED BY <3>1, NewFetchOf
  <2>. HIDE DEF again, Store
  <2>5. h.fetch = again.fetch /\ h.manifest = m /\ h.tries = g.tries + 1
    BY <2>2, <2>3 DEF VmFields
  <2>6. (h.tries = 0) = FALSE
    BY <1>2, <2>5
  <2>7. Kept
    <3>. HIDE DEF h
    <3>. QED BY <2>2, <2>4, <2>5, <2>6
  <2>. QED BY <2>7
<1>12. Kept
  BY <1>8, <1>9, <1>10, <1>11 DEF Guest
<1>. QED BY <1>1, <1>12 DEF FetchInv, There

(***************************************************************************)
(* The invariant of hosts and guests together.                             *)
(***************************************************************************)
LEMMA BenchInvariant == Spec => [](HostInv /\ GuestInv /\ FetchInv)
<1>. DEFINE Inv == HostInv /\ GuestInv /\ FetchInv
<1>1. Init => GuestInv /\ FetchInv
  BY ManifestAssumption DEF Init, GuestInv, FetchInv, There, NewVm
<1>2. HostInv /\ HostInv' /\ GuestInv /\ FetchInv /\ [Next]_vars => GuestInv' /\ FetchInv'
  <2>. SUFFICES ASSUME HostInv, GuestInv, FetchInv, [Next]_vars PROVE GuestInv' /\ FetchInv'
    OBVIOUS
  <2>1. CASE \E r \in Runs : Host(r)
    BY <2>1, HostGuestInv, HostFetchInv
  <2>2. CASE \E t \in Seconds : Guest(t)
    BY <2>2, GuestGuestInv, GuestFetchInv
  <2>3. CASE UNCHANGED vars
    BY <2>3 DEF vars, GuestInv, FetchInv, There
  <2>. QED BY <2>1, <2>2, <2>3 DEF Next, Over
<1>. QED BY <1>1, <1>2, HostInvariant, PTL DEF Spec

(***************************************************************************)
(* A run that ends with a verdict had the two commits it named built and   *)
(* compared, though bundles and refs are shared by runs of a second, a VM  *)
(* is used again, and both builds go through one target directory.         *)
(***************************************************************************)
THEOREM NamedCompared == Spec => []ComparesWhatItNamed
<1>1. GuestInv => ComparesWhatItNamed
  BY DEF GuestInv, GuestOf, ComparesWhatItNamed
<1>. QED BY <1>1, BenchInvariant, PTL

(***************************************************************************)
(* What fetch reports as ok stands in the store as the manifest says, and  *)
(* in a VM not used before the store holds nothing else, for any archives  *)
(* and any manifest that is valid, wherever a fetch is cut short.          *)
(***************************************************************************)
THEOREM StoreVerified == Spec => []StoredAreVerified
<1>1. FetchInv => StoredAreVerified
  <2>. SUFFICES ASSUME FetchInv, NEW t \in Seconds, There(t), vm[t].fetch # Nothing,
                       Valid(Samples[vm[t].manifest]), NEW s \in Range(Samples[vm[t].manifest])
                PROVE  LET f == vm[t].fetch IN
                       /\ s.id \in DOMAIN f.report /\ f.report[s.id] = "ok" => Matches(s, f.store[s.id])
                       /\ s.id \in DOMAIN f.report /\ vm[t].tries = 0 /\ f.store[s.id] # Nothing =>
                            Matches(s, f.store[s.id])
    BY DEF StoredAreVerified
  <2>1. FetchOf(vm[t].fetch, Samples[vm[t].manifest], vm[t].tries = 0)
    BY DEF FetchInv
  <2>2. PICK i \in DOMAIN Samples[vm[t].manifest] : s = Samples[vm[t].manifest][i]
    BY DEF Range
  <2>. QED BY <2>1, <2>2 DEF FetchOf
<1>. QED BY <1>1, BenchInvariant, PTL

-----------------------------------------------------------------------------
(***************************************************************************)
(* The gate.  What is rolled up of a sample is what was printed of it.     *)
(***************************************************************************)
\* The lines printed of the sample i.
LinesOf(x, i) ==
  /\ x \in Seq(Range(x))
  /\ \A r \in Range(x) : /\ IsStrictPrefix(<<"store">>, r.path) /\ r.path[2] = i
                         /\ r.rec \in 0..2 /\ r.comp \in 0..2

\* What a navctl printed over the samples in ok, Nothing where it failed.
PrintedOf(x, ok) ==
  /\ DOMAIN x = ok
  /\ \A i \in ok : x[i] # Nothing => LinesOf(x[i], i)

\* A sample of which something was printed.
Seen(x, i) == i \in DOMAIN x /\ x[i] # Nothing /\ x[i] # <<>>

\* The roll-up of the lines y.
RolledUp(r, y) ==
  /\ r.files = Len(y) /\ r.files > 0 /\ r.rec \in 0..2 /\ r.comp \in 0..2
  /\ \E z \in Range(y) : z.rec = r.rec
  /\ \A z \in Range(y) : z.rec <= r.rec
  /\ \E z \in Range(y) : z.comp = r.comp
  /\ \A z \in Range(y) : z.comp <= r.comp

LEMMA MaxRank ==
  ASSUME NEW S \in SUBSET (0..2), S # {}
  PROVE  Max(S) \in S /\ \A y \in S : y <= Max(S)
<1>1. \E x \in S : \A y \in S : x >= y
  <2>1. CASE 2 \in S
    BY <2>1
  <2>2. CASE 2 \notin S /\ 1 \in S
    BY <2>2
  <2>3. CASE 2 \notin S /\ 1 \notin S
    <3>1. PICK x \in S : TRUE
      OBVIOUS
    <3>2. \A y \in S : y = 0
      BY <2>3
    <3>3. \A y \in S : x >= y
      BY <3>1, <3>2
    <3>. QED BY <3>3
  <2>. QED BY <2>1, <2>2, <2>3
<1>2. Max(S) \in S /\ \A y \in S : Max(S) >= y
  BY <1>1 DEF Max
<1>. QED BY <1>2

LEMMA LineIs ==
  ASSUME NEW ok, NEW x, PrintedOf(x, ok), NEW l
  PROVE  l \in DOMAIN Printed(x) <=>
           \E i \in ok : x[i] # Nothing /\ \E n \in DOMAIN x[i] : l = <<i, n>>
<1>. DEFINE lines == UNION {{<<i, n>> : n \in DOMAIN x[i]} : i \in {j \in DOMAIN x : x[j] # Nothing}}
<1>1. DOMAIN Printed(x) = lines
  BY DEF Printed
<1>. QED BY <1>1 DEF PrintedOf

LEMMA LineKept ==
  ASSUME NEW ok, NEW x, PrintedOf(x, ok), NEW i \in ok, x[i] # Nothing, NEW n \in DOMAIN x[i]
  PROVE  Printed(x)[<<i, n>>] = x[i][n] /\ x[i][n] \in Range(x[i])
<1>1. <<i, n>> \in DOMAIN Printed(x)
  BY LineIs
<1>2. Printed(x)[<<i, n>>] = x[i][n]
  BY <1>1 DEF Printed
<1>3. x[i][n] \in Range(x[i])
  BY DEF Range
<1>. QED BY <1>2, <1>3

LEMMA LineOfSample ==
  ASSUME NEW ids, NEW ok \in SUBSET ids, NEW x, PrintedOf(x, ok),
         NEW i \in ok, x[i] # Nothing, NEW n \in DOMAIN x[i]
  PROVE  SampleId(<<"store">>, Printed(x)[<<i, n>>].path, ids) = i
<1>1. Printed(x)[<<i, n>>] = x[i][n] /\ x[i][n] \in Range(x[i])
  BY LineKept
<1>2. IsStrictPrefix(<<"store">>, x[i][n].path) /\ x[i][n].path[2] = i
  BY <1>1 DEF PrintedOf, LinesOf
<1>3. Len(<<"store">>) + 1 = 2
  OBVIOUS
<1>4. SampleId(<<"store">>, x[i][n].path, ids) = i
  BY <1>2, <1>3 DEF SampleId
<1>. QED BY <1>1, <1>4

\* The lines of the sample i are counted, and ranked, as they were printed.
LEMMA RollupTells ==
  ASSUME NEW ids, NEW ok \in SUBSET ids, NEW x, PrintedOf(x, ok), NEW i \in ids
  PROVE  LET r == Rollup(Printed(x), <<"store">>, ids)[i]
         IN  IF Seen(x, i) THEN RolledUp(r, x[i]) ELSE r = NoOutcome
<1>. DEFINE P == Printed(x)
            mine == {n \in DOMAIN P : SampleId(<<"store">>, P[n].path, ids) = i}
            out == [rec |-> Max({P[n].rec : n \in mine}), comp |-> Max({P[n].comp : n \in mine}),
                    files |-> Cardinality(mine)]
            r == Rollup(P, <<"store">>, ids)[i]
<1>1. r = IF mine = {} THEN NoOutcome ELSE out
  BY DEF Rollup
<1>2. ASSUME NEW l PROVE l \in mine <=> i \in ok /\ x[i] # Nothing /\ \E n \in DOMAIN x[i] : l = <<i, n>>
  <2>1. ASSUME NEW j \in ok, x[j] # Nothing, NEW n \in DOMAIN x[j], l = <<j, n>>
        PROVE  SampleId(<<"store">>, P[l].path, ids) = j
    BY <2>1, LineOfSample
  <2>2. l \in DOMAIN P <=> \E j \in ok : x[j] # Nothing /\ \E n \in DOMAIN x[j] : l = <<j, n>>
    BY LineIs
  <2>. HIDE DEF P
  <2>. QED BY <2>1, <2>2
<1>3. CASE ~Seen(x, i)
  <2>1. mine = {}
    <3>. HIDE DEF mine
    <3>1. i \in ok /\ x[i] # Nothing => DOMAIN x[i] = {}
      BY <1>3 DEF Seen, PrintedOf
    <3>. QED BY <1>2, <3>1
  <2>. HIDE DEF mine, out
  <2>. QED BY <1>1, <1>3, <2>1
<1>4. CASE Seen(x, i)
  <2>. DEFINE y == x[i]
  <2>0. i \in ok /\ y # Nothing /\ y # <<>> /\ LinesOf(y, i)
    BY <1>4 DEF Seen, PrintedOf
  <2>1. Len(y) \in Nat /\ DOMAIN y = 1..Len(y) /\ Len(y) > 0
    <3>. HIDE DEF y
    <3>. QED BY <2>0 DEF LinesOf
  <2>2. \A l : l \in mine <=> \E n \in 1..Len(y) : l = <<i, n>>
    <3>1. \A l : l \in mine <=> \E n \in DOMAIN y : l = <<i, n>>
      BY <1>2, <2>0, Zenon
    <3>. QED BY <2>1, <3>1, Zenon
  <2>3. \A n \in 1..Len(y) : P[<<i, n>>] = y[n] /\ y[n] \in Range(y) /\ <<i, n>> \in mine
    <3>1. ASSUME NEW n \in DOMAIN y PROVE P[<<i, n>>] = y[n] /\ y[n] \in Range(y)
      <4>1. i \in ok /\ x[i] # Nothing /\ n \in DOMAIN x[i]
        BY <2>0, <3>1
      <4>2. Printed(x)[<<i, n>>] = x[i][n] /\ x[i][n] \in Range(x[i])
        BY <4>1, LineKept
      <4>. QED BY <4>2
    <3>2. \A n \in 1..Len(y) : <<i, n>> \in mine
      BY <2>2, Zenon
    <3>. HIDE DEF P, mine, y
    <3>. QED BY <2>1, <3>1, <3>2
  <2>. HIDE DEF mine, P
  <2>4. Cardinality(mine) = Len(y)
    <3>. HIDE DEF y
    <3>. DEFINE f == [n \in 1..Len(y) |-> <<i, n>>]
    <3>1. f \in [1..Len(y) -> mine]
      BY <2>3
    <3>2. \A a, b \in 1..Len(y) : f[a] = f[b] => a = b
      OBVIOUS
    <3>3. \A l \in mine : \E n \in 1..Len(y) : f[n] = l
      BY <2>2
    <3>. HIDE DEF f
    <3>4. f \in Bijection(1..Len(y), mine)
      BY <3>1, <3>2, <3>3 DEF Bijection, Injection, Surjection, IsInjective
    <3>5. ExistsBijection(1..Len(y), mine)
      BY <3>4 DEF ExistsBijection
    <3>. QED BY <2>1, <3>5, FS_CountingElements
  <2>. DEFINE R == {P[n].rec : n \in mine}
              C == {P[n].comp : n \in mine}
  <2>5. ASSUME NEW z \in Range(y) PROVE \E l \in mine : P[l] = z
    <3>. HIDE DEF y
    <3>1. PICK n \in DOMAIN y : z = y[n]
      BY <2>5 DEF Range
    <3>. QED BY <2>1, <2>3, <3>1
  <2>6. ASSUME NEW l \in mine PROVE P[l] \in Range(y)
    <3>. HIDE DEF y
    <3>. QED BY <2>2, <2>3, <2>6
  <2>7. \A z \in Range(y) : z.rec \in 0..2 /\ z.comp \in 0..2
    <3>. HIDE DEF y
    <3>. QED BY <2>0 DEF LinesOf
  <2>8. mine # {}
    <3>. HIDE DEF y
    <3>1. 1 \in 1..Len(y)
      BY <2>1
    <3>. QED BY <2>3, <3>1
  <2>9. R \in SUBSET (0..2) /\ R # {} /\ C \in SUBSET (0..2) /\ C # {}
    <3>. HIDE DEF y
    <3>. QED BY <2>6, <2>7, <2>8
  <2>10. \A z \in Range(y) : z.rec \in R /\ z.comp \in C
    <3>. HIDE DEF y
    <3>. QED BY <2>5
  <2>11. /\ \A v \in R : \E z \in Range(y) : z.rec = v
         /\ \A v \in C : \E z \in Range(y) : z.comp = v
    <3>. HIDE DEF y
    <3>. QED BY <2>6
  <2>12. r = out /\ out.rec = Max(R) /\ out.comp = Max(C) /\ out.files = Len(y)
    <3>1. r = out
      <4>. HIDE DEF out
      <4>. QED BY <1>1, <2>8
    <3>. HIDE DEF y, r
    <3>. QED BY <2>4, <3>1
  <2>. HIDE DEF R, C, out, y, r
  <2>13. Max(R) \in R /\ (\A v \in R : v <= Max(R)) /\ Max(C) \in C /\ (\A v \in C : v <= Max(C))
    BY <2>9, MaxRank
  <2>14. RolledUp(r, y)
    BY <2>1, <2>9, <2>10, <2>11, <2>12, <2>13 DEF RolledUp
  <2>. QED BY <1>4, <2>14 DEF y, r, P
<1>. QED BY <1>3, <1>4

\* No line of a comparison lies under no sample.
LEMMA NoneStray ==
  ASSUME NEW ids, NEW ok \in SUBSET ids, NEW x, PrintedOf(x, ok)
  PROVE  /\ DOMAIN Printed(x) # {} => \E i \in ids : Seen(x, i)
         /\ \A i \in ids : Present(Rollup(Printed(x), <<"store">>, ids)[i]) <=> Seen(x, i)
<1>1. ASSUME NEW l \in DOMAIN Printed(x) PROVE \E i \in ids : Seen(x, i)
  <2>1. PICK i \in ok : x[i] # Nothing /\ \E n \in DOMAIN x[i] : l = <<i, n>>
    BY <1>1, LineIs
  <2>2. x[i] # <<>>
    BY <2>1
  <2>. QED BY <2>1, <2>2 DEF Seen, PrintedOf
<1>2. ASSUME NEW i \in ids PROVE Present(Rollup(Printed(x), <<"store">>, ids)[i]) <=> Seen(x, i)
  <2>. DEFINE r == Rollup(Printed(x), <<"store">>, ids)[i]
  <2>1. IF Seen(x, i) THEN RolledUp(r, x[i]) ELSE r = NoOutcome
    BY RollupTells
  <2>. HIDE DEF r
  <2>2. Present(r) <=> Seen(x, i)
    BY <2>1 DEF Present, RolledUp, NoOutcome
  <2>. QED BY <2>2 DEF r
<1>. QED BY <1>1, <1>2

\* A sample fails the gate just when something of it was lost.
LostOf(s, ok, base, new) ==
  \/ s.id \notin ok
  \/ base[s.id] = Nothing \/ new[s.id] = Nothing
  \/ LET b == Range(base[s.id])
         n == Range(new[s.id])
         e == s.expected
     IN  \/ n = {}
         \/ Len(new[s.id]) < Len(base[s.id])
         \/ \E x \in n : b # {} /\ \A y \in b : x.comp > y.comp
         \/ e # NoOutcome /\ \E x \in n : x.comp > e.comp
         \/ s.scope = "in" /\ \E y \in b : \A x \in n : x.rec < y.rec
         \/ s.scope = "in" /\ e # NoOutcome /\ \A x \in n : x.rec < e.rec

LEMMA GateOfSample ==
  ASSUME NEW ids, NEW ok \in SUBSET ids, NEW base, PrintedOf(base, ok), NEW new, PrintedOf(new, ok),
         NEW s, s.id \in ids, s.expected.rec \in 0..2, s.expected.comp \in 0..2,
         NEW bad, s.id \in bad <=> s.id \notin ok \/ base[s.id] = Nothing \/ new[s.id] = Nothing
  PROVE  LET rb == Rollup(Printed(base), <<"store">>, ids)
             rn == Rollup(Printed(new), <<"store">>, ids)
         IN  Failures(s, rb[s.id], rn[s.id], bad) = {} <=> ~LostOf(s, ok, base, new)
<1>. DEFINE i == s.id
            rb == Rollup(Printed(base), <<"store">>, ids)[i]
            rn == Rollup(Printed(new), <<"store">>, ids)[i]
<1>1. /\ IF Seen(base, i) THEN RolledUp(rb, base[i]) ELSE rb = NoOutcome
      /\ IF Seen(new, i) THEN RolledUp(rn, new[i]) ELSE rn = NoOutcome
  BY RollupTells
<1>. HIDE DEF rb, rn
<1>2. CASE i \in bad
  <2>1. "fault" \in Failures(s, rb, rn, bad)
    BY <1>2 DEF Failures
  <2>2. LostOf(s, ok, base, new)
    BY <1>2 DEF LostOf
  <2>. QED BY <2>1, <2>2 DEF rb, rn
<1>3. CASE i \notin bad
  <2>1. /\ i \in ok /\ base[i] # Nothing /\ new[i] # Nothing
        /\ LinesOf(base[i], i) /\ LinesOf(new[i], i)
        /\ DOMAIN base = ok /\ DOMAIN new = ok
    BY <1>3 DEF PrintedOf
  <2>2. /\ Seen(base, i) <=> Range(base[i]) # {}
        /\ Seen(new, i) <=> Range(new[i]) # {}
        /\ Range(base[i]) = {} => Len(base[i]) = 0
        /\ Len(base[i]) \in Nat /\ Len(new[i]) \in Nat
    <3>1. ASSUME NEW y, y \in Seq(Range(y))
          PROVE  Len(y) \in Nat /\ (y # <<>> <=> Range(y) # {}) /\ (Range(y) = {} => Len(y) = 0)
      <4>1. Len(y) \in Nat /\ DOMAIN y = 1..Len(y) /\ (y = <<>> <=> Len(y) = 0)
        BY <3>1
      <4>2. Len(y) > 0 => 1 \in DOMAIN y
        BY <4>1
      <4>3. Len(y) = 0 => DOMAIN y = {}
        BY <4>1
      <4>4. Range(y) # {} <=> DOMAIN y # {}
        BY DEF Range
      <4>. QED BY <4>1, <4>2, <4>3, <4>4
    <3>. QED BY <2>1, <3>1 DEF Seen, LinesOf
  <2>3. CASE ~Seen(new, i)
    <3>0. ~Present(rn)
      BY <1>1, <2>3 DEF Present, NoOutcome
    <3>1. "missing" \in Failures(s, rb, rn, bad)
      BY <1>3, <3>0 DEF Failures
    <3>2. LostOf(s, ok, base, new)
      BY <2>2, <2>3 DEF LostOf
    <3>. QED BY <3>1, <3>2 DEF rb, rn
  <2>4. CASE Seen(new, i)
    <3>. DEFINE B == Range(base[i])
                N == Range(new[i])
                e == s.expected
    <3>1. RolledUp(rn, new[i]) /\ Present(rn)
      BY <1>1, <2>4 DEF RolledUp, Present
    <3>2. Present(rb) <=> Seen(base, i)
      BY <1>1 DEF RolledUp, Present, NoOutcome
    <3>3. Failures(s, rb, rn, bad) = {} <=>
            /\ ~(Present(rb) /\ rn.files < rb.files)
            /\ ~(Present(rb) /\ rn.comp > rb.comp)
            /\ ~(Present(rb) /\ rn.rec < rb.rec /\ s.scope = "in")
            /\ ~(e # NoOutcome /\ rn.comp > e.comp)
            /\ ~(e # NoOutcome /\ rn.rec < e.rec /\ s.scope = "in")
      BY <1>3, <3>1 DEF Failures, Below, WorseComp, WorseRec
    <3>4. LostOf(s, ok, base, new) <=>
            \/ Len(new[i]) < Len(base[i])
            \/ \E x \in N : B # {} /\ \A y \in B : x.comp > y.comp
            \/ e # NoOutcome /\ \E x \in N : x.comp > e.comp
            \/ s.scope = "in" /\ \E y \in B : \A x \in N : x.rec < y.rec
            \/ s.scope = "in" /\ e # NoOutcome /\ \A x \in N : x.rec < e.rec
      BY <2>1, <2>2, <2>4 DEF LostOf
    <3>5. Len(new[i]) < Len(base[i]) <=> Present(rb) /\ rn.files < rb.files
      BY <1>1, <2>2, <3>1, <3>2 DEF RolledUp
    <3>6. \A z \in B \cup N : z.comp \in 0..2 /\ z.rec \in 0..2
      BY <2>1 DEF LinesOf
    <3>7. Seen(base, i) => RolledUp(rb, base[i])
      BY <1>1
    <3>. HIDE DEF B, N, e
    <3>8. (\E x \in N : B # {} /\ \A y \in B : x.comp > y.comp) <=> Present(rb) /\ rn.comp > rb.comp
      BY <2>2, <3>1, <3>2, <3>6, <3>7 DEF RolledUp, B, N
    <3>9. (\E y \in B : \A x \in N : x.rec < y.rec) <=> Present(rb) /\ rn.rec < rb.rec
      BY <2>2, <3>1, <3>2, <3>6, <3>7 DEF RolledUp, B, N
    <3>10. e.rec \in 0..2 /\ e.comp \in 0..2
      BY DEF e
    <3>11. (\E x \in N : x.comp > e.comp) <=> rn.comp > e.comp
      BY <3>1, <3>6, <3>10 DEF RolledUp, N
    <3>12. (\A x \in N : x.rec < e.rec) <=> rn.rec < e.rec
      BY <3>1, <3>6, <3>10 DEF RolledUp, N
    <3>. QED BY <3>3, <3>4, <3>5, <3>8, <3>9, <3>11, <3>12 DEF rb, rn
  <2>. QED BY <2>3, <2>4
<1>. QED BY <1>2, <1>3

\* What a verdict says, for any samples and anything the navctls print.
LEMMA VerdictTells ==
  ASSUME NEW samples, NEW ok, NEW base, PrintedOf(base, ok), NEW new, PrintedOf(new, ok),
         ok \subseteq {s.id : s \in Range(samples)},
         \A s \in Range(samples) : s.expected.rec \in 0..2 /\ s.expected.comp \in 0..2
  PROVE  LET v == Verdict(samples, ok, base, new)
         IN  /\ v.exit \in {0, 2}
             /\ v.exit = 0 <=> ~v.lost
             /\ v.exit = 0 => ok = {s.id : s \in Range(samples)}
<1>. DEFINE ids == {s.id : s \in Range(samples)}
            v == Verdict(samples, ok, base, new)
            failed == {<<"store", i>> : i \in Crashed(base) \cup Crashed(new)}
            bad == (ids \ ok) \cup ScanFaults(failed, <<"store">>, ids)
            pb == Printed(base)
            pn == Printed(new)
            rb == Rollup(pb, <<"store">>, ids)
            rn == Rollup(pn, <<"store">>, ids)
<1>0. ok \in SUBSET ids
  OBVIOUS
<1>1. v.exit = GateExit(samples, <<"store">>, pb, pn, bad)
      /\ v.lost = (Lost(samples, ok, base, new) \/ DOMAIN pb = {})
  BY DEF Verdict
<1>2. \A i \in Crashed(base) \cup Crashed(new) : SampleId(<<"store">>, <<"store", i>>, ids) = i
  <2>1. ASSUME NEW i \in ids PROVE SampleId(<<"store">>, <<"store", i>>, ids) = i
    <3>. HIDE DEF ids
    <3>1. IsStrictPrefix(<<"store">>, <<"store", i>>)
      <4>1. Len(<<"store">>) = 1 /\ Len(<<"store", i>>) = 2
        OBVIOUS
      <4>2. SubSeq(<<"store">>, 1, 1) = SubSeq(<<"store", i>>, 1, 1)
        OBVIOUS
      <4>3. <<"store">> # <<"store", i>>
        BY <4>1
      <4>. QED BY <4>1, <4>2, <4>3 DEF IsStrictPrefix, IsPrefix
    <3>2. Len(<<"store">>) + 1 = 2 /\ <<"store", i>>[2] = i
      OBVIOUS
    <3>. QED BY <2>1, <3>1, <3>2 DEF SampleId
  <2>2. Crashed(base) \cup Crashed(new) \subseteq ids
    BY <1>0 DEF Crashed, PrintedOf
  <2>. HIDE DEF ids
  <2>. QED BY <2>1, <2>2
<1>3. ScanFaults(failed, <<"store">>, ids) = Crashed(base) \cup Crashed(new)
  <2>. HIDE DEF ids
  <2>. QED BY <1>2 DEF ScanFaults
<1>4. \A i \in ids : i \in bad <=> i \notin ok \/ base[i] = Nothing \/ new[i] = Nothing
  <2>. HIDE DEF ids, failed
  <2>. QED BY <1>0, <1>3 DEF Crashed, PrintedOf
<1>5. bad \subseteq ids
  <2>. HIDE DEF ids, failed
  <2>. QED BY <1>0, <1>3 DEF Crashed, PrintedOf
<1>. HIDE DEF bad, failed
<1>6. \A s \in Range(samples) : s.id \in ids
  OBVIOUS
<1>7. \A i \in ids : \E s \in Range(samples) : s.id = i
  OBVIOUS
<1>8. \A s \in Range(samples) : Failures(s, rb[s.id], rn[s.id], bad) = {} <=> ~LostOf(s, ok, base, new)
  <2>. HIDE DEF ids
  <2>. QED BY <1>0, <1>4, <1>6, GateOfSample, ZenonT(60)
<1>9. Lost(samples, ok, base, new) <=> \E s \in Range(samples) : LostOf(s, ok, base, new)
  BY DEF Lost, LostOf
<1>10. DOMAIN pb # {} <=> \E i \in ids : Present(rb[i])
  <2>. HIDE DEF ids
  <2>1. ASSUME NEW i \in ids, Seen(base, i) PROVE DOMAIN pb # {}
    <3>1. i \in ok /\ base[i] # Nothing /\ base[i] # <<>> /\ base[i] \in Seq(Range(base[i]))
      BY <2>1 DEF Seen, PrintedOf, LinesOf
    <3>2. 1 \in DOMAIN base[i]
      BY <3>1
    <3>3. <<i, 1>> \in DOMAIN pb
      BY <1>0, <3>1, <3>2, LineIs
    <3>. QED BY <3>3
  <2>. QED BY <1>0, <2>1, NoneStray
<1>11. DOMAIN pn # {} => \E i \in ids : Present(rn[i])
  <2>. HIDE DEF ids
  <2>. QED BY <1>0, NoneStray
<1>. HIDE DEF rb, rn, pb, pn
<1>12. v.exit = IF Passed(samples, rb, rn, bad) THEN 0 ELSE 2
  <2>1. ~(DOMAIN pb # {} /\ \A i \in ids : ~Present(rb[i])) /\ ~(DOMAIN pn # {} /\ \A i \in ids : ~Present(rn[i]))
    <3>. HIDE DEF ids
    <3>. QED BY <1>10, <1>11
  <2>2. v.exit = CASE (DOMAIN pb # {} /\ \A i \in ids : ~Present(rb[i])) \/ (DOMAIN pn # {} /\ \A i \in ids : ~Present(rn[i])) -> 1
                 [] Passed(samples, rb, rn, bad) -> 0
                 [] OTHER -> 2
    <3>. HIDE DEF v
    <3>. QED BY <1>1 DEF GateExit, rb, rn
  <2>. HIDE DEF v, ids
  <2>. QED BY <2>1, <2>2
<1>. HIDE DEF v
<1>13. Passed(samples, rb, rn, bad) <=>
         (\E i \in ids : Present(rb[i])) /\ \A s \in Range(samples) : ~LostOf(s, ok, base, new)
  <2>1. Passed(samples, rb, rn, bad) <=>
          /\ \E i \in ids : Present(rb[i])
          /\ bad \subseteq ids
          /\ \A s \in Range(samples) : Failures(s, rb[s.id], rn[s.id], bad) = {}
    BY Zenon DEF Passed
  <2>. HIDE DEF ids
  <2>. QED BY <1>5, <1>8, <2>1
<1>14. (\A s \in Range(samples) : ~LostOf(s, ok, base, new)) => ids \subseteq ok
  <2>. HIDE DEF ids
  <2>. QED BY <1>7 DEF LostOf
<1>. HIDE DEF ids
<1>16. v.exit \in {0, 2} /\ (v.exit = 0 <=> Passed(samples, rb, rn, bad))
  BY <1>12
<1>17. ~v.lost <=> Passed(samples, rb, rn, bad)
  BY <1>1, <1>9, <1>10, <1>13
<1>18. /\ v.exit \in {0, 2} /\ (v.exit = 0 <=> ~v.lost) /\ (v.exit = 0 => ok = ids)
  BY <1>0, <1>13, <1>14, <1>16, <1>17
<1>. QED BY <1>18 DEF v, ids

\* What the end of a guest's comparison says.
GateOf(g) ==
  g.pc = "ended" /\ g.exit \in {0, 2} =>
    \/ g.exit = 2 /\ g.ok = {}
    \/ /\ g.exit = 0 <=> ~g.lost
       /\ g.exit = 0 => g.ok = IdsOf(Samples[g.manifest])

GateInv == \A t \in Seconds : There(t) => GateOf(vm[t])

LEMMA HostGateInv ==
  ASSUME HostInv, GuestInv, GateInv, NEW r \in Runs, Host(r)
  PROVE  GateInv'
<1>. SUFFICES ASSUME NEW t \in Seconds, There(t)'
              PROVE  GateOf(vm'[t])
  BY DEF GateInv, GateOf
<1>1. HostOn(t)
  BY HostOnVm
<1>2. CASE There(t) /\ SameGuest(vm[t], vm'[t])
  <2>1. vm'[t].pc = vm[t].pc /\ vm'[t].exit = vm[t].exit /\ vm'[t].ok = vm[t].ok /\ vm'[t].lost = vm[t].lost
    BY <1>2 DEF SameGuest, VmFields
  <2>2. vm[t].pc = "ended" => vm'[t].manifest = vm[t].manifest
    BY <1>2 DEF SameGuest
  <2>. QED BY <1>2, <2>1, <2>2 DEF GateInv, GateOf
<1>3. CASE vm'[t] = NewVm(vm'[t].owner)
  <2>1. \A q : NewVm(q).pc = "idle"
    BY DEF NewVm
  <2>. QED BY <1>3, <2>1 DEF GateOf
<1>4. CASE /\ There(t) /\ vm[t].owner = vm'[t].owner /\ run[vm'[t].owner].pc = "exec"
           /\ vm'[t] = [vm[t] EXCEPT !.pc = "checkout", !.new = run[vm'[t].owner].new,
                                     !.base = run[vm'[t].owner].base]
  <2>1. vm'[t].pc = "checkout"
    BY <1>4 DEF HostInv, Shape, VmFields
  <2>. QED BY <2>1 DEF GateOf
<1>. QED BY <1>1, <1>2, <1>3, <1>4 DEF HostOn

\* What a navctl may print is what a sample's lines are.
LEMMA ScansPrinted ==
  ASSUME NEW m \in Manifests, NEW ok \in SUBSET IdsOf(Samples[m]), NEW x \in ScansOf(ok)
  PROVE  PrintedOf(x, ok)
<1>1. x \in Scans(ok) /\ \A i \in ok : x[i] = Nothing \/ x[i] \in Findings[i]
  BY DEF ScansOf
<1>2. DOMAIN x = ok
  BY <1>1 DEF Scans
<1>3. ASSUME NEW i \in ok, x[i] # Nothing PROVE LinesOf(x[i], i)
  <2>1. PICK s \in Range(Samples[m]) : s.id = i
    BY DEF IdsOf
  <2>2. x[i] \in Findings[s.id]
    BY <1>1, <1>3, <2>1
  <2>. QED BY <2>1, <2>2, FindingsAssumption DEF LinesOf
<1>. QED BY <1>2, <1>3 DEF PrintedOf

LEMMA VerdictsTell ==
  ASSUME NEW w \in Verdicts, w.manifest \in Manifests
  PROVE  /\ w.verdict.exit \in {0, 2}
         /\ w.verdict.exit = 0 <=> ~w.verdict.lost
         /\ w.verdict.exit = 0 => w.ok = IdsOf(Samples[w.manifest])
<1>. DEFINE All(m) == UNION {
              {[manifest |-> m, ok |-> ok, verdict |-> Verdict(Samples[m], ok, base, new)] :
                 base \in ScansOf(ok), new \in ScansOf(ok)} :
              ok \in SUBSET IdsOf(Samples[m])}
<1>2. PICK m \in Manifests : w \in All(m)
  BY DEF Verdicts, IdsOf
<1>3. PICK ok \in SUBSET IdsOf(Samples[m]) :
        w \in {[manifest |-> m, ok |-> ok, verdict |-> Verdict(Samples[m], ok, base, new)] :
                 base \in ScansOf(ok), new \in ScansOf(ok)}
  BY <1>2
<1>4. PICK base \in ScansOf(ok), new \in ScansOf(ok) :
        w = [manifest |-> m, ok |-> ok, verdict |-> Verdict(Samples[m], ok, base, new)]
  BY <1>3
<1>5. PrintedOf(base, ok) /\ PrintedOf(new, ok)
  BY ScansPrinted
<1>6. \A s \in Range(Samples[m]) : s.expected.rec \in 0..2 /\ s.expected.comp \in 0..2
  BY FindingsAssumption
<1>. DEFINE v == Verdict(Samples[m], ok, base, new)
<1>7. /\ v.exit \in {0, 2}
      /\ v.exit = 0 <=> ~v.lost
      /\ v.exit = 0 => ok = IdsOf(Samples[m])
  <2>1. ok \subseteq {s.id : s \in Range(Samples[m])}
    BY DEF IdsOf
  <2>. QED BY <1>5, <1>6, <2>1, VerdictTells DEF IdsOf
<1>8. w.verdict = v /\ w.ok = ok /\ w.manifest = m
  <2>. HIDE DEF v
  <2>. QED BY <1>4 DEF v
<1>. HIDE DEF v
<1>. QED BY <1>7, <1>8

LEMMA GuestGateInv ==
  ASSUME HostInv, GuestInv, GateInv, NEW t \in Seconds, Guest(t)
  PROVE  GateInv'
<1>. DEFINE g == vm[t]
            h == vm'[t]
<1>0. DOMAIN g = VmFields /\ DOMAIN vm = Seconds
  BY DEF HostInv, Shape
<1>1. There(t) /\ \A u \in Seconds \ {t} : vm'[u] = vm[u]
  BY GuestStep DEF HostInv, GuestMoves
<1>2. GateOf(g) /\ g.manifest \in Manifests /\ (g.pc \in {"fetch", "verify"} => g.ok = {})
  BY <1>1 DEF GateInv, GuestInv, GuestOf
<1>3. ASSUME NEW gs, GuestGoes(t, gs) PROVE h \in gs
  BY <1>0, <1>3 DEF GuestGoes
<1>4. ASSUME h.pc = "ended" => h.exit = 1 PROVE GateOf(h)
  <2>. HIDE DEF h
  <2>. QED BY <1>4 DEF GateOf
<1>5. ASSUME h = Ended(g, 1) \/ h = [Ended(g, 1) EXCEPT !.strange = TRUE] PROVE GateOf(h)
  <2>1. h.exit = 1
    <3>. HIDE DEF g, h
    <3>. QED BY <1>0, <1>5, EndedTo
  <2>. QED BY <1>4, <2>1
<1>6. ASSUME Checkout(t) PROVE GateOf(h)
  <2>. DEFINE there == [g EXCEPT !.commits = {g.bundle.new, g.bundle.base}, !.head = g.new]
              x == StartFetch(there, g.manifest, EmptyStore(Samples[g.manifest]))
              gs == IF g.new \notin there.commits THEN {Ended(g, 1)}
                    ELSE {x, [Ended(g, 1) EXCEPT !.strange = TRUE]}
  <2>1. h \in gs
    BY <1>3, <1>6 DEF Checkout
  <2>2. DOMAIN there = VmFields
    BY <1>0
  <2>3. h = x \/ h = Ended(g, 1) \/ h = [Ended(g, 1) EXCEPT !.strange = TRUE]
    <3>. HIDE DEF there, x
    <3>. QED BY <2>1
  <2>4. x.pc = "ended" => x.exit = 1
    <3>. HIDE DEF there
    <3>. QED BY <2>2, StartFetchTo
  <2>. HIDE DEF x, h
  <2>. QED BY <1>4, <1>5, <2>3, <2>4
<1>7. ASSUME Fetch(t) PROVE GateOf(h)
  <2>. DEFINE F == FetchSteps(g.fetch, Samples[g.manifest])
              gs == IF g.fetch.pc \notin {"done", "tool"} THEN {[g EXCEPT !.fetch = f] : f \in F}
                    ELSE IF FetchExit(g.fetch) = 1 THEN {Ended(g, 1)}
                    ELSE {[g EXCEPT !.pc = "verify"]}
  <2>1. h \in gs /\ g.pc = "fetch"
    BY <1>3, <1>7 DEF Fetch, GuestAt
  <2>2. (\E f \in F : h = [g EXCEPT !.fetch = f]) \/ h = Ended(g, 1) \/ h = [g EXCEPT !.pc = "verify"]
    <3>. HIDE DEF F
    <3>. QED BY <2>1
  <2>3. ASSUME NEW f, h = [g EXCEPT !.fetch = f] \/ h = [g EXCEPT !.pc = "verify"] PROVE GateOf(h)
    <3>1. h.pc # "ended"
      BY <1>0, <2>1, <2>3 DEF VmFields
    <3>. QED BY <1>4, <3>1
  <2>. HIDE DEF F, h
  <2>. QED BY <1>5, <2>2, <2>3
<1>8. ASSUME Verify(t) PROVE GateOf(h)
  <2>. DEFINE ok == Verified(Samples[g.manifest], g.fetch.store)
              b == NewBuild(g.head, g.base, g.commits, "out", {"dated"}, Worktrees(g))
              gs == IF ok = {} THEN {Ended(g, 2)}
                    ELSE {[g EXCEPT !.pc = "build", !.ok = ok, !.build = b]}
  <2>1. h \in gs /\ g.pc = "verify"
    BY <1>3, <1>8 DEF Verify, GuestAt
  <2>. HIDE DEF ok, b
  <2>2. h = Ended(g, 2) \/ h = [g EXCEPT !.pc = "build", !.ok = ok, !.build = b]
    BY <2>1
  <2>3. ASSUME h = [g EXCEPT !.pc = "build", !.ok = ok, !.build = b] PROVE GateOf(h)
    <3>1. h.pc = "build"
      BY <1>0, <2>3 DEF VmFields
    <3>. QED BY <1>4, <3>1
  <2>4. ASSUME h = Ended(g, 2) PROVE GateOf(h)
    <3>1. h.exit = 2 /\ h.ok = g.ok
      BY <1>0, <2>4 DEF VmFields, Ended
    <3>. HIDE DEF h
    <3>. QED BY <1>2, <2>1, <3>1 DEF GateOf
  <2>. QED BY <2>2, <2>3, <2>4
<1>9. ASSUME Build(t) PROVE GateOf(h)
  <2>. DEFINE B == BuildSteps(g.build)
              gs == IF g.build.pc \notin {"built", "error"} THEN {[g EXCEPT !.build = b] : b \in B}
                    ELSE IF g.build.pc = "error" THEN {Ended(g, 1)}
                    ELSE {[g EXCEPT !.pc = "scan"]}
  <2>1. h \in gs /\ g.pc = "build"
    BY <1>3, <1>9 DEF Build, GuestAt
  <2>. HIDE DEF B
  <2>2. (\E b \in B : h = [g EXCEPT !.build = b]) \/ h = Ended(g, 1) \/ h = [g EXCEPT !.pc = "scan"]
    BY <2>1
  <2>3. ASSUME NEW b, h = [g EXCEPT !.build = b] \/ h = [g EXCEPT !.pc = "scan"] PROVE GateOf(h)
    <3>1. h.pc # "ended"
      BY <1>0, <2>1, <2>3 DEF VmFields
    <3>. QED BY <1>4, <3>1
  <2>. HIDE DEF h
  <2>. QED BY <1>5, <2>2, <2>3
<1>10. ASSUME Scan(t) PROVE GateOf(h)
  <2>. DEFINE V == {w \in Verdicts : w.manifest = g.manifest /\ w.ok = g.ok}
              gs == {[Ended(g, v.verdict.exit) EXCEPT !.lost = v.verdict.lost] : v \in V}
                    \cup {[Ended(g, 1) EXCEPT !.strange = TRUE]}
  <2>1. h \in gs
    BY <1>3, <1>10 DEF Scan
  <2>2. \/ \E v \in V : h = [Ended(g, v.verdict.exit) EXCEPT !.lost = v.verdict.lost]
        \/ h = [Ended(g, 1) EXCEPT !.strange = TRUE]
    <3>. HIDE DEF V
    <3>. QED BY <2>1
  <2>3. ASSUME NEW v \in V, h = [Ended(g, v.verdict.exit) EXCEPT !.lost = v.verdict.lost]
        PROVE  GateOf(h)
    <3>1. h.exit = v.verdict.exit /\ h.lost = v.verdict.lost /\ h.ok = g.ok /\ h.manifest = g.manifest
      BY <1>0, <2>3 DEF VmFields, Ended
    <3>2. /\ v.verdict.exit = 0 <=> ~v.verdict.lost
          /\ v.verdict.exit = 0 => v.ok = IdsOf(Samples[v.manifest])
          /\ v.ok = g.ok /\ v.manifest = g.manifest
      BY <1>2, VerdictsTell
    <3>. HIDE DEF h, g, V
    <3>. QED BY <3>1, <3>2 DEF GateOf
  <2>. HIDE DEF h, V
  <2>. QED BY <1>5, <2>2, <2>3
<1>11. ASSUME VmDies(t) PROVE GateOf(h)
  <2>1. \A x \in VmFields \ {"on"} : h[x] = g[x]
    BY <1>0, <1>11 DEF VmDies, VmFields
  <2>. HIDE DEF h
  <2>. QED BY <1>2, <2>1 DEF GateOf, VmFields
<1>12. ASSUME Rerun(t) PROVE GateOf(h)
  <2>. DEFINE had == g.fetch.store
              Store(m) == [i \in DOMAIN EmptyStore(Samples[m]) |->
                             IF i \in DOMAIN had THEN had[i] ELSE Nothing]
  <2>1. PICK m \in Manifests :
          LET again == StartFetch(g, m, Store(m))
          IN  vm' = [vm EXCEPT ![t] = [again EXCEPT !.on = TRUE, !.tries = @ + 1, !.build = g.build,
                                                     !.strange = FALSE]]
    BY <1>12 DEF Rerun
  <2>. DEFINE again == StartFetch(g, m, Store(m))
  <2>2. DOMAIN again = VmFields /\ (again.pc = "ended" => again.exit = 1)
    BY <1>0, StartFetchTo
  <2>3. h = [again EXCEPT !.on = TRUE, !.tries = @ + 1, !.build = g.build, !.strange = FALSE]
    BY <1>0, <2>1
  <2>. HIDE DEF again, Store
  <2>4. h.pc = again.pc /\ h.exit = again.exit
    BY <2>2, <2>3 DEF VmFields
  <2>. QED BY <1>4, <2>2, <2>4
<1>13. GateOf(h)
  BY <1>6, <1>7, <1>8, <1>9, <1>10, <1>11, <1>12 DEF Guest
<1>. QED BY <1>1, <1>13 DEF GateInv, There, GateOf

(***************************************************************************)
(* A comparison passes just when every sample was verified and scanned by  *)
(* both builds, something of it by the base, and nothing was lost, for any *)
(* manifests and anything the two navctls print.                           *)
(***************************************************************************)
THEOREM PassKept == Spec => []PassMeansKept
<1>1. Init => GateInv
  BY DEF Init, GateInv, There, NewVm
<1>2. HostInv /\ GuestInv /\ GateInv /\ [Next]_vars => GateInv'
  <2>. SUFFICES ASSUME HostInv, GuestInv, GateInv, [Next]_vars PROVE GateInv'
    OBVIOUS
  <2>1. CASE \E r \in Runs : Host(r)
    BY <2>1, HostGateInv
  <2>2. CASE \E t \in Seconds : Guest(t)
    BY <2>2, GuestGateInv
  <2>3. CASE UNCHANGED vars
    BY <2>3 DEF vars, GateInv, There, GateOf
  <2>. QED BY <2>1, <2>2, <2>3 DEF Next, Over
<1>3. GateInv => PassMeansKept
  BY DEF GateInv, GateOf, PassMeansKept, IdsOf
<1>. QED BY <1>1, <1>2, <1>3, BenchInvariant, PTL DEF Spec

-----------------------------------------------------------------------------
(***************************************************************************)
(* What a fetch and a comparison leave, where nothing outside them failed. *)
(***************************************************************************)
\* The samples of an archive agree on its digest, and once a "." is dropped
\* none of their members is, or lies in, another's.
Settled(samples) ==
  \A i, j \in DOMAIN samples :
    samples[i].archive = samples[j].archive =>
      /\ samples[i].archiveSha = samples[j].archiveSha
      /\ i # j => ~IsPrefix(Path(samples[i].member), Path(samples[j].member))

\* What the archive of s holds of it is in tmp as well.
Untouched(tmp, s) ==
  LET dir == Contents[s.archiveSha]
      at  == FindMember(dir, s.member)
  IN  at # Nothing => FindMember(tmp, s.member) = at /\ Part(tmp, at) = Part(dir, at)

\* A fetch that nothing outside it failed has placed each sample its archive
\* holds and that it has come to.
DoneOf(f, samples) ==
  ~f.strange =>
    /\ f.pc # "tool"
    /\ f.pc = "done" => f.todo = {} /\ f.group = {}
    /\ \A i, j \in f.group : samples[i].archive = samples[j].archive
    /\ f.pc \in {"place", "swap"} => \A i \in f.group : Untouched(f.tmp, samples[i])
    /\ \A i \in DOMAIN samples :
         samples[i].archive \notin f.todo /\ i \notin f.group /\ Holds(samples[i]) =>
           f.report[samples[i].id] = "ok"

\* A build has its worktree in one directory, and none once it is over.
TidyBuild(b) ==
  /\ b.dir = "out" /\ b.root = {"dated"} /\ b.worktrees \subseteq {"out"}
  /\ b.pc \in {"new", "copyNew", "stale", "add"} => b.fate = "built"
  /\ b.pc = "add" => b.worktrees = {}
  /\ ~b.strange =>
       /\ b.pc = "error" => b.base \notin b.commits /\ b.worktrees = {}
       /\ b.pc = "built" => b.worktrees = {}
       /\ b.pc \in {"base", "copyBase", "remove"} => b.fate = "built"

\* The guest's side of a VM.
TidyOf(g) ==
  LET samples == Samples[g.manifest] IN
  /\ g.pc \in {"idle", "checkout"} => g.build = Nothing
  /\ g.build # Nothing =>
       /\ DOMAIN g.build = BuildFields /\ TidyBuild(g.build)
       /\ g.build.base = g.base /\ g.build.commits = g.commits
  /\ Valid(samples) =>
       /\ g.fetch # Nothing \/ g.pc \in {"fetch", "verify", "build", "scan"} => DoneOf(g.fetch, samples)
       /\ g.pc \in {"verify", "build", "scan"} => g.fetch.pc = "done"
       /\ g.pc = "ended" /\ g.fetch # Nothing /\ ~Strange(g) =>
            /\ g.exit = 1 => g.base \notin g.commits
            /\ g.fetch.pc = "done"
            /\ g.ok # {} => Worktrees(g) = {}

TidyInv == \A t \in Seconds : There(t) => TidyOf(vm[t])

-----------------------------------------------------------------------------
\* A path is a sequence of names.
LEMMA PathIsSeq ==
  ASSUME NEW m, m \in Seq(Range(m))
  PROVE  Path(m) \in Seq(Range(Path(m)))
<1>. DEFINE names == {n \in DOMAIN m : m[n] # "."}
            nth(k) == CHOOSE n \in names : Cardinality(names \cap (1..n)) = k
            c == Cardinality(names)
            p == [k \in 1..c |-> m[nth(k)]]
<1>1. Len(m) \in Nat /\ DOMAIN m = 1..Len(m)
  OBVIOUS
<1>2. IsFiniteSet(1..Len(m))
  BY <1>1, FS_Interval
<1>3. names \in SUBSET (1..Len(m))
  BY <1>1
<1>4. c \in Nat
  <2>. HIDE DEF names
  <2>. QED BY <1>2, <1>3, FS_Subset, FS_CardinalityType
<1>5. Path(m) = p
  BY Zenon DEF Path
<1>. HIDE DEF c, nth
<1>6. p \in [1..c -> Range(p)]
  BY DEF Range
<1>7. p \in Seq(Range(p))
  <2>. HIDE DEF p
  <2>. QED BY <1>4, <1>6
<1>. QED BY <1>5, <1>7

LEMMA PrefixesCompare ==
  ASSUME NEW S, NEW r \in Seq(S), NEW t \in Seq(S), NEW p, IsPrefix(r, p), IsPrefix(t, p)
  PROVE  IsPrefix(r, t) \/ IsPrefix(t, r)
BY DEF IsPrefix

LEMMA PrefixOfPrefix ==
  ASSUME NEW S, NEW r \in Seq(S), NEW t \in Seq(S), NEW n \in 1..Len(t), IsPrefix(r, SubSeq(t, 1, n))
  PROVE  IsPrefix(r, t)
BY DEF IsPrefix

\* Where a member is when it is found.
LEMMA FoundAt ==
  ASSUME NEW dir, NEW m
  PROVE  LET found == \A n \in 1..Len(Path(m)) : LET p == SubSeq(Path(m), 1, n)
                                                IN  p \in DOMAIN dir /\ dir[p].kind # "link"
         IN  FindMember(dir, m) = IF found THEN Path(m) ELSE Nothing
<1>. DEFINE path == Path(m)
            way == {SubSeq(path, 1, n) : n \in 1..Len(path)}
<1>1. FindMember(dir, m) = IF \A p \in way : p \in DOMAIN dir /\ dir[p].kind # "link"
                           THEN path ELSE Nothing
  BY Zenon DEF FindMember
<1>. HIDE DEF path
<1>2. (\A p \in way : p \in DOMAIN dir /\ dir[p].kind # "link") <=>
        \A n \in 1..Len(path) : LET p == SubSeq(path, 1, n) IN p \in DOMAIN dir /\ dir[p].kind # "link"
  OBVIOUS
<1>. QED BY <1>1, <1>2 DEF path

\* What is moved out of a directory takes along nothing but what lies in it.
LEMMA WithoutKeeps ==
  ASSUME NEW m, NEW r, Path(m) \in Seq(Range(Path(m))), r \in Seq(Range(r)),
         ~IsPrefix(r, Path(m)), ~IsPrefix(Path(m), r), NEW dir
  PROVE  /\ FindMember(Without(dir, r), m) = FindMember(dir, m)
         /\ Part(Without(dir, r), Path(m)) = Part(dir, Path(m))
<1>. DEFINE t == Path(m)
            S == Range(r) \cup Range(t)
            w == Without(dir, r)
<1>1. r \in Seq(S) /\ t \in Seq(S)
  BY DEF t
<1>2. /\ DOMAIN w = {q \in DOMAIN dir : ~IsPrefix(r, q)}
      /\ \A q \in DOMAIN w : w[q] = dir[q]
  BY DEF Without
<1>. HIDE DEF t, S, w
<1>3. ~IsPrefix(r, t) /\ ~IsPrefix(t, r)
  BY DEF t
<1>4. ASSUME NEW n \in 1..Len(t) PROVE ~IsPrefix(r, SubSeq(t, 1, n))
  BY <1>1, <1>3, PrefixOfPrefix
<1>5. ASSUME NEW n \in 1..Len(t), NEW p, p = SubSeq(t, 1, n)
      PROVE  (p \in DOMAIN w /\ w[p].kind # "link") <=> (p \in DOMAIN dir /\ dir[p].kind # "link")
  BY <1>2, <1>4, <1>5
<1>6. FindMember(w, m) = FindMember(dir, m)
  <2>1. FindMember(w, m) = IF \A n \in 1..Len(t) : SubSeq(t, 1, n) \in DOMAIN w /\ w[SubSeq(t, 1, n)].kind # "link"
                           THEN t ELSE Nothing
    BY FoundAt DEF t
  <2>2. FindMember(dir, m) = IF \A n \in 1..Len(t) : SubSeq(t, 1, n) \in DOMAIN dir /\ dir[SubSeq(t, 1, n)].kind # "link"
                             THEN t ELSE Nothing
    BY FoundAt DEF t
  <2>3. \A n \in 1..Len(t) :
          (SubSeq(t, 1, n) \in DOMAIN w /\ w[SubSeq(t, 1, n)].kind # "link")
          <=> (SubSeq(t, 1, n) \in DOMAIN dir /\ dir[SubSeq(t, 1, n)].kind # "link")
    BY <1>5
  <2>. DEFINE A == \A n \in 1..Len(t) : SubSeq(t, 1, n) \in DOMAIN w /\ w[SubSeq(t, 1, n)].kind # "link"
              B == \A n \in 1..Len(t) : SubSeq(t, 1, n) \in DOMAIN dir /\ dir[SubSeq(t, 1, n)].kind # "link"
  <2>4. A <=> B
    BY <2>3
  <2>5. FindMember(w, m) = (IF A THEN t ELSE Nothing) /\ FindMember(dir, m) = (IF B THEN t ELSE Nothing)
    BY <2>1, <2>2
  <2>. HIDE DEF A, B
  <2>. QED BY <2>4, <2>5
<1>7. Part(w, t) = Part(dir, t)
  <2>1. {q \in DOMAIN w : IsPrefix(t, q)} = {q \in DOMAIN dir : IsPrefix(t, q)}
    <3>1. \A q : IsPrefix(t, q) => ~IsPrefix(r, q)
      BY <1>1, <1>3, PrefixesCompare
    <3>. QED BY <1>2, <3>1
  <2>. DEFINE D == {q \in DOMAIN w : IsPrefix(t, q)}
  <2>2. Part(w, t) = [q \in D |-> w[q]] /\ Part(dir, t) = [q \in D |-> dir[q]]
    BY <2>1 DEF Part
  <2>3. \A q \in D : w[q] = dir[q]
    BY <1>2
  <2>. HIDE DEF D
  <2>. QED BY <2>2, <2>3
<1>. QED BY <1>6, <1>7 DEF t, w

\* A sample its archive holds passes the check where it was not touched.
LEMMA UntouchedHolds ==
  ASSUME NEW tmp, NEW s, Untouched(tmp, s), Holds(s)
  PROVE  LET at == FindMember(tmp, s.member)
         IN  at # Nothing /\ Matches(s, Measure(tmp, at))
BY Zenon DEF Untouched, Holds, Measure

LEMMA DoneStep ==
  ASSUME NEW samples, ListOf(samples), Settled(samples),
         \A i \in DOMAIN samples : samples[i].member \in Seq(Range(samples[i].member)),
         NEW first, NEW f, FetchOf(f, samples, first), DoneOf(f, samples),
         f.pc \notin {"done", "tool"}, NEW h \in FetchSteps(f, samples)
  PROVE  DoneOf(h, samples)
<1>. SUFFICES ASSUME ~h.strange PROVE DoneOf(h, samples)
  BY DEF DoneOf
<1>0. DOMAIN f = FetchFields /\ f.group \subseteq DOMAIN samples
  BY DEF FetchOf
<1>1. f.group # {} => First(f) \in f.group
  BY <1>0, ListFacts, MinIn DEF First
<1>2. ToolError(f).strange
  BY <1>0 DEF ToolError, Cleaned, FetchFields
<1>3. [GroupFails(f, samples) EXCEPT !.strange = TRUE].strange
  BY <1>0 DEF GroupFails, Cleaned, Told, FetchFields
<1>. DEFINE Held(g) ==
       \A i \in DOMAIN samples :
         samples[i].archive \notin g.todo /\ i \notin g.group /\ Holds(samples[i]) =>
           g.report[samples[i].id] = "ok"
<1>4. ASSUME ~f.strange
      PROVE  /\ \A i, j \in f.group : samples[i].archive = samples[j].archive
             /\ f.pc \in {"place", "swap"} => \A i \in f.group : Untouched(f.tmp, samples[i])
             /\ Held(f)
  BY <1>4 DEF DoneOf
<1>5. \A i, j \in DOMAIN samples : samples[i].archive = samples[j].archive =>
         /\ samples[i].archiveSha = samples[j].archiveSha
         /\ i # j => ~IsPrefix(Path(samples[i].member), Path(samples[j].member))
  BY DEF Settled
<1>6. DOMAIN f.report = IdsOf(samples) /\ \A i \in DOMAIN samples : samples[i].id \in IdsOf(samples)
  BY ListFacts DEF FetchOf
<1>7. ASSUME h.pc \notin {"tool", "done", "place", "swap"}, h.group = f.group, h.todo = f.todo, h.report = f.report,
             h.strange = f.strange
      PROVE  DoneOf(h, samples)
  BY <1>4, <1>7 DEF DoneOf
<1>8. CASE f.pc = "group"
  <2>0. f.group = {}
    BY <1>8 DEF FetchOf
  <2>1. CASE f.todo = {}
    <3>1. h = [f EXCEPT !.pc = "done"]
      BY <1>8, <2>1 DEF FetchSteps, NextGroup
    <3>2. /\ h.pc = "done" /\ h.group = f.group /\ h.todo = f.todo /\ h.report = f.report
          /\ h.strange = f.strange
      BY <1>0, <3>1 DEF FetchFields
    <3>. QED BY <1>4, <2>0, <2>1, <3>2 DEF DoneOf
  <2>2. CASE f.todo # {}
    <3>. DEFINE a == Min(f.todo)
                g == GroupOf(samples, a)
                k == [f EXCEPT !.todo = @ \ {a}, !.group = g]
    <3>1. \A i \in DOMAIN samples : i \in g <=> samples[i].archive = a
      BY DEF GroupOf
    <3>2. g \subseteq DOMAIN samples
      BY DEF GroupOf
    <3>3. ~\E i, j \in g : samples[i].archiveSha # samples[j].archiveSha
      <4>. HIDE DEF a, g
      <4>. QED BY <1>5, <3>1, <3>2
    <3>4. h = [k EXCEPT !.pc = "locate"]
      BY <1>8, <2>2, <3>3 DEF FetchSteps, NextGroup
    <3>. HIDE DEF a, g
    <3>5. /\ h.pc = "locate" /\ h.group = g /\ h.todo = f.todo \ {a} /\ h.report = f.report
          /\ h.strange = f.strange
      BY <1>0, <3>4 DEF FetchFields
    <3>6. Held(h)
      BY <1>4, <2>0, <3>1, <3>5
    <3>7. \A i, j \in h.group : samples[i].archive = samples[j].archive
      BY <3>1, <3>2, <3>5
    <3>. QED BY <3>5, <3>6, <3>7 DEF DoneOf
  <2>. QED BY <2>1, <2>2
<1>9. CASE f.pc = "locate"
  <2>1. h \in {[f EXCEPT !.pc = "extract"], [f EXCEPT !.pc = "extract", !.download = TRUE]}
    BY <1>2, <1>3, <1>9 DEF FetchSteps, Locate
  <2>2. /\ h.pc = "extract" /\ h.group = f.group /\ h.todo = f.todo /\ h.report = f.report
        /\ h.strange = f.strange
    BY <1>0, <2>1 DEF FetchFields
  <2>. QED BY <1>7, <2>2
<1>10. CASE f.pc = "extract"
  <2>. DEFINE dir == Contents[samples[First(f)].archiveSha]
  <2>0. ASSUME NEW p, h = [f EXCEPT !.pc = "place", !.tmp = Without(dir, p), !.strange = TRUE]
        PROVE  FALSE
    <3>. HIDE DEF dir
    <3>1. h.strange
      BY <1>0, <2>0 DEF FetchFields
    <3>. QED BY <1>2, <3>1
  <2>1. h = [f EXCEPT !.pc = "place", !.tmp = dir]
    BY <1>2, <1>3, <1>10, <2>0 DEF FetchSteps, Extract
  <2>. HIDE DEF dir
  <2>2. /\ h.pc = "place" /\ h.group = f.group /\ h.todo = f.todo /\ h.report = f.report
        /\ h.strange = f.strange /\ h.tmp = dir
    BY <1>0, <2>1 DEF FetchFields
  <2>3. ASSUME NEW i \in f.group, ~f.strange PROVE Untouched(dir, samples[i])
    <3>1. samples[i].archiveSha = samples[First(f)].archiveSha
      BY <1>0, <1>1, <1>4, <1>5, <2>3
    <3>. QED BY <3>1 DEF Untouched, dir
  <2>. QED BY <1>4, <2>2, <2>3 DEF DoneOf
<1>11. CASE f.pc = "place"
  <2>1. CASE f.group = {}
    <3>1. h = [Cleaned(f) EXCEPT !.pc = "group"]
      BY <1>11, <2>1 DEF FetchSteps, Place
    <3>2. /\ h.pc = "group" /\ h.group = f.group /\ h.todo = f.todo /\ h.report = f.report
          /\ h.strange = f.strange
      BY <1>0, <3>1 DEF FetchFields, Cleaned
    <3>. QED BY <1>7, <3>2
  <2>2. CASE f.group # {}
    <3>. DEFINE n == First(f)
                s == samples[n]
                at == FindMember(f.tmp, s.member)
                good == at # Nothing /\ Matches(s, Measure(f.tmp, at))
                k == [Told(f, {s.id}, "failed") EXCEPT !.group = @ \ {n}]
                w == [f EXCEPT !.pc = "swap", !.store[s.id] = Nothing]
    <3>1. n \in f.group /\ n \in DOMAIN samples
      BY <1>0, <1>1, <2>2
    <3>2. (~good /\ h = k) \/ h = w
      BY <1>2, <1>11, <2>2 DEF FetchSteps, Place
    <3>. HIDE DEF n
    <3>3. ASSUME h = k, ~good PROVE DoneOf(h, samples)
      <4>. HIDE DEF good
      <4>1. /\ h.pc = "place" /\ h.group = f.group \ {n} /\ h.todo = f.todo
            /\ h.strange = f.strange /\ h.tmp = f.tmp
            /\ h.report = [x \in DOMAIN f.report |-> IF x \in {s.id} THEN "failed" ELSE f.report[x]]
        BY <1>0, <1>11, <3>3 DEF FetchFields, Told
      <4>2. ~Holds(s)
        <5>1. Untouched(f.tmp, s)
          BY <1>4, <1>11, <3>1, <4>1
        <5>. QED BY <3>3, <5>1, UntouchedHolds, Zenon DEF good
      <4>3. \A i \in DOMAIN samples : i # n => h.report[samples[i].id] = f.report[samples[i].id]
        BY <1>6, <3>1, <4>1, ListFacts
      <4>4. Held(h)
        BY <1>4, <4>1, <4>2, <4>3
      <4>. QED BY <1>4, <1>11, <4>1, <4>4 DEF DoneOf
    <3>4. ASSUME h = w PROVE DoneOf(h, samples)
      <4>1. /\ h.pc = "swap" /\ h.group = f.group /\ h.todo = f.todo /\ h.report = f.report
            /\ h.strange = f.strange /\ h.tmp = f.tmp
        BY <1>0, <3>4 DEF FetchFields
      <4>. QED BY <1>4, <1>11, <4>1 DEF DoneOf
    <3>. HIDE DEF good, k, w
    <3>. QED BY <3>2, <3>3, <3>4
  <2>. QED BY <2>1, <2>2
<1>12. CASE f.pc = "swap"
  <2>. DEFINE n == First(f)
              s == samples[n]
              at == FindMember(f.tmp, s.member)
              placed == Measure(f.tmp, at)
              left == Without(f.tmp, at)
              k == [Told(f, {s.id}, "ok") EXCEPT !.pc = "place", !.group = @ \ {n},
                                                 !.store[s.id] = placed, !.tmp = left]
  <2>1. n \in f.group /\ n \in DOMAIN samples /\ at # Nothing
    BY <1>0, <1>1, <1>12 DEF FetchOf
  <2>2. h = k
    BY <1>0, <1>2, <1>12 DEF FetchSteps, Swap, Told, FetchFields
  <2>3. at = Path(s.member)
    BY <2>1, FoundAt
  <2>. HIDE DEF n, at, placed
  <2>4. /\ h.pc = "place" /\ h.group = f.group \ {n} /\ h.todo = f.todo
        /\ h.strange = f.strange /\ h.tmp = left
        /\ h.report = [x \in DOMAIN f.report |-> IF x \in {s.id} THEN "ok" ELSE f.report[x]]
    <3>. HIDE DEF left
    <3>. QED BY <1>0, <2>2 DEF FetchFields, Told
  <2>5. \A i \in DOMAIN samples :
          h.report[samples[i].id] = IF i = n THEN "ok" ELSE f.report[samples[i].id]
    BY <1>6, <2>1, <2>4, ListFacts
  <2>6. Held(h)
    BY <1>4, <2>4, <2>5
  <2>7. ASSUME NEW i \in h.group PROVE Untouched(left, samples[i])
    <3>1. i \in f.group /\ i # n /\ i \in DOMAIN samples
      BY <1>0, <2>4
    <3>2. samples[i].archive = s.archive /\ Untouched(f.tmp, samples[i])
      BY <1>4, <1>12, <2>1, <2>4, <3>1
    <3>3. ~IsPrefix(at, Path(samples[i].member)) /\ ~IsPrefix(Path(samples[i].member), at)
      BY <1>5, <2>1, <2>3, <3>1, <3>2
    <3>4. Path(samples[i].member) \in Seq(Range(Path(samples[i].member))) /\ at \in Seq(Range(at))
      BY <2>1, <2>3, <3>1, PathIsSeq
    <3>5. /\ FindMember(left, samples[i].member) = FindMember(f.tmp, samples[i].member)
          /\ Part(left, Path(samples[i].member)) = Part(f.tmp, Path(samples[i].member))
      BY <3>3, <3>4, WithoutKeeps
    <3>. HIDE DEF left
    <3>6. ASSUME NEW dir, FindMember(dir, samples[i].member) # Nothing
          PROVE  FindMember(dir, samples[i].member) = Path(samples[i].member)
      BY <3>6, FoundAt
    <3>. QED BY <3>2, <3>5, <3>6 DEF Untouched
  <2>. QED BY <1>4, <2>4, <2>6, <2>7 DEF DoneOf
<1>. QED BY <1>8, <1>9, <1>10, <1>11, <1>12 DEF FetchOf

\* A build's next state is as tidy.
LEMMA TidyStep ==
  ASSUME NEW b, DOMAIN b = BuildFields, TidyBuild(b),
         b.pc \in {"new", "copyNew", "stale", "add", "base", "copyBase", "remove"},
         b.fate \in {"built", "error"}, NEW c \in BuildSteps(b)
  PROVE  DOMAIN c = BuildFields /\ TidyBuild(c) /\ c.base = b.base /\ c.commits = b.commits
<1>1. CASE b.pc = "new"
  BY <1>1, ZenonT(60) DEF BuildSteps, BuildNew, Failed, BuildFields, TidyBuild
<1>2. CASE b.pc = "copyNew"
  BY <1>2, ZenonT(60) DEF BuildSteps, CopyNew, Failed, BuildFields, TidyBuild
<1>3. CASE b.pc = "stale"
  <2>. DEFINE x == [b EXCEPT !.worktrees = @ \ (b.root \cup {b.dir})]
  <2>1. /\ DOMAIN x = BuildFields /\ x.worktrees = {} /\ x.base = b.base /\ x.commits = b.commits
        /\ x.dir = b.dir /\ x.root = b.root /\ x.fate = b.fate /\ x.strange = b.strange
    BY <1>3 DEF BuildFields, TidyBuild
  <2>2. IF b.base \in b.commits THEN c \in {[x EXCEPT !.pc = "add"], Failed(x)}
        ELSE c = [x EXCEPT !.pc = "error"]
    BY <1>3 DEF BuildSteps, RemoveStale
  <2>. HIDE DEF x
  <2>. QED BY <1>3, <2>1, <2>2, ZenonT(60) DEF Failed, BuildFields, TidyBuild
<1>. DEFINE Gone == [b EXCEPT !.pc = "remove", !.fate = "error", !.strange = TRUE]
<1>4. CASE b.pc = "add"
  <2>1. b.dir \notin b.worktrees
    BY <1>4 DEF TidyBuild
  <2>2. c = Gone \/ c = [b EXCEPT !.pc = "base", !.worktrees = @ \cup {b.dir}]
    BY <1>4, <2>1 DEF BuildSteps, AddWorktree
  <2>. DEFINE base == [b EXCEPT !.pc = "base", !.worktrees = @ \cup {b.dir}]
  <2>3. /\ DOMAIN base = BuildFields /\ base.pc = "base" /\ base.worktrees = b.worktrees \cup {b.dir}
        /\ \A x \in BuildFields \ {"pc", "worktrees"} : base[x] = b[x]
    BY DEF BuildFields
  <2>. HIDE DEF base
  <2>4. c = base => DOMAIN c = BuildFields /\ TidyBuild(c) /\ c.base = b.base /\ c.commits = b.commits
    BY <1>4, <2>3 DEF BuildFields, TidyBuild
  <2>. QED BY <1>4, <2>2, <2>4, ZenonT(60) DEF base, BuildFields, TidyBuild
<1>5. CASE b.pc = "base"
  <2>1. c = Gone \/ c = [b EXCEPT !.pc = "copyBase", !.bin = b.base]
    BY <1>5 DEF BuildSteps, BuildBase
  <2>. QED BY <1>5, <2>1, ZenonT(60) DEF BuildFields, TidyBuild
<1>6. CASE b.pc = "copyBase"
  <2>1. c = Gone \/ c = [b EXCEPT !.pc = "remove", !.navctlBase = b.bin]
    BY <1>6 DEF BuildSteps, CopyBase
  <2>. QED BY <1>6, <2>1, ZenonT(60) DEF BuildFields, TidyBuild
<1>7. CASE b.pc = "remove"
  <2>1. \/ c = [b EXCEPT !.pc = b.fate, !.worktrees = @ \ {b.dir}]
        \/ c = [b EXCEPT !.pc = b.fate, !.strange = TRUE]
    BY <1>7 DEF BuildSteps, RemoveWorktree
  <2>2. DOMAIN c = BuildFields /\ c.pc = b.fate /\ \A x \in BuildFields \ {"pc", "worktrees", "strange"} : c[x] = b[x]
    BY <2>1 DEF BuildFields
  <2>3. c.strange \/ (c.strange = b.strange /\ c.worktrees = b.worktrees \ {b.dir})
    BY <2>1 DEF BuildFields
  <2>4. c.worktrees \subseteq b.worktrees
    BY <2>1 DEF BuildFields
  <2>. QED BY <1>7, <2>2, <2>3, <2>4 DEF BuildFields, TidyBuild
<1>. QED BY <1>1, <1>2, <1>3, <1>4, <1>5, <1>6, <1>7

LEMMA StartFetchBuild ==
  ASSUME NEW g, DOMAIN g = VmFields, NEW m, NEW store
  PROVE  LET h == StartFetch(g, m, store) IN h.build = Nothing /\ h.commits = g.commits
<1>. DEFINE f == NewFetch(Samples[m], Cache, store)
            x == [g EXCEPT !.pc = "fetch", !.manifest = m, !.build = Nothing, !.ok = {},
                           !.exit = Going, !.lost = FALSE, !.strange = FALSE, !.fetch = f]
            y == Ended([g EXCEPT !.manifest = m, !.build = Nothing], 1)
<1>1. x.build = Nothing /\ x.commits = g.commits
  <2>. HIDE DEF f
  <2>. QED BY DEF VmFields
<1>2. y.build = Nothing /\ y.commits = g.commits
  BY DEF VmFields, Ended
<1>3. StartFetch(g, m, store) = IF Valid(Samples[m]) THEN x ELSE y
  BY DEF StartFetch
<1>. HIDE DEF x, y
<1>. QED BY <1>1, <1>2, <1>3

LEMMA NewFetchDone ==
  ASSUME NEW samples, NEW cache, NEW store
  PROVE  DoneOf(NewFetch(samples, cache, store), samples)
<1>. DEFINE f == NewFetch(samples, cache, store)
<1>1. f.pc = "group" /\ f.group = {} /\ f.todo = Archives(samples)
  BY DEF NewFetch
<1>2. \A i \in DOMAIN samples : samples[i].archive \in Archives(samples)
  BY DEF Archives, Range
<1>. HIDE DEF f
<1>3. DoneOf(f, samples)
  BY <1>1, <1>2 DEF DoneOf
<1>. QED BY <1>3 DEF f

LEMMA HostTidyInv ==
  ASSUME HostInv, GuestInv, TidyInv, NEW r \in Runs, Host(r)
  PROVE  TidyInv'
<1>. SUFFICES ASSUME NEW t \in Seconds, There(t)'
              PROVE  TidyOf(vm'[t])
  BY DEF TidyInv, TidyOf
<1>1. HostOn(t)
  BY HostOnVm
<1>. DEFINE g == vm[t]
            h == vm'[t]
<1>2. ASSUME There(t) PROVE TidyOf(g) /\ (g.pc = "idle" => g.fetch = Nothing)
  BY <1>2 DEF TidyInv, GuestInv, GuestOf
<1>3. ASSUME There(t), SameGuest(g, h) PROVE TidyOf(h)
  <2>1. /\ h.pc = g.pc /\ h.build = g.build /\ h.fetch = g.fetch /\ h.base = g.base /\ h.ok = g.ok
        /\ h.commits = g.commits /\ h.exit = g.exit /\ h.strange = g.strange
        /\ g.pc # "idle" => h.manifest = g.manifest
    BY <1>3 DEF SameGuest, VmFields
  <2>2. Strange(h) <=> Strange(g)
    BY <2>1 DEF Strange
  <2>3. Worktrees(h) = Worktrees(g)
    BY <2>1 DEF Worktrees
  <2>. HIDE DEF g, h
  <2>. QED BY <1>2, <1>3, <2>1, <2>2, <2>3 DEF TidyOf
<1>4. ASSUME h = NewVm(h.owner) PROVE TidyOf(h)
  <2>1. \A q : NewVm(q).pc = "idle" /\ NewVm(q).build = Nothing /\ NewVm(q).fetch = Nothing
    BY DEF NewVm
  <2>. HIDE DEF h
  <2>. QED BY <1>4, <2>1 DEF TidyOf
<1>5. ASSUME There(t), g.owner = h.owner, run[h.owner].pc = "exec",
             h = [g EXCEPT !.pc = "checkout", !.new = run[h.owner].new, !.base = run[h.owner].base]
      PROVE  TidyOf(h)
  <2>1. g.pc = "idle"
    BY <1>5 DEF GuestInv, Early
  <2>2. h.pc = "checkout" /\ h.build = g.build /\ h.fetch = g.fetch
    BY <1>5 DEF HostInv, Shape, VmFields
  <2>3. g.build = Nothing /\ g.fetch = Nothing
    BY <1>2, <1>5, <2>1 DEF TidyOf
  <2>. HIDE DEF g, h
  <2>. QED BY <2>2, <2>3 DEF TidyOf
<1>. QED BY <1>1, <1>3, <1>4, <1>5 DEF HostOn

LEMMA GuestTidyInv ==
  ASSUME \A m \in Manifests : Valid(Samples[m]) => Settled(Samples[m]),
         \A b : DOMAIN b = BuildFields => b # Nothing,
         HostInv, GuestInv, FetchInv, TidyInv, NEW t \in Seconds, Guest(t)
  PROVE  TidyInv'
<1>. DEFINE g == vm[t]
            h == vm'[t]
            samples == Samples[g.manifest]
<1>0. DOMAIN g = VmFields /\ DOMAIN vm = Seconds
  BY DEF HostInv, Shape
<1>1. There(t) /\ \A u \in Seconds \ {t} : vm'[u] = vm[u]
  BY GuestStep DEF HostInv, GuestMoves
<1>2. PICK new, base : GuestOf(g, new, base)
  BY <1>1 DEF GuestInv
<1>3. TidyOf(g)
  BY <1>1 DEF TidyInv
<1>4. ASSUME Valid(samples), g.fetch # Nothing \/ g.pc \in {"fetch", "verify", "build", "scan"}
      PROVE  DoneOf(g.fetch, samples)
  BY <1>3, <1>4 DEF TidyOf
<1>5. ASSUME NEW gs, GuestGoes(t, gs) PROVE h \in gs
  BY <1>0, <1>5 DEF GuestGoes
\* A guest whose fetch and build are as they were, at another place.
<1>6. ASSUME DOMAIN h = VmFields, \A x \in VmFields \ {"pc", "exit", "strange", "lost"} : h[x] = g[x],
             h.pc \notin {"idle", "checkout"}, g.pc # "idle",
             h.pc \in {"verify", "build", "scan"} => g.fetch.pc = "done" /\ g.pc \in {"fetch", "verify", "build", "scan"},
             h.pc = "fetch" => g.pc = "fetch",
             h.pc = "ended" /\ Valid(samples) /\ g.fetch # Nothing /\ ~Strange(h) =>
               /\ h.exit = 1 => g.base \notin g.commits
               /\ g.fetch.pc = "done"
               /\ g.ok # {} => Worktrees(g) = {}
      PROVE  TidyOf(h)
  <2>1. /\ h.build = g.build /\ h.fetch = g.fetch /\ h.base = g.base /\ h.ok = g.ok
        /\ h.commits = g.commits /\ h.manifest = g.manifest
    BY <1>6 DEF VmFields
  <2>2. Worktrees(h) = Worktrees(g)
    BY <2>1 DEF Worktrees
  <2>. HIDE DEF g, h
  <2>. QED BY <1>3, <1>6, <2>1, <2>2 DEF TidyOf, samples
<1>7. ASSUME NEW e, h = [Ended(g, e) EXCEPT !.strange = TRUE], g.pc # "idle" PROVE TidyOf(h)
  <2>1. DOMAIN h = VmFields /\ h.pc = "ended" /\ \A x \in VmFields \ {"pc", "exit", "strange"} : h[x] = g[x]
    <3>. HIDE DEF g, h
    <3>. QED BY <1>0, <1>7, EndedTo
  <2>2. h.strange
    BY <1>0, <1>7 DEF Ended, VmFields
  <2>. HIDE DEF h, g
  <2>. QED BY <1>6, <1>7, <2>1, <2>2 DEF Strange
<1>8. ASSUME NEW e, h = Ended(g, e), g.pc # "idle",
             Valid(samples) /\ g.fetch # Nothing /\ ~Strange(g) =>
               /\ e = 1 => g.base \notin g.commits
               /\ g.fetch.pc = "done"
               /\ g.ok # {} => Worktrees(g) = {}
      PROVE  TidyOf(h)
  <2>1. /\ DOMAIN h = VmFields /\ h.pc = "ended" /\ h.exit = e
        /\ \A x \in VmFields \ {"pc", "exit", "strange"} : h[x] = g[x]
    <3>. HIDE DEF g, h
    <3>. QED BY <1>0, <1>8, EndedTo
  <2>2. h.strange = g.strange
    BY <1>0, <1>8 DEF Ended, VmFields
  <2>3. h.fetch = g.fetch /\ h.build = g.build
    BY <2>1 DEF VmFields
  <2>4. Strange(h) <=> Strange(g)
    BY <2>2, <2>3 DEF Strange
  <2>. HIDE DEF h, g
  <2>. QED BY <1>6, <1>8, <2>1, <2>4
<1>9. ASSUME Checkout(t) PROVE TidyOf(h)
  <2>. DEFINE there == [g EXCEPT !.commits = {g.bundle.new, g.bundle.base}, !.head = g.new]
              x == StartFetch(there, g.manifest, EmptyStore(samples))
              gs == IF g.new \notin there.commits THEN {Ended(g, 1)}
                    ELSE {x, [Ended(g, 1) EXCEPT !.strange = TRUE]}
  <2>1. h \in gs /\ g.pc = "checkout"
    BY <1>5, <1>9 DEF Checkout, GuestAt
  <2>2. DOMAIN there = VmFields
    BY <1>0
  <2>3. h = x \/ h = Ended(g, 1) \/ h = [Ended(g, 1) EXCEPT !.strange = TRUE]
    <3>. HIDE DEF there, x
    <3>. QED BY <2>1
  <2>4. g.fetch = Nothing /\ there.fetch = Nothing
    BY <1>0, <1>2, <2>1 DEF GuestOf, VmFields
  <2>5. ASSUME h = x PROVE TidyOf(h)
    <3>. HIDE DEF there, h, g
    <3>1. /\ h.build = Nothing /\ h.manifest = g.manifest
          /\ \/ h.pc = "fetch" /\ h.fetch = NewFetch(samples, Cache, EmptyStore(samples))
             \/ h.pc = "ended" /\ h.fetch = Nothing
      BY <2>2, <2>4, <2>5, StartFetchTo, StartFetchBuild
    <3>2. DoneOf(NewFetch(samples, Cache, EmptyStore(samples)), samples)
      BY NewFetchDone
    <3>. QED BY <3>1, <3>2 DEF TidyOf
  <2>. HIDE DEF x, h, g
  <2>. QED BY <1>7, <1>8, <2>1, <2>3, <2>4, <2>5
<1>10. ASSUME Fetch(t) PROVE TidyOf(h)
  <2>. DEFINE F == FetchSteps(g.fetch, samples)
              gs == IF g.fetch.pc \notin {"done", "tool"} THEN {[g EXCEPT !.fetch = f] : f \in F}
                    ELSE IF FetchExit(g.fetch) = 1 THEN {Ended(g, 1)}
                    ELSE {[g EXCEPT !.pc = "verify"]}
  <2>1. h \in gs /\ g.pc = "fetch"
    BY <1>5, <1>10 DEF Fetch, GuestAt
  <2>2. \/ g.fetch.pc \notin {"done", "tool"} /\ \E f \in F : h = [g EXCEPT !.fetch = f]
        \/ g.fetch.pc = "tool" /\ h = Ended(g, 1)
        \/ g.fetch.pc = "done" /\ h = [g EXCEPT !.pc = "verify"]
    <3>1. FetchExit(g.fetch) = 1 <=> g.fetch.pc = "tool"
      <4>. HIDE DEF g
      <4>. QED BY DEF FetchExit
    <3>. HIDE DEF F
    <3>. QED BY <2>1, <3>1
  <2>3. ASSUME NEW f \in F, h = [g EXCEPT !.fetch = f], g.fetch.pc \notin {"done", "tool"} PROVE TidyOf(h)
    <3>1. /\ h.pc = "fetch" /\ h.fetch = f /\ h.build = g.build /\ h.base = g.base
          /\ h.commits = g.commits /\ h.manifest = g.manifest
      BY <1>0, <2>1, <2>3 DEF VmFields
    <3>2. ASSUME Valid(samples) PROVE DoneOf(f, samples)
      <4>1. g.manifest \in Manifests
        BY <1>2 DEF GuestOf
      <4>2. ListOf(samples) /\ Settled(samples)
        BY <3>2, <4>1, ManifestAssumption DEF ListOf
      <4>3. \A i \in DOMAIN samples : samples[i].member \in Seq(Range(samples[i].member))
        <5>1. \A s \in Range(samples) : s.member \in Seq(Range(s.member))
          BY <4>1, ManifestAssumption
        <5>2. \A i \in DOMAIN samples : samples[i] \in Range(samples)
          BY DEF Range
        <5>. QED BY <5>1, <5>2
      <4>4. FetchOf(g.fetch, samples, g.tries = 0)
        BY <1>1, <2>1, <3>2 DEF FetchInv
      <4>. HIDE DEF g, samples
      <4>5. DoneOf(g.fetch, samples)
        BY <1>4, <2>1, <3>2
      <4>. QED BY <2>3, <4>2, <4>3, <4>4, <4>5, DoneStep DEF F
    <3>. HIDE DEF g, h, F
    <3>. QED BY <1>3, <3>1, <3>2 DEF TidyOf, samples
  <2>4. ASSUME g.fetch.pc = "tool", h = Ended(g, 1) PROVE TidyOf(h)
    <3>1. Valid(samples) => g.fetch.strange
      BY <1>4, <2>1, <2>4 DEF DoneOf
    <3>2. Valid(samples) /\ g.fetch # Nothing => Strange(g)
      BY <3>1 DEF Strange
    <3>. HIDE DEF g, h, samples
    <3>. QED BY <1>8, <2>1, <2>4, <3>2
  <2>5. ASSUME g.fetch.pc = "done", h = [g EXCEPT !.pc = "verify"] PROVE TidyOf(h)
    <3>1. /\ DOMAIN h = VmFields /\ h.pc = "verify" /\ \A x \in VmFields \ {"pc"} : h[x] = g[x]
      BY <1>0, <2>5 DEF VmFields
    <3>. HIDE DEF g, h, samples
    <3>. QED BY <1>6, <2>1, <2>5, <3>1
  <2>. HIDE DEF F, h
  <2>. QED BY <2>2, <2>3, <2>4, <2>5
<1>11. ASSUME Verify(t) PROVE TidyOf(h)
  <2>. DEFINE ok == Verified(samples, g.fetch.store)
              b == NewBuild(g.head, g.base, g.commits, "out", {"dated"}, Worktrees(g))
              gs == IF ok = {} THEN {Ended(g, 2)}
                    ELSE {[g EXCEPT !.pc = "build", !.ok = ok, !.build = b]}
  <2>1. h \in gs /\ g.pc = "verify"
    BY <1>5, <1>11 DEF Verify, GuestAt
  <2>2. DOMAIN b = BuildFields /\ TidyBuild(b) /\ b.base = g.base /\ b.commits = g.commits
    <3>1. Worktrees(g) \subseteq {"out"}
      BY <1>3 DEF TidyOf, TidyBuild, Worktrees
    <3>. HIDE DEF g
    <3>. QED BY <3>1 DEF NewBuild, BuildFields, TidyBuild
  <2>. HIDE DEF ok, b
  <2>3. h = Ended(g, 2) \/ h = [g EXCEPT !.pc = "build", !.ok = ok, !.build = b]
    BY <2>1
  <2>4. ASSUME h = [g EXCEPT !.pc = "build", !.ok = ok, !.build = b] PROVE TidyOf(h)
    <3>1. /\ h.pc = "build" /\ h.fetch = g.fetch /\ h.build = b /\ h.base = g.base
          /\ h.commits = g.commits /\ h.manifest = g.manifest
      BY <1>0, <2>4 DEF VmFields
    <3>2. Valid(samples) => g.fetch.pc = "done"
      BY <1>3, <2>1 DEF TidyOf
    <3>. HIDE DEF g, h
    <3>. QED BY <1>4, <2>1, <2>2, <3>1, <3>2 DEF TidyOf, samples
  <2>5. ASSUME h = Ended(g, 2) PROVE TidyOf(h)
    <3>1. g.ok = {} /\ (Valid(samples) => g.fetch.pc = "done")
      BY <1>2, <1>3, <2>1 DEF TidyOf, GuestOf
    <3>. HIDE DEF g, h, samples
    <3>. QED BY <1>8, <2>1, <2>5, <3>1
  <2>. QED BY <2>3, <2>4, <2>5
<1>12. ASSUME Build(t) PROVE TidyOf(h)
  <2>. DEFINE B == BuildSteps(g.build)
              gs == IF g.build.pc \notin {"built", "error"} THEN {[g EXCEPT !.build = b] : b \in B}
                    ELSE IF g.build.pc = "error" THEN {Ended(g, 1)}
                    ELSE {[g EXCEPT !.pc = "scan"]}
  <2>1. h \in gs /\ g.pc = "build"
    BY <1>5, <1>12 DEF Build, GuestAt
  <2>2. BuildOf(g.build, new, base) /\ (Valid(samples) => g.fetch.pc = "done")
    BY <1>2, <1>3, <2>1 DEF GuestOf, TidyOf
  <2>3. g.build # Nothing
    BY <2>2 DEF BuildOf
  <2>4. /\ DOMAIN g.build = BuildFields /\ TidyBuild(g.build)
        /\ g.build.base = g.base /\ g.build.commits = g.commits
    BY <1>3, <2>3 DEF TidyOf
  <2>. HIDE DEF B
  <2>5. \/ g.build.pc \notin {"built", "error"} /\ \E b \in B : h = [g EXCEPT !.build = b]
        \/ g.build.pc = "error" /\ h = Ended(g, 1)
        \/ h = [g EXCEPT !.pc = "scan"]
    BY <2>1
  <2>6. ASSUME NEW b \in B, h = [g EXCEPT !.build = b], g.build.pc \notin {"built", "error"} PROVE TidyOf(h)
    <3>1. /\ h.pc = "build" /\ h.fetch = g.fetch /\ h.build = b /\ h.base = g.base
          /\ h.commits = g.commits /\ h.manifest = g.manifest
      BY <1>0, <2>1, <2>6 DEF VmFields
    <3>2. DOMAIN b = BuildFields /\ TidyBuild(b) /\ b.base = g.base /\ b.commits = g.commits
      <4>1. g.build.pc \in {"new", "copyNew", "stale", "add", "base", "copyBase", "remove"}
            /\ g.build.fate \in {"built", "error"}
        BY <2>2, <2>6 DEF BuildOf
      <4>. HIDE DEF g
      <4>. QED BY <2>4, <2>6, <4>1, TidyStep DEF B
    <3>. HIDE DEF g, h
    <3>. QED BY <1>4, <2>1, <2>2, <3>1, <3>2 DEF TidyOf, samples
  <2>7. ASSUME g.build.pc = "error", h = Ended(g, 1) PROVE TidyOf(h)
    <3>1. ~Strange(g) => g.base \notin g.commits /\ Worktrees(g) = {}
      BY <2>3, <2>4, <2>7 DEF Strange, TidyBuild, Worktrees
    <3>. HIDE DEF g, h, samples
    <3>. QED BY <1>8, <2>1, <2>2, <2>7, <3>1
  <2>8. ASSUME h = [g EXCEPT !.pc = "scan"] PROVE TidyOf(h)
    <3>1. /\ DOMAIN h = VmFields /\ h.pc = "scan" /\ h.fetch = g.fetch /\ h.build = g.build /\ h.base = g.base
          /\ h.commits = g.commits /\ h.manifest = g.manifest
      BY <1>0, <2>8 DEF VmFields
    <3>. HIDE DEF g, h
    <3>. QED BY <1>4, <2>1, <2>2, <2>4, <3>1 DEF TidyOf, samples
  <2>. HIDE DEF h
  <2>. QED BY <2>5, <2>6, <2>7, <2>8
<1>13. ASSUME Scan(t) PROVE TidyOf(h)
  <2>. DEFINE V == {w \in Verdicts : w.manifest = g.manifest /\ w.ok = g.ok}
              gs == {[Ended(g, v.verdict.exit) EXCEPT !.lost = v.verdict.lost] : v \in V}
                    \cup {[Ended(g, 1) EXCEPT !.strange = TRUE]}
  <2>1. h \in gs /\ g.pc = "scan"
    BY <1>5, <1>13 DEF Scan, GuestAt
  <2>2. \/ \E v \in V : h = [Ended(g, v.verdict.exit) EXCEPT !.lost = v.verdict.lost]
        \/ h = [Ended(g, 1) EXCEPT !.strange = TRUE]
    <3>. HIDE DEF V
    <3>. QED BY <2>1
  <2>3. ASSUME NEW v \in V, h = [Ended(g, v.verdict.exit) EXCEPT !.lost = v.verdict.lost]
        PROVE  TidyOf(h)
    <3>1. /\ DOMAIN h = VmFields /\ h.pc = "ended" /\ h.exit = v.verdict.exit /\ h.strange = g.strange
          /\ \A x \in VmFields \ {"pc", "exit", "strange", "lost"} : h[x] = g[x]
      BY <1>0, <2>3 DEF VmFields, Ended
    <3>2. h.fetch = g.fetch /\ h.build = g.build
      BY <3>1 DEF VmFields
    <3>3. v.verdict.exit \in {0, 2}
      <4>1. v \in Verdicts /\ v.manifest \in Manifests
        BY <1>2 DEF GuestOf
      <4>. QED BY <4>1, VerdictsTell
    <3>4. /\ Valid(samples) => g.fetch.pc = "done"
          /\ DOMAIN g.build = BuildFields /\ g.build.pc = "built"
      BY <1>2, <1>3, <2>1 DEF GuestOf, BuildOf, TidyOf
    <3>5. g.build # Nothing
      BY <3>4
    <3>6. ~Strange(h) => Worktrees(g) = {}
      <4>1. TidyBuild(g.build)
        BY <1>3, <3>5 DEF TidyOf
      <4>2. ~Strange(h) => ~g.build.strange
        BY <3>2, <3>5 DEF Strange
      <4>. HIDE DEF g, h
      <4>. QED BY <3>4, <3>5, <4>1, <4>2 DEF TidyBuild, Worktrees
    <3>. HIDE DEF h, g, V, samples
    <3>. QED BY <1>6, <2>1, <3>1, <3>3, <3>4, <3>6
  <2>. HIDE DEF h, V
  <2>. QED BY <1>7, <2>1, <2>2, <2>3
<1>14. ASSUME VmDies(t) PROVE TidyOf(h)
  <2>1. \A x \in VmFields \ {"on"} : h[x] = g[x]
    BY <1>0, <1>14 DEF VmDies, VmFields
  <2>2. /\ h.pc = g.pc /\ h.build = g.build /\ h.fetch = g.fetch /\ h.base = g.base /\ h.ok = g.ok
        /\ h.commits = g.commits /\ h.exit = g.exit /\ h.strange = g.strange /\ h.manifest = g.manifest
    BY <2>1 DEF VmFields
  <2>3. Strange(h) <=> Strange(g)
    BY <2>2 DEF Strange
  <2>4. Worktrees(h) = Worktrees(g)
    BY <2>2 DEF Worktrees
  <2>. HIDE DEF g, h
  <2>. QED BY <1>3, <2>2, <2>3, <2>4 DEF TidyOf
<1>15. ASSUME Rerun(t) PROVE TidyOf(h)
  <2>. DEFINE had == g.fetch.store
              Store(m) == [i \in DOMAIN EmptyStore(Samples[m]) |->
                             IF i \in DOMAIN had THEN had[i] ELSE Nothing]
  <2>1. PICK m \in Manifests :
          LET again == StartFetch(g, m, Store(m))
          IN  vm' = [vm EXCEPT ![t] = [again EXCEPT !.on = TRUE, !.tries = @ + 1, !.build = g.build,
                                                     !.strange = FALSE]]
    BY <1>15 DEF Rerun
  <2>. DEFINE again == StartFetch(g, m, Store(m))
  <2>2. /\ DOMAIN again = VmFields /\ again.manifest = m /\ again.base = g.base /\ again.commits = g.commits
        /\ \/ again.pc = "fetch" /\ again.fetch = NewFetch(Samples[m], Cache, Store(m))
           \/ ~Valid(Samples[m]) /\ again.pc = "ended"
    BY <1>0, StartFetchTo, StartFetchBuild
  <2>3. h = [again EXCEPT !.on = TRUE, !.tries = @ + 1, !.build = g.build, !.strange = FALSE]
    BY <1>0, <2>1
  <2>4. DoneOf(NewFetch(Samples[m], Cache, Store(m)), Samples[m])
    BY NewFetchDone
  <2>. HIDE DEF again, Store
  <2>5. /\ h.fetch = again.fetch /\ h.manifest = m /\ h.build = g.build /\ h.base = g.base
        /\ h.commits = g.commits /\ h.pc = again.pc
    BY <2>2, <2>3 DEF VmFields
  <2>. HIDE DEF g, h
  <2>. QED BY <1>3, <2>2, <2>4, <2>5 DEF TidyOf
<1>16. TidyOf(h)
  BY <1>9, <1>10, <1>11, <1>12, <1>13, <1>14, <1>15 DEF Guest
<1>. QED BY <1>1, <1>16 DEF TidyInv, There, TidyOf

(***************************************************************************)
(* Whatever a fetch or a comparison has left in a VM, killed at any point, *)
(* does not fail a later one there: it places every sample its archive     *)
(* holds, and its worktree is gone. Of the manifests, that the samples of  *)
(* an archive agree on its digest and that none is in another; of Nothing, *)
(* that it is not a build.                                                 *)
(***************************************************************************)
THEOREM LeftoversDoNoHarm ==
  ASSUME \A m \in Manifests : Valid(Samples[m]) => Settled(Samples[m]),
         \A b : DOMAIN b = BuildFields => b # Nothing
  PROVE  Spec => []LeftoversHarmless
<1>1. Init => TidyInv
  BY DEF Init, TidyInv, There, NewVm
<1>2. HostInv /\ GuestInv /\ FetchInv /\ TidyInv /\ [Next]_vars => TidyInv'
  <2>. SUFFICES ASSUME HostInv, GuestInv, FetchInv, TidyInv, [Next]_vars PROVE TidyInv'
    OBVIOUS
  <2>1. CASE \E r \in Runs : Host(r)
    BY <2>1, HostTidyInv
  <2>2. CASE \E t \in Seconds : Guest(t)
    BY <2>2, GuestTidyInv
  <2>3. CASE UNCHANGED vars
    BY <2>3 DEF vars, TidyInv, There, TidyOf
  <2>. QED BY <2>1, <2>2, <2>3 DEF Next, Over
<1>3. GuestInv /\ TidyInv => LeftoversHarmless
  <2>. SUFFICES ASSUME GuestInv, TidyInv, NEW t \in Seconds, There(t), vm[t].pc = "ended",
                       vm[t].fetch # Nothing, Valid(Samples[vm[t].manifest]), ~Strange(vm[t])
                PROVE  LET g == vm[t]
                       IN  /\ g.exit = 1 => g.base \notin g.commits
                           /\ \A s \in Range(Samples[g.manifest]) : Holds(s) => g.fetch.report[s.id] = "ok"
                           /\ g.ok # {} => Worktrees(g) = {}
    BY DEF LeftoversHarmless
  <2>. DEFINE g == vm[t]
              samples == Samples[g.manifest]
  <2>1. TidyOf(g)
    BY DEF TidyInv
  <2>2. DoneOf(g.fetch, samples) /\ g.fetch.pc = "done" /\ ~g.fetch.strange
    BY <2>1 DEF TidyOf, Strange
  <2>3. \A i \in DOMAIN samples : Holds(samples[i]) => g.fetch.report[samples[i].id] = "ok"
    BY <2>2 DEF DoneOf
  <2>4. \A s \in Range(samples) : \E i \in DOMAIN samples : s = samples[i]
    BY DEF Range
  <2>. QED BY <2>1, <2>3, <2>4 DEF TidyOf
<1>. QED BY <1>1, <1>2, <1>3, BenchInvariant, PTL DEF Spec

=============================================================================
