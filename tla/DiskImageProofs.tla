-------------------------- MODULE DiskImageProofs --------------------------
(* Theorems about DiskImage, for any processes, images and devices. *)
EXTENDS DiskImage, TLAPS

-----------------------------------------------------------------------------
(* Every state component keeps its type. *)
THEOREM TypeCorrect == Spec => []TypeOK
<1>. USE ConstantsOK DEF TypeOK, mainVars, workerVars
<1>1. Init => TypeOK
  <2>. SUFFICES ASSUME Init PROVE TypeOK
    OBVIOUS
  <2>1. att \in [Devices -> Attachment \cup {Free}]
    BY DEF Init, Attachment, Places
  <2>. QED
    BY <2>1 DEF Init, Attached, MainPc, WorkerPc, ChildState, Results
<1>2. TypeOK /\ [Next]_vars => TypeOK'
  <2>. SUFFICES ASSUME TypeOK, [Next]_vars PROVE TypeOK'
    OBVIOUS
  <2>. USE DEF Goto, MainPc, WorkerPc, ChildState, Results, Reports
  <2>1. ASSUME NEW p \in Procs, Main(p) PROVE TypeOK'
    <3>1. CASE Start(p)
      BY <3>1 DEF Start
    <3>2. CASE SweepList(p)
      BY <3>2 DEF SweepList, Stale, Attached
    <3>3. ASSUME NEW d \in Devices, DetachOk(p, d) PROVE TypeOK'
      BY <3>3 DEF DetachOk
    <3>4. ASSUME NEW d \in Devices, DetachFails(p, d) PROVE TypeOK'
      BY <3>4, SMTT(40) DEF DetachFails
    <3>5. CASE DetachedAll(p)
      BY <3>5 DEF DetachedAll
    <3>6. CASE SweepDirs(p)
      BY <3>6 DEF SweepDirs
    <3>7. CASE MakeRunDir(p)
      BY <3>7, SMTT(40) DEF MakeRunDir
    <3>8. CASE Receive(p)
      BY <3>8 DEF Receive
    <3>9. CASE SeeCancel(p)
      BY <3>9 DEF SeeCancel
    <3>10. CASE GraceOver(p)
      BY <3>10 DEF GraceOver
    <3>11. CASE CleanupList(p)
      BY <3>11 DEF CleanupList, Leftovers, MountedUnder, DevicesOfImage, Attached
    <3>12. CASE CleanupWarn(p)
      <4>1. warned' = warned \/ warned' = [warned EXCEPT ![p] = TRUE]
                             \/ warned' = [warned EXCEPT ![p] = FALSE]
        <5>. DEFINE left == Leftovers(p) # {}
        <5>1. left = TRUE \/ left = FALSE
          OBVIOUS
        <5>2. warned' = warned \/ warned' = [warned EXCEPT ![p] = left]
          BY <3>12 DEF CleanupWarn
        <5>. HIDE DEF left
        <5>. QED
          BY <5>1, <5>2
      <4>2. warned' \in [Procs -> BOOLEAN]
        BY <4>1
      <4>3. missed' \in [Procs -> SUBSET {"sweep", "dirs", "cleanup"}]
        BY <3>12 DEF CleanupWarn
      <4>. QED
        BY <3>12, <4>2, <4>3 DEF CleanupWarn
    <3>13. CASE RemoveRunDir(p)
      BY <3>13 DEF RemoveRunDir
    <3>14. CASE Report(p)
      BY <3>14 DEF Report, Forget
    <3>. QED
      BY <2>1, <3>1, <3>2, <3>3, <3>4, <3>5, <3>6, <3>7, <3>8, <3>9, <3>10, <3>11,
         <3>12, <3>13, <3>14 DEF Main, Detaching
  <2>2. ASSUME NEW p \in Procs, Worker(p) PROVE TypeOK'
    <3>. USE DEF Answer
    <3>1. CASE WorkerChecks(p)
      BY <3>1, SMTT(40) DEF WorkerChecks
    <3>2. CASE WorkerSnapshot(p)
      BY <3>2 DEF WorkerSnapshot, DevicesOfImage, Attached
    <3>3. CASE WorkerAttach(p)
      BY <3>3 DEF WorkerAttach
    <3>4. CASE WorkerRetry(p)
      BY <3>4 DEF WorkerRetry
    <3>5. CASE WorkerAttached(p)
      BY <3>5 DEF WorkerAttached
    <3>6. CASE WorkerKillsChild(p)
      BY <3>6 DEF WorkerKillsChild
    <3>7. CASE WorkerScanned(p)
      BY <3>7 DEF WorkerScanned
    <3>. QED
      BY <2>2, <3>1, <3>2, <3>3, <3>4, <3>5, <3>6, <3>7 DEF Worker
  <2>3. ASSUME NEW p \in Procs, Child(p) PROVE TypeOK'
    <3>1. ASSUME NEW d \in Devices, ChildDevice(p, d) PROVE TypeOK'
      BY <3>1 DEF ChildDevice, NewAttachment, Attachment, Places
    <3>2. ASSUME NEW d \in Devices, ChildMount(p, d) PROVE TypeOK'
      BY <3>2 DEF ChildMount, OwnDevices, Attached, Attachment, Places
    <3>3. CASE ChildExit(p)
      BY <3>3 DEF ChildExit
    <3>. QED
      BY <2>3, <3>1, <3>2, <3>3 DEF Child
  <2>4. ASSUME NEW p \in Procs, Signal(p) PROVE TypeOK'
    BY <2>4 DEF Signal
  <2>5. ASSUME NEW p \in Procs, Kill(p) PROVE TypeOK'
    BY <2>5 DEF Kill, Forget
  <2>6. CASE UserStep
    <3>1. ASSUME NEW d \in Devices, NEW i \in UserImages, UserAttach(i, d)
          PROVE  TypeOK'
      BY <3>1 DEF UserAttach, NewAttachment, Attachment, Places
    <3>2. ASSUME NEW d \in Devices, UserMount(d) PROVE TypeOK'
      BY <3>2 DEF UserMount, Attachment, Places
    <3>3. ASSUME NEW d \in Devices, UserDetach(d) PROVE TypeOK'
      BY <3>3 DEF UserDetach
    <3>. QED
      BY <2>6, <3>1, <3>2, <3>3 DEF UserStep
  <2>7. CASE UNCHANGED vars
    BY <2>7 DEF vars
  <2>. QED
    BY <2>1, <2>2, <2>3, <2>4, <2>5, <2>6, <2>7 DEF Next
<1>. QED
  BY <1>1, <1>2, PTL DEF Spec

-----------------------------------------------------------------------------
(* No step brings a process back: started stays started, over stays over. *)
LEMMA Forward ==
    ASSUME TypeOK, [Next]_vars, NEW q \in Procs
    PROVE  /\ pc[q] # "new" => pc'[q] # "new"
           /\ Over(q) => Over(q)'
<1>. USE DEF TypeOK, MainPc, Over, Alive, Goto, mainVars, workerVars
<1>1. ASSUME NEW p \in Procs, Main(p)
      PROVE  pc' = pc \/ \E l \in MainPc \ {"new"} :
                 ~ Over(p) /\ pc' = [pc EXCEPT ![p] = l]
  <2>. USE <1>1
  <2>1. CASE Start(p)
    BY <2>1 DEF Start
  <2>2. CASE SweepList(p)
    BY <2>2 DEF SweepList
  <2>3. CASE Detaching(p)
    BY <2>3 DEF Detaching, DetachOk, DetachFails
  <2>4. CASE DetachedAll(p)
    BY <2>4 DEF DetachedAll
  <2>5. CASE SweepDirs(p) \/ MakeRunDir(p)
    BY <2>5 DEF SweepDirs, MakeRunDir
  <2>6. CASE Receive(p) \/ SeeCancel(p) \/ GraceOver(p)
    BY <2>6 DEF Receive, SeeCancel, GraceOver
  <2>7. CASE CleanupList(p) \/ CleanupWarn(p) \/ RemoveRunDir(p) \/ Report(p)
    BY <2>7 DEF CleanupList, CleanupWarn, RemoveRunDir, Report
  <2>. QED
    BY <2>1, <2>2, <2>3, <2>4, <2>5, <2>6, <2>7 DEF Main
<1>2. ASSUME NEW p \in Procs, Kill(p)
      PROVE  ~ Over(p) /\ pc' = [pc EXCEPT ![p] = "dead"]
  BY <1>2 DEF Kill
<1>3. ASSUME NEW p \in Procs, Worker(p) \/ Child(p) \/ Signal(p) PROVE pc' = pc
  BY <1>3 DEF Worker, WorkerChecks, WorkerSnapshot, WorkerAttach, WorkerRetry,
       WorkerAttached, WorkerKillsChild, WorkerScanned, Child, ChildDevice,
       ChildMount, ChildExit, Signal
<1>4. CASE UserStep
  BY <1>4 DEF UserStep, UserAttach, UserMount, UserDetach
<1>5. CASE UNCHANGED vars
  BY <1>5 DEF vars
<1>. QED
  BY <1>1, <1>2, <1>3, <1>4, <1>5 DEF Next

(* A step that lists nothing new and attaches, mounts and snapshots nothing
   keeps the invariant. *)
LEMMA Frame ==
    ASSUME TypeOK, DetachInv, [Next]_vars,
           UNCHANGED used,
           \A d \in Devices : att'[d] = att[d] \/ att'[d] = Free,
           \A q \in Procs : todo'[q] \subseteq todo[q],
           \A q \in Procs : before'[q] \cup seen'[q] \subseteq before[q] \cup seen[q],
           StartedInv'
    PROVE  DetachInv'
<1>1. OwnerInv'
  BY Forward DEF DetachInv, OwnerInv, TypeOK, Attachment
<1>2. BeforeInv'
  BY DEF DetachInv, BeforeInv
<1>3. TodoInv'
  BY Forward DEF DetachInv, TodoInv, OwnOrAbandoned, TypeOK
<1>. QED
  BY <1>1, <1>2, <1>3 DEF DetachInv

LEMMA StartedStep ==
    ASSUME TypeOK, StartedInv, [Next]_vars
    PROVE  StartedInv'
<1>. USE DEF TypeOK, StartedInv, mainVars, workerVars, Goto, Alive
<1>1. ASSUME NEW p \in Procs, Main(p) PROVE StartedInv'
  <2>1. CASE Start(p) \/ SweepList(p) \/ DetachedAll(p)
    BY <2>1, Forward DEF Start, SweepList, DetachedAll
  <2>2. CASE Detaching(p)
    BY <2>2 DEF Detaching, DetachOk, DetachFails
  <2>3. CASE SweepDirs(p)
    BY <2>3 DEF SweepDirs
  <2>4. CASE MakeRunDir(p)
    BY <2>4 DEF MakeRunDir
  <2>5. CASE Receive(p) \/ SeeCancel(p) \/ GraceOver(p) \/ CleanupList(p) \/ CleanupWarn(p)
    BY <2>5 DEF Receive, SeeCancel, GraceOver, CleanupList, CleanupWarn
  <2>6. CASE RemoveRunDir(p) \/ Report(p)
    BY <2>6 DEF RemoveRunDir, Report, Forget
  <2>. QED
    BY <1>1, <2>1, <2>2, <2>3, <2>4, <2>5, <2>6 DEF Main
<1>2. ASSUME NEW p \in Procs, Worker(p) PROVE StartedInv'
  BY <1>2 DEF Worker, WorkerChecks, WorkerSnapshot, WorkerAttach, WorkerRetry,
       WorkerAttached, WorkerKillsChild, WorkerScanned, ChildRuns, Answer
<1>3. ASSUME NEW p \in Procs, Child(p) \/ Signal(p) PROVE StartedInv'
  BY <1>3 DEF Child, ChildDevice, ChildMount, ChildExit, Signal, ChildRuns
<1>4. ASSUME NEW p \in Procs, Kill(p) PROVE StartedInv'
  BY <1>4 DEF Kill, Forget
<1>5. CASE UserStep
  BY <1>5 DEF UserStep, UserAttach, UserMount, UserDetach
<1>6. CASE UNCHANGED vars
  BY <1>6 DEF vars
<1>. QED
  BY <1>1, <1>2, <1>3, <1>4, <1>5, <1>6 DEF Next

(* A listing for the sweep names only what dead runs left. *)
LEMMA SweepListsStale ==
    ASSUME TypeOK, DetachInv, NEW p \in Procs, NEW d \in Stale(p)
    PROVE  d \in used /\ att[d] # Free /\ OwnOrAbandoned(p, att[d])
<1>. DEFINE q == att[d].mount
<1>1. /\ d \in Devices /\ att[d] # Free /\ q \in Procs
      /\ \A r \in Procs : PidOf[r] = PidOf[q] => ~ Alive(r)
  BY DEF Stale, Attached, DeadDir, PidAlive
<1>2. d \in used /\ att[d].owner = q /\ pc[q] # "new"
  BY <1>1 DEF DetachInv, OwnerInv
<1>3. Over(q)
  BY <1>1, <1>2 DEF Alive, Over
<1>. QED
  BY <1>1, <1>2, <1>3 DEF OwnOrAbandoned

(* A listing for the cleanup names only what the run itself attached. *)
LEMMA LeftoversAreOwn ==
    ASSUME TypeOK, DetachInv, NEW p \in Procs, NEW d \in Leftovers(p)
    PROVE  d \in used /\ att[d] # Free /\ att[d].owner = p
<1>1. CASE d \in MountedUnder(p)
  BY <1>1 DEF MountedUnder, Attached, DetachInv, OwnerInv
<1>2. CASE d \in DevicesOfImage(ImageOf[p]) /\ seen[p] # {} /\ d \notin UNION seen[p]
  <2>1. d \in Devices /\ att[d] # Free /\ att[d].image = ImageOf[p]
    BY <1>2 DEF DevicesOfImage, Attached
  <2>2. \E S \in seen[p] : d \notin S
    BY <1>2
  <2>. QED
    BY <2>1, <2>2 DEF DetachInv, BeforeInv, OwnerInv
<1>. QED
  BY <1>1, <1>2 DEF Leftovers

(* An attach never takes a device some run still means to detach, nor, in
   isolation, an image another run is cleaning up after. *)
LEMMA AttachStep ==
    ASSUME TypeOK, DetachInv, Isolated, [Next]_vars, StartedInv',
           NEW i \in Images, NEW d \in Devices, NEW who \in Procs \cup {User},
           NewAttachment(i, who, d),
           who \in Procs => pc[who] # "new",
           \A p \in Procs : ImageOf[p] = i => who = p,
           UNCHANGED <<todo, before, seen, pc>>
    PROVE  DetachInv'
<1>. DEFINE a == [image |-> i, mount |-> Nowhere, owner |-> who]
<1>1. /\ d \notin used /\ used' = used \cup {d}
      /\ \A e \in Devices : att'[e] = IF e = d THEN a ELSE att[e]
  BY DEF NewAttachment, Isolated, TypeOK
<1>2. a.image = i /\ a.mount \notin Procs /\ a.owner = who
  BY ConstantsOK
<1>. HIDE DEF a
<1>3. OwnerInv'
  BY <1>1, <1>2 DEF DetachInv, OwnerInv
<1>4. BeforeInv'
  BY <1>1, <1>2 DEF DetachInv, BeforeInv
<1>5. TodoInv'
  BY <1>1, <1>2 DEF DetachInv, TodoInv, OwnOrAbandoned, Over, TypeOK
<1>. QED
  BY <1>3, <1>4, <1>5 DEF DetachInv

(* Mounting changes neither owner nor image. *)
LEMMA MountStep ==
    ASSUME TypeOK, DetachInv, [Next]_vars, StartedInv',
           NEW d \in Devices, NEW m \in Places,
           att[d] # Free, att' = [att EXCEPT ![d].mount = m],
           m \in Procs => att[d].owner = m,
           UNCHANGED <<used, todo, before, seen, pc>>
    PROVE  DetachInv'
<1>1. /\ att'[d].owner = att[d].owner /\ att'[d].image = att[d].image
      /\ att'[d].mount = m
      /\ \A e \in Devices : e # d => att'[e] = att[e]
  BY DEF TypeOK, Attachment
<1>2. OwnerInv'
  BY <1>1 DEF DetachInv, OwnerInv
<1>3. BeforeInv'
  BY <1>1 DEF DetachInv, BeforeInv
<1>4. TodoInv'
  BY <1>1 DEF DetachInv, TodoInv, OwnOrAbandoned, Over, TypeOK
<1>. QED
  BY <1>2, <1>3, <1>4 DEF DetachInv

LEMMA DetachInvStep ==
    ASSUME TypeOK, DetachInv, Isolated, [Next]_vars
    PROVE  DetachInv'
<1>. USE DEF mainVars, workerVars
<1>s. StartedInv'
  BY StartedStep DEF DetachInv
<1>1. ASSUME NEW p \in Procs, Main(p) PROVE DetachInv'
  <2>1. CASE SweepList(p)
    <3>1. /\ UNCHANGED <<att, used, before, seen>>
          /\ \A q \in Procs : todo'[q] \subseteq IF q = p THEN Stale(p) ELSE todo[q]
      BY <2>1 DEF SweepList, TypeOK
    <3>2. OwnerInv' /\ BeforeInv'
      BY <3>1, Forward DEF DetachInv, OwnerInv, BeforeInv, TypeOK, Attachment
    <3>3. TodoInv'
      BY <3>1, Forward, SweepListsStale DEF DetachInv, TodoInv, OwnOrAbandoned, TypeOK
    <3>. QED
      BY <1>s, <3>2, <3>3 DEF DetachInv
  <2>2. CASE CleanupList(p)
    <3>1. /\ UNCHANGED <<att, used, before, seen>>
          /\ \A q \in Procs : todo'[q] \subseteq IF q = p THEN Leftovers(p) ELSE todo[q]
      BY <2>2 DEF CleanupList, TypeOK
    <3>2. OwnerInv' /\ BeforeInv'
      BY <3>1, Forward DEF DetachInv, OwnerInv, BeforeInv, TypeOK, Attachment
    <3>3. TodoInv'
      BY <3>1, Forward, LeftoversAreOwn DEF DetachInv, TodoInv, OwnOrAbandoned, TypeOK
    <3>. QED
      BY <1>s, <3>2, <3>3 DEF DetachInv
  <2>3. ASSUME NEW d \in Devices, DetachOk(p, d) \/ DetachFails(p, d) PROVE DetachInv'
    BY <1>s, <2>3, Frame DEF DetachOk, DetachFails, TypeOK
  <2>4. CASE Start(p) \/ DetachedAll(p) \/ SweepDirs(p) \/ MakeRunDir(p) \/ SeeCancel(p)
    BY <1>s, <2>4, Frame DEF Start, DetachedAll, SweepDirs, MakeRunDir, SeeCancel
  <2>5. CASE Receive(p) \/ GraceOver(p)
    BY <1>s, <2>5, Frame DEF Receive, GraceOver, TypeOK
  <2>6. CASE CleanupWarn(p) \/ RemoveRunDir(p)
    BY <1>s, <2>6, Frame DEF CleanupWarn, RemoveRunDir
  <2>7. CASE Report(p)
    BY <1>s, <2>7, Frame DEF Report, Forget, TypeOK
  <2>. QED
    BY <1>1, <2>1, <2>2, <2>3, <2>4, <2>5, <2>6, <2>7 DEF Main, Detaching
<1>2. ASSUME NEW p \in Procs, Worker(p) PROVE DetachInv'
  <2>1. CASE WorkerSnapshot(p)
    <3>1. /\ UNCHANGED <<att, used, todo, seen, pc>>
          /\ \A q \in Procs :
                before'[q] = before[q] \/ (q = p /\ before'[q] = {DevicesOfImage(ImageOf[p])})
      <4>. DEFINE S == {DevicesOfImage(ImageOf[p])}
      <4>1. before' = before \/ before' = [before EXCEPT ![p] = S]
        BY <2>1 DEF WorkerSnapshot
      <4>. HIDE DEF S
      <4>2. \A q \in Procs : before'[q] = before[q] \/ (q = p /\ before'[q] = S)
        BY <4>1 DEF TypeOK
      <4>. QED
        BY <2>1, <4>2 DEF WorkerSnapshot, S
    <3>2. BeforeInv'
      BY <3>1 DEF DetachInv, BeforeInv, DevicesOfImage, Attached
    <3>3. OwnerInv' /\ TodoInv'
      BY <3>1 DEF DetachInv, OwnerInv, TodoInv, OwnOrAbandoned, Over
    <3>. QED
      BY <1>s, <3>2, <3>3 DEF DetachInv
  <2>2. CASE ~ WorkerSnapshot(p)
    BY <1>s, <1>2, <2>2, Frame DEF Worker, WorkerChecks, WorkerAttach, WorkerRetry,
       WorkerAttached, WorkerKillsChild, WorkerScanned
  <2>. QED
    BY <2>1, <2>2
<1>3. ASSUME NEW p \in Procs, Child(p) PROVE DetachInv'
  <2>1. ASSUME NEW d \in Devices, ChildDevice(p, d) PROVE DetachInv'
    <3>1. ImageOf[p] \in Images /\ pc[p] # "new"
      BY <2>1, ConstantsOK DEF ChildDevice, DetachInv, StartedInv
    <3>2. \A q \in Procs : ImageOf[q] = ImageOf[p] => p = q
      BY DEF Isolated
    <3>. QED
      BY <1>s, <2>1, <3>1, <3>2, AttachStep DEF ChildDevice
  <2>2. ASSUME NEW d \in Devices, ChildMount(p, d) PROVE DetachInv'
    <3>1. /\ att[d] # Free /\ att[d].owner = p
          /\ \E m \in {p, Elsewhere} : att' = [att EXCEPT ![d].mount = m]
          /\ UNCHANGED <<used, todo, before, seen, pc>>
      BY <2>2 DEF ChildMount, OwnDevices, Attached
    <3>2. {p, Elsewhere} \subseteq Places /\ Elsewhere \notin Procs
      BY ConstantsOK DEF Places
    <3>. QED
      BY <1>s, <3>1, <3>2, MountStep
  <2>3. CASE ChildExit(p)
    BY <1>s, <2>3, Frame DEF ChildExit
  <2>. QED
    BY <1>3, <2>1, <2>2, <2>3 DEF Child
<1>4. ASSUME NEW p \in Procs, Signal(p) PROVE DetachInv'
  BY <1>s, <1>4, Frame DEF Signal
<1>5. ASSUME NEW p \in Procs, Kill(p) PROVE DetachInv'
  BY <1>s, <1>5, Frame DEF Kill, Forget, TypeOK
<1>6. CASE UserStep
  <2>1. ASSUME NEW d \in Devices, NEW i \in UserImages, UserAttach(i, d)
        PROVE  DetachInv'
    <3>1. i \in Images /\ User \notin Procs /\ \A q \in Procs : ImageOf[q] # i
      BY ConstantsOK DEF Isolated
    <3>. QED
      BY <1>s, <2>1, <3>1, AttachStep DEF UserAttach
  <2>2. ASSUME NEW d \in Devices, UserMount(d) PROVE DetachInv'
    BY <1>s, <2>2, MountStep, ConstantsOK DEF UserMount, Places
  <2>3. ASSUME NEW d \in Devices, UserDetach(d) PROVE DetachInv'
    BY <1>s, <2>3, Frame DEF UserDetach, TypeOK
  <2>. QED
    BY <1>6, <2>1, <2>2, <2>3 DEF UserStep
<1>7. CASE UNCHANGED vars
  BY <1>s, <1>7, Frame DEF vars
<1>. QED
  BY <1>1, <1>2, <1>3, <1>4, <1>5, <1>6, <1>7 DEF Next

-----------------------------------------------------------------------------
(* In isolation navctl only ever detaches what its own attach made or what a
   navctl that is over left attached: for any number of runs, with signals,
   kills, failing calls and a user at any point. *)
THEOREM DetachesOwnOrStale ==
    ASSUME Isolated
    PROVE  Spec => DetachOnlyOwnOrStale
<1>1. Init => DetachInv
  BY ConstantsOK DEF Init, DetachInv, StartedInv, OwnerInv, BeforeInv, TodoInv, Attached
<1>2. TypeOK /\ DetachInv /\ [Next]_vars => DetachInv'
  BY DetachInvStep
<1>3. DetachInv => \A p \in Procs, d \in Devices : Detaches(p, d) => OwnOrAbandoned(p, att[d])
  BY DEF DetachInv, TodoInv, Detaches
<1>. QED
  BY <1>1, <1>2, <1>3, TypeCorrect, PTL DEF Spec, DetachOnlyOwnOrStale

(* The run directory of a live process is removed by that process only: a sweep
   spares it whatever its name and whoever is asleep. *)
THEOREM LiveRunDirsKept == Spec => LiveRunDirKept
<1>1. Init => StartedInv
  BY DEF Init, StartedInv
<1>2. TypeOK /\ StartedInv /\ [Next]_vars => StartedInv'
  BY StartedStep
<1>3. TypeOK /\ StartedInv /\ [Next]_vars =>
        [\A p \in Procs : p \in dirs \ dirs' => pc[p] = "rmrun" \/ Over(p)]_vars
  <2>. SUFFICES ASSUME TypeOK, StartedInv, [Next]_vars, vars' # vars,
                       NEW p \in Procs, p \in dirs, p \notin dirs'
                PROVE  pc[p] = "rmrun" \/ Over(p)
    OBVIOUS
  <2>1. PICK q \in Procs : SweepDirs(q) \/ RemoveRunDir(q)
    BY DEF Next, UserStep, UserAttach, UserMount, UserDetach, Main, Start, SweepList,
       Detaching, DetachOk, DetachFails, DetachedAll, MakeRunDir, Receive, SeeCancel,
       GraceOver, CleanupList, CleanupWarn, Report, Worker, WorkerChecks,
       WorkerSnapshot, WorkerAttach, WorkerRetry, WorkerAttached, WorkerKillsChild,
       WorkerScanned, Child, ChildDevice, ChildMount, ChildExit, Signal, Kill
  <2>2. CASE RemoveRunDir(q)
    BY <2>2 DEF RemoveRunDir
  <2>3. CASE SweepDirs(q)
    <3>1. DeadDir(q, p)
      BY <2>3 DEF SweepDirs
    <3>. QED
      BY <3>1 DEF DeadDir, PidAlive, Alive, Over, StartedInv
  <2>. QED
    BY <2>1, <2>2, <2>3
<1>. QED
  BY <1>1, <1>2, <1>3, TypeCorrect, PTL DEF Spec, LiveRunDirKept

-----------------------------------------------------------------------------
(* The sweep.  A process that is over never mounts again, and one that had    *)
(* ended when this run started is followed from the listing to the removal.   *)
OverInv == \A p \in Procs : Over(p) => wpc[p] = "gone"

EndedInv == \A q \in Procs : \A p \in ended[q] : Ended(p) /\ p # q

Swept(q, p) ==
    "sweep" \notin missed[q] /\ UniquePid(p) =>
        /\ pc[q] = "sweep" => MountedUnder(p) \subseteq todo[q]
        /\ pc[q] \in {"rmdirs", "mkdir", "wait", "grace", "clist", "cdetach", "cwarn",
                     "rmrun"} => MountedUnder(p) = {}
        /\ pc[q] \in {"mkdir", "wait", "grace", "clist", "cdetach", "cwarn", "rmrun"}
           => p \notin dirs \/ "dirs" \in missed[q]

SweepInv ==
    /\ OverInv
    /\ EndedInv
    /\ \A q \in Procs : \A p \in ended[q] : Swept(q, p)

LEMMA OverStep ==
    ASSUME TypeOK, OverInv, [Next]_vars
    PROVE  OverInv'
<1>. USE DEF TypeOK, OverInv, Over, mainVars, workerVars, Goto
<1>1. ASSUME NEW p \in Procs, Main(p) PROVE OverInv'
  <2>1. CASE Start(p) \/ SweepList(p) \/ SweepDirs(p) \/ SeeCancel(p)
    BY <2>1 DEF Start, SweepList, SweepDirs, SeeCancel
  <2>2. CASE Detaching(p)
    BY <2>2 DEF Detaching, DetachOk, DetachFails
  <2>3. CASE DetachedAll(p)
    BY <2>3 DEF DetachedAll
  <2>4. CASE MakeRunDir(p)
    BY <2>4 DEF MakeRunDir
  <2>5. CASE Receive(p) \/ GraceOver(p) \/ CleanupList(p) \/ CleanupWarn(p) \/ RemoveRunDir(p)
    BY <2>5 DEF Receive, GraceOver, CleanupList, CleanupWarn, RemoveRunDir
  <2>6. CASE Report(p)
    BY <2>6 DEF Report, Forget
  <2>. QED
    BY <1>1, <2>1, <2>2, <2>3, <2>4, <2>5, <2>6 DEF Main
<1>2. ASSUME NEW p \in Procs, Worker(p) PROVE OverInv'
  BY <1>2 DEF Worker, WorkerChecks, WorkerSnapshot, WorkerAttach, WorkerRetry,
       WorkerAttached, WorkerKillsChild, WorkerScanned, Answer
<1>3. ASSUME NEW p \in Procs, Child(p) \/ Signal(p) PROVE OverInv'
  BY <1>3 DEF Child, ChildDevice, ChildMount, ChildExit, Signal
<1>4. ASSUME NEW p \in Procs, Kill(p) PROVE OverInv'
  BY <1>4 DEF Kill, Forget
<1>5. CASE UserStep
  BY <1>5 DEF UserStep, UserAttach, UserMount, UserDetach
<1>6. CASE UNCHANGED vars
  BY <1>6 DEF vars
<1>. QED
  BY <1>1, <1>2, <1>3, <1>4, <1>5, <1>6 DEF Next

(* What a run that has ended left can only become less. *)
LEMMA EndedStays ==
    ASSUME TypeOK, OverInv, [Next]_vars, NEW p \in Procs, Ended(p)
    PROVE  /\ Ended(p)'
           /\ MountedUnder(p)' \subseteq MountedUnder(p)
           /\ p \in dirs' => p \in dirs
<1>. USE DEF TypeOK, mainVars, workerVars
<1>1. Over(p)'
  BY Forward DEF Ended
<1>. DEFINE Kept == /\ ~ ChildRuns(p)'
                    /\ \A d \in Devices : att'[d] # Free /\ att'[d].mount = p
                                          => att[d] # Free /\ att[d].mount = p
                    /\ p \in dirs' => p \in dirs
<1>2. ASSUME NEW q \in Procs, Main(q) PROVE Kept
  <2>1. CASE Detaching(q)
    BY <2>1 DEF Detaching, DetachOk, DetachFails, Ended, ChildRuns
  <2>2. CASE MakeRunDir(q)
    BY <2>2 DEF MakeRunDir, Ended, ChildRuns, Over
  <2>3. CASE ~ Detaching(q) /\ ~ MakeRunDir(q)
    BY <1>2, <2>3 DEF Main, Start, SweepList, DetachedAll, SweepDirs, Receive,
       SeeCancel, GraceOver, CleanupList, CleanupWarn, RemoveRunDir, Report, Ended,
       ChildRuns
  <2>. QED
    BY <2>1, <2>2, <2>3
<1>3. ASSUME NEW q \in Procs, Worker(q) PROVE Kept
  BY <1>3 DEF Worker, WorkerChecks, WorkerSnapshot, WorkerAttach, WorkerRetry,
     WorkerAttached, WorkerKillsChild, WorkerScanned, Ended, ChildRuns, OverInv
<1>4. ASSUME NEW q \in Procs, NEW d \in Devices, ChildDevice(q, d) PROVE Kept
  <2>1. [image |-> ImageOf[q], mount |-> Nowhere, owner |-> q].mount # p
    BY ConstantsOK
  <2>. QED
    BY <1>4, <2>1 DEF ChildDevice, NewAttachment, Ended, ChildRuns
<1>5. ASSUME NEW q \in Procs, NEW d \in Devices, ChildMount(q, d) PROVE Kept
  <2>1. q # p /\ Elsewhere # p
    BY <1>5, ConstantsOK DEF ChildMount, Ended, ChildRuns
  <2>2. /\ att[d] # Free
        /\ \E m \in {q, Elsewhere} : att' = [att EXCEPT ![d].mount = m]
        /\ UNCHANGED <<dirs, child>>
    BY <1>5 DEF ChildMount, OwnDevices, Attached
  <2>. QED
    BY <2>1, <2>2 DEF Ended, ChildRuns, Attachment
<1>6. ASSUME NEW q \in Procs, ChildExit(q) \/ Signal(q) \/ Kill(q) PROVE Kept
  BY <1>6 DEF ChildExit, Signal, Kill, Ended, ChildRuns
<1>7. ASSUME UserStep PROVE Kept
  <2>1. ASSUME NEW d \in Devices, NEW i \in UserImages, UserAttach(i, d) PROVE Kept
    <3>1. [image |-> i, mount |-> Nowhere, owner |-> User].mount # p
      BY ConstantsOK
    <3>. QED
      BY <2>1, <3>1 DEF UserAttach, NewAttachment, Ended, ChildRuns
  <2>2. ASSUME NEW d \in Devices, UserMount(d) \/ UserDetach(d) PROVE Kept
    BY <2>2, ConstantsOK DEF UserMount, UserDetach, Ended, ChildRuns, Attachment
  <2>. HIDE DEF Kept
  <2>. QED
    BY <1>7, <2>1, <2>2 DEF UserStep
<1>8. ASSUME UNCHANGED vars PROVE Kept
  BY <1>8 DEF vars, Ended, ChildRuns
<1>9. Kept
  <2>. HIDE DEF Kept
  <2>. QED
    BY <1>2, <1>3, <1>4, <1>5, <1>6, <1>7, <1>8 DEF Next, Child
<1>10. MountedUnder(p)' \subseteq MountedUnder(p)
  BY <1>9 DEF MountedUnder, Attached
<1>. QED
  BY <1>1, <1>9, <1>10 DEF Ended, ChildRuns

LEMMA SweepStep ==
    ASSUME TypeOK, SweepInv, [Next]_vars
    PROVE  SweepInv'
<1>. USE DEF TypeOK, mainVars, workerVars, Goto
<1>1. OverInv'
  BY OverStep DEF SweepInv
<1>2. \A q \in Procs : pc[q] # "new" => ended'[q] = ended[q] \/ ended'[q] = {}
  BY DEF Next, UserStep, UserAttach, UserMount, UserDetach, Main, Start, SweepList,
     Detaching, DetachOk, DetachFails, DetachedAll, SweepDirs, MakeRunDir, Receive,
     SeeCancel, GraceOver, CleanupList, CleanupWarn, RemoveRunDir, Report, Worker,
     WorkerChecks, WorkerSnapshot, WorkerAttach, WorkerRetry, WorkerAttached,
     WorkerKillsChild, WorkerScanned, Child, ChildDevice, ChildMount, ChildExit,
     Signal, Kill, vars
<1>3. ASSUME NEW q \in Procs, pc[q] = "new"
      PROVE  \/ pc'[q] = "new" /\ ended'[q] = ended[q]
             \/ /\ pc'[q] \in {"list", "reset"} /\ ended'[q] = {p \in Procs : Ended(p)}
  BY <1>3 DEF Next, UserStep, UserAttach, UserMount, UserDetach, Main, Start, SweepList,
     Detaching, DetachOk, DetachFails, DetachedAll, SweepDirs, MakeRunDir, Receive,
     SeeCancel, GraceOver, CleanupList, CleanupWarn, RemoveRunDir, Report, Worker,
     WorkerChecks, WorkerSnapshot, WorkerAttach, WorkerRetry, WorkerAttached,
     WorkerKillsChild, WorkerScanned, Child, ChildDevice, ChildMount, ChildExit,
     Signal, Kill, vars, Alive
<1>4. EndedInv'
  BY <1>2, <1>3, EndedStays DEF SweepInv, EndedInv, Ended, Over
<1>5. ASSUME NEW q \in Procs, NEW p \in ended'[q] PROVE Swept(q, p)'
  <2>1. CASE pc[q] = "new"
    BY <1>3, <2>1 DEF Swept
  <2>2. CASE pc[q] # "new"
    <3>1. /\ p \in ended[q] /\ p \in Procs /\ p # q /\ Ended(p)
          /\ Swept(q, p)
      BY <1>2, <2>2 DEF SweepInv, EndedInv
    <3>2. MountedUnder(p)' \subseteq MountedUnder(p) /\ (p \in dirs' => p \in dirs)
      BY <3>1, EndedStays DEF SweepInv
    <3>3. SUFFICES ASSUME "sweep" \notin missed'[q], UniquePid(p) PROVE Swept(q, p)'
      BY DEF Swept, UniquePid
    <3>4. CASE UNCHANGED <<pc, todo, missed>>
      BY <3>1, <3>2, <3>4 DEF Swept, UniquePid
    <3>5. CASE SweepList(q)
      <4>1. MountedUnder(p) \subseteq Stale(q)
        BY <3>1, <3>3 DEF MountedUnder, Stale, Attached, DeadDir, PidAlive, UniquePid,
           Ended, Over, Alive
      <4>2. todo'[q] = Stale(q) \/ "sweep" \in missed'[q]
        BY <3>5 DEF SweepList
      <4>. QED
        BY <3>2, <3>3, <3>5, <4>1, <4>2 DEF Swept, SweepList
    <3>6. CASE Detaching(q)
      <4>1. PICK d \in Devices : DetachOk(q, d) \/ DetachFails(q, d)
        BY <3>6 DEF Detaching
      <4>2. CASE DetachOk(q, d)
        <5>1. d \notin MountedUnder(p)'
          BY <4>2 DEF DetachOk, MountedUnder, Attached
        <5>. QED
          BY <3>1, <3>2, <3>3, <4>2, <5>1 DEF DetachOk, Swept
      <4>3. CASE DetachFails(q, d)
        BY <3>1, <3>2, <3>3, <4>3 DEF DetachFails, Swept
      <4>. QED
        BY <4>1, <4>2, <4>3
    <3>7. CASE DetachedAll(q)
      BY <3>1, <3>2, <3>3, <3>7 DEF DetachedAll, Swept
    <3>8. CASE SweepDirs(q)
      <4>1. DeadDir(q, p) /\ Removable(p)
        BY <3>1, <3>3, <3>8 DEF SweepDirs, Swept, DeadDir, Removable, PidAlive,
           UniquePid, Ended, Over, Alive
      <4>. QED
        BY <3>1, <3>2, <3>3, <3>8, <4>1 DEF SweepDirs, Swept
    <3>9. CASE Start(q) \/ MakeRunDir(q) \/ Receive(q) \/ SeeCancel(q) \/ GraceOver(q)
               \/ CleanupList(q) \/ CleanupWarn(q) \/ RemoveRunDir(q) \/ Report(q) \/ Kill(q)
      BY <3>1, <3>2, <3>3, <3>9, <2>2 DEF Start, MakeRunDir, Receive, SeeCancel, GraceOver,
         CleanupList, CleanupWarn, RemoveRunDir, Report, Kill, Swept
    <3>10. ASSUME NEW r \in Procs, r # q, Main(r) \/ Kill(r) PROVE Swept(q, p)'
      <4>1. pc'[q] = pc[q] /\ todo'[q] = todo[q] /\ missed'[q] = missed[q]
        BY <3>10 DEF Main, Start, SweepList, Detaching, DetachOk, DetachFails,
           DetachedAll, SweepDirs, MakeRunDir, Receive, SeeCancel, GraceOver,
           CleanupList, CleanupWarn, RemoveRunDir, Report, Kill, Forget
      <4>. QED
        BY <3>1, <3>2, <3>3, <4>1 DEF Swept
    <3>11. ASSUME NEW r \in Procs, Worker(r) \/ Child(r) \/ Signal(r)
           PROVE  UNCHANGED <<pc, todo, missed>>
      BY <3>11 DEF Worker, WorkerChecks, WorkerSnapshot, WorkerAttach, WorkerRetry,
         WorkerAttached, WorkerKillsChild, WorkerScanned, Child, ChildDevice,
         ChildMount, ChildExit, Signal
    <3>12. UserStep \/ UNCHANGED vars => UNCHANGED <<pc, todo, missed>>
      BY DEF UserStep, UserAttach, UserMount, UserDetach, vars
    <3>. QED
      BY <3>4, <3>5, <3>6, <3>7, <3>8, <3>9, <3>10, <3>11, <3>12 DEF Next, Main
  <2>. QED
    BY <2>1, <2>2
<1>. QED
  BY <1>1, <1>4, <1>5 DEF SweepInv

(* A sweep that could list and detach leaves nothing mounted under the directory of
   a run that had ended when it began, and, where the removals worked, no directory
   of it, whoever mounts or dies meanwhile. *)
THEOREM SweepsAll == Spec => []SweepComplete
<1>1. Init => SweepInv
  BY DEF Init, SweepInv, OverInv, EndedInv, Over
<1>2. TypeOK /\ SweepInv /\ [Next]_vars => SweepInv'
  BY SweepStep
<1>3. SweepInv => SweepComplete
  BY DEF SweepInv, Swept, SweepComplete
<1>. QED
  BY <1>1, <1>2, <1>3, TypeCorrect, PTL DEF Spec

-----------------------------------------------------------------------------
(* The cleanup.  Once the main thread is past waiting, no attach of its own can   *)
(* still be under way, and what it attached was not in the snapshot.              *)
Late == {"clist", "cdetach", "cwarn", "rmrun", "reset", "done"}

WorkerInv ==
    \A p \in Procs :
        /\ pc[p] \in {"new", "list", "sweep", "rmdirs", "mkdir"} => wpc[p] = "none"
        /\ msg[p] # "none" => wpc[p] = "gone"
        /\ ChildRuns(p) => wpc[p] = "attaching" \/ pc[p] = "dead"
        /\ pc[p] = "grace" => cancel[p]
        /\ pc[p] \in Late =>
              ~ ChildRuns(p) /\ (wpc[p] \in {"none", "gone"} \/ cancel[p])

OwnInv ==
    \A d \in Devices : att[d] # Free =>
        /\ d \in used
        /\ att[d].owner \in Procs =>
              /\ att[d].image = ImageOf[att[d].owner]
              /\ att[d].mount \in {Nowhere, Elsewhere, att[d].owner}
              /\ wpc[att[d].owner] \notin {"none", "checks", "snapshot"}
              /\ ~ Over(att[d].owner) =>
                    /\ before[att[d].owner] # {}
                    /\ d \notin UNION before[att[d].owner]

BeforeSeenInv ==
    \A p \in Procs :
        /\ UNION before[p] \subseteq used
        /\ wpc[p] \in {"attach", "attaching"} => before[p] # {}
        /\ pc[p] \in {"clist", "cdetach", "cwarn"} => seen[p] = before[p]

LeftInv ==
    \A p \in Procs :
        /\ pc[p] \in {"rmrun", "reset", "done"} /\ "cleanup" \notin missed[p]
        => warned[p] \/ Takeable(p) = {}

CleanInv == OverInv /\ WorkerInv /\ OwnInv /\ BeforeSeenInv /\ LeftInv

LEMMA WorkerStep ==
    ASSUME TypeOK, WorkerInv, [Next]_vars
    PROVE  WorkerInv'
<1>. USE DEF TypeOK, WorkerInv, Late, ChildRuns, mainVars, workerVars, Goto
<1>1. ASSUME NEW p \in Procs, Main(p) PROVE WorkerInv'
  <2>1. CASE Start(p) \/ SweepList(p) \/ SweepDirs(p) \/ SeeCancel(p)
    BY <2>1 DEF Start, SweepList, SweepDirs, SeeCancel
  <2>2. CASE Detaching(p)
    BY <2>2 DEF Detaching, DetachOk, DetachFails
  <2>3. CASE DetachedAll(p)
    BY <2>3 DEF DetachedAll
  <2>4. CASE MakeRunDir(p)
    BY <2>4 DEF MakeRunDir
  <2>5. CASE Receive(p) \/ GraceOver(p)
    BY <2>5 DEF Receive, GraceOver
  <2>6. CASE CleanupList(p) \/ CleanupWarn(p) \/ RemoveRunDir(p)
    BY <2>6 DEF CleanupList, CleanupWarn, RemoveRunDir
  <2>7. CASE Report(p)
    BY <2>7 DEF Report, Forget
  <2>. QED
    BY <1>1, <2>1, <2>2, <2>3, <2>4, <2>5, <2>6, <2>7 DEF Main
<1>2. ASSUME NEW p \in Procs, Worker(p) PROVE WorkerInv'
  <2>. USE DEF Answer
  <2>1. CASE WorkerChecks(p) \/ WorkerSnapshot(p)
    BY <2>1 DEF WorkerChecks, WorkerSnapshot
  <2>2. CASE WorkerAttach(p)
    BY <2>2 DEF WorkerAttach
  <2>3. CASE WorkerRetry(p) \/ WorkerAttached(p)
    BY <2>3 DEF WorkerRetry, WorkerAttached
  <2>4. CASE WorkerKillsChild(p) \/ WorkerScanned(p)
    BY <2>4 DEF WorkerKillsChild, WorkerScanned
  <2>. QED
    BY <1>2, <2>1, <2>2, <2>3, <2>4 DEF Worker
<1>3. ASSUME NEW p \in Procs, Child(p) \/ Signal(p) PROVE WorkerInv'
  BY <1>3 DEF Child, ChildDevice, ChildMount, ChildExit, Signal
<1>4. ASSUME NEW p \in Procs, Kill(p) PROVE WorkerInv'
  BY <1>4 DEF Kill, Forget
<1>5. CASE UserStep
  BY <1>5 DEF UserStep, UserAttach, UserMount, UserDetach
<1>6. CASE UNCHANGED vars
  BY <1>6 DEF vars
<1>. QED
  BY <1>1, <1>2, <1>3, <1>4, <1>5, <1>6 DEF Next

(* The parts of a process an attachment's ownership depends on. *)
Settled(p) == wpc[p] \notin {"none", "checks", "snapshot"}
Snapped(p, d) == Over(p) \/ (before[p] # {} /\ d \notin UNION before[p])

(* What a step does to the attachments. *)
Alters(d) ==
    \/ att'[d] = att[d] \/ att'[d] = Free
    \/ /\ att[d] # Free /\ att'[d] # Free
       /\ att'[d].owner = att[d].owner /\ att'[d].image = att[d].image
       /\ att[d].owner \in Procs =>
             att'[d].mount \in {Elsewhere, att[d].owner} /\ ChildRuns(att[d].owner)
    \/ /\ att[d] = Free /\ d \notin used /\ d \in used'
       /\ \/ att'[d].owner \notin Procs
          \/ /\ ChildRuns(att'[d].owner) /\ att'[d].image = ImageOf[att'[d].owner]
             /\ att'[d].mount = Nowhere

LEMMA AttStep ==
    ASSUME TypeOK, ~ ReuseDevices, [Next]_vars
    PROVE  used \subseteq used' /\ \A d \in Devices : Alters(d)
<1>. USE DEF TypeOK, mainVars, workerVars, Alters
<1>1. ASSUME NEW i \in Images, NEW d \in Devices, NEW who \in Procs \cup {User},
             NewAttachment(i, who, d),
             who \in Procs => ChildRuns(who) /\ i = ImageOf[who]
      PROVE  used \subseteq used' /\ \A e \in Devices : Alters(e)
  <2>. DEFINE a == [image |-> i, mount |-> Nowhere, owner |-> who]
  <2>1. /\ d \notin used /\ used' = used \cup {d} /\ att[d] = Free
        /\ \A e \in Devices : att'[e] = IF e = d THEN a ELSE att[e]
    BY <1>1 DEF NewAttachment
  <2>2. a.image = i /\ a.mount = Nowhere /\ a.owner = who
    OBVIOUS
  <2>. HIDE DEF a
  <2>. QED
    BY <1>1, <2>1, <2>2, ConstantsOK
<1>2. ASSUME NEW d \in Devices, NEW m \in Places, att[d] # Free,
             att' = [att EXCEPT ![d].mount = m],
             att[d].owner \in Procs =>
                 m \in {Elsewhere, att[d].owner} /\ ChildRuns(att[d].owner),
             used' = used
      PROVE  used \subseteq used' /\ \A e \in Devices : Alters(e)
  <2>1. /\ att'[d].owner = att[d].owner /\ att'[d].image = att[d].image
        /\ att'[d].mount = m /\ att'[d] \in Attachment
        /\ \A e \in Devices : e # d => att'[e] = att[e]
    BY <1>2, SMTT(40) DEF Attachment
  <2>. QED
    BY <1>2, <2>1, ConstantsOK
<1>3. ASSUME NEW p \in Procs, Main(p)
      PROVE  used \subseteq used' /\ \A d \in Devices : Alters(d)
  BY <1>3 DEF Main, Start, SweepList, Detaching, DetachOk, DetachFails, DetachedAll,
     SweepDirs, MakeRunDir, Receive, SeeCancel, GraceOver, CleanupList, CleanupWarn,
     RemoveRunDir, Report
<1>4. ASSUME NEW p \in Procs, Worker(p) \/ Signal(p) \/ Kill(p)
      PROVE  used \subseteq used' /\ \A d \in Devices : Alters(d)
  BY <1>4 DEF Worker, WorkerChecks, WorkerSnapshot, WorkerAttach, WorkerRetry,
     WorkerAttached, WorkerKillsChild, WorkerScanned, Signal, Kill
<1>5. ASSUME NEW p \in Procs, Child(p)
      PROVE  used \subseteq used' /\ \A d \in Devices : Alters(d)
  <2>1. ASSUME NEW d \in Devices, ChildDevice(p, d)
        PROVE  used \subseteq used' /\ \A e \in Devices : Alters(e)
    BY <1>1, <2>1, ConstantsOK DEF ChildDevice, ChildRuns
  <2>2. ASSUME NEW d \in Devices, ChildMount(p, d)
        PROVE  used \subseteq used' /\ \A e \in Devices : Alters(e)
    BY <1>2, <2>2 DEF ChildMount, ChildRuns, OwnDevices, Attached, Places
  <2>3. CASE ChildExit(p)
    BY <2>3 DEF ChildExit
  <2>. HIDE DEF Alters
  <2>. QED
    BY <1>5, <2>1, <2>2, <2>3 DEF Child
<1>6. CASE UserStep
  <2>1. ASSUME NEW d \in Devices, NEW i \in UserImages, UserAttach(i, d)
        PROVE  used \subseteq used' /\ \A e \in Devices : Alters(e)
    BY <1>1, <2>1, ConstantsOK DEF UserAttach
  <2>2. ASSUME NEW d \in Devices, UserMount(d)
        PROVE  used \subseteq used' /\ \A e \in Devices : Alters(e)
    BY <1>2, <2>2, ConstantsOK DEF UserMount, Places
  <2>3. ASSUME NEW d \in Devices, UserDetach(d)
        PROVE  used \subseteq used' /\ \A e \in Devices : Alters(e)
    BY <2>3 DEF UserDetach
  <2>. HIDE DEF Alters
  <2>. QED
    BY <1>6, <2>1, <2>2, <2>3 DEF UserStep
<1>7. CASE UNCHANGED vars
  BY <1>7 DEF vars
<1>. HIDE DEF Alters
<1>. QED
  BY <1>3, <1>4, <1>5, <1>6, <1>7 DEF Next

(* `before` is filled once, by the snapshot, and emptied when the process goes. *)
LEMMA SnapshotStep ==
    ASSUME TypeOK, WorkerInv, [Next]_vars, NEW p \in Procs
    PROVE  /\ Settled(p) => Settled(p)'
           /\ Over(p)' \/ before'[p] = before[p]
              \/ (wpc[p] = "snapshot" /\ ~ cancel[p]
                    /\ before'[p] = {DevicesOfImage(ImageOf[p])})
<1>. USE DEF TypeOK, WorkerInv, Settled, Over, mainVars, workerVars, Goto
<1>1. ASSUME NEW q \in Procs, Main(q)
      PROVE  (Settled(p) => Settled(p)') /\ (Over(p)' \/ before'[p] = before[p])
  BY <1>1 DEF Main, Start, SweepList, Detaching, DetachOk, DetachFails, DetachedAll,
     SweepDirs, MakeRunDir, Receive, SeeCancel, GraceOver, CleanupList, CleanupWarn,
     RemoveRunDir, Report, Forget
<1>2. ASSUME NEW q \in Procs, WorkerSnapshot(q)
      PROVE  /\ Settled(p) => Settled(p)'
             /\ before'[p] = before[p]
                \/ (wpc[p] = "snapshot" /\ ~ cancel[p]
                      /\ before'[p] = {DevicesOfImage(ImageOf[p])})
  <2>. DEFINE S == {DevicesOfImage(ImageOf[q])}
  <2>1. before' = before \/ (~ cancel[q] /\ before' = [before EXCEPT ![q] = S])
    BY <1>2 DEF WorkerSnapshot
  <2>2. wpc[q] = "snapshot" /\ (Settled(p) => Settled(p)')
    BY <1>2 DEF WorkerSnapshot, Answer
  <2>. HIDE DEF S
  <2>3. before'[p] = before[p] \/ (p = q /\ ~ cancel[q] /\ before'[p] = S)
    BY <2>1
  <2>. QED
    BY <2>2, <2>3 DEF S
<1>3. ASSUME NEW q \in Procs, Worker(q), ~ WorkerSnapshot(q)
      PROVE  (Settled(p) => Settled(p)') /\ before'[p] = before[p]
  BY <1>3 DEF Worker, WorkerChecks, WorkerAttach, WorkerRetry, WorkerAttached,
     WorkerKillsChild, WorkerScanned, Answer
<1>4. ASSUME NEW q \in Procs, Child(q) \/ Signal(q)
      PROVE  (Settled(p) => Settled(p)') /\ before'[p] = before[p]
  BY <1>4 DEF Child, ChildDevice, ChildMount, ChildExit, Signal
<1>5. ASSUME NEW q \in Procs, Kill(q)
      PROVE  (Settled(p) => Settled(p)') /\ (Over(p)' \/ before'[p] = before[p])
  BY <1>5 DEF Kill, Forget
<1>6. UserStep \/ UNCHANGED vars
      => (Settled(p) => Settled(p)') /\ before'[p] = before[p]
  BY DEF UserStep, UserAttach, UserMount, UserDetach, vars
<1>. QED
  BY <1>1, <1>2, <1>3, <1>4, <1>5, <1>6 DEF Next

LEMMA OwnStep ==
    ASSUME TypeOK, ~ ReuseDevices, CleanInv, [Next]_vars
    PROVE  OwnInv'
<1>1. used \subseteq used' /\ \A d \in Devices : Alters(d)
  BY AttStep
<1>2. ASSUME NEW d \in Devices, att'[d] # Free PROVE d \in used'
  BY <1>1, <1>2 DEF Alters, CleanInv, OwnInv
<1>3. ASSUME NEW p \in Procs, NEW d \in Devices, Settled(p), Snapped(p, d)
      PROVE  Settled(p)' /\ Snapped(p, d)'
  <2>1. wpc[p] # "snapshot"
    BY <1>3 DEF Settled
  <2>. QED
    BY <1>3, <2>1, SnapshotStep, Forward DEF CleanInv, Snapped
<1>4. ASSUME NEW d \in Devices, att'[d] # Free, NEW p \in Procs, att'[d].owner = p
      PROVE  /\ att'[d].image = ImageOf[p] /\ att'[d].mount \in {Nowhere, Elsewhere, p}
             /\ Settled(p)' /\ Snapped(p, d)'
  <2>1. CASE att[d] = Free
    <3>1. /\ d \notin used
          /\ ChildRuns(p) /\ att'[d].image = ImageOf[p] /\ att'[d].mount = Nowhere
      BY <1>1, <1>4, <2>1 DEF Alters
    <3>2. Settled(p) /\ Snapped(p, d)
      BY <3>1 DEF CleanInv, WorkerInv, OverInv, BeforeSeenInv, Settled, Snapped, Over
    <3>. QED
      BY <1>3, <3>1, <3>2
  <2>2. CASE att[d] # Free
    <3>1. /\ att[d].owner = p /\ att'[d].image = att[d].image
          /\ att'[d].mount \in {att[d].mount, Elsewhere, p}
      BY <1>1, <1>4, <2>2 DEF Alters
    <3>2. /\ att[d].image = ImageOf[p] /\ att[d].mount \in {Nowhere, Elsewhere, p}
          /\ Settled(p) /\ Snapped(p, d)
      BY <2>2, <3>1 DEF CleanInv, OwnInv, Settled, Snapped
    <3>. QED
      BY <1>3, <3>1, <3>2
  <2>. QED
    BY <2>1, <2>2
<1>. QED
  BY <1>2, <1>4 DEF OwnInv, Settled, Snapped

(* A process is moved on by its own main thread and by a kill only. *)
LEMMA OwnThread ==
    ASSUME TypeOK, [Next]_vars, NEW p \in Procs
    PROVE  \/ Main(p) \/ Kill(p)
           \/ /\ pc'[p] = pc[p] /\ seen'[p] = seen[p]
              /\ missed'[p] = missed[p] /\ warned'[p] = warned[p]
<1>. USE DEF TypeOK, mainVars, workerVars, Goto
<1>. DEFINE Same == /\ pc'[p] = pc[p] /\ seen'[p] = seen[p]
                    /\ missed'[p] = missed[p] /\ warned'[p] = warned[p]
<1>1. ASSUME NEW q \in Procs, q # p, Main(q) PROVE Same
  BY <1>1 DEF Main, Start, SweepList, Detaching, DetachOk, DetachFails, DetachedAll,
     SweepDirs, MakeRunDir, Receive, SeeCancel, GraceOver, CleanupList, CleanupWarn,
     RemoveRunDir, Report, Forget
<1>2. ASSUME NEW q \in Procs, q # p, Kill(q) PROVE Same
  BY <1>2 DEF Kill, Forget
<1>3. ASSUME NEW q \in Procs, Worker(q) \/ Child(q) \/ Signal(q) PROVE Same
  BY <1>3 DEF Worker, WorkerChecks, WorkerSnapshot, WorkerAttach, WorkerRetry,
     WorkerAttached, WorkerKillsChild, WorkerScanned, Child, ChildDevice, ChildMount,
     ChildExit, Signal
<1>4. UserStep \/ UNCHANGED vars => Same
  BY DEF UserStep, UserAttach, UserMount, UserDetach, vars
<1>. HIDE DEF Same
<1>5. Main(p) \/ Kill(p) \/ Same
  BY <1>1, <1>2, <1>3, <1>4 DEF Next
<1>. QED
  BY <1>5 DEF Same

LEMMA BeforeSeenStep ==
    ASSUME TypeOK, ~ ReuseDevices, CleanInv, [Next]_vars
    PROVE  BeforeSeenInv'
<1>. USE DEF TypeOK, CleanInv, mainVars, workerVars, Goto
<1>. SUFFICES ASSUME NEW p \in Procs
              PROVE  /\ UNION before'[p] \subseteq used'
                     /\ wpc'[p] \in {"attach", "attaching"} => before'[p] # {}
                     /\ pc'[p] \in {"clist", "cdetach", "cwarn"} => seen'[p] = before'[p]
  BY DEF BeforeSeenInv
<1>1. UNION before[p] \subseteq used /\ used \subseteq used'
  BY AttStep DEF BeforeSeenInv
<1>2. DevicesOfImage(ImageOf[p]) \subseteq used
  BY DEF DevicesOfImage, Attached, OwnInv
<1>3. UNION {DevicesOfImage(ImageOf[p])} \subseteq used
  BY <1>2
<1>4. before'[p] = {} \/ before'[p] = before[p]
      \/ before'[p] = {DevicesOfImage(ImageOf[p])}
  <2>1. ASSUME Over(p)' PROVE before'[p] = {} \/ before'[p] = before[p]
    BY <2>1 DEF Over, Next, UserStep, UserAttach, UserMount, UserDetach, Main, Start, SweepList,
     Detaching, DetachOk, DetachFails, DetachedAll, SweepDirs, MakeRunDir, Receive,
     SeeCancel, GraceOver, CleanupList, CleanupWarn, RemoveRunDir, Report, Worker,
     WorkerChecks, WorkerSnapshot, WorkerAttach, WorkerRetry, WorkerAttached,
     WorkerKillsChild, WorkerScanned, Child, ChildDevice, ChildMount, ChildExit,
     Signal, Kill, vars, Forget, OverInv
  <2>. QED
    BY <2>1, SnapshotStep
<1>5. UNION before'[p] \subseteq used'
  BY <1>1, <1>3, <1>4
<1>6. wpc'[p] \in {"attach", "attaching"} => before'[p] # {}
  <2>1. ASSUME NEW q \in Procs, Main(q) \/ Kill(q)
        PROVE  wpc'[p] \in {"attach", "attaching"}
               => wpc'[p] = wpc[p] /\ before'[p] = before[p]
    BY <2>1 DEF Main, Start, SweepList, Detaching, DetachOk, DetachFails,
         DetachedAll, SweepDirs, MakeRunDir, Receive, SeeCancel, GraceOver, CleanupList,
         CleanupWarn, RemoveRunDir, Report, Kill, Forget
  <2>2. ASSUME NEW q \in Procs, Worker(q)
        PROVE  wpc'[p] \in {"attach", "attaching"}
               => \/ wpc[p] \in {"attach", "attaching"} /\ before'[p] = before[p]
                  \/ before'[p] # {}
    BY <2>2 DEF Worker, WorkerChecks, WorkerSnapshot, WorkerAttach, WorkerRetry,
       WorkerAttached, WorkerKillsChild, WorkerScanned, Answer
  <2>3. ASSUME NEW q \in Procs, Child(q) \/ Signal(q)
        PROVE  wpc'[p] = wpc[p] /\ before'[p] = before[p]
    BY <2>3 DEF Child, ChildDevice, ChildMount, ChildExit, Signal
  <2>4. UserStep \/ UNCHANGED vars => wpc'[p] = wpc[p] /\ before'[p] = before[p]
    BY DEF UserStep, UserAttach, UserMount, UserDetach, vars
  <2>. QED
    BY <2>1, <2>2, <2>3, <2>4 DEF Next, BeforeSeenInv
<1>7. ASSUME pc'[p] \in {"clist", "cdetach", "cwarn"} PROVE seen'[p] = before'[p]
  <2>1. before'[p] = before[p]
    <3>1. ~ Over(p)'
      BY <1>7 DEF Over
    <3>2. wpc[p] # "snapshot" \/ cancel[p]
      <4>1. pc[p] \in Late \cup {"grace"} \/ msg[p] # "none"
        BY <1>7, OwnThread DEF Late, Main, Start, SweepList, Detaching, DetachOk, DetachFails,
         DetachedAll, SweepDirs, MakeRunDir, Receive, SeeCancel, GraceOver, CleanupList,
         CleanupWarn, RemoveRunDir, Report, Kill
      <4>. QED
        BY <4>1 DEF WorkerInv
    <3>. QED
      BY <3>1, <3>2, SnapshotStep
  <2>2. seen'[p] = before[p]
    BY <1>7, OwnThread DEF BeforeSeenInv, Main, Start, SweepList, Detaching, DetachOk, DetachFails,
       DetachedAll, SweepDirs, MakeRunDir, Receive, SeeCancel, GraceOver, CleanupList,
       CleanupWarn, RemoveRunDir, Report, Kill, Forget
  <2>. QED
    BY <2>1, <2>2
<1>. QED
  BY <1>5, <1>6, <1>7

(* What the cleanup lists is all of the run's own that it is to take. *)
LEMMA OwnAreLeftovers ==
    ASSUME TypeOK, CleanInv, NEW p \in Procs, pc[p] = "cwarn"
    PROVE  Takeable(p) \subseteq Leftovers(p)
<1>. SUFFICES ASSUME NEW d \in Devices, att[d] # Free, att[d].owner = p,
                     att[d].mount # Elsewhere
              PROVE  d \in Leftovers(p)
  BY DEF Takeable, OwnDevices, Attached
<1>1. /\ att[d].image = ImageOf[p] /\ att[d].mount \in {Nowhere, p}
      /\ before[p] # {} /\ d \notin UNION before[p]
  BY DEF CleanInv, OwnInv, Over
<1>2. seen[p] = before[p]
  BY DEF CleanInv, BeforeSeenInv
<1>. QED
  BY <1>1, <1>2 DEF Leftovers, MountedUnder, DevicesOfImage, Attached

LEMMA LeftStep ==
    ASSUME TypeOK, ~ ReuseDevices, CleanInv, [Next]_vars
    PROVE  LeftInv'
<1>. USE DEF TypeOK, mainVars, workerVars, Goto
<1>. SUFFICES ASSUME NEW p \in Procs, pc'[p] \in {"rmrun", "reset", "done"},
                     "cleanup" \notin missed'[p], ~ warned'[p]
              PROVE  Takeable(p)' = {}
  BY DEF LeftInv
<1>1. ASSUME Takeable(p) = {}, ~ ChildRuns(p) PROVE Takeable(p)' = {}
  BY <1>1, AttStep DEF Takeable, OwnDevices, Attached, Alters
<1>2. \/ CleanupWarn(p)
      \/ Start(p) \/ MakeRunDir(p)
      \/ /\ pc[p] \in {"rmrun", "reset", "done"}
         /\ "cleanup" \notin missed[p] /\ warned'[p] = warned[p]
  BY OwnThread DEF Main, Start, SweepList, Detaching, DetachOk, DetachFails,
     DetachedAll, SweepDirs, MakeRunDir, Receive, SeeCancel, GraceOver, CleanupList,
     CleanupWarn, RemoveRunDir, Report, Kill
<1>3. CASE CleanupWarn(p)
  <2>1. Leftovers(p) = {}
    <3>1. DOMAIN warned = Procs /\ DOMAIN missed = Procs
      OBVIOUS
    <3>2. CASE warned' = [warned EXCEPT ![p] = Leftovers(p) # {}]
      <4>. HIDE DEF TypeOK
      <4>. QED BY <3>1, <3>2, Zenon
    <3>3. CASE missed' = [missed EXCEPT ![p] = @ \cup {"cleanup"}]
      BY <3>1, <3>3
    <3>. QED
      BY <1>3, <3>2, <3>3, Zenon DEF CleanupWarn
  <2>2. ~ ChildRuns(p)
    BY <1>3 DEF CleanupWarn, CleanInv, WorkerInv, Late
  <2>. QED
    BY <1>1, <1>3, <2>1, <2>2, OwnAreLeftovers DEF CleanupWarn
<1>4. CASE Start(p) \/ MakeRunDir(p)
  <2>1. wpc[p] = "none" /\ ~ ChildRuns(p)
    BY <1>4 DEF Start, MakeRunDir, CleanInv, WorkerInv
  <2>2. Takeable(p) = {}
    BY <2>1 DEF CleanInv, OwnInv, Takeable, OwnDevices, Attached
  <2>. QED
    BY <1>1, <2>1, <2>2
<1>5. CASE pc[p] \in {"rmrun", "reset", "done"}
           /\ "cleanup" \notin missed[p] /\ warned'[p] = warned[p]
  BY <1>1, <1>5 DEF CleanInv, LeftInv, WorkerInv, Late
<1>. QED
  BY <1>2, <1>3, <1>4, <1>5

(* A run that could list the attachments at its end leaves nothing of its own
   attached under its directory or unmounted unless it warned (a volume mounted
   elsewhere is not its cleanup's): as long as hdiutil gives a device name out once,
   for any number of runs, shared images included. *)
THEOREM CleansUp ==
    ASSUME ~ ReuseDevices
    PROVE  Spec => []CleanOrWarned
<1>1. Init => CleanInv
  <2>. SUFFICES ASSUME Init PROVE CleanInv
    OBVIOUS
  <2>1. \A d \in Devices : att[d] # Free => att[d].owner = User /\ d \in used
    BY DEF Init, Attached
  <2>. QED
    BY <2>1, ConstantsOK DEF Init, CleanInv, OverInv, WorkerInv, OwnInv, BeforeSeenInv, LeftInv,
       Over, ChildRuns, Late
<1>2. TypeOK /\ CleanInv /\ [Next]_vars => CleanInv'
  BY OverStep, WorkerStep, OwnStep, BeforeSeenStep, LeftStep DEF CleanInv
<1>3. CleanInv => CleanOrWarned
  BY DEF CleanInv, LeftInv, CleanOrWarned
<1>. QED
  BY <1>1, <1>2, <1>3, TypeCorrect, PTL DEF Spec

=============================================================================
