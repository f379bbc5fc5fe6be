----------------------------- MODULE DiskImage -----------------------------
(***************************************************************************)
(* Scratch mounts of navctl (crates/navctl/src/diskimage.rs).              *)
(*                                                                         *)
(* Several navctl processes each scan one disk image.  In a process the    *)
(* main thread sweeps the mounts of dead processes, makes its own run      *)
(* directory, starts a worker that attaches and scans the image, waits for *)
(* it or for a signal, and cleans up.  hdiutil is the environment: an      *)
(* attach makes a device first and mounts its volumes later, under the run *)
(* directory it was given or elsewhere, may fail at any point and may      *)
(* outlive a killed navctl.  A user attaches images too.                   *)
(***************************************************************************)
EXTENDS Naturals, FiniteSets

CONSTANTS
    Procs,          \* navctl processes; each makes one run directory
    Images,         \* image files
    Devices,        \* whole-disk devices, /dev/diskN
    ImageOf,        \* [Procs -> Images]: the image a process was given
    PidOf,          \* [Procs -> Nat]: pids, which the system may reuse
    UserImages,     \* images the user may attach while navctl runs
    ReuseDevices,   \* whether a freed device name may be given out again
    QueriesFail,    \* whether `hdiutil info` may fail for reasons of its own
    MaxBusy,        \* BUSY_RETRIES: extra attempts for a busy attach
    Free,           \* the state of a device with nothing attached
    User, Nowhere, Elsewhere

\* Where an attached image's volumes are: some under a process's run directory, all
\* of those mounted elsewhere, or none mounted.
Places == Procs \cup {Nowhere, Elsewhere}
Attachment == [image : Images, mount : Places, owner : Procs \cup {User}]

ASSUME ConstantsOK ==
    /\ ImageOf \in [Procs -> Images]
    /\ PidOf \in [Procs -> Nat]
    /\ UserImages \subseteq Images
    /\ ReuseDevices \in BOOLEAN /\ QueriesFail \in BOOLEAN
    /\ MaxBusy \in Nat
    /\ Nowhere \notin Procs /\ Elsewhere \notin Procs /\ User \notin Procs
    /\ Nowhere # Elsewhere
    /\ Free \notin Attachment

VARIABLES
    att,      \* what `hdiutil info` would list, per device; the owner is ghost
    used,     \* devices that were ever attached
    dirs,     \* run directories that exist, by owner
    pc,       \* main thread
    cancel,   \* CANCEL # 0
    todo,     \* attachments the main thread still has to detach
    forcing,  \* the device whose plain detach failed, or Free
    before,   \* the mutex: {} for None, {S} for the devices S of the image
              \* seen just before the attach
    seen,     \* the main thread's copy of `before`
    wpc,      \* worker thread
    busy,     \* attempts of the attach that hdiutil refused as busy
    child,    \* the hdiutil attach child
    msg,      \* the worker's result on the channel
    outcome,  \* what mount_on_worker returned, then what scan_image reports
    ended,    \* ghost: the runs that were over when this one started
    missed,   \* ghost: "sweep" or "cleanup" could not list, or not detach;
              \* "dirs" left a directory it could have removed
    warned    \* the cleanup printed "could not detach"

mainVars   == <<pc, todo, forcing, seen, outcome, ended, missed, warned>>
workerVars == <<wpc, before, busy, msg>>
vars == <<att, used, dirs, cancel, child, mainVars, workerVars>>

MainPc == {"new", "list", "sweep", "rmdirs", "mkdir", "wait", "grace", "clist",
           "cdetach", "cwarn", "rmrun", "reset", "done", "dead"}
WorkerPc == {"none", "checks", "snapshot", "attach", "attaching", "scan", "gone"}
ChildState == {"none", "running", "attached", "ok", "failed"}
Results == {"none", "ok", "err", "panic"}
Reports == {"Scanned", "Unmounted", "Interrupted"}

TypeOK ==
    /\ att \in [Devices -> Attachment \cup {Free}]
    /\ used \subseteq Devices
    /\ dirs \subseteq Procs
    /\ pc \in [Procs -> MainPc]
    /\ cancel \in [Procs -> BOOLEAN]
    /\ todo \in [Procs -> SUBSET Devices]
    /\ forcing \in [Procs -> Devices \cup {Free}]
    /\ before \in [Procs -> SUBSET SUBSET Devices]
    /\ seen \in [Procs -> SUBSET SUBSET Devices]
    /\ wpc \in [Procs -> WorkerPc]
    /\ busy \in [Procs -> 0..MaxBusy]
    /\ child \in [Procs -> ChildState]
    /\ msg \in [Procs -> Results]
    /\ outcome \in [Procs -> Results \cup Reports]
    /\ ended \in [Procs -> SUBSET Procs]
    /\ missed \in [Procs -> SUBSET {"sweep", "dirs", "cleanup"}]
    /\ warned \in [Procs -> BOOLEAN]

-----------------------------------------------------------------------------
(* What the code computes from a listing.                                  *)

Over(p) == pc[p] \in {"done", "dead"}
(* over, and no orphaned attach will still mount something *)
ChildRuns(p) == child[p] \in {"running", "attached"}
Ended(p) == Over(p) /\ ~ ChildRuns(p)

Alive(p) == pc[p] \notin {"new", "done", "dead"}
PidAlive(n) == \E q \in Procs : Alive(q) /\ PidOf[q] = n

Attached == {d \in Devices : att[d] # Free}
MountedUnder(p) == {d \in Attached : att[d].mount = p}

(* `dead`: the pid in the directory's name is not ours and not running *)
DeadDir(me, p) == PidOf[p] # PidOf[me] /\ ~ PidAlive(PidOf[p])

(* Mutant: the sweep looks for its own pid. *)
Stale_OwnPid(me) == {d \in Attached : att[d].mount \in Procs /\ PidOf[att[d].mount] = PidOf[me]}

Stale(me) == {d \in Attached : att[d].mount \in Procs /\ DeadDir(me, att[d].mount)}

DevicesOfImage(i) == {d \in Attached : att[d].image = i}

(* Mutants: mounted attachments only; of any image. *)
Leftovers_Mounted(p) == MountedUnder(p)
Leftovers_AnyImage(p) ==
    MountedUnder(p) \cup
    {d \in Attached : att[d].mount = Nowhere /\ seen[p] # {} /\ d \notin UNION seen[p]}

Leftovers(p) ==
    MountedUnder(p) \cup
    {d \in DevicesOfImage(ImageOf[p]) :
        att[d].mount = Nowhere /\ seen[p] # {} /\ d \notin UNION seen[p]}

(* remove_run_dir never recurses: a directory something is mounted in stays *)
Removable(p) == MountedUnder(p) = {}

Goto(p, l) == pc' = [pc EXCEPT ![p] = l]

-----------------------------------------------------------------------------
(* Main thread.                                                            *)

(* scan_image up to sweep_stale.  Pids are unique among running processes. *)
Start(p) ==
    /\ pc[p] = "new" /\ ~ PidAlive(PidOf[p])
    /\ \/ Goto(p, "list") /\ UNCHANGED outcome
       \/ Goto(p, "reset") /\ outcome' = [outcome EXCEPT ![p] = "err"]
    /\ ended' = [ended EXCEPT ![p] = {q \in Procs : Ended(q)}]
    /\ UNCHANGED <<att, used, dirs, cancel, child, todo, forcing, seen, missed,
                   warned, workerVars>>

(* `attachments()` answers nothing when a signal is pending or the query fails *)
Unlisted(p) == cancel[p] \/ QueriesFail
Listing(p, want, got) == (got = want /\ ~ cancel[p]) \/ (got = {} /\ Unlisted(p))

SweepList(p) ==
    /\ pc[p] = "list"
    /\ \E got \in {Stale(p), {}} :
          /\ Listing(p, Stale(p), got)
          /\ todo' = [todo EXCEPT ![p] = got]
          /\ missed' = [missed EXCEPT ![p] =
                           IF got = Stale(p) THEN @ ELSE @ \cup {"sweep"}]
    /\ Goto(p, "sweep")
    /\ UNCHANGED <<att, used, dirs, cancel, child, forcing, seen, outcome, ended,
                   warned, workerVars>>

(* One `hdiutil detach`: it removes whatever is on the device by now. *)
DetachOk(p, d) ==
    /\ pc[p] \in {"sweep", "cdetach"}
    /\ d \in todo[p] /\ forcing[p] \in {Free, d}
    /\ att[d] # Free
    /\ att' = [att EXCEPT ![d] = Free]
    /\ todo' = [todo EXCEPT ![p] = @ \ {d}]
    /\ forcing' = [forcing EXCEPT ![p] = Free]
    /\ UNCHANGED <<used, dirs, cancel, child, pc, seen, outcome, ended, missed, warned,
                   workerVars>>

(* A failed detach is tried again with -force, then given up. *)
DetachFails(p, d) ==
    /\ pc[p] \in {"sweep", "cdetach"}
    /\ d \in todo[p]
    /\ \/ /\ forcing[p] = Free
          /\ forcing' = [forcing EXCEPT ![p] = d]
          /\ UNCHANGED <<todo, missed>>
       \/ /\ forcing[p] = d
          /\ forcing' = [forcing EXCEPT ![p] = Free]
          /\ todo' = [todo EXCEPT ![p] = @ \ {d}]
          /\ missed' = [missed EXCEPT ![p] =
                           IF pc[p] = "sweep" THEN @ \cup {"sweep"} ELSE @]
    /\ UNCHANGED <<att, used, dirs, cancel, child, pc, seen, outcome, ended, warned,
                   workerVars>>

DetachedAll(p) ==
    /\ pc[p] \in {"sweep", "cdetach"} /\ todo[p] = {}
    /\ Goto(p, IF pc[p] = "sweep" THEN "rmdirs" ELSE "cwarn")
    /\ UNCHANGED <<att, used, dirs, cancel, child, todo, forcing, seen, outcome,
                   ended, missed, warned, workerVars>>

(* A root that cannot be listed and a directory that cannot be removed are passed
   over in silence. *)
SweepDirs(p) ==
    /\ pc[p] = "rmdirs"
    /\ LET stale == {q \in dirs : DeadDir(p, q) /\ Removable(q)}
       IN \E gone \in SUBSET stale :
             /\ dirs' = dirs \ gone
             /\ missed' = [missed EXCEPT ![p] =
                              IF gone = stale THEN @ ELSE @ \cup {"dirs"}]
    /\ Goto(p, "mkdir")
    /\ UNCHANGED <<att, used, cancel, child, todo, forcing, seen, outcome, ended,
                   warned, workerVars>>

MakeRunDir(p) ==
    /\ pc[p] = "mkdir"
    /\ \/ /\ dirs' = dirs \cup {p}
          /\ Goto(p, "wait")
          /\ wpc' = [wpc EXCEPT ![p] = "checks"]
          /\ UNCHANGED outcome
       \/ /\ Goto(p, "reset")
          /\ outcome' = [outcome EXCEPT ![p] = "err"]
          /\ UNCHANGED <<dirs, wpc>>
    /\ UNCHANGED <<att, used, cancel, child, todo, forcing, seen, ended, missed, warned,
                   before, busy, msg>>

Receive(p) ==
    /\ pc[p] = "wait" /\ msg[p] # "none"
    /\ outcome' = [outcome EXCEPT ![p] = IF msg[p] = "ok" THEN "ok" ELSE "err"]
    /\ seen' = [seen EXCEPT ![p] = before[p]]
    /\ Goto(p, "clist")
    /\ UNCHANGED <<att, used, dirs, cancel, child, todo, forcing, ended, missed, warned,
                   workerVars>>

SeeCancel(p) ==
    /\ pc[p] = "wait" /\ msg[p] = "none" /\ cancel[p]
    /\ Goto(p, "grace")
    /\ UNCHANGED <<att, used, dirs, cancel, child, todo, forcing, seen, outcome,
                   ended, missed, warned, workerVars>>

(* Mutant: the main thread joins the worker with no time limit. *)
GraceOver_Join(p) ==
    /\ pc[p] = "grace" /\ msg[p] # "none"
    /\ outcome' = [outcome EXCEPT ![p] = "err"]
    /\ seen' = [seen EXCEPT ![p] = before[p]]
    /\ Goto(p, "clist")
    /\ UNCHANGED <<att, used, dirs, cancel, child, todo, forcing, ended, missed, warned,
                   workerVars>>

(* The worker answers within CANCEL_GRACE, or the grace runs out.  A worker
   that waits for hdiutil polls CANCEL every 20 ms and so kills its child
   within the 2 s grace: only a worker without a child can outlast it. *)
GraceOver(p) ==
    /\ pc[p] = "grace"
    /\ msg[p] # "none" \/ ~ ChildRuns(p)
    /\ outcome' = [outcome EXCEPT ![p] = "err"]
    /\ seen' = [seen EXCEPT ![p] = before[p]]
    /\ Goto(p, "clist")
    /\ UNCHANGED <<att, used, dirs, cancel, child, todo, forcing, ended, missed, warned,
                   workerVars>>

CleanupList(p) ==
    /\ pc[p] = "clist"
    /\ \E got \in {Leftovers(p), {}} :
          /\ Listing(p, Leftovers(p), got)
          /\ todo' = [todo EXCEPT ![p] = got]
    /\ Goto(p, "cdetach")
    /\ UNCHANGED <<att, used, dirs, cancel, child, forcing, seen, outcome, ended, missed,
                   warned, workerVars>>

CleanupWarn(p) ==
    /\ pc[p] = "cwarn"
    /\ \/ /\ ~ cancel[p]
          /\ warned' = [warned EXCEPT ![p] = Leftovers(p) # {}]
          /\ UNCHANGED missed
       \/ /\ Unlisted(p)
          /\ missed' = [missed EXCEPT ![p] = @ \cup {"cleanup"}]
          /\ UNCHANGED warned
    /\ Goto(p, "rmrun")
    /\ UNCHANGED <<att, used, dirs, cancel, child, todo, forcing, seen, outcome,
                   ended, workerVars>>

(* (A removal that fails leaves the directory as a kill just before it does.) *)
RemoveRunDir(p) ==
    /\ pc[p] = "rmrun"
    /\ dirs' = IF Removable(p) THEN dirs \ {p} ELSE dirs
    /\ Goto(p, "reset")
    /\ UNCHANGED <<att, used, cancel, child, todo, forcing, seen, outcome, ended, missed,
                   warned, workerVars>>

(* What a process keeps in memory goes with it. *)
Forget(p) ==
    /\ todo' = [todo EXCEPT ![p] = {}]
    /\ forcing' = [forcing EXCEPT ![p] = Free]
    /\ seen' = [seen EXCEPT ![p] = {}]
    /\ before' = [before EXCEPT ![p] = {}]
    /\ wpc' = [wpc EXCEPT ![p] = "gone"]
    /\ busy' = [busy EXCEPT ![p] = 0]
    /\ msg' = [msg EXCEPT ![p] = "none"]

(* The handlers are reset to SIG_DFL, CANCEL is read and the process exits; a
   worker still scanning goes with it.  (The ghosts of its sweep are of no use any
   more.) *)
Report(p) ==
    /\ pc[p] = "reset"
    /\ outcome' = [outcome EXCEPT ![p] =
                      IF cancel[p] THEN "Interrupted"
                      ELSE IF @ = "ok" THEN "Scanned" ELSE "Unmounted"]
    /\ Goto(p, "done")
    /\ Forget(p)
    /\ ended' = [ended EXCEPT ![p] = {}]
    /\ missed' = [missed EXCEPT ![p] = @ \cap {"cleanup"}]
    /\ UNCHANGED <<att, used, dirs, cancel, child, warned>>

-----------------------------------------------------------------------------
(* Worker thread.                                                          *)

Answer(p, r) ==
    /\ msg' = [msg EXCEPT ![p] = r]
    /\ wpc' = [wpc EXCEPT ![p] = "gone"]

(* Size, encryption and logical-size checks: they change nothing; each query
   fails under a pending signal. *)
WorkerChecks(p) ==
    /\ wpc[p] = "checks"
    /\ \/ ~ cancel[p] /\ wpc' = [wpc EXCEPT ![p] = "snapshot"] /\ UNCHANGED msg
       \/ Answer(p, "err")
    /\ UNCHANGED <<att, used, dirs, cancel, child, mainVars, before, busy>>

WorkerSnapshot(p) ==
    /\ wpc[p] = "snapshot"
    /\ \/ /\ ~ cancel[p]
          /\ before' = [before EXCEPT ![p] = {DevicesOfImage(ImageOf[p])}]
          /\ wpc' = [wpc EXCEPT ![p] = "attach"]
          /\ UNCHANGED msg
       \/ Answer(p, "err") /\ UNCHANGED before
    /\ UNCHANGED <<att, used, dirs, cancel, child, mainVars, busy>>

(* run_hdiutil: no child is started under a pending signal *)
WorkerAttach(p) ==
    /\ wpc[p] = "attach"
    /\ \/ /\ ~ cancel[p]
          /\ child' = [child EXCEPT ![p] = "running"]
          /\ wpc' = [wpc EXCEPT ![p] = "attaching"]
          /\ UNCHANGED msg
       \/ Answer(p, "err") /\ UNCHANGED child   \* cancelled, or the spawn failed
    /\ UNCHANGED <<att, used, dirs, cancel, mainVars, before, busy>>

(* retry_busy: EAGAIN, and not too many attempts yet *)
WorkerRetry(p) ==
    /\ wpc[p] = "attaching" /\ child[p] = "failed" /\ busy[p] < MaxBusy
    /\ busy' = [busy EXCEPT ![p] = @ + 1]
    /\ wpc' = [wpc EXCEPT ![p] = "attach"]
    /\ UNCHANGED <<att, used, dirs, cancel, child, mainVars, before, msg>>

(* The child exited: only a volume mounted under the run directory is scanned, and
   an image with none there is not. *)
WorkerAttached(p) ==
    /\ wpc[p] = "attaching" /\ child[p] \in {"ok", "failed"}
    /\ IF child[p] = "ok" /\ MountedUnder(p) # {}
       THEN wpc' = [wpc EXCEPT ![p] = "scan"] /\ UNCHANGED msg
       ELSE Answer(p, "err")
    /\ UNCHANGED <<att, used, dirs, cancel, child, mainVars, before, busy>>

(* Mutant: no MOUNT_TIMEOUT, the child is killed on a signal only. *)
WorkerKillsChild_NoTimeout(p) ==
    /\ wpc[p] = "attaching" /\ ChildRuns(p) /\ cancel[p]
    /\ child' = [child EXCEPT ![p] = "failed"]
    /\ Answer(p, "err")
    /\ UNCHANGED <<att, used, dirs, cancel, mainVars, before, busy>>

(* wait_until: the child is killed on a signal or at MOUNT_TIMEOUT *)
WorkerKillsChild(p) ==
    /\ wpc[p] = "attaching" /\ ChildRuns(p)
    /\ child' = [child EXCEPT ![p] = "failed"]
    /\ Answer(p, "err")
    /\ UNCHANGED <<att, used, dirs, cancel, mainVars, before, busy>>

WorkerScanned(p) ==
    /\ wpc[p] = "scan"
    /\ \E r \in {"ok", "err", "panic"} : Answer(p, r)
    /\ UNCHANGED <<att, used, dirs, cancel, child, mainVars, before, busy>>

-----------------------------------------------------------------------------
(* hdiutil.                                                                *)

OwnDevices(p) == {d \in Attached : att[d].owner = p}

(* An image is attached once at a time. *)
NewAttachment(i, who, d) ==
    /\ DevicesOfImage(i) = {}
    /\ att[d] = Free /\ (ReuseDevices \/ d \notin used)
    /\ att' = [att EXCEPT ![d] = [image |-> i, mount |-> Nowhere, owner |-> who]]
    /\ used' = used \cup {d}

ChildDevice(p, d) ==
    /\ child[p] = "running"
    /\ NewAttachment(ImageOf[p], p, d)
    /\ child' = [child EXCEPT ![p] = "attached"]
    /\ UNCHANGED <<dirs, cancel, mainVars, workerVars>>

(* A volume of the image is mounted: below the run directory, or somewhere else. *)
ChildMount(p, d) ==
    /\ child[p] = "attached" /\ d \in OwnDevices(p)
    /\ \/ /\ att[d].mount # p /\ p \in dirs
          /\ att' = [att EXCEPT ![d].mount = p]
       \/ /\ att[d].mount = Nowhere
          /\ att' = [att EXCEPT ![d].mount = Elsewhere]
    /\ UNCHANGED <<used, dirs, cancel, child, mainVars, workerVars>>

(* It exits: with success once it made a device, with a volume mounted or not;
   with failure at any time, leaving what it did. *)
ChildExit(p) ==
    /\ ChildRuns(p)
    /\ \/ child[p] = "attached" /\ child' = [child EXCEPT ![p] = "ok"]
       \/ child' = [child EXCEPT ![p] = "failed"]
    /\ UNCHANGED <<att, used, dirs, cancel, mainVars, workerVars>>

-----------------------------------------------------------------------------
(* The user and the system.                                                *)

Signal(p) ==
    /\ Alive(p) /\ ~ cancel[p]
    /\ cancel' = [cancel EXCEPT ![p] = TRUE]
    /\ UNCHANGED <<att, used, dirs, child, mainVars, workerVars>>

(* SIGKILL at any time, or a signal under the default handlers.  The hdiutil
   child, if any, keeps running. *)
Kill(p) ==
    /\ Alive(p)
    /\ Goto(p, "dead")
    /\ Forget(p)
    /\ cancel' = [cancel EXCEPT ![p] = FALSE]
    /\ outcome' = [outcome EXCEPT ![p] = "none"]
    /\ ended' = [ended EXCEPT ![p] = {}]
    /\ missed' = [missed EXCEPT ![p] = {}]
    /\ warned' = [warned EXCEPT ![p] = FALSE]
    /\ UNCHANGED <<att, used, dirs, child>>

UserAttach(i, d) ==
    /\ NewAttachment(i, User, d)
    /\ UNCHANGED <<dirs, cancel, child, mainVars, workerVars>>

UserMount(d) ==
    /\ att[d] # Free /\ att[d].owner = User /\ att[d].mount = Nowhere
    /\ att' = [att EXCEPT ![d].mount = Elsewhere]
    /\ UNCHANGED <<used, dirs, cancel, child, mainVars, workerVars>>

(* The user detaches an image of theirs, or by hand what a dead run left. *)
UserDetach(d) ==
    /\ att[d] # Free
    /\ att[d].owner \in Procs => pc[att[d].owner] = "dead"
    /\ att' = [att EXCEPT ![d] = Free]
    /\ UNCHANGED <<used, dirs, cancel, child, mainVars, workerVars>>

-----------------------------------------------------------------------------

(* The user may have one image attached, mounted or not, before navctl starts. *)
Init ==
    /\ \/ att = [d \in Devices |-> Free]
       \/ \E d \in Devices, i \in Images, m \in {Nowhere, Elsewhere} :
             att = [e \in Devices |->
                      IF e = d THEN [image |-> i, mount |-> m, owner |-> User]
                      ELSE Free]
    /\ used = Attached
    /\ dirs = {}
    /\ pc = [p \in Procs |-> "new"]
    /\ cancel = [p \in Procs |-> FALSE]
    /\ todo = [p \in Procs |-> {}]
    /\ forcing = [p \in Procs |-> Free]
    /\ before = [p \in Procs |-> {}]
    /\ seen = [p \in Procs |-> {}]
    /\ wpc = [p \in Procs |-> "none"]
    /\ busy = [p \in Procs |-> 0]
    /\ child = [p \in Procs |-> "none"]
    /\ msg = [p \in Procs |-> "none"]
    /\ outcome = [p \in Procs |-> "none"]
    /\ ended = [p \in Procs |-> {}]
    /\ missed = [p \in Procs |-> {}]
    /\ warned = [p \in Procs |-> FALSE]

Detaching(p) == \E d \in Devices : DetachOk(p, d) \/ DetachFails(p, d)

Main(p) ==
    \/ Start(p) \/ SweepList(p) \/ Detaching(p) \/ DetachedAll(p) \/ SweepDirs(p)
    \/ MakeRunDir(p) \/ Receive(p) \/ SeeCancel(p) \/ GraceOver(p)
    \/ CleanupList(p) \/ CleanupWarn(p) \/ RemoveRunDir(p) \/ Report(p)

Worker(p) ==
    \/ WorkerChecks(p) \/ WorkerSnapshot(p) \/ WorkerAttach(p) \/ WorkerRetry(p)
    \/ WorkerAttached(p) \/ WorkerKillsChild(p) \/ WorkerScanned(p)

Child(p) ==
    \/ \E d \in Devices : ChildDevice(p, d) \/ ChildMount(p, d)
    \/ ChildExit(p)

UserStep ==
    \E d \in Devices :
        (\E i \in UserImages : UserAttach(i, d)) \/ UserMount(d) \/ UserDetach(d)

Next ==
    \/ \E p \in Procs : Main(p) \/ Worker(p) \/ Child(p) \/ Signal(p) \/ Kill(p)
    \/ UserStep

Spec == Init /\ [][Next]_vars

-----------------------------------------------------------------------------
(* Properties.                                                             *)

(* A step in which process p detaches what is on device d. *)
Detaches(p, d) == d \in todo[p] \ todo'[p] /\ att[d] # Free /\ att'[d] = Free

OwnOrAbandoned(p, a) == a.owner = p \/ (a.owner \in Procs /\ Over(a.owner))

(* navctl detaches only what its own attach made or what a navctl that is no
   longer running left: never the image of a live run, never the user's
   (sweep_stale: "Nothing outside `root` is touched"; cleanup_run's `before`). *)
DetachOnlyOwnOrStale ==
    [][\A p \in Procs, d \in Devices : Detaches(p, d) => OwnOrAbandoned(p, att[d])]_vars

(* What DetachOnlyOwnOrStale needs of the surroundings: no two runs share an
   image, the user leaves those images alone while navctl runs, and hdiutil does
   not reuse device names.  CleanupOnlyOwn fails without it. *)
Isolated ==
    /\ ~ ReuseDevices
    /\ \A p, q \in Procs : ImageOf[p] = ImageOf[q] => p = q
    /\ \A p \in Procs : ImageOf[p] \notin UserImages

(* The inductive invariant behind it, by parts. *)
StartedInv ==   \* only a started process has threads, children or directories
    \A p \in Procs :
        pc[p] = "new" => wpc[p] = "none" /\ child[p] = "none" /\ p \notin dirs
OwnerInv ==     \* a mount below a run directory is that run's own
    \A d \in Devices : att[d] # Free =>
        /\ d \in used
        /\ att[d].mount \in Procs => att[d].owner = att[d].mount
        /\ att[d].owner \in Procs => pc[att[d].owner] # "new"
BeforeInv ==    \* an attachment of the image made after `before` is our own
    \A p \in Procs, d \in Devices : \A S \in before[p] \cup seen[p] :
        att[d] # Free /\ att[d].image = ImageOf[p] /\ d \notin S => att[d].owner = p
TodoInv ==      \* what is listed for detaching stays ours or stale
    \A p \in Procs : \A d \in todo[p] :
        d \in used /\ (att[d] = Free \/ OwnOrAbandoned(p, att[d]))
DetachInv == StartedInv /\ OwnerInv /\ BeforeInv /\ TodoInv

(* A run directory of a live process is removed by that process only. *)
LiveRunDirKept ==
    [][\A p \in Procs : p \in dirs \ dirs' => pc[p] = "rmrun" \/ Over(p)]_vars

(* What a run attached and its cleanup is to take: an image with a volume under the
   run directory or with none mounted.  One mounted elsewhere only is listed with its
   mount point and matches neither: it stays, and no warning names it. *)
Takeable(p) == {d \in OwnDevices(p) : att[d].mount # Elsewhere}

(* A run that could list the attachments at its end leaves nothing of its own
   attached, mounted under its directory or not mounted, unless it warned
   (cleanup_run); what it leaves without a word has all its volumes elsewhere. *)
CleanOrWarned ==
    \A p \in Procs :
        pc[p] = "done" /\ "cleanup" \notin missed[p] => warned[p] \/ Takeable(p) = {}

UniquePid(p) == \A q \in Procs \ {p} : PidOf[q] # PidOf[p]

(* Once a run is past a sweep that could list and detach, nothing is mounted under
   the directories of runs that ended before it started; and where the root could be
   listed and the removals worked, the directories are gone. *)
SweepComplete ==
    \A q \in Procs : \A p \in ended[q] :
        /\ pc[q] \in {"wait", "grace", "clist", "cdetach", "cwarn", "rmrun"}
        /\ "sweep" \notin missed[q] /\ UniquePid(p)
        => MountedUnder(p) = {} /\ (p \in dirs => "dirs" \in missed[q])

(* A run ends under a signal even if its scan never does (CANCEL_GRACE). *)
CancelledRunEnds == \A p \in Procs : (Alive(p) /\ cancel[p]) ~> Over(p)

(* A run whose scan terminates ends: every hdiutil call has a time limit. *)
RunEnds ==
    \A p \in Procs : []<>(wpc[p] # "scan") => (Alive(p) ~> Over(p))

(* "Cancelled by this signal; mounts have been cleaned up." *)
InterruptedIsClean ==
    \A p \in Procs :
        pc[p] = "done" /\ outcome[p] = "Interrupted" => warned[p] \/ Takeable(p) = {}

-----------------------------------------------------------------------------

(* A started main thread and a worker outside the scan keep running, and a worker
   waiting for its child polls; nothing is assumed of the scan, hdiutil, the user
   or signals. *)
FairSpec ==
    /\ Spec
    /\ \A p \in Procs : /\ WF_vars(pc[p] # "new" /\ Main(p))
                        /\ WF_vars(wpc[p] # "scan" /\ Worker(p))
                        /\ WF_vars(WorkerKillsChild(p))

=============================================================================
