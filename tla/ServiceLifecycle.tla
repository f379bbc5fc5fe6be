-------------------------- MODULE ServiceLifecycle --------------------------
(***************************************************************************)
(* `navctl service install` and `navctl service uninstall`                 *)
(* (crates/nav-service), as a root administrator runs them: one after the  *)
(* other, two at once, interrupted anywhere by a kill or a reboot, next to *)
(* another vendor's installer that shares /Library/PrivilegedHelperTools,  *)
(* over a `launchctl` that may fail without a word.                        *)
(*                                                                         *)
(* A command is a straight program of calls.  Its position is step[c]; one *)
(* action below is one kind of call and takes the command one step on.     *)
(***************************************************************************)
EXTENDS Naturals, Sequences, FiniteSets

CONSTANTS Commands,     \* runs of navctl
          Scenes        \* the settings to consider, each one of
                        \* [commands |-> the runs that may overlap,
                        \*  kinds    |-> the subcommands the administrator runs,
                        \*  faults   |-> what goes on around them]

AllFaults ==
  { "vendor",     \* another vendor's installer is active
    "error",      \* a call may report an error
    "silent",     \* launchctl may fail, and navctl not look
    "kill",       \* a command is killed, the machine reboots
    "disable" }   \* the administrator disables the job

ASSUME ScenesOK ==
  Scenes \subseteq [commands : SUBSET Commands,
                   kinds : SUBSET {"install", "uninstall"},
                   faults : SUBSET AllFaults]

VARIABLES
  scene,     \* the setting: never changed
  art,       \* what each artifact of the manifest has been given so far
  others,    \* another vendor's tool is in the helper directory
  loaded,    \* the job is in launchd's system domain
  record,    \* the label's line in launchd's disabled-services database
  cmd,       \* which command c is, or "none"
  step,      \* the call c makes next
  errs,      \* an uninstall has collected an error
  result,    \* how c's last run ended
  alone,     \* nothing has touched the system behind c's back (ghost)
  faulted    \* a call of c's run failed of itself (ghost)

vars == <<scene, art, others, loaded, record, cmd, step, errs, result, alone,
          faulted>>
launchd == <<loaded, record>>

(***************************************************************************)
(* The layout and the two programs.                                        *)
(***************************************************************************)
Ours == {"plist", "bin", "config", "state"}
Artifacts == Ours \cup {"helper"}
Marks == {"there", "whole", "mode", "owner", "signed"}

\* What install has given an artifact when it is done with it: the two files
\* their content, every path its mode and owner, the binary its signature.
Finished(a) ==
  CASE a = "bin" -> art[a] = Marks
    [] a = "plist" -> art[a] = Marks \ {"signed"}
    [] OTHER -> art[a] = Marks \ {"signed", "whole"}

Present(a) == art[a] # {}

PriorJobSteps == << <<"isLoaded">>, <<"bootout">> >>

HelperSteps ==
  << <<"exists">>, <<"make", "helper">>, <<"give", "helper", "mode">>,
     <<"give", "helper", "owner">> >>

RemovalSteps(a) == << <<"present", a>>, <<"remove", a>> >>

BinarySteps ==
  RemovalSteps("bin")
    \o << <<"write", "bin">>, <<"give", "bin", "mode">>, <<"give", "bin", "owner">>,
          <<"give", "bin", "signed">> >>

DirSteps(d) ==
  << <<"make", d>>, <<"give", d, "mode">>, <<"give", d, "owner">> >>

PlistSteps ==
  << <<"write", "plist">>, <<"give", "plist", "mode">>,
     <<"give", "plist", "owner">> >>

LoadSteps == << <<"isDisabled">>, <<"enable">>, <<"bootstrap">> >>

InstallSteps ==
  PriorJobSteps \o HelperSteps \o BinarySteps
    \o DirSteps("config") \o DirSteps("state") \o PlistSteps \o LoadSteps

\* Mutant: the list of what uninstall removes falls behind what install makes.
Manifest_Drift == <<"plist", "bin", "config", "config">>

\* Leaf files before the shared directory that holds the binary.
Manifest == <<"plist", "bin", "config", "state">>

UninstallSteps ==
  << <<"isDisabled">>, <<"enable">>, <<"bootout">> >>
  \o RemovalSteps(Manifest[1]) \o RemovalSteps(Manifest[2])
  \o RemovalSteps(Manifest[3]) \o RemovalSteps(Manifest[4])
  \o << <<"isEmpty">>, <<"reclaim">>, <<"tccutil">> >>

Program(c) == IF cmd[c] = "install" THEN InstallSteps ELSE UninstallSteps
Call(c) == Program(c)[step[c]]
Running(c) == cmd[c] # "none"
At(c, op) == Running(c) /\ Call(c)[1] = op
AtOn(c, op, a) == At(c, op) /\ Call(c)[2] = a

(***************************************************************************)
(* Ending a call.                                                          *)
(***************************************************************************)
End(c, how) ==
  /\ cmd' = [cmd EXCEPT ![c] = "none"]
  /\ step' = [step EXCEPT ![c] = 1]
  /\ errs' = [errs EXCEPT ![c] = FALSE]
  /\ result' = [result EXCEPT ![c] = how]

\* The call succeeded: k calls on, or the command's last call was made.
Advance(c, k, bad) ==
  IF step[c] + k > Len(Program(c))
  THEN End(c, IF errs[c] \/ bad THEN "failed" ELSE "ok")
  ELSE /\ step' = [step EXCEPT ![c] = @ + k]
       /\ errs' = [errs EXCEPT ![c] = @ \/ bad]
       /\ UNCHANGED <<cmd, result>>

Done(c) == Advance(c, 1, FALSE)

\* Mutant: install drops a call's error where it should return it.
Failed_Dropped(c) == Advance(c, 1, cmd[c] = "uninstall")

\* The call reported an error: install gives up, uninstall notes it and goes on.
Failed(c) == IF cmd[c] = "install" THEN End(c, "failed") ELSE Advance(c, 1, TRUE)

\* Commands that can no longer answer for what they find: something outside
\* them has changed the files or launchd.
Disturb ==
  /\ alone' = [d \in Commands |-> alone[d] /\ ~Running(d)]
  /\ UNCHANGED faulted
Slip(c) ==
  /\ "silent" \in scene.faults
  /\ alone' = [alone EXCEPT ![c] = FALSE]
  /\ UNCHANGED faulted
Fault(c) ==
  /\ "error" \in scene.faults
  /\ faulted' = [faulted EXCEPT ![c] = TRUE]
  /\ UNCHANGED alone
Quiet == UNCHANGED <<alone, faulted>>

Init ==
  /\ scene \in Scenes
  /\ art = [a \in Artifacts |-> {}]
  /\ others = FALSE
  /\ loaded = FALSE
  /\ record = "none"
  /\ cmd = [c \in Commands |-> "none"]
  /\ step = [c \in Commands |-> 1]
  /\ errs = [c \in Commands |-> FALSE]
  /\ result = [c \in Commands |-> "none"]
  /\ alone = [c \in Commands |-> TRUE]
  /\ faulted = [c \in Commands |-> FALSE]

Begin(c, which) ==
  /\ ~Running(c)
  /\ cmd' = [cmd EXCEPT ![c] = which]
  /\ result' = [result EXCEPT ![c] = "none"]
  /\ alone' = [d \in Commands |-> \A e \in Commands \ {c} : ~Running(e)]
  /\ faulted' = [faulted EXCEPT ![c] = FALSE]
  /\ UNCHANGED <<art, others, launchd, step, errs>>

(***************************************************************************)
(* Calls on the file system.                                               *)
(***************************************************************************)
\* Any call may come back with an error and nothing done.  `exists` answers
\* false instead, and two queries have an error path of their own.
CallFails(c) ==
  /\ Running(c)
  /\ Call(c)[1] \notin {"exists", "present", "isDisabled", "isEmpty"}
  /\ Failed(c)
  /\ Fault(c)
  /\ UNCHANGED <<art, others, launchd>>

\* `!helper_dir.exists()`: the three calls that make it are skipped otherwise.
HelperExists(c) ==
  /\ At(c, "exists")
  /\ Advance(c, IF Present("helper") THEN 4 ELSE 1, FALSE)
  /\ Quiet
  /\ UNCHANGED <<art, others, launchd>>

\* create_dir_all: a directory that is there by now is no error.
MakeDir(c) ==
  /\ At(c, "make")
  /\ LET a == Call(c)[2]
     IN art' = [art EXCEPT ![a] = @ \cup {"there"}]
  /\ Done(c)
  /\ Quiet
  /\ UNCHANGED <<others, launchd>>

\* fs::copy and fs::write truncate the file and fill it: an old mode and owner
\* stay, an old signature does not.
Truncate(a) == art' = [art EXCEPT ![a] = (@ \ {"whole", "signed"}) \cup {"there"}]
Fill(a) == art' = [art EXCEPT ![a] = (@ \ {"signed"}) \cup {"there", "whole"}]
HasParent(a) == a = "bin" => Present("helper")

\* A missing parent directory is an error; a write may also fail half-way.
WriteFile(c) ==
  /\ At(c, "write")
  /\ LET a == Call(c)[2] IN
       \/ HasParent(a) /\ Fill(a) /\ Done(c) /\ Quiet
       \/ ~HasParent(a) /\ UNCHANGED art /\ Failed(c) /\ Quiet
       \/ HasParent(a) /\ Truncate(a) /\ Failed(c) /\ Fault(c)
  /\ UNCHANGED <<others, launchd>>

\* set_permissions, chown and codesign act on a path that must exist.
Give(c) ==
  /\ At(c, "give")
  /\ LET a == Call(c)[2] IN
       IF Present(a)
       THEN /\ art' = [art EXCEPT ![a] = @ \cup {Call(c)[3]}]
            /\ Done(c)
       ELSE /\ UNCHANGED art
            /\ Failed(c)
  /\ Quiet
  /\ UNCHANGED <<others, launchd>>

\* remove_file_if_present and remove_dir_all_if_present, first half: exists.
IsPresent(c) ==
  /\ At(c, "present")
  /\ Advance(c, IF Present(Call(c)[2]) THEN 1 ELSE 2, FALSE)
  /\ Quiet
  /\ UNCHANGED <<art, others, launchd>>

\* Second half: remove_file or remove_dir_all, to which what is gone by now is an error.
Remove(c) ==
  /\ At(c, "remove")
  /\ IF Present(Call(c)[2])
     THEN art' = [art EXCEPT ![Call(c)[2]] = {}] /\ Done(c)
     ELSE UNCHANGED art /\ Failed(c)
  /\ Quiet
  /\ UNCHANGED <<others, launchd>>

HelperEmpty == Present("helper") /\ ~Present("bin") /\ ~others

\* remove_shared_dir_if_empty, first half: is_dir && is_empty_dir.
IsEmpty(c) ==
  /\ At(c, "isEmpty")
  /\ \/ Advance(c, IF HelperEmpty THEN 1 ELSE 2, FALSE) /\ Quiet
     \/ Advance(c, 2, TRUE) /\ Fault(c)
  /\ UNCHANGED <<art, others, launchd>>

\* Second half: remove_dir, which refuses a directory that is not empty.
Reclaim(c) ==
  /\ At(c, "reclaim")
  /\ IF HelperEmpty
     THEN /\ art' = [art EXCEPT !["helper"] = {}]
          /\ Done(c)
     ELSE UNCHANGED art /\ Failed(c)
  /\ Quiet
  /\ UNCHANGED <<others, launchd>>

(***************************************************************************)
(* Calls on launchd and TCC.                                               *)
(***************************************************************************)
\* Mutant: an installed plist is taken for a loaded job.
IsLoaded_ByPlist(c) ==
  /\ At(c, "isLoaded")
  /\ Advance(c, IF Present("plist") THEN 1 ELSE 2, FALSE)
  /\ Quiet
  /\ UNCHANGED <<art, others, launchd>>

\* launchctl print: any failure of it reads as "not loaded".
IsLoaded(c) ==
  /\ At(c, "isLoaded")
  /\ \/ Advance(c, IF loaded THEN 1 ELSE 2, FALSE) /\ Quiet
     \/ loaded /\ Advance(c, 2, FALSE) /\ Slip(c)
  /\ UNCHANGED <<art, others, launchd>>

\* The exit status of launchctl bootout is not looked at.
Bootout(c) ==
  /\ At(c, "bootout")
  /\ \/ loaded' = FALSE /\ Quiet
     \/ loaded /\ UNCHANGED loaded /\ Slip(c)
  /\ Done(c)
  /\ UNCHANGED <<art, others, record>>

\* launchctl print-disabled: no line for the label, or no output, reads as not
\* disabled.  An uninstall that cannot run it takes the label for disabled.
IsDisabled(c) ==
  /\ At(c, "isDisabled")
  /\ \/ Advance(c, IF record = "disabled" THEN 1 ELSE 2, FALSE) /\ Quiet
     \/ record = "disabled" /\ Advance(c, 2, FALSE) /\ Slip(c)
     \/ Failed(c) /\ Fault(c)
  /\ UNCHANGED <<art, others, launchd>>

\* launchctl enable writes an `enabled` record; its exit status is not looked at.
Enable(c) ==
  /\ At(c, "enable")
  /\ \/ record' = "enabled" /\ Quiet
     \/ UNCHANGED record /\ Slip(c)
  /\ Done(c)
  /\ UNCHANGED <<art, others, loaded>>

\* launchctl bootstrap refuses a job that is loaded or disabled and a plist or
\* program it cannot read.  Its exit status is looked at.
CanBootstrap ==
  /\ ~loaded
  /\ record # "disabled"
  /\ "whole" \in art["plist"]

\* Mutant: a failed bootstrap is tidied up with a bootout.
Bootstrap_Tidy(c) ==
  /\ At(c, "bootstrap")
  /\ loaded' = CanBootstrap
  /\ IF CanBootstrap THEN Done(c) ELSE Failed(c)
  /\ Quiet
  /\ UNCHANGED <<art, others, record>>

Bootstrap(c) ==
  /\ At(c, "bootstrap")
  /\ IF CanBootstrap
     THEN loaded' = TRUE /\ Done(c)
     ELSE UNCHANGED loaded /\ Failed(c)
  /\ Quiet
  /\ UNCHANGED <<art, others, record>>

\* tccutil reset: attempting it is success.
Tccutil(c) ==
  /\ At(c, "tccutil")
  /\ Done(c)
  /\ Quiet
  /\ UNCHANGED <<art, others, launchd>>

(***************************************************************************)
(* The rest of the machine.                                                *)
(***************************************************************************)
\* Ctrl-C or SIGKILL between two calls, or inside a write.
Kill(c) ==
  /\ "kill" \in scene.faults /\ Running(c)
  /\ End(c, "killed")
  /\ \/ UNCHANGED art
     \/ At(c, "write") /\ HasParent(Call(c)[2]) /\ Truncate(Call(c)[2])
  /\ alone' = [alone EXCEPT ![c] = TRUE]
  /\ UNCHANGED <<others, launchd, faulted>>

\* launchd loads every readable plist that is not disabled at boot.
Reboot ==
  /\ "kill" \in scene.faults
  /\ cmd' = [c \in Commands |-> "none"]
  /\ step' = [c \in Commands |-> 1]
  /\ errs' = [c \in Commands |-> FALSE]
  /\ result' = [c \in Commands |->
                  IF Running(c) THEN "killed" ELSE result[c]]
  /\ alone' = [c \in Commands |-> TRUE]
  /\ loaded' = ("whole" \in art["plist"] /\ record # "disabled")
  /\ UNCHANGED <<art, others, record, faulted>>

\* launchctl disable, by the administrator.
Disable ==
  /\ "disable" \in scene.faults /\ record # "disabled"
  /\ record' = "disabled"
  /\ Disturb
  /\ UNCHANGED <<art, others, loaded, cmd, step, errs, result>>

VendorMakesDir ==
  /\ "vendor" \in scene.faults /\ ~Present("helper")
  /\ art' = [art EXCEPT !["helper"] = {"there"}]
  /\ Disturb
  /\ UNCHANGED <<others, launchd, cmd, step, errs, result>>

VendorAdds ==
  /\ "vendor" \in scene.faults /\ Present("helper") /\ ~others
  /\ others' = TRUE
  /\ Disturb
  /\ UNCHANGED <<art, launchd, cmd, step, errs, result>>

VendorRemoves ==
  /\ others
  /\ others' = FALSE
  /\ Disturb
  /\ UNCHANGED <<art, launchd, cmd, step, errs, result>>

Step(c) ==
  \/ HelperExists(c) \/ MakeDir(c) \/ WriteFile(c) \/ Give(c)
  \/ IsPresent(c) \/ Remove(c)
  \/ IsEmpty(c) \/ Reclaim(c)
  \/ IsLoaded(c) \/ Bootout(c) \/ IsDisabled(c) \/ Enable(c) \/ Bootstrap(c)
  \/ Tccutil(c) \/ CallFails(c)

Next ==
  /\ \/ \E c \in scene.commands :
          \/ \E which \in scene.kinds : Begin(c, which)
          \/ Step(c)
          \/ Kill(c)
     \/ Reboot \/ Disable
     \/ VendorMakesDir \/ VendorAdds \/ VendorRemoves
  /\ UNCHANGED scene

Spec == Init /\ [][Next]_vars

(***************************************************************************)
(* What the residue check reports (the name sweep finds only what the      *)
(* manifest does not list, and the programs above make nothing else).      *)
(***************************************************************************)
Residue ==
  {a \in Ours : Present(a)} \cup (IF HelperEmpty THEN {"helper"} ELSE {})

IsClean == Residue = {} /\ ~loaded /\ record # "disabled"

(***************************************************************************)
(* Properties.                                                             *)
(***************************************************************************)

Reports(c, which, how) ==
  cmd[c] = which /\ cmd'[c] = "none" /\ result'[c] = how

\* Two installs at once trip over each other's files, but when both have ended
\* the machine is in the state one install leaves, though nothing locks them out -
\* as long as no call fails of itself and nobody uninstalls or disables.
InstallsConverge ==
  (/\ scene.kinds = {"install"} /\ scene.faults \subseteq {"vendor"}
   /\ \A c \in Commands : ~Running(c)
   /\ \E c \in Commands : result[c] # "none")
  => loaded /\ \A a \in Ours : Finished(a)

\* An install that says "navd installed and bootstrapped" and was left alone has
\* finished every artifact, the job is loaded and not disabled - whatever earlier
\* installs and uninstalls, cut short or not, had left.
InstalledMeansServing ==
  [][\A c \in Commands :
       Reports(c, "install", "ok") /\ alone[c] =>
         /\ \A a \in Ours : Finished(a)'
         /\ Present("helper")'
         /\ loaded' /\ record' # "disabled"]_vars

\* An uninstall that says "navd uninstalled" and was left alone leaves nothing
\* for the residue check to report, from whatever state it started.
UninstalledMeansClean ==
  [][\A c \in Commands :
       Reports(c, "uninstall", "ok") /\ alone[c] => IsClean']_vars

\* "Idempotent: safe to re-run over an existing install" and "never fails because
\* a piece is already gone": a command left alone, none of whose calls failed of
\* itself, never fails, over any partial state that kills and reboots leave.
NeverFailsByItself ==
  [][\A c \in Commands, which \in {"install", "uninstall"} :
       alone[c] /\ ~faulted'[c] => ~Reports(c, which, "failed")]_vars

=============================================================================
