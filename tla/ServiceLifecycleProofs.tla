----------------------- MODULE ServiceLifecycleProofs -----------------------
(***************************************************************************)
(* Theorems about ServiceLifecycle, for any commands and any scenes: what  *)
(* install and uninstall have achieved when they report success, that they *)
(* never fail of themselves when left alone, and where several installs at *)
(* once leave the machine.                                                 *)
(*                                                                         *)
(* The argument is a predicate of the position: a command that nothing has *)
(* disturbed has done, at call number step[c], what its earlier calls do   *)
(* (InstallLeft, UninstallLeft), whatever state it started from.  Several  *)
(* installs at once are not left alone; for them CalmInv says who is still *)
(* to give each mark that is missing.                                      *)
(***************************************************************************)
EXTENDS ServiceLifecycle, TLAPS

\* Every variable keeps its type; no command passes the end of its program.
TypeOK ==
  /\ scene \in Scenes
  /\ art \in [Artifacts -> SUBSET Marks]
  /\ others \in BOOLEAN /\ loaded \in BOOLEAN
  /\ record \in {"none", "enabled", "disabled"}
  /\ cmd \in [Commands -> {"none", "install", "uninstall"}]
  /\ step \in [Commands -> 1..24]
  /\ errs \in [Commands -> BOOLEAN]
  /\ result \in [Commands -> {"none", "ok", "failed", "killed"}]
  /\ alone \in [Commands -> BOOLEAN]
  /\ faulted \in [Commands -> BOOLEAN]

\* A command that is not running is ready to begin; the error list belongs to
\* an uninstall, and an uninstall has fourteen calls.
Positions ==
  \A c \in Commands :
    /\ cmd[c] = "none" => step[c] = 1
    /\ cmd[c] # "uninstall" => ~errs[c]
    /\ cmd[c] = "uninstall" => step[c] <= 14

\* Nobody else runs next to a command that is alone.
Solitude ==
  \A c, d \in Commands : Running(c) /\ alone[c] /\ Running(d) => c = d

\* Only the binary is signed, and only files have a content.
Layout ==
  /\ "signed" \notin art["plist"]
  /\ \A a \in {"config", "state", "helper"} :
       "signed" \notin art[a] /\ "whole" \notin art[a]

\* The marks an install gives: by which of its calls, to what, and which.
Gives ==
  { <<9, "bin", "there">>, <<9, "bin", "whole">>, <<10, "bin", "mode">>,
    <<11, "bin", "owner">>, <<12, "bin", "signed">>,
    <<13, "config", "there">>, <<14, "config", "mode">>, <<15, "config", "owner">>,
    <<16, "state", "there">>, <<17, "state", "mode">>, <<18, "state", "owner">>,
    <<19, "plist", "there">>, <<19, "plist", "whole">>, <<20, "plist", "mode">>,
    <<21, "plist", "owner">> }

\* What an install alone has made so far.
InstallLeft(c) ==
  /\ step[c] >= 3 => ~loaded
  /\ step[c] >= 5 => Present("helper")
  /\ \A g \in Gives : step[c] > g[1] => g[3] \in art[g[2]]
  /\ step[c] >= 24 => record # "disabled"

\* What an uninstall alone has taken away so far, when every call succeeded.
UninstallLeft(c) ==
  /\ step[c] >= 3 => record # "disabled"
  /\ step[c] >= 4 => ~loaded
  /\ step[c] >= 6 => ~Present("plist")
  /\ step[c] >= 8 => ~Present("bin")
  /\ step[c] >= 10 => ~Present("config")
  /\ step[c] >= 12 => ~Present("state")
  /\ step[c] >= 14 => ~HelperEmpty

\* What a command is about to remove, at that call.
Doomed(c) ==
  /\ cmd[c] = "install" /\ step[c] = 8 => Present("bin")
  /\ cmd[c] = "uninstall" /\ step[c] = 5 => Present("plist")
  /\ cmd[c] = "uninstall" /\ step[c] = 7 => Present("bin")
  /\ cmd[c] = "uninstall" /\ step[c] = 9 => Present("config")
  /\ cmd[c] = "uninstall" /\ step[c] = 11 => Present("state")

\* The same for any command: an uninstall with an error on its list had a call
\* that failed of itself, and a command removes only what it has seen there and a
\* directory it saw empty.
Left(c) ==
  /\ cmd[c] = "install" => InstallLeft(c)
  /\ cmd[c] = "uninstall" =>
       /\ ~errs[c] => UninstallLeft(c)
       /\ step[c] = 13 => HelperEmpty
       /\ errs[c] => faulted[c]
  /\ Doomed(c)

AloneInv == \A c \in Commands : alone[c] => Left(c)

Calm == scene.kinds = {"install"} /\ scene.faults \subseteq {"vendor"}

\* Someone has come as far as replacing the binary.
Touched ==
  \E c \in Commands : result[c] # "none" \/ (Running(c) /\ step[c] >= 9)

\* Someone is between call i and call j.
Between(i, j) == \E c \in Commands : Running(c) /\ step[c] \in i..j

\* Where several installs have come to: what they make stays made, the binary
\* apart, which each one removes and writes again; a binary one of them saw and
\* another removed is about to be written; and every mark that is missing once
\* someone has come to writing the binary is still to be given by someone.
CalmInv ==
  Calm =>
    /\ record # "disabled"
    /\ \A c \in Commands :
         /\ cmd[c] # "uninstall"
         /\ step[c] >= 5 => Present("helper")
         /\ \A g \in Gives : g[2] # "bin" /\ step[c] > g[1] => g[3] \in art[g[2]]
         /\ Running(c) /\ step[c] = 8 => Present("bin") \/ Between(9, 9)
    /\ Touched =>
         /\ \A g \in Gives : g[3] \in art[g[2]] \/ Between(9, g[1])
         /\ loaded \/ Between(3, 24)

\* The inductive invariant.
IInv == TypeOK /\ Positions /\ Solitude /\ Layout /\ AloneInv
(***************************************************************************)
(* The two programs, call by call.                                         *)
(***************************************************************************)
\* The calls of an install.
LEMMA InstallCalls ==
  /\ Len(InstallSteps) = 24
  /\ InstallSteps[1] = <<"isLoaded">>
  /\ InstallSteps[2] = <<"bootout">>
  /\ InstallSteps[3] = <<"exists">>
  /\ InstallSteps[4] = <<"make", "helper">>
  /\ InstallSteps[5] = <<"give", "helper", "mode">>
  /\ InstallSteps[6] = <<"give", "helper", "owner">>
  /\ InstallSteps[7] = <<"present", "bin">>
  /\ InstallSteps[8] = <<"remove", "bin">>
  /\ InstallSteps[9] = <<"write", "bin">>
  /\ InstallSteps[10] = <<"give", "bin", "mode">>
  /\ InstallSteps[11] = <<"give", "bin", "owner">>
  /\ InstallSteps[12] = <<"give", "bin", "signed">>
  /\ InstallSteps[13] = <<"make", "config">>
  /\ InstallSteps[14] = <<"give", "config", "mode">>
  /\ InstallSteps[15] = <<"give", "config", "owner">>
  /\ InstallSteps[16] = <<"make", "state">>
  /\ InstallSteps[17] = <<"give", "state", "mode">>
  /\ InstallSteps[18] = <<"give", "state", "owner">>
  /\ InstallSteps[19] = <<"write", "plist">>
  /\ InstallSteps[20] = <<"give", "plist", "mode">>
  /\ InstallSteps[21] = <<"give", "plist", "owner">>
  /\ InstallSteps[22] = <<"isDisabled">>
  /\ InstallSteps[23] = <<"enable">>
  /\ InstallSteps[24] = <<"bootstrap">>
BY DEF InstallSteps, PriorJobSteps, HelperSteps, BinarySteps, RemovalSteps, DirSteps,
       PlistSteps, LoadSteps

\* The calls of an uninstall.
LEMMA UninstallCalls ==
  /\ Len(UninstallSteps) = 14
  /\ UninstallSteps[1] = <<"isDisabled">>
  /\ UninstallSteps[2] = <<"enable">>
  /\ UninstallSteps[3] = <<"bootout">>
  /\ UninstallSteps[4] = <<"present", "plist">>
  /\ UninstallSteps[5] = <<"remove", "plist">>
  /\ UninstallSteps[6] = <<"present", "bin">>
  /\ UninstallSteps[7] = <<"remove", "bin">>
  /\ UninstallSteps[8] = <<"present", "config">>
  /\ UninstallSteps[9] = <<"remove", "config">>
  /\ UninstallSteps[10] = <<"present", "state">>
  /\ UninstallSteps[11] = <<"remove", "state">>
  /\ UninstallSteps[12] = <<"isEmpty">>
  /\ UninstallSteps[13] = <<"reclaim">>
  /\ UninstallSteps[14] = <<"tccutil">>
BY DEF UninstallSteps, RemovalSteps, Manifest

\* Where each kind of call stands in an install,
LEMMA InstallAt ==
  ASSUME NEW i \in 1..24
  PROVE  /\ InstallSteps[i][1] = "isLoaded" <=> i = 1
         /\ InstallSteps[i][1] = "bootout" <=> i = 2
         /\ InstallSteps[i][1] = "exists" <=> i = 3
         /\ InstallSteps[i][1] = "make" <=> i \in {4, 13, 16}
         /\ InstallSteps[i][1] = "give" <=> i \in {5, 6, 10, 11, 12, 14, 15, 17, 18, 20, 21}
         /\ InstallSteps[i][1] = "present" <=> i = 7
         /\ InstallSteps[i][1] = "remove" <=> i = 8
         /\ InstallSteps[i][1] = "write" <=> i \in {9, 19}
         /\ InstallSteps[i][1] = "isDisabled" <=> i = 22
         /\ InstallSteps[i][1] = "enable" <=> i = 23
         /\ InstallSteps[i][1] = "bootstrap" <=> i = 24
         /\ InstallSteps[i][1] \notin {"isEmpty", "reclaim", "tccutil"}
BY InstallCalls

\* and in an uninstall.
LEMMA UninstallAt ==
  ASSUME NEW i \in 1..14
  PROVE  /\ UninstallSteps[i][1] = "isDisabled" <=> i = 1
         /\ UninstallSteps[i][1] = "enable" <=> i = 2
         /\ UninstallSteps[i][1] = "bootout" <=> i = 3
         /\ UninstallSteps[i][1] = "present" <=> i \in {4, 6, 8, 10}
         /\ UninstallSteps[i][1] = "remove" <=> i \in {5, 7, 9, 11}
         /\ UninstallSteps[i][1] = "isEmpty" <=> i = 12
         /\ UninstallSteps[i][1] = "reclaim" <=> i = 13
         /\ UninstallSteps[i][1] = "tccutil" <=> i = 14
         /\ UninstallSteps[i][1] \notin {"isLoaded", "exists", "make", "give", "write", "bootstrap"}
BY UninstallCalls

\* Before the first command nothing is there and nobody runs.
LEMMA Initially == Init => IInv /\ CalmInv
<1> SUFFICES ASSUME Init PROVE IInv /\ CalmInv
  OBVIOUS
<1>1. TypeOK
  <2>1. art \in [Artifacts -> SUBSET Marks]
    BY DEF Init
  <2>2. cmd \in [Commands -> {"none", "install", "uninstall"}]
        /\ result \in [Commands -> {"none", "ok", "failed", "killed"}]
        /\ step \in [Commands -> 1..24]
    BY DEF Init
  <2> QED
    BY <2>1, <2>2 DEF Init, TypeOK
<1>2. Positions /\ Solitude /\ Layout
  BY DEF Init, Positions, Solitude, Layout, Running, Artifacts, Ours
<1>3. AloneInv
  BY DEF Init, AloneInv, Left, Doomed
<1>4. CalmInv
  BY DEF Init, CalmInv, Touched, Running, Gives
<1> QED
  BY <1>1, <1>2, <1>3, <1>4 DEF IInv

\* How a command's position moves when it makes a call.
Ended(c, how) ==
  /\ cmd' = [cmd EXCEPT ![c] = "none"]
  /\ step' = [step EXCEPT ![c] = 1]
  /\ errs' = [errs EXCEPT ![c] = FALSE]
  /\ result' = [result EXCEPT ![c] = how]

Moved(c, k, bad) ==
  /\ step' = [step EXCEPT ![c] = @ + k]
  /\ errs' = [errs EXCEPT ![c] = @ \/ bad]
  /\ cmd' = cmd /\ result' = result

Calls(c) == IF cmd[c] = "install" THEN 24 ELSE 14

\* The two ways to advance: nothing to report, and an error for the list.
Goes(c, k) == Advance(c, k, FALSE)
Notes(c, k) == Advance(c, k, TRUE)

\* Advancing either ends the program or moves along it.
LEMMA Advancing ==
  ASSUME NEW c \in Commands, NEW k \in {1, 2, 4}, NEW bad \in BOOLEAN,
         Advance(c, k, bad)
  PROVE  \/ step[c] + k > Calls(c) /\ Ended(c, IF errs[c] \/ bad THEN "failed" ELSE "ok")
         \/ ~(step[c] + k > Calls(c)) /\ Moved(c, k, bad)
BY InstallCalls, UninstallCalls DEF Advance, End, Calls, Program, Ended, Moved

\* Every call of c's moves c on, or ends an install that gives up; it may cost
\* c its solitude and nobody else's.
LEMMA Stepping ==
  ASSUME TypeOK, NEW c \in Commands, Step(c)
  PROVE  /\ Running(c)
         /\ \/ \E k \in {1, 2, 4}, bad \in BOOLEAN :
                 (bad => cmd[c] # "install") /\ Advance(c, k, bad)
            \/ cmd[c] = "install" /\ Ended(c, "failed")
         /\ Quiet \/ Slip(c) \/ Fault(c)
<1>0. Failed(c) =>
        \/ \E bad \in BOOLEAN : (bad => cmd[c] # "install") /\ Advance(c, 1, bad)
        \/ cmd[c] = "install" /\ Ended(c, "failed")
  BY DEF Failed, End, Ended
<1>1. CASE HelperExists(c)
  BY <1>1 DEF HelperExists, At
<1>2. CASE MakeDir(c)
  BY <1>2 DEF MakeDir, At, Done
<1>3. CASE WriteFile(c)
  BY <1>3, <1>0 DEF WriteFile, At, Done
<1>4. CASE Give(c)
  BY <1>4, <1>0 DEF Give, At, Done
<1>5. CASE Remove(c)
  BY <1>5, <1>0 DEF Remove, At, Done
<1>15. CASE IsPresent(c)
  BY <1>15 DEF IsPresent, At
<1>6. CASE IsEmpty(c)
  <2>1. cmd[c] # "install"
    BY <1>6, InstallAt DEF IsEmpty, At, Call, Program, TypeOK
  <2> QED
    BY <1>6, <2>1 DEF IsEmpty, At
<1>7. CASE Reclaim(c)
  BY <1>7, <1>0 DEF Reclaim, At, Done
<1>8. CASE IsLoaded(c)
  BY <1>8 DEF IsLoaded, At
<1>9. CASE Bootout(c)
  BY <1>9 DEF Bootout, At, Done
<1>10. CASE IsDisabled(c)
  BY <1>10, <1>0 DEF IsDisabled, At
<1>11. CASE Enable(c)
  BY <1>11 DEF Enable, At, Done
<1>12. CASE Bootstrap(c)
  BY <1>12, <1>0 DEF Bootstrap, At, Done
<1>13. CASE Tccutil(c)
  BY <1>13 DEF Tccutil, At, Done
<1>14. CASE CallFails(c)
  BY <1>14, <1>0 DEF CallFails
<1> QED
  BY <1>1, <1>2, <1>3, <1>4, <1>5, <1>6, <1>7, <1>8, <1>9, <1>10, <1>11, <1>12,
     <1>13, <1>14, <1>15 DEF Step

\* The two halves of TypeOK: the commands', and the system's.
CommandsTyped ==
  /\ cmd \in [Commands -> {"none", "install", "uninstall"}]
  /\ step \in [Commands -> 1..24]
  /\ errs \in [Commands -> BOOLEAN]
  /\ result \in [Commands -> {"none", "ok", "failed", "killed"}]
  /\ alone \in [Commands -> BOOLEAN]
  /\ faulted \in [Commands -> BOOLEAN]

SystemTyped ==
  /\ art \in [Artifacts -> SUBSET Marks]
  /\ others \in BOOLEAN /\ loaded \in BOOLEAN
  /\ record \in {"none", "enabled", "disabled"}

\* Where a call of c's leaves the commands.
LEMMA StepCommands ==
  ASSUME TypeOK, Positions, Solitude, NEW c \in Commands, Step(c)
  PROVE  /\ CommandsTyped' /\ Positions' /\ Solitude'
         /\ \A d \in Commands : (alone'[d] => alone[d])
                             /\ (cmd'[d] # "none" => cmd'[d] = cmd[d])
         /\ \A d \in Commands \ {c} :
              /\ cmd'[d] = cmd[d] /\ step'[d] = step[d] /\ errs'[d] = errs[d]
              /\ result'[d] = result[d]
              /\ faulted'[d] = faulted[d]
         /\ faulted[c] => faulted'[c]
<1>1. /\ alone' \in [Commands -> BOOLEAN]
      /\ faulted' \in [Commands -> BOOLEAN]
      /\ \A d \in Commands : alone'[d] => alone[d]
      /\ \A d \in Commands \ {c} : faulted'[d] = faulted[d]
      /\ faulted[c] => faulted'[c]
  BY Stepping DEF TypeOK, Quiet, Slip, Fault
<1>2. /\ cmd' \in [Commands -> {"none", "install", "uninstall"}]
      /\ step' \in [Commands -> 1..24]
      /\ errs' \in [Commands -> BOOLEAN]
      /\ result' \in [Commands -> {"none", "ok", "failed", "killed"}]
      /\ Positions'
      /\ \A d \in Commands : cmd'[d] # "none" => cmd'[d] = cmd[d]
      /\ \A d \in Commands \ {c} :
              /\ cmd'[d] = cmd[d] /\ step'[d] = step[d] /\ errs'[d] = errs[d]
              /\ result'[d] = result[d]
  <2>1. CASE \E how \in {"ok", "failed"} : Ended(c, how)
    BY <2>1 DEF Ended, TypeOK, Positions
  <2>2. ASSUME NEW k \in {1, 2, 4}, NEW bad \in BOOLEAN,
               bad => cmd[c] # "install", ~(step[c] + k > Calls(c)), Moved(c, k, bad)
        PROVE  <1>2
    <3>1. Running(c)
      BY Stepping
    <3>2. step[c] + k \in 1..24
      BY <2>2 DEF Calls, TypeOK
    <3>3. step' \in [Commands -> 1..24]
      BY <2>2, <3>2 DEF Moved, TypeOK
    <3>4. errs' \in [Commands -> BOOLEAN]
      BY <2>2 DEF Moved, TypeOK
    <3>5. Positions'
      BY <2>2, <3>1 DEF Moved, Calls, TypeOK, Positions, Running
    <3> QED
      BY <2>2, <3>3, <3>4, <3>5 DEF Moved, TypeOK
  <2> QED
    BY <2>1, <2>2, Stepping, Advancing
<1>3. Solitude'
  BY <1>1, <1>2 DEF Solitude, Running
<1> QED
  BY <1>1, <1>2, <1>3 DEF CommandsTyped

\* What a call of c's does to the files and to launchd.
LEMMA StepSystem ==
  ASSUME TypeOK, Positions, Layout, NEW c \in Commands, Step(c)
  PROVE  SystemTyped' /\ Layout'
<1> USE DEF TypeOK, SystemTyped, Layout, launchd
<1>0. Running(c) /\ step[c] \in 1..24 /\ cmd[c] \in {"install", "uninstall"}
        /\ (cmd[c] = "uninstall" => step[c] \in 1..14)
  BY Stepping DEF Running, Positions
<1>1. CASE HelperExists(c)
  BY <1>1 DEF HelperExists
<1>2. CASE MakeDir(c)
  <2>1. cmd[c] = "install" /\ Call(c)[2] \in {"helper", "config", "state"}
    BY <1>0, <1>2, InstallAt, UninstallAt, InstallCalls DEF MakeDir, At, Call, Program
  <2> QED
    BY <1>2, <2>1 DEF MakeDir, Artifacts, Ours, Marks
<1>3. CASE WriteFile(c)
  <2>1. Call(c)[2] \in {"bin", "plist"}
    BY <1>0, <1>3, InstallAt, UninstallAt, InstallCalls DEF WriteFile, At, Call, Program
  <2>2. \/ UNCHANGED art
        \/ Fill(Call(c)[2])
        \/ Truncate(Call(c)[2])
    BY <1>3 DEF WriteFile
  <2>3. art' \in [Artifacts -> SUBSET Marks]
    BY <2>1, <2>2 DEF Fill, Truncate, Artifacts, Ours, Marks
  <2>4. Layout'
    BY <2>1, <2>2 DEF Fill, Truncate, Artifacts, Ours
  <2> QED
    BY <1>3, <2>3, <2>4 DEF WriteFile
<1>4. CASE Give(c)
  <2>1. /\ Call(c)[2] \in Artifacts /\ Call(c)[3] \in Marks
        /\ Call(c)[3] # "whole"
        /\ Call(c)[3] = "signed" => Call(c)[2] = "bin"
    BY <1>0, <1>4, InstallAt, UninstallAt, InstallCalls
       DEF Give, At, Call, Program, Artifacts, Ours, Marks
  <2>2. art' \in [Artifacts -> SUBSET Marks]
    BY <1>4, <2>1 DEF Give
  <2>3. Layout'
    BY <1>4, <2>1 DEF Give, Artifacts, Ours
  <2> QED
    BY <1>4, <2>2, <2>3 DEF Give
<1>5. CASE Remove(c)
  <2>1. art' \in [Artifacts -> SUBSET Marks]
    BY <1>5 DEF Remove
  <2>2. Layout'
    BY <1>5 DEF Remove, Artifacts, Ours
  <2> QED
    BY <1>5, <2>1, <2>2 DEF Remove
<1>6. CASE IsEmpty(c) \/ IsPresent(c)
  BY <1>6 DEF IsEmpty, IsPresent
<1>7. CASE Reclaim(c)
  BY <1>7 DEF Reclaim, Artifacts, Ours
<1>8. CASE IsLoaded(c)
  BY <1>8 DEF IsLoaded
<1>9. CASE Bootout(c)
  BY <1>9 DEF Bootout
<1>10. CASE IsDisabled(c)
  BY <1>10 DEF IsDisabled
<1>11. CASE Enable(c)
  BY <1>11 DEF Enable
<1>12. CASE Bootstrap(c)
  BY <1>12 DEF Bootstrap
<1>13. CASE Tccutil(c)
  BY <1>13 DEF Tccutil
<1>14. CASE CallFails(c)
  BY <1>14 DEF CallFails
<1> QED
  BY <1>1, <1>2, <1>3, <1>4, <1>5, <1>6, <1>7, <1>8, <1>9, <1>10, <1>11, <1>12,
     <1>13, <1>14 DEF Step

\* An install left alone makes its call, and goes on: it has what it should.
LEMMA InstallGoesOn ==
  ASSUME IInv, NEW c \in Commands, Step(c), cmd[c] = "install",
         alone'[c], cmd'[c] = "install"
  PROVE  Left(c)'
<1> USE DEF IInv, TypeOK, InstallLeft, Doomed, Present, Gives
<1>0. /\ alone[c] /\ Left(c) /\ InstallLeft(c) /\ Doomed(c) /\ cmd'[c] = "install"
      /\ step[c] \in 1..24
      /\ Running(c) /\ Running(c)'
      /\ ~errs[c]
      /\ Calls(c) = 24
      /\ Program(c) = InstallSteps
  BY StepCommands DEF AloneInv, Left, Running, Positions, Calls, Program
<1>a. ~Slip(c)
  BY DEF Slip
<1>b. ~Failed(c)
  BY DEF Failed, End
<1>c. ASSUME NEW k \in {1, 2, 4}, Advance(c, k, FALSE)
      PROVE  step'[c] = step[c] + k
  <2>1. ~Ended(c, "ok") /\ ~Ended(c, "failed")
    BY DEF Ended
  <2>2. Moved(c, k, FALSE)
    BY <1>c, <2>1, Advancing
  <2> QED
    BY <2>2 DEF Moved
<1>d. Done(c) => step'[c] = step[c] + 1
  BY <1>c DEF Done
<1> SUFFICES InstallLeft(c)' /\ Doomed(c)'
  BY DEF Left
<1>1. CASE HelperExists(c)
  <2>1. step[c] = 3
    BY <1>0, <1>1, InstallAt DEF HelperExists, At, Call
  <2>2. CASE Present("helper")
    BY <1>0, <1>1, <1>c, <2>1, <2>2 DEF HelperExists, launchd
  <2>3. CASE ~Present("helper")
    <3>1. Advance(c, 1, FALSE)
      BY <1>1, <2>3 DEF HelperExists
    <3> QED
      BY <1>0, <1>1, <1>c, <2>1, <3>1 DEF HelperExists, launchd
  <2> QED
    BY <2>2, <2>3
<1>2. CASE MakeDir(c)
  <2>1. \/ step[c] = 4 /\ Call(c)[2] = "helper"
        \/ step[c] = 13 /\ Call(c)[2] = "config"
        \/ step[c] = 16 /\ Call(c)[2] = "state"
    BY <1>0, <1>2, InstallAt, InstallCalls DEF MakeDir, At, Call
  <2> QED
    BY <1>0, <1>2, <1>d, <2>1, SMTT(40) DEF MakeDir, launchd, Artifacts, Ours
<1>3. CASE WriteFile(c)
  <2>1. \/ step[c] = 9 /\ Call(c)[2] = "bin"
        \/ step[c] = 19 /\ Call(c)[2] = "plist"
    BY <1>0, <1>3, InstallAt, InstallCalls DEF WriteFile, At, Call
  <2>2. Fill(Call(c)[2]) /\ step'[c] = step[c] + 1
    BY <1>3, <1>b, <1>d DEF WriteFile
  <2> QED
    BY <1>0, <1>3, <2>1, <2>2 DEF WriteFile, Fill, launchd, Artifacts, Ours
<1>4. CASE Give(c)
  <2>1. \/ step[c] = 5 /\ Call(c)[2] = "helper" /\ Call(c)[3] = "mode"
        \/ step[c] = 6 /\ Call(c)[2] = "helper" /\ Call(c)[3] = "owner"
        \/ step[c] = 10 /\ Call(c)[2] = "bin" /\ Call(c)[3] = "mode"
        \/ step[c] = 11 /\ Call(c)[2] = "bin" /\ Call(c)[3] = "owner"
        \/ step[c] = 12 /\ Call(c)[2] = "bin" /\ Call(c)[3] = "signed"
        \/ step[c] = 14 /\ Call(c)[2] = "config" /\ Call(c)[3] = "mode"
        \/ step[c] = 15 /\ Call(c)[2] = "config" /\ Call(c)[3] = "owner"
        \/ step[c] = 17 /\ Call(c)[2] = "state" /\ Call(c)[3] = "mode"
        \/ step[c] = 18 /\ Call(c)[2] = "state" /\ Call(c)[3] = "owner"
        \/ step[c] = 20 /\ Call(c)[2] = "plist" /\ Call(c)[3] = "mode"
        \/ step[c] = 21 /\ Call(c)[2] = "plist" /\ Call(c)[3] = "owner"
    BY <1>0, <1>4, InstallAt, InstallCalls DEF Give, At, Call
  <2>2. /\ art' = [art EXCEPT ![Call(c)[2]] = @ \cup {Call(c)[3]}]
        /\ step'[c] = step[c] + 1
    BY <1>4, <1>b, <1>d DEF Give
  <2> QED
    BY <1>0, <1>4, <2>1, <2>2 DEF Give, launchd, Artifacts, Ours
<1>5. CASE Remove(c)
  <2>1. step[c] = 8 /\ Call(c)[2] = "bin"
    BY <1>0, <1>5, InstallAt, InstallCalls DEF Remove, At, Call
  <2>2. art' = [art EXCEPT !["bin"] = {}] /\ Done(c) /\ UNCHANGED <<others, loaded, record>>
    BY <1>5, <1>b, <2>1 DEF Remove, launchd
  <2> QED
    BY <1>0, <1>d, <2>1, <2>2 DEF Artifacts, Ours
<1>15. CASE IsPresent(c)
  <2>1. step[c] = 7 /\ Call(c)[2] = "bin"
    BY <1>0, <1>15, InstallAt, InstallCalls DEF IsPresent, At, Call
  <2>2. CASE Present("bin")
    <3>1. Advance(c, 1, FALSE)
      BY <1>15, <2>1, <2>2 DEF IsPresent
    <3> QED
      BY <1>0, <1>15, <1>c, <2>1, <2>2, <3>1 DEF IsPresent, launchd
  <2>3. CASE ~Present("bin")
    <3>1. Advance(c, 2, FALSE)
      BY <1>15, <2>1, <2>3 DEF IsPresent
    <3> QED
      BY <1>0, <1>15, <1>c, <2>1, <3>1 DEF IsPresent, launchd
  <2> QED
    BY <2>2, <2>3
<1>6. ~IsEmpty(c) /\ ~Reclaim(c) /\ ~Tccutil(c)
  BY <1>0, InstallAt DEF IsEmpty, Reclaim, Tccutil, At, Call
<1>8. CASE IsLoaded(c)
  <2>1. step[c] = 1
    BY <1>0, <1>8, InstallAt DEF IsLoaded, At, Call
  <2>2. Advance(c, IF loaded THEN 1 ELSE 2, FALSE)
    BY <1>8, <1>a DEF IsLoaded
  <2>3. step'[c] = IF loaded THEN 2 ELSE 3
    <3>1. CASE loaded
      BY <1>c, <2>1, <2>2, <3>1
    <3>2. CASE ~loaded
      BY <1>c, <2>1, <2>2, <3>2
    <3> QED
      BY <3>1, <3>2
  <2> QED
    BY <1>0, <1>8, <2>1, <2>3 DEF IsLoaded, launchd
<1>9. CASE Bootout(c)
  <2>1. step[c] = 2
    BY <1>0, <1>9, InstallAt DEF Bootout, At, Call
  <2> QED
    BY <1>0, <1>9, <1>a, <1>d, <2>1 DEF Bootout
<1>10. CASE IsDisabled(c)
  <2>1. step[c] = 22
    BY <1>0, <1>10, InstallAt DEF IsDisabled, At, Call
  <2>2. Advance(c, IF record = "disabled" THEN 1 ELSE 2, FALSE)
    BY <1>10, <1>a, <1>b DEF IsDisabled
  <2>3. step'[c] = IF record = "disabled" THEN 23 ELSE 24
    <3>1. CASE record = "disabled"
      BY <1>c, <2>1, <2>2, <3>1
    <3>2. CASE record # "disabled"
      BY <1>c, <2>1, <2>2, <3>2
    <3> QED
      BY <3>1, <3>2
  <2> QED
    BY <1>0, <1>10, <2>1, <2>3 DEF IsDisabled, launchd
<1>11. CASE Enable(c)
  <2>1. step[c] = 23
    BY <1>0, <1>11, InstallAt DEF Enable, At, Call
  <2> QED
    BY <1>0, <1>11, <1>a, <1>d, <2>1 DEF Enable
<1>12. ~Bootstrap(c)
  <2>1. At(c, "bootstrap") => step[c] = 24
    BY <1>0, InstallAt DEF At, Call
  <2> QED
    BY <1>0, <1>b, <1>d, <2>1, StepCommands DEF Bootstrap, CommandsTyped
<1>14. CASE CallFails(c)
  BY <1>14, <1>b DEF CallFails
<1> QED
  BY <1>1, <1>2, <1>3, <1>4, <1>5, <1>6, <1>8, <1>9, <1>10, <1>11, <1>12, <1>14, <1>15
     DEF Step

\* The same for an uninstall, which goes on whether or not its call failed.
LEMMA UninstallGoesOn ==
  ASSUME IInv, NEW c \in Commands, Step(c), cmd[c] = "uninstall",
         alone'[c], cmd'[c] = "uninstall"
  PROVE  Left(c)'
<1> USE DEF IInv, TypeOK, UninstallLeft, Doomed, Present, HelperEmpty
<1>0. /\ alone[c] /\ Left(c)
      /\ step[c] \in 1..14
      /\ Running(c) /\ Running(c)'
      /\ Calls(c) = 14
      /\ Program(c) = UninstallSteps
  BY StepCommands DEF AloneInv, Left, Running, Positions, Calls, Program
<1>a. ~Slip(c)
  BY DEF Slip
<1>b. Failed(c) <=> Advance(c, 1, TRUE)
  BY DEF Failed
<1>c. ASSUME NEW k \in {1, 2}, NEW bad \in BOOLEAN, Advance(c, k, bad)
      PROVE  step'[c] = step[c] + k /\ errs'[c] = (errs[c] \/ bad)
  <2>1. ~Ended(c, "ok") /\ ~Ended(c, "failed")
    BY DEF Ended
  <2>2. Moved(c, k, bad)
    BY <1>c, <2>1, Advancing
  <2> QED
    BY <2>2 DEF Moved
<1>h. Advance(c, 1, FALSE) => step'[c] = step[c] + 1 /\ errs'[c] = errs[c]
  BY <1>c
<1>i. Advance(c, 2, FALSE) => step'[c] = step[c] + 2 /\ errs'[c] = errs[c]
  BY <1>c
<1>j. Advance(c, 2, TRUE) => step'[c] = step[c] + 2 /\ errs'[c]
  BY <1>c
<1>d. Done(c) => step'[c] = step[c] + 1 /\ errs'[c] = errs[c]
  BY <1>h DEF Done
<1>e. Failed(c) => step'[c] = step[c] + 1 /\ errs'[c]
  BY <1>b, <1>c
<1>f. errs[c] => faulted[c] /\ faulted'[c]
  BY <1>0, StepCommands DEF Left
<1>g. Fault(c) => faulted'[c]
  BY DEF Fault
<1>1. ~HelperExists(c) /\ ~MakeDir(c) /\ ~WriteFile(c) /\ ~Give(c) /\ ~IsLoaded(c) /\ ~Bootstrap(c)
  BY <1>0, UninstallAt DEF HelperExists, MakeDir, WriteFile, Give, IsLoaded, Bootstrap, At, Call
<1>5. CASE Remove(c)
  <2>1. \/ step[c] = 5 /\ Call(c)[2] = "plist"
        \/ step[c] = 7 /\ Call(c)[2] = "bin"
        \/ step[c] = 9 /\ Call(c)[2] = "config"
        \/ step[c] = 11 /\ Call(c)[2] = "state"
    BY <1>0, <1>5, UninstallAt, UninstallCalls DEF Remove, At, Call
  <2>2. Present(Call(c)[2])
    BY <1>0, <2>1 DEF Left
  <2>3. /\ art' = [art EXCEPT ![Call(c)[2]] = {}] /\ Done(c)
        /\ UNCHANGED <<others, loaded, record>>
    BY <1>5, <2>2 DEF Remove, launchd
  <2> QED
    BY <1>0, <1>d, <1>f, <2>1, <2>3 DEF Artifacts, Ours, Left
<1>15. CASE IsPresent(c)
  <2>1. \/ step[c] = 4 /\ Call(c)[2] = "plist"
        \/ step[c] = 6 /\ Call(c)[2] = "bin"
        \/ step[c] = 8 /\ Call(c)[2] = "config"
        \/ step[c] = 10 /\ Call(c)[2] = "state"
    BY <1>0, <1>15, UninstallAt, UninstallCalls DEF IsPresent, At, Call
  <2>2. CASE Present(Call(c)[2])
    <3>1. Advance(c, 1, FALSE)
      BY <1>15, <2>2 DEF IsPresent
    <3> QED
      BY <1>0, <1>15, <1>h, <1>f, <2>1, <2>2, <3>1 DEF IsPresent, launchd, Left
  <2>3. CASE ~Present(Call(c)[2])
    <3>1. Advance(c, 2, FALSE)
      BY <1>15, <2>3 DEF IsPresent
    <3> QED
      BY <1>0, <1>15, <1>i, <1>f, <2>1, <2>3, <3>1 DEF IsPresent, launchd, Left
  <2> QED
    BY <2>2, <2>3
<1>6. CASE IsEmpty(c)
  <2>1. step[c] = 12
    BY <1>0, <1>6, UninstallAt DEF IsEmpty, At, Call
  <2>2. CASE Advance(c, 2, TRUE) /\ Fault(c)
    BY <1>0, <1>6, <1>j, <1>g, <2>1, <2>2 DEF IsEmpty, launchd, Left
  <2>3. CASE Advance(c, 1, FALSE) /\ HelperEmpty
    BY <1>0, <1>6, <1>h, <1>f, <2>1, <2>3 DEF IsEmpty, launchd, Left
  <2>4. CASE Advance(c, 2, FALSE) /\ ~HelperEmpty
    BY <1>0, <1>6, <1>i, <1>f, <2>1, <2>4 DEF IsEmpty, launchd, Left
  <2> QED
    BY <1>6, <2>2, <2>3, <2>4 DEF IsEmpty
<1>7. CASE Reclaim(c)
  <2>1. step[c] = 13
    BY <1>0, <1>7, UninstallAt DEF Reclaim, At, Call
  <2>2. HelperEmpty
    BY <1>0, <2>1 DEF Left
  <2> QED
    BY <1>0, <1>7, <1>d, <1>f, <2>1, <2>2 DEF Reclaim, launchd, Artifacts, Ours, Left
<1>9. CASE Bootout(c)
  <2>1. step[c] = 3
    BY <1>0, <1>9, UninstallAt DEF Bootout, At, Call
  <2> QED
    BY <1>0, <1>9, <1>a, <1>d, <1>f, <2>1 DEF Bootout, Left
<1>10. CASE IsDisabled(c)
  <2>1. step[c] = 1
    BY <1>0, <1>10, UninstallAt DEF IsDisabled, At, Call
  <2>2. CASE Failed(c) /\ Fault(c)
    BY <1>0, <1>10, <1>e, <1>g, <2>1, <2>2 DEF IsDisabled, launchd, Left
  <2>3. CASE Advance(c, 1, FALSE) /\ record = "disabled"
    BY <1>0, <1>10, <1>h, <1>f, <2>1, <2>3 DEF IsDisabled, launchd, Left
  <2>4. CASE Advance(c, 2, FALSE) /\ record # "disabled"
    BY <1>0, <1>10, <1>i, <1>f, <2>1, <2>4 DEF IsDisabled, launchd, Left
  <2> QED
    BY <1>10, <1>a, <2>2, <2>3, <2>4 DEF IsDisabled
<1>11. CASE Enable(c)
  <2>1. step[c] = 2
    BY <1>0, <1>11, UninstallAt DEF Enable, At, Call
  <2> QED
    BY <1>0, <1>11, <1>a, <1>d, <1>f, <2>1 DEF Enable, Left
<1>13. ~Tccutil(c)
  <2>1. At(c, "tccutil") => step[c] = 14
    BY <1>0, UninstallAt DEF At, Call
  <2> QED
    BY <1>0, <1>d, <2>1, StepCommands DEF Tccutil, CommandsTyped, Positions
<1>14. CASE CallFails(c)
  <2>1. step[c] \notin {4, 6, 8, 10, 12}
    BY <1>0, <1>14, UninstallAt DEF CallFails, Call
  <2> QED
    BY <1>0, <1>14, <1>e, <1>g, <2>1 DEF CallFails, launchd, Left
<1> QED
  BY <1>1, <1>5, <1>6, <1>7, <1>9, <1>10, <1>11, <1>13, <1>14, <1>15 DEF Step

\* Everything but a command's own calls: a beginning, a kill, a reboot, the
\* administrator and the other vendor.
Elsewhere ==
  \/ \E c \in Commands, which \in scene.kinds : Begin(c, which)
  \/ \E c \in Commands : Kill(c)
  \/ Reboot \/ Disable \/ VendorMakesDir \/ VendorAdds \/ VendorRemoves

\* A step is a command's call or happens elsewhere.
LEMMA NextCases ==
  ASSUME TypeOK, Next
  PROVE  /\ scene' = scene
         /\ (\E c \in Commands : Step(c)) \/ Elsewhere
<1>1. scene.commands \subseteq Commands /\ scene.kinds \subseteq {"install", "uninstall"}
  BY ScenesOK DEF TypeOK
<1> QED
  BY <1>1 DEF Next, Elsewhere

\* What happens elsewhere takes away solitude wherever it could break Left.
LEMMA ElsewhereKept ==
  ASSUME IInv, Elsewhere, scene' = scene
  PROVE  IInv'
<1> USE DEF IInv, TypeOK, Positions, Solitude, Layout, AloneInv, Left, Running,
            InstallLeft, UninstallLeft, Doomed, Gives
<1>1. ASSUME NEW c \in Commands, NEW which \in {"install", "uninstall"}, Begin(c, which)
      PROVE  IInv'
  <2>1. /\ cmd' = [cmd EXCEPT ![c] = which]
        /\ cmd[c] = "none" /\ step[c] = 1 /\ ~errs[c]
        /\ alone' = [d \in Commands |-> \A e \in Commands \ {c} : cmd[e] = "none"]
        /\ faulted' = [faulted EXCEPT ![c] = FALSE]
        /\ result' = [result EXCEPT ![c] = "none"]
        /\ UNCHANGED <<scene, art, others, loaded, record, step, errs>>
    BY <1>1 DEF Begin, launchd
  <2>2. TypeOK'
    BY <2>1
  <2>3. Positions' /\ Solitude' /\ Layout'
    BY <2>1
  <2>4. AloneInv'
    BY <2>1
  <2> QED
    BY <2>2, <2>3, <2>4
<1>2. ASSUME NEW c \in Commands, Kill(c)
      PROVE  IInv'
  <2>1. /\ cmd' = [cmd EXCEPT ![c] = "none"]
        /\ step' = [step EXCEPT ![c] = 1]
        /\ errs' = [errs EXCEPT ![c] = FALSE]
        /\ result' = [result EXCEPT ![c] = "killed"]
        /\ alone' = [alone EXCEPT ![c] = TRUE]
        /\ cmd[c] # "none"
        /\ UNCHANGED <<scene, others, loaded, record, faulted>>
    BY <1>2 DEF Kill, End, launchd
  <2>2. art' \in [Artifacts -> SUBSET Marks] /\ Layout'
    <3>1. CASE UNCHANGED art
      BY <3>1
    <3>2. CASE At(c, "write") /\ Truncate(Call(c)[2])
      <4>1. Call(c)[2] \in {"bin", "plist"}
        BY <2>1, <3>2, InstallAt, UninstallAt, InstallCalls DEF At, Call, Program
      <4> QED
        BY <3>2, <4>1 DEF Truncate, Artifacts, Ours, Marks
    <3> QED
      BY <1>2, <3>1, <3>2 DEF Kill
  <2>3. TypeOK'
    BY <2>1, <2>2
  <2>4. Positions' /\ Solitude'
    BY <2>1
  <2>5. AloneInv'
    BY <2>1
  <2> QED
    BY <2>2, <2>3, <2>4, <2>5
<1>3. CASE Reboot
  BY <1>3 DEF Reboot
<1>4. CASE Disable \/ VendorMakesDir \/ VendorAdds \/ VendorRemoves
  <2>1. /\ UNCHANGED <<cmd, step, errs, result, faulted>>
        /\ alone' = [d \in Commands |-> alone[d] /\ cmd[d] = "none"]
    BY <1>4 DEF Disable, VendorMakesDir, VendorAdds, VendorRemoves, Disturb
  <2>2. SystemTyped' /\ Layout'
    <3>1. CASE Disable \/ VendorAdds \/ VendorRemoves
      BY <3>1 DEF Disable, VendorAdds, VendorRemoves, launchd, SystemTyped
    <3>2. CASE VendorMakesDir
      <4>1. art' = [art EXCEPT !["helper"] = {"there"}]
            /\ UNCHANGED <<others, loaded, record>>
        BY <3>2 DEF VendorMakesDir, launchd
      <4> QED
        BY <4>1 DEF SystemTyped, Artifacts, Ours, Marks
    <3> QED
      BY <1>4, <3>1, <3>2
  <2>3. TypeOK'
    BY <2>1, <2>2 DEF SystemTyped
  <2> QED
    BY <2>1, <2>2, <2>3
<1>5. scene.kinds \subseteq {"install", "uninstall"}
  BY ScenesOK
<1> QED
  BY <1>1, <1>2, <1>3, <1>4, <1>5 DEF Elsewhere

\* Every step keeps the invariant.
LEMMA Inductive == IInv /\ [Next]_vars => IInv'
<1> SUFFICES ASSUME IInv, [Next]_vars PROVE IInv'
  OBVIOUS
<1>1. CASE UNCHANGED vars
  BY <1>1 DEF vars, IInv, TypeOK, Positions, Solitude, Layout, AloneInv, Left,
     InstallLeft, UninstallLeft, Doomed, HelperEmpty, Present, Running
<1>2. ASSUME NEW c \in Commands, Step(c), scene' = scene
      PROVE  IInv'
  <2>1. TypeOK' /\ Positions' /\ Solitude' /\ Layout'
    BY <1>2, StepCommands, StepSystem DEF IInv, TypeOK, CommandsTyped, SystemTyped
  <2>2. ASSUME NEW d \in Commands, alone'[d]
        PROVE  Left(d)'
    <3>1. CASE cmd'[d] = "none"
      BY <3>1 DEF Left, Doomed
    <3>2. CASE cmd'[d] # "none"
      <4>1. /\ alone[d] /\ cmd'[d] = cmd[d] /\ Running(c) /\ Running(d)
            /\ cmd[d] \in {"install", "uninstall"}
        BY <1>2, <2>2, <3>2, StepCommands, Stepping DEF IInv, Running, TypeOK
      <4>2. c = d
        BY <4>1 DEF IInv, Solitude
      <4> QED
        BY <1>2, <2>2, <4>1, <4>2, InstallGoesOn, UninstallGoesOn
    <3> QED
      BY <3>1, <3>2
  <2> QED
    BY <2>1, <2>2 DEF IInv, AloneInv
<1> QED
  BY <1>1, <1>2, NextCases, ElsewhereKept DEF IInv

\* The invariant holds in every state.
THEOREM Invariant == Spec => []IInv
<1>1. Init => IInv
  BY Initially
<1> QED
  BY <1>1, Inductive, PTL DEF Spec

(***************************************************************************)
(* How commands end.                                                       *)
(***************************************************************************)
\* The end of an install left alone.
LEMMA InstallEnds ==
  ASSUME IInv, NEW c \in Commands, Step(c), alone[c],
         cmd[c] = "install", cmd'[c] = "none"
  PROVE  /\ result'[c] = "ok" =>
              /\ \A a \in Ours : Finished(a)'
              /\ Present("helper")' /\ loaded' /\ record' # "disabled"
         /\ ~faulted'[c] => result'[c] = "ok"
<1> USE DEF IInv, TypeOK, InstallLeft, Present, Gives
<1>0. /\ InstallLeft(c) /\ Doomed(c)
      /\ step[c] \in 1..24
      /\ Running(c) /\ ~errs[c]
      /\ Calls(c) = 24
      /\ Program(c) = InstallSteps
  BY DEF AloneInv, Left, Running, Positions, Calls, Program
<1>a. Failed(c) => result'[c] = "failed"
  BY DEF Failed, End
<1>b. ASSUME NEW k \in {1, 2, 4}, Advance(c, k, FALSE)
      PROVE  step[c] + k > 24 /\ result'[c] = "ok"
  <2>1. ~Moved(c, k, FALSE)
    BY <1>0 DEF Moved, Running
  <2>2. step[c] + k > 24 /\ Ended(c, "ok")
    BY <1>0, <1>b, <2>1, Advancing
  <2> QED
    BY <2>2 DEF Ended
<1>c. ASSUME NEW k \in {1, 2, 4}, Goes(c, k)
      PROVE  step[c] + k > 24 /\ result'[c] = "ok"
  BY <1>b, <1>c DEF Goes
<1>d. Goes(c, 1) => step[c] = 24
  BY <1>0, <1>c
<1>e. Goes(c, 2) => step[c] >= 23
  BY <1>0, <1>c
<1>f. Goes(c, 4) => step[c] >= 21
  BY <1>0, <1>c
<1>g. Done(c) => step[c] = 24 /\ result'[c] = "ok"
  BY <1>c, <1>d DEF Done, Goes
<1>h. Fault(c) => faulted'[c]
  BY DEF Fault
<1>1. ~HelperExists(c)
  <2>1. HelperExists(c) => Goes(c, 4) \/ Goes(c, 1)
    <3>1. CASE Present("helper")
      BY <3>1 DEF HelperExists, Goes
    <3>2. CASE ~Present("helper")
      BY <3>2 DEF HelperExists, Goes
    <3> QED
      BY <3>1, <3>2
  <2>2. HelperExists(c) => step[c] = 3
    BY <1>0, InstallAt DEF HelperExists, At, Call
  <2> QED
    BY <1>d, <1>f, <2>1, <2>2
<1>2. ~MakeDir(c)
  BY <1>0, <1>g, InstallAt DEF MakeDir, At, Call
<1>3. CASE WriteFile(c)
  <2>1. \/ step[c] = 9 /\ Call(c)[2] = "bin"
        \/ step[c] = 19 /\ Call(c)[2] = "plist"
    BY <1>0, <1>3, InstallAt, InstallCalls DEF WriteFile, At, Call
  <2>2. HasParent(Call(c)[2])
    BY <1>0, <2>1 DEF HasParent
  <2> QED
    BY <1>3, <1>a, <1>g, <1>h, <2>1, <2>2 DEF WriteFile
<1>4. ~Give(c)
  <2>1. SUFFICES ASSUME Give(c) PROVE FALSE
    OBVIOUS
  <2>2. \/ step[c] \in {5, 6} /\ Call(c)[2] = "helper"
        \/ step[c] \in {10, 11, 12} /\ Call(c)[2] = "bin"
        \/ step[c] \in {14, 15} /\ Call(c)[2] = "config"
        \/ step[c] \in {17, 18} /\ Call(c)[2] = "state"
        \/ step[c] \in {20, 21} /\ Call(c)[2] = "plist"
    BY <1>0, <2>1, InstallAt, InstallCalls DEF Give, At, Call
  <2>3. Present(Call(c)[2])
    BY <1>0, <2>2
  <2> QED
    BY <1>g, <2>1, <2>2, <2>3 DEF Give
<1>5. ~Remove(c)
  <2>1. SUFFICES ASSUME Remove(c) PROVE FALSE
    OBVIOUS
  <2>2. step[c] = 8 /\ Call(c)[2] = "bin" /\ Present("bin")
    BY <1>0, <2>1, InstallAt, InstallCalls DEF Remove, At, Call, Doomed
  <2> QED
    BY <1>g, <2>1, <2>2 DEF Remove
<1>15. ~IsPresent(c)
  <2>1. IsPresent(c) => Goes(c, 1) \/ Goes(c, 2)
    <3>1. CASE Present(Call(c)[2])
      BY <3>1 DEF IsPresent, Goes
    <3>2. CASE ~Present(Call(c)[2])
      BY <3>2 DEF IsPresent, Goes
    <3> QED
      BY <3>1, <3>2
  <2>2. IsPresent(c) => step[c] = 7
    BY <1>0, InstallAt DEF IsPresent, At, Call
  <2> QED
    BY <1>d, <1>e, <2>1, <2>2
<1>6. ~IsEmpty(c) /\ ~Reclaim(c) /\ ~Tccutil(c)
  BY <1>0, InstallAt DEF IsEmpty, Reclaim, Tccutil, At, Call
<1>8. ~IsLoaded(c)
  <2>1. IsLoaded(c) => Goes(c, 1) \/ Goes(c, 2)
    <3>1. CASE loaded
      BY <3>1 DEF IsLoaded, Goes
    <3>2. CASE ~loaded
      BY <3>2 DEF IsLoaded, Goes
    <3> QED
      BY <3>1, <3>2
  <2>2. IsLoaded(c) => step[c] = 1
    BY <1>0, InstallAt DEF IsLoaded, At, Call
  <2> QED
    BY <1>d, <1>e, <2>1, <2>2
<1>9. ~Bootout(c)
  BY <1>0, <1>g, InstallAt DEF Bootout, At, Call
<1>10. CASE IsDisabled(c)
  <2>1. step[c] = 22
    BY <1>0, <1>10, InstallAt DEF IsDisabled, At, Call
  <2>2. ~Goes(c, 1) /\ ~Goes(c, 2)
    BY <1>d, <1>e, <2>1
  <2>3. Failed(c) /\ Fault(c)
    <3>1. CASE record = "disabled"
      BY <1>10, <2>2, <3>1 DEF IsDisabled, Goes
    <3>2. CASE record # "disabled"
      BY <1>10, <2>2, <3>2 DEF IsDisabled, Goes
    <3> QED
      BY <3>1, <3>2
  <2> QED
    BY <1>a, <1>h, <2>3
<1>11. ~Enable(c)
  BY <1>0, <1>g, InstallAt DEF Enable, At, Call
<1>12. CASE Bootstrap(c)
  <2>1. step[c] = 24
    BY <1>0, <1>12, InstallAt DEF Bootstrap, At, Call
  <2>2. CanBootstrap
    BY <1>0, <2>1 DEF CanBootstrap
  <2>3. /\ loaded' /\ Done(c)
        /\ UNCHANGED <<art, record>>
    BY <1>12, <2>2 DEF Bootstrap
  <2>4. \A a \in Ours : Finished(a)
    <3>1. Finished("bin")
      BY <1>0, <2>1 DEF Finished, Marks, Artifacts, Ours
    <3>2. Finished("plist")
      BY <1>0, <2>1 DEF Finished, Marks, Artifacts, Ours, Layout
    <3>3. Finished("config") /\ Finished("state")
      BY <1>0, <2>1 DEF Finished, Marks, Artifacts, Ours, Layout
    <3> QED
      BY <3>1, <3>2, <3>3 DEF Ours
  <2>5. \A a \in Ours : Finished(a)'
    BY <2>3, <2>4 DEF Finished
  <2> QED
    BY <1>0, <1>g, <2>1, <2>2, <2>3, <2>5 DEF CanBootstrap
<1>14. CASE CallFails(c)
  BY <1>14, <1>a, <1>h DEF CallFails
<1> QED
  BY <1>1, <1>2, <1>3, <1>4, <1>5, <1>6, <1>8, <1>9, <1>10, <1>11, <1>12, <1>14, <1>15
     DEF Step

\* The end of an uninstall left alone.
LEMMA UninstallEnds ==
  ASSUME IInv, NEW c \in Commands, Step(c), alone[c],
         cmd[c] = "uninstall", cmd'[c] = "none"
  PROVE  /\ result'[c] = "ok" => IsClean'
         /\ ~faulted'[c] => result'[c] = "ok"
<1> USE DEF IInv, TypeOK, UninstallLeft, Present
<1>0. /\ Left(c)
      /\ step[c] \in 1..14
      /\ Running(c)
      /\ Calls(c) = 14
      /\ Program(c) = UninstallSteps
  BY DEF AloneInv, Left, Running, Positions, Calls, Program
<1>a. ASSUME NEW k \in {1, 2, 4}, NEW bad \in BOOLEAN, Advance(c, k, bad)
      PROVE  step[c] + k > 14 /\ Ended(c, IF errs[c] \/ bad THEN "failed" ELSE "ok")
  <2>1. ~Moved(c, k, bad)
    BY <1>0 DEF Moved, Running
  <2> QED
    BY <1>0, <1>a, <2>1, Advancing
<1>1. ASSUME NEW k \in {1, 2, 4}, NEW bad \in BOOLEAN, Advance(c, k, bad)
      PROVE  step[c] + k > 14
  BY <1>1, <1>a
<1>2. step[c] = 14
  <2>0. ASSUME NEW k \in {1, 2, 4}, Goes(c, k) \/ Notes(c, k)
        PROVE  step[c] + k > 14
    BY <1>1, <2>0 DEF Goes, Notes
  <2>1. Goes(c, 1) \/ Notes(c, 1) => step[c] = 14
    BY <1>0, <2>0
  <2>3. Goes(c, 2) \/ Notes(c, 2) => step[c] >= 13
    BY <1>0, <2>0
  <2>5. Done(c) => step[c] = 14
    BY <2>1 DEF Done, Goes
  <2>6. Failed(c) => step[c] = 14
    BY <2>1 DEF Failed, Notes
  <2>7. ~HelperExists(c) /\ ~MakeDir(c) /\ ~WriteFile(c) /\ ~Give(c) /\ ~IsLoaded(c) /\ ~Bootstrap(c)
    BY <1>0, UninstallAt DEF HelperExists, MakeDir, WriteFile, Give, IsLoaded, Bootstrap, At, Call
  <2>8. ~IsEmpty(c)
    <3>1. IsEmpty(c) => step[c] = 12
      BY <1>0, UninstallAt DEF IsEmpty, At, Call
    <3>2. IsEmpty(c) => Goes(c, 1) \/ Goes(c, 2) \/ Notes(c, 2)
      <4>1. CASE HelperEmpty
        BY <4>1 DEF IsEmpty, Goes, Notes
      <4>2. CASE ~HelperEmpty
        BY <4>2 DEF IsEmpty, Goes, Notes
      <4> QED
        BY <4>1, <4>2
    <3> QED
      BY <2>1, <2>3, <3>1, <3>2
  <2>10. ~IsPresent(c)
    <3>1. IsPresent(c) => step[c] \in {4, 6, 8, 10}
      BY <1>0, UninstallAt DEF IsPresent, At, Call
    <3>2. IsPresent(c) => Goes(c, 1) \/ Goes(c, 2)
      <4>1. CASE Present(Call(c)[2])
        BY <4>1 DEF IsPresent, Goes
      <4>2. CASE ~Present(Call(c)[2])
        BY <4>2 DEF IsPresent, Goes
      <4> QED
        BY <4>1, <4>2
    <3> QED
      BY <2>1, <2>3, <3>1, <3>2
  <2>9. ~IsDisabled(c)
    <3>1. IsDisabled(c) => step[c] = 1
      BY <1>0, UninstallAt DEF IsDisabled, At, Call
    <3>2. IsDisabled(c) => Goes(c, 1) \/ Goes(c, 2) \/ Failed(c)
      <4>1. CASE record = "disabled"
        BY <4>1 DEF IsDisabled, Goes
      <4>2. CASE record # "disabled"
        BY <4>2 DEF IsDisabled, Goes
      <4> QED
        BY <4>1, <4>2
    <3> QED
      BY <2>1, <2>3, <2>6, <3>1, <3>2
  <2> QED
    BY <2>5, <2>6, <2>7, <2>8, <2>9, <2>10
       DEF Step, Remove, Reclaim, Bootout, Enable, Tccutil, CallFails
<1>3. CASE Tccutil(c)
  <2>1. result'[c] = IF errs[c] THEN "failed" ELSE "ok"
    <3>1. Advance(c, 1, FALSE)
      BY <1>3 DEF Tccutil, Done
    <3>2. Ended(c, IF errs[c] \/ FALSE THEN "failed" ELSE "ok")
      BY <1>a, <3>1
    <3> QED
      BY <3>2 DEF Ended
  <2>2. UNCHANGED <<art, others, loaded, record, faulted>>
    BY <1>3 DEF Tccutil, launchd, Quiet
  <2>3. ~errs[c] => Residue = {} /\ ~loaded /\ record # "disabled"
    BY <1>0, <1>2 DEF Left, Residue, Ours
  <2>4. ~errs[c] => IsClean'
    BY <2>2, <2>3 DEF IsClean, Residue, HelperEmpty
  <2> QED
    BY <1>0, <2>1, <2>2, <2>4 DEF Left
<1>4. CASE CallFails(c)
  <2>1. Advance(c, 1, TRUE) /\ faulted'[c]
    BY <1>4 DEF CallFails, Failed, Fault
  <2>2. Ended(c, IF errs[c] \/ TRUE THEN "failed" ELSE "ok")
    BY <1>a, <2>1
  <2> QED
    BY <2>1, <2>2 DEF Ended
<1> QED
  BY <1>0, <1>2, <1>3, <1>4, UninstallAt
     DEF Step, HelperExists, MakeDir, WriteFile, Give, IsPresent, Remove, IsEmpty, Reclaim,
         IsLoaded, Bootout, IsDisabled, Enable, Bootstrap, At, Call

\* A kill and a reboot end a command as killed; nothing else ends it but its calls.
LEMMA OwnEnd ==
  ASSUME IInv, Next, NEW c \in Commands, cmd[c] # "none", cmd'[c] = "none",
         result'[c] # "killed"
  PROVE  Step(c)
<1> USE DEF IInv, TypeOK
<1>1. ASSUME NEW d \in Commands, Step(d)
      PROVE  c = d
  BY <1>1, StepCommands
<1>2. ~Elsewhere
  <2>1. \A d \in Commands, which \in scene.kinds : ~Begin(d, which)
    BY DEF Begin, Running
  <2>2. \A d \in Commands : ~Kill(d)
    BY DEF Kill, End
  <2>3. ~Reboot /\ ~Disable /\ ~VendorMakesDir /\ ~VendorAdds /\ ~VendorRemoves
    BY DEF Reboot, Disable, VendorMakesDir, VendorAdds, VendorRemoves, Running
  <2> QED
    BY <2>1, <2>2, <2>3 DEF Elsewhere
<1> QED
  BY <1>1, <1>2, NextCases

\* An install that reports success and was left alone has finished every artifact,
\* and the job is loaded and not disabled.
THEOREM InstallServes == Spec => InstalledMeansServing
<1>1. IInv /\ [Next]_vars =>
        [\A c \in Commands :
           Reports(c, "install", "ok") /\ alone[c] =>
             /\ \A a \in Ours : Finished(a)'
             /\ Present("helper")'
             /\ loaded' /\ record' # "disabled"]_vars
  <2>1. ASSUME IInv, Next, NEW c \in Commands, Reports(c, "install", "ok"), alone[c]
        PROVE  /\ \A a \in Ours : Finished(a)'
               /\ Present("helper")'
               /\ loaded' /\ record' # "disabled"
    <3>1. cmd[c] = "install" /\ cmd'[c] = "none" /\ result'[c] = "ok"
      BY <2>1 DEF Reports
    <3>2. Step(c)
      BY <2>1, <3>1, OwnEnd
    <3> QED
      BY <2>1, <3>1, <3>2, InstallEnds
  <2> QED
    BY <2>1
<1> QED
  BY <1>1, Invariant, PTL DEF Spec, InstalledMeansServing

\* An uninstall that reports success and was left alone leaves nothing for the
\* residue check to report.
THEOREM UninstallCleans == Spec => UninstalledMeansClean
<1>1. IInv /\ [Next]_vars =>
        [\A c \in Commands :
           Reports(c, "uninstall", "ok") /\ alone[c] => IsClean']_vars
  <2>1. ASSUME IInv, Next, NEW c \in Commands, Reports(c, "uninstall", "ok"), alone[c]
        PROVE  IsClean'
    <3>1. cmd[c] = "uninstall" /\ cmd'[c] = "none" /\ result'[c] = "ok"
      BY <2>1 DEF Reports
    <3>2. Step(c)
      BY <2>1, <3>1, OwnEnd
    <3> QED
      BY <2>1, <3>1, <3>2, UninstallEnds
  <2> QED
    BY <2>1
<1> QED
  BY <1>1, Invariant, PTL DEF Spec, UninstalledMeansClean

\* A command left alone, none of whose calls failed of itself, never fails.
THEOREM NoOwnFailure == Spec => NeverFailsByItself
<1>1. IInv /\ [Next]_vars =>
        [\A c \in Commands, which \in {"install", "uninstall"} :
           alone[c] /\ ~faulted'[c] => ~Reports(c, which, "failed")]_vars
  <2>1. ASSUME IInv, Next, NEW c \in Commands, NEW which \in {"install", "uninstall"},
               alone[c], ~faulted'[c], Reports(c, which, "failed")
        PROVE  FALSE
    <3>1. cmd[c] = which /\ cmd'[c] = "none" /\ result'[c] = "failed"
      BY <2>1 DEF Reports
    <3>2. Step(c)
      BY <2>1, <3>1, OwnEnd
    <3> QED
      BY <2>1, <3>1, <3>2, InstallEnds, UninstallEnds
  <2> QED
    BY <2>1
<1> QED
  BY <1>1, Invariant, PTL DEF Spec, NeverFailsByItself

\* A call that succeeds ends the program or moves along it.
LEMMA Going ==
  ASSUME NEW c \in Commands, NEW k \in {1, 2, 4}, Goes(c, k)
  PROVE  \/ /\ step[c] + k > Calls(c)
            /\ \E how \in {"ok", "failed"} : Ended(c, how)
         \/ /\ ~(step[c] + k > Calls(c))
            /\ cmd' = cmd /\ result' = result
            /\ step' = [step EXCEPT ![c] = @ + k]
<1>1. Advance(c, k, FALSE)
  BY DEF Goes
<1>2. \/ step[c] + k > Calls(c) /\ Ended(c, IF errs[c] \/ FALSE THEN "failed" ELSE "ok")
      \/ ~(step[c] + k > Calls(c)) /\ Moved(c, k, FALSE)
  BY <1>1, Advancing, Zenon
<1>3. Ended(c, IF errs[c] \/ FALSE THEN "failed" ELSE "ok")
        => \E how \in {"ok", "failed"} : Ended(c, how)
  BY Zenon
<1>4. Moved(c, k, FALSE) =>
        cmd' = cmd /\ result' = result /\ step' = [step EXCEPT ![c] = @ + k]
  BY Zenon DEF Moved
<1> QED
  BY <1>2, <1>3, <1>4, Zenon

(***************************************************************************)
(* Installs at once.                                                       *)
(***************************************************************************)
\* What a call of one of several installs does, when no call fails of itself.
CalmEffect(c) ==
  /\ \/ /\ Running(c)'
        /\ step'[c] > step[c] /\ step'[c] <= 24
        /\ step[c] <= 8 => step'[c] <= 9
        /\ step[c] \in 9..21 => step'[c] = step[c] + 1
        /\ result' = result
        /\ \A g \in Gives : step[c] = g[1] => g[3] \in art'[g[2]]
     \/ /\ ~Running(c)' /\ step[c] \in {8, 10, 11, 12}
        /\ \E e \in Commands \ {c} : Running(e) /\ step[e] = 9
     \/ ~Running(c)' /\ step[c] = 24 /\ loaded'
  /\ \A a \in Artifacts, m \in Marks :
       m \in art[a] => \/ m \in art'[a]
                       \/ a = "bin" /\ step[c] = 8 /\ step'[c] = 9 /\ Running(c)'
                       \/ a = "bin" /\ m = "signed" /\ step[c] = 9
  /\ Running(c)' /\ step'[c] = 8 => Present("bin")'
  /\ step[c] = 9 => Present("bin")'
  /\ step'[c] >= 5 => Present("helper")'
  /\ loaded /\ ~loaded' => step[c] = 2 /\ step'[c] = 3
  /\ record' # "disabled"

\* Every call of one of several installs has such an effect.
LEMMA CalmCalls ==
  ASSUME IInv, CalmInv, Calm, NEW c \in Commands, Step(c)
  PROVE  CalmEffect(c)
<1> USE DEF IInv, TypeOK, Present, Gives
<1>0. /\ cmd[c] = "install"
      /\ step[c] \in 1..24
      /\ Running(c) /\ ~errs[c]
      /\ Calls(c) = 24
      /\ Program(c) = InstallSteps
      /\ record # "disabled"
      /\ step[c] >= 5 => Present("helper")
      /\ step[c] >= 14 => "there" \in art["config"]
      /\ step[c] >= 17 => "there" \in art["state"]
      /\ step[c] >= 20 => "there" \in art["plist"] /\ "whole" \in art["plist"]
      /\ step[c] >= 9 => Touched
  BY Stepping DEF CalmInv, Running, Positions, Calls, Program, Touched
<1>a. ~Slip(c) /\ ~Fault(c)
  BY DEF Slip, Fault, Calm
<1>b. Failed(c) => ~Running(c)'
  BY <1>0 DEF Failed, End, Running
<1>c. ASSUME NEW k \in {1, 2, 4}, Goes(c, k), step[c] + k <= 24
      PROVE  Running(c)' /\ step'[c] = step[c] + k /\ result' = result
  <2>1. cmd' = cmd /\ result' = result /\ step' = [step EXCEPT ![c] = @ + k]
    BY <1>0, <1>c, Going
  <2> QED
    BY <1>0, <2>1 DEF Running
<1>d. Done(c) /\ step[c] <= 23 => Running(c)' /\ step'[c] = step[c] + 1 /\ result' = result
  <2>1. Done(c) => Goes(c, 1)
    BY DEF Done, Goes
  <2> QED
    BY <1>0, <1>c, <2>1
<1>1. CASE HelperExists(c)
  <2>1. step[c] = 3
    BY <1>0, <1>1, InstallAt DEF HelperExists, At, Call
  <2>2. UNCHANGED <<art, loaded, record>>
    BY <1>1 DEF HelperExists, launchd
  <2>3. CASE Present("helper")
    <3>1. Goes(c, 4)
      BY <1>1, <2>3 DEF HelperExists, Goes
    <3> QED
      BY <1>0, <1>c, <2>1, <2>2, <2>3, <3>1 DEF CalmEffect
  <2>4. CASE ~Present("helper")
    <3>1. Goes(c, 1)
      BY <1>1, <2>4 DEF HelperExists, Goes
    <3> QED
      BY <1>0, <1>c, <2>1, <2>2, <3>1 DEF CalmEffect
  <2> QED
    BY <2>3, <2>4
<1>2. CASE MakeDir(c)
  <2>1. \/ step[c] = 4 /\ Call(c)[2] = "helper"
        \/ step[c] = 13 /\ Call(c)[2] = "config"
        \/ step[c] = 16 /\ Call(c)[2] = "state"
    BY <1>0, <1>2, InstallAt, InstallCalls DEF MakeDir, At, Call
  <2>2. /\ art' = [art EXCEPT ![Call(c)[2]] = @ \cup {"there"}]
        /\ UNCHANGED <<loaded, record>>
        /\ Done(c)
    BY <1>2 DEF MakeDir, launchd
  <2> QED
    BY <1>0, <1>d, <2>1, <2>2 DEF CalmEffect, Artifacts, Ours
<1>3. CASE WriteFile(c)
  <2>1. \/ step[c] = 9 /\ Call(c)[2] = "bin"
        \/ step[c] = 19 /\ Call(c)[2] = "plist"
    BY <1>0, <1>3, InstallAt, InstallCalls DEF WriteFile, At, Call
  <2>2. HasParent(Call(c)[2])
    BY <1>0, <2>1 DEF HasParent
  <2>3. /\ Fill(Call(c)[2]) /\ Done(c)
        /\ UNCHANGED <<loaded, record>>
    BY <1>3, <1>a, <2>2 DEF WriteFile, launchd
  <2> QED
    BY <1>0, <1>d, <2>1, <2>3 DEF CalmEffect, Fill, Artifacts, Ours, Layout
<1>4. CASE Give(c)
  <2>1. \/ step[c] = 5 /\ Call(c)[2] = "helper" /\ Call(c)[3] = "mode"
        \/ step[c] = 6 /\ Call(c)[2] = "helper" /\ Call(c)[3] = "owner"
        \/ step[c] = 10 /\ Call(c)[2] = "bin" /\ Call(c)[3] = "mode"
        \/ step[c] = 11 /\ Call(c)[2] = "bin" /\ Call(c)[3] = "owner"
        \/ step[c] = 12 /\ Call(c)[2] = "bin" /\ Call(c)[3] = "signed"
        \/ step[c] = 14 /\ Call(c)[2] = "config" /\ Call(c)[3] = "mode"
        \/ step[c] = 15 /\ Call(c)[2] = "config" /\ Call(c)[3] = "owner"
        \/ step[c] = 17 /\ Call(c)[2] = "state" /\ Call(c)[3] = "mode"
        \/ step[c] = 18 /\ Call(c)[2] = "state" /\ Call(c)[3] = "owner"
        \/ step[c] = 20 /\ Call(c)[2] = "plist" /\ Call(c)[3] = "mode"
        \/ step[c] = 21 /\ Call(c)[2] = "plist" /\ Call(c)[3] = "owner"
    BY <1>0, <1>4, InstallAt, InstallCalls DEF Give, At, Call
  <2>2. UNCHANGED <<loaded, record>>
    BY <1>4 DEF Give, launchd
  <2>3. CASE Present(Call(c)[2])
    <3>1. /\ art' = [art EXCEPT ![Call(c)[2]] = @ \cup {Call(c)[3]}]
          /\ Done(c)
      BY <1>4, <2>3 DEF Give
    <3> QED
      BY <1>0, <1>d, <2>1, <2>2, <3>1 DEF CalmEffect, Artifacts, Ours
  <2>4. CASE ~Present(Call(c)[2])
    <3>1. step[c] \in 10..12 /\ Call(c)[2] = "bin"
      BY <1>0, <2>1, <2>4
    <3>2. Between(9, 9)
      BY <1>0, <2>4, <3>1 DEF CalmInv
    <3>3. \E e \in Commands \ {c} : Running(e) /\ step[e] = 9
      BY <3>1, <3>2 DEF Between
    <3>4. UNCHANGED art /\ Failed(c)
      BY <1>4, <2>4 DEF Give
    <3> QED
      BY <1>0, <1>b, <2>2, <3>1, <3>3, <3>4 DEF CalmEffect
  <2> QED
    BY <2>3, <2>4
<1>5. CASE Remove(c)
  <2>1. step[c] = 8 /\ Call(c)[2] = "bin"
    BY <1>0, <1>5, InstallAt, InstallCalls DEF Remove, At, Call
  <2>2. UNCHANGED <<loaded, record>>
    BY <1>5 DEF Remove, launchd
  <2>3. CASE Present("bin")
    <3>1. art' = [art EXCEPT !["bin"] = {}] /\ Done(c)
      BY <1>5, <2>1, <2>3 DEF Remove
    <3> QED
      BY <1>0, <1>d, <2>1, <2>2, <3>1 DEF CalmEffect, Artifacts, Ours
  <2>4. CASE ~Present("bin")
    <3>1. UNCHANGED art /\ Failed(c)
      BY <1>5, <2>1, <2>4 DEF Remove
    <3>2. Between(9, 9)
      BY <1>0, <2>1, <2>4 DEF CalmInv
    <3>3. \E e \in Commands \ {c} : Running(e) /\ step[e] = 9
      BY <2>1, <3>2 DEF Between
    <3> QED
      BY <1>0, <1>b, <2>1, <2>2, <3>1, <3>3, StepCommands DEF CalmEffect
  <2> QED
    BY <2>3, <2>4
<1>7. CASE IsPresent(c)
  <2>1. step[c] = 7 /\ Call(c)[2] = "bin"
    BY <1>0, <1>7, InstallAt, InstallCalls DEF IsPresent, At, Call
  <2>2. UNCHANGED <<art, loaded, record>>
    BY <1>7 DEF IsPresent, launchd
  <2>3. CASE Present("bin")
    <3>1. Goes(c, 1)
      BY <1>7, <2>1, <2>3 DEF IsPresent, Goes
    <3> QED
      BY <1>0, <1>c, <2>1, <2>2, <2>3, <3>1 DEF CalmEffect
  <2>4. CASE ~Present("bin")
    <3>1. Goes(c, 2)
      BY <1>7, <2>1, <2>4 DEF IsPresent, Goes
    <3> QED
      BY <1>0, <1>c, <2>1, <2>2, <3>1 DEF CalmEffect
  <2> QED
    BY <2>3, <2>4
<1>6. ~IsEmpty(c) /\ ~Reclaim(c) /\ ~Tccutil(c)
  BY <1>0, InstallAt DEF IsEmpty, Reclaim, Tccutil, At, Call
<1>8. CASE IsLoaded(c)
  <2>1. step[c] = 1
    BY <1>0, <1>8, InstallAt DEF IsLoaded, At, Call
  <2>2. UNCHANGED <<art, loaded, record>>
    BY <1>8 DEF IsLoaded, launchd
  <2>3. Goes(c, 1) \/ Goes(c, 2)
    <3>1. CASE loaded
      BY <1>8, <1>a, <3>1 DEF IsLoaded, Goes
    <3>2. CASE ~loaded
      BY <1>8, <3>2 DEF IsLoaded, Goes
    <3> QED
      BY <3>1, <3>2
  <2> QED
    BY <1>0, <1>c, <2>1, <2>2, <2>3 DEF CalmEffect
<1>9. CASE Bootout(c)
  <2>1. step[c] = 2
    BY <1>0, <1>9, InstallAt DEF Bootout, At, Call
  <2>2. UNCHANGED <<art, record>> /\ Done(c)
    BY <1>9 DEF Bootout
  <2> QED
    BY <1>0, <1>d, <2>1, <2>2 DEF CalmEffect
<1>10. CASE IsDisabled(c)
  <2>1. step[c] = 22
    BY <1>0, <1>10, InstallAt DEF IsDisabled, At, Call
  <2>2. UNCHANGED <<art, loaded, record>>
    BY <1>10 DEF IsDisabled, launchd
  <2>3. Goes(c, 2)
    BY <1>0, <1>10, <1>a DEF IsDisabled, Goes
  <2> QED
    BY <1>0, <1>c, <2>1, <2>2, <2>3 DEF CalmEffect
<1>11. CASE Enable(c)
  <2>1. step[c] = 23
    BY <1>0, <1>11, InstallAt DEF Enable, At, Call
  <2>2. UNCHANGED <<art, loaded>> /\ record' = "enabled" /\ Done(c)
    BY <1>11, <1>a DEF Enable
  <2> QED
    BY <1>0, <1>d, <2>1, <2>2 DEF CalmEffect
<1>12. CASE Bootstrap(c)
  <2>1. step[c] = 24
    BY <1>0, <1>12, InstallAt DEF Bootstrap, At, Call
  <2>2. UNCHANGED <<art, record>>
    BY <1>12 DEF Bootstrap
  <2>3. CASE CanBootstrap
    <3>1. loaded' /\ Done(c)
      BY <1>12, <2>3 DEF Bootstrap
    <3>2. \E how \in {"ok", "failed"} : Ended(c, how)
      <4>1. Goes(c, 1)
        BY <3>1 DEF Done, Goes
      <4>2. ~(step[c] + 1 <= 24)
        BY <2>1
      <4> QED
        BY <1>0, <4>1, <4>2, Going
    <3> QED
      BY <1>0, <2>1, <2>2, <3>1, <3>2 DEF CalmEffect, Ended, Running
  <2>4. CASE ~CanBootstrap
    <3>1. loaded
      BY <1>0, <2>1, <2>4 DEF CanBootstrap
    <3>2. loaded' = loaded /\ Failed(c)
      BY <1>12, <2>4 DEF Bootstrap
    <3> QED
      BY <1>0, <1>b, <2>1, <2>2, <3>1, <3>2 DEF CalmEffect
  <2> QED
    BY <2>3, <2>4
<1>14. ~CallFails(c)
  BY <1>a DEF CallFails
<1> QED
  BY <1>1, <1>2, <1>3, <1>4, <1>5, <1>6, <1>7, <1>8, <1>9, <1>10, <1>11, <1>12,
     <1>14 DEF Step

\* Several installs keep CalmInv: whoever replaces the binary goes on to give
\* every mark that is missing, and whoever fails for want of the binary leaves
\* one behind that is about to write it.
LEMMA CalmKept == IInv /\ CalmInv /\ [Next]_vars => CalmInv'
<1> SUFFICES ASSUME IInv, CalmInv, [Next]_vars, Calm' PROVE CalmInv'
  BY DEF CalmInv
<1>0. Calm /\ scene' = scene
  BY DEF Next, vars, Calm
<1>1. CASE UNCHANGED vars
  BY <1>1, <1>0 DEF vars, CalmInv, Touched, Between, Present, Running
<1>2. ASSUME NEW c \in Commands, Step(c)
      PROVE  CalmInv'
  <2> USE DEF IInv, TypeOK
  <2>1. CalmEffect(c)
    BY <1>0, <1>2, CalmCalls
  <2>2. /\ CommandsTyped' /\ Positions'
        /\ Running(c) /\ step[c] \in 1..24
        /\ \A d \in Commands : cmd[d] # "uninstall" /\ cmd'[d] # "uninstall"
        /\ \A d \in Commands \ {c} :
             cmd'[d] = cmd[d] /\ step'[d] = step[d] /\ result'[d] = result[d]
        /\ \A d \in Commands : step[d] \in 1..24 /\ step'[d] \in 1..24
    <3>1. CommandsTyped' /\ Positions'
      BY <1>2, StepCommands
    <3> QED
      BY <1>0, <1>2, <3>1, StepCommands, Stepping DEF CalmInv, CommandsTyped
  <2>3. SystemTyped'
    BY <1>2, StepSystem
  <2>4. \A a \in Artifacts, m \in Marks :
          a # "bin" /\ m \in art[a] => m \in art'[a]
    BY <2>1 DEF CalmEffect
  <2>5. Present("helper") => Present("helper")'
    BY <2>4 DEF Present, Artifacts
  <2>a. \/ Running(c)' /\ step'[c] > step[c] /\ step'[c] <= 24
        \/ ~Running(c)' /\ step'[c] = 1
    BY <2>1, <2>2 DEF CalmEffect, Positions, Running
  <2>6. ASSUME NEW d \in Commands, step'[d] >= 5
        PROVE  Present("helper")'
    <3>1. CASE d = c
      BY <2>1, <2>6, <3>1 DEF CalmEffect
    <3>2. CASE d # c
      BY <1>0, <2>2, <2>5, <2>6, <3>2 DEF CalmInv
    <3> QED
      BY <3>1, <3>2
  <2>7. ASSUME NEW d \in Commands, NEW g \in Gives, g[2] # "bin", step'[d] > g[1]
        PROVE  g[3] \in art'[g[2]]
    <3>1. g[1] \in 9..21 /\ g[2] \in Artifacts /\ g[3] \in Marks
      BY DEF Gives, Artifacts, Ours, Marks
    <3>2. CASE step[d] > g[1]
      BY <1>0, <2>4, <2>7, <3>1, <3>2 DEF CalmInv
    <3>3. CASE ~(step[d] > g[1])
      <4>1. d = c /\ Running(c)'
        BY <2>2, <2>7, <2>a, <3>1, <3>3
      <4>2. step[c] = g[1]
        BY <2>1, <2>2, <2>7, <3>1, <3>3, <4>1 DEF CalmEffect
      <4> QED
        BY <2>1, <4>1, <4>2 DEF CalmEffect
    <3> QED
      BY <3>2, <3>3
  <2>8. Touched' => Touched \/ (Running(c)' /\ step'[c] = 9)
    <3>1. ASSUME NEW d \in Commands \ {c}, result'[d] # "none" \/ (Running(d)' /\ step'[d] >= 9)
          PROVE  Touched
      BY <2>2, <3>1 DEF Touched, Running
    <3>2. ASSUME Running(c)', step'[c] >= 9 \/ result'[c] # "none"
          PROVE  Touched \/ (Running(c)' /\ step'[c] = 9)
      BY <2>1, <2>2, <3>2 DEF Touched, CalmEffect
    <3>3. ~Running(c)' => Touched
      BY <2>1, <2>2 DEF Touched, CalmEffect
    <3> QED
      BY <3>1, <3>2, <3>3 DEF Touched
  <2>9. ASSUME Touched', NEW g \in Gives
        PROVE  g[3] \in art'[g[2]] \/ Between(9, g[1])'
    <3>1. g[1] \in 9..21 /\ g[2] \in Artifacts /\ g[3] \in Marks
      BY DEF Gives, Artifacts, Ours, Marks
    <3>2. CASE Running(c)' /\ step'[c] = 9
      BY <3>1, <3>2 DEF Between
    <3>3. CASE ~(Running(c)' /\ step'[c] = 9)
      <4>1. Touched
        BY <2>8, <2>9, <3>3
      <4>2. ~(step[c] = 8 /\ step'[c] = 9 /\ Running(c)')
        BY <3>3
      <4>3. CASE g[3] \in art[g[2]]
        <5>1. CASE g[3] \in art'[g[2]]
          BY <5>1
        <5>2. CASE g[3] \notin art'[g[2]]
          <6>1. step[c] = 9 /\ g[3] = "signed" /\ g[2] = "bin"
            BY <2>1, <3>1, <4>2, <4>3, <5>2 DEF CalmEffect
          <6>2. g[1] = 12
            BY <6>1 DEF Gives
          <6>3. Running(c)' /\ step'[c] = 10
            BY <2>1, <6>1 DEF CalmEffect
          <6> QED
            BY <6>2, <6>3 DEF Between
        <5> QED
          BY <5>1, <5>2
      <4>4. ASSUME NEW e \in Commands, Running(e), step[e] \in 9..g[1]
            PROVE  g[3] \in art'[g[2]] \/ Between(9, g[1])'
        <5>1. CASE e # c
          BY <2>2, <4>4, <5>1 DEF Between, Running
        <5>2. CASE e = c /\ Running(c)' /\ step[c] < g[1]
          <6>1. step'[c] \in 9..g[1]
            BY <2>1, <2>2, <3>1, <4>4, <5>2 DEF CalmEffect
          <6> QED
            BY <5>2, <6>1 DEF Between
        <5>3. CASE e = c /\ Running(c)' /\ step[c] = g[1]
          BY <2>1, <5>3 DEF CalmEffect
        <5>4. CASE e = c /\ ~Running(c)'
          <6>1. PICK f \in Commands \ {c} : Running(f) /\ step[f] = 9
            BY <2>1, <3>1, <4>4, <5>4 DEF CalmEffect
          <6> QED
            BY <2>2, <3>1, <6>1 DEF Between, Running
        <5> QED
          BY <2>2, <3>1, <4>4, <5>1, <5>2, <5>3, <5>4
      <4> QED
        BY <1>0, <4>1, <4>3, <4>4 DEF CalmInv, Between
    <3> QED
      BY <3>2, <3>3
  <2>10. Touched' => loaded' \/ Between(3, 24)'
    <3>1. CASE Running(c)' /\ step'[c] >= 3
      BY <2>2, <2>a, <3>1 DEF Between
    <3>2. CASE ~Running(c)'
      <4>1. CASE loaded'
        BY <4>1
      <4>2. CASE \E e \in Commands \ {c} : Running(e) /\ step[e] = 9
        BY <2>2, <4>2 DEF Between, Running
      <4> QED
        BY <2>1, <3>2, <4>1, <4>2 DEF CalmEffect
    <3>3. CASE Running(c)' /\ step'[c] < 3
      <4>1. SUFFICES ASSUME Touched' PROVE loaded' \/ Between(3, 24)'
        OBVIOUS
      <4>2. Touched
        BY <2>8, <3>3, <4>1
      <4>3. step[c] = 1
        BY <2>2, <2>a, <3>3
      <4>4. loaded => loaded'
        BY <2>1, <4>3 DEF CalmEffect
      <4>5. ASSUME NEW e \in Commands, Running(e), step[e] \in 3..24
            PROVE  Between(3, 24)'
        BY <2>2, <4>3, <4>5 DEF Between, Running
      <4> QED
        BY <1>0, <4>2, <4>4, <4>5 DEF CalmInv, Between
    <3> QED
      BY <2>2, <2>a, <3>1, <3>2, <3>3 DEF CommandsTyped
  <2>11. ASSUME NEW d \in Commands, Running(d)', step'[d] = 8
         PROVE  Present("bin")' \/ Between(9, 9)'
    <3>1. CASE d = c
      BY <2>1, <2>11, <3>1 DEF CalmEffect
    <3>2. CASE step[c] = 9
      BY <2>1, <3>2 DEF CalmEffect
    <3>3. CASE Running(c)' /\ step'[c] = 9
      BY <3>3 DEF Between
    <3>4. CASE d # c /\ step[c] # 9 /\ ~(Running(c)' /\ step'[c] = 9)
      <4>1. Present("bin") \/ Between(9, 9)
        BY <1>0, <2>2, <2>11, <3>4 DEF CalmInv, Running
      <4>2. Present("bin") => Present("bin")'
        <5>1. \A m \in art["bin"] : m \in art'["bin"]
          BY <2>1, <3>4 DEF CalmEffect, SystemTyped, Artifacts, Ours
        <5> QED
          BY <5>1 DEF Present
      <4>3. ASSUME NEW e \in Commands, Running(e), step[e] = 9
            PROVE  Between(9, 9)'
        BY <2>2, <3>4, <4>3 DEF Between, Running
      <4> QED
        BY <4>1, <4>2, <4>3 DEF Between
    <3> QED
      BY <3>1, <3>2, <3>3, <3>4
  <2> QED
    BY <1>0, <2>1, <2>2, <2>6, <2>7, <2>9, <2>10, <2>11 DEF CalmInv, CalmEffect
<1>3. CASE Elsewhere
  <2> USE DEF IInv, TypeOK
  <2>1. "kill" \notin scene.faults /\ "disable" \notin scene.faults
        /\ scene.kinds = {"install"}
    BY <1>0 DEF Calm
  <2>2. ASSUME NEW c \in Commands, Begin(c, "install")
        PROVE  CalmInv'
    <3>1. /\ cmd' = [cmd EXCEPT ![c] = "install"]
          /\ cmd[c] = "none" /\ step[c] = 1
          /\ result' = [result EXCEPT ![c] = "none"]
          /\ UNCHANGED <<art, loaded, record, step>>
      BY <2>2 DEF Begin, launchd, Running, Positions
    <3>2. Touched' => Touched
      BY <3>1 DEF Touched, Running
    <3>3. ASSUME NEW i \in Nat, Between(i, 24) \/ TRUE
          PROVE  \A j \in Nat : Between(i, j) => Between(i, j)'
      BY <3>1 DEF Between, Running
    <3>4. ASSUME NEW d \in Commands, Running(d)', step'[d] = 8
          PROVE  Present("bin")' \/ Between(9, 9)'
      <4>1. Running(d) /\ step[d] = 8
        BY <3>1, <3>4 DEF Running
      <4>2. Present("bin") \/ Between(9, 9)
        BY <1>0, <4>1 DEF CalmInv
      <4>3. Present("bin")' = Present("bin")
        BY <3>1 DEF Present
      <4> QED
        BY <3>3, <4>2, <4>3
    <3>5. /\ record' # "disabled"
          /\ \A d \in Commands :
               /\ cmd'[d] # "uninstall"
               /\ step'[d] >= 5 => Present("helper")'
               /\ \A g \in Gives : g[2] # "bin" /\ step'[d] > g[1] => g[3] \in art'[g[2]]
      BY <1>0, <3>1 DEF CalmInv, Present
    <3>6. Touched' => /\ \A g \in Gives : g[3] \in art'[g[2]] \/ Between(9, g[1])'
                      /\ loaded' \/ Between(3, 24)'
      BY <1>0, <3>1, <3>2, <3>3 DEF CalmInv, Gives
    <3> QED
      BY <3>4, <3>5, <3>6 DEF CalmInv
  <2>3. CASE VendorMakesDir \/ VendorAdds \/ VendorRemoves
    <3>1. UNCHANGED <<loaded, record, cmd, step, result>>
      BY <2>3 DEF VendorMakesDir, VendorAdds, VendorRemoves, launchd
    <3>2. \A a \in Ours : art'[a] = art[a]
      BY <2>3 DEF VendorMakesDir, VendorAdds, VendorRemoves, Artifacts, Ours
    <3>3. Present("helper") => Present("helper")'
      BY <2>3 DEF VendorMakesDir, VendorAdds, VendorRemoves, Present
    <3>4. \A g \in Gives : g[2] \in Ours
      BY DEF Gives, Ours
    <3>5. (Touched' <=> Touched) /\ \A i, j \in Nat : Between(i, j)' <=> Between(i, j)
      BY <3>1 DEF Touched, Between, Running
    <3>6. \A g \in Gives : g[1] \in Nat
      BY DEF Gives
    <3>7. /\ Present("bin")' = Present("bin")
          /\ Between(9, 9)' = Between(9, 9)
          /\ \A c \in Commands : Running(c)' = Running(c)
      BY <3>1, <3>2 DEF Present, Between, Running, Ours
    <3>8. /\ record' # "disabled"
          /\ \A c \in Commands :
               /\ cmd'[c] # "uninstall"
               /\ step'[c] >= 5 => Present("helper")'
               /\ \A g \in Gives : g[2] # "bin" /\ step'[c] > g[1] => g[3] \in art'[g[2]]
               /\ Running(c)' /\ step'[c] = 8 => Present("bin")' \/ Between(9, 9)'
      BY <1>0, <3>1, <3>2, <3>3, <3>4, <3>7 DEF CalmInv
    <3>9. Touched' => /\ \A g \in Gives : g[3] \in art'[g[2]] \/ Between(9, g[1])'
                      /\ loaded' \/ Between(3, 24)'
      BY <1>0, <3>1, <3>2, <3>4, <3>5, <3>6 DEF CalmInv
    <3> QED
      BY <3>8, <3>9 DEF CalmInv
  <2>4. ~Reboot /\ ~Disable /\ \A c \in Commands : ~Kill(c)
    BY <2>1 DEF Reboot, Disable, Kill
  <2> QED
    BY <1>3, <2>1, <2>2, <2>3, <2>4 DEF Elsewhere
<1> QED
  BY <1>1, <1>2, <1>3, NextCases DEF IInv

\* When every one of several installs has ended, the machine is as one leaves it.
THEOREM Converge == Spec => []InstallsConverge
<1>1. IInv /\ CalmInv => InstallsConverge
  <2>1. SUFFICES ASSUME IInv, CalmInv, Calm,
                        \A c \in Commands : ~Running(c),
                        \E c \in Commands : result[c] # "none"
                 PROVE  loaded /\ \A a \in Ours : Finished(a)
    BY DEF InstallsConverge, Calm
  <2>2. Touched /\ \A i, j \in Nat : ~Between(i, j)
    BY <2>1 DEF Touched, Between
  <2>3. loaded /\ \A g \in Gives : g[3] \in art[g[2]]
    BY <2>1, <2>2 DEF CalmInv, Gives
  <2>4. Finished("bin") /\ Finished("plist")
    BY <2>1, <2>3 DEF Finished, Gives, Marks, Artifacts, Ours, IInv, TypeOK, Layout
  <2>5. Finished("config") /\ Finished("state")
    BY <2>1, <2>3 DEF Finished, Gives, Marks, Artifacts, Ours, IInv, TypeOK, Layout
  <2> QED
    BY <2>3, <2>4, <2>5 DEF Ours
<1>2. Init => IInv /\ CalmInv
  BY Initially
<1> QED
  BY <1>1, <1>2, Inductive, CalmKept, PTL DEF Spec
=============================================================================
