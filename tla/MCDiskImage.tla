---------------------------- MODULE MCDiskImage ----------------------------
(* Small instances of DiskImage for TLC. *)
EXTENDS DiskImage, TLC

CONSTANTS p1, p2, i1, i2, i3

(* two runs on two images, *)
OwnImages == (p1 :> i1) @@ (p2 :> i2)
OneImage  == (p1 :> i1)

OwnPids == (p1 :> 1) @@ (p2 :> 2)
(* the system gives the pid of a dead navctl to a new one *)
ReusedPid == (p1 :> 1) @@ (p2 :> 1)
OnePid == (p1 :> 1)

(* Devices are alike, and so are the two runs of OwnImages with their images: pids
   are only ever compared with each other. *)
Swapped == (p1 :> p2) @@ (p2 :> p1) @@ (i1 :> i2) @@ (i2 :> i1)
RunSymmetry == Permutations(Devices) \cup {Swapped}

=============================================================================
