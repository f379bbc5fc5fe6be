----------------------------- MODULE BuildPair -----------------------------
(***************************************************************************)
(* build_pair (build.rs): the two navctl binaries a compare run scans      *)
(* with, built one after the other in one cargo target directory, the      *)
(* base's from a git worktree that is removed again.                       *)
(*                                                                         *)
(* A build is a record, and BuildSteps the records one step may lead to:   *)
(*   pc         new, copyNew, stale, add, base, copyBase, remove, built or *)
(*              error; "remove" is the drop of the worktree                *)
(*   head       commit of the working tree, base the base's name           *)
(*   commits    what the repository holds                                  *)
(*   dir        the worktree's directory in this run's output directory,   *)
(*              and root the directories where a stale one is looked for   *)
(*   worktrees  directories of the worktrees that exist                    *)
(*   bin        whose build stands at target/release/navctl                *)
(*   navctlNew, navctlBase  whose builds the copies are                    *)
(*   fate       how the run ends once the worktree is gone                 *)
(*   strange    whether the outside world failed the build                 *)
(***************************************************************************)
EXTENDS Naturals, FiniteSets

NoBuild == "none"

NewBuild(head, base, commits, dir, root, worktrees) ==
    [pc |-> "new", head |-> head, base |-> base, commits |-> commits, dir |-> dir, root |-> root,
     worktrees |-> worktrees, bin |-> NoBuild, navctlNew |-> NoBuild, navctlBase |-> NoBuild,
     fate |-> "built", strange |-> FALSE]

Failed(b) == [b EXCEPT !.pc = "error", !.strange = TRUE]

\* build_navctl from dir's sources.
BuildNew(b) == {[b EXCEPT !.pc = "copyNew", !.bin = b.head], Failed(b)}
CopyNew(b) == {[b EXCEPT !.pc = "stale", !.navctlNew = b.bin], Failed(b)}

RemoveStale_Prune(b) ==
    IF b.base \in b.commits THEN {[b EXCEPT !.pc = "add"], Failed(b)}
    ELSE {[b EXCEPT !.pc = "error"]}

\* remove_stale_worktrees, under both directories; then the fetch and the
\* rev-parse of the base, which fails for a commit the repository has not.
RemoveStale(b) ==
    LET cleared == [b EXCEPT !.worktrees = @ \ (b.root \cup {b.dir})]
    IN  IF b.base \in b.commits THEN {[cleared EXCEPT !.pc = "add"], Failed(cleared)}
        ELSE {[cleared EXCEPT !.pc = "error"]}

\* git worktree add, which refuses a directory that is there; from here on
\* the drop of wt removes the worktree.
AddWorktree(b) ==
    IF b.dir \in b.worktrees THEN {[b EXCEPT !.pc = "remove", !.fate = "error"]}
    ELSE {[b EXCEPT !.pc = "base", !.worktrees = @ \cup {b.dir}],
          [b EXCEPT !.pc = "remove", !.fate = "error", !.strange = TRUE]}

BuildBase(b) == {[b EXCEPT !.pc = "copyBase", !.bin = b.base],
                 [b EXCEPT !.pc = "remove", !.fate = "error", !.strange = TRUE]}
CopyBase(b) == {[b EXCEPT !.pc = "remove", !.navctlBase = b.bin],
                [b EXCEPT !.pc = "remove", !.fate = "error", !.strange = TRUE]}

\* Worktree::drop; a removal that fails is only warned of.
RemoveWorktree(b) == {[b EXCEPT !.pc = b.fate, !.worktrees = @ \ {b.dir}],
                      [b EXCEPT !.pc = b.fate, !.strange = TRUE]}

BuildSteps(b) ==
    CASE b.pc = "new" -> BuildNew(b)
      [] b.pc = "copyNew" -> CopyNew(b)
      [] b.pc = "stale" -> RemoveStale(b)
      [] b.pc = "add" -> AddWorktree(b)
      [] b.pc = "base" -> BuildBase(b)
      [] b.pc = "copyBase" -> CopyBase(b)
      [] b.pc = "remove" -> RemoveWorktree(b)
=============================================================================
