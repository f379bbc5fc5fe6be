----------------------------- MODULE CorpusPlan -----------------------------
(***************************************************************************)
(* How `cargo xtask corpus` splits the scan roots into navctl runs         *)
(* (crates/xtask/src/corpus/plan.rs).  A run of the tool is a record k:    *)
(*   up, kind, len    the file system below the roots: parents, kinds and  *)
(*                    lengths                                              *)
(*   roots            the roots named, in order; they may overlap          *)
(*   files, bytes     the split limits                                     *)
(*   jobs             --jobs                                               *)
(***************************************************************************)
EXTENDS Integers, Sequences, FiniteSets, FiniteSetsExt

CONSTANTS Nodes,        \* paths
          StreamCap     \* MAX_STREAM_BYTES

\* app: a bundle; locked: a directory that cannot be listed; other: neither a file
\* nor a directory, a link met on the way, or a root that is missing.
Kinds == {"dir", "app", "locked", "file", "other"}

Directory(k, n) == k.kind[n] \in {"dir", "app", "locked"}
Children(k, d) == {n \in DOMAIN k.up : k.up[n] = d /\ k.kind[d] # "locked"}
Loose(k, d) == {n \in Children(k, d) : k.kind[n] = "file"}
Subdirs(k, d) == {n \in Children(k, d) : Directory(k, n)}

\* The regular files a walk from d comes to, and the directories it cannot list.
FilesBelow(k) ==
  LET below[d \in Nodes] ==
        Loose(k, d) \cup UNION {below[n] : n \in Subdirs(k, d)}
  IN below

LockedBelow(k) ==
  LET below[d \in Nodes] ==
        (IF k.kind[d] = "locked" THEN {d} ELSE {})
          \cup UNION {below[n] : n \in Subdirs(k, d)}
  IN below

Charged(k, f) == IF k.len[f] < StreamCap THEN k.len[f] ELSE StreamCap
Bytes(k, files) == MapThenSumSet(LAMBDA f : Charged(k, f), files)

\* `measure` stops counting once the limits are passed, which changes neither this
\* nor whether there is any file.
Fits(k, files) == Cardinality(files) < k.files /\ Bytes(k, files) < k.bytes

Chunk(i, path, recursive) == [root |-> i, path |-> path, recursive |-> recursive]

\* Mutant: the run over what is left of a split directory is recursive too.
LooseChunks_Recursive(k, i, d) ==
  IF Fits(k, Loose(k, d)) /\ Loose(k, d) # {} THEN {Chunk(i, d, TRUE)}
  ELSE {Chunk(i, f, FALSE) : f \in Loose(k, d)}

\* A directory's own files, together if they fit.
LooseChunks(k, i, d) ==
  IF Fits(k, Loose(k, d)) /\ Loose(k, d) # {} THEN {Chunk(i, d, FALSE)}
  ELSE {Chunk(i, f, FALSE) : f \in Loose(k, d)}

\* plan_dir: the chunks for what is below d, and the paths it prints a note about.
PlanDir(k, i) ==
  LET plan[d \in Nodes] ==
        LET files == FilesBelow(k)[d]
        IN CASE k.kind[d] = "app" ->
                  [chunks |-> {Chunk(i, d, TRUE)},
                   notes |-> IF Fits(k, files) THEN {} ELSE {d}]
             [] k.kind[d] # "app" /\ files = {} ->
                  [chunks |-> {}, notes |-> {d}]
             [] k.kind[d] # "app" /\ files # {} /\ Fits(k, files) ->
                  [chunks |-> {Chunk(i, d, TRUE)}, notes |-> {}]
             [] OTHER ->
                  [chunks |-> LooseChunks(k, i, d)
                                \cup UNION {plan[n].chunks : n \in Subdirs(k, d)},
                   notes |-> UNION {plan[n].notes : n \in Subdirs(k, d)}]
  IN plan

PlanRoot(k, i) ==
  LET root == k.roots[i]
  IN CASE k.kind[root] = "file" -> [chunks |-> {Chunk(i, root, FALSE)}, notes |-> {}]
       [] Directory(k, root) -> PlanDir(k, i)[root]
       [] k.kind[root] = "other" -> [chunks |-> {}, notes |-> {root}]

Plan(k) == UNION {PlanRoot(k, i).chunks : i \in DOMAIN k.roots}

(***************************************************************************)
(* The files of a chunk: what navctl's walk comes to if no ceiling stops   *)
(* it (TargetScan).                                                        *)
(***************************************************************************)
Traversed(k, c) == Directory(k, c.path) /\ (c.recursive \/ k.kind[c.path] = "app")

Covered(k, c) ==
  CASE k.kind[c.path] = "file" -> {c.path}
    [] Traversed(k, c) -> FilesBelow(k)[c.path]
    [] OTHER -> Loose(k, c.path)

(***************************************************************************)
(* Properties of a plan.                                                   *)
(***************************************************************************)
\* Of every root, each regular file a walk can come to is in exactly one chunk, and
\* what a walk cannot list is either in a directory noted or left to a recursive navctl run, which
\* says so itself.
Accounts(k, i) ==
  LET root == k.roots[i]
      chunks == PlanRoot(k, i).chunks
      traversed == {c \in chunks : Traversed(k, c)}
      wanted == IF k.kind[root] = "file" THEN {root} ELSE FilesBelow(k)[root]
  IN /\ \A f \in wanted : Cardinality({c \in chunks : f \in Covered(k, c)}) = 1
     /\ \A c \in chunks : Covered(k, c) \subseteq wanted
     /\ \A d \in LockedBelow(k)[root] :
          \/ \E n \in PlanRoot(k, i).notes : d \in LockedBelow(k)[n]
          \/ \E c \in traversed : d \in LockedBelow(k)[c.path]
     /\ k.kind[root] = "other" => root \in PlanRoot(k, i).notes

=============================================================================
