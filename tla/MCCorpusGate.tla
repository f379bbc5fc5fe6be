---------------------------- MODULE MCCorpusGate ----------------------------
\* Runs of the corpus tool for TLC: every small file system, split but not scanned
\* (--jobs 0 is an error once the plan is made), and a few that are scanned.
EXTENDS CorpusGate, SequencesExt

CONSTANTS MaxNode, FileLimits, ByteLimits

MCNodes == 1..MaxNode

MCVerdicts == {[rec |-> 0, comp |-> 0], [rec |-> 1, comp |-> 0], [rec |-> 0, comp |-> 1]}

\* Numbered so that a directory comes before what it holds.
Parents == {up \in [2..MaxNode -> MCNodes] : \A n \in 2..MaxNode : up[n] < n}

FileSystems ==
  {fs \in [up : Parents, kind : [MCNodes -> Kinds], len : [MCNodes -> {1, 3}]] :
     /\ \A n \in 2..MaxNode : fs.kind[fs.up[n]] \in {"dir", "app"}
     /\ \A n \in MCNodes : fs.kind[n] # "file" => fs.len[n] = 1}

Invoke(fs, roots, files, bytes, jobs) ==
  LET k == [up |-> fs.up, kind |-> fs.kind, len |-> fs.len, roots |-> roots,
            files |-> files, bytes |-> bytes, jobs |-> jobs,
            inert |-> fs.inert, volume |-> fs.volume]
  IN k @@ [chunks |-> SetToSeq(Plan(k))]

Plain == [inert |-> {}, volume |-> << >>]

Planning ==
  {Invoke(fs @@ Plain, roots, files, bytes, 0) :
     fs \in FileSystems, roots \in {<<1>>, <<1, 2>>},
     files \in FileLimits, bytes \in ByteLimits}

\* A directory with a file of its own and one in a subdirectory, a disk image with one
\* member: as two overlapping roots, and as two chunks of a file each.
TwoFiles ==
  [up |-> <<0, 1, 1, 3>>, kind |-> <<"dir", "file", "dir", "file">>, len |-> <<1, 1, 1, 1>>,
   inert |-> {}, volume |-> 4 :> {MaxNode + 1}]

\* Two bundles, one with a resource only, and a file, as three chunks.
EmptyApps ==
  [up |-> <<0, 1, 1, 3>>, kind |-> <<"dir", "app", "app", "file">>, len |-> <<1, 1, 1, 1>>,
   inert |-> {4}, volume |-> << >>]

\* A bundle with a program and a resource, and the program again as a root of its own.
ResourceApp ==
  [up |-> <<0, 1, 2, 2>>, kind |-> <<"dir", "app", "file", "file">>, len |-> <<1, 1, 1, 1>>,
   inert |-> {4}, volume |-> << >>]

Scanning ==
  {Invoke(TwoFiles, <<1>>, 1, 9, 3), Invoke(TwoFiles, <<1, 3>>, 9, 9, 2),
   Invoke(EmptyApps, <<1, 4>>, 1, 9, 2), Invoke(ResourceApp, <<1, 3>>, 1, 9, 2)}

MCInvocations == Planning \cup Scanning
=============================================================================
