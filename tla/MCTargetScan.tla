---------------------------- MODULE MCTargetScan ----------------------------
\* Instances of TargetScan for TLC: every tree over a few nodes, numbered so that
\* a directory comes before what it holds.
EXTENDS TargetScan

CONSTANTS MaxNode, MCKinds, MaxFiles, MaxDepths, MaxBytes, MaxEntries

MCNodes == 0..MaxNode

MCTrees ==
  {t \in [up : [1..MaxNode -> MCNodes], kind : [MCNodes -> MCKinds]] :
     /\ t.kind[0] = "dir"
     /\ \A n \in 1..MaxNode : t.up[n] < n /\ t.kind[t.up[n]] = "dir"}

MCBudgets ==
  [max_files : MaxFiles, max_total_bytes : MaxBytes,
   max_depth : MaxDepths, max_entries : MaxEntries]
=============================================================================
