----------------------------- MODULE SampleGate -----------------------------
(***************************************************************************)
(* The verdict of a bench run (rollup.rs, compare.rs, scan.rs): the        *)
(* results of the base and of the new navctl are rolled up per sample, and *)
(* the gate asks whether the new one detects as much as the base and as    *)
(* the manifest expects, over as much of every sample.                     *)
(*                                                                         *)
(* A result is a record [path, rec, comp]; path a sequence, the store's    *)
(* root first, rec and comp ranks, higher recommendations stronger, higher *)
(* completeness ranks worse. A sample's expected is a record [rec, comp]   *)
(* or NoOutcome.                                                           *)
(***************************************************************************)
EXTENDS Naturals, Sequences, SequencesExt, FiniteSetsExt

NoOutcome == [rec |-> 0, comp |-> 0, files |-> 0]  \* no result, or nothing expected

\* sample_id: the component under the store's root, when it names a sample.
SampleId(store, path, ids) ==
    IF IsStrictPrefix(store, path) /\ path[Len(store) + 1] \in ids THEN path[Len(store) + 1] ELSE ""

\* rollup: the strongest recommendation, the worst completeness, the files.
Rollup(results, store, ids) ==
    [i \in ids |->
        LET mine == {n \in DOMAIN results : SampleId(store, results[n].path, ids) = i}
        IN  IF mine = {} THEN NoOutcome
            ELSE [rec |-> Max({results[n].rec : n \in mine}), comp |-> Max({results[n].comp : n \in mine}),
                  files |-> Cardinality(mine)]]

Present(r) == r.files > 0

\* worse: a lower recommendation is a lost detection.
WorseRec(new, old) == new.rec < old.rec
WorseComp(new, old) == new.comp > old.comp

\* compare, one comparison of new with what there was, base or expected.
Below(s, new, old, known, worseComp, worseRec) ==
    (IF known /\ Present(new) /\ WorseComp(new, old) THEN {worseComp} ELSE {})
    \cup (IF known /\ Present(new) /\ WorseRec(new, old) /\ s.scope = "in" THEN {worseRec} ELSE {})

Failures_Verdicts(s, base, new, faulted) ==
    (IF s.id \in faulted THEN {"fault"} ELSE {})
    \cup (IF s.id \notin faulted /\ ~Present(new) THEN {"missing"} ELSE {})
    \cup Below(s, new, base, Present(base), "base completeness", "base recommendation")
    \cup Below(s, new, s.expected, s.expected # NoOutcome, "expected completeness", "expected recommendation")

\* compare, the failures of one sample; faulted is the set of the sample ids
\* that failed verification or whose navctl failed.
Failures(s, base, new, faulted) ==
    (IF s.id \in faulted THEN {"fault"} ELSE {})
    \cup (IF s.id \notin faulted /\ ~Present(new) THEN {"missing"} ELSE {})
    \cup (IF Present(base) /\ Present(new) /\ new.files < base.files THEN {"files"} ELSE {})
    \cup Below(s, new, base, Present(base), "base completeness", "base recommendation")
    \cup Below(s, new, s.expected, s.expected # NoOutcome, "expected completeness", "expected recommendation")

\* compare and Report::passed, over the roll-ups.
Passed(samples, base, new, faulted) ==
    LET ids == {s.id : s \in Range(samples)} IN
    /\ \E i \in ids : Present(base[i])
    /\ faulted \subseteq ids
    /\ \A s \in Range(samples) : Failures(s, base[s.id], new[s.id], faulted) = {}

\* analyze and Report::exit_code: 1 when results lie under no sample of this
\* store, 0 on a pass, 2 on a gate failure.
GateExit(samples, store, base, new, faulted) ==
    LET ids == {s.id : s \in Range(samples)}
        rb  == Rollup(base, store, ids)
        rn  == Rollup(new, store, ids)
        Stray(results, r) == DOMAIN results # {} /\ \A i \in ids : ~Present(r[i])
    IN  CASE Stray(base, rb) \/ Stray(new, rn) -> 1
          [] Passed(samples, rb, rn, faulted) -> 0
          [] OTHER -> 2

\* scan_faults: the sample a failed chunk belongs to, "" when none.
ScanFaults(failed, store, ids) == {SampleId(store, p, ids) : p \in failed}
=============================================================================
