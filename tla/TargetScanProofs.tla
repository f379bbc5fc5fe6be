------------------------- MODULE TargetScanProofs -------------------------
(* Theorems about TargetScan, for any tree and any budget. *)
EXTENDS TargetScan, SequenceTheorems, FiniteSetTheorems, TLAPS

USE TreesOK, BudgetsOK

Frames == {d \in Nodes : Kind(d) = "dir"} \X Nat

-----------------------------------------------------------------------------
(* Taking the top frame off the stack loses no other frame. *)
LEMMA PopStack ==
  ASSUME TypeOK, stack # << >>
  PROVE  /\ Top \in Frames
         /\ Rest \in Seq(Frames)
         /\ Len(Rest) = Len(stack) - 1
         /\ \A i \in 1..Len(Rest) : Rest[i] = stack[i]
         /\ Stacked = {Rest[i][1] : i \in 1..Len(Rest)} \cup {Top[1]}
<1>1. stack \in Seq(Frames) /\ Len(stack) \in Nat \ {0}
  BY DEF TypeOK, Frames
<1>2. Top \in Frames
  BY <1>1 DEF Top
<1>3. /\ Rest \in Seq(Frames)
      /\ Len(Rest) = Len(stack) - 1
      /\ \A i \in 1..Len(Rest) : Rest[i] = stack[i]
  <2>. DEFINE m == Len(stack) - 1
  <2>1. m \in Int /\ m \in Nat
    BY <1>1
  <2>2. \A i \in 1..m : stack[i] \in Frames
    BY <1>1
  <2>3. Rest = SubSeq(stack, 1, m)
    BY DEF Rest
  <2>. HIDE DEF m, Frames
  <2>4. /\ Rest \in Seq(Frames)
        /\ Len(Rest) = IF 1 <= m THEN m - 1 + 1 ELSE 0
        /\ \A i \in 1..(m - 1 + 1) : Rest[i] = stack[1 + i - 1]
    BY <2>1, <2>2, <2>3, SubSeqProperties, 1 \in Int
  <2>5. Len(Rest) = m
    BY <2>1, <2>4
  <2>6. \A i \in 1..m : Rest[i] = stack[i]
    BY <2>1, <2>4
  <2>. QED
    BY <2>4, <2>5, <2>6 DEF m
<1>4. 1..Len(stack) = 1..Len(Rest) \cup {Len(stack)}
  BY <1>1, <1>3
<1>5. Stacked = {Rest[i][1] : i \in 1..Len(Rest)} \cup {Top[1]}
  BY <1>3, <1>4 DEF Stacked, Top
<1>. QED
  BY <1>2, <1>3, <1>5

(* Putting a frame on it adds that one. *)
LEMMA PushStack ==
  ASSUME TypeOK, NEW n \in Nodes, Kind(n) = "dir", NEW k \in Nat
  PROVE  LET s == Append(stack, <<n, k>>)
         IN /\ s \in Seq(Frames)
            /\ Len(s) = Len(stack) + 1
            /\ s[Len(s)] = <<n, k>>
            /\ \A i \in 1..Len(stack) : s[i] = stack[i]
            /\ {s[i][1] : i \in 1..Len(s)} = Stacked \cup {n}
<1>. DEFINE s == Append(stack, <<n, k>>)
<1>1. stack \in Seq(Frames) /\ <<n, k>> \in Frames /\ Len(stack) \in Nat
  BY DEF TypeOK, Frames
<1>2. /\ s \in Seq(Frames)
      /\ Len(s) = Len(stack) + 1
      /\ s[Len(s)] = <<n, k>>
      /\ \A i \in 1..Len(stack) : s[i] = stack[i]
  BY <1>1
<1>3. 1..Len(s) = 1..Len(stack) \cup {Len(s)}
  BY <1>1, <1>2
<1>4. {s[i][1] : i \in 1..Len(s)} = Stacked \cup {n}
  BY <1>2, <1>3 DEF Stacked
<1>. QED
  BY <1>2, <1>4

-----------------------------------------------------------------------------
(* Every state component keeps its type. *)
LEMMA TypeStep == TypeOK /\ [Next]_vars => TypeOK'
<1>. SUFFICES ASSUME TypeOK, [Next]_vars PROVE TypeOK'
  OBVIOUS
<1>. USE DEF TypeOK, call, score, Kind, Frames
<1>1. CASE OpenDir
  BY <1>1, PopStack DEF OpenDir, Children, IsFile, Scored
<1>2. CASE OpenDirFails
  <2>1. /\ stack' \in Seq(Frames)
        /\ unreadable' \subseteq {d \in Nodes : Kind(d) = "dir"}
        /\ phase' \in {"walk", "error"}
    BY <1>2, PopStack DEF OpenDirFails
  <2>. QED
    BY <1>2, <2>1 DEF OpenDirFails, Children, IsFile, Scored
<1>3. CASE ListingEnds
  BY <1>3 DEF ListingEnds, walk, Children, IsFile, Scored
<1>4. CASE TooManyEntries
  BY <1>4 DEF TooManyEntries, MoreEntries, Collected, Children, IsFile, Scored
<1>5. CASE EntryFails
  BY <1>5 DEF EntryFails, MoreEntries, Children, IsFile, Scored
<1>6. CASE TakeDir
  <2>1. PICK n \in listing :
           /\ Kind(n) = "dir"
           /\ listing' = listing \ {n}
           /\ CASE ~Descends -> UNCHANGED <<stack, limit_hit>>
                [] Descends /\ depth < budget.max_depth ->
                     /\ stack' = Append(stack, <<n, depth + 1>>)
                     /\ UNCHANGED <<limit_hit>>
                [] OTHER ->
                     /\ limit_hit' = IF limit_hit = "none" THEN "Depth" ELSE limit_hit
                     /\ UNCHANGED stack
    BY <1>6 DEF TakeDir
  <2>2. n \in Nodes /\ depth + 1 \in Nat
    BY <2>1 DEF Children
  <2>3. /\ stack' \in Seq(Frames)
        /\ limit_hit' \in {"none", "Files", "Depth", "Entries"}
    <3>1. Append(stack, <<n, depth + 1>>) \in Seq(Frames)
      BY <2>1, <2>2, PushStack
    <3>2. stack' \in {stack, Append(stack, <<n, depth + 1>>)}
      BY <2>1
    <3>. QED
      BY <2>1, <3>1, <3>2
  <2>4. listing' \subseteq Children(dir)' /\ entries_seen' \in Nat
    BY <1>6, <2>1 DEF TakeDir, Children
  <2>5. UNCHANGED <<tree, budget, recursive, bundle, phase, dir, depth, out,
                    unreadable, entered, queue, results, used, byte_limit, last_read>>
    BY <1>6 DEF TakeDir
  <2>6. Scored(out)' = Scored(out)
    BY <2>5 DEF Scored
  <2>. QED
    BY <2>3, <2>4, <2>5, <2>6 DEF IsFile
<1>7. CASE TakeFile
  BY <1>7 DEF TakeFile, MoreEntries, Collected, Children, IsFile, Scored
<1>8. CASE PassOver
  BY <1>8 DEF PassOver, MoreEntries, Children, IsFile, Scored
<1>9. CASE WalkEnds
  BY <1>9 DEF WalkEnds, walk, Collected, Children, IsFile, Scored
<1>10. CASE ScoreUnopened
  BY <1>10 DEF ScoreUnopened, walk, Record, Unread, Verdicts, Children, IsFile, Scored
<1>11. CASE ScoreFile
  BY <1>11 DEF ScoreFile, walk, Record, Children, IsFile, Scored
<1>12. CASE RefuseFile
  BY <1>12 DEF RefuseFile, walk, Children, IsFile, Scored
<1>13. CASE AllScored
  BY <1>13 DEF AllScored, walk, Children, IsFile, Scored
<1>14. CASE Ended \/ UNCHANGED vars
  BY <1>14 DEF Ended, vars, walk, Children, IsFile, Scored
<1>. QED
  BY <1>1, <1>2, <1>3, <1>4, <1>5, <1>6, <1>7, <1>8, <1>9, <1>10, <1>11, <1>12,
     <1>13, <1>14 DEF Next

LEMMA TypeInit == Init => TypeOK
<1>. SUFFICES ASSUME Init PROVE TypeOK
  OBVIOUS
<1>1. stack \in Seq({d \in Nodes : Kind(d) = "dir"} \X Nat)
  BY DEF Init, Kind
<1>2. DOMAIN results = {}
  BY DEF Init
<1>. QED
  BY <1>1, <1>2 DEF Init, TypeOK, Kind, Children, Scored, IsFile

-----------------------------------------------------------------------------
(* The walk owes nothing it has not handled, while nothing went wrong. *)
LEMMA OwedStep == TypeOK /\ OwedInv /\ [Next]_vars => OwedInv'
<1>. SUFFICES ASSUME TypeOK, OwedInv, [Next]_vars,
                     limit_hit' = "none", unreadable' = {}, phase' # "error"
              PROVE  /\ Root \in (entered \cup Stacked)'
                     /\ \A n \in Nodes \ {Root} :
                          tree'.up[n] \in entered' /\ ~Pending(n)' => Handled(n)'
  BY DEF OwedInv
<1>. USE DEF call, score, Handled, Pending, Children, IsFile, Kind, Descends
<1>0. ASSUME limit_hit = "none", unreadable = {}, phase # "error"
      PROVE  /\ Root \in entered \cup Stacked
             /\ \A n \in Nodes \ {Root} :
                  tree.up[n] \in entered /\ ~Pending(n) => Handled(n)
  BY <1>0 DEF OwedInv
<1>1. CASE OpenDir
  <2>1. Stacked' = {Rest[i][1] : i \in 1..Len(Rest)}
    BY <1>1 DEF OpenDir, Stacked
  <2>2. (entered \cup Stacked)' = entered \cup Stacked
    BY <1>1, <2>1, PopStack DEF OpenDir
  <2>3. limit_hit = "none" /\ unreadable = {} /\ phase = "walk"
    BY <1>1 DEF OpenDir
  <2>. QED
    BY <1>0, <1>1, <2>2, <2>3 DEF OpenDir
<1>2. CASE OpenDirFails
  BY <1>2 DEF OpenDirFails
<1>3. CASE ListingEnds
  BY <1>0, <1>3 DEF ListingEnds, walk, Stacked
<1>4. CASE TooManyEntries
  BY <1>4 DEF TooManyEntries
<1>5. CASE EntryFails
  BY <1>5 DEF EntryFails
<1>6. CASE TakeDir
  <2>1. PICK n \in listing :
           /\ Kind(n) = "dir"
           /\ listing' = listing \ {n}
           /\ CASE ~Descends -> UNCHANGED <<stack, limit_hit>>
                [] Descends /\ depth < budget.max_depth ->
                     /\ stack' = Append(stack, <<n, depth + 1>>)
                     /\ UNCHANGED <<limit_hit>>
                [] OTHER ->
                     /\ limit_hit' = IF limit_hit = "none" THEN "Depth" ELSE limit_hit
                     /\ UNCHANGED stack
    BY <1>6 DEF TakeDir
  <2>2. /\ n \in Nodes /\ depth + 1 \in Nat
        /\ limit_hit = "none" /\ unreadable = {} /\ phase = "list" /\ phase' = "list"
        /\ UNCHANGED <<tree, recursive, bundle, entered, out>>
    BY <1>6, <2>1 DEF TakeDir, MoreEntries, TypeOK
  <2>3. CASE ~Descends
    <3>1. Stacked' = Stacked /\ ~Descends'
      BY <2>1, <2>2, <2>3 DEF Stacked
    <3>2. \A k \in Nodes \ {Root} :
            tree'.up[k] \in entered' /\ ~Pending(k)' => Handled(k)'
      <4>. TAKE k \in Nodes \ {Root}
      <4>1. CASE k = n
        BY <2>1, <2>2, <3>1, <4>1
      <4>2. CASE k # n
        BY <1>0, <2>1, <2>2, <3>1, <4>2
      <4>. QED
        BY <4>1, <4>2
    <3>. QED
      BY <1>0, <2>2, <3>1, <3>2
  <2>4. CASE Descends /\ depth < budget.max_depth
    <3>1. stack' = Append(stack, <<n, depth + 1>>)
      BY <2>1, <2>4
    <3>2. Stacked' = Stacked \cup {n}
      BY <2>1, <2>2, <3>1, PushStack DEF Stacked
    <3>3. \A k \in Nodes \ {Root} :
            tree'.up[k] \in entered' /\ ~Pending(k)' => Handled(k)'
      <4>. TAKE k \in Nodes \ {Root}
      <4>1. CASE k = n
        BY <2>1, <2>2, <3>2, <4>1
      <4>2. CASE k # n
        BY <1>0, <2>1, <2>2, <3>2, <4>2
      <4>. QED
        BY <4>1, <4>2
    <3>. QED
      BY <1>0, <2>2, <3>2, <3>3
  <2>5. CASE Descends /\ ~(depth < budget.max_depth)
    BY <2>1, <2>2, <2>5
  <2>. QED
    BY <2>3, <2>4, <2>5
<1>7. CASE TakeFile
  <2>1. PICK n \in listing :
           /\ IsFile(n)
           /\ listing' = listing \ {n}
           /\ out' = out \cup {n}
           /\ UNCHANGED <<score, phase, limit_hit>>
    BY <1>7 DEF TakeFile
  <2>2. UNCHANGED <<call, stack, unreadable, entered>>
    BY <1>7 DEF TakeFile
  <2>. QED
    BY <1>0, <2>1, <2>2 DEF Stacked
<1>8. CASE PassOver
  BY <1>0, <1>8 DEF PassOver, MoreEntries, Stacked
<1>9. CASE WalkEnds
  BY <1>0, <1>9 DEF WalkEnds, Collected, walk, Stacked
<1>10. CASE ScoreUnopened \/ ScoreFile \/ RefuseFile \/ AllScored
  BY <1>0, <1>10 DEF ScoreUnopened, ScoreFile, RefuseFile, AllScored, walk, Stacked
<1>11. CASE Ended \/ UNCHANGED vars
  BY <1>0, <1>11 DEF Ended, vars, walk, Stacked
<1>. QED
  BY <1>1, <1>2, <1>3, <1>4, <1>5, <1>6, <1>7, <1>8, <1>9, <1>10, <1>11 DEF Next

(* What was collected is kept until it is scored. *)
LEMMA KeptStep == TypeOK /\ KeptInv /\ [Next]_vars => KeptInv'
<1>. SUFFICES ASSUME TypeOK, KeptInv, [Next]_vars PROVE KeptInv'
  OBVIOUS
<1>. USE DEF KeptInv, call, Scored, Kind
<1>1. CASE OpenDir \/ OpenDirFails \/ ListingEnds
  BY <1>1 DEF OpenDir, OpenDirFails, ListingEnds, score, walk
<1>2. CASE TooManyEntries
  BY <1>2 DEF TooManyEntries, MoreEntries, Collected
<1>3. CASE EntryFails \/ PassOver \/ TakeDir
  <2>1. UNCHANGED <<score, call, phase>> /\ phase = "list"
    BY <1>3 DEF EntryFails, PassOver, TakeDir, MoreEntries
  <2>. QED
    BY <2>1 DEF score
<1>4. CASE TakeFile
  <2>1. phase = "list" /\ UNCHANGED call
    BY <1>4 DEF TakeFile, MoreEntries
  <2>2. CASE FilesFull
    BY <1>4, <2>1, <2>2 DEF TakeFile, Collected
  <2>3. CASE ~FilesFull
    BY <1>4, <2>1, <2>3 DEF TakeFile, score
  <2>. QED
    BY <2>2, <2>3
<1>5. CASE WalkEnds
  BY <1>5 DEF WalkEnds, Collected, walk
<1>6. CASE ScoreUnopened
  BY <1>6 DEF ScoreUnopened, Record, walk
<1>7. CASE ScoreFile
  BY <1>7 DEF ScoreFile, Record, walk
<1>8. CASE RefuseFile \/ AllScored
  BY <1>8 DEF RefuseFile, AllScored, score, walk
<1>9. CASE Ended \/ UNCHANGED vars
  BY <1>9 DEF Ended, vars, score, walk
<1>. QED
  BY <1>1, <1>2, <1>3, <1>4, <1>5, <1>6, <1>7, <1>8, <1>9 DEF Next

LEMMA WalkInit == Init => WalkInv
<1>. SUFFICES ASSUME Init PROVE WalkInv
  OBVIOUS
<1>1. Len(stack) = 1 /\ stack[1] = <<Root, 0>>
  BY DEF Init
<1>2. Root \in Stacked
  BY <1>1 DEF Stacked
<1>. QED
  BY <1>2 DEF Init, WalkInv, OwedInv, KeptInv

(* The state components keep their types and the walk its accounts. *)
THEOREM WalkCorrect == Spec => [](TypeOK /\ WalkInv)
<1>1. Init => TypeOK /\ WalkInv
  BY TypeInit, WalkInit
<1>2. (TypeOK /\ WalkInv) /\ [Next]_vars => (TypeOK /\ WalkInv)'
  BY TypeStep, OwedStep, KeptStep DEF WalkInv
<1>. QED
  BY <1>1, <1>2, PTL DEF Spec

-----------------------------------------------------------------------------
(* What the rank and the exit code of a verdict say of it. *)
LEMMA RankOf ==
  ASSUME NEW r \in Verdicts
  PROVE  /\ SeverityRank(r) \in 0..3
         /\ SeverityRank(r) = 3 <=> r.recommendation = "Quarantine"
         /\ SeverityRank(r) = 2 <=> r.recommendation = "Notify"
         /\ SeverityRank(r) = 0 <=>
              /\ r.recommendation = "NoAction"
              /\ r.completeness = "Complete"
<1>1. r.recommendation = "Quarantine" => SeverityRank(r) = 3
  BY DEF SeverityRank
<1>2. r.recommendation = "Notify" => SeverityRank(r) = 2
  BY DEF SeverityRank
<1>3. r.recommendation = "NoAction" /\ r.completeness = "Complete" => SeverityRank(r) = 0
  BY DEF SeverityRank
<1>4. r.recommendation = "NoAction" /\ r.completeness # "Complete" => SeverityRank(r) = 1
  BY DEF SeverityRank
<1>5. r.recommendation \in {"NoAction", "Notify", "Quarantine"}
  BY DEF Verdicts
<1>. QED
  BY <1>1, <1>2, <1>3, <1>4, <1>5

LEMMA CodeOf ==
  ASSUME NEW r \in Verdicts
  PROVE  /\ ForResult(r) \in {Clean, Suspicious, HighRisk, Indeterminate}
         /\ ForResult(r) = HighRisk <=> SeverityRank(r) = 3
         /\ ForResult(r) = Suspicious <=> SeverityRank(r) = 2
         /\ ForResult(r) = Clean <=> SeverityRank(r) = 0
<1>. USE DEF Clean, Suspicious, HighRisk, Indeterminate
<1>1. CASE r.recommendation = "Quarantine"
  BY <1>1 DEF SeverityRank, ForResult, Verdicts
<1>2. CASE r.recommendation = "Notify"
  BY <1>2 DEF SeverityRank, ForResult, Verdicts
<1>3. CASE r.recommendation = "NoAction"
  BY <1>3 DEF SeverityRank, ForResult, Verdicts
<1>. QED
  BY <1>1, <1>2, <1>3 DEF Verdicts

(* The worst result is at least as severe as any. *)
LEMMA WorstIsWorst ==
  ASSUME TypeOK, DOMAIN results # {}
  PROVE  /\ Worst \in DOMAIN results
         /\ \A g \in DOMAIN results :
              SeverityRank(results[g]) <= SeverityRank(results[Worst])
<1>. DEFINE R(f) == SeverityRank(results[f])
<1>1. \A f \in DOMAIN results : R(f) \in 0..3
  BY DEF TypeOK, SeverityRank, Verdicts
<1>2. \E f \in DOMAIN results : \A g \in DOMAIN results : R(g) <= R(f)
  <2>. HIDE DEF R
  <2>1. CASE \E f \in DOMAIN results : R(f) = 3
    BY <1>1, <2>1
  <2>2. CASE /\ ~\E f \in DOMAIN results : R(f) = 3
             /\ \E f \in DOMAIN results : R(f) = 2
    BY <1>1, <2>2
  <2>3. CASE /\ ~\E f \in DOMAIN results : R(f) \in {2, 3}
             /\ \E f \in DOMAIN results : R(f) = 1
    BY <1>1, <2>3
  <2>4. CASE ~\E f \in DOMAIN results : R(f) \in {1, 2, 3}
    <3>1. \A f \in DOMAIN results : R(f) = 0
      BY <1>1, <2>4
    <3>. QED
      BY <3>1
  <2>. QED
    BY <2>1, <2>2, <2>3, <2>4
<1>3. PICK f \in DOMAIN results :
        \A g \in DOMAIN results : SeverityRank(results[g]) <= SeverityRank(results[f])
  BY <1>2
<1>4. Worst = CHOOSE x \in DOMAIN results :
                \A g \in DOMAIN results :
                  SeverityRank(results[g]) <= SeverityRank(results[x])
  BY DEF Worst
<1>. QED
  BY <1>3, <1>4, Zenon

(* Exit code 0 at the end: something was scored, all of it clean, nothing missed. *)
LEMMA CleanExit ==
  ASSUME TypeOK, phase = "done", ExitCode = Clean
  PROVE  /\ CoverageComplete
         /\ \A f \in DOMAIN results :
              results[f] = [completeness |-> "Complete", recommendation |-> "NoAction"]
<1>. USE DEF Clean, Suspicious, HighRisk, Indeterminate, OperationalError
<1>1. DOMAIN results # {} /\ ForTarget = Clean
  BY DEF ExitCode
<1>2. CoverageComplete /\ ForResult(results[Worst]) = Clean
  BY <1>1 DEF ForTarget
<1>3. Worst \in DOMAIN results /\ results[Worst] \in Verdicts
  BY <1>1, WorstIsWorst DEF TypeOK
<1>4. SeverityRank(results[Worst]) = 0
  BY <1>2, <1>3, CodeOf
<1>5. ASSUME NEW f \in DOMAIN results
      PROVE  results[f] = [completeness |-> "Complete", recommendation |-> "NoAction"]
  <2>1. results[f] \in Verdicts
    BY DEF TypeOK
  <2>2. SeverityRank(results[f]) <= 0
    BY <1>1, <1>4, WorstIsWorst
  <2>3. SeverityRank(results[f]) = 0
    BY <2>1, <2>2, RankOf
  <2>. QED
    BY <2>1, <2>3, RankOf DEF Verdicts
<1>. QED
  BY <1>2, <1>5

(* Exit code 0 means every file under the target was checked and had nothing. *)
LEMMA WalkImpliesClean == TypeOK /\ WalkInv => CleanMeansChecked
<1>. SUFFICES ASSUME TypeOK, WalkInv, phase = "done", ExitCode = Clean,
                     NEW f \in Nodes, IsFile(f), Reachable(f), f \in Scored({f})
              PROVE  /\ f \in DOMAIN results
                     /\ results[f] = [completeness |-> "Complete",
                                       recommendation |-> "NoAction"]
  BY DEF CleanMeansChecked
<1>1. limit_hit = "none" /\ byte_limit = "none" /\ unreadable = {}
  BY CleanExit DEF CoverageComplete, Reported, TypeOK
<1>2. stack = << >> /\ Scored(out) \subseteq DOMAIN results
  BY <1>1 DEF WalkInv, KeptInv
<1>3. Stacked = {}
  BY <1>2 DEF Stacked
<1>4. /\ Root \in entered
      /\ \A n \in Nodes \ {Root} : tree.up[n] \in entered => Handled(n)
  BY <1>1, <1>3 DEF WalkInv, OwedInv, Pending
<1>5. Closed(entered)
  BY <1>3, <1>4 DEF Closed, Handled
<1>6. entered \in SUBSET Nodes
  BY DEF TypeOK
<1>7. f # Root /\ tree.up[f] \in entered
  BY <1>5, <1>6 DEF Reachable
<1>8. f \in out
  BY <1>4, <1>7 DEF Handled
<1>9. f \in DOMAIN results
  BY <1>2, <1>8 DEF Scored
<1>. QED
  BY <1>9, CleanExit

(* Exit code 0: every file under the target was scored, completely, with nothing to
   report - for every tree, every budget and every failure. *)
THEOREM CleanTargetsWereChecked == Spec => []CleanMeansChecked
BY WalkCorrect, WalkImpliesClean, PTL

(* The most severe finding decides the exit code, whatever was missed. *)
LEMMA TypeImpliesOutranks == TypeOK => FindingOutranks
<1>. SUFFICES ASSUME TypeOK, phase = "done" PROVE FindingOutranks
  BY DEF FindingOutranks
<1>. USE DEF Clean, Suspicious, HighRisk, Indeterminate, OperationalError
<1>1. CASE DOMAIN results = {}
  BY <1>1 DEF FindingOutranks, ExitCode
<1>2. CASE DOMAIN results # {}
  <2>. DEFINE w == results[Worst]
  <2>1. w \in Verdicts /\ Worst \in DOMAIN results
    BY <1>2, WorstIsWorst DEF TypeOK
  <2>2. \A f \in DOMAIN results :
          results[f] \in Verdicts /\ SeverityRank(results[f]) <= SeverityRank(w)
    BY <1>2, WorstIsWorst DEF TypeOK
  <2>3. ExitCode = IF ~CoverageComplete /\ ForResult(w) = Clean
                   THEN Indeterminate ELSE ForResult(w)
    BY <1>2 DEF ExitCode, ForTarget
  <2>. HIDE DEF w
  <2>4. ASSUME NEW f \in DOMAIN results, results[f].recommendation = "Quarantine"
        PROVE  ExitCode = HighRisk
    <3>1. SeverityRank(w) = 3
      BY <2>1, <2>2, <2>4, RankOf
    <3>. QED
      BY <2>1, <2>3, <3>1, CodeOf
  <2>5. ASSUME ExitCode = HighRisk
        PROVE  \E f \in DOMAIN results : results[f].recommendation = "Quarantine"
    <3>1. w.recommendation = "Quarantine"
      BY <2>1, <2>3, <2>5, CodeOf, RankOf
    <3>. QED
      BY <2>1, <3>1 DEF w
  <2>6. ASSUME NEW f \in DOMAIN results, results[f].recommendation = "Notify"
        PROVE  ExitCode \in {HighRisk, Suspicious}
    <3>1. SeverityRank(w) \in {2, 3}
      BY <2>1, <2>2, <2>6, RankOf
    <3>. QED
      BY <2>1, <2>3, <3>1, CodeOf
  <2>. QED
    BY <2>4, <2>5, <2>6 DEF FindingOutranks
<1>. QED
  BY <1>1, <1>2

(* A finding outranks incompleteness, for every tree, budget and failure. *)
THEOREM FindingsOutrank == Spec => []FindingOutranks
BY WalkCorrect, TypeImpliesOutranks, PTL

-----------------------------------------------------------------------------
(* What a target can make the scan do.  The entry count may pass its ceiling only  *)
(* on leaving the walk, hence the strengthening.                                   *)
BudgetInv ==
  BudgetHeld /\ (phase \in {"walk", "list"} => entries_seen <= budget.max_entries)

LEMMA BudgetStep == TypeOK /\ BudgetInv /\ [Next]_vars => BudgetInv'
<1>. SUFFICES ASSUME TypeOK, BudgetInv, [Next]_vars PROVE BudgetInv'
  OBVIOUS
<1>1. /\ budget.max_files \in Nat /\ budget.max_entries \in Nat
      /\ budget.max_depth \in Nat /\ budget' = budget
  <2>1. budget \in [max_files : Nat, max_total_bytes : Nat,
                    max_depth : Nat, max_entries : Nat]
    BY BudgetsOK DEF TypeOK
  <2>2. budget' = budget
    BY DEF Next, vars, call, OpenDir, OpenDirFails, ListingEnds, TooManyEntries,
           EntryFails, TakeDir, TakeFile, PassOver, WalkEnds, ScoreUnopened,
           ScoreFile, RefuseFile, AllScored, Ended
  <2>. QED
    BY <2>1, <2>2
<1>2. /\ IsFiniteSet(out) /\ Cardinality(out) \in Nat
      /\ Cardinality(out) <= budget.max_files
      /\ entries_seen \in Nat /\ entries_seen <= budget.max_entries + 1
      /\ phase \in {"walk", "list"} => entries_seen <= budget.max_entries
      /\ depth \in Nat
      /\ \A i \in 1..Len(stack) : stack[i] \in Frames /\ stack[i][2] <= budget.max_depth
      /\ Len(stack) \in Nat /\ Len(stack) <= entries_seen + 1
  <2>1. IsFiniteSet(out)
    BY TreesOK, FS_Subset DEF TypeOK
  <2>. QED
    BY <2>1, FS_CardinalityType DEF TypeOK, BudgetInv, BudgetHeld, Frames
<1>. SUFFICES /\ Cardinality(out') <= budget.max_files
              /\ entries_seen' <= budget.max_entries + 1
              /\ phase' \in {"walk", "list"} => entries_seen' <= budget.max_entries
              /\ \A i \in 1..Len(stack') : stack'[i][2] <= budget.max_depth
              /\ Len(stack') <= entries_seen' + 1
  BY <1>1 DEF BudgetInv, BudgetHeld
<1>3. ASSUME Rest = stack'
      PROVE  stack # << >> => /\ Len(stack') <= Len(stack)
                              /\ \A i \in 1..Len(stack') : stack'[i][2] <= budget.max_depth
  BY <1>2, <1>3, PopStack
<1>4. CASE OpenDir
  BY <1>2, <1>3, <1>4 DEF OpenDir, score
<1>5. CASE OpenDirFails
  BY <1>2, <1>3, <1>5 DEF OpenDirFails, score
<1>6. CASE TooManyEntries
  <2>1. /\ entries_seen' = entries_seen + 1 /\ phase' = "scan"
        /\ UNCHANGED <<stack, out>>
    BY <1>6 DEF TooManyEntries, Collected
  <2>2. entries_seen <= budget.max_entries
    BY <1>2, <1>6 DEF TooManyEntries, MoreEntries
  <2>. QED
    BY <1>1, <1>2, <2>1, <2>2
<1>7. CASE EntryFails \/ PassOver
  <2>1. /\ entries_seen < budget.max_entries /\ entries_seen' = entries_seen + 1
        /\ UNCHANGED <<stack, out>>
    BY <1>7 DEF EntryFails, PassOver, Within
  <2>. QED
    BY <1>1, <1>2, <2>1
<1>8. CASE TakeDir
  <2>1. PICK n \in listing :
           /\ Kind(n) = "dir"
           /\ \/ stack' = stack
              \/ depth < budget.max_depth /\ stack' = Append(stack, <<n, depth + 1>>)
    BY <1>8 DEF TakeDir
  <2>2. n \in Nodes /\ depth + 1 \in Nat
    BY <1>2, <2>1 DEF TypeOK, Children
  <2>3. entries_seen' = entries_seen + 1 /\ out' = out /\ phase' = phase
    BY <1>8 DEF TakeDir
  <2>4. entries_seen + 1 <= budget.max_entries
    BY <1>1, <1>2, <1>8 DEF TakeDir, Within
  <2>5. CASE stack' = stack
    BY <1>1, <1>2, <2>3, <2>4, <2>5
  <2>6. CASE depth < budget.max_depth /\ stack' = Append(stack, <<n, depth + 1>>)
    <3>1. /\ Len(stack') = Len(stack) + 1
          /\ stack'[Len(stack')] = <<n, depth + 1>>
          /\ \A i \in 1..Len(stack) : stack'[i] = stack[i]
      BY <2>1, <2>2, <2>6, PushStack
    <3>2. depth + 1 <= budget.max_depth
      BY <1>1, <1>2, <2>6
    <3>3. \A i \in 1..Len(stack') : stack'[i][2] <= budget.max_depth
      BY <1>2, <3>1, <3>2
    <3>. QED
      BY <1>1, <1>2, <2>3, <2>4, <3>1, <3>3
  <2>. QED
    BY <2>1, <2>5, <2>6
<1>9. CASE TakeFile
  <2>1. Cardinality(out') <= budget.max_files
    <3>1. PICK n \in listing : out' \in {out, out \cup {n}} /\ (FilesFull => out' = out)
      BY <1>9 DEF TakeFile
    <3>2. CASE FilesFull
      BY <1>2, <3>1, <3>2
    <3>3. CASE ~FilesFull
      <4>1. Cardinality(out) + 1 <= budget.max_files
        BY <1>1, <1>2, <3>3 DEF FilesFull
      <4>2. Cardinality(out \cup {n}) \in {Cardinality(out), Cardinality(out) + 1}
        BY <1>2, FS_AddElement
      <4>. QED
        BY <1>1, <1>2, <3>1, <4>1, <4>2
    <3>. QED
      BY <3>2, <3>3
  <2>2. entries_seen' = entries_seen + 1 /\ entries_seen + 1 <= budget.max_entries
    BY <1>1, <1>2, <1>9 DEF TakeFile, Within
  <2>3. stack' = stack
    BY <1>9 DEF TakeFile
  <2>. QED
    BY <1>1, <1>2, <2>1, <2>2, <2>3
<1>10. CASE ListingEnds \/ WalkEnds \/ ScoreUnopened \/ ScoreFile \/ RefuseFile \/ AllScored
  BY <1>1, <1>2, <1>10
     DEF ListingEnds, WalkEnds, Collected, ScoreUnopened, ScoreFile, RefuseFile, AllScored, walk
<1>11. CASE Ended \/ UNCHANGED vars
  BY <1>2, <1>11 DEF Ended, vars, walk
<1>. QED
  BY <1>4, <1>5, <1>6, <1>7, <1>8, <1>9, <1>10, <1>11 DEF Next

LEMMA BudgetInit == Init => BudgetInv
<1>. SUFFICES ASSUME Init PROVE BudgetInv
  OBVIOUS
<1>1. budget \in [max_files : Nat, max_total_bytes : Nat,
                  max_depth : Nat, max_entries : Nat]
  BY BudgetsOK DEF Init
<1>2. Cardinality(out) = 0
  BY FS_EmptySet DEF Init
<1>. QED
  BY <1>1, <1>2 DEF Init, BudgetInv, BudgetHeld

(* The files taken, the entries looked at, the depth and the directories waiting   *)
(* stay within the budget, for every tree and every budget.                        *)
THEOREM BudgetIsHeld == Spec => []BudgetHeld
<1>1. Init => BudgetInv
  BY BudgetInit
<1>2. BudgetInv => BudgetHeld
  BY DEF BudgetInv
<1>. QED
  BY <1>1, <1>2, WalkCorrect, BudgetStep, PTL DEF Spec

(* The bytes charged pass their ceiling by no more than the last file read, for    *)
(* every order of the files and every length a file is found to have.              *)
THEOREM CeilingIsKept == Spec => []OneFileOver
<1>1. Init => OneFileOver
  <2>. SUFFICES ASSUME Init PROVE OneFileOver
    OBVIOUS
  <2>1. budget.max_total_bytes \in Nat
    BY BudgetsOK DEF Init
  <2>. QED
    BY <2>1 DEF Init, OneFileOver
<1>2. TypeOK /\ WalkInv /\ OneFileOver /\ [Next]_vars => OneFileOver'
  <2>. SUFFICES ASSUME TypeOK, WalkInv, OneFileOver, [Next]_vars PROVE OneFileOver'
    OBVIOUS
  <2>1. budget.max_total_bytes \in Nat /\ used \in Nat
    BY BudgetsOK DEF TypeOK
  <2>2. CASE ScoreFile
    <3>1. PICK len \in Sizes, reads \in Sizes :
            Admits(len) /\ used' = used + reads /\ last_read' = reads /\ budget' = budget
      BY <2>2 DEF ScoreFile, call
    <3>2. reads \in Nat /\ Least(len, StreamCap) \in Nat
      BY BudgetsOK DEF Least
    <3>3. CASE First
      BY <2>1, <3>1, <3>2, <3>3 DEF WalkInv, KeptInv, First, OneFileOver
    <3>4. CASE ~First
      BY <2>1, <3>1, <3>2, <3>4 DEF Admits, OneFileOver
    <3>. QED
      BY <3>3, <3>4
  <2>3. CASE ~ScoreFile
    <3>1. UNCHANGED <<budget, used, last_read>>
      BY <2>3 DEF Next, vars, call, score, OpenDir, OpenDirFails, ListingEnds,
             TooManyEntries, Collected, EntryFails, TakeDir, TakeFile, PassOver,
             WalkEnds, ScoreUnopened, RefuseFile, AllScored, Ended
    <3>. QED
      BY <3>1 DEF OneFileOver
  <2>. QED
    BY <2>2, <2>3
<1>. QED
  BY <1>1, <1>2, WalkCorrect, PTL DEF Spec

-----------------------------------------------------------------------------
(* Work, by phase, and the sizes it is made of. *)
WorkFacts ==
  /\ phase = "walk" => Work = budget.max_files + 3 + 3 * Left + 2 * Len(stack)
  /\ phase = "list" => Work = budget.max_files + 4 + 3 * Left + 2 * Len(stack)
  /\ phase = "scan" => Work = Cardinality(queue) + 1
  /\ phase \in {"done", "error"} => Work = 0
  /\ phase \in {"walk", "list"} => Left >= 1
  /\ budget.max_files \in Nat /\ Left \in Int /\ Len(stack) \in Nat
  /\ IsFiniteSet(queue) /\ Cardinality(queue) \in Nat
  /\ Cardinality(Scored(out)) \in Nat /\ Cardinality(Scored(out)) <= budget.max_files

LEMMA WorkOf == TypeOK /\ BudgetInv => WorkFacts
<1>. SUFFICES ASSUME TypeOK, BudgetInv PROVE WorkFacts
  OBVIOUS
<1>1. budget \in [max_files : Nat, max_total_bytes : Nat,
                  max_depth : Nat, max_entries : Nat]
  BY BudgetsOK DEF TypeOK
<1>2. /\ phase \in {"walk", "list"} => Left >= 1
      /\ Left \in Int /\ Len(stack) \in Nat
  BY <1>1 DEF TypeOK, BudgetInv, Left
<1>3. Cardinality(out) <= budget.max_files
  BY DEF BudgetInv, BudgetHeld
<1>4. /\ IsFiniteSet(queue) /\ IsFiniteSet(Scored(out)) /\ IsFiniteSet(out)
      /\ Scored(out) \subseteq out
  <2>1. Scored(out) \subseteq out /\ out \subseteq Nodes /\ queue \subseteq Nodes
    BY DEF Scored, TypeOK
  <2>. QED
    BY <2>1, TreesOK, FS_Subset
<1>5. /\ Cardinality(queue) \in Nat /\ Cardinality(Scored(out)) \in Nat
      /\ Cardinality(Scored(out)) <= Cardinality(out) /\ Cardinality(out) \in Nat
  BY <1>4, FS_CardinalityType, FS_Subset
<1>6. /\ budget.max_files \in Nat
      /\ Cardinality(Scored(out)) <= budget.max_files
  <2>1. budget.max_files \in Nat
    BY <1>1
  <2>. QED
    BY <2>1, <1>3, <1>5
<1>7. /\ phase = "walk" => Work = budget.max_files + 3 + 3 * Left + 2 * Len(stack)
      /\ phase = "list" => Work = budget.max_files + 4 + 3 * Left + 2 * Len(stack)
      /\ phase = "scan" => Work = Cardinality(queue) + 1
      /\ phase \in {"done", "error"} => Work = 0
  BY DEF Work
<1>. QED
  BY <1>2, <1>4, <1>5, <1>6, <1>7 DEF WorkFacts

(* A step that leaves the count of entries alone, and one that adds to it. *)
LEMMA LeftStep ==
  ASSUME TypeOK
  PROVE  /\ UNCHANGED <<budget, entries_seen>> => Left' = Left
         /\ entries_seen' = entries_seen + 1 /\ budget' = budget => Left' = Left - 1
<1>1. budget.max_entries \in Nat /\ entries_seen \in Nat
  BY BudgetsOK DEF TypeOK
<1>. QED
  BY <1>1 DEF Left

(* A walk step that takes a directory off the stack, one that ends a listing and one
   that looks at an entry all leave less to do. *)
LEMMA WalkStepWork ==
  ASSUME WorkFacts, WorkFacts',
         phase \in {"walk", "list"}, phase' \in {"walk", "list"}, budget' = budget,
         \/ phase = "walk" /\ Left' = Left /\ Len(stack') = Len(stack) - 1
         \/ /\ phase = "list" /\ phase' = "walk"
            /\ Left' = Left /\ Len(stack') = Len(stack)
         \/ /\ phase = "list" /\ phase' = "list"
            /\ Left' = Left - 1 /\ Len(stack') <= Len(stack) + 1
  PROVE  Work' < Work /\ Work' >= 0
<1>1. PICK F \in Nat : F = budget.max_files
  BY DEF WorkFacts
<1>2. /\ phase = "walk" => Work = F + 3 + 3 * Left + 2 * Len(stack)
      /\ phase = "list" => Work = F + 4 + 3 * Left + 2 * Len(stack)
      /\ Left \in Int /\ Left >= 1 /\ Len(stack) \in Nat
  BY <1>1 DEF WorkFacts
<1>3. /\ phase' = "walk" => Work' = F + 3 + 3 * Left' + 2 * Len(stack')
      /\ phase' = "list" => Work' = F + 4 + 3 * Left' + 2 * Len(stack')
      /\ Left' \in Int /\ Left' >= 1 /\ Len(stack') \in Nat
  BY <1>1 DEF WorkFacts
<1>. QED
  BY <1>2, <1>3, SMTT(40)

LEMMA WorkStep ==
  ASSUME TypeOK, WorkFacts, WorkFacts', Next
  PROVE  (Work' < Work /\ Work' >= 0) \/ UNCHANGED vars
<1>1. stack # << >> /\ stack' = Rest => Len(stack') = Len(stack) - 1
  BY PopStack
<1>2. CASE OpenDir
  BY <1>1, <1>2, LeftStep, WalkStepWork DEF OpenDir, call
<1>3. CASE OpenDirFails
  <2>1. CASE Top[2] = 0
    <3>1. phase = "walk" /\ phase' = "error"
      BY <1>3, <2>1 DEF OpenDirFails
    <3>2. Work' = 0
      BY <3>1 DEF WorkFacts
    <3>3. PICK F \in Nat : F = budget.max_files
      BY DEF WorkFacts
    <3>4. /\ Work = F + 3 + 3 * Left + 2 * Len(stack)
          /\ Left \in Int /\ Left >= 1 /\ Len(stack) \in Nat
      BY <3>1, <3>3 DEF WorkFacts
    <3>. QED
      BY <3>2, <3>4
  <2>2. CASE Top[2] # 0
    BY <1>1, <1>3, <2>2, LeftStep, WalkStepWork DEF OpenDirFails, call
  <2>. QED
    BY <2>1, <2>2
<1>4. CASE ListingEnds
  BY <1>4, LeftStep, WalkStepWork, Len(stack) = Len(stack) DEF ListingEnds, call, walk
<1>5. ASSUME Collected(out), phase \in {"walk", "list"}
      PROVE  Work' < Work /\ Work' >= 0
  <2>1. phase' = "scan" /\ queue' = Scored(out)
    BY <1>5 DEF Collected
  <2>2. PICK F \in Nat : F = budget.max_files
    BY DEF WorkFacts
  <2>3. Work' = Cardinality(Scored(out)) + 1
    BY <2>1 DEF WorkFacts
  <2>4. Cardinality(Scored(out)) \in Nat /\ Cardinality(Scored(out)) <= F
    BY <2>2 DEF WorkFacts
  <2>5. /\ Work \in {F + 3 + 3 * Left + 2 * Len(stack), F + 4 + 3 * Left + 2 * Len(stack)}
        /\ Left \in Int /\ Left >= 1 /\ Len(stack) \in Nat
    BY <1>5, <2>2 DEF WorkFacts
  <2>. QED
    BY <2>3, <2>4, <2>5
<1>6. CASE TooManyEntries
  BY <1>5, <1>6 DEF TooManyEntries, MoreEntries
<1>7. CASE WalkEnds
  BY <1>5, <1>7 DEF WalkEnds
<1>8. CASE EntryFails \/ PassOver
  <2>1. /\ phase = "list" /\ phase' = "list" /\ entries_seen' = entries_seen + 1
        /\ UNCHANGED <<budget, stack>>
    BY <1>8 DEF EntryFails, PassOver, MoreEntries, call
  <2>2. Len(stack') <= Len(stack) + 1
    BY <2>1 DEF WorkFacts
  <2>. QED
    BY <2>1, <2>2, LeftStep, WalkStepWork
<1>9. CASE TakeDir
  <2>1. PICK n \in listing :
           /\ Kind(n) = "dir"
           /\ \/ stack' = stack
              \/ stack' = Append(stack, <<n, depth + 1>>)
    BY <1>9 DEF TakeDir
  <2>2. n \in Nodes /\ depth + 1 \in Nat
    BY <2>1 DEF TypeOK, Children
  <2>3. Len(stack) \in Nat
    BY DEF WorkFacts
  <2>4. Len(stack') <= Len(stack) + 1
    BY <2>1, <2>2, <2>3, PushStack
  <2>5. /\ entries_seen' = entries_seen + 1 /\ phase = "list" /\ phase' = "list"
        /\ budget' = budget
    BY <1>9 DEF TakeDir, MoreEntries, call
  <2>. QED
    BY <2>4, <2>5, LeftStep, WalkStepWork
<1>10. CASE TakeFile
  <2>1. phase = "list" /\ entries_seen' = entries_seen + 1 /\ UNCHANGED <<budget, stack>>
    BY <1>10 DEF TakeFile, MoreEntries, call
  <2>2. CASE FilesFull
    BY <1>5, <1>10, <2>1, <2>2 DEF TakeFile
  <2>3. CASE ~FilesFull
    <3>1. phase' = phase
      BY <1>10, <2>3 DEF TakeFile
    <3>2. Len(stack') <= Len(stack) + 1
      BY <2>1 DEF WorkFacts
    <3>. QED
      BY <2>1, <3>1, <3>2, LeftStep, WalkStepWork
  <2>. QED
    BY <2>2, <2>3
<1>11. CASE ScoreUnopened \/ ScoreFile
  <2>1. PICK f \in queue : queue' = queue \ {f}
    BY <1>11 DEF ScoreUnopened, ScoreFile, Record
  <2>2. phase = "scan" /\ phase' = "scan"
    BY <1>11 DEF ScoreUnopened, ScoreFile
  <2>3. /\ Work = Cardinality(queue) + 1 /\ Cardinality(queue) \in Nat
        /\ IsFiniteSet(queue)
        /\ Work' = Cardinality(queue') + 1 /\ Cardinality(queue') \in Nat
    BY <2>2 DEF WorkFacts
  <2>4. Cardinality(queue') = Cardinality(queue) - 1
    BY <2>1, <2>3, FS_RemoveElement
  <2>. QED
    BY <2>3, <2>4
<1>12. CASE RefuseFile \/ AllScored
  <2>1. phase = "scan" /\ phase' = "done"
    BY <1>12 DEF RefuseFile, AllScored
  <2>2. Work = Cardinality(queue) + 1 /\ Cardinality(queue) \in Nat /\ Work' = 0
    BY <2>1 DEF WorkFacts
  <2>. QED
    BY <2>2
<1>13. CASE Ended
  BY <1>13 DEF Ended
<1>. QED
  BY <1>2, <1>3, <1>4, <1>6, <1>7, <1>8, <1>9, <1>10, <1>11, <1>12, <1>13 DEF Next

(* Every step of a scan brings it nearer its end, whatever the target holds: a scan
   takes no more steps than its budget allows. *)
THEOREM EachStepAdvances == Spec => ScanAdvances
<1>1. Init => BudgetInv
  BY BudgetInit
<1>2. /\ TypeOK /\ WorkFacts /\ WorkFacts' /\ [Next]_vars
      => [Work' < Work /\ Work' >= 0]_vars
  BY WorkStep
<1>. QED
  BY <1>1, <1>2, WalkCorrect, BudgetStep, WorkOf, PTL DEF Spec, ScanAdvances

=============================================================================
