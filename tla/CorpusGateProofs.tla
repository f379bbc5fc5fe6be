-------------------------- MODULE CorpusGateProofs --------------------------
(***************************************************************************)
(* Theorems about CorpusGate: for any file systems, limits and roots the   *)
(* plan accounts for every file, and for any number of workers, any plan   *)
(* and any builds the pool is complete and the gate sound.  The pool knows *)
(* nothing of how chunks are planned, only that they are a sequence.       *)
(***************************************************************************)
EXTENDS CorpusGate, FiniteSetTheorems, WellFoundedInduction, TLAPS

(***************************************************************************)
(* The inductive invariant.                                                *)
(***************************************************************************)
Holds(w) == wpc[w] \in {"check", "run"}

\* A chunk is held by one worker at most, and only once the counter has passed it.
HeldInv ==
  /\ \A w \in Workers : Holds(w) => at[w] < next
  /\ \A v, w \in Workers : Holds(v) /\ Holds(w) /\ at[v] = at[w] => v = w

\* How often a build has run on a chunk follows from who holds it.
RanInv ==
  /\ \A b \in BuildNames, i \in 1..Total : ran[b][i] <= 1
  /\ \A b \in BuildNames, i \in 1..Total : next <= i => ran[b][i] = 0
  /\ \A w \in Workers : wpc[w] = "check" => \A b \in BuildNames : ran[b][at[w]] = 0
  /\ \A w \in Workers : wpc[w] = "run" =>
       ran["new"][at[w]] = 0 /\ (build[w] = 1 => ran["base"][at[w]] = 0)

\* As long as nothing failed, what the counter has passed is run or held, and no
\* worker leaves before the end of the list.
CountInv ==
  /\ main = "start" => next = 1
  /\ failure = "none" =>
       /\ \A i \in 1..Total : i < next =>
            \/ \A b \in BuildNames : ran[b][i] = 1
            \/ \E w \in Workers :
                 /\ Holds(w) /\ at[w] = i
                 /\ wpc[w] = "run" /\ build[w] = 2 => ran["base"][i] = 1
       /\ main = "pool" =>
            \A w \in Workers : w <= Total /\ wpc[w] = "gone" => Total < next

\* The pool has at least one worker, and after it all have left.
MainInv ==
  /\ call \in Invocations
  /\ main # "start" /\ status # ToolError => Total > 0 /\ call.jobs > 0
  /\ main # "pool" => \A w \in Workers : wpc[w] \in {"none", "gone"}
  /\ main = "done" <=> status # -1
  /\ main = "diff" \/ status \in {Passed, RegressionExit} =>
       failure = "none" /\ Total < next

\* navctl's run on a chunk ended before it had a line for each file it has one for.
Excused(b, i) == ended[b][i] \in {"died", "stopped", "mounted"}

\* What the sinks hold of the chunks that were run.
SinkInv ==
  /\ \A b \in BuildNames, i \in 1..Total :
       ran[b][i] # 0 => Excused(b, i) \/ Listed(call, Chunks[i]) \subseteq DOMAIN sink[b]
  /\ status = Passed => GatePassed /\ \A b \in BuildNames : ~torn[b]

GateInv == TypeOK /\ HeldInv /\ RanInv /\ CountInv /\ MainInv /\ SinkInv

(***************************************************************************)
(* Lemmas.                                                                 *)
(***************************************************************************)
\* What the assumptions say of the run of the tool.
LEMMA CallType ==
  ASSUME call \in Invocations
  PROVE  call.jobs \in Nat /\ Total \in Nat
BY InvocationsOK DEF Total, Chunks

\* Counting one more, in a table of counts.
LEMMA CountedOnce ==
  ASSUME NEW S, NEW T, NEW f \in [S -> [T -> Nat]], NEW s \in S, NEW t \in T
  PROVE  [f EXCEPT ![s][t] = @ + 1] \in [S -> [T -> Nat]]
<1>1. f[s] \in [T -> Nat]
  OBVIOUS
<1>2. f[s][t] \in Nat
  BY <1>1
<1>3. f[s][t] + 1 \in Nat
  BY <1>2
<1>4. [f[s] EXCEPT ![t] = @ + 1] \in [T -> Nat]
  BY <1>1, <1>3
<1> QED BY <1>4

\* Replacing one entry, in a table of any kind.
LEMMA EndingType ==
  ASSUME NEW S, NEW T, NEW V, NEW f \in [S -> [T -> V]], NEW s \in S, NEW t \in T, NEW v \in V
  PROVE  [f EXCEPT ![s][t] = v] \in [S -> [T -> V]]
<1>1. f[s] \in [T -> V]
  OBVIOUS
<1>2. [f[s] EXCEPT ![t] = v] \in [T -> V]
  BY <1>1
<1> QED BY <1>1, <1>2

\* What navctl's run on a chunk leaves, answered or not.
LEMMA RunRecords ==
  ASSUME NEW w \in Workers, RunChunk(w) \/ RunChunkDies(w)
  PROVE  \E how \in Endings : \E lines :
           /\ lines \in [DOMAIN lines -> Verdicts] /\ Recorded(w, lines)
           /\ ended' = [ended EXCEPT ![Build(w)][at[w]] = how]
           /\ how # "none" /\ (how = "all" => DOMAIN lines = Listed(call, Chunks[at[w]]))
<1>1. CASE RunChunk(w)
  <2>1. PICK how \in {"all", "stopped", "mounted"},
             files \in SUBSET Listed(call, Chunks[at[w]]) \cup SUBSET Volume(call, Chunks[at[w]]) :
          /\ Answers(call, Chunks[at[w]], how, files)
          /\ \E lines \in [files -> Verdicts] : Recorded(w, lines)
          /\ ended' = [ended EXCEPT ![Build(w)][at[w]] = how]
    BY <1>1 DEF RunChunk
  <2>2. how \in Endings /\ how # "none" /\ (how = "all" => files = Listed(call, Chunks[at[w]]))
    BY <2>1 DEF Answers, Endings
  <2>3. PICK lines \in [files -> Verdicts] : Recorded(w, lines)
    BY <2>1
  <2>4. DOMAIN lines = files /\ lines \in [DOMAIN lines -> Verdicts]
    BY <2>3
  <2> QED BY <2>1, <2>2, <2>3, <2>4
<1>2. CASE RunChunkDies(w)
  <2>1. PICK files \in SUBSET Listed(call, Chunks[at[w]]) \cup SUBSET Volume(call, Chunks[at[w]]) :
          \E lines \in [files -> Verdicts] : Recorded(w, lines)
    BY <1>2 DEF RunChunkDies
  <2>2. ended' = [ended EXCEPT ![Build(w)][at[w]] = "died"]
    BY <1>2 DEF RunChunkDies
  <2>3. PICK lines \in [files -> Verdicts] : Recorded(w, lines)
    BY <2>1
  <2>4. lines \in [DOMAIN lines -> Verdicts]
    BY <2>3
  <2> QED BY <2>2, <2>3, <2>4 DEF Endings
<1> QED BY <1>1, <1>2

\* What recording the lines of a chunk does, whether navctl answered or died.
LEMMA RecordedType ==
  ASSUME TypeOK, NEW w \in Workers, wpc[w] = "run",
         NEW files, NEW lines \in [files -> Verdicts],
         Recorded(w, lines)
  PROVE  /\ wpc' \in [Workers -> {"none", "take", "check", "run", "gone"}]
         /\ build' \in [Workers -> 1..2]
         /\ DOMAIN sink' = BuildNames
         /\ \A b \in BuildNames : sink'[b] \in [DOMAIN sink'[b] -> Verdicts]
         /\ \A b \in BuildNames : DOMAIN sink[b] \subseteq DOMAIN sink'[b]
         /\ DOMAIN lines \subseteq DOMAIN sink'[Build(w)]
         /\ ran' = [ran EXCEPT ![Build(w)][at[w]] = @ + 1]
         /\ ran' \in [BuildNames -> [1..Total -> Nat]]
         /\ Build(w) = IF build[w] = 1 THEN "base" ELSE "new"
         /\ \/ build' = [build EXCEPT ![w] = @ + 1] /\ build[w] = 1 /\ wpc' = wpc
            \/ build' = build /\ build[w] = 2 /\ wpc' = [wpc EXCEPT ![w] = "take"]
<1>1. build[w] \in 1..2 /\ Build(w) = IF build[w] = 1 THEN "base" ELSE "new"
  BY DEF TypeOK, Build, Builds
<1>2. Build(w) \in BuildNames
  BY <1>1 DEF BuildNames
<1>3. at[w] \in 1..Total
  BY DEF TypeOK
<1>4. /\ ran' = [ran EXCEPT ![Build(w)][at[w]] = @ + 1]
      /\ ran' \in [BuildNames -> [1..Total -> Nat]]
  <2>1. ran' = [ran EXCEPT ![Build(w)][at[w]] = @ + 1]
    BY DEF Recorded
  <2>2. ran \in [BuildNames -> [1..Total -> Nat]]
    BY DEF TypeOK
  <2> QED BY <1>2, <1>3, <2>1, <2>2, CountedOnce
<1>5. \/ build' = [build EXCEPT ![w] = @ + 1] /\ build[w] = 1 /\ wpc' = wpc
      \/ build' = build /\ build[w] = 2 /\ wpc' = [wpc EXCEPT ![w] = "take"]
  <2>1. Len(Builds) = 2
    BY DEF Builds
  <2>2. CASE build[w] = 1
    <3>1. build[w] < Len(Builds)
      BY <2>1, <2>2
    <3> QED BY <3>1, <2>2 DEF Recorded
  <2>3. CASE build[w] = 2
    <3>1. ~(build[w] < Len(Builds))
      BY <2>1, <2>3
    <3> QED BY <3>1, <2>3 DEF Recorded
  <2> QED BY <2>2, <2>3, <1>1
<1>6. /\ wpc' \in [Workers -> {"none", "take", "check", "run", "gone"}]
      /\ build' \in [Workers -> 1..2]
  <2>1. /\ wpc \in [Workers -> {"none", "take", "check", "run", "gone"}]
        /\ build \in [Workers -> 1..2]
    BY DEF TypeOK
  <2> QED BY <1>5, <2>1
<1>7. DOMAIN sink' = BuildNames
  BY DEF Recorded, TypeOK
<1>8. ASSUME NEW b \in BuildNames
      PROVE  /\ sink'[b] \in [DOMAIN sink'[b] -> Verdicts]
             /\ DOMAIN sink[b] \subseteq DOMAIN sink'[b]
             /\ b = Build(w) => DOMAIN lines \subseteq DOMAIN sink'[b]
  <2>1. CASE b = Build(w)
    <3>1. sink'[b] = [f \in DOMAIN sink[b] \cup DOMAIN lines |->
                        IF f \in DOMAIN lines THEN lines[f] ELSE sink[b][f]]
      BY <2>1, <1>2 DEF Recorded, TypeOK
    <3>2. sink[b] \in [DOMAIN sink[b] -> Verdicts]
      BY DEF TypeOK
    <3> QED BY <3>1, <3>2
  <2>2. CASE b # Build(w)
    <3>1. sink'[b] = sink[b]
      BY <2>2 DEF Recorded, TypeOK
    <3> QED BY <3>1, <2>2 DEF TypeOK
  <2> QED BY <2>1, <2>2
<1> QED BY <1>1, <1>2, <1>4, <1>5, <1>6, <1>7, <1>8

LEMMA TypeInit == Init => TypeOK /\ call \in Invocations
<1> SUFFICES ASSUME Init PROVE TypeOK /\ call \in Invocations
  OBVIOUS
<1>1. call \in Invocations /\ Total \in Nat
  BY CallType DEF Init
<1>2. \A b \in BuildNames : sink[b] \in [DOMAIN sink[b] -> Verdicts]
  <2> SUFFICES ASSUME NEW b \in BuildNames PROVE sink[b] \in [DOMAIN sink[b] -> Verdicts]
    OBVIOUS
  <2>1. sink[b] = << >>
    BY DEF Init
  <2>2. DOMAIN sink[b] = {} /\ sink[b] = [f \in {} |-> {}]
    BY <2>1
  <2> QED BY <2>2
<1>3. DOMAIN sink = BuildNames
  BY DEF Init
<1>4. ended \in [BuildNames -> [1..Total -> Endings]]
  <2>1. "none" \in Endings
    BY DEF Endings
  <2>2. [i \in 1..Total |-> "none"] \in [1..Total -> Endings]
    BY <2>1
  <2> QED BY <2>2 DEF Init
<1>5. ran \in [BuildNames -> [1..Total -> Nat]] /\ torn \in [BuildNames -> BOOLEAN]
  BY DEF Init
<1>6. /\ wpc \in [Workers -> {"none", "take", "check", "run", "gone"}]
      /\ at \in [Workers -> Nat] /\ build \in [Workers -> 1..2]
      /\ \A w \in Workers : wpc[w] \notin {"check", "run"}
  BY DEF Init
<1>7. /\ main = "start" /\ next = 1 /\ failure = "none" /\ status = -1
  BY DEF Init
<1> QED BY <1>1, <1>2, <1>3, <1>4, <1>5, <1>6, <1>7 DEF TypeOK, Passed, ToolError, RegressionExit

LEMMA TypeStep ==
  TypeOK /\ call \in Invocations /\ [Next]_vars => TypeOK' /\ call' = call
<1> SUFFICES ASSUME TypeOK, call \in Invocations, [Next]_vars
             PROVE  TypeOK' /\ call' = call
  OBVIOUS
<1> USE DEF Passed, ToolError, RegressionExit
<1>0. call.jobs \in Nat /\ Total \in Nat
  BY CallType
<1>1. CASE StartPool
  BY <1>1 DEF StartPool, Exit, TypeOK, output, Workers, Total, Chunks
<1>2. CASE Join
  BY <1>2 DEF Join, Exit, TypeOK, pool, output, Workers, Total, Chunks
<1>3. CASE Diff
  BY <1>3 DEF Diff, Exit, TypeOK, pool, output, Workers, Total, Chunks
<1>4. ASSUME NEW w \in Workers, Take(w) PROVE TypeOK' /\ call' = call
  <2>1. \A v \in Workers : wpc'[v] \in {"check", "run"} => at'[v] \in 1..Total'
    BY <1>0, <1>4 DEF Take, TypeOK, Workers, Total, Chunks
  <2> QED BY <1>4, <2>1 DEF Take, TypeOK, output, Workers, Total, Chunks
<1>5. ASSUME NEW w \in Workers, CheckFailure(w) PROVE TypeOK' /\ call' = call
  BY <1>5 DEF CheckFailure, TypeOK, output, Workers, Total, Chunks
<1>6. ASSUME NEW w \in Workers, RunChunk(w) \/ RunChunkDies(w)
      PROVE  TypeOK' /\ call' = call
  <2>1. PICK how \in Endings : \E lines :
          /\ lines \in [DOMAIN lines -> Verdicts] /\ Recorded(w, lines)
          /\ ended' = [ended EXCEPT ![Build(w)][at[w]] = how]
    BY <1>6, RunRecords
  <2>2. PICK lines :
          /\ lines \in [DOMAIN lines -> Verdicts] /\ Recorded(w, lines)
          /\ ended' = [ended EXCEPT ![Build(w)][at[w]] = how]
    BY <2>1
  <2>3. wpc[w] = "run" /\ UNCHANGED <<call, main, next, at, failure, status>>
    BY <1>6 DEF RunChunk, RunChunkDies
  <2>4. \A v \in Workers : wpc'[v] \in {"check", "run"} => wpc[v] \in {"check", "run"}
    BY <2>2, <2>3 DEF Recorded, TypeOK
  <2>5. torn' \in [BuildNames -> BOOLEAN]
    BY <1>6 DEF RunChunk, RunChunkDies, TypeOK
  <2>6. /\ wpc' \in [Workers -> {"none", "take", "check", "run", "gone"}]
        /\ build' \in [Workers -> 1..2]
        /\ DOMAIN sink' = BuildNames
        /\ \A b \in BuildNames : sink'[b] \in [DOMAIN sink'[b] -> Verdicts]
        /\ ran' \in [BuildNames -> [1..Total -> Nat]]
    BY <2>2, <2>3, RecordedType
  <2>7. ended' \in [BuildNames -> [1..Total -> Endings]]
    <3>1. at[w] \in 1..Total /\ Build(w) \in BuildNames
      BY <2>2, <2>3, RecordedType DEF TypeOK, BuildNames
    <3>2. ended \in [BuildNames -> [1..Total -> Endings]]
      BY DEF TypeOK
    <3> QED BY <2>2, <3>1, <3>2, EndingType
  <2> QED BY <2>3, <2>4, <2>5, <2>6, <2>7 DEF TypeOK, Workers, Total, Chunks
<1>7. ASSUME NEW w \in Workers, RunChunkFails(w) PROVE TypeOK' /\ call' = call
  BY <1>7 DEF RunChunkFails, TypeOK, output, Workers, Total, Chunks
<1>8. CASE UNCHANGED vars
  BY <1>8 DEF vars, pool, output, TypeOK, Workers, Total, Chunks
<1> QED BY <1>1, <1>2, <1>3, <1>4, <1>5, <1>6, <1>7, <1>8 DEF Next, Worker, Ended

\* What running a build on a chunk does, answered or not.
LEMMA RunsOn ==
  ASSUME TypeOK, NEW w \in Workers, RunChunk(w) \/ RunChunkDies(w)
  PROVE  /\ wpc[w] = "run" /\ at[w] \in 1..Total /\ build[w] \in 1..2
         /\ UNCHANGED <<call, main, next, at, failure, status>>
         /\ Build(w) = IF build[w] = 1 THEN "base" ELSE "new"
         /\ ran' = [ran EXCEPT ![Build(w)][at[w]] = @ + 1]
         /\ \/ build' = [build EXCEPT ![w] = @ + 1] /\ build[w] = 1 /\ wpc' = wpc
            \/ build' = build /\ build[w] = 2 /\ wpc' = [wpc EXCEPT ![w] = "take"]
         /\ \A b \in BuildNames : DOMAIN sink[b] \subseteq DOMAIN sink'[b]
         /\ \A b \in BuildNames, i \in 1..Total :
              ~(b = Build(w) /\ i = at[w]) => ended'[b][i] = ended[b][i]
         /\ \/ ended'[Build(w)][at[w]] \in {"died", "stopped", "mounted"}
            \/ Listed(call, Chunks[at[w]]) \subseteq DOMAIN sink'[Build(w)]
<1>1. wpc[w] = "run" /\ UNCHANGED <<call, main, next, at, failure, status>>
  BY DEF RunChunk, RunChunkDies
<1>2. at[w] \in 1..Total /\ build[w] \in 1..2
  BY <1>1 DEF TypeOK
<1>3. PICK how \in Endings : \E lines :
        /\ lines \in [DOMAIN lines -> Verdicts] /\ Recorded(w, lines)
        /\ ended' = [ended EXCEPT ![Build(w)][at[w]] = how]
        /\ how # "none" /\ (how = "all" => DOMAIN lines = Listed(call, Chunks[at[w]]))
  BY RunRecords
<1>4. PICK lines :
        /\ lines \in [DOMAIN lines -> Verdicts] /\ Recorded(w, lines)
        /\ ended' = [ended EXCEPT ![Build(w)][at[w]] = how]
        /\ how # "none" /\ (how = "all" => DOMAIN lines = Listed(call, Chunks[at[w]]))
  BY <1>3
<1>5. Build(w) \in BuildNames
  BY <1>1, <1>4, RecordedType DEF BuildNames
<1>6. ended \in [BuildNames -> [1..Total -> Endings]]
  BY DEF TypeOK
<1>7. \A b \in BuildNames, i \in 1..Total :
        ended'[b][i] = IF b = Build(w) /\ i = at[w] THEN how ELSE ended[b][i]
  <2>. DEFINE n == Build(w)
              c == at[w]
  <2>1. n \in BuildNames /\ c \in 1..Total
    BY <1>2, <1>5
  <2>2. ended' = [ended EXCEPT ![n][c] = how]
    BY <1>4
  <2>3. ended[n] \in [1..Total -> Endings]
    BY <1>6, <2>1
  <2> SUFFICES ASSUME NEW b \in BuildNames, NEW i \in 1..Total
               PROVE  ended'[b][i] = IF b = n /\ i = c THEN how ELSE ended[b][i]
    OBVIOUS
  <2>. HIDE DEF n, c
  <2> QED BY <1>6, <2>1, <2>2, <2>3
<1>8. CASE how = "all"
  BY <1>1, <1>2, <1>4, <1>7, <1>8, RecordedType
<1>9. CASE how # "all"
  <2>1. ended'[Build(w)][at[w]] \in {"died", "stopped", "mounted"}
    <3>1. ended'[Build(w)][at[w]] = how
      BY <1>2, <1>5, <1>7
    <3>2. how \in {"died", "stopped", "mounted"}
      BY <1>4, <1>9 DEF Endings
    <3> QED BY <3>1, <3>2
  <2> QED BY <1>1, <1>2, <1>4, <1>7, <2>1, RecordedType
<1> QED BY <1>8, <1>9

\* The same, of the table of counts.
LEMMA RunsOnce ==
  ASSUME TypeOK, NEW w \in Workers, RunChunk(w) \/ RunChunkDies(w)
  PROVE  \A b \in BuildNames, i \in 1..Total :
           ran'[b][i] = IF b = Build(w) /\ i = at[w] THEN ran[b][i] + 1 ELSE ran[b][i]
<1>1. /\ ran' = [ran EXCEPT ![Build(w)][at[w]] = @ + 1]
      /\ Build(w) \in BuildNames /\ at[w] \in 1..Total
  BY RunsOn DEF BuildNames
<1>2. ran \in [BuildNames -> [1..Total -> Nat]]
  BY DEF TypeOK
<1> QED BY <1>1, <1>2

\* Two workers never hold the same chunk: the counter gives each index out once.
LEMMA HeldStep == TypeOK /\ HeldInv /\ [Next]_vars => HeldInv'
<1> SUFFICES ASSUME TypeOK, HeldInv, [Next]_vars PROVE HeldInv'
  OBVIOUS
<1>1. ASSUME call' = call, at' = at, next' = next,
             \A v \in Workers : Holds(v)' => Holds(v)
      PROVE  HeldInv'
  BY <1>1 DEF HeldInv, Workers
<1>2. CASE StartPool
  BY <1>2, <1>1 DEF StartPool, Holds, TypeOK, Workers
<1>3. CASE Join \/ Diff \/ UNCHANGED vars
  BY <1>3, <1>1 DEF Join, Diff, vars, pool, Holds
<1>4. ASSUME NEW w \in Workers, Take(w) PROVE HeldInv'
  <2>1. \A v \in Workers : v # w => at'[v] = at[v] /\ (Holds(v)' => Holds(v))
    BY <1>4 DEF Take, Holds, TypeOK
  <2>2. at'[w] = next /\ next' = next + 1 /\ next \in Nat /\ Workers' = Workers
    BY <1>4 DEF Take, TypeOK, Workers
  <2>3. \A v \in Workers : at[v] \in Nat
    BY DEF TypeOK
  <2> QED BY <2>1, <2>2, <2>3 DEF HeldInv
<1>5. ASSUME NEW w \in Workers, CheckFailure(w) PROVE HeldInv'
  BY <1>5, <1>1 DEF CheckFailure, Holds, TypeOK
<1>6. ASSUME NEW w \in Workers, RunChunk(w) \/ RunChunkDies(w) PROVE HeldInv'
  <2>1. \A v \in Workers : Holds(v)' => Holds(v)
    BY <1>6, RunsOn DEF Holds, TypeOK
  <2> QED BY <1>6, <2>1, <1>1, RunsOn
<1>7. ASSUME NEW w \in Workers, RunChunkFails(w) PROVE HeldInv'
  BY <1>7, <1>1 DEF RunChunkFails, Holds, TypeOK
<1> QED BY <1>2, <1>3, <1>4, <1>5, <1>6, <1>7 DEF Next, Worker, Ended

\* No build is run twice on a chunk.
LEMMA RanStep ==
  TypeOK /\ TypeOK' /\ HeldInv /\ RanInv /\ call' = call /\ [Next]_vars => RanInv'
<1> SUFFICES ASSUME TypeOK, TypeOK', HeldInv, RanInv, call' = call, [Next]_vars
             PROVE  RanInv'
  OBVIOUS
<1>0. Workers' = Workers /\ Total' = Total
  BY DEF Workers, Total, Chunks
<1>1. ASSUME ran' = ran, at' = at, next' = next, build' = build,
             \A v \in Workers : wpc'[v] = wpc[v] \/ wpc'[v] \notin {"check", "run"}
      PROVE  RanInv'
  BY <1>0, <1>1 DEF RanInv
<1>2. CASE StartPool
  BY <1>2, <1>1 DEF StartPool, TypeOK, output
<1>3. CASE Join \/ Diff \/ UNCHANGED vars
  BY <1>3, <1>1 DEF Join, Diff, vars, pool, output
<1>4. ASSUME NEW w \in Workers, Take(w) PROVE RanInv'
  <2>1. /\ ran' = ran /\ build' = build /\ next' = next + 1 /\ next \in Nat
        /\ at'[w] = next /\ wpc'[w] \in {"check", "gone"}
    BY <1>4 DEF Take, TypeOK, output
  <2>2. \A v \in Workers : v # w => at'[v] = at[v] /\ wpc'[v] = wpc[v]
    BY <1>4 DEF Take, TypeOK
  <2>3. wpc'[w] = "check" => at'[w] \in 1..Total
    BY <1>0 DEF TypeOK
  <2> QED BY <1>0, <2>1, <2>2, <2>3 DEF RanInv
<1>5. ASSUME NEW w \in Workers, CheckFailure(w) PROVE RanInv'
  <2>1. /\ ran' = ran /\ at' = at /\ next' = next
        /\ wpc[w] = "check" /\ wpc'[w] \in {"run", "gone"} /\ build'[w] = 1
    BY <1>5 DEF CheckFailure, TypeOK, output
  <2>2. \A v \in Workers : v # w => build'[v] = build[v] /\ wpc'[v] = wpc[v]
    BY <1>5 DEF CheckFailure, TypeOK
  <2> QED BY <1>0, <2>1, <2>2 DEF RanInv, BuildNames
<1>6. ASSUME NEW w \in Workers, RunChunk(w) \/ RunChunkDies(w) PROVE RanInv'
  <2>1. /\ at' = at /\ next' = next /\ wpc[w] = "run" /\ at[w] \in 1..Total
        /\ Build(w) = IF build[w] = 1 THEN "base" ELSE "new"
    BY <1>6, RunsOn
  <2>2. ran[Build(w)][at[w]] = 0 /\ ran["new"][at[w]] = 0
    BY <2>1, <1>6, RunsOn DEF RanInv
  <2>3. \A b \in BuildNames, i \in 1..Total :
          ran'[b][i] = IF b = Build(w) /\ i = at[w] THEN 1 ELSE ran[b][i]
    BY <1>6, <2>2, RunsOnce
  <2>4. at[w] < next
    BY <2>1 DEF HeldInv, Holds
  <2>5. ASSUME NEW v \in Workers, v # w, wpc'[v] \in {"check", "run"}
        PROVE  /\ wpc'[v] = wpc[v] /\ build'[v] = build[v] /\ at[v] \in 1..Total
               /\ \A b \in BuildNames : ran'[b][at[v]] = ran[b][at[v]]
    <3>1. wpc'[v] = wpc[v] /\ build'[v] = build[v]
      BY <1>6, <2>5, RunsOn DEF TypeOK
    <3>2. at[v] # at[w] /\ at[v] \in 1..Total
      BY <2>1, <2>5, <3>1 DEF HeldInv, Holds, TypeOK
    <3> QED BY <3>1, <3>2, <2>3
  <2>6. wpc'[w] = "run" => build'[w] = 2 /\ Build(w) = "base"
    BY <1>6, RunsOn DEF TypeOK
  <2>7. wpc'[w] # "check"
    BY <1>6, RunsOn, ZenonT(60) DEF TypeOK
  <2>8. \A b \in BuildNames, i \in 1..Total : ran'[b][i] <= 1
    BY <2>3 DEF RanInv
  <2>9. ASSUME NEW b \in BuildNames, NEW i \in 1..Total, next' <= i
        PROVE  ran'[b][i] = 0
    <3>1. next \in Nat /\ i \in Int
      BY DEF TypeOK
    <3>2. i # at[w]
      BY <2>1, <2>4, <2>9, <3>1
    <3>3. ran'[b][i] = ran[b][i]
      BY <2>3, <3>2
    <3> QED BY <2>1, <2>9, <3>3 DEF RanInv
  <2>10. ASSUME NEW v \in Workers, wpc'[v] = "check", NEW b \in BuildNames
         PROVE  ran'[b][at'[v]] = 0
    BY <2>10, <2>1, <2>5, <2>7 DEF RanInv
  <2>11. ASSUME NEW v \in Workers, wpc'[v] = "run"
         PROVE  ran'["new"][at'[v]] = 0 /\ (build'[v] = 1 => ran'["base"][at'[v]] = 0)
    <3>1. CASE v = w
      BY <3>1, <2>11, <2>1, <2>2, <2>3, <2>6 DEF BuildNames
    <3>2. CASE v # w
      BY <3>2, <2>11, <2>1, <2>5 DEF RanInv, BuildNames
    <3> QED BY <3>1, <3>2
  <2> QED BY <1>0, <2>8, <2>9, <2>10, <2>11 DEF RanInv
<1>7. ASSUME NEW w \in Workers, RunChunkFails(w) PROVE RanInv'
  BY <1>7, <1>1 DEF RunChunkFails, TypeOK, output
<1> QED BY <1>2, <1>3, <1>4, <1>5, <1>6, <1>7 DEF Next, Worker, Ended

\* While nothing failed, every index the counter has passed is run or held.
LEMMA CountStep ==
  GateInv /\ TypeOK' /\ call' = call /\ [Next]_vars => CountInv'
<1> SUFFICES ASSUME GateInv, TypeOK', call' = call, [Next]_vars
             PROVE  CountInv'
  OBVIOUS
<1>0. /\ Workers' = Workers /\ Total' = Total /\ Total \in Nat /\ call.jobs \in Nat
      /\ next \in Nat
  BY CallType DEF GateInv, TypeOK, MainInv, Workers, Total, Chunks
<1>1. ASSUME NEW w \in Workers, wpc[w] \notin {"none", "gone"} PROVE main = "pool"
  BY <1>1 DEF GateInv, MainInv
<1>2. CASE StartPool
  <2>1. next' = 1 /\ (main' = "pool" => \A w \in Workers : wpc'[w] = "gone" => w > Total)
    BY <1>2, <1>0 DEF StartPool, GateInv, CountInv, Exit, Workers
  <2>2. \A w \in Workers : w \in Int
    BY DEF Workers
  <2> QED BY <1>0, <2>1, <2>2 DEF CountInv
<1>3. CASE Join
  BY <1>3, <1>0 DEF Join, Exit, GateInv, CountInv, Holds, pool, output
<1>4. CASE Diff
  BY <1>4, <1>0 DEF Diff, Exit, GateInv, CountInv, Holds, pool, output
<1>5. CASE UNCHANGED vars
  BY <1>5, <1>0 DEF vars, GateInv, CountInv, Holds, pool, output
<1>6. ASSUME NEW w \in Workers, Take(w) PROVE CountInv'
  <2>1. /\ main = "pool" /\ main' = main /\ failure' = failure /\ build' = build
        /\ ran' = ran /\ wpc[w] = "take" /\ next' = next + 1 /\ at'[w] = next
        /\ wpc'[w] = IF next <= Total THEN "check" ELSE "gone"
        /\ \A v \in Workers : v # w => at'[v] = at[v] /\ wpc'[v] = wpc[v]
    BY <1>6 DEF Take, GateInv, TypeOK, output
  <2>2. ASSUME failure = "none", NEW i \in 1..Total, i < next + 1
        PROVE  \/ \A b \in BuildNames : ran'[b][i] = 1
               \/ \E v \in Workers :
                    /\ Holds(v)' /\ at'[v] = i
                    /\ wpc'[v] = "run" /\ build'[v] = 2 => ran'["base"][i] = 1
    <3>1. CASE i = next
      BY <3>1, <2>1, <1>0 DEF Holds
    <3>2. CASE i < next
      BY <3>2, <2>1, <2>2 DEF GateInv, CountInv, Holds
    <3> QED BY <3>1, <3>2, <2>2, <1>0
  <2>3. ASSUME failure = "none", NEW v \in Workers, v <= Total, wpc'[v] = "gone"
        PROVE  Total < next'
    <3>1. CASE v = w
      BY <3>1, <2>1, <2>3, <1>0
    <3>2. CASE v # w
      BY <3>2, <2>1, <2>3, <1>0 DEF GateInv, CountInv
    <3> QED BY <3>1, <3>2
  <2> QED BY <1>0, <2>1, <2>2, <2>3 DEF CountInv
<1>7. ASSUME NEW w \in Workers, CheckFailure(w) PROVE CountInv'
  <2>1. /\ main' = main /\ main = "pool" /\ failure' = failure /\ ran' = ran
        /\ next' = next /\ at' = at /\ wpc[w] = "check" /\ build'[w] = 1
        /\ wpc'[w] = IF failure = "none" THEN "run" ELSE "gone"
        /\ \A v \in Workers : v # w => build'[v] = build[v] /\ wpc'[v] = wpc[v]
    BY <1>7, <1>1 DEF CheckFailure, GateInv, TypeOK, output
  <2>2. ASSUME failure = "none", NEW i \in 1..Total, i < next
        PROVE  \/ \A b \in BuildNames : ran'[b][i] = 1
               \/ \E v \in Workers :
                    /\ Holds(v)' /\ at'[v] = i
                    /\ wpc'[v] = "run" /\ build'[v] = 2 => ran'["base"][i] = 1
    BY <2>1, <2>2 DEF GateInv, CountInv, Holds
  <2>3. ASSUME failure = "none", NEW v \in Workers, v <= Total, wpc'[v] = "gone"
        PROVE  Total < next
    BY <2>1, <2>3 DEF GateInv, CountInv
  <2> QED BY <1>0, <2>1, <2>2, <2>3 DEF CountInv
<1>8. ASSUME NEW w \in Workers, RunChunk(w) \/ RunChunkDies(w) PROVE CountInv'
  <2>1. /\ main' = main /\ main = "pool" /\ failure' = failure
        /\ next' = next /\ at' = at /\ wpc[w] = "run" /\ at[w] \in 1..Total
        /\ Build(w) = IF build[w] = 1 THEN "base" ELSE "new"
    BY <1>8, <1>1, RunsOn DEF GateInv
  <2>2. \/ build[w] = 1 /\ build'[w] = 2 /\ wpc'[w] = "run"
        \/ build[w] = 2 /\ wpc'[w] = "take"
    BY <1>8, RunsOn DEF GateInv, TypeOK
  <2>3. \A v \in Workers : v # w => build'[v] = build[v] /\ wpc'[v] = wpc[v]
    BY <1>8, RunsOn DEF GateInv, TypeOK
  <2>4. ran[Build(w)][at[w]] = 0 /\ ran["new"][at[w]] = 0
    BY <2>1, <1>8, RunsOn DEF GateInv, RanInv
  <2>5. \A b \in BuildNames, i \in 1..Total :
          ran'[b][i] = IF b = Build(w) /\ i = at[w] THEN 1 ELSE ran[b][i]
    BY <1>8, <2>4, RunsOnce DEF GateInv
  <2>6. ASSUME failure = "none", NEW i \in 1..Total, i < next
        PROVE  \/ \A b \in BuildNames : ran'[b][i] = 1
               \/ \E v \in Workers :
                    /\ Holds(v)' /\ at'[v] = i
                    /\ wpc'[v] = "run" /\ build'[v] = 2 => ran'["base"][i] = 1
    <3>1. CASE i = at[w] /\ build[w] = 1
      BY <3>1, <2>1, <2>2, <2>5 DEF Holds, BuildNames
    <3>2. CASE i = at[w] /\ build[w] = 2
      <4>1. ran["base"][i] = 1
        <5>1. \A v \in Workers : Holds(v) /\ at[v] = i => v = w
          BY <3>2, <2>1 DEF GateInv, HeldInv, Holds
        <5>2. ran["new"][i] # 1 /\ "new" \in BuildNames
          BY <3>2, <2>4 DEF BuildNames
        <5> QED BY <5>1, <5>2, <3>2, <2>1, <2>6 DEF GateInv, CountInv
      <4>2. ran'["base"][i] = 1 /\ ran'["new"][i] = 1
        BY <4>1, <3>2, <2>1, <2>5 DEF BuildNames
      <4> QED BY <4>2 DEF BuildNames
    <3>3. CASE i # at[w]
      <4>1. \A b \in BuildNames : ran'[b][i] = ran[b][i]
        BY <3>3, <2>5
      <4>2. CASE \A b \in BuildNames : ran[b][i] = 1
        BY <4>1, <4>2
      <4>3. CASE \E v \in Workers :
                   /\ Holds(v) /\ at[v] = i
                   /\ wpc[v] = "run" /\ build[v] = 2 => ran["base"][i] = 1
        BY <4>1, <4>3, <3>3, <2>1, <2>3 DEF Holds, BuildNames
      <4> QED BY <4>2, <4>3, <2>6 DEF GateInv, CountInv
    <3> QED BY <3>1, <3>2, <3>3, <2>2
  <2>7. ASSUME failure = "none", NEW v \in Workers, v <= Total, wpc'[v] = "gone"
        PROVE  Total < next
    BY <2>1, <2>2, <2>3, <2>7 DEF GateInv, CountInv
  <2> QED BY <1>0, <2>1, <2>6, <2>7 DEF CountInv
<1>9. ASSUME NEW w \in Workers, RunChunkFails(w) PROVE CountInv'
  BY <1>9, <1>0, <1>1 DEF RunChunkFails, CountInv, GateInv, TypeOK
<1> QED BY <1>2, <1>3, <1>4, <1>5, <1>6, <1>7, <1>8, <1>9 DEF Next, Worker, Ended

\* The pool has workers, and what ends it.
LEMMA MainStep ==
  GateInv /\ TypeOK' /\ call' = call /\ [Next]_vars => MainInv'
<1> SUFFICES ASSUME GateInv, TypeOK', call' = call, [Next]_vars
             PROVE  MainInv'
  OBVIOUS
<1> USE DEF Passed, ToolError, RegressionExit
<1>0. /\ Workers' = Workers /\ Total' = Total /\ Total \in Nat /\ call.jobs \in Nat
      /\ call \in Invocations
  BY CallType DEF GateInv, MainInv, Workers, Total, Chunks
<1>1. CASE StartPool
  <2>1. Chunks # << >> => Total > 0
    BY <1>0, InvocationsOK DEF Total, Chunks
  <2> QED BY <1>0, <1>1, <2>1 DEF StartPool, Exit, GateInv, MainInv
<1>2. CASE Join
  <2>1. status = -1 /\ Total > 0 /\ call.jobs > 0
    BY <1>2 DEF Join, GateInv, MainInv
  <2>2. 1 \in Workers /\ 1 <= Total
    BY <2>1, <1>0 DEF Workers
  <2>3. failure = "none" => Total < next
    BY <1>2, <2>2 DEF Join, GateInv, CountInv
  <2> QED BY <1>0, <1>2, <2>1, <2>3 DEF Join, Exit, GateInv, MainInv, pool
<1>3. CASE Diff
  BY <1>0, <1>3 DEF Diff, Exit, GateInv, MainInv, pool
<1>4. ASSUME NEW w \in Workers, Worker(w) PROVE MainInv'
  <2>1. wpc[w] \in {"take", "check", "run"} /\ UNCHANGED <<main, status>>
    BY <1>4, RunsOn DEF Worker, Take, CheckFailure, RunChunkFails, GateInv
  <2>2. main = "pool" /\ status = -1
    BY <2>1 DEF GateInv, MainInv
  <2> QED BY <1>0, <2>1, <2>2 DEF GateInv, MainInv
<1>5. CASE UNCHANGED vars
  BY <1>0, <1>5 DEF vars, pool, GateInv, MainInv
<1> QED BY <1>1, <1>2, <1>3, <1>4, <1>5 DEF Next, Ended

\* A chunk that was run left a line for each file navctl has one for, unless it died on
\* it, was stopped by a ceiling or mounted it.
LEMMA SinkStep ==
  GateInv /\ TypeOK' /\ call' = call /\ [Next]_vars => SinkInv'
<1> SUFFICES ASSUME GateInv, TypeOK', call' = call, [Next]_vars
             PROVE  SinkInv'
  OBVIOUS
<1> USE DEF Passed, ToolError, RegressionExit
<1>0. Total' = Total /\ Chunks' = Chunks
  BY DEF Total, Chunks
<1>1. ASSUME UNCHANGED output, status' = status \/ status' # Passed
      PROVE  SinkInv'
  <2>1. GatePassed' <=> GatePassed
    BY <1>1 DEF output, GatePassed, Regressions, Regressed, Base, New
  <2> QED BY <1>0, <1>1, <2>1 DEF output, GateInv, SinkInv, Excused
<1>2. CASE StartPool \/ Join
  BY <1>1, <1>2 DEF StartPool, Join, Exit
<1>3. CASE Diff
  <2>1. UNCHANGED output
    BY <1>3 DEF Diff
  <2>2. GatePassed' <=> GatePassed
    BY <2>1 DEF output, GatePassed, Regressions, Regressed, Base, New
  <2>3. status' = Passed => GatePassed /\ \A b \in BuildNames : ~torn[b]
    BY <1>3 DEF Diff, Exit
  <2> QED BY <1>0, <2>1, <2>2, <2>3 DEF output, GateInv, SinkInv, Excused
<1>4. ASSUME NEW w \in Workers, Take(w) \/ CheckFailure(w) \/ RunChunkFails(w)
      PROVE  SinkInv'
  BY <1>1, <1>4 DEF Take, CheckFailure, RunChunkFails
<1>5. ASSUME NEW w \in Workers, RunChunk(w) \/ RunChunkDies(w) PROVE SinkInv'
  <2>1. /\ status' = status /\ at[w] \in 1..Total
        /\ \A b \in BuildNames : DOMAIN sink[b] \subseteq DOMAIN sink'[b]
        /\ \A b \in BuildNames, i \in 1..Total :
             ~(b = Build(w) /\ i = at[w]) => ended'[b][i] = ended[b][i]
        /\ \/ ended'[Build(w)][at[w]] \in {"died", "stopped", "mounted"}
           \/ Listed(call, Chunks[at[w]]) \subseteq DOMAIN sink'[Build(w)]
    BY <1>5, RunsOn DEF GateInv
  <2>2. status # Passed
    BY <1>5, RunsOn DEF GateInv, MainInv
  <2>3. ASSUME NEW b \in BuildNames, NEW i \in 1..Total, ran'[b][i] # 0
        PROVE  \/ ended'[b][i] \in {"died", "stopped", "mounted"}
               \/ Listed(call, Chunks[i]) \subseteq DOMAIN sink'[b]
    <3>1. CASE b = Build(w) /\ i = at[w]
      BY <2>1, <3>1
    <3>2. CASE ~(b = Build(w) /\ i = at[w])
      <4>1. ran[b][i] # 0
        BY <1>5, <2>3, <3>2, RunsOnce DEF GateInv
      <4> QED BY <2>1, <3>2, <4>1 DEF GateInv, SinkInv, Excused
    <3> QED BY <3>1, <3>2
  <2> QED BY <1>0, <2>1, <2>2, <2>3 DEF SinkInv, Excused
<1>6. CASE UNCHANGED vars
  BY <1>1, <1>6 DEF vars
<1> QED BY <1>2, <1>3, <1>4, <1>5, <1>6 DEF Next, Worker, Ended

LEMMA GateInit == Init => GateInv
<1> SUFFICES ASSUME Init PROVE GateInv
  OBVIOUS
<1>1. TypeOK /\ call \in Invocations /\ Total \in Nat
  BY TypeInit, CallType
<1>2. HeldInv /\ RanInv /\ CountInv /\ MainInv
  BY <1>1 DEF Init, HeldInv, RanInv, CountInv, MainInv, Holds, Workers,
     Passed, ToolError, RegressionExit
<1>3. \A b \in BuildNames, i \in 1..Total : ran[b][i] = 0
  BY DEF Init
<1>4. status # Passed
  BY DEF Init, Passed
<1> QED BY <1>1, <1>2, <1>3, <1>4 DEF GateInv, SinkInv

\* GateInv is inductive.
THEOREM GateInvariant == Spec => []GateInv
<1>1. GateInv /\ [Next]_vars => GateInv'
  BY TypeStep, HeldStep, RanStep, CountStep, MainStep, SinkStep DEF GateInv, MainInv
<1> QED BY <1>1, GateInit, PTL DEF Spec

\* Why the pool is complete: nobody holds a chunk once everyone has left.
LEMMA EveryChunkOnce == GateInv => PoolComplete
<1> SUFFICES ASSUME GateInv PROVE PoolComplete
  OBVIOUS
<1>1. \A b \in BuildNames, i \in 1..Total : ran[b][i] <= 1
  BY DEF GateInv, RanInv
<1>2. ASSUME main = "diff" \/ status \in {Passed, RegressionExit},
             NEW b \in BuildNames, NEW i \in 1..Total
      PROVE  ran[b][i] = 1
  <2>1. failure = "none" /\ Total < next
    BY <1>2 DEF GateInv, MainInv
  <2>2. main # "pool"
    BY <1>2 DEF GateInv, MainInv, Passed, RegressionExit
  <2>3. \A w \in Workers : ~Holds(w)
    BY <2>2 DEF GateInv, MainInv, Holds
  <2>4. i < next
    BY <2>1, CallType DEF GateInv, MainInv, TypeOK
  <2> QED BY <2>1, <2>3, <2>4 DEF GateInv, CountInv
<1> QED BY <1>1, <1>2 DEF PoolComplete

(***************************************************************************)
(* The plan.                                                               *)
(***************************************************************************)
\* A set of numbers that holds 0 and every successor holds every number.
LEMMA UpFromZero ==
  ASSUME NEW S, 0 \in S, \A n \in Nat : n \in S => n + 1 \in S
  PROVE  Nat \subseteq S
<1>. DEFINE R == OpToRel(<, Nat)
            T == Nat \ S
<1>1. IsWellFoundedOn(R, Nat)
  BY NatLessThanWellFounded
<1>2. \A a, b \in Nat : a < b => <<a, b>> \in R
  BY DEF OpToRel
<1>3. ASSUME T # {} PROVE FALSE
  <2>1. PICK x \in T : \A y \in T : ~(<<y, x>> \in R)
    <3>. HIDE DEF R
    <3>. T \subseteq Nat
      OBVIOUS
    <3>. QED BY <1>1, <1>3, WFMin, Zenon
  <2>. HIDE DEF R
  <2>2. x # 0 /\ x \in Nat
    OBVIOUS
  <2>3. x - 1 \in Nat /\ x - 1 < x /\ (x - 1) + 1 = x
    BY <2>2
  <2>4. x - 1 \notin T
    BY <1>2, <2>1, <2>2, <2>3, Zenon
  <2>. QED BY <2>3, <2>4
<1>. QED BY <1>3

\* What a walk along kids from d comes to: the least set with d that is closed.
Reach(kids, d) ==
  {n \in Nodes : \A S \in SUBSET Nodes :
     d \in S /\ (\A m \in S : kids[m] \subseteq S) => n \in S}

LEMMA ReachLeast ==
  ASSUME NEW kids \in [Nodes -> SUBSET Nodes], NEW d \in Nodes,
         NEW S \in SUBSET Nodes, d \in S, \A m \in S : kids[m] \subseteq S
  PROVE  Reach(kids, d) \subseteq S
BY DEF Reach

LEMMA ReachClosed ==
  ASSUME NEW kids \in [Nodes -> SUBSET Nodes], NEW d \in Nodes
  PROVE  /\ Reach(kids, d) \in SUBSET Nodes /\ d \in Reach(kids, d)
         /\ \A m \in Reach(kids, d) : kids[m] \subseteq Reach(kids, d)
<1>1. Reach(kids, d) \in SUBSET Nodes /\ d \in Reach(kids, d)
  BY DEF Reach
<1>2. ASSUME NEW m \in Reach(kids, d), NEW n \in kids[m] PROVE n \in Reach(kids, d)
  <2>1. m \in Nodes /\ n \in Nodes
    BY <1>1, <1>2
  <2>2. ASSUME NEW S \in SUBSET Nodes, d \in S, \A x \in S : kids[x] \subseteq S
        PROVE  n \in S
    <3>1. m \in S
      BY <2>2 DEF Reach
    <3>. QED BY <2>2, <3>1
  <2>. QED BY <2>1, <2>2 DEF Reach
<1>. QED BY <1>1, <1>2

\* It is d and what is reached from where d leads.
LEMMA ReachStep ==
  ASSUME NEW kids \in [Nodes -> SUBSET Nodes], NEW d \in Nodes
  PROVE  Reach(kids, d) = {d} \cup UNION {Reach(kids, n) : n \in kids[d]}
<1>. DEFINE S == {d} \cup UNION {Reach(kids, n) : n \in kids[d]}
<1>1. kids[d] \subseteq Nodes
  OBVIOUS
<1>2. S \in SUBSET Nodes
  BY <1>1, ReachClosed
<1>3. ASSUME NEW m \in S PROVE kids[m] \subseteq S
  <2>1. CASE m = d
    BY <1>1, <2>1, ReachClosed
  <2>2. CASE m # d
    <3>1. PICK n \in kids[d] : m \in Reach(kids, n)
      BY <2>2
    <3>2. kids[m] \subseteq Reach(kids, n)
      BY <1>1, <3>1, ReachClosed
    <3>. QED BY <3>2
  <2>. QED BY <2>1, <2>2
<1>4. Reach(kids, d) \subseteq S
  <2>1. d \in S
    OBVIOUS
  <2>. HIDE DEF S
  <2>. QED BY <1>2, <1>3, <2>1, ReachLeast
<1>5. ASSUME NEW n \in kids[d] PROVE Reach(kids, n) \subseteq Reach(kids, d)
  <2>1. n \in Nodes /\ n \in Reach(kids, d)
    BY <1>1, ReachClosed
  <2>. QED BY <2>1, ReachClosed, ReachLeast
<1>. QED BY <1>4, <1>5, ReachClosed

\* f is what recursion along kids makes of base.
Collects(f, kids, base) ==
  f = [d \in Nodes |-> base[d] \cup UNION {f[n] : n \in kids[d]}]

LEMMA CollectionExists ==
  ASSUME NEW kids \in [Nodes -> SUBSET Nodes], NEW base
  PROVE  \E f : Collects(f, kids, base)
<1>. DEFINE f == [d \in Nodes |-> UNION {base[m] : m \in Reach(kids, d)}]
<1>1. ASSUME NEW d \in Nodes PROVE f[d] = base[d] \cup UNION {f[n] : n \in kids[d]}
  <2>1. \A n \in kids[d] : n \in Nodes /\ f[n] = UNION {base[m] : m \in Reach(kids, n)}
    OBVIOUS
  <2>2. f[d] = UNION {base[m] : m \in Reach(kids, d)}
    OBVIOUS
  <2>. HIDE DEF f
  <2>3. Reach(kids, d) = {d} \cup UNION {Reach(kids, n) : n \in kids[d]}
    BY ReachStep
  <2>4. ASSUME NEW x \in f[d] PROVE x \in base[d] \cup UNION {f[n] : n \in kids[d]}
    <3>1. PICK m \in Reach(kids, d) : x \in base[m]
      BY <2>2, <2>4
    <3>2. CASE m # d
      <4>1. PICK n \in kids[d] : m \in Reach(kids, n)
        BY <2>3, <3>2
      <4>2. x \in f[n]
        BY <2>1, <3>1, <4>1
      <4>. QED BY <4>2
    <3>. QED BY <3>1, <3>2
  <2>5. ASSUME NEW x \in base[d] PROVE x \in f[d]
    BY <2>2, <2>3, <2>5
  <2>6. ASSUME NEW n \in kids[d], NEW x \in f[n] PROVE x \in f[d]
    <3>1. PICK m \in Reach(kids, n) : x \in base[m]
      BY <2>1, <2>6
    <3>2. m \in Reach(kids, d)
      BY <2>3, <3>1
    <3>. QED BY <2>2, <3>1, <3>2
  <2>. QED BY <2>4, <2>5, <2>6
<1>2. f = [d \in Nodes |-> f[d]]
  OBVIOUS
<1>. HIDE DEF f
<1>3. Collects(f, kids, base)
  BY <1>1, <1>2 DEF Collects
<1>. QED BY <1>3

-----------------------------------------------------------------------------
\* Every directory of a file system comes after its subdirectories in some order.
LEMMA BottomUp ==
  ASSUME NEW k \in Invocations, NEW S,
         \A d \in Nodes : (\A n \in Subdirs(k, d) : n \in S) => d \in S
  PROVE  Nodes \subseteq S
<1>1. PICK depth \in [Nodes -> 0..Cardinality(Nodes)] :
        \A n \in DOMAIN k.up : k.up[n] \in Nodes => depth[k.up[n]] < depth[n]
  BY FileSystemsOK
<1>2. Cardinality(Nodes) \in Nat
  BY FileSystemsOK, FS_CardinalityType
<1>. DEFINE H == Cardinality(Nodes)
            T == {i \in Nat : \A d \in Nodes : H - depth[d] <= i => d \in S}
<1>. HIDE DEF H
<1>3. H \in Nat /\ \A d \in Nodes : depth[d] \in 0..H
  BY <1>1, <1>2 DEF H
<1>4. ASSUME NEW d \in Nodes, NEW n \in Subdirs(k, d)
      PROVE  n \in Nodes /\ depth[d] < depth[n]
  BY <1>1, FileSystemsOK DEF Subdirs, Children
<1>5. 0 \in T
  <2>1. ASSUME NEW d \in Nodes, H - depth[d] <= 0 PROVE d \in S
    <3>1. ASSUME NEW n \in Subdirs(k, d) PROVE FALSE
      <4>1. n \in Nodes /\ depth[d] < depth[n]
        BY <1>4
      <4>2. depth[d] \in 0..H /\ depth[n] \in 0..H
        BY <1>3, <4>1
      <4>. QED BY <1>3, <2>1, <4>1, <4>2
    <3>. QED BY <3>1
  <2>. QED BY <2>1
<1>6. ASSUME NEW i \in Nat, i \in T PROVE i + 1 \in T
  <2>1. ASSUME NEW d \in Nodes, H - depth[d] <= i + 1 PROVE d \in S
    <3>1. ASSUME NEW n \in Subdirs(k, d) PROVE n \in S
      <4>1. n \in Nodes /\ depth[d] < depth[n]
        BY <1>4
      <4>2. depth[d] \in 0..H /\ depth[n] \in 0..H
        BY <1>3, <4>1
      <4>3. H - depth[n] <= i
        BY <1>3, <2>1, <4>1, <4>2
      <4>. QED BY <1>6, <4>1, <4>3
    <3>. QED BY <3>1
  <2>. QED BY <2>1
<1>7. H \in T
  <2>. HIDE DEF T
  <2>1. Nat \subseteq T
    BY <1>5, <1>6, UpFromZero
  <2>. QED BY <1>3, <2>1
<1>8. ASSUME NEW d \in Nodes PROVE d \in S
  <2>1. depth[d] \in 0..H
    BY <1>3
  <2>2. H - depth[d] <= H
    BY <1>3, <2>1
  <2>. QED BY <1>7, <2>2
<1>. QED BY <1>8

\* A walk from d goes down its subdirectories.
Below(k, d) == Reach([m \in Nodes |-> Subdirs(k, m)], d)

LEMMA Walks ==
  ASSUME NEW k \in Invocations
  PROVE  /\ [m \in Nodes |-> Subdirs(k, m)] \in [Nodes -> SUBSET Nodes]
         /\ \A d \in Nodes : Subdirs(k, d) \subseteq Nodes /\ Loose(k, d) \subseteq Nodes
<1>1. DOMAIN k.up \subseteq Nodes
  BY FileSystemsOK
<1>2. \A d \in Nodes : Subdirs(k, d) \subseteq Nodes /\ Loose(k, d) \subseteq Nodes
  BY <1>1 DEF Subdirs, Loose, Children
<1>. QED BY <1>2

LEMMA FilesBelowIs ==
  ASSUME NEW k \in Invocations, NEW d \in Nodes
  PROVE  FilesBelow(k)[d] = Loose(k, d) \cup UNION {FilesBelow(k)[n] : n \in Subdirs(k, d)}
<1>. DEFINE F(f) == [e \in Nodes |-> Loose(k, e) \cup UNION {f[n] : n \in Subdirs(k, e)}]
            kids == [m \in Nodes |-> Subdirs(k, m)]
            base == [m \in Nodes |-> Loose(k, m)]
            below == CHOOSE f : f = F(f)
<1>1. PICK f : Collects(f, kids, base)
  <2>1. kids \in [Nodes -> SUBSET Nodes]
    BY Walks
  <2>. HIDE DEF kids, base
  <2>. QED BY <2>1, CollectionExists
<1>2. f = F(f)
  <2>1. \A e \in Nodes : base[e] = Loose(k, e) /\ kids[e] = Subdirs(k, e)
    OBVIOUS
  <2>. HIDE DEF base, kids
  <2>. QED BY <1>1, <2>1 DEF Collects
<1>3. below = F(below)
  <2>. HIDE DEF F
  <2>. QED BY <1>2, Zenon
<1>4. FilesBelow(k) = below
  BY Zenon DEF FilesBelow
<1>. HIDE DEF below
<1>5. below[d] = Loose(k, d) \cup UNION {below[n] : n \in Subdirs(k, d)}
  BY <1>3
<1>. QED BY <1>4, <1>5

LEMMA LockedBelowIs ==
  ASSUME NEW k \in Invocations, NEW d \in Nodes
  PROVE  LockedBelow(k)[d] =
           (IF k.kind[d] = "locked" THEN {d} ELSE {})
             \cup UNION {LockedBelow(k)[n] : n \in Subdirs(k, d)}
<1>. DEFINE F(f) == [e \in Nodes |-> (IF k.kind[e] = "locked" THEN {e} ELSE {})
                                       \cup UNION {f[n] : n \in Subdirs(k, e)}]
            kids == [m \in Nodes |-> Subdirs(k, m)]
            base == [m \in Nodes |-> IF k.kind[m] = "locked" THEN {m} ELSE {}]
            below == CHOOSE f : f = F(f)
<1>1. PICK f : Collects(f, kids, base)
  <2>1. kids \in [Nodes -> SUBSET Nodes]
    BY Walks
  <2>. HIDE DEF kids, base
  <2>. QED BY <2>1, CollectionExists
<1>2. f = F(f)
  <2>1. \A e \in Nodes : /\ base[e] = IF k.kind[e] = "locked" THEN {e} ELSE {}
                         /\ kids[e] = Subdirs(k, e)
    OBVIOUS
  <2>. HIDE DEF base, kids
  <2>. QED BY <1>1, <2>1 DEF Collects
<1>3. below = F(below)
  <2>. HIDE DEF F
  <2>. QED BY <1>2, Zenon
<1>4. LockedBelow(k) = below
  BY Zenon DEF LockedBelow
<1>. HIDE DEF below
<1>5. below[d] = (IF k.kind[d] = "locked" THEN {d} ELSE {})
                   \cup UNION {below[n] : n \in Subdirs(k, d)}
  BY <1>3
<1>. QED BY <1>4, <1>5

\* A navctl run over all that is below p, and one over p alone.
WholeRun(i, p) == Chunk(i, p, TRUE)
LooseRun(i, p) == Chunk(i, p, FALSE)

\* A directory is split when it is no bundle and what is below it is too much.
Split(k, d) ==
  k.kind[d] # "app" /\ FilesBelow(k)[d] # {} /\ ~Fits(k, FilesBelow(k)[d])

ChunksBelow(k, i, d) == UNION {PlanDir(k, i)[n].chunks : n \in Subdirs(k, d)}
NotesBelow(k, i, d) == UNION {PlanDir(k, i)[n].notes : n \in Subdirs(k, d)}

LEMMA PlanDirIs ==
  ASSUME NEW k \in Invocations, NEW i, NEW d \in Nodes
  PROVE  LET plan == PlanDir(k, i)
             files == FilesBelow(k)[d]
         IN /\ k.kind[d] = "app" => plan[d].chunks = {WholeRun(i, d)}
            /\ k.kind[d] # "app" /\ files = {} =>
                 plan[d].chunks = {} /\ plan[d].notes = {d}
            /\ k.kind[d] # "app" /\ files # {} /\ Fits(k, files) =>
                 plan[d].chunks = {WholeRun(i, d)}
            /\ Split(k, d) =>
                 /\ plan[d].chunks = LooseChunks(k, i, d) \cup ChunksBelow(k, i, d)
                 /\ plan[d].notes = NotesBelow(k, i, d)
<1>. DEFINE files(e) == FilesBelow(k)[e]
            P(f, e) ==
              CASE k.kind[e] = "app" ->
                     [chunks |-> {Chunk(i, e, TRUE)},
                      notes |-> IF Fits(k, files(e)) THEN {} ELSE {e}]
                [] k.kind[e] # "app" /\ files(e) = {} ->
                     [chunks |-> {}, notes |-> {e}]
                [] k.kind[e] # "app" /\ files(e) # {} /\ Fits(k, files(e)) ->
                     [chunks |-> {Chunk(i, e, TRUE)}, notes |-> {}]
                [] OTHER ->
                     [chunks |-> LooseChunks(k, i, e)
                                   \cup UNION {f[n].chunks : n \in Subdirs(k, e)},
                      notes |-> UNION {f[n].notes : n \in Subdirs(k, e)}]
            F(f) == [e \in Nodes |-> P(f, e)]
            plan == CHOOSE f : f = F(f)
            kids == [m \in Nodes |-> IF Split(k, m) THEN Subdirs(k, m) ELSE {}]
            none == [m \in Nodes |-> {}]
            chunks == [m \in Nodes |-> IF Split(k, m) THEN LooseChunks(k, i, m)
                                       ELSE P(none, m).chunks]
            notes == [m \in Nodes |-> IF Split(k, m) THEN {} ELSE P(none, m).notes]
<1>1. PICK c : Collects(c, kids, chunks)
  <2>1. kids \in [Nodes -> SUBSET Nodes]
    BY Walks
  <2>. HIDE DEF kids, chunks
  <2>. QED BY <2>1, CollectionExists
<1>2. PICK t : Collects(t, kids, notes)
  <2>1. kids \in [Nodes -> SUBSET Nodes]
    BY Walks
  <2>. HIDE DEF kids, notes
  <2>. QED BY <2>1, CollectionExists
<1>. DEFINE f == [e \in Nodes |-> [chunks |-> c[e], notes |-> t[e]]]
<1>3. ASSUME NEW e \in Nodes PROVE f[e] = P(f, e)
  <2>1. f[e] = [chunks |-> c[e], notes |-> t[e]]
    OBVIOUS
  <2>2. \A n \in Subdirs(k, e) : f[n].chunks = c[n] /\ f[n].notes = t[n]
    BY Walks
  <2>. HIDE DEF f
  <2>3. CASE Split(k, e)
    <3>1. c[e] = LooseChunks(k, i, e) \cup UNION {c[n] : n \in Subdirs(k, e)}
      BY <1>1, <2>3 DEF Collects
    <3>2. t[e] = UNION {t[n] : n \in Subdirs(k, e)}
      BY <1>2, <2>3 DEF Collects
    <3>3. P(f, e) = [chunks |-> LooseChunks(k, i, e)
                                  \cup UNION {f[n].chunks : n \in Subdirs(k, e)},
                     notes |-> UNION {f[n].notes : n \in Subdirs(k, e)}]
      BY <2>3 DEF Split
    <3>4. /\ UNION {f[n].chunks : n \in Subdirs(k, e)} = UNION {c[n] : n \in Subdirs(k, e)}
          /\ UNION {f[n].notes : n \in Subdirs(k, e)} = UNION {t[n] : n \in Subdirs(k, e)}
      BY <2>2
    <3>. QED BY <2>1, <3>1, <3>2, <3>3, <3>4, Zenon
  <2>4. CASE ~Split(k, e)
    <3>1. kids[e] = {} /\ chunks[e] = P(none, e).chunks /\ notes[e] = P(none, e).notes
      BY <2>4
    <3>2. c[e] = P(none, e).chunks /\ t[e] = P(none, e).notes
      <4>. HIDE DEF kids, chunks, notes, P
      <4>1. /\ c[e] = chunks[e] \cup UNION {c[n] : n \in kids[e]}
            /\ t[e] = notes[e] \cup UNION {t[n] : n \in kids[e]}
        BY <1>1, <1>2 DEF Collects
      <4>2. UNION {c[n] : n \in kids[e]} = {} /\ UNION {t[n] : n \in kids[e]} = {}
        BY <3>1
      <4>3. c[e] = chunks[e] /\ t[e] = notes[e]
        <5>1. \A X : X \cup {} = X
          OBVIOUS
        <5>. QED BY <4>1, <4>2, <5>1
      <4>. QED BY <3>1, <4>3, Zenon
    <3>3. P(f, e) = P(none, e) /\ \E a, b : P(f, e) = [chunks |-> a, notes |-> b]
      BY <2>4 DEF Split
    <3>. HIDE DEF P
    <3>. QED BY <2>1, <3>2, <3>3
  <2>. QED BY <2>3, <2>4
<1>4. f = F(f)
  <2>1. f = [e \in Nodes |-> f[e]]
    OBVIOUS
  <2>. HIDE DEF f, P
  <2>. QED BY <1>3, <2>1
<1>5. plan = F(plan)
  <2>. HIDE DEF F
  <2>. QED BY <1>4, Zenon
<1>6. PlanDir(k, i) = plan
  BY Zenon DEF PlanDir
<1>. DEFINE q == PlanDir(k, i)
            C == UNION {q[n].chunks : n \in Subdirs(k, d)}
            N == UNION {q[n].notes : n \in Subdirs(k, d)}
<1>7. q = F(q)
  <2>. HIDE DEF F, plan
  <2>. QED BY <1>5, <1>6, Zenon
<1>. HIDE DEF q, plan
<1>8. q[d] = P(q, d)
  <2>. HIDE DEF P
  <2>. QED BY <1>7
<1>9. ASSUME k.kind[d] = "app" PROVE q[d].chunks = {Chunk(i, d, TRUE)}
  <2>1. P(q, d) = [chunks |-> {Chunk(i, d, TRUE)},
                   notes |-> IF Fits(k, files(d)) THEN {} ELSE {d}]
    BY <1>9
  <2>. HIDE DEF P
  <2>. QED BY <1>8, <2>1
<1>10. ASSUME k.kind[d] # "app", files(d) = {} PROVE q[d].chunks = {} /\ q[d].notes = {d}
  BY <1>8, <1>10
<1>11. ASSUME k.kind[d] # "app", files(d) # {}, Fits(k, files(d))
       PROVE  q[d].chunks = {Chunk(i, d, TRUE)}
  <2>1. P(q, d) = [chunks |-> {Chunk(i, d, TRUE)}, notes |-> {}]
    BY <1>11
  <2>. HIDE DEF P
  <2>. QED BY <1>8, <2>1
<1>12. ASSUME Split(k, d) PROVE q[d].chunks = LooseChunks(k, i, d) \cup C /\ q[d].notes = N
  <2>1. P(q, d) = [chunks |-> LooseChunks(k, i, d) \cup C, notes |-> N]
    BY <1>12 DEF Split
  <2>. HIDE DEF P, C, N
  <2>. QED BY <1>8, <2>1
<1>13. C = ChunksBelow(k, i, d) /\ N = NotesBelow(k, i, d)
  BY DEF ChunksBelow, NotesBelow, q
<1>. HIDE DEF C, N
<1>. QED BY <1>9, <1>10, <1>11, <1>12, <1>13 DEF q, WholeRun

-----------------------------------------------------------------------------
\* Walks from two subdirectories of a directory come to nothing in common, nor back
\* to the directory.
LEMMA WalksApart ==
  ASSUME NEW k \in Invocations, NEW d \in Nodes, NEW n \in Subdirs(k, d)
  PROVE  /\ d \notin Below(k, n)
         /\ \A m \in Subdirs(k, d) : m # n => Below(k, n) \cap Below(k, m) = {}
<1>. DEFINE kids == [m \in Nodes |-> Subdirs(k, m)]
<1>1. /\ kids \in [Nodes -> SUBSET Nodes] /\ \A x \in Nodes : kids[x] = Subdirs(k, x)
      /\ \A x : Below(k, x) = Reach(kids, x)
  BY Walks DEF Below
<1>. HIDE DEF kids
<1>2. \A x \in Nodes : /\ Below(k, x) \in SUBSET Nodes /\ x \in Below(k, x)
                       /\ \A y \in Below(k, x) : Subdirs(k, y) \subseteq Below(k, x)
  <2>1. ASSUME NEW x \in Nodes
        PROVE  /\ Reach(kids, x) \in SUBSET Nodes /\ x \in Reach(kids, x)
               /\ \A y \in Reach(kids, x) : kids[y] \subseteq Reach(kids, x)
    BY <1>1, ReachClosed
  <2>. QED BY <1>1, <2>1
<1>3. ASSUME NEW x \in Nodes, NEW S \in SUBSET Nodes, x \in S,
             \A y \in S : Subdirs(k, y) \subseteq S
      PROVE  Below(k, x) \subseteq S
  <2>1. \A y \in S : kids[y] \subseteq S
    BY <1>1, <1>3
  <2>. QED BY <1>1, <1>3, <2>1, ReachLeast
<1>4. \A x \in Nodes : \A y \in Subdirs(k, x) : y \in Nodes /\ k.up[y] = x
  BY Walks DEF Subdirs, Children
<1>5. ASSUME NEW m \in Subdirs(k, d) PROVE d \notin Below(k, m)
  <2>1. PICK depth \in [Nodes -> 0..Cardinality(Nodes)] :
          \A y \in DOMAIN k.up : k.up[y] \in Nodes => depth[k.up[y]] < depth[y]
    BY FileSystemsOK
  <2>2. \A y \in Nodes : depth[y] \in Int
    BY <2>1
  <2>3. \A x \in Nodes : \A y \in Subdirs(k, x) : depth[x] < depth[y]
    <3>1. ASSUME NEW x \in Nodes, NEW y \in Subdirs(k, x) PROVE y \in DOMAIN k.up
      BY DEF Subdirs, Children
    <3>. QED BY <1>4, <2>1, <3>1
  <2>. DEFINE S == {y \in Nodes : depth[m] <= depth[y]}
  <2>4. m \in Nodes /\ m \in S
    BY <1>4, <2>2
  <2>5. ASSUME NEW x \in S, NEW y \in Subdirs(k, x) PROVE y \in S
    <3>1. y \in Nodes /\ depth[x] < depth[y]
      BY <1>4, <2>3
    <3>. QED BY <2>2, <2>4, <3>1
  <2>6. S \in SUBSET Nodes
    OBVIOUS
  <2>7. depth[d] < depth[m]
    BY <2>3
  <2>8. d \notin S
    BY <2>2, <2>4, <2>7
  <2>. HIDE DEF S
  <2>. QED BY <1>3, <2>4, <2>5, <2>6, <2>8
\* What is below x and not x has what it is in below x too.
<1>6. ASSUME NEW x \in Nodes, NEW y \in Below(k, x), y # x PROVE k.up[y] \in Below(k, x)
  <2>. DEFINE S == {z \in Below(k, x) : z = x \/ k.up[z] \in Below(k, x)}
  <2>1. S \in SUBSET Nodes /\ x \in S
    BY <1>2
  <2>2. ASSUME NEW z \in S PROVE Subdirs(k, z) \subseteq S
    BY <1>2, <1>4
  <2>3. Below(k, x) \subseteq S
    <3>. HIDE DEF S
    <3>. QED BY <1>3, <2>1, <2>2
  <2>. QED BY <1>6, <2>3
<1>7. ASSUME NEW m \in Subdirs(k, d), m # n PROVE Below(k, n) \cap Below(k, m) = {}
  <2>1. n \in Nodes /\ m \in Nodes /\ k.up[n] = d /\ k.up[m] = d
    BY <1>4
  <2>2. n \notin Below(k, m) /\ m \notin Below(k, n)
    BY <1>5, <1>6, <1>7, <2>1
  <2>. DEFINE S == Below(k, n) \ Below(k, m)
  <2>3. S \in SUBSET Nodes /\ n \in S
    BY <1>2, <2>1, <2>2
  <2>4. ASSUME NEW x \in S, NEW y \in Subdirs(k, x) PROVE y \in S
    <3>1. x \in Nodes /\ y \in Below(k, n) /\ k.up[y] = x
      BY <1>2, <1>4, <2>1
    <3>2. ASSUME y \in Below(k, m) PROVE FALSE
      <4>1. y # m
        BY <2>2, <3>1
      <4>. QED BY <1>6, <2>1, <3>1, <3>2, <4>1
    <3>. QED BY <3>1, <3>2
  <2>5. Below(k, n) \subseteq S
    <3>. HIDE DEF S
    <3>. QED BY <1>3, <2>1, <2>3, <2>4
  <2>. QED BY <2>5
<1>. QED BY <1>5, <1>7

LEMMA FilesUnder ==
  ASSUME NEW k \in Invocations
  PROVE  \A d \in Nodes : \A f \in FilesBelow(k)[d] : k.kind[f] = "file" /\ k.up[f] \in Below(k, d)
<1>. DEFINE S == {d \in Nodes : \A f \in FilesBelow(k)[d] :
                    k.kind[f] = "file" /\ k.up[f] \in Below(k, d)}
            kids == [m \in Nodes |-> Subdirs(k, m)]
<1>1. ASSUME NEW d \in Nodes, \A n \in Subdirs(k, d) : n \in S PROVE d \in S
  <2>1. kids \in [Nodes -> SUBSET Nodes] /\ kids[d] = Subdirs(k, d)
    BY Walks
  <2>2. \A n : Below(k, n) = Reach(kids, n)
    BY DEF Below
  <2>3. d \in Below(k, d) /\ \A n \in Subdirs(k, d) : Below(k, n) \subseteq Below(k, d)
    <3>. HIDE DEF kids
    <3>1. Reach(kids, d) = {d} \cup UNION {Reach(kids, n) : n \in kids[d]}
      BY <2>1, ReachStep
    <3>. QED BY <2>1, <2>2, <3>1
  <2>4. ASSUME NEW f \in Loose(k, d) PROVE k.kind[f] = "file" /\ k.up[f] \in Below(k, d)
    BY <2>3 DEF Loose, Children
  <2>5. ASSUME NEW n \in Subdirs(k, d), NEW f \in FilesBelow(k)[n]
        PROVE  k.kind[f] = "file" /\ k.up[f] \in Below(k, d)
    BY <1>1, <2>3
  <2>6. FilesBelow(k)[d] = Loose(k, d) \cup UNION {FilesBelow(k)[n] : n \in Subdirs(k, d)}
    BY FilesBelowIs
  <2>. QED BY <2>4, <2>5, <2>6
<1>2. Nodes \subseteq S
  <2>. HIDE DEF S
  <2>. QED BY <1>1, BottomUp
<1>. QED BY <1>2

\* A directory's files and those below each of its subdirectories are all different.
LEMMA FilesApart ==
  ASSUME NEW k \in Invocations, NEW d \in Nodes, NEW n \in Subdirs(k, d)
  PROVE  /\ Loose(k, d) \cap FilesBelow(k)[n] = {}
         /\ \A m \in Subdirs(k, d) :
              m # n => FilesBelow(k)[n] \cap FilesBelow(k)[m] = {}
<1>1. n \in Nodes /\ \A m \in Subdirs(k, d) : m \in Nodes
  BY Walks
<1>2. \A f \in Loose(k, d) : k.up[f] = d
  BY DEF Loose, Children
<1>3. \A m \in Subdirs(k, d) : \A f \in FilesBelow(k)[m] : k.up[f] \in Below(k, m)
  BY <1>1, FilesUnder
<1>. QED BY <1>2, <1>3, WalksApart

(***************************************************************************)
(* What a plan covers.                                                     *)
(***************************************************************************)
\* Every file is in one of the chunks, and they hold no others.
Shares(k, chunks, files) ==
  /\ \A c \in chunks : Covered(k, c) \subseteq files
  /\ \A f \in files : \E c \in chunks : {e \in chunks : f \in Covered(k, e)} = {c}

LEMMA ChunkCovers ==
  ASSUME NEW k, NEW c
  PROVE  /\ k.kind[c.path] = "file" => Covered(k, c) = {c.path}
         /\ k.kind[c.path] = "dir" /\ ~c.recursive => Covered(k, c) = Loose(k, c.path)
         /\ Directory(k, c.path) /\ c.recursive =>
              Traversed(k, c) /\ Covered(k, c) = FilesBelow(k)[c.path]
BY DEF Covered, Traversed, Directory

LEMMA FileRunCovers ==
  ASSUME NEW k, NEW i, NEW f, k.kind[f] = "file"
  PROVE  Covered(k, LooseRun(i, f)) = {f}
<1>. DEFINE c == LooseRun(i, f)
<1>1. c.path = f
  BY DEF Chunk, LooseRun, WholeRun
<1>. HIDE DEF c
<1>2. Covered(k, c) = {f}
  BY <1>1, ChunkCovers
<1>. QED BY <1>2 DEF c

LEMMA LooseRunCovers ==
  ASSUME NEW k, NEW i, NEW d, k.kind[d] = "dir"
  PROVE  Covered(k, LooseRun(i, d)) = Loose(k, d)
<1>. DEFINE c == LooseRun(i, d)
<1>1. c.path = d /\ ~c.recursive
  BY DEF Chunk, LooseRun, WholeRun
<1>. HIDE DEF c
<1>2. Covered(k, c) = Loose(k, d)
  BY <1>1, ChunkCovers
<1>. QED BY <1>2 DEF c

LEMMA WholeRunCovers ==
  ASSUME NEW k, NEW i, NEW d, Directory(k, d)
  PROVE  LET c == WholeRun(i, d)
         IN c.path = d /\ Traversed(k, c) /\ Covered(k, c) = FilesBelow(k)[d]
<1>. DEFINE c == WholeRun(i, d)
<1>1. c.path = d /\ c.recursive
  BY DEF Chunk, LooseRun, WholeRun
<1>. HIDE DEF c
<1>2. Traversed(k, c) /\ Covered(k, c) = FilesBelow(k)[d]
  BY <1>1, ChunkCovers
<1>. QED BY <1>1, <1>2 DEF c

LEMMA LooseShared ==
  ASSUME NEW k \in Invocations, NEW i, NEW d \in Nodes, k.kind[d] = "dir"
  PROVE  Shares(k, LooseChunks(k, i, d), Loose(k, d))
<1>1. \A f \in Loose(k, d) : k.kind[f] = "file"
  BY DEF Loose
<1>2. CASE Fits(k, Loose(k, d)) /\ Loose(k, d) # {}
  <2>1. LooseChunks(k, i, d) = {LooseRun(i, d)}
    BY <1>2 DEF LooseChunks, LooseRun
  <2>2. Covered(k, LooseRun(i, d)) = Loose(k, d)
    BY LooseRunCovers
  <2>. QED BY <2>1, <2>2 DEF Shares
<1>3. CASE ~(Fits(k, Loose(k, d)) /\ Loose(k, d) # {})
  <2>1. LooseChunks(k, i, d) = {LooseRun(i, f) : f \in Loose(k, d)}
    BY <1>3 DEF LooseChunks, LooseRun
  <2>2. \A f \in Loose(k, d) : Covered(k, LooseRun(i, f)) = {f}
    BY <1>1, FileRunCovers
  <2>3. ASSUME NEW c \in LooseChunks(k, i, d)
        PROVE  \E f \in Loose(k, d) : c = LooseRun(i, f) /\ Covered(k, c) = {f}
    <3>1. PICK f \in Loose(k, d) : c = LooseRun(i, f)
      BY <2>1
    <3>. QED BY <2>2, <3>1
  <2>4. ASSUME NEW f \in Loose(k, d)
        PROVE  /\ LooseRun(i, f) \in LooseChunks(k, i, d)
               /\ {e \in LooseChunks(k, i, d) : f \in Covered(k, e)} = {LooseRun(i, f)}
    <3>1. LooseRun(i, f) \in LooseChunks(k, i, d) /\ f \in Covered(k, LooseRun(i, f))
      BY <2>1, <2>2
    <3>2. ASSUME NEW e \in LooseChunks(k, i, d), f \in Covered(k, e)
          PROVE  e = LooseRun(i, f)
      BY <2>3, <3>2
    <3>. QED BY <3>1, <3>2
  <2>. QED BY <2>3, <2>4 DEF Shares
<1>. QED BY <1>2, <1>3

LEMMA SplitIsDir ==
  ASSUME NEW k \in Invocations, NEW d \in Nodes, Directory(k, d), Split(k, d)
  PROVE  k.kind[d] = "dir"
<1>1. k.kind[d] # "locked"
  <2>1. SUFFICES ASSUME k.kind[d] = "locked" PROVE FALSE
    OBVIOUS
  <2>2. Loose(k, d) = {} /\ Subdirs(k, d) = {}
    BY <2>1 DEF Loose, Subdirs, Children
  <2>3. FilesBelow(k)[d] = Loose(k, d) \cup UNION {FilesBelow(k)[n] : n \in Subdirs(k, d)}
    BY FilesBelowIs
  <2>. QED BY <2>2, <2>3 DEF Split
<1>. QED BY <1>1 DEF Directory, Split

\* The chunks for a directory share what is below it.
LEMMA DirectoryShared ==
  ASSUME NEW k \in Invocations, NEW i
  PROVE  \A d \in Nodes : Directory(k, d) =>
           Shares(k, PlanDir(k, i)[d].chunks, FilesBelow(k)[d])
<1>. DEFINE plan == PlanDir(k, i)
            S == {d \in Nodes : Directory(k, d) => Shares(k, plan[d].chunks, FilesBelow(k)[d])}
<1>. HIDE DEF plan
<1>1. ASSUME NEW d \in Nodes, Directory(k, d), \A n \in Subdirs(k, d) : n \in S
      PROVE  Shares(k, plan[d].chunks, FilesBelow(k)[d])
  <2>1. /\ k.kind[d] = "app" => plan[d].chunks = {WholeRun(i, d)}
        /\ k.kind[d] # "app" /\ FilesBelow(k)[d] = {} => plan[d].chunks = {}
        /\ k.kind[d] # "app" /\ FilesBelow(k)[d] # {} /\ Fits(k, FilesBelow(k)[d]) =>
             plan[d].chunks = {WholeRun(i, d)}
    BY PlanDirIs DEF plan
  <2>2. CASE plan[d].chunks = {WholeRun(i, d)}
    <3>1. Covered(k, WholeRun(i, d)) = FilesBelow(k)[d]
      BY <1>1, WholeRunCovers
    <3>. QED BY <2>2, <3>1 DEF Shares
  <2>3. CASE plan[d].chunks = {} /\ FilesBelow(k)[d] = {}
    BY <2>3 DEF Shares
  <2>4. CASE Split(k, d)
    <3>. DEFINE L == LooseChunks(k, i, d)
                C == plan[d].chunks
    <3>1. k.kind[d] = "dir"
      BY <1>1, <2>4, SplitIsDir
    <3>2. Shares(k, L, Loose(k, d))
      BY <3>1, LooseShared
    <3>3. \A n \in Subdirs(k, d) : Shares(k, plan[n].chunks, FilesBelow(k)[n])
      BY <1>1 DEF Subdirs
    <3>4. C = L \cup UNION {plan[n].chunks : n \in Subdirs(k, d)}
      BY <2>4, PlanDirIs DEF plan, ChunksBelow
    <3>5. FilesBelow(k)[d] = Loose(k, d) \cup UNION {FilesBelow(k)[n] : n \in Subdirs(k, d)}
      BY FilesBelowIs
    <3>. HIDE DEF L, C
    <3>6. ASSUME NEW c \in C PROVE Covered(k, c) \subseteq FilesBelow(k)[d]
      BY <3>2, <3>3, <3>4, <3>5 DEF Shares
    <3>7. ASSUME NEW f \in Loose(k, d)
          PROVE  \E c \in C : {e \in C : f \in Covered(k, e)} = {c}
      <4>1. PICK c \in L : {e \in L : f \in Covered(k, e)} = {c}
        BY <3>2 DEF Shares
      <4>2. ASSUME NEW e \in C, f \in Covered(k, e) PROVE e \in L
        <5>1. ASSUME NEW n \in Subdirs(k, d), e \in plan[n].chunks PROVE FALSE
          <6>1. f \in FilesBelow(k)[n]
            BY <3>3, <4>2, <5>1 DEF Shares
          <6>. QED BY <6>1, FilesApart
        <5>. QED BY <3>4, <5>1
      <4>3. {e \in C : f \in Covered(k, e)} = {c}
        BY <3>4, <4>1, <4>2
      <4>. QED BY <3>4, <4>3
    <3>8. ASSUME NEW n \in Subdirs(k, d), NEW f \in FilesBelow(k)[n]
          PROVE  \E c \in C : {e \in C : f \in Covered(k, e)} = {c}
      <4>. DEFINE D == plan[n].chunks
      <4>1. PICK c \in D : {e \in D : f \in Covered(k, e)} = {c}
        BY <3>3 DEF Shares
      <4>2. ASSUME NEW e \in C, f \in Covered(k, e) PROVE e \in D
        <5>1. ASSUME NEW m \in Subdirs(k, d), m # n, e \in plan[m].chunks PROVE FALSE
          <6>1. f \in FilesBelow(k)[m]
            BY <3>3, <4>2, <5>1 DEF Shares
          <6>. QED BY <5>1, <6>1, FilesApart
        <5>2. ASSUME e \in L PROVE FALSE
          <6>1. f \in Loose(k, d)
            BY <3>2, <4>2, <5>2 DEF Shares
          <6>. QED BY <6>1, FilesApart
        <5>. QED BY <3>4, <5>1, <5>2
      <4>3. {e \in C : f \in Covered(k, e)} = {c}
        BY <3>4, <4>1, <4>2
      <4>. QED BY <3>4, <4>3
    <3>9. \A f \in FilesBelow(k)[d] : \E c \in C : {e \in C : f \in Covered(k, e)} = {c}
      BY <3>5, <3>7, <3>8
    <3>10. Shares(k, C, FilesBelow(k)[d])
      BY <3>6, <3>9 DEF Shares
    <3>. QED BY <3>10 DEF C
  <2>. QED BY <2>1, <2>2, <2>3, <2>4 DEF Split
<1>2. Nodes \subseteq S
  <2>1. ASSUME NEW d \in Nodes, \A n \in Subdirs(k, d) : n \in S PROVE d \in S
    BY <1>1, <2>1
  <2>. HIDE DEF S
  <2>. QED BY <2>1, BottomUp
<1>. QED BY <1>2 DEF plan

\* A directory that cannot be listed is in one noted or one that navctl walks.
Told(k, p, d) ==
  \/ \E n \in p.notes : d \in LockedBelow(k)[n]
  \/ \E c \in p.chunks : Traversed(k, c) /\ d \in LockedBelow(k)[c.path]

LEMMA LockedTold ==
  ASSUME NEW k \in Invocations, NEW i
  PROVE  \A d \in Nodes : Directory(k, d) =>
           \A x \in LockedBelow(k)[d] : Told(k, PlanDir(k, i)[d], x)
<1>. DEFINE plan == PlanDir(k, i)
            S == {d \in Nodes : Directory(k, d) =>
                    \A x \in LockedBelow(k)[d] : Told(k, plan[d], x)}
<1>. HIDE DEF plan
<1>1. ASSUME NEW d \in Nodes, Directory(k, d), \A n \in Subdirs(k, d) : n \in S,
             NEW x \in LockedBelow(k)[d]
      PROVE  Told(k, plan[d], x)
  <2>1. /\ k.kind[d] = "app" => plan[d].chunks = {WholeRun(i, d)}
        /\ k.kind[d] # "app" /\ FilesBelow(k)[d] = {} => plan[d].notes = {d}
        /\ k.kind[d] # "app" /\ FilesBelow(k)[d] # {} /\ Fits(k, FilesBelow(k)[d]) =>
             plan[d].chunks = {WholeRun(i, d)}
    BY PlanDirIs DEF plan
  <2>2. CASE plan[d].chunks = {WholeRun(i, d)}
    <3>1. Traversed(k, WholeRun(i, d)) /\ WholeRun(i, d).path = d
      BY <1>1, WholeRunCovers
    <3>. QED BY <1>1, <2>2, <3>1 DEF Told
  <2>3. CASE plan[d].notes = {d}
    BY <1>1, <2>3 DEF Told
  <2>4. CASE Split(k, d)
    <3>1. k.kind[d] = "dir"
      BY <1>1, <2>4, SplitIsDir
    <3>2. LockedBelow(k)[d] = (IF k.kind[d] = "locked" THEN {d} ELSE {})
                                \cup UNION {LockedBelow(k)[n] : n \in Subdirs(k, d)}
      BY LockedBelowIs
    <3>3. PICK n \in Subdirs(k, d) : x \in LockedBelow(k)[n]
      BY <1>1, <3>1, <3>2
    <3>4. Told(k, plan[n], x)
      BY <1>1, <3>3 DEF Subdirs
    <3>5. /\ plan[d].chunks = LooseChunks(k, i, d) \cup ChunksBelow(k, i, d)
          /\ plan[d].notes = NotesBelow(k, i, d)
      BY <2>4, PlanDirIs DEF plan
    <3>6. /\ ChunksBelow(k, i, d) = UNION {plan[m].chunks : m \in Subdirs(k, d)}
          /\ NotesBelow(k, i, d) = UNION {plan[m].notes : m \in Subdirs(k, d)}
      BY DEF ChunksBelow, NotesBelow, plan
    <3>7. plan[n].notes \subseteq plan[d].notes /\ plan[n].chunks \subseteq plan[d].chunks
      BY <3>3, <3>5, <3>6
    <3>. QED BY <3>4, <3>7 DEF Told
  <2>. QED BY <2>1, <2>2, <2>3, <2>4 DEF Split
<1>2. Nodes \subseteq S
  <2>1. ASSUME NEW d \in Nodes, \A n \in Subdirs(k, d) : n \in S PROVE d \in S
    BY <1>1, <2>1
  <2>. HIDE DEF S
  <2>. QED BY <2>1, BottomUp
<1>. QED BY <1>2 DEF plan

LEMMA RootAccounted ==
  ASSUME NEW k \in Invocations, NEW i \in DOMAIN k.roots
  PROVE  Accounts(k, i)
<1>. DEFINE root == k.roots[i]
            p == PlanRoot(k, i)
            wanted == IF k.kind[root] = "file" THEN {root} ELSE FilesBelow(k)[root]
<1>1. root \in Nodes /\ k.kind[root] \in Kinds
  BY FileSystemsOK
<1>2. /\ k.kind[root] = "file" => p.chunks = {LooseRun(i, root)}
      /\ Directory(k, root) => p = PlanDir(k, i)[root]
      /\ k.kind[root] = "other" => p.chunks = {} /\ p.notes = {root}
  <2>. DEFINE r == root
  <2>. HIDE DEF r
  <2>1. p = CASE k.kind[r] = "file" -> [chunks |-> {LooseRun(i, r)}, notes |-> {}]
              [] Directory(k, r) -> PlanDir(k, i)[r]
              [] k.kind[r] = "other" -> [chunks |-> {}, notes |-> {r}]
    BY DEF PlanRoot, LooseRun, r
  <2>. HIDE DEF p
  <2>2. ASSUME k.kind[r] = "file" PROVE p.chunks = {LooseRun(i, r)}
    <3>1. p = [chunks |-> {LooseRun(i, r)}, notes |-> {}]
      BY <2>1, <2>2 DEF Directory
    <3>. QED BY <3>1
  <2>3. ASSUME Directory(k, r) PROVE p = PlanDir(k, i)[r]
    BY <2>1, <2>3 DEF Directory
  <2>4. ASSUME k.kind[r] = "other" PROVE p.chunks = {} /\ p.notes = {r}
    <3>1. p = [chunks |-> {}, notes |-> {r}]
      BY <2>1, <2>4 DEF Directory
    <3>. QED BY <3>1
  <2>. QED BY <2>2, <2>3, <2>4 DEF r
<1>3. k.kind[root] = "file" \/ Directory(k, root) \/ k.kind[root] = "other"
  BY <1>1 DEF Kinds, Directory
<1>4. ASSUME ~Directory(k, root)
      PROVE  FilesBelow(k)[root] = {}
             /\ LockedBelow(k)[root] = {}
  <2>1. Loose(k, root) = {} /\ Subdirs(k, root) = {}
    BY <1>1, <1>4, FileSystemsOK DEF Loose, Subdirs, Children
  <2>2. FilesBelow(k)[root] =
          Loose(k, root) \cup UNION {FilesBelow(k)[n] : n \in Subdirs(k, root)}
    BY <1>1, FilesBelowIs
  <2>3. LockedBelow(k)[root] = (IF k.kind[root] = "locked" THEN {root} ELSE {})
                                 \cup UNION {LockedBelow(k)[n] : n \in Subdirs(k, root)}
    BY <1>1, LockedBelowIs
  <2>4. k.kind[root] # "locked"
    BY <1>4 DEF Directory
  <2>. QED BY <2>1, <2>2, <2>3, <2>4
<1>5. Shares(k, p.chunks, wanted)
  <2>1. CASE k.kind[root] = "file"
    <3>1. Covered(k, LooseRun(i, root)) = {root}
      BY <2>1, FileRunCovers
    <3>2. p.chunks = {LooseRun(i, root)} /\ wanted = {root}
      BY <1>2, <2>1
    <3>. HIDE DEF p, wanted
    <3>. QED BY <3>1, <3>2 DEF Shares
  <2>2. CASE Directory(k, root)
    <3>1. p = PlanDir(k, i)[root] /\ wanted = FilesBelow(k)[root]
      BY <1>2, <2>2 DEF Directory
    <3>. HIDE DEF p, wanted
    <3>. QED BY <1>1, <2>2, <3>1, DirectoryShared
  <2>3. CASE k.kind[root] = "other"
    <3>1. p.chunks = {} /\ wanted = {}
      BY <1>2, <1>4, <2>3 DEF Directory
    <3>. HIDE DEF p, wanted
    <3>. QED BY <3>1 DEF Shares
  <2>. QED BY <1>3, <2>1, <2>2, <2>3
<1>6. ASSUME NEW x \in LockedBelow(k)[root] PROVE Told(k, p, x)
  <2>1. Directory(k, root)
    BY <1>4, <1>6
  <2>2. p = PlanDir(k, i)[root]
    BY <1>2, <2>1
  <2>. HIDE DEF p
  <2>. QED BY <1>1, <1>6, <2>1, <2>2, LockedTold
<1>7. \A f \in wanted : Cardinality({c \in p.chunks : f \in Covered(k, c)}) = 1
  <2>. HIDE DEF p, wanted
  <2>1. ASSUME NEW f \in wanted
        PROVE  Cardinality({c \in p.chunks : f \in Covered(k, c)}) = 1
    <3>1. PICK c : {e \in p.chunks : f \in Covered(k, e)} = {c}
      BY <1>5 DEF Shares
    <3>2. Cardinality({c}) = 1
      BY FS_Singleton
    <3>. QED BY <3>1, <3>2, Zenon
  <2>. QED BY <2>1
<1>8. \A c \in p.chunks : Covered(k, c) \subseteq wanted
  BY <1>5 DEF Shares
<1>9. k.kind[root] = "other" => root \in p.notes
  BY <1>2
<1>10. \A x \in LockedBelow(k)[root] :
         \/ \E n \in p.notes : x \in LockedBelow(k)[n]
         \/ \E c \in {c \in p.chunks : Traversed(k, c)} : x \in LockedBelow(k)[c.path]
  BY <1>6 DEF Told
<1>. HIDE DEF p
<1>. QED BY <1>7, <1>8, <1>9, <1>10 DEF Accounts, p

(***************************************************************************)
(* Theorems.                                                               *)
(***************************************************************************)
\* Types, for any number of workers, plan and builds.
THEOREM GateTypes == Spec => []TypeOK
<1>1. GateInv => TypeOK
  BY DEF GateInv
<1> QED BY <1>1, GateInvariant, PTL

\* However a file system is split, every file of every root is in exactly one chunk,
\* and what cannot be listed is noted or left to a navctl run that says so: a plan that
\* dropped a file would pass a build that gets it wrong.
THEOREM PlansAccount == Spec => []PlanAccounts
<1>1. GateInv => PlanAccounts
  BY RootAccounted DEF GateInv, MainInv, PlanAccounts
<1> QED BY <1>1, GateInvariant, PTL

\* No navctl runs twice on a chunk, and none is left out of a pool that ended without
\* an error: the shared counter hands out each index once, and a worker only leaves
\* early when there is an error to report.
THEOREM PoolRunsEveryChunkOnce == Spec => []PoolComplete
<1> QED BY EveryChunkOnce, GateInvariant, PTL

\* Exit status 0 means what the tool's usage says of every file the base build has a line
\* for, whatever died, was stopped by a ceiling or mounted on the way, and those three and
\* a bundle's inert resources are all a planned file without a line can be due to.
THEOREM GateIsSound == Spec => []PassedMeansNoWorse
<1>1. GateInv => PassedMeansNoWorse
  <2> SUFFICES ASSUME GateInv, status = Passed PROVE PassedMeansNoWorse
    BY DEF PassedMeansNoWorse
  <2>1. /\ failure = "none" /\ GatePassed /\ \A b \in BuildNames : ~torn[b]
    BY DEF GateInv, MainInv, SinkInv
  <2>2. /\ Base \in [DOMAIN Base -> Verdicts] /\ New \in [DOMAIN New -> Verdicts]
    BY DEF GateInv, TypeOK, Base, New, BuildNames
  <2>3. ASSUME NEW f \in DOMAIN Base
        PROVE  f \in DOMAIN New /\ New[f].rec <= Base[f].rec /\ New[f].comp <= Base[f].comp
    <3>1. f \in DOMAIN New /\ ~Regressed(f)
      BY <2>1 DEF GatePassed, Regressions
    <3>2. Base[f] \in [rec : 0..2, comp : 0..2] /\ New[f] \in [rec : 0..2, comp : 0..2]
      BY <2>2, <3>1, VerdictsOK
    <3> QED BY <3>1, <3>2 DEF Regressed
  <2>4. ASSUME NEW b \in BuildNames, NEW f, f \notin DOMAIN sink[b], NEW i \in 1..Total
        PROVE  ended[b][i] \in {"died", "stopped", "mounted"} \/ f \notin Listed(call, Chunks[i])
    <3>1. ran[b][i] = 1
      BY EveryChunkOnce DEF PoolComplete
    <3> QED BY <2>4, <3>1 DEF GateInv, SinkInv, Excused
  <2>5. ASSUME NEW f \in DOMAIN New, f \notin DOMAIN Base PROVE New[f].rec = 0
    BY <2>1, <2>5 DEF GatePassed, Regressions, Regressed
  <2> QED BY <2>1, <2>3, <2>4, <2>5 DEF PassedMeansNoWorse
<1> QED BY <1>1, GateInvariant, PTL
=============================================================================
