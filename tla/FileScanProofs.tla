--------------------------- MODULE FileScanProofs ---------------------------
(***************************************************************************)
(* Theorems about FileScan, for every ruleset that contains the signing    *)
(* rules once each in whatever order, any files and any number of changes  *)
(* other programs make.                                                    *)
(***************************************************************************)
EXTENDS FileScan, FiniteSetTheorems, TLAPS

(***************************************************************************)
(* The inductive invariant.                                                *)
(***************************************************************************)
Results == {"signal", "none", "NotApplicable"}

\* How far the load has come.
LoadInv ==
  /\ pc = "open" => handle = NoFile
  /\ pc \in {"open", "fstat"} => identity = NoFile
  /\ pc \in {"fstat", "read"} => handle \in Files
  /\ pc = "read" => identity # NoFile
  /\ pc # "rules" => /\ content = NoFile /\ next = 1 /\ asking = "none"
                     /\ \A t \in Tools : cache[t] = "unset"

\* What was read is the opened file, at its identity or later; the path names
\* it unless it strayed, and again only if it came back.
ObjectInv ==
  /\ content # NoFile => identity # NoFile
  /\ identity # NoFile =>
       /\ handle \in Files
       /\ identity[1] = handle /\ identity[2] <= version[handle]
       /\ ~strayed => Identity(at) = identity
       /\ strayed /\ Identity(at) = identity => returned
  /\ content # NoFile =>
       /\ content[1] = handle
       /\ identity[2] <= content[2] /\ content[2] <= version[handle]
  /\ asking # "none" => strayed \/ saw[asking] = identity

\* What a rule returned is still what it would return.
RulesInv ==
  \A r \in SigningRules \cap DOMAIN outcome :
    /\ outcome[r].result = Result(r)
    /\ \A t \in Tools : ~Needs(r, t)

\* A question about the signature is one that its status raises.
Raised(t) ==
  /\ Readable /\ macho.is_macho /\ line_safe
  /\ \/ t = "dv"
     \/ Known("dv") /\ t = "signer" /\ Dv # "Unsigned"
     \/ Known("dv") /\ t \in {"verify", "spctl"} /\ Dv = "Signed"

RefusedInv ==
  /\ asking \in SigningTools => Raised(asking)
  /\ refused => \E t \in SigningTools : Raised(t) /\ cache[t] = "none"

FileInv == TypeOK /\ LoadInv /\ ObjectInv /\ OneObject /\ RulesInv /\ RefusedInv

(***************************************************************************)
(* Lemmas.                                                                 *)
(***************************************************************************)
\* The tools of the anchor checks have the names of content rules.
LEMMA ToolNames ==
  /\ "none" \notin Tools
  /\ AnchorRules \cap SigningTools = {}
  /\ AnchorRules \cap SigningRules = {}
BY RulesetOK DEF Tools, SigningTools

\* No object is taken for none.
LEMMA IdentityType ==
  ASSUME TypeOK, NEW f \in Files \cup {NoFile}
  PROVE  /\ Identity(f) \in Identities
         /\ f # NoFile => /\ Identity(f) # NoFile
                          /\ Identity(f)[1] = f /\ Identity(f)[2] = version[f]
         /\ f = NoFile => Identity(f) = NoFile
<1>1. version \in [Files -> 0..changes] /\ changes \in 0..MaxChanges /\ MaxChanges \in Nat
  BY DiskOK DEF TypeOK
<1>2. CASE f = NoFile
  BY <1>2 DEF Identity, Identities
<1>3. CASE f \in Files
  <2>1. version[f] \in 0..MaxChanges
    BY <1>1, <1>3
  <2>2. f # NoFile /\ <<f, version[f]>> \in Files \X Nat
    BY <1>3, <2>1, <1>1, DiskOK
  <2>3. <<f, version[f]>> # NoFile
    BY <2>2, DiskOK
  <2> QED
    BY <1>3, <2>1, <2>2, <2>3 DEF Identity, Identities
<1> QED
  BY <1>2, <1>3

\* A signing rule returns one of the three results.
LEMMA ResultType ==
  ASSUME NEW r \in SigningRules
  PROVE  Result(r) \in Results
BY DEF SigningRules, Result, Results, Unsigned, AdHoc, UnanchoredFires, Invalid,
       Revoked, Notarization, Fires

\* A tool's answer comes too late to change what a rule returned that did not
\* need it, and makes no rule need another.
LEMMA AnswersDoNotReopen ==
  ASSUME NEW t \in Tools, NEW answer, answer # "unset",
         cache[t] = "unset", cache' = [cache EXCEPT ![t] = answer],
         DOMAIN cache = Tools, UNCHANGED load,
         NEW r \in SigningRules, \A u \in Tools : ~Needs(r, u)
  PROVE  /\ Result(r)' = Result(r)
         /\ \A u \in Tools : ~Needs(r, u)'
<1>1. UNCHANGED <<content, macho, line_safe>>
  BY DEF load
<1>2. /\ cache'[t] = answer
      /\ \A u \in Tools : cache[u] # "unset" => cache'[u] = cache[u]
      /\ \A u \in Tools : cache'[u] = "unset" => cache[u] = "unset"
  OBVIOUS
<1>3. {"dv", "signer", "verify", "spctl"} \subseteq Tools
  BY DEF Tools, SigningTools
<1>4. CASE ~(Readable /\ macho.is_macho /\ line_safe)
  BY <1>1, <1>4 DEF Result, Needs, Readable
<1>5. CASE Readable /\ macho.is_macho /\ line_safe
  <2>1. cache["dv"] # "unset" /\ cache'["dv"] = cache["dv"]
    BY <1>2, <1>3, <1>5 DEF Needs
  <2>2. CASE ~Known("dv")
    <3>1. ~Known("dv")'
      BY <2>1, <2>2 DEF Known
    <3> QED
      BY <1>1, <1>5, <2>1, <2>2, <3>1 DEF Result, Needs, Readable
  <2>3. CASE Known("dv")
    <3>1. /\ Known("dv")' /\ Dv' = Dv /\ AnyAdHoc' = AnyAdHoc /\ AnySigned' = AnySigned
          /\ HasUnclassifiedFatSlice' = HasUnclassifiedFatSlice
      BY <1>1, <2>1, <2>3 DEF Known, Dv, AnyAdHoc, AnySigned, HasUnclassifiedFatSlice
    <3>2. \A u \in Tools : Follows(r, u)' = Follows(r, u)
      BY <3>1 DEF Follows
    <3>3. \A u \in Tools : Follows(r, u) => cache[u] # "unset" /\ cache'[u] = cache[u]
      BY <1>2, <1>5, <2>3 DEF Needs
    <3>4. \A u \in Tools : ~Needs(r, u)'
      BY <1>2, <2>1, <3>2, <3>3 DEF Needs
    <3>5. Result(r)' = Result(r)
      <4>1. CASE r = "unsigned-binary"
        BY <1>1, <1>5, <2>3, <3>1, <4>1 DEF Result, Readable, Unsigned, Fires
      <4>2. CASE r = "adhoc-signed-binary"
        <5>1. AnyAdHoc /\ AnySigned => cache'["signer"] = cache["signer"]
          BY <1>3, <3>3, <4>2 DEF Follows
        <5>2. AdHoc' = AdHoc
          BY <3>1, <5>1 DEF AdHoc, UnanchoredFires, Fires
        <5> QED
          BY <1>1, <1>5, <2>3, <3>1, <4>2, <5>2 DEF Result, Readable
      <4>3. CASE r = "unanchored-signing-identity"
        <5>1. AnySigned => cache'["signer"] = cache["signer"]
          BY <1>3, <3>3, <4>3 DEF Follows
        <5>2. UnanchoredFires' = UnanchoredFires
          BY <3>1, <5>1 DEF UnanchoredFires
        <5> QED
          BY <1>1, <1>5, <2>3, <3>1, <4>3, <5>2 DEF Result, Readable
      <4>4. CASE r = "invalid-code-signature"
        <5>1. Dv # "Unsigned" => cache'["signer"] = cache["signer"]
          BY <1>3, <3>3, <4>4 DEF Follows
        <5>2. Invalid' = Invalid
          BY <1>1, <3>1, <5>1 DEF Invalid
        <5> QED
          BY <1>1, <1>5, <2>3, <3>1, <4>4, <5>2 DEF Result, Readable
      <4>5. CASE r = "revoked-code-signature"
        <5>1. Dv = "Signed" => cache'["verify"] = cache["verify"]
          BY <1>3, <3>3, <4>5 DEF Follows
        <5>2. Revoked' = Revoked
          BY <3>1, <5>1 DEF Revoked, Known, Fires
        <5> QED
          BY <1>1, <1>5, <2>3, <3>1, <4>5, <5>2 DEF Result, Readable
      <4>6. CASE r \in {"signed-not-notarized", "notarized-binary"}
        <5>1. Dv = "Signed" => cache'["spctl"] = cache["spctl"]
          BY <1>3, <3>3, <4>6 DEF Follows
        <5>2. \A s : Notarization(s)' = Notarization(s)
          BY <3>1, <5>1 DEF Notarization, Known, Fires
        <5> QED
          BY <1>1, <1>5, <2>3, <3>1, <4>6, <5>2 DEF Result, Readable
      <4> QED
        BY <4>1, <4>2, <4>3, <4>4, <4>5, <4>6 DEF SigningRules
    <3> QED
      BY <3>4, <3>5
  <2> QED
    BY <2>2, <2>3
<1> QED
  BY <1>4, <1>5

(***************************************************************************)
(* The invariant holds at the start and every step keeps it.               *)
(***************************************************************************)
LEMMA FileInvInit == Init => FileInv
<1> SUFFICES ASSUME Init PROVE FileInv
  OBVIOUS
<1>1. NotMachO \in Machos
  BY DEF NotMachO, Machos
<1>2. 1..(next - 1) = {} /\ DOMAIN outcome = {} /\ next \in 1..(Len(Ruleset) + 1)
  BY RulesetOK DEF Init
<1>3. {Ruleset[i] : i \in 1..(next - 1)} = {}
  BY <1>2
<1>4. "none" \notin Tools /\ "none" \notin SigningTools
  BY ToolNames DEF SigningTools
<1>5. TypeOK
  <2>1. /\ at \in Files \cup {NoFile} /\ changes \in 0..MaxChanges
        /\ version \in [Files -> 0..changes]
    BY DiskOK DEF Init
  <2>2. cache \in [Tools -> {"unset"}] /\ saw \in [Tools -> Identities]
    BY DEF Init, Identities
  <2>3. cache \in [Tools -> {"unset", "none"} \cup UNION {Says(t) : t \in Tools}]
    <3> DEFINE Answers == {"unset", "none"} \cup UNION {Says(t) : t \in Tools}
    <3>1. {"unset", "none"} \subseteq Answers
      OBVIOUS
    <3> HIDE DEF Answers
    <3>2. cache \in [Tools -> Answers]
      BY <2>2, <3>1
    <3> QED
      BY <3>2 DEF Answers
  <2>4. \A r \in DOMAIN outcome :
          outcome[r] \in [result : {"signal", "none", "NotApplicable"}, covers : BOOLEAN]
    BY <1>2
  <2> QED
    BY <1>1, <1>2, <1>3, <2>1, <2>2, <2>3, <2>4 DEF Init, TypeOK, Identities
<1>6. LoadInv /\ ObjectInv /\ RulesInv /\ RefusedInv
  BY <1>2, <1>4 DEF Init, LoadInv, ObjectInv, RulesInv, RefusedInv
<1>7. OneObject
  BY DEF Init, OneObject
<1> QED
  BY <1>5, <1>6, <1>7 DEF FileInv

\* What no change of the path or of a file touches.
LEMMA EvalKept ==
  ASSUME FileInv, UNCHANGED <<pc, load, eval>>
  PROVE  LoadInv' /\ RulesInv' /\ RefusedInv'
<1>1. UNCHANGED <<pc, handle, identity, content, macho, line_safe, next, asking, cache,
                  outcome, refused>>
  BY DEF load, eval
<1>2. \A r \in SigningRules : Result(r)' = Result(r)
  BY <1>1 DEF Result, Unsigned, AdHoc, UnanchoredFires, Invalid, Revoked, Notarization,
              Fires, Known, Dv, AnyAdHoc, AnySigned, HasUnclassifiedFatSlice, Readable
<1>3. \A r, t : Needs(r, t)' = Needs(r, t)
  BY <1>1 DEF Needs, Follows, Known, Dv, AnyAdHoc, AnySigned, Readable
<1>4. \A t : Raised(t)' = Raised(t)
  BY <1>1 DEF Raised, Known, Dv, Readable
<1>5. LoadInv'
  BY <1>1 DEF FileInv, LoadInv
<1>6. RulesInv'
  BY <1>1, <1>2, <1>3 DEF FileInv, RulesInv
<1>7. RefusedInv'
  BY <1>1, <1>4 DEF FileInv, RefusedInv
<1> QED
  BY <1>5, <1>6, <1>7

LEMMA StutterStep ==
  ASSUME FileInv, UNCHANGED vars
  PROVE  FileInv'
<1>1. UNCHANGED <<at, version, changes, strayed, returned, pc, load, eval>>
  BY DEF vars, disk
<1>2. UNCHANGED <<handle, identity, content, truncated, macho, line_safe, next, asking,
                  cache, outcome, marked, saw, refused>>
  BY <1>1 DEF load, eval
<1>3. TypeOK' /\ ObjectInv' /\ OneObject'
  BY <1>1, <1>2 DEF FileInv, TypeOK, Readable, ObjectInv, OneObject, Identity
<1> QED
  BY <1>1, <1>3, EvalKept DEF FileInv

\* Other programs.
LEMMA DiskStep ==
  ASSUME FileInv, Swap \/ Write
  PROVE  FileInv'
<1>1. /\ UNCHANGED <<pc, load, eval>> /\ Moved
      /\ changes' = changes + 1 /\ changes < MaxChanges
      /\ at' \in Files \cup {NoFile}
      /\ version' \in [Files -> 0..changes']
      /\ \A f \in Files : version[f] <= version'[f]
  BY DiskOK, SMTT(40) DEF Swap, Write, FileInv, TypeOK
<1>2. UNCHANGED <<handle, identity, content, truncated, macho, line_safe, next, asking,
                  cache, outcome, marked, saw, refused>>
  BY <1>1 DEF load, eval
<1>3. TypeOK'
  BY <1>1, <1>2, DiskOK DEF FileInv, TypeOK, Moved, Readable
<1>4. ObjectInv'
  <2>1. identity # NoFile =>
          /\ version[handle] <= version'[handle] /\ handle \in Files
          /\ version[handle] \in Int /\ version'[handle] \in Int
    BY <1>1, DiskOK DEF FileInv, ObjectInv, TypeOK
  <2>2. identity # NoFile =>
          /\ strayed' = (strayed \/ Identity(at)' # identity)
          /\ returned' = (returned \/ (strayed /\ Identity(at)' = identity))
    BY <1>1 DEF Moved, Loaded
  <2>3. identity # NoFile => identity[2] \in Int
    BY DEF FileInv, TypeOK, Identities
  <2>4. content # NoFile => content[2] \in Int
    BY DEF FileInv, TypeOK, Identities
  <2>5. identity # NoFile =>
          /\ ~strayed' => Identity(at)' = identity
          /\ strayed' /\ Identity(at)' = identity => returned'
    BY <2>2 DEF FileInv, ObjectInv
  <2>6. identity # NoFile =>
          handle \in Files /\ identity[1] = handle /\ identity[2] <= version'[handle]
    BY <2>1, <2>3 DEF FileInv, ObjectInv
  <2>7. content # NoFile =>
          /\ identity # NoFile
          /\ content[1] = handle
          /\ identity[2] <= content[2] /\ content[2] <= version'[handle]
    BY <2>1, <2>3, <2>4 DEF FileInv, ObjectInv
  <2>8. asking # "none" => strayed' \/ saw[asking] = identity
    BY <1>1 DEF FileInv, ObjectInv, Moved
  <2> QED
    BY <1>2, <2>5, <2>6, <2>7, <2>8 DEF ObjectInv
<1>5. OneObject'
  BY <1>1, <1>2 DEF FileInv, OneObject, Moved
<1> QED
  BY <1>1, <1>3, <1>4, <1>5, EvalKept DEF FileInv

\* The load: no rule has run and no tool was asked.
LEMMA LoadStep ==
  ASSUME FileInv, LoadFails \/ Open \/ Fstat \/ Read
  PROVE  FileInv'
<1>1. /\ UNCHANGED <<at, version, changes, eval>> /\ pc \in {"open", "fstat", "read"}
  BY DEF LoadFails, Open, Fstat, Read, disk
<1>2. /\ UNCHANGED <<next, asking, cache, outcome, marked, saw, refused>>
      /\ next = 1 /\ asking = "none" /\ content = NoFile
  BY <1>1 DEF eval, FileInv, LoadInv
<1>3. DOMAIN outcome = {}
  <2>1. 1..(next - 1) = {}
    BY <1>2
  <2> QED
    BY <2>1 DEF FileInv, TypeOK
<1>4. ~refused
  BY <1>2 DEF FileInv, RefusedInv, Raised, Readable
<1>5. RulesInv' /\ RefusedInv'
  BY <1>2, <1>3, <1>4, ToolNames DEF RulesInv, RefusedInv, SigningTools
<1>6. /\ at \in Files \cup {NoFile} /\ handle \in Files \cup {NoFile}
      /\ version \in [Files -> 0..MaxChanges]
  BY DiskOK DEF FileInv, TypeOK
<1>7. CASE LoadFails
  <2>1. TypeOK'
    BY <1>2, <1>7 DEF LoadFails, disk, FileInv, TypeOK, Identities
  <2>2. LoadInv' /\ ObjectInv' /\ OneObject'
    BY <1>2, <1>7 DEF LoadFails, disk, FileInv, LoadInv, ObjectInv, OneObject
  <2> QED
    BY <1>5, <2>1, <2>2 DEF FileInv
<1>8. CASE Open
  <2>1. TypeOK'
    BY <1>2, <1>6, <1>8 DEF Open, disk, FileInv, TypeOK
  <2>2. LoadInv' /\ ObjectInv' /\ OneObject'
    BY <1>2, <1>6, <1>8 DEF Open, disk, FileInv, LoadInv, ObjectInv, OneObject
  <2> QED
    BY <1>5, <2>1, <2>2 DEF FileInv
<1>9. CASE Fstat
  <2>1. handle \in Files /\ handle # NoFile
    BY <1>9, DiskOK DEF Fstat, FileInv, LoadInv
  <2>2. /\ Identity(handle) \in Identities /\ Identity(handle) # NoFile
        /\ Identity(handle)[1] = handle /\ Identity(handle)[2] = version[handle]
    BY <2>1, IdentityType DEF FileInv
  <2>3. Identity(at)' = Identity(at) /\ identity' = Identity(handle)
        /\ strayed' = (Identity(at) # Identity(handle)) /\ UNCHANGED returned
    BY <1>1, <1>9 DEF Fstat, Identity
  <2>4. TypeOK'
    BY <1>2, <1>9, <2>2, <2>3 DEF Fstat, FileInv, TypeOK
  <2>5. LoadInv'
    BY <1>2, <1>9, <2>1, <2>2, <2>3 DEF Fstat, FileInv, LoadInv
  <2>6. \A t \in Tools : cache[t] = "unset"
    BY <1>9 DEF Fstat, FileInv, LoadInv
  <2>7. handle' = handle /\ version' = version /\ content' = NoFile
        /\ version[handle] \in Int
    BY <1>2, <1>6, <1>9, <2>1 DEF Fstat
  <2>8. /\ ~strayed' => Identity(at)' = identity'
        /\ strayed' => Identity(at)' # identity'
    BY <2>3
  <2>9. ObjectInv'
    BY <1>2, <2>1, <2>2, <2>3, <2>7, <2>8 DEF ObjectInv
  <2>10. OneObject'
    BY <1>2, <2>6 DEF OneObject
  <2> QED
    BY <1>5, <2>4, <2>5, <2>9, <2>10 DEF FileInv
<1>10. CASE Read
  <2>1. handle \in Files /\ handle # NoFile
    BY <1>10, DiskOK DEF Read, FileInv, LoadInv
  <2>2. /\ Identity(handle) \in Identities /\ Identity(handle) # NoFile
        /\ Identity(handle)[1] = handle /\ Identity(handle)[2] = version[handle]
    BY <2>1, IdentityType DEF FileInv
  <2>3. UNCHANGED <<strayed, returned, handle, identity>> /\ Identity(at)' = Identity(at)
    BY <1>10 DEF Read, disk, Identity
  <2>4. TypeOK'
    BY <1>2, <1>10, <2>2, <2>3 DEF Read, disk, FileInv, TypeOK
  <2>5. LoadInv'
    BY <1>2, <1>10 DEF Read, FileInv, LoadInv
  <2>6. \A t \in Tools : cache[t] = "unset"
    BY <1>10 DEF Read, FileInv, LoadInv
  <2>7. identity # NoFile
    BY <1>10 DEF Read, FileInv, LoadInv
  <2>8. UNCHANGED <<version, handle, identity>> /\ content' = Identity(handle)
        /\ version[handle] \in Int
    BY <1>6, <1>10, <2>1 DEF Read, disk
  <2>9. ObjectInv'
    BY <1>2, <2>1, <2>2, <2>3, <2>7, <2>8 DEF FileInv, ObjectInv
  <2>10. OneObject'
    BY <1>2, <2>6 DEF OneObject
  <2> QED
    BY <1>5, <2>4, <2>5, <2>9, <2>10 DEF FileInv
<1> QED
  BY <1>7, <1>8, <1>9, <1>10

\* The rule in turn is one of the ruleset's.
LEMMA CurrentRule ==
  ASSUME TypeOK, Running
  PROVE  /\ Current \in Rules
         /\ next \in Nat /\ next + 1 \in 1..(Len(Ruleset) + 1)
         /\ DOMAIN outcome \cup {Current} = {Ruleset[i] : i \in 1..next}
<1>1. Len(Ruleset) \in Nat /\ Ruleset \in [1..Len(Ruleset) -> Rules]
  BY RulesetOK
<1>2. next \in 1..Len(Ruleset)
  BY <1>1 DEF TypeOK, Running
<1>3. 1..next = (1..(next - 1)) \cup {next}
  BY <1>1, <1>2
<1>4. DOMAIN outcome = {Ruleset[i] : i \in 1..(next - 1)}
  BY DEF TypeOK
<1> QED
  BY <1>1, <1>2, <1>3, <1>4 DEF Current

\* A tool is started: whatever it is, nobody asked it before.
LEMMA Startable ==
  ASSUME FileInv, Running, NEW t \in Tools,
         Needs(Current, t) \/ MayCheckAnchor(Current, t)
  PROVE  /\ cache[t] = "unset" /\ Readable
         /\ t \in SigningTools => Raised(t)
<1>1. CASE Needs(Current, t)
  BY <1>1 DEF Needs, Follows, Raised, AnySigned, AnyAdHoc
<1>2. CASE MayCheckAnchor(Current, t)
  BY <1>2, ToolNames DEF MayCheckAnchor
<1> QED
  BY <1>1, <1>2

LEMMA SpawnStep ==
  ASSUME FileInv, NEW t \in Tools, Spawn(t)
  PROVE  FileInv'
<1>1. /\ UNCHANGED <<disk, pc, load, next, cache, outcome, marked, refused>>
      /\ Running /\ asking = "none" /\ asking' = t
      /\ saw' = [saw EXCEPT ![t] = Identity(at)]
  BY DEF Spawn
<1>2. cache[t] = "unset" /\ Readable /\ (t \in SigningTools => Raised(t))
  BY Startable DEF Spawn
<1>3. UNCHANGED <<at, version, changes, strayed, returned, handle, identity, content,
                  truncated, line_safe, macho>>
  BY <1>1 DEF disk, load
<1>4. Identity(at) \in Identities
  BY IdentityType DEF FileInv, TypeOK
<1>5. TypeOK'
  <2>1. saw' \in [Tools -> Identities]
    BY <1>1, <1>4 DEF FileInv, TypeOK
  <2> QED
    BY <1>1, <1>2, <1>3, <2>1 DEF FileInv, TypeOK, Readable
<1>6. LoadInv'
  BY <1>1, <1>3 DEF FileInv, LoadInv, Running
<1>7. Identity(at)' = Identity(at)
  BY <1>3 DEF Identity
<1>8. saw'[t] = Identity(at) /\ \A u \in Tools \ {t} : saw'[u] = saw[u]
  BY <1>1 DEF FileInv, TypeOK
<1>9. ObjectInv'
  BY <1>1, <1>2, <1>3, <1>7, <1>8 DEF FileInv, ObjectInv, Readable
<1>10. OneObject'
  BY <1>1, <1>2, <1>3, <1>8 DEF FileInv, OneObject
<1>11. \A r \in SigningRules : Result(r)' = Result(r)
  BY <1>1, <1>3 DEF Result, Unsigned, AdHoc, UnanchoredFires, Invalid, Revoked, Notarization,
              Fires, Known, Dv, AnyAdHoc, AnySigned, HasUnclassifiedFatSlice, Readable
<1>12. \A r, u : Needs(r, u)' = Needs(r, u)
  BY <1>1, <1>3 DEF Needs, Follows, Known, Dv, AnyAdHoc, AnySigned, Readable
<1>13. \A u : Raised(u)' = Raised(u)
  BY <1>1, <1>3 DEF Raised, Known, Dv, Readable
<1>14. RulesInv'
  BY <1>1, <1>11, <1>12 DEF FileInv, RulesInv
<1>15. RefusedInv'
  BY <1>1, <1>2, <1>13 DEF FileInv, RefusedInv
<1> QED
  BY <1>5, <1>6, <1>9, <1>10, <1>14, <1>15 DEF FileInv

\* What an answer, whether it counts or not, leaves as it was.
LEMMA AnswerKept ==
  ASSUME FileInv, NEW t \in Tools, NEW answer, answer # "unset", cache[t] = "unset",
         cache' = [cache EXCEPT ![t] = answer],
         UNCHANGED <<load, pc, next, outcome>>, pc = "rules"
  PROVE  /\ LoadInv' /\ RulesInv'
         /\ \A u \in SigningTools : Raised(u) /\ cache[u] # "unset" =>
                                    Raised(u)' /\ cache'[u] = cache[u]
         /\ t \in SigningTools /\ Raised(t) => Raised(t)' /\ cache'[t] = answer
<1>1. UNCHANGED <<handle, identity, content, macho, line_safe>>
  BY DEF load
<1>2. DOMAIN cache = Tools
  BY DEF FileInv, TypeOK
<1>3. LoadInv'
  BY <1>1 DEF FileInv, LoadInv
<1>4. RulesInv'
  BY <1>2, AnswersDoNotReopen DEF FileInv, RulesInv
<1>5. /\ cache'[t] = answer
      /\ \A u \in Tools : cache[u] # "unset" => cache'[u] = cache[u]
  BY <1>2
<1>6. Known("dv") => cache["dv"] # "unset" /\ "dv" \in Tools
  BY DEF Known, Tools, SigningTools
<1>7. \A u \in SigningTools : Raised(u) => Raised(u)'
  BY <1>1, <1>5, <1>6 DEF Raised, Known, Dv, Readable
<1> QED
  BY <1>3, <1>4, <1>5, <1>7 DEF Tools

LEMMA SpawnFailsStep ==
  ASSUME FileInv, NEW t \in Tools, SpawnFails(t)
  PROVE  FileInv'
<1>1. /\ UNCHANGED <<disk, pc, load, next, asking, outcome, marked, saw, refused>>
      /\ Running /\ asking = "none"
      /\ cache' = [cache EXCEPT ![t] = "none"]
  BY DEF SpawnFails
<1>2. cache[t] = "unset"
  BY Startable DEF SpawnFails
<1>3. UNCHANGED <<at, version, changes, strayed, returned, handle, identity, content,
                  truncated, line_safe, macho>>
  BY <1>1 DEF disk, load
<1>4. TypeOK'
  <2>1. cache' \in [Tools -> {"unset", "none"} \cup UNION {Says(u) : u \in Tools}]
    <3> DEFINE Answers == {"unset", "none"} \cup UNION {Says(u) : u \in Tools}
    <3>1. {"unset", "none"} \subseteq Answers
      OBVIOUS
    <3>2. cache \in [Tools -> Answers]
      BY DEF FileInv, TypeOK
    <3> HIDE DEF Answers
    <3>3. cache' \in [Tools -> Answers]
      BY <1>1, <3>1, <3>2
    <3> QED
      BY <3>3 DEF Answers
  <2> QED
    BY <1>1, <1>3, <2>1, ToolNames DEF FileInv, TypeOK, Readable
<1>5. LoadInv' /\ RulesInv'
  BY <1>1, <1>2, AnswerKept DEF Running
<1>6. Identity(at)' = Identity(at)
  BY <1>3 DEF Identity
<1>7. ObjectInv'
  BY <1>1, <1>3, <1>6 DEF FileInv, ObjectInv
<1>8. OneObject'
  BY <1>1, <1>3 DEF FileInv, TypeOK, OneObject
<1>9. RefusedInv'
  <2>1. asking' \notin SigningTools
    BY <1>1 DEF SigningTools
  <2>2. \A u \in SigningTools : Raised(u) /\ cache[u] = "none" =>
                                   Raised(u)' /\ cache'[u] = "none"
    BY <1>1, <1>2, AnswerKept DEF Running
  <2> QED
    BY <1>1, <2>1, <2>2 DEF FileInv, RefusedInv
<1> QED
  BY <1>4, <1>5, <1>7, <1>8, <1>9 DEF FileInv

\* While the path names what was opened at the identity noted then, what was
\* read of it is that too: a write in between would have changed the identity.
LEMMA ObjectAsRead ==
  ASSUME TypeOK, ObjectInv, content # NoFile, Identity(at) = identity
  PROVE  content = identity
<1>1. /\ identity # NoFile /\ handle \in Files
      /\ identity[1] = handle /\ content[1] = handle
      /\ identity[2] <= content[2] /\ content[2] <= version[handle]
  BY DEF ObjectInv
<1>2. /\ identity \in Files \X (0..MaxChanges) /\ content \in Files \X (0..MaxChanges)
      /\ MaxChanges \in Nat
  BY <1>1, DiskOK DEF TypeOK, Identities
<1>3. at \in Files /\ identity[1] = at /\ identity[2] = version[at]
  BY <1>1, IdentityType DEF TypeOK
<1>4. identity[2] = content[2]
  BY <1>1, <1>2, <1>3
<1> QED
  BY <1>1, <1>2, <1>4

LEMMA AnswerStep ==
  ASSUME FileInv, NEW t \in Tools, Answer(t)
  PROVE  FileInv'
<1>1. /\ UNCHANGED <<disk, pc, load, next, outcome, marked>>
      /\ asking = t /\ asking' = "none"
  BY DEF Answer
<1>2. /\ cache[t] = "unset" /\ Readable /\ pc = "rules"
      /\ t \in SigningTools => Raised(t)
  BY <1>1, ToolNames DEF FileInv, TypeOK, LoadInv, RefusedInv
<1>3. UNCHANGED <<at, version, changes, strayed, returned, handle, identity, content,
                  truncated, line_safe, macho>>
  BY <1>1 DEF disk, load
<1>4. PICK answer : /\ answer \in Says(t) \cup {"none"}
                    /\ cache' = [cache EXCEPT ![t] = answer]
                    /\ Stable => refused' = refused /\ saw' = saw
                    /\ ~Stable => /\ answer = "none"
                                  /\ refused' = (refused \/ t \in SigningTools)
                                  /\ saw' = [saw EXCEPT ![t] = NoFile]
  BY DEF Answer, Remembered
<1>5. answer # "unset"
  BY <1>4 DEF Says, Tools, SigningTools, Statuses, SignerChecks
<1>6. TypeOK'
  <2>1. cache' \in [Tools -> {"unset", "none"} \cup UNION {Says(u) : u \in Tools}]
    <3> DEFINE Answers == {"unset", "none"} \cup UNION {Says(u) : u \in Tools}
    <3>1. Says(t) \cup {"none"} \subseteq Answers
      OBVIOUS
    <3>2. cache \in [Tools -> Answers]
      BY DEF FileInv, TypeOK
    <3> HIDE DEF Answers
    <3>3. cache' \in [Tools -> Answers]
      BY <1>4, <3>1, <3>2
    <3> QED
      BY <3>3 DEF Answers
  <2>2. saw' \in [Tools -> Identities] /\ refused' \in BOOLEAN
    BY <1>4 DEF FileInv, TypeOK, Identities
  <2> QED
    BY <1>1, <1>3, <2>1, <2>2 DEF FileInv, TypeOK
<1>7. LoadInv' /\ RulesInv'
  BY <1>1, <1>2, <1>4, <1>5, AnswerKept
<1>8. Identity(at)' = Identity(at)
  BY <1>3 DEF Identity
<1>9. ObjectInv'
  BY <1>1, <1>3, <1>8 DEF FileInv, ObjectInv
<1>10. OneObject'
  <2>1. \A u \in Tools \ {t} : cache'[u] = cache[u] /\ saw'[u] = saw[u]
    BY <1>4 DEF FileInv, TypeOK
  <2>2. cache'[t] = answer
    BY <1>4 DEF FileInv, TypeOK
  <2>3. ASSUME ~returned, answer # "none"
        PROVE  saw'[t] = identity /\ content = identity
    <3>1. Identity(at) = identity /\ identity # NoFile /\ saw' = saw
      BY <1>2, <1>4, <2>3 DEF Stable, FileInv, ObjectInv, Readable
    <3>2. saw[t] = identity
      BY <1>1, <2>3, <3>1, ToolNames DEF FileInv, ObjectInv
    <3>3. content = identity
      BY <1>2, <3>1, ObjectAsRead DEF FileInv, Readable
    <3> QED
      BY <3>1, <3>2, <3>3
  <2> QED
    BY <1>3, <2>1, <2>2, <2>3 DEF FileInv, OneObject
<1>11. RefusedInv'
  <2>1. asking' \notin SigningTools
    BY <1>1 DEF SigningTools
  <2>2. /\ \A u \in SigningTools : Raised(u) /\ cache[u] = "none" =>
                                   Raised(u)' /\ cache'[u] = "none"
        /\ t \in SigningTools => Raised(t)' /\ cache'[t] = answer
    BY <1>1, <1>2, <1>4, <1>5, AnswerKept
  <2>3. refused' => refused \/ (t \in SigningTools /\ answer = "none")
    BY <1>4
  <2> QED
    BY <2>1, <2>2, <2>3 DEF FileInv, RefusedInv
<1> QED
  BY <1>6, <1>7, <1>9, <1>10, <1>11 DEF FileInv

\* A rule returns.
LEMMA RuleStep ==
  ASSUME FileInv, EvaluateSigning \/ EvaluateContent
  PROVE  FileInv'
<1>1. /\ Running /\ asking = "none"
      /\ next' = next + 1
      /\ UNCHANGED <<disk, pc, load, asking, cache, saw, refused>>
      /\ marked' \in {marked, marked \cup {Current}}
      /\ Current \notin ContentRules => marked' = marked
  BY RulesetOK DEF EvaluateSigning, EvaluateContent, Conclude
<1>2. PICK result \in Results, covers \in BOOLEAN :
        /\ outcome' = [s \in DOMAIN outcome \cup {Current} |->
                         IF s = Current THEN [result |-> result, covers |-> covers]
                                        ELSE outcome[s]]
        /\ Current \in SigningRules =>
             /\ result = Result(Current)
             /\ \A t \in Tools : ~Needs(Current, t)
  <2>1. CASE EvaluateSigning
    BY <2>1, ResultType DEF EvaluateSigning, Conclude
  <2>2. CASE EvaluateContent
    BY <2>2, RulesetOK DEF EvaluateContent, Conclude, Results
  <2> QED
    BY <2>1, <2>2
<1>3. UNCHANGED <<at, version, changes, strayed, returned, handle, identity, content,
                  truncated, line_safe, macho>>
  BY <1>1 DEF disk, load
<1>4. /\ next' \in 1..(Len(Ruleset) + 1) /\ next' - 1 = next
      /\ DOMAIN outcome' = {Ruleset[i] : i \in 1..(next' - 1)}
  <2>1. next \in Nat /\ next' - 1 = next
    BY <1>1, CurrentRule DEF FileInv
  <2> QED
    BY <1>1, <1>2, <2>1, CurrentRule DEF FileInv
<1>5. TypeOK'
  <2>1. \A r \in DOMAIN outcome' :
          outcome'[r] \in [result : {"signal", "none", "NotApplicable"}, covers : BOOLEAN]
    BY <1>2 DEF FileInv, TypeOK, Results
  <2>2. marked' \subseteq ContentRules
    BY <1>1 DEF FileInv, TypeOK
  <2> QED
    BY <1>1, <1>3, <1>4, <2>1, <2>2 DEF FileInv, TypeOK, Readable
<1>6. LoadInv'
  BY <1>1, <1>3 DEF FileInv, LoadInv, Running
<1>7. Identity(at)' = Identity(at)
  BY <1>3 DEF Identity
<1>8. ObjectInv' /\ OneObject'
  BY <1>1, <1>3, <1>7 DEF FileInv, ObjectInv, OneObject
<1>9. \A r \in SigningRules : Result(r)' = Result(r)
  BY <1>1, <1>3 DEF Result, Unsigned, AdHoc, UnanchoredFires, Invalid, Revoked, Notarization,
              Fires, Known, Dv, AnyAdHoc, AnySigned, HasUnclassifiedFatSlice, Readable
<1>10. \A r, u : Needs(r, u)' = Needs(r, u)
  BY <1>1, <1>3 DEF Needs, Follows, Known, Dv, AnyAdHoc, AnySigned, Readable
<1>11. \A u : Raised(u)' = Raised(u)
  BY <1>1, <1>3 DEF Raised, Known, Dv, Readable
<1>12. RulesInv'
  BY <1>2, <1>9, <1>10 DEF FileInv, RulesInv
<1>13. RefusedInv'
  BY <1>1, <1>11 DEF FileInv, RefusedInv
<1> QED
  BY <1>5, <1>6, <1>8, <1>12, <1>13 DEF FileInv

LEMMA FileInvStep == FileInv /\ [Next]_vars => FileInv'
<1> SUFFICES ASSUME FileInv, [Next]_vars PROVE FileInv'
  OBVIOUS
<1>1. CASE Next
  BY <1>1, DiskStep, LoadStep, SpawnStep, SpawnFailsStep, AnswerStep, RuleStep, StutterStep
  DEF Next, Ended
<1>2. CASE UNCHANGED vars
  BY <1>2, StutterStep
<1> QED
  BY <1>1, <1>2

LEMMA FileInvHolds == Spec => []FileInv
BY FileInvInit, FileInvStep, PTL DEF Spec

(***************************************************************************)
(* What the invariant gives of a scan's results.                           *)
(***************************************************************************)
\* A signing rule reports a finding, or that it could not check, exactly as the
\* answers at hand say.
LEMMA Reports ==
  ASSUME FileInv, NEW r \in SigningRules, NEW result
  PROVE  r \in With(result) => Result(r) = result
BY DEF FileInv, RulesInv, With

\* At the end every rule has returned.
LEMMA AllReturned ==
  ASSUME FileInv, Done
  PROVE  DOMAIN outcome = Rules
<1>1. next = Len(Ruleset) + 1 /\ Len(Ruleset) \in Nat
  BY RulesetOK DEF FileInv, TypeOK, Done
<1>2. 1..(next - 1) = 1..Len(Ruleset)
  BY <1>1
<1>3. DOMAIN outcome = {Ruleset[i] : i \in 1..Len(Ruleset)}
  BY <1>2 DEF FileInv, TypeOK
<1>4. Ruleset \in [1..Len(Ruleset) -> Rules]
  BY RulesetOK
<1> QED
  BY <1>3, <1>4, RulesetOK

\* A complete result means that no signing rule could not check.
LEMMA CompleteReturns ==
  ASSUME FileInv, Done, Completeness = "Complete", NEW r \in SigningRules
  PROVE  Readable /\ Result(r) # "NotApplicable"
<1>1. Readable /\ Gaps = {}
  BY DEF Completeness
<1>2. r \in DOMAIN outcome /\ outcome[r].result # "NotApplicable"
  BY <1>1, AllReturned DEF Gaps, With, Rules
<1> QED
  BY <1>1, <1>2 DEF FileInv, RulesInv

\* Of the three, what one reports excludes the others.
LEMMA OneFires ==
  ASSUME Result("unsigned-binary") \in Results
  PROVE  /\ Result("unsigned-binary") = "signal" =>
              /\ Result("adhoc-signed-binary") # "signal"
              /\ Result("unanchored-signing-identity") # "signal"
              /\ Result("invalid-code-signature") # "signal"
              /\ Result("signed-not-notarized") # "signal"
         /\ Result("unanchored-signing-identity") = "signal" =>
              /\ Result("adhoc-signed-binary") # "signal"
              /\ Result("invalid-code-signature") # "signal"
BY DEF Result, Unsigned, AdHoc, UnanchoredFires, Invalid, Notarization, Fires,
       AnyAdHoc, AnySigned, HasUnclassifiedFatSlice

LEMMA OneProvenanceStep == FileInv => OneProvenance
<1> DEFINE P == {"unsigned-binary", "adhoc-signed-binary", "unanchored-signing-identity"}
<1> DEFINE F == With("signal") \cap P
<1> SUFFICES ASSUME FileInv PROVE Cardinality(F) <= 1
  BY DEF OneProvenance
<1>1. P \subseteq SigningRules
  BY DEF SigningRules
<1>2. \A r \in F : Result(r) = "signal"
  BY <1>1, Reports
<1>3. \A r, s \in F : r = s
  BY <1>2, OneFires, ResultType DEF SigningRules
<1>4. CASE F = {}
  BY <1>4, FS_EmptySet
<1>5. CASE F # {}
  <2>1. PICK r \in F : F = {r}
    BY <1>3, <1>5
  <2>2. Cardinality(F) = Cardinality({r})
    BY <2>1
  <2>3. Cardinality({r}) = 1
    BY FS_Singleton
  <2> QED
    BY <2>2, <2>3
<1> QED
  BY <1>4, <1>5

LEMMA ProvenanceStep == FileInv => ProvenanceBelowNotify
<1> SUFFICES ASSUME FileInv PROVE ProvenanceBelowNotify
  OBVIOUS
<1> DEFINE S(r) == r \in With("signal")
<1>1. \A r \in SigningRules : S(r) => Result(r) = "signal"
  BY Reports
<1>2. /\ S("unsigned-binary") => /\ ~S("adhoc-signed-binary")
                                 /\ ~S("unanchored-signing-identity")
                                 /\ ~S("invalid-code-signature")
                                 /\ ~S("signed-not-notarized")
      /\ S("unanchored-signing-identity") => /\ ~S("adhoc-signed-binary")
                                             /\ ~S("invalid-code-signature")
  BY <1>1, OneFires, ResultType DEF SigningRules
<1>3. \A r \in SigningRules : Scores(r) = IF S(r) THEN Weight(r) ELSE 0
  BY DEF Scores, With
<1> QED
  BY <1>2, <1>3 DEF ProvenanceBelowNotify, Weight, SigningRules

LEMMA HighStep == FileInv => HighMeansAnswered
<1> SUFFICES ASSUME FileInv, Done, Confidence = "High", macho.is_macho
             PROVE  HighMeansAnswered
  BY DEF HighMeansAnswered
<1>1. Completeness = "Complete"
  BY DEF Confidence, Completeness
<1>2. Readable /\ \A r \in SigningRules : Result(r) # "NotApplicable"
  BY <1>1, CompleteReturns DEF SigningRules
<1>3. line_safe /\ Known("dv")
  BY <1>2 DEF Result, SigningRules
<1>4. /\ AdHoc # "NotApplicable" /\ UnanchoredFires # "NotApplicable"
      /\ Invalid # "NotApplicable" /\ Revoked # "NotApplicable"
      /\ Notarization("Unnotarized") # "NotApplicable"
  BY <1>2, <1>3 DEF Result, SigningRules
<1>5. HasUnclassifiedFatSlice => AnyAdHoc /\ AnySigned
  BY <1>4 DEF AdHoc, UnanchoredFires
<1>6. HasUnclassifiedFatSlice =>
        With("signal") \cap {"adhoc-signed-binary", "unanchored-signing-identity"} # {}
  <2>1. SUFFICES ASSUME HasUnclassifiedFatSlice
                 PROVE  \/ "adhoc-signed-binary" \in With("signal")
                        \/ "unanchored-signing-identity" \in With("signal")
    OBVIOUS
  <2>2. AdHoc = "signal" \/ UnanchoredFires = "signal"
    BY <1>5, <2>1 DEF AdHoc, Fires
  <2>3. \A r \in SigningRules : Result(r) = "signal" => r \in With("signal")
    BY AllReturned DEF FileInv, RulesInv, With, Rules
  <2>4. /\ Result("adhoc-signed-binary") = AdHoc
        /\ Result("unanchored-signing-identity") = UnanchoredFires
    BY <1>2, <1>3 DEF Result
  <2> QED
    BY <2>2, <2>3, <2>4 DEF SigningRules
<1>7. Dv # "Unsigned" =>
        \/ cache["signer"] \in {"Anchored", "Unanchored", "Invalid"}
        \/ cache["signer"] = "UnsignedSlice" /\ macho.one_signed /\ ~AnySigned
  BY <1>4 DEF Invalid, UnanchoredFires
<1>8. Dv = "Signed" => Known("verify") /\ Known("spctl")
  BY <1>4 DEF Revoked, Notarization
<1> QED
  BY <1>3, <1>6, <1>7, <1>8 DEF HighMeansAnswered

LEMMA RefusedStep == FileInv => RefusedIsNotComplete
<1> SUFFICES ASSUME FileInv, Done, refused, Completeness = "Complete" PROVE FALSE
  BY DEF RefusedIsNotComplete
<1>1. PICK t \in SigningTools : Raised(t) /\ cache[t] = "none"
  BY DEF FileInv, RefusedInv
<1>2. Readable /\ \A r \in SigningRules : Result(r) # "NotApplicable"
  BY CompleteReturns DEF SigningRules
<1>3. macho.is_macho /\ line_safe
  BY <1>1 DEF Raised
<1>4. Known("dv") /\ t # "dv"
  BY <1>1, <1>2, <1>3 DEF Result, Known, SigningRules
<1>5. /\ Invalid # "NotApplicable" /\ Revoked # "NotApplicable"
      /\ Notarization("Unnotarized") # "NotApplicable"
  BY <1>2, <1>3, <1>4 DEF Result, SigningRules
<1> QED
  BY <1>1, <1>4, <1>5 DEF Raised, SigningTools, Invalid, Revoked, Notarization, Known, Dv

(***************************************************************************)
(* The theorems.                                                           *)
(***************************************************************************)
\* Types, and no tool is asked twice in a scan.
THEOREM FileTypes == Spec => []TypeOK
BY FileInvHolds, PTL DEF FileInv

\* Whatever other programs do to the path and the file, an answer that counts
\* is about the object whose bytes were read, unless the path came back to it.
THEOREM AnswersAreAboutTheFile == Spec => []OneObject
BY FileInvHolds, PTL DEF FileInv

\* At most one finding about who signed the file, in every order of the rules.
THEOREM OneProvenanceFinding == Spec => []OneProvenance
BY FileInvHolds, OneProvenanceStep, PTL

\* The findings about the signature alone never reach the notification score.
THEOREM ProvenanceAloneIsQuiet == Spec => []ProvenanceBelowNotify
BY FileInvHolds, ProvenanceStep, PTL

\* High confidence means that every question the signature raises was answered.
THEOREM HighConfidenceIsEarned == Spec => []HighMeansAnswered
BY FileInvHolds, HighStep, PTL

\* A refused answer about the signature makes the result incomplete.
THEOREM RefusalsShow == Spec => []RefusedIsNotComplete
BY FileInvHolds, RefusedStep, PTL
=============================================================================
