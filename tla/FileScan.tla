------------------------------ MODULE FileScan ------------------------------
(***************************************************************************)
(* The scan of one file (crates/nav-core/src/scan.rs, context.rs) while    *)
(* other programs change what its path names: the bounded read through one *)
(* handle, the rules one after another, the code-signing rules             *)
(* (rules/codesign.rs) with the tools they spawn by path, remember and     *)
(* trust only if the path still names what was read, and the verdict.      *)
(*                                                                         *)
(* Left open: what the parser finds in the file, what a tool says of it,   *)
(* and what the rules that look at the content find.                       *)
(***************************************************************************)
EXTENDS Integers, Sequences, FiniteSets

CONSTANTS Files,         \* files the path may come to name
          NoFile,        \* the path names nothing, or a stat of it fails
          Ruleset,       \* the rules, in the order they run
          ContentRules,  \* those of them that look at the content
          AnchorRules,   \* of these, the ones that weigh less what Apple vouches for
          MaxChanges     \* bound on what other programs do meanwhile

SigningRules == {"unsigned-binary", "adhoc-signed-binary",
                 "unanchored-signing-identity", "invalid-code-signature",
                 "revoked-code-signature", "signed-not-notarized",
                 "notarized-binary"}
Rules == SigningRules \cup ContentRules

ASSUME RulesetOK ==
  /\ Ruleset \in Seq(Rules)
  /\ \A r \in Rules : \E i \in 1..Len(Ruleset) : Ruleset[i] = r
  /\ \A i, j \in 1..Len(Ruleset) : Ruleset[i] = Ruleset[j] => i = j
  /\ SigningRules \cap ContentRules = {} /\ AnchorRules \subseteq ContentRules
  /\ ContentRules \cap {"dv", "signer", "verify", "spctl", "none"} = {}

ASSUME DiskOK == NoFile \notin Files \cup (Files \X Nat) /\ MaxChanges \in Nat

VARIABLES
  at,         \* the file the path names
  version,    \* how often each file was written to
  changes,    \* what other programs did so far
  pc,         \* "open", "fstat", "read" or "rules"
  handle,     \* the file that was opened
  identity,   \* what fstat said of it
  content,    \* what was read through it
  truncated,  \* the read stopped before the end
  line_safe,  \* the path holds no line break
  macho,      \* what the parser sees in it
  next,       \* the rule to evaluate, as an index of Ruleset
  asking,     \* the tool being run
  cache,      \* what each tool said, for the rest of the scan
  outcome,    \* what each rule evaluated so far returned
  marked,     \* rules that marked themselves incomplete
  saw,        \* what the path named when a tool looked (ghost)
  strayed,    \* the path named something else than what was read (ghost)
  returned,   \* and came back to it (ghost)
  refused     \* an answer about the signature was dropped for that (ghost)

disk == <<at, version, changes, strayed, returned>>
load == <<handle, identity, content, truncated, line_safe, macho>>
eval == <<next, asking, cache, outcome, marked, saw, refused>>
vars == <<disk, pc, load, eval>>

\* The last are verifies_apple_anchor, which each rule runs for itself.
SigningTools == {"dv", "signer", "verify", "spctl"}
Tools == SigningTools \cup AnchorRules
Statuses == {"Unsigned", "AdHocManual", "AdHocLinkerSigned", "Signed"}
SignerChecks == {"Anchored", "Unanchored", "Invalid", "UnsignedSlice"}

\* What a tool can say; "unclear" is what its classifier makes nothing of.
Says(t) ==
  CASE t = "dv" -> Statuses \cup {"unclear"}
    [] t = "signer" -> SignerChecks \cup {"unclear"}
    [] t = "verify" -> {"revoked", "silent"}
    [] t = "spctl" -> {"Notarized", "Unnotarized", "silent"}
    [] t \in AnchorRules -> {"verified", "silent"}

\* MachOScan, as far as these rules look. Some slice of a fat file is signed by
\* hand, some by an identity, some could not be classified; or a single one is
\* signed, all others walked in full and not.
Machos ==
  {m \in [is_macho : BOOLEAN, adhoc : BOOLEAN, signed : BOOLEAN,
          unclassified : BOOLEAN, one_signed : BOOLEAN] :
     /\ m.adhoc \/ m.signed \/ m.unclassified \/ m.one_signed => m.is_macho
     /\ m.one_signed => ~(m.adhoc /\ m.signed) /\ (m.unclassified => ~m.adhoc /\ ~m.signed)}

NotMachO == [is_macho |-> FALSE, adhoc |-> FALSE, signed |-> FALSE,
             unclassified |-> FALSE, one_signed |-> FALSE]

\* The device, inode, size and modification time, as one value per file and version.
Identity(f) == IF f = NoFile THEN NoFile ELSE <<f, version[f]>>
Identities == (Files \X (0..MaxChanges)) \cup {NoFile}

Readable == content # NoFile

Init ==
  /\ at \in Files \cup {NoFile}
  /\ version = [f \in Files |-> 0] /\ changes = 0
  /\ pc = "open"
  /\ handle = NoFile /\ identity = NoFile /\ content = NoFile
  /\ truncated = FALSE /\ line_safe \in BOOLEAN
  /\ macho = NotMachO
  /\ next = 1 /\ asking = "none" /\ cache = [t \in Tools |-> "unset"]
  /\ outcome = << >> /\ marked = {}
  /\ saw = [t \in Tools |-> NoFile]
  /\ strayed = FALSE /\ returned = FALSE /\ refused = FALSE

(***************************************************************************)
(* Other programs: one file takes another's place at the path, or a file   *)
(* is written in place.                                                    *)
(***************************************************************************)
Loaded == identity # NoFile
Done == pc = "rules" /\ next > Len(Ruleset)

Moved ==
  /\ strayed' = (strayed \/ (Loaded /\ Identity(at)' # identity))
  /\ returned' = (returned \/ (strayed /\ Identity(at)' = identity))

Swap ==
  /\ ~Done /\ changes < MaxChanges
  /\ at' \in (Files \cup {NoFile}) \ {at}
  /\ changes' = changes + 1
  /\ UNCHANGED version
  /\ Moved
  /\ UNCHANGED <<pc, load, eval>>

Write ==
  /\ ~Done /\ changes < MaxChanges
  /\ \E f \in Files \cap {at, handle} : version' = [version EXCEPT ![f] = @ + 1]
  /\ changes' = changes + 1
  /\ UNCHANGED at
  /\ Moved
  /\ UNCHANGED <<pc, load, eval>>

(***************************************************************************)
(* ScanContext::load.                                                      *)
(***************************************************************************)
\* What cannot be opened, examined or read is scanned without content.
LoadFails ==
  /\ pc \in {"open", "fstat", "read"}
  /\ pc' = "rules"
  /\ handle' = NoFile /\ identity' = NoFile /\ content' = NoFile
  /\ UNCHANGED <<disk, truncated, line_safe, macho, eval>>

Open ==
  /\ pc = "open" /\ at # NoFile
  /\ handle' = at
  /\ pc' = "fstat"
  /\ UNCHANGED <<disk, identity, content, truncated, line_safe, macho, eval>>

\* The identity is the opened file's, not that of what the path names by now.
Fstat ==
  /\ pc = "fstat"
  /\ identity' = Identity(handle)
  /\ strayed' = (Identity(at) # Identity(handle))
  /\ pc' = "read"
  /\ UNCHANGED <<at, version, changes, returned, handle, content, truncated, line_safe,
                 macho, eval>>

Read ==
  /\ pc = "read"
  /\ content' = Identity(handle)
  /\ truncated' \in BOOLEAN
  /\ macho' \in Machos
  /\ pc' = "rules"
  /\ UNCHANGED <<disk, handle, identity, line_safe, eval>>

(***************************************************************************)
(* The tools.                                                              *)
(***************************************************************************)
Dv == cache["dv"]
Known(t) == cache[t] \notin {"unset", "none", "unclear"}

\* any_slice_is: codesign reads the native slice only, the parser all of them.
AnyAdHoc == Dv = "AdHocManual" \/ (Dv # "Unsigned" /\ macho.adhoc)
AnySigned == Dv = "Signed" \/ (Dv # "Unsigned" /\ macho.signed)

HasUnclassifiedFatSlice == Dv # "Unsigned" /\ macho.unclassified

\* What a rule goes on to ask, once it knows the status.
Follows(r, t) ==
  \/ r = "adhoc-signed-binary" /\ t = "signer" /\ AnyAdHoc /\ AnySigned
  \/ r = "unanchored-signing-identity" /\ t = "signer" /\ AnySigned
  \/ r = "invalid-code-signature" /\ t = "signer" /\ Dv # "Unsigned"
  \/ r = "revoked-code-signature" /\ t = "verify" /\ Dv = "Signed"
  \/ r \in {"signed-not-notarized", "notarized-binary"} /\ t = "spctl" /\ Dv = "Signed"

\* A tool is asked at most once in a scan, whatever comes of it.
Needs(r, t) ==
  /\ r \in SigningRules /\ Readable /\ macho.is_macho /\ line_safe
  /\ cache[t] = "unset"
  /\ t = "dv" \/ Known("dv")
  /\ t = "dv" \/ Follows(r, t)

\* Whether a finding is one the anchor check would make weigh less is left open.
MayCheckAnchor(r, t) ==
  r \in AnchorRules /\ t = r /\ cache[t] = "unset" /\ Readable /\ macho.is_macho

Current == Ruleset[next]
Running == pc = "rules" /\ next <= Len(Ruleset)

Spawn(t) ==
  /\ Running /\ asking = "none"
  /\ Needs(Current, t) \/ MayCheckAnchor(Current, t)
  /\ asking' = t
  /\ saw' = [saw EXCEPT ![t] = Identity(at)]
  /\ UNCHANGED <<disk, pc, load, next, cache, outcome, marked, refused>>

SpawnFails(t) ==
  /\ Running /\ asking = "none"
  /\ Needs(Current, t) \/ MayCheckAnchor(Current, t)
  /\ cache' = [cache EXCEPT ![t] = "none"]
  /\ UNCHANGED <<disk, pc, load, next, asking, outcome, marked, saw, refused>>

\* Mutant: the opened file is compared with what was read of it.
Stable_Handle == Identity(handle) = identity

\* ObjectIdentity::of_path, after the tool has answered.
Stable == identity = NoFile \/ Identity(at) = identity

Remembered(t, answer) == [cache EXCEPT ![t] = answer]

Answer(t) ==
  /\ asking = t
  /\ asking' = "none"
  /\ IF Stable
     THEN /\ \E answer \in Says(t) : cache' = Remembered(t, answer)
          /\ UNCHANGED <<saw, refused>>
     ELSE /\ cache' = Remembered(t, "none")
          /\ refused' = (refused \/ t \in SigningTools)
          /\ saw' = [saw EXCEPT ![t] = NoFile]
  /\ UNCHANGED <<disk, pc, load, next, outcome, marked>>

(***************************************************************************)
(* The code-signing rules: "signal", "none" (ran, found nothing) or        *)
(* "NotApplicable".                                                        *)
(***************************************************************************)
Fires(found) == IF found THEN "signal" ELSE "none"

Unsigned == Fires(Dv = "Unsigned")

\* unanchored_fires, shared by the two rules below.
UnanchoredFires ==
  IF ~AnySigned
  THEN IF HasUnclassifiedFatSlice THEN "NotApplicable" ELSE "none"
  ELSE CASE cache["signer"] = "Unanchored" -> "signal"
         [] cache["signer"] \in {"Anchored", "Invalid"} -> "none"
         [] OTHER -> "NotApplicable"

\* Mutant: reported whatever the signer check says.
AdHoc_Always ==
  IF ~AnyAdHoc
  THEN IF HasUnclassifiedFatSlice THEN "NotApplicable" ELSE "none"
  ELSE "signal"

\* An unanchored finding replaces this one.
AdHoc ==
  IF ~AnyAdHoc
  THEN IF HasUnclassifiedFatSlice THEN "NotApplicable" ELSE "none"
  ELSE Fires(UnanchoredFires # "signal")

Invalid ==
  IF Dv = "Unsigned" THEN "none"
  ELSE CASE cache["signer"] = "Invalid" -> "signal"
         [] cache["signer"] \in {"Anchored", "Unanchored"} -> "none"
         [] cache["signer"] = "UnsignedSlice" /\ macho.one_signed -> "none"
         [] OTHER -> "NotApplicable"

\* Mutant: no answer is taken for a good one.
Revoked_Quiet == Fires(Dv = "Signed" /\ cache["verify"] = "revoked")

Revoked ==
  IF Dv = "Signed" /\ ~Known("verify") THEN "NotApplicable"
  ELSE Fires(Dv = "Signed" /\ cache["verify"] = "revoked")

Notarization(source) ==
  IF Dv = "Signed" /\ ~Known("spctl") THEN "NotApplicable"
  ELSE Fires(Dv = "Signed" /\ cache["spctl"] = source)

Result(r) ==
  IF ~Readable THEN "NotApplicable"
  ELSE IF ~macho.is_macho THEN "none"
  ELSE IF ~line_safe \/ ~Known("dv") THEN "NotApplicable"
  ELSE CASE r = "unsigned-binary" -> Unsigned
         [] r = "adhoc-signed-binary" -> AdHoc
         [] r = "unanchored-signing-identity" -> UnanchoredFires
         [] r = "invalid-code-signature" -> Invalid
         [] r = "revoked-code-signature" -> Revoked
         [] r = "signed-not-notarized" -> Notarization("Unnotarized")
         [] r = "notarized-binary" -> Notarization("Notarized")

(***************************************************************************)
(* scan_context.                                                           *)
(***************************************************************************)
Conclude(r, result, covers) ==
  /\ outcome' = [s \in DOMAIN outcome \cup {r} |->
                   IF s = r THEN [result |-> result, covers |-> covers] ELSE outcome[s]]
  /\ next' = next + 1
  /\ UNCHANGED <<disk, pc, load, asking, cache, saw, refused>>

Weight(r) ==
  CASE r = "unsigned-binary" -> 4
    [] r = "adhoc-signed-binary" -> 3
    [] r = "unanchored-signing-identity" -> 5
    [] r = "invalid-code-signature" -> 5
    [] r = "revoked-code-signature" -> 14
    [] r = "signed-not-notarized" -> 2
    [] r = "notarized-binary" -> -3

\* A signing rule, once it has the answers it asks for.
EvaluateSigning ==
  /\ Running /\ asking = "none" /\ Current \in SigningRules
  /\ \A t \in Tools : ~Needs(Current, t)
  /\ Conclude(Current, Result(Current), TRUE)
  /\ UNCHANGED marked

\* A content rule says what it finds, whether it missed some of what it should
\* have covered, and, of a truncated file, whether it saw past the prefix.
EvaluateContent ==
  /\ Running /\ asking = "none" /\ Current \in ContentRules
  /\ \E result \in {"signal", "none", "NotApplicable"}, covers \in BOOLEAN :
       /\ covers \/ (truncated /\ result # "NotApplicable")
       /\ Conclude(Current, result, covers)
  /\ marked' \in {marked, marked \cup {Current}}

Ended == Done /\ UNCHANGED vars

Next ==
  \/ Swap \/ Write
  \/ LoadFails \/ Open \/ Fstat \/ Read
  \/ \E t \in Tools : Spawn(t) \/ SpawnFails(t) \/ Answer(t)
  \/ EvaluateSigning \/ EvaluateContent
  \/ Ended

Spec == Init /\ [][Next]_vars

With(result) == {r \in DOMAIN outcome : outcome[r].result = result}

TruncationMatters ==
  truncated /\ \/ \E r \in DOMAIN outcome \ With("NotApplicable") : ~outcome[r].covers
               \/ DOMAIN outcome \ With("NotApplicable") = {}

\* coverage_gaps: why the result is not complete.
Gaps ==
  IF ~Readable THEN {"Unreadable"}
  ELSE With("NotApplicable") \cup marked
         \cup (IF TruncationMatters THEN {"Truncated"} ELSE {})

Completeness ==
  IF ~Readable THEN "Indeterminate"
  ELSE IF Gaps = {} THEN "Complete" ELSE "Partial"

Evaluated == DOMAIN outcome \ With("NotApplicable")

Confidence ==
  LET completeness == Completeness
      answered == Cardinality(Evaluated)
      unanswered == Cardinality(With("NotApplicable")) + Cardinality(Evaluated \cap marked)
  IN CASE completeness = "Indeterminate" -> "Low"
       [] completeness = "Complete" -> "High"
       [] completeness = "Partial" -> IF answered >= unanswered THEN "Medium" ELSE "Low"

\* What a signing rule adds to the score.
Scores(r) ==
  IF r \in DOMAIN outcome /\ outcome[r].result = "signal" THEN Weight(r) ELSE 0

(***************************************************************************)
(* Properties.                                                             *)
(***************************************************************************)
\* Types; a tool that is being run has not been asked before (context.rs:
\* "Runs `spawn` at most once per scan"), and nothing is asked of a file that
\* could not be read.
TypeOK ==
  /\ at \in Files \cup {NoFile}
  /\ version \in [Files -> 0..changes] /\ changes \in 0..MaxChanges
  /\ pc \in {"open", "fstat", "read", "rules"}
  /\ handle \in Files \cup {NoFile}
  /\ identity \in Identities /\ content \in Identities
  /\ truncated \in BOOLEAN /\ line_safe \in BOOLEAN /\ macho \in Machos
  /\ next \in 1..(Len(Ruleset) + 1)
  /\ asking \in Tools \cup {"none"}
  /\ cache \in [Tools -> {"unset", "none"} \cup UNION {Says(t) : t \in Tools}]
  /\ DOMAIN outcome = {Ruleset[i] : i \in 1..(next - 1)}
  /\ \A r \in DOMAIN outcome :
       outcome[r] \in [result : {"signal", "none", "NotApplicable"}, covers : BOOLEAN]
  /\ marked \subseteq ContentRules
  /\ saw \in [Tools -> Identities] /\ refused \in BOOLEAN
  /\ strayed \in BOOLEAN /\ returned \in BOOLEAN
  /\ asking # "none" => cache[asking] = "unset" /\ Readable

\* Every answer that counts is about the very object whose bytes were read,
\* whatever other programs did to the path or to the file between the open,
\* the fstat, the read, the tool's look and the second stat - unless the path
\* strayed and came back, the gap context.rs names.
OneObject ==
  ~returned => \A t \in Tools :
                 cache[t] \notin {"unset", "none"} => saw[t] = identity /\ content = identity

\* "One provenance signal per file" (codesign.rs): of unsigned, hand-signed and
\* unanchored at most one is reported, in every order of the rules and whether
\* the tools answer, fail or are refused.
OneProvenance ==
  Cardinality(With("signal") \cap {"unsigned-binary", "adhoc-signed-binary",
                                   "unanchored-signing-identity"}) <= 1

\* The signing rules of category ProvenanceConcern together reach at most 10,
\* below Notify (docs/design-changelog.md, v0.64).
ProvenanceBelowNotify ==
  Scores("unsigned-binary") + Scores("adhoc-signed-binary")
    + Scores("unanchored-signing-identity") + Scores("invalid-code-signature")
    + Scores("signed-not-notarized") <= 10

\* High confidence in a program's result means that every question its
\* signature raises was put and answered, and that a slice nobody could classify
\* hides behind a finding at most: never "clean" for "could not check".
HighMeansAnswered ==
  Done /\ macho.is_macho /\ Confidence = "High" =>
    /\ line_safe /\ Known("dv")
    /\ HasUnclassifiedFatSlice =>
         With("signal") \cap {"adhoc-signed-binary", "unanchored-signing-identity"} # {}
    /\ Dv # "Unsigned" =>
         \/ cache["signer"] \in {"Anchored", "Unanchored", "Invalid"}
         \/ cache["signer"] = "UnsignedSlice" /\ macho.one_signed /\ ~AnySigned
    /\ Dv = "Signed" => Known("verify") /\ Known("spctl")

\* A scan during which an answer about the signature was dropped because the
\* path named something else does not call itself complete.
RefusedIsNotComplete ==
  Done /\ refused => Completeness # "Complete"
=============================================================================
