---------------------------- MODULE BoundedDecode ----------------------------
(***************************************************************************)
(* What a bounded decoder promises of a stream: what it hands on only      *)
(* grows, is always a beginning of the text the stream stands for, never   *)
(* passes the budget, and is all of it when the decoder says so.           *)
(***************************************************************************)
EXTENDS Integers, Sequences, SequencesExt

VARIABLES text,      \* what the stream decodes to without any limit
          budget, out, result

vars == <<text, budget, out, result>>

Init == /\ text \in Seq(Nat) /\ budget \in Nat
        /\ out = <<>> /\ result = "none"

Step == /\ result = "none"
        /\ IsPrefix(out, out') /\ IsPrefix(out', text) /\ Len(out') <= budget
        /\ result' = "ok" => out' = text
        /\ UNCHANGED <<text, budget>>

Spec == Init /\ [][Step]_vars
=============================================================================
