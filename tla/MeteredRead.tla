---------------------------- MODULE MeteredRead ----------------------------
(***************************************************************************)
(* What every reader of untrusted bytes promises, whatever it reads and in *)
(* whatever order: its work stays within the total it was given, what it   *)
(* has reported as not inspected stays reported, and once it has ended it  *)
(* does nothing more.  The ZIP reader implements it.                       *)
(***************************************************************************)
EXTENDS Integers

VARIABLES total,     \* the allowance
          spent,     \* bytes read and written so far
          reported,  \* what was reported as not inspected
          ended

vars == <<total, spent, reported, ended>>

Init == /\ total \in Nat
        /\ spent = 0
        /\ reported = {}
        /\ ended = FALSE

\* Some work within the allowance and some reports, either possibly none.
Read == /\ ~ended
        /\ spent' \in spent..total
        /\ reported \subseteq reported'
        /\ ended' \in BOOLEAN
        /\ UNCHANGED total

Spec == Init /\ [][Read]_vars

WithinAllowance == spent <= total
=============================================================================
