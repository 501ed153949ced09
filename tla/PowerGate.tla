----------------------------- MODULE PowerGate ------------------------------
(***************************************************************************)
(* What the power popover promises: an action runs only from a popover     *)
(* that asked about that very action, and each popover that is asked runs  *)
(* it once or not at all.                                                  *)
(***************************************************************************)
EXTENDS Sequences

CONSTANTS Actions, Nothing

VARIABLES
    asked,      \* the action the popover asks about, or Nothing
    done        \* the actions that ran

Init == asked = Nothing /\ done = <<>>

Ask == asked = Nothing /\ asked' \in Actions /\ done' = done
Dismiss == asked # Nothing /\ asked' = Nothing /\ done' = done
Confirm == asked # Nothing /\ asked' = Nothing /\ done' = Append(done, asked)

Next == Ask \/ Dismiss \/ Confirm

Spec == Init /\ [][Next]_<<asked, done>>

=============================================================================
