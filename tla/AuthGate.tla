------------------------------ MODULE AuthGate ------------------------------
(***************************************************************************)
(* What the lock screen promises, seen from the compositor: the session is *)
(* locked at most once, and once locked it opens again only after PAM has  *)
(* accepted a password, or because the compositor itself took the lock     *)
(* back (ext-session-lock-v1 `finished`).  QyprLock implements this.       *)
(***************************************************************************)

VARIABLES
    session,   \* "open", "locked"; "released" once open again
    passed,    \* PAM has answered Success to some attempt
    revoked    \* the compositor took the lock back

gateVars == <<session, passed, revoked>>

Init == /\ session = "open"
        /\ passed = FALSE
        /\ revoked = FALSE

Grant == /\ session = "open"
         /\ session' = "locked"
         /\ UNCHANGED <<passed, revoked>>

Pass == /\ passed' = TRUE
        /\ UNCHANGED <<session, revoked>>

Revoke == /\ session = "locked"
          /\ revoked' = TRUE
          /\ session' \in {"locked", "released"}
          /\ UNCHANGED passed

Release == /\ session = "locked"
           /\ passed
           /\ session' = "released"
           /\ UNCHANGED <<passed, revoked>>

Next == Grant \/ Pass \/ Revoke \/ Release

Spec == Init /\ [][Next]_gateVars

=============================================================================
