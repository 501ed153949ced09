------------------------------- MODULE Login --------------------------------
(***************************************************************************)
(* The part of ui/LockScreen that handles the secret: the password buffer, *)
(* the status line, submitting an attempt and receiving its result.  Each  *)
(* operator is what one LockScreen function does to password and status;   *)
(* QyprLock and LockScreen call them from their handlers.                  *)
(***************************************************************************)
EXTENDS PamAuthenticator

VARIABLES
    password,   \* password_
    status,     \* statusMessage_, with hasError_: see Statuses
    handled     \* results onAuthResult has received

loginVars == <<password, status, handled>>

\* statusMessage_ as far as code tells it apart.  hasError_ holds exactly in the last two.
Statuses == {"none", "authenticating", "unlocking", "failed", "error"}

LoginTypeOK ==
    /\ password \in Passwords
    /\ status \in Statuses
    /\ handled \in Nat

LoginInit ==
    /\ password = ""
    /\ status = "none"
    /\ handled = 0

\* password_ += utf8.  More text never leaves a right password right.
TypeText == /\ password' \in IF password = "right" THEN {"wrong"} ELSE {"right", "wrong"}
            /\ UNCHANGED <<status, handled>>

\* utf8PopBack(password_), a no-op on an empty buffer.
PopBack == /\ \/ password = "" /\ password' = ""
              \/ password = "right" /\ password' \in {"", "wrong"}
              \/ password = "wrong" /\ password' \in Passwords
           /\ UNCHANGED <<status, handled>>

\* password_.clear() on Escape and Ctrl+U
ClearPassword == /\ password' = ""
                 /\ UNCHANGED <<status, handled>>

\* MUTANT of SubmitPassword: without the check of pam_.busy(), so that the secret is dropped
\* before authenticate() refuses it.
SubmitUnchecked ==
    IF password = ""
    THEN UNCHANGED <<pamVars, loginVars>>
    ELSE /\ status' = "authenticating"
         /\ password' = ""
         /\ handled' = handled
         /\ IF Refuses(password) THEN UNCHANGED pamVars ELSE Authenticate(password)

\* submitPassword().  Only the loop thread sets busy_, so the flag it has just read as
\* clear is still clear when authenticate() reads it again.
SubmitPassword ==
    IF password = "" \/ busy
    THEN UNCHANGED <<pamVars, loginVars>>
    ELSE /\ status' = "authenticating"
         /\ password' = ""
         /\ handled' = handled
         /\ Authenticate(password)

\* MUTANT of OnAuthResult: an Error is not shown.
ErrorNotShown(result) ==
    /\ handled' = handled + 1
    /\ \/ result.verdict = "Success" /\ status' = "unlocking" /\ password' = password
       \/ result.verdict = "Failure" /\ status' = "failed" /\ password' = ""
       \/ result.verdict = "Error" /\ status' = status /\ password' = ""

\* onAuthResult(): the status line, and the buffer cleared on anything but Success.
OnAuthResult(result) ==
    /\ handled' = handled + 1
    /\ \/ result.verdict = "Success" /\ status' = "unlocking" /\ password' = password
       \/ result.verdict = "Failure" /\ status' = "failed" /\ password' = ""
       \/ result.verdict = "Error" /\ status' = "error" /\ password' = ""

=============================================================================
