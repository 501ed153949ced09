-------------------------- MODULE PamAuthenticator --------------------------
(***************************************************************************)
(* auth/PamAuthenticator: one password attempt at a time on a worker       *)
(* thread, its result posted to the event loop's queue.  The operations    *)
(* are actions over pamVars; Login calls Authenticate on the loop thread,  *)
(* the worker's two steps interleave with everything else.                 *)
(***************************************************************************)
EXTENDS Naturals, Sequences

VARIABLES
    busy,       \* busy_, the atomic flag both threads touch
    worker,     \* worker_: "none", "authenticating", "posted", "finished"
    secret,     \* the password the worker's closure holds, "" once cleared
    attempts,   \* attempts begun, which numbers their results
    posted,     \* EventLoop::posted_: results waiting for the loop
    passed      \* history: PAM has answered Success

pamVars == <<busy, worker, secret, attempts, posted, passed>>

\* A password as PAM tells it apart: nothing typed, the right one, any other.
Passwords == {"", "right", "wrong"}
Verdicts == {"Success", "Failure", "Error"}
Results == [id : Nat, verdict : Verdicts]

\* What PAM (pam_authenticate, then pam_acct_mgmt) may answer.  A right password can
\* still fail: a locked or expired account, a broken stack.
PamAnswers(pw) == IF pw = "right" THEN Verdicts ELSE {"Failure", "Error"}

PamTypeOK ==
    /\ busy \in BOOLEAN
    /\ worker \in {"none", "authenticating", "posted", "finished"}
    /\ secret \in Passwords
    /\ attempts \in Nat
    /\ posted \in Seq(Results)
    /\ passed \in BOOLEAN

PamInit ==
    /\ busy = FALSE
    /\ worker = "none"
    /\ secret = ""
    /\ attempts = 0
    /\ posted = <<>>
    /\ passed = FALSE

\* authenticate() refuses (returns false) while an attempt runs or without a password.
Refuses(pw) == busy \/ pw = ""

\* authenticate() from its join on: worker_.join() returns once the previous attempt's
\* thread has ended.
Joined == worker \in {"none", "finished"}

Authenticate(pw) ==
    /\ ~Refuses(pw)
    /\ Joined
    /\ busy' = TRUE
    /\ worker' = "authenticating"
    /\ secret' = pw
    /\ attempts' = attempts + 1
    /\ UNCHANGED <<posted, passed>>

\* The worker: PAM answers and the result is posted ...
WorkerPosts ==
    /\ worker = "authenticating"
    /\ \E v \in PamAnswers(secret) :
          /\ posted' = Append(posted, [id |-> attempts, verdict |-> v])
          /\ passed' = (passed \/ v = "Success")
    /\ secret' = ""
    /\ worker' = "posted"
    /\ UNCHANGED <<busy, attempts>>

\* ... and only then is busy_ cleared, so the loop can see the result while still busy.
WorkerEnds ==
    /\ worker = "posted"
    /\ busy' = FALSE
    /\ worker' = "finished"
    /\ UNCHANGED <<secret, attempts, posted, passed>>

=============================================================================
