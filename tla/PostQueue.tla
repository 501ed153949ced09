----------------------------- MODULE PostQueue ------------------------------
(***************************************************************************)
(* core/EventLoop's door for other threads, step by step.  post() puts a   *)
(* closure into posted_ under a mutex, and then writes the eventfd; the    *)
(* loop's callback for the eventfd first reads it empty, and then takes    *)
(* all of posted_ under the mutex.  The steps of the two interleave.       *)
(***************************************************************************)
EXTENDS Naturals, Sequences

CONSTANTS
    Threads,    \* that post
    Closures    \* what they post

VARIABLES
    posted,     \* posted_
    wake,       \* the eventfd is readable
    writing,    \* threads in post() that have yet to write the eventfd
    at,         \* where the loop thread is
    batch,      \* dispatchPosted()'s batch, as far as it has not run
    running     \* running_

postVars == <<posted, wake, writing, at, batch, running>>

PostTypeOK ==
    /\ posted \in Seq(Closures)
    /\ wake \in BOOLEAN
    /\ writing \subseteq Threads
    /\ batch \in Seq(Closures)
    /\ running \in BOOLEAN

\* The first half of post(), in thread t ...
Push(t, c) ==
    /\ t \notin writing
    /\ posted' = Append(posted, c)
    /\ writing' = writing \cup {t}
    /\ UNCHANGED <<wake, at, batch, running>>

\* MUTANT of WriteWake: the wakeup is not sent.
WriteNothing(t) ==
    /\ t \in writing
    /\ writing' = writing \ {t}
    /\ UNCHANGED <<posted, wake, at, batch, running>>

\* ... and the second.
WriteWake(t) ==
    /\ t \in writing
    /\ wake' = TRUE
    /\ writing' = writing \ {t}
    /\ UNCHANGED <<posted, at, batch, running>>

\* epoll_wait reports the eventfd, and its callback reads it until nothing is left.
ReadWake ==
    /\ at = "wait"
    /\ wake
    /\ wake' = FALSE
    /\ at' = "swap"
    /\ UNCHANGED <<posted, writing, batch, running>>

\* MUTANT of TakePosted: only the first closure is taken.
TakeFirst ==
    /\ at = "swap"
    /\ batch' = IF posted = <<>> THEN <<>> ELSE <<Head(posted)>>
    /\ posted' = IF posted = <<>> THEN <<>> ELSE Tail(posted)
    /\ at' = "run"
    /\ UNCHANGED <<wake, writing, running>>

\* dispatchPosted() takes the queue.
TakePosted ==
    /\ at = "swap"
    /\ batch' = posted
    /\ posted' = <<>>
    /\ at' = "run"
    /\ UNCHANGED <<wake, writing, running>>

\* The batch has run: epoll_wait again, or run() is over.
BatchDone ==
    /\ at = "run" /\ batch = <<>>
    /\ at' = IF running THEN "wait" ELSE "over"
    /\ UNCHANGED <<posted, wake, writing, batch, running>>

\* quit(), called by a closure: the last of posted_ is not waited for.
Quit == running' = FALSE /\ wake' = TRUE

-----------------------------------------------------------------------------
\* What is posted is not left lying: the eventfd is readable, or about to be, or the loop is
\* between reading it and taking the queue.  With post() or the callback the other way
\* round, or a batch that leaves something behind, a closure waits for the next post.
WakeupOwed == posted # <<>> => wake \/ writing # {} \/ at = "swap"

=============================================================================
