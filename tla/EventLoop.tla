----------------------------- MODULE EventLoop ------------------------------
(***************************************************************************)
(* core/EventLoop: an epoll reactor whose descriptors are looked up by     *)
(* number.  A timer is a timerfd and its handle is the descriptor number,  *)
(* which the kernel gives again once it is closed: what epoll_wait         *)
(* reported of a closed timer can reach the timer that took its number.    *)
(*                                                                         *)
(* Timers are operators on a record l with the fields `timers` (fd to what *)
(* the timer is for) and `expired`, since one callback may arm several.    *)
(***************************************************************************)
EXTENDS Integers, Sequences, FiniteSets

CONSTANTS
    Fds,        \* descriptor numbers timers can get
    MaxBatch    \* events one epoll_wait returns (16 in the code)

ASSUME FdsAssumption == Fds \subseteq Nat \ {0, 1} /\ IsFiniteSet(Fds)
ASSUME MaxBatchAssumption == MaxBatch \in Nat \ {0}

VARIABLES
    phase,      \* of the loop thread: see EventLoopTypeOK
    ready,      \* descriptors of epoll_wait's batch the loop has still to visit
    running     \* running_

eventLoopVars == <<phase, ready, running>>

\* The two descriptors that are never closed while the loop runs, and no descriptor.
WakeFd == 0
WaylandFd == 1
NoTimer == -1

EventLoopTypeOK ==
    \* in epoll_wait; visiting the batch; in dispatchPosted; in a roundtrip from there; over
    /\ phase \in {"wait", "visit", "results", "roundtrip", "stopped"}
    /\ ready \subseteq Fds \cup {WakeFd, WaylandFd}
    /\ running \in BOOLEAN

EventLoopInit ==
    /\ phase = "wait"
    /\ ready = {}
    /\ running = TRUE

\* timerfd_create takes the lowest number not in use.
NewFd(l) == CHOOSE fd \in Fds \ DOMAIN l.timers : \A g \in Fds \ DOMAIN l.timers : fd <= g

\* fds_ with one more, and without one.
Opened(timers, fd, what) ==
    [g \in DOMAIN timers \cup {fd} |-> IF g = fd THEN what ELSE timers[g]]
Closed(timers, fd) == [g \in DOMAIN timers \ {fd} |-> timers[g]]

AddTimer(l, what) == [l EXCEPT !.timers = Opened(@, NewFd(l), what)]

\* MUTANT of RemoveTimer: erased, but the descriptor stays open and readable.
RemoveTimerKeepsFd(l, fd) == [l EXCEPT !.timers = Closed(@, fd)]

\* Erased, out of epoll and closed; nothing if fd is no timer.
RemoveTimer(l, fd) == [l EXCEPT !.timers = Closed(@, fd), !.expired = @ \ {fd}]

\* epoll_wait returns some of what is readable.
Wait(readable) ==
    /\ phase = "wait"
    /\ ready' \in SUBSET readable \ {{}}
    /\ Cardinality(ready') <= MaxBatch
    /\ phase' = "visit"
    /\ running' = running

\* The loop comes to fd ...
Visiting(fd) == phase = "visit" /\ fd \in ready /\ ready' = ready \ {fd}

\* ... and goes on to the rest of the batch, or to the next epoll_wait.
Visited == phase' = IF ready' = {} THEN "wait" ELSE "visit"

\* fds_.find() does not know the number any more.
VisitClosed(l) ==
    \E fd \in ready \ {WakeFd, WaylandFd} :
        /\ fd \notin DOMAIN l.timers
        /\ Visiting(fd)
        /\ Visited
        /\ running' = running

=============================================================================
