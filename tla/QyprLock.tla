------------------------------ MODULE QyprLock ------------------------------
(***************************************************************************)
(* The locker end to end: App::run and App::requestUnlock, the event loop  *)
(* that runs every callback (core/EventLoop, at the granularity of one     *)
(* callback), the password slice of LockScreen (Login), PamAuthenticator   *)
(* with its worker thread, LockSession and the compositor.                 *)
(*                                                                         *)
(* What may interleave: the worker's steps and the compositor's with each  *)
(* callback of the loop; and, because unlock() blocks in a roundtrip that  *)
(* dispatches events, input handlers inside the callback that unlocks.     *)
(***************************************************************************)
EXTENDS Login, LockSession

CONSTANT MaxKeys    \* bound: key events the user produces

ASSUME MaxKeysAssumption == MaxKeys \in Nat

VARIABLES
    pc,        \* where the loop thread is, see LoopTypeOK
    running,   \* EventLoop::running_
    batch,     \* the results dispatchPosted() has swapped out and not yet run
    keys,      \* key events sent so far
    exitCode   \* what App::run returned, -1 before

loopVars == <<pc, running, batch, keys, exitCode>>
vars == <<pamVars, loginVars, lockVars, loopVars>>

LoopTypeOK ==
    \* before run(); in epoll_wait; dispatching Wayland events; running posted results;
    \* in unlock()'s roundtrip; in ~App; gone
    /\ pc \in {"start", "wait", "dispatch", "posted", "roundtrip", "teardown", "exited"}
    /\ running \in BOOLEAN
    /\ batch \in Seq(Results)
    /\ keys \in Nat
    /\ exitCode \in {-1, 0, 1}
TypeOK == PamTypeOK /\ LoginTypeOK /\ LockTypeOK /\ LoopTypeOK

Init ==
    /\ PamInit /\ LoginInit /\ LockInit
    /\ pc = "start"
    /\ running = FALSE
    /\ batch = <<>>
    /\ keys = 0
    /\ exitCode = -1

-----------------------------------------------------------------------------
\* App::run.

\* connect() fails: no display, or no session-lock support.
StartFails ==
    /\ pc = "start"
    /\ pc' = "teardown"
    /\ exitCode' = 1
    /\ UNCHANGED <<pamVars, loginVars, lockVars, running, batch, keys>>

\* lock(), then EventLoop::run, whose first prepare flushes the requests.
Start ==
    /\ pc = "start"
    /\ Lock
    /\ toComp' = toComp \o LockRequests
    /\ running' = TRUE
    /\ pc' = "wait"
    /\ UNCHANGED <<pamVars, loginVars, compVars, outbuf, toClient, inq, conn, batch, keys, exitCode>>

\* Where the loop thread goes once the callbacks of one fd are done.  A running loop
\* flushes (its prepare) before it waits again; otherwise run() returns 0 and App goes.
CallbackDone(out) ==
    IF running'
    THEN /\ pc' = "wait"
         /\ toComp' = toComp \o out
         /\ outbuf' = <<>>
         /\ exitCode' = exitCode
    ELSE /\ pc' = "teardown"
         /\ outbuf' = out
         /\ exitCode' = 0
         /\ toComp' = toComp

-----------------------------------------------------------------------------
\* Wayland events.

\* A key reaches onTextInput or onSpecialKey, which ignore it while the power dialog is up.
OnKey(k) ==
    \/ UNCHANGED <<pamVars, loginVars>>
    \/ k = "text" /\ TypeText /\ UNCHANGED pamVars
    \/ k = "back" /\ PopBack /\ UNCHANGED pamVars
    \/ k = "clear" /\ ClearPassword /\ UNCHANGED pamVars
    \/ k = "enter" /\ SubmitPassword

\* The handler of one event; `finished` makes App quit the loop.
Handle(e) ==
    /\ \/ e.ev = "locked" /\ OnLocked
       \/ e.ev = "finished" /\ OnFinished
       \/ e.ev = "global" /\ OnGlobal(e.output)
       \/ e.ev = "remove" /\ OnGlobalRemove(e.output)
       \/ e \in KeyEvents /\ UNCHANGED clientVars
    /\ IF e \in KeyEvents THEN OnKey(e.ev) ELSE UNCHANGED <<pamVars, loginVars>>
    /\ running' = (running /\ ~(e.ev = "finished" /\ lockObj = "live"))

\* wl_display_dispatch reads what the socket holds ...
ReadEvents ==
    /\ pc = "wait"
    /\ toClient # <<>>
    /\ inq' = toClient
    /\ toClient' = <<>>
    /\ pc' = "dispatch"
    /\ UNCHANGED <<pamVars, loginVars, clientVars, compVars, outbuf, toComp, conn,
                   running, batch, keys, exitCode>>

\* ... and runs a handler per event, all of them even if one quits the loop.
DispatchEvent ==
    /\ pc = "dispatch"
    /\ Handle(Head(inq))
    /\ inq' = Tail(inq)
    /\ LET out == outbuf \o HandlerRequests(Head(inq)) IN
         IF Tail(inq) = <<>>
         THEN CallbackDone(out)
         ELSE outbuf' = out /\ UNCHANGED <<pc, toComp, exitCode>>
    /\ UNCHANGED <<compVars, toClient, conn, batch, keys>>

\* wl_display_dispatch fails once the connection is gone: quit.
LoseConnection ==
    /\ pc = "wait"
    /\ conn = "lost"
    /\ toClient = <<>>
    /\ running' = FALSE
    /\ CallbackDone(outbuf)
    /\ UNCHANGED <<pamVars, loginVars, clientVars, compVars, toClient, inq, conn, batch, keys>>

-----------------------------------------------------------------------------
\* Posted results.

\* MUTANT of TakePosted: the queue is copied instead of swapped out.
TakePostedByCopy ==
    /\ pc = "wait"
    /\ posted # <<>>
    /\ batch' = posted
    /\ pc' = "posted"
    /\ UNCHANGED <<pamVars, loginVars, lockVars, running, keys, exitCode>>

\* dispatchPosted() swaps the whole queue out.
TakePosted ==
    /\ pc = "wait"
    /\ posted # <<>>
    /\ batch' = posted
    /\ posted' = <<>>
    /\ pc' = "posted"
    /\ UNCHANGED <<busy, worker, secret, attempts, passed, loginVars, lockVars,
                   running, keys, exitCode>>

\* A result that does not unlock: Failure, Error, or a Success after the first.
RunResult ==
    /\ pc = "posted"
    /\ Head(batch).verdict # "Success" \/ lockObj = "none"
    /\ OnAuthResult(Head(batch))
    /\ running' = (running /\ Head(batch).verdict # "Success")
    /\ batch' = Tail(batch)
    /\ IF Tail(batch) = <<>>
       THEN CallbackDone(outbuf)
       ELSE UNCHANGED <<pc, toComp, outbuf, exitCode>>
    /\ UNCHANGED <<pamVars, clientVars, compVars, toClient, inq, conn, keys>>

\* MUTANT of RunSuccess: any verdict but Failure unlocks.
RunNotFailure ==
    /\ pc = "posted"
    /\ Head(batch).verdict # "Failure"
    /\ OnAuthResult(Head(batch))
    /\ batch' = Tail(batch)
    /\ Unlock
    /\ toComp' = toComp \o outbuf \o <<ReleaseRequest, Req("sync")>>
    /\ outbuf' = <<>>
    /\ pc' = "roundtrip"
    /\ UNCHANGED <<pamVars, compVars, toClient, inq, conn, running, keys, exitCode>>

\* MUTANT of RunSuccess: unlock() without its roundtrip; the release stays in outbuf.
RunSuccessNoRoundtrip ==
    /\ pc = "posted"
    /\ Head(batch).verdict = "Success"
    /\ OnAuthResult(Head(batch))
    /\ batch' = Tail(batch)
    /\ Unlock
    /\ running' = FALSE
    /\ IF Tail(batch) = <<>>
       THEN CallbackDone(outbuf \o <<ReleaseRequest>>)
       ELSE outbuf' = outbuf \o <<ReleaseRequest>> /\ UNCHANGED <<pc, toComp, exitCode>>
    /\ UNCHANGED <<pamVars, compVars, toClient, inq, conn, keys>>

\* Success: onAuthResult calls requestUnlock, whose unlock() queues the release and
\* blocks in a roundtrip, which flushes everything queued.
RunSuccess ==
    /\ pc = "posted"
    /\ Head(batch).verdict = "Success"
    /\ OnAuthResult(Head(batch))
    /\ batch' = Tail(batch)
    /\ Unlock
    /\ toComp' = toComp \o outbuf \o <<ReleaseRequest, Req("sync")>>
    /\ outbuf' = <<>>
    /\ pc' = "roundtrip"
    /\ UNCHANGED <<pamVars, compVars, toClient, inq, conn, running, keys, exitCode>>

\* Inside the roundtrip every event is dispatched, input included.
RoundtripEvent ==
    /\ pc = "roundtrip"
    /\ toClient # <<>>
    /\ Head(toClient) # Ev("done")
    /\ Handle(Head(toClient))
    /\ toClient' = Tail(toClient)
    /\ toComp' = toComp \o HandlerRequests(Head(toClient))
    /\ UNCHANGED <<compVars, outbuf, inq, conn, batch, keys, pc, exitCode>>

\* MUTANT of RoundtripDone: a wait that does not notice the lost connection.
RoundtripDoneIfAnswered ==
    /\ pc = "roundtrip"
    /\ toClient # <<>> /\ Head(toClient) = Ev("done")
    /\ toClient' = Tail(toClient)
    /\ running' = FALSE
    /\ IF batch = <<>>
       THEN CallbackDone(outbuf)
       ELSE pc' = "posted" /\ UNCHANGED <<toComp, outbuf, exitCode>>
    /\ UNCHANGED <<pamVars, loginVars, clientVars, compVars, inq, conn, batch, keys>>

\* The roundtrip returns, because it is answered or because the connection is gone;
\* requestUnlock then quits the loop, and the rest of the batch still runs.
RoundtripDone ==
    /\ pc = "roundtrip"
    /\ \/ toClient # <<>> /\ Head(toClient) = Ev("done") /\ toClient' = Tail(toClient)
       \/ toClient = <<>> /\ conn = "lost" /\ UNCHANGED toClient
    /\ running' = FALSE
    /\ IF batch = <<>>
       THEN CallbackDone(outbuf)
       ELSE pc' = "posted" /\ UNCHANGED <<toComp, outbuf, exitCode>>
    /\ UNCHANGED <<pamVars, loginVars, clientVars, compVars, inq, conn, batch, keys>>

-----------------------------------------------------------------------------
\* ~App: the members go in reverse order, so ~PamAuthenticator joins the worker before
\* ~LockSession gives a live lock up and ~WaylandDisplay disconnects, which drops what
\* was never flushed, and before the loop and its queue are gone.
Teardown ==
    /\ pc = "teardown"
    /\ Joined
    /\ lockObj' = "none"
    /\ surfaces' = {}
    /\ outputs' = {}
    /\ outbuf' = <<>>
    /\ conn' = IF conn = "up" THEN "closed" ELSE conn
    /\ pc' = "exited"
    /\ UNCHANGED <<pamVars, loginVars, locked, activeLock, toComp, toClient, inq, compVars,
                   running, batch, keys, exitCode>>

\* The compositor sends keys to a lock surface while the lock exists.
CompKey ==
    /\ grant \in {"pending", "locked"}
    /\ covered # {}
    /\ keys < MaxKeys
    /\ \E k \in KeyEvents : Send(k)
    /\ keys' = keys + 1
    /\ UNCHANGED <<pamVars, loginVars, grant, session, revoked, heads, fresh, covered,
                   pc, running, batch, exitCode>>

-----------------------------------------------------------------------------
LoopThread == \/ Start \/ StartFails
              \/ ReadEvents \/ DispatchEvent \/ LoseConnection
              \/ TakePosted \/ RunResult \/ RunSuccess
              \/ RoundtripEvent \/ RoundtripDone
              \/ Teardown

Worker == /\ WorkerPosts \/ WorkerEnds
          /\ UNCHANGED <<loginVars, lockVars, loopVars>>

Compositor == \/ /\ \/ CompReceive \/ CompGrant \/ CompRefuse \/ CompRevoke \/ CompCrash
                    \/ \E o \in Outputs : CompPlug(o) \/ CompUnplug(o)
                 /\ UNCHANGED <<pamVars, loginVars, loopVars>>
              \/ CompKey

\* The process is gone: nothing happens, apart from the compositor reading the socket out.
Gone == pc = "exited" /\ UNCHANGED vars

Next == LoopThread \/ Worker \/ Compositor \/ Gone

Spec == Init /\ [][Next]_vars

\* The loop thread is never descheduled for good and epoll reports every ready fd; PAM
\* answers; the compositor reads its socket.  Nothing is assumed of the user or of when
\* the compositor grants.
FairSpec == Spec /\ WF_vars(LoopThread) /\ WF_vars(Worker)
                 /\ WF_vars(CompReceive /\ UNCHANGED <<pamVars, loginVars, loopVars>>)

-----------------------------------------------------------------------------
\* Properties.

Wire == toComp \o outbuf
Pending == batch \o posted

\* The session opens only after PAM has accepted a password (or the compositor took the
\* lock back): no order of results, key events, hotplug, loss or exit gets around it.
Gate == INSTANCE AuthGate
GateHolds == Gate!Spec

\* Every attempt's result reaches onAuthResult at most once, in the order of the
\* attempts, and none is lost on the way: what has begun is handled, queued or running.
ResultsConserved ==
    /\ \A i \in 1 .. Len(Pending) : Pending[i].id = handled + i
    /\ attempts = handled + Len(Pending) + (IF worker = "authenticating" THEN 1 ELSE 0)

\* "Authenticating..." is only ever shown while an attempt is outstanding: a password
\* submitted in the window between the result and the clearing of busy_ stays in the
\* buffer, it is not dropped.
StatusHonest == status = "authenticating" => attempts > handled

\* No lock surface is requested from a lock object that was given up before, not even
\* for an output that appears while unlock() waits in its roundtrip.
NoSurfaceAfterRelease ==
    \A i, j \in 1 .. Len(Wire) :
        i < j /\ Wire[i].req \in {"unlock", "destroy"} => Wire[j].req # "surface"

\* unlock_and_destroy never reaches a compositor that has not sent `locked`, and no
\* surface request one whose lock object is gone.
UnlockNeverEarly == protoError \in {"", "destroy"}

\* LockSession.hpp says more: that the protocol is never misused.
ProtocolNeverMisused == protoError = ""

\* Once the lock is known granted and PAM has accepted, the session does open.
SuccessOpens ==
    (passed /\ locked /\ pc \notin {"teardown", "exited"})
        ~> (session = "released" \/ revoked \/ conn = "lost")

\* "Authenticating..." does not stay for ever.
AttemptResolves == status = "authenticating" ~> (status # "authenticating" \/ pc = "exited")

\* A lost connection ends the process, wherever the loop thread was: it never waits for ever
\* for an answer, or for the worker.
LossExits == conn = "lost" ~> pc = "exited"

\* While the locker runs, every output plugged in gets its lock surface.
HeadsGetCovered ==
    \A o \in Outputs :
        (o \in heads /\ grant \in {"pending", "locked"})
            ~> (o \in covered \/ o \notin heads \/ pc = "exited"
                \/ grant = "gone" \/ ~running \/ lockObj = "none")

-----------------------------------------------------------------------------
\* What strengthens the safety properties to an inductive invariant.

\* The loop thread is inside a callback only with something to run.
LoopShape ==
    /\ pc = "posted" => batch # <<>>
    /\ pc \notin {"posted", "roundtrip"} => batch = <<>>
    /\ pc = "dispatch" => inq # <<>>

\* A Success in a queue, or a release on the wire, was preceded by PAM's answer ...
QueueGate ==
    /\ \A i \in 1 .. Len(posted) : posted[i].verdict = "Success" => passed
    /\ \A i \in 1 .. Len(batch) : batch[i].verdict = "Success" => passed
WireGate ==
    /\ \A i \in 1 .. Len(toComp) : toComp[i].req = "unlock" => passed
    /\ \A i \in 1 .. Len(outbuf) : outbuf[i].req = "surface"

\* ... and the session follows the lock object.
LockGate ==
    /\ grant \in {"none", "pending", "refused"} => session = "open"
    /\ grant = "locked" => session = "locked"
    /\ grant = "revoked" => session \in {"locked", "released"}

\* The order of the requests: `lock` first and while the compositor knows of no lock, and
\* nothing but the roundtrip's `sync` once the lock object is given up.
Releases == {"unlock", "destroy"}
ReleaseSent == \E i \in 1 .. Len(Wire) : Wire[i].req \in Releases
WireOrder ==
    /\ \A i \in 1 .. Len(Wire) : Wire[i].req = "lock" => i = 1 /\ grant = "none"
    /\ grant = "none" /\ Wire # <<>> => Wire[1].req = "lock"
    /\ \A i, j \in 1 .. Len(Wire) : i < j /\ Wire[i].req \in Releases => Wire[j].req = "sync"
    /\ grant = "gone" => \A i \in 1 .. Len(Wire) : Wire[i].req = "sync"
    /\ \A i \in 1 .. Len(Wire) : Wire[i].req = "unlock" => grant \in {"locked", "revoked"}

\* What the client knows of the lock object: that it has one, that it gave it up, that it
\* was granted.
ClientKnows ==
    /\ pc = "start" => Wire = <<>> /\ grant = "none" /\ ~activeLock
    /\ pc = "roundtrip" => ~activeLock
    /\ lockObj = "live" \/ locked => activeLock
    /\ activeLock => grant # "gone" /\ ~ReleaseSent
    /\ activeLock /\ grant = "none" => Wire # <<>>
    /\ locked => grant \in {"locked", "revoked"}

\* A `locked` event on its way was sent by a compositor that granted the lock.
GrantTold ==
    /\ \A i \in 1 .. Len(toClient) :
          toClient[i].ev = "locked" => grant \in {"locked", "revoked", "gone"}
    /\ \A i \in 1 .. Len(inq) :
          inq[i].ev = "locked" => grant \in {"locked", "revoked", "gone"}

=============================================================================
