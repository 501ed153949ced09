---------------------------- MODULE LockSession -----------------------------
(***************************************************************************)
(* wayland/LockSession with the part of wayland/WaylandDisplay that keeps  *)
(* the outputs covered, the wire to the compositor, and the compositor     *)
(* (external) as ext-session-lock-v1 lets it behave.                       *)
(*                                                                         *)
(* A request travels outbuf (libwayland's output buffer), toComp (the      *)
(* socket); an event travels toClient (the socket), inq (libwayland's      *)
(* queue).  The client's handlers return their requests; QyprLock's event  *)
(* loop decides when outbuf is flushed.                                    *)
(***************************************************************************)
EXTENDS Naturals, FiniteSets, Sequences, SequencesExt

CONSTANTS
    Outputs,    \* every output that is ever plugged in
    AtStart,    \* those present when the locker connects
    KeyKinds    \* the kinds of key the user presses

ASSUME OutputsAssumption == IsFiniteSet(Outputs) /\ AtStart \subseteq Outputs
ASSUME KeyKindsAssumption == KeyKinds \subseteq {"text", "back", "clear", "enter"}

VARIABLES
    \* --- the client
    lockObj,     \* lock_: "none", "live"
    locked,      \* locked_
    activeLock,  \* WaylandDisplay::activeLock_ is set
    outputs,     \* WaylandDisplay::outputs_
    surfaces,    \* the outputs whose lockSurface_ exists
    \* --- the wire
    outbuf, toComp, toClient, inq,
    conn,        \* "up"; "lost": the compositor dropped it; "closed": the client did
    \* --- the compositor
    grant,       \* the lock object: "none", "pending", "locked", "refused", "revoked", "gone"
    session,     \* "open", "locked", "released"
    revoked,     \* the compositor took a granted lock back
    heads,       \* outputs plugged in now
    fresh,       \* outputs not plugged in yet
    covered,     \* outputs with a lock surface
    protoError   \* the request that was a protocol error, "" if none

clientVars == <<lockObj, locked, activeLock, outputs, surfaces>>
wireVars == <<outbuf, toComp, toClient, inq, conn>>
compVars == <<grant, session, revoked, heads, fresh, covered, protoError>>
lockVars == <<clientVars, wireVars, compVars>>

Requests == [req : {"lock", "unlock", "destroy", "sync"}]
                \cup [req : {"surface"}, output : Outputs]
KeyEvents == [ev : KeyKinds]
Events == [ev : {"locked", "finished", "done"}] \cup KeyEvents
              \cup [ev : {"global", "remove"}, output : Outputs]

Req(r) == [req |-> r]
Ev(e) == [ev |-> e]
SurfaceReq(o) == [req |-> "surface", output |-> o]

ClientTypeOK ==
    /\ lockObj \in {"none", "live"}
    /\ locked \in BOOLEAN
    /\ activeLock \in BOOLEAN
    /\ outputs \subseteq Outputs
    /\ surfaces \subseteq outputs     \* an Output owns its lockSurface_
WireTypeOK ==
    /\ outbuf \in Seq(Requests)
    /\ toComp \in Seq(Requests)
    /\ toClient \in Seq(Events)
    /\ inq \in Seq(Events)
    /\ conn \in {"up", "lost", "closed"}
CompTypeOK ==
    /\ grant \in {"none", "pending", "locked", "refused", "revoked", "gone"}
    /\ session \in {"open", "locked", "released"}
    /\ revoked \in BOOLEAN
    /\ heads \subseteq Outputs
    /\ fresh \subseteq Outputs
    /\ covered \subseteq Outputs
    /\ protoError \in {"", "lock", "unlock", "destroy", "surface"}
LockTypeOK == ClientTypeOK /\ WireTypeOK /\ CompTypeOK

LockInit ==
    /\ lockObj = "none"
    /\ locked = FALSE
    /\ activeLock = FALSE
    /\ outputs = AtStart
    /\ surfaces = {}
    /\ outbuf = <<>>
    /\ toComp = <<>>
    /\ toClient = <<>>
    /\ inq = <<>>
    /\ conn = "up"
    /\ grant = "none"
    /\ session = "open"
    /\ revoked = FALSE
    /\ heads = AtStart
    /\ fresh = Outputs \ AtStart
    /\ covered = {}
    /\ protoError = ""

-----------------------------------------------------------------------------
\* The client's operations.

\* lock(): take the lock object and cover every output known so far; the requests it queues.
Lock ==
    /\ lockObj' = "live"
    /\ activeLock' = TRUE
    /\ surfaces' = outputs
    /\ UNCHANGED <<locked, outputs>>
LockRequests == <<Req("lock")>> \o SetToSeq({SurfaceReq(o) : o \in outputs})

\* MUTANT of ReleaseRequest: unlock() without its check of locked_.
ReleaseUnchecked == Req("unlock")

\* The request that gives the lock object up, in unlock() and in ~LockSession.
ReleaseRequest == IF locked THEN Req("unlock") ELSE Req("destroy")

\* MUTANT of Unlock: activeLock_ is cleared after the roundtrip instead of before.
UnlockKeepsActive ==
    /\ lockObj = "live"
    /\ lockObj' = "none"
    /\ locked' = FALSE
    /\ UNCHANGED <<activeLock, outputs, surfaces>>

\* unlock() on a live lock, up to its roundtrip.
Unlock ==
    /\ lockObj = "live"
    /\ lockObj' = "none"
    /\ locked' = FALSE
    /\ activeLock' = FALSE
    /\ UNCHANGED <<outputs, surfaces>>

\* The listeners.  libwayland drops the events of an object the client has destroyed.
OnLocked ==
    /\ locked' = (locked \/ lockObj = "live")
    /\ UNCHANGED <<lockObj, activeLock, outputs, surfaces>>
OnFinished ==
    /\ locked' = (locked /\ lockObj # "live")
    /\ UNCHANGED <<lockObj, activeLock, outputs, surfaces>>

\* MUTANT of HandlerRequests: a hotplugged output gets no lock surface.
NoHotplugRequests(e) == <<>>

\* onGlobal() for an output: while a lock is active a new output is covered at once.
OnGlobal(o) ==
    /\ outputs' = outputs \cup {o}
    /\ surfaces' = IF activeLock THEN surfaces \cup {o} ELSE surfaces
    /\ UNCHANGED <<lockObj, locked, activeLock>>

\* MUTANT of OnGlobalRemove: the output is forgotten, its lock surface is not destroyed.
RemoveKeepsSurface(o) ==
    /\ outputs' = outputs \ {o}
    /\ UNCHANGED <<lockObj, locked, activeLock, surfaces>>

\* onGlobalRemove(): with the Output goes its lock surface.
OnGlobalRemove(o) ==
    /\ outputs' = outputs \ {o}
    /\ surfaces' = surfaces \ {o}
    /\ UNCHANGED <<lockObj, locked, activeLock>>

\* The requests the handler of event e queues.
HandlerRequests(e) ==
    IF e.ev = "global" /\ activeLock THEN <<SurfaceReq(e.output)>> ELSE <<>>

-----------------------------------------------------------------------------
\* The compositor.

\* What the protocol allows at this point for the lock object.
Legal(r) ==
    \/ r = "lock" /\ grant = "none"
    \/ r = "surface" /\ grant \notin {"none", "gone"}
    \/ r = "unlock" /\ grant \in {"locked", "revoked"}
    \/ r = "destroy" /\ grant \in {"pending", "refused"}
    \/ r = "sync"

\* The compositor processes the next request.  A protocol error kills the connection
\* and leaves the session as it is: locked, if it was.
CompReceive ==
    /\ conn # "lost"
    /\ toComp # <<>>
    /\ toComp' = Tail(toComp)
    /\ LET r == Head(toComp) IN
         IF Legal(r.req)
         THEN /\ \/ r.req = "lock" /\ grant' = "pending"
                 \/ r.req \in {"unlock", "destroy"} /\ grant' = "gone"
                 \/ r.req \in {"surface", "sync"} /\ grant' = grant
              /\ session' = IF r.req = "unlock" THEN "released" ELSE session
              /\ covered' = IF r.req = "surface"
                            THEN covered \cup ({r.output} \cap heads) ELSE covered
              /\ toClient' = IF r.req = "sync" THEN Append(toClient, Ev("done")) ELSE toClient
              /\ UNCHANGED <<conn, protoError>>
         ELSE /\ protoError' = r.req
              /\ conn' = "lost"
              /\ UNCHANGED <<grant, session, covered, toClient>>
    /\ UNCHANGED <<clientVars, outbuf, inq, revoked, heads, fresh>>

Send(e) == /\ conn = "up"
           /\ toClient' = Append(toClient, e)
           /\ UNCHANGED <<clientVars, outbuf, toComp, inq, conn, protoError>>

\* The compositor grants the lock, refuses it, or takes a granted lock back.
CompGrant == /\ grant = "pending"
             /\ grant' = "locked"
             /\ session' = "locked"
             /\ Send(Ev("locked"))
             /\ UNCHANGED <<revoked, heads, fresh, covered>>
CompRefuse == /\ grant = "pending"
              /\ grant' = "refused"
              /\ Send(Ev("finished"))
              /\ UNCHANGED <<session, revoked, heads, fresh, covered>>
CompRevoke == /\ grant = "locked"
              /\ grant' = "revoked"
              /\ session' \in {"locked", "released"}
              /\ revoked' = TRUE
              /\ Send(Ev("finished"))
              /\ UNCHANGED <<heads, fresh, covered>>

\* Outputs come and go.  A registry name is never used twice, so an output is plugged once.
CompPlug(o) == /\ o \in fresh
               /\ heads' = heads \cup {o}
               /\ fresh' = fresh \ {o}
               /\ Send([ev |-> "global", output |-> o])
               /\ UNCHANGED <<grant, session, revoked, covered>>
CompUnplug(o) == /\ o \in heads
                 /\ heads' = heads \ {o}
                 /\ covered' = covered \ {o}
                 /\ Send([ev |-> "remove", output |-> o])
                 /\ UNCHANGED <<grant, session, revoked, fresh>>

\* The compositor goes away.
CompCrash == /\ conn = "up"
             /\ conn' = "lost"
             /\ UNCHANGED <<clientVars, outbuf, toComp, toClient, inq, compVars>>

=============================================================================
