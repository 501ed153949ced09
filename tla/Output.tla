------------------------------- MODULE Output --------------------------------
(***************************************************************************)
(* wayland/Output and wayland/ShmBuffer: one monitor from its arrival to   *)
(* its removal, its lock surface, the sizes and scales it is told, the     *)
(* buffers it paints into, and the frame callbacks that throttle it; with  *)
(* the part of the compositor (external) that configures the surface,      *)
(* holds buffers and sends the callbacks.                                  *)
(*                                                                         *)
(* Monitors share nothing but activeLock_, so one stands for all.          *)
(***************************************************************************)
EXTENDS Integers, FiniteSets

CONSTANTS
    Widths,         \* the sizes the compositor configures
    Scales,         \* the scales it announces
    MaxBuffers,     \* bound: buffers at a time
    MaxHolds,       \* the compositor takes no new frame with more buffers in use
    MaxCallbacks    \* bound: frame callbacks outstanding when it configures

ASSUME OutputAssumption ==
    /\ Widths \subseteq Nat \ {0} /\ Scales \subseteq Nat \ {0}
    /\ MaxHolds \in Nat /\ MaxCallbacks \in Nat
    /\ MaxBuffers \in Nat /\ MaxBuffers > MaxHolds + MaxCallbacks + 1    \* never short of an id

VARIABLES
    out,        \* the Output's members, see TypeOK
    active,     \* WaylandDisplay::activeLock_ is set
    held,       \* buffers the compositor uses; it is done with one when the client hears so
    callbacks,  \* frame callbacks the compositor owes
    shown       \* the buffer of the last commit, 0 before

vars == <<out, active, held, callbacks, shown>>

Buffers == 1 .. MaxBuffers
Pixels == {w * s : w \in Widths, s \in Scales \cup {1}}

TypeOK ==
    /\ out.life \in {"absent", "plugged", "removed"}
    /\ out.scale \in Scales \cup {1}
    /\ out.surfaceScale \in Scales \cup {0, 1}      \* set on surface_; 0 without lockSurface_
    /\ out.width \in Widths \cup {0}                \* with configured_: 0 before
    /\ out.dirty \in BOOLEAN /\ out.framePending \in BOOLEAN
    /\ out.starved \in BOOLEAN                      \* the last render() found no buffer
    /\ out.buffers \subseteq [id : Buffers, px : Pixels, busy : BOOLEAN]
    /\ active \in BOOLEAN
    /\ held \subseteq Buffers
    /\ callbacks \in 0 .. MaxCallbacks + 1
    /\ shown \in Buffers \cup {0}

-----------------------------------------------------------------------------
\* Buffers.

Free(s, px) == {b \in s.buffers : ~b.busy /\ b.px = px}

\* MUTANT of Reusable: a buffer of the right size is taken although it is busy.
ReusableBusy(s, px) == {b \in s.buffers : b.px = px}

\* acquireBuffer() takes one of these, if there is one.  buffers_ is a vector and it is the
\* first; which one it is makes no difference here.
Reusable(s, px) == Free(s, px)

\* Before it allocates, free buffers of another size are dropped, if there are two or more.
Trimmed(s, px) ==
    IF Cardinality(s.buffers) < 2 THEN s.buffers ELSE {b \in s.buffers : b.busy \/ b.px = px}

\* The buffer ShmBuffer::create makes next to those kept.
Ids(bufs) == {b.id : b \in bufs}
Created(kept, px) ==
    [id |-> CHOOSE b \in Buffers : b \notin Ids(kept) \cup held, px |-> px, busy |-> FALSE]

\* acquireBuffer(): the buffers after it with the one to paint, or none if create fails.
Acquired(s, px) ==
    IF Reusable(s, px) # {}
    THEN {[buffers |-> s.buffers, taken |-> {b}] : b \in Reusable(s, px)}
    ELSE LET kept == Trimmed(s, px)
             new == Created(kept, px) IN
         {[buffers |-> kept \cup {new}, taken |-> {new}], [buffers |-> kept, taken |-> {}]}

\* markBusy(), and the release
Busy(b) == [id |-> b.id, px |-> b.px, busy |-> TRUE]
Idle(b) == [id |-> b.id, px |-> b.px, busy |-> FALSE]

-----------------------------------------------------------------------------
\* Painting.

Configured(s) == s.width # 0

\* render() finds no buffer ...
Starve(s, buffers, owed) ==
    /\ out' = [s EXCEPT !.buffers = buffers, !.starved = TRUE]
    /\ callbacks' = owed
    /\ UNCHANGED <<held, shown>>

\* ... or paints b and commits it, with a new frame callback.
Paint(s, buffers, b, owed) ==
    /\ out' = [s EXCEPT !.buffers = (buffers \ {b}) \cup {Busy(b)},
                        !.framePending = TRUE, !.dirty = FALSE, !.starved = FALSE]
    /\ callbacks' = owed + 1
    /\ held' = held \cup {b.id}
    /\ shown' = b.id

\* render() of an output whose members are s, with so many frame callbacks owed to it.
Render(s, owed) ==
    IF ~Configured(s)
    THEN out' = s /\ callbacks' = owed /\ UNCHANGED <<held, shown>>
    ELSE \E a \in Acquired(s, s.width * s.scale) :
            \/ a.taken = {} /\ Starve(s, a.buffers, owed)
            \/ \E b \in a.taken : Paint(s, a.buffers, b, owed)

\* MUTANT of Invalidate: marked dirty, and left for a frame callback to paint.
InvalidateOnly ==
    /\ out.life = "plugged"
    /\ out' = [out EXCEPT !.dirty = TRUE]
    /\ UNCHANGED <<active, held, callbacks, shown>>

\* invalidate(), through WaylandDisplay::invalidateAll
Invalidate ==
    /\ out.life = "plugged"
    /\ LET s == [out EXCEPT !.dirty = TRUE] IN
       IF s.framePending
       THEN out' = s /\ UNCHANGED <<held, callbacks, shown>>
       ELSE Render(s, callbacks)
    /\ UNCHANGED active

\* MUTANT of OnFrame: dirty_ is not looked at, only whether something is animating.
OnFrameAnimating ==
    /\ out.life = "plugged"
    /\ callbacks > 0
    /\ Cardinality(held) <= MaxHolds
    /\ LET s == [out EXCEPT !.framePending = FALSE] IN
       \/ Render(s, callbacks - 1)
       \/ out' = s /\ callbacks' = callbacks - 1 /\ UNCHANGED <<held, shown>>
    /\ UNCHANGED active

\* A frame callback, of whichever commit, ends the wait for one.  Whether something is
\* animating depends on the time.
OnFrame ==
    /\ out.life = "plugged"
    /\ callbacks > 0
    /\ Cardinality(held) <= MaxHolds
    /\ LET s == [out EXCEPT !.framePending = FALSE] IN
       \/ Render(s, callbacks - 1)
       \/ ~s.dirty /\ out' = s /\ callbacks' = callbacks - 1 /\ UNCHANGED <<held, shown>>
    /\ UNCHANGED active

\* onConfigure(): acknowledged and painted at once, also with a frame pending.
OnConfigure ==
    /\ out.life = "plugged"
    /\ out.surfaceScale # 0
    /\ callbacks <= MaxCallbacks
    /\ \E width \in Widths :
          Render([out EXCEPT !.width = width, !.dirty = TRUE], callbacks)
    /\ UNCHANGED active

\* MUTANT of OnScale: whatever factor is announced.
OnScaleUnchecked ==
    /\ out.life = "plugged"
    /\ \E scale \in Scales \cup {0} : out' = [out EXCEPT !.scale = scale]
    /\ UNCHANGED <<active, held, callbacks, shown>>

\* onScale(): for the buffers to come.  A factor of 0 is ignored.
OnScale ==
    /\ out.life = "plugged"
    /\ \E scale \in Scales \cup {0} : out' = IF scale > 0 THEN [out EXCEPT !.scale = scale] ELSE out
    /\ UNCHANGED <<active, held, callbacks, shown>>

-----------------------------------------------------------------------------
\* Coming and going.

NewOutput(scale) ==
    [life |-> "plugged", scale |-> scale, surfaceScale |-> 0, width |-> 0, dirty |-> TRUE,
     framePending |-> FALSE, starved |-> FALSE, buffers |-> {}]

CreateLockSurface(s) == IF s.surfaceScale # 0 THEN s ELSE [s EXCEPT !.surfaceScale = s.scale]

\* Plugged in before connect(), whose second roundtrip brings the scale; or later.
Init ==
    /\ \/ \E scale \in Scales : out = NewOutput(scale)
       \/ out = [NewOutput(1) EXCEPT !.life = "absent"]
    /\ active = FALSE
    /\ held = {}
    /\ callbacks = 0
    /\ shown = 0

\* LockSession::lock, createLockSurfaces
Lock ==
    /\ ~active
    /\ active' = TRUE
    /\ out' = IF out.life = "plugged" THEN CreateLockSurface(out) ELSE out
    /\ UNCHANGED <<held, callbacks, shown>>

\* onGlobal(): the scale is announced only after this.
OnGlobal ==
    /\ out.life = "absent"
    /\ out' = IF active THEN CreateLockSurface(NewOutput(1)) ELSE NewOutput(1)
    /\ UNCHANGED <<active, held, callbacks, shown>>

\* onGlobalRemove(), ~Output(): of several callbacks it destroys the one it knows.
OnGlobalRemove ==
    /\ out.life = "plugged"
    /\ out' = [NewOutput(1) EXCEPT !.life = "removed"]
    /\ callbacks' = IF out.framePending THEN callbacks - 1 ELSE callbacks
    /\ held' = {}
    /\ UNCHANGED <<active, shown>>

-----------------------------------------------------------------------------
\* wl_buffer.release
HandleRelease(b) ==
    /\ b \in held
    /\ held' = held \ {b}
    /\ out' = [out EXCEPT !.buffers = {IF x.id = b THEN Idle(x) ELSE x : x \in @}]
    /\ UNCHANGED <<active, callbacks, shown>>

Next == \/ Lock \/ OnGlobal \/ OnGlobalRemove
        \/ OnScale \/ OnConfigure \/ Invalidate \/ OnFrame
        \/ \E b \in Buffers : HandleRelease(b)

Spec == Init /\ [][Next]_vars

\* The compositor sends the callbacks it owes and gives back every buffer but the one it
\* shows; the loop dispatches its events.
FairSpec ==
    /\ Spec
    /\ WF_vars(OnFrame)
    /\ WF_vars(\E b \in held \ {shown} : HandleRelease(b))

-----------------------------------------------------------------------------
\* Properties.

\* No buffer is painted while the compositor reads from it: a commit takes one that is
\* free, whatever sizes, scales and releases came in between.
NeverPaintsHeld ==
    [][(callbacks' > callbacks \/ shown' # shown \/ (OnFrame /\ out'.framePending))
          => shown' \notin held]_vars

\* The throttle cannot get stuck: what waits for a frame callback is owed one, and what is
\* dirty waits for one, unless no buffer could be had.
ThrottleSound ==
    /\ out.framePending => callbacks > 0
    /\ out.dirty /\ Configured(out) /\ ~out.framePending => out.starved

\* What must be painted is painted, though the size changes and buffers are short.
DirtyGetsPainted ==
    (out.dirty /\ Configured(out)) ~> (~out.dirty \/ out.life = "removed" \/ out.starved)

-----------------------------------------------------------------------------
\* What strengthens the safety properties to an inductive invariant.

\* A buffer is marked busy as long as the compositor holds it, no two share an id, and none
\* that is held has been forgotten.
BuffersSound(bufs, hs) ==
    /\ \A b, c \in bufs : b.id = c.id => b = c
    /\ \A b \in bufs : b.busy <=> b.id \in hs
    /\ hs \subseteq Ids(bufs)

\* Callbacks pace the compositor: it holds as many buffers as it may, and one per callback
\* it owes.
Paced ==
    /\ ~out.framePending => callbacks <= MaxCallbacks
    /\ Cardinality(held) <= MaxHolds + callbacks

\* A monitor that is not there yet has nothing outstanding.
Unplugged == out.life = "absent" => out.buffers = {} /\ ~out.framePending

OutputInv ==
    TypeOK /\ ThrottleSound /\ BuffersSound(out.buffers, held) /\ Paced /\ Unplugged

=============================================================================
