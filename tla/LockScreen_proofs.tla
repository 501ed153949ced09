------------------------- MODULE LockScreen_proofs --------------------------
(***************************************************************************)
(* Proofs about LockScreen for any set of descriptors larger than that of  *)
(* the timers' handles, any batch size, any power actions and keys, and    *)
(* any number of inputs.                                                   *)
(***************************************************************************)
EXTENDS LockScreen, SequenceTheorems, FiniteSetTheorems, WellFoundedInduction, TLAPS

\* The members of ui, each of its type.
TimerMaps == UNION {[fds -> Timers] : fds \in SUBSET Fds}
Screen == [timers : TimerMaps, expired : SUBSET Fds,
           handle : [Handles -> Fds \cup {NoTimer}],
           revealed : BOOLEAN, expanded : BOOLEAN, idle : BOOLEAN,
           mpv : BOOLEAN, paused : BOOLEAN, repeatKey : Keys \cup {Nothing},
           asked : Actions \cup {Nothing}, drained : BOOLEAN,
           framePending : BOOLEAN, dirty : BOOLEAN]

\* HandlesOwnTimers, but for handles that a callback has yet to set: those in H name
\* anything, and no timer is theirs.
Owns(s, H) ==
    /\ s.expired \subseteq DOMAIN s.timers
    /\ \A h \in Handles \ H : s.handle[h] # NoTimer =>
           s.handle[h] \in DOMAIN s.timers /\ HandleOf(s.timers[s.handle[h]]) = h
    /\ \A fd \in DOMAIN s.timers :
           HandleOf(s.timers[fd]) \notin H /\ s.handle[HandleOf(s.timers[fd])] = fd

\* What timers' operations leave alone.
SameFace(t, s) ==
    /\ t.revealed = s.revealed /\ t.expanded = s.expanded /\ t.idle = s.idle
    /\ t.mpv = s.mpv /\ t.paused = s.paused /\ t.repeatKey = s.repeatKey
    /\ t.asked = s.asked

OtherHandles(t, s, h) == \A g \in Handles \ {h} : t.handle[g] = s.handle[g]

-----------------------------------------------------------------------------
\* Timers.

LEMMA HandlesOfTimers == \A what \in Timers : HandleOf(what) \in Handles
  BY DEF Timers, HandleOf, Handles

LEMMA NoTimerIsNoFd == NoTimer \notin Fds
  BY FdsAssumption DEF NoTimer

LEMMA TimerMap ==
    ASSUME NEW f \in TimerMaps
    PROVE  DOMAIN f \subseteq Fds /\ \A fd \in DOMAIN f : f[fd] \in Timers
  BY DEF TimerMaps

LEMMA OpenedMap ==
    ASSUME NEW f \in TimerMaps, NEW fd \in Fds, NEW what \in Timers
    PROVE  /\ Opened(f, fd, what) \in TimerMaps
           /\ DOMAIN Opened(f, fd, what) = DOMAIN f \cup {fd}
           /\ \A g \in DOMAIN f \cup {fd} :
                 Opened(f, fd, what)[g] = IF g = fd THEN what ELSE f[g]
<1>1. Opened(f, fd, what) \in [DOMAIN f \cup {fd} -> Timers]
  BY TimerMap DEF Opened
<1> QED
  BY <1>1, TimerMap DEF Opened, TimerMaps

LEMMA ClosedMap ==
    ASSUME NEW f \in TimerMaps, NEW fd
    PROVE  /\ Closed(f, fd) \in TimerMaps
           /\ DOMAIN Closed(f, fd) = DOMAIN f \ {fd}
           /\ \A g \in DOMAIN f \ {fd} : Closed(f, fd)[g] = f[g]
<1>1. Closed(f, fd) \in [DOMAIN f \ {fd} -> Timers]
  BY TimerMap DEF Closed
<1> QED
  BY <1>1, TimerMap DEF Closed, TimerMaps

LEMMA Least ==
    ASSUME NEW S \in SUBSET Nat, S # {}
    PROVE  \E x \in S : \A y \in S : x <= y
<1>1. PICK x \in S : \A y \in S : <<y, x>> \notin OpToRel(<, Nat)
  BY WFMin, NatLessThanWellFounded
<1>2. \A y \in S : ~(y < x)
  BY <1>1 DEF OpToRel
<1> QED
  BY <1>2

\* There is always a number for a timer, as each timer has a handle.
LEMMA NewFdFree ==
    ASSUME NEW s \in Screen, NEW H, Owns(s, H)
    PROVE  NewFd(s) \in Fds \ DOMAIN s.timers
<1> DEFINE names == {s.handle[h] : h \in Handles}
<1>1. IsFiniteSet(Handles)
  <2>1. IsFiniteSet({"clock"})
    BY FS_Singleton
  <2>2. IsFiniteSet({"clock"} \cup {"idle"})
    BY <2>1, FS_AddElement
  <2>3. IsFiniteSet({"clock"} \cup {"idle"} \cup {"hide"})
    BY <2>2, FS_AddElement
  <2>4. IsFiniteSet({"clock"} \cup {"idle"} \cup {"hide"} \cup {"render"})
    BY <2>3, FS_AddElement
  <2>5. IsFiniteSet({"clock"} \cup {"idle"} \cup {"hide"} \cup {"render"} \cup {"repeat"})
    BY <2>4, FS_AddElement
  <2>6. Handles = {"clock"} \cup {"idle"} \cup {"hide"} \cup {"render"} \cup {"repeat"}
    BY DEF Handles
  <2> QED
    BY <2>5, <2>6
<1>2. IsFiniteSet(names) /\ Cardinality(names) <= Cardinality(Handles)
  <2> DEFINE f == [h \in Handles |-> s.handle[h]]
  <2>1. f \in Surjection(Handles, names)
    BY DEF Surjection
  <2> QED
    BY <1>1, <2>1, FS_Surjection
<1>3. DOMAIN s.timers \subseteq names
  BY TimerMap, HandlesOfTimers DEF Owns, Screen
<1>4. ~(Fds \subseteq names)
  <2> HIDE DEF names
  <2>1. ASSUME Fds \subseteq names PROVE FALSE
    <3>1. Cardinality(Fds) <= Cardinality(names)
      BY <1>2, <2>1, FS_Subset
    <3>2. /\ Cardinality(Fds) \in Nat /\ Cardinality(names) \in Nat
          /\ Cardinality(Handles) \in Nat
      BY <1>1, <1>2, FS_CardinalityType, FdsAssumption
    <3> QED
      BY <1>2, <3>1, <3>2, FdsSuffice
  <2> QED
    BY <2>1
<1>5. Fds \ DOMAIN s.timers \in SUBSET Nat /\ Fds \ DOMAIN s.timers # {}
  BY <1>3, <1>4, FdsAssumption
<1>6. \E fd \in Fds \ DOMAIN s.timers : \A g \in Fds \ DOMAIN s.timers : fd <= g
  BY <1>5, Least
<1> QED
  BY <1>6 DEF NewFd

LEMMA RemoveTimerFields ==
    ASSUME NEW s \in Screen, NEW fd
    PROVE  /\ RemoveTimer(s, fd) \in Screen
           /\ RemoveTimer(s, fd).timers = Closed(s.timers, fd)
           /\ RemoveTimer(s, fd).expired = s.expired \ {fd}
           /\ RemoveTimer(s, fd).handle = s.handle
           /\ SameFace(RemoveTimer(s, fd), s)
<1> DEFINE f == Closed(s.timers, fd)
           e == s.expired \ {fd}
<1>1. f \in TimerMaps /\ e \in SUBSET Fds
  BY ClosedMap DEF Screen
<1>2. RemoveTimer(s, fd) = [s EXCEPT !.timers = f, !.expired = e]
  BY DEF RemoveTimer
<1> HIDE DEF f, e
<1>3. LET t == [s EXCEPT !.timers = f, !.expired = e] IN
      /\ t \in Screen /\ t.timers = f /\ t.expired = e /\ t.handle = s.handle
      /\ SameFace(t, s)
  BY <1>1, Zenon DEF Screen, SameFace
<1> QED
  BY <1>2, <1>3 DEF f, e

LEMMA HandleFields ==
    ASSUME NEW s \in Screen, NEW h \in Handles, NEW fd \in Fds \cup {NoTimer}
    PROVE  LET t == [s EXCEPT !.handle[h] = fd] IN
           /\ t \in Screen /\ t.timers = s.timers /\ t.expired = s.expired
           /\ t.handle[h] = fd /\ OtherHandles(t, s, h) /\ SameFace(t, s)
<1> DEFINE m == [s.handle EXCEPT ![h] = fd]
<1>1. /\ m \in [Handles -> Fds \cup {NoTimer}] /\ m[h] = fd
      /\ \A g \in Handles \ {h} : m[g] = s.handle[g]
  BY DEF Screen
<1>2. [s EXCEPT !.handle[h] = fd] = [s EXCEPT !.handle = m]
  BY Zenon DEF Screen
<1> HIDE DEF m
<1>3. LET t == [s EXCEPT !.handle = m] IN
      /\ t \in Screen /\ t.timers = s.timers /\ t.expired = s.expired
      /\ t.handle = m /\ SameFace(t, s)
  BY <1>1, Zenon DEF Screen, SameFace
<1> QED
  BY <1>1, <1>2, <1>3 DEF OtherHandles

LEMMA AddTimerFields ==
    ASSUME NEW s \in Screen, NEW what \in Timers, NewFd(s) \in Fds
    PROVE  /\ AddTimer(s, what) \in Screen
           /\ AddTimer(s, what).timers = Opened(s.timers, NewFd(s), what)
           /\ AddTimer(s, what).expired = s.expired
           /\ AddTimer(s, what).handle = s.handle
           /\ SameFace(AddTimer(s, what), s)
<1> DEFINE f == Opened(s.timers, NewFd(s), what)
<1>1. f \in TimerMaps
  BY OpenedMap DEF Screen
<1>2. AddTimer(s, what) = [s EXCEPT !.timers = f]
  BY DEF AddTimer
<1> HIDE DEF f
<1>3. LET t == [s EXCEPT !.timers = f] IN
      /\ t \in Screen /\ t.timers = f /\ t.expired = s.expired /\ t.handle = s.handle
      /\ SameFace(t, s)
  BY <1>1, Zenon DEF Screen, SameFace
<1> QED
  BY <1>2, <1>3 DEF f

\* A timer closed: its handle is left to be set.
LEMMA CloseSound ==
    ASSUME NEW s \in Screen, NEW H, Owns(s, H), NEW h \in Handles \ H
    PROVE  Owns(RemoveTimer(s, s.handle[h]), H \cup {h})
<1> DEFINE t == RemoveTimer(s, s.handle[h])
<1>1. /\ t.timers = Closed(s.timers, s.handle[h]) /\ t.handle = s.handle
      /\ t.expired = s.expired \ {s.handle[h]}
  BY RemoveTimerFields
<1> HIDE DEF t
<1>2. /\ DOMAIN t.timers = DOMAIN s.timers \ {s.handle[h]}
      /\ \A g \in DOMAIN t.timers : t.timers[g] = s.timers[g]
  <2>1. s.timers \in TimerMaps
    BY DEF Screen
  <2>2. /\ DOMAIN Closed(s.timers, s.handle[h]) = DOMAIN s.timers \ {s.handle[h]}
        /\ \A g \in DOMAIN s.timers \ {s.handle[h]} :
              Closed(s.timers, s.handle[h])[g] = s.timers[g]
    BY <2>1, ClosedMap
  <2> QED
    BY <1>1, <2>2
<1>3. ASSUME NEW k \in Handles \ (H \cup {h}), t.handle[k] # NoTimer
      PROVE  t.handle[k] \in DOMAIN t.timers /\ HandleOf(t.timers[t.handle[k]]) = k
  BY <1>1, <1>2, <1>3 DEF Owns
<1>4. ASSUME NEW fd \in DOMAIN t.timers
      PROVE  /\ HandleOf(t.timers[fd]) \notin H \cup {h}
             /\ t.handle[HandleOf(t.timers[fd])] = fd
  BY <1>1, <1>2 DEF Owns
<1> QED
  BY <1>1, <1>2, <1>3, <1>4 DEF Owns, t

\* A handle that is let go.
LEMMA ForgetSound ==
    ASSUME NEW s \in Screen, NEW H, NEW h \in Handles \ H, Owns(s, H \cup {h})
    PROVE  Owns([s EXCEPT !.handle[h] = NoTimer], H)
<1> DEFINE t == [s EXCEPT !.handle[h] = NoTimer]
<1>1. /\ t.timers = s.timers /\ t.expired = s.expired
      /\ t.handle[h] = NoTimer /\ OtherHandles(t, s, h)
  BY HandleFields
<1> HIDE DEF t
<1>2. ASSUME NEW fd \in DOMAIN t.timers
      PROVE  HandleOf(t.timers[fd]) \notin H /\ t.handle[HandleOf(t.timers[fd])] = fd
  BY <1>1, TimerMap, HandlesOfTimers DEF Owns, OtherHandles, Screen
<1> QED
  BY <1>1, <1>2 DEF Owns, OtherHandles, t

\* A timer made, and its handle set to it.
LEMMA OpenSound ==
    ASSUME NEW s \in Screen, NEW H, NEW h \in Handles \ H, Owns(s, H \cup {h}),
           NEW what \in Timers, HandleOf(what) = h
    PROVE  LET t == [AddTimer(s, what) EXCEPT !.handle[h] = NewFd(s)] IN
           /\ t \in Screen /\ Owns(t, H) /\ SameFace(t, s)
           /\ t.handle[h] # NoTimer /\ OtherHandles(t, s, h)
<1> DEFINE a == AddTimer(s, what)
           fd == NewFd(s)
           t == [a EXCEPT !.handle[h] = fd]
<1>1. fd \in Fds \ DOMAIN s.timers
  BY NewFdFree
<1>2. /\ a \in Screen /\ a.timers = Opened(s.timers, fd, what) /\ a.expired = s.expired
      /\ a.handle = s.handle /\ SameFace(a, s)
  BY <1>1, AddTimerFields
<1> HIDE DEF a, fd
<1>3. /\ t \in Screen /\ t.timers = a.timers /\ t.expired = a.expired
      /\ t.handle[h] = fd /\ OtherHandles(t, a, h) /\ SameFace(t, a)
  BY <1>1, <1>2, HandleFields
<1> HIDE DEF t
<1>4. /\ DOMAIN t.timers = DOMAIN s.timers \cup {fd}
      /\ \A g \in DOMAIN t.timers : t.timers[g] = IF g = fd THEN what ELSE s.timers[g]
  BY <1>1, <1>2, <1>3, OpenedMap DEF Screen
<1>5. \A k \in Handles \ {h} : t.handle[k] = s.handle[k]
  BY <1>2, <1>3 DEF OtherHandles
<1>6. ASSUME NEW k \in Handles \ H, t.handle[k] # NoTimer
      PROVE  t.handle[k] \in DOMAIN t.timers /\ HandleOf(t.timers[t.handle[k]]) = k
  BY <1>1, <1>3, <1>4, <1>5, <1>6 DEF Owns
<1>7. ASSUME NEW g \in DOMAIN t.timers
      PROVE  HandleOf(t.timers[g]) \notin H /\ t.handle[HandleOf(t.timers[g])] = g
  <2>1. CASE g = fd
    BY <1>1, <1>3, <1>4, <2>1
  <2>2. CASE g # fd
    <3>1. /\ g \in DOMAIN s.timers /\ t.timers[g] = s.timers[g]
          /\ HandleOf(s.timers[g]) \in Handles
      BY <1>4, <2>2, TimerMap, HandlesOfTimers DEF Screen
    <3> QED
      BY <1>5, <3>1 DEF Owns
  <2> QED
    BY <2>1, <2>2
<1>8. Owns(t, H)
  BY <1>2, <1>3, <1>4, <1>6, <1>7 DEF Owns
<1>9. SameFace(t, s) /\ OtherHandles(t, s, h) /\ t.handle[h] # NoTimer
  BY <1>1, <1>2, <1>3, NoTimerIsNoFd DEF SameFace, OtherHandles
<1> QED
  BY <1>3, <1>8, <1>9 DEF t, a, fd

LEMMA ArmSound ==
    ASSUME NEW s \in Screen, NEW H, Owns(s, H), NEW h \in Handles \ H,
           NEW what \in Timers, HandleOf(what) = h
    PROVE  /\ Arm(s, h, what) \in Screen /\ Owns(Arm(s, h, what), H)
           /\ SameFace(Arm(s, h, what), s)
           /\ Arm(s, h, what).handle[h] # NoTimer /\ OtherHandles(Arm(s, h, what), s, h)
<1> DEFINE freed == RemoveTimer(s, s.handle[h])
<1>1. /\ freed \in Screen /\ Owns(freed, H \cup {h}) /\ SameFace(freed, s)
      /\ freed.handle = s.handle
  BY RemoveTimerFields, CloseSound
<1>2. Arm(s, h, what) = [AddTimer(freed, what) EXCEPT !.handle[h] = NewFd(freed)]
  BY DEF Arm
<1> HIDE DEF freed
<1>3. LET t == [AddTimer(freed, what) EXCEPT !.handle[h] = NewFd(freed)] IN
      /\ t \in Screen /\ Owns(t, H) /\ SameFace(t, freed)
      /\ t.handle[h] # NoTimer /\ OtherHandles(t, freed, h)
  BY <1>1, OpenSound
<1> QED
  BY <1>1, <1>2, <1>3 DEF SameFace, OtherHandles

LEMMA DisarmSound ==
    ASSUME NEW s \in Screen, NEW H, Owns(s, H), NEW h \in Handles \ H
    PROVE  /\ Disarm(s, h) \in Screen /\ Owns(Disarm(s, h), H)
           /\ SameFace(Disarm(s, h), s)
           /\ Disarm(s, h).handle[h] = NoTimer /\ OtherHandles(Disarm(s, h), s, h)
<1> DEFINE freed == RemoveTimer(s, s.handle[h])
<1>1. /\ freed \in Screen /\ Owns(freed, H \cup {h}) /\ SameFace(freed, s)
      /\ freed.handle = s.handle
  BY RemoveTimerFields, CloseSound
<1>2. Disarm(s, h) = [freed EXCEPT !.handle[h] = NoTimer]
  BY DEF Disarm
<1> HIDE DEF freed
<1>3. LET t == [freed EXCEPT !.handle[h] = NoTimer] IN
      /\ t \in Screen /\ Owns(t, H) /\ SameFace(t, freed)
      /\ t.handle[h] = NoTimer /\ OtherHandles(t, freed, h)
  BY <1>1, HandleFields, ForgetSound
<1> QED
  BY <1>1, <1>2, <1>3 DEF SameFace, OtherHandles

-----------------------------------------------------------------------------
\* Repaints.

SameTimers(t, s) == t.timers = s.timers /\ t.expired = s.expired /\ t.handle = s.handle

\* What a repaint leaves alone; it may find the popover's countdown at its end.
Redrawn(t, s) ==
    /\ t \in Screen /\ SameTimers(t, s)
    /\ t.revealed = s.revealed /\ t.expanded = s.expanded /\ t.idle = s.idle
    /\ t.mpv = s.mpv /\ t.paused = s.paused /\ t.repeatKey = s.repeatKey
    /\ t.asked = s.asked \/ t.asked = Nothing

LEMMA RedrawnTwice ==
    ASSUME NEW s, NEW t, NEW u, Redrawn(t, s), Redrawn(u, t)
    PROVE  Redrawn(u, s)
  BY DEF Redrawn, SameTimers

LEMMA RedrawnNot == ASSUME NEW s \in Screen PROVE Redrawn(s, s)
  BY DEF Redrawn, SameTimers

LEMMA DismissRedraws ==
    ASSUME NEW s \in Screen
    PROVE  Redrawn(Dismiss(s), s) /\ Dismiss(s).asked = Nothing
<1>1. Dismiss(s) \in Screen
  BY Zenon DEF Dismiss, Screen
<1>2. /\ SameTimers(Dismiss(s), s) /\ Dismiss(s).asked = Nothing
      /\ Dismiss(s).revealed = s.revealed /\ Dismiss(s).expanded = s.expanded
      /\ Dismiss(s).idle = s.idle /\ Dismiss(s).mpv = s.mpv /\ Dismiss(s).paused = s.paused
      /\ Dismiss(s).repeatKey = s.repeatKey
  BY Zenon DEF Dismiss, Screen, SameTimers
<1> QED
  BY <1>1, <1>2 DEF Redrawn

LEMMA FlagsRedraw ==
    ASSUME NEW s \in Screen, NEW b \in BOOLEAN, NEW c \in BOOLEAN
    PROVE  /\ Redrawn([s EXCEPT !.drained = b], s)
           /\ Redrawn([s EXCEPT !.framePending = b], s)
           /\ Redrawn([s EXCEPT !.dirty = b], s)
           /\ Redrawn([s EXCEPT !.framePending = b, !.dirty = c], s)
  BY Zenon DEF Redrawn, SameTimers, Screen

LEMMA DrawRedraws ==
    ASSUME NEW s \in Screen
    PROVE  Redrawn(Draw(s), s)
<1> DEFINE d == Dismiss(s)
<1>1. Redrawn(d, s) /\ d \in Screen
  BY DismissRedraws DEF Redrawn
<1>2. DrawDialog(s) = IF s.drained THEN [d EXCEPT !.drained = FALSE] ELSE s
  BY DEF DrawDialog
<1> HIDE DEF d
<1>3. Redrawn([d EXCEPT !.drained = FALSE], s)
  BY <1>1, FlagsRedraw, RedrawnTwice
<1> QED
  BY <1>2, <1>3, RedrawnNot DEF Draw

LEMMA RenderRedraws ==
    ASSUME NEW s \in Screen
    PROVE  Redrawn(Render(s), s)
<1> DEFINE d == Draw(s)
<1>1. Redrawn(d, s) /\ d \in Screen
  BY DrawRedraws DEF Redrawn
<1>2. Render(s) = [d EXCEPT !.framePending = TRUE, !.dirty = FALSE]
  BY DEF Render
<1> HIDE DEF d
<1>3. Redrawn([d EXCEPT !.framePending = TRUE, !.dirty = FALSE], d)
  BY <1>1, FlagsRedraw
<1> QED
  BY <1>1, <1>2, <1>3, RedrawnTwice

LEMMA InvalidateRedraws ==
    ASSUME NEW s \in Screen
    PROVE  Redrawn(Invalidate(s), s)
<1>1. Redrawn([s EXCEPT !.dirty = TRUE], s)
  BY FlagsRedraw
<1> QED
  BY <1>1, RenderRedraws DEF Invalidate

LEMMA OnFrameRedraws ==
    ASSUME NEW s \in Screen, NEW animating
    PROVE  Redrawn(OnFrame(s, animating), s)
<1> DEFINE free == [s EXCEPT !.framePending = FALSE]
<1>1. Redrawn(free, s) /\ free \in Screen
  BY FlagsRedraw DEF Redrawn
<1>2. OnFrame(s, animating) = Render(free) \/ OnFrame(s, animating) = free
  BY DEF OnFrame
<1> HIDE DEF free
<1> QED
  BY <1>1, <1>2, RenderRedraws, RedrawnTwice

-----------------------------------------------------------------------------
\* The screen's members.

\* IdleOrCounting and the screen's part of HiddenHoldsNothing, of a record.
Watched(s) ==
    /\ s.idle <=> s.handle["idle"] = NoTimer
    /\ s.mpv => /\ s.idle <=> s.paused
                /\ s.paused <=> s.handle["render"] = NoTimer

Tucked(s) == ~s.revealed => ~s.expanded /\ s.handle["hide"] = NoTimer

Sound(s, H) == s \in Screen /\ Owns(s, H) /\ Watched(s) /\ Tucked(s)

LEMMA RedrawnSound ==
    ASSUME NEW s, NEW H, NEW t, Sound(s, H), Redrawn(t, s)
    PROVE  Sound(t, H)
  BY DEF Sound, Redrawn, SameTimers, Owns, Watched, Tucked

\* One member set.
LEMMA MemberFields ==
    ASSUME NEW s \in Screen, NEW b \in BOOLEAN
    PROVE  /\ LET t == [s EXCEPT !.idle = b] IN
              /\ t \in Screen /\ SameTimers(t, s) /\ t.idle = b
              /\ t.revealed = s.revealed /\ t.expanded = s.expanded
              /\ t.mpv = s.mpv /\ t.paused = s.paused /\ t.repeatKey = s.repeatKey
              /\ t.asked = s.asked
           /\ LET t == [s EXCEPT !.paused = b] IN
              /\ t \in Screen /\ SameTimers(t, s) /\ t.paused = b
              /\ t.revealed = s.revealed /\ t.expanded = s.expanded
              /\ t.mpv = s.mpv /\ t.idle = s.idle /\ t.repeatKey = s.repeatKey
              /\ t.asked = s.asked
           /\ LET t == [s EXCEPT !.revealed = b] IN
              /\ t \in Screen /\ SameTimers(t, s) /\ t.revealed = b
              /\ t.idle = s.idle /\ t.expanded = s.expanded
              /\ t.mpv = s.mpv /\ t.paused = s.paused /\ t.repeatKey = s.repeatKey
              /\ t.asked = s.asked
           /\ LET t == [s EXCEPT !.expanded = b] IN
              /\ t \in Screen /\ SameTimers(t, s) /\ t.expanded = b
              /\ t.revealed = s.revealed /\ t.idle = s.idle
              /\ t.mpv = s.mpv /\ t.paused = s.paused /\ t.repeatKey = s.repeatKey
              /\ t.asked = s.asked
  BY Zenon DEF Screen, SameTimers

LEMMA RepeatKeyFields ==
    ASSUME NEW s \in Screen, NEW k \in Keys \cup {Nothing}
    PROVE  LET t == [s EXCEPT !.repeatKey = k] IN
           /\ t \in Screen /\ SameTimers(t, s)
           /\ t.revealed = s.revealed /\ t.expanded = s.expanded /\ t.idle = s.idle
           /\ t.mpv = s.mpv /\ t.paused = s.paused /\ t.asked = s.asked
  BY Zenon DEF Screen, SameTimers

LEMMA AskedFields ==
    ASSUME NEW s \in Screen, NEW a \in Actions
    PROVE  LET t == [s EXCEPT !.asked = a, !.drained = FALSE] IN
           /\ t \in Screen /\ SameTimers(t, s) /\ t.asked = a
           /\ t.revealed = s.revealed /\ t.expanded = s.expanded /\ t.idle = s.idle
           /\ t.mpv = s.mpv /\ t.paused = s.paused /\ t.repeatKey = s.repeatKey
  BY Zenon DEF Screen, SameTimers

\* Of the members of ui, those that going idle and waking up leave alone.
SameButIdle(t, s) ==
    /\ t.revealed = s.revealed /\ t.expanded = s.expanded
    /\ t.mpv = s.mpv /\ t.repeatKey = s.repeatKey /\ t.asked = s.asked

VideoWatched(s) == s.mpv => (s.paused <=> s.handle["render"] = NoTimer)

LEMMA HandlesAre ==
    /\ "idle" \in Handles /\ "hide" \in Handles /\ "render" \in Handles
    /\ "repeat" \in Handles /\ "clock" \in Handles
    /\ \A h \in Handles : h \in Timers /\ HandleOf(h) = h
    /\ "delay" \in Timers /\ HandleOf("delay") = "repeat"
  BY DEF Handles, Timers, HandleOf

LEMMA SameTimersOwns ==
    ASSUME NEW s, NEW t, NEW H, Owns(s, H), SameTimers(t, s)
    PROVE  Owns(t, H)
  BY DEF Owns, SameTimers

LEMMA ResumeSound ==
    ASSUME NEW s \in Screen, NEW H, Owns(s, H), "render" \notin H, VideoWatched(s)
    PROVE  LET t == Resume(s) IN
           /\ t \in Screen /\ Owns(t, H) /\ OtherHandles(t, s, "render")
           /\ SameButIdle(t, s) /\ t.idle = s.idle
           /\ t.mpv => ~t.paused /\ t.handle["render"] # NoTimer
<1>1. CASE ~s.mpv \/ ~s.paused
  <2>1. Resume(s) = s
    BY <1>1 DEF Resume
  <2> QED
    BY <1>1, <2>1 DEF VideoWatched, OtherHandles, SameButIdle
<1>2. CASE s.mpv /\ s.paused
  <2> DEFINE going == [s EXCEPT !.paused = FALSE]
  <2>1. /\ going \in Screen /\ SameTimers(going, s) /\ going.paused = FALSE
        /\ SameButIdle(going, s) /\ going.idle = s.idle
    BY MemberFields DEF SameButIdle
  <2>2. Resume(s) = IF s.handle["render"] = NoTimer THEN Arm(going, "render", "render") ELSE going
    BY <1>2 DEF Resume
  <2> HIDE DEF going
  <2>3. Owns(going, H)
    BY <2>1, SameTimersOwns
  <2> DEFINE armed == Arm(going, "render", "render")
  <2>4. /\ armed \in Screen /\ Owns(armed, H) /\ SameFace(armed, going)
        /\ armed.handle["render"] # NoTimer /\ OtherHandles(armed, going, "render")
    BY <2>1, <2>3, ArmSound, HandlesAre
  <2> HIDE DEF armed
  <2>5. CASE s.handle["render"] = NoTimer
    <3>1. Resume(s) = armed
      BY <2>2, <2>5 DEF armed
    <3> QED
      BY <2>1, <2>4, <3>1 DEF SameFace, SameButIdle, OtherHandles, SameTimers
  <2>6. CASE s.handle["render"] # NoTimer
    <3>1. Resume(s) = going
      BY <2>2, <2>6
    <3> QED
      BY <2>1, <2>3, <2>6, <3>1 DEF OtherHandles, SameTimers
  <2> QED
    BY <2>5, <2>6
<1> QED
  BY <1>1, <1>2

\* The screen awake: the first step of every reveal().
LEMMA AwakeSound ==
    ASSUME NEW s, NEW H, Sound(s, H), H \subseteq {"repeat"}
    PROVE  LET t == IF s.idle THEN Resume([s EXCEPT !.idle = FALSE]) ELSE s IN
           /\ t \in Screen /\ Owns(t, H) /\ SameButIdle(t, s) /\ ~t.idle
           /\ t.mpv => ~t.paused /\ t.handle["render"] # NoTimer
<1>0. s \in Screen /\ Owns(s, H) /\ Watched(s)
  BY DEF Sound
<1>1. CASE ~s.idle
  BY <1>0, <1>1 DEF Watched, SameButIdle
<1>2. CASE s.idle
  <2> DEFINE u == [s EXCEPT !.idle = FALSE]
  <2>1. /\ u \in Screen /\ SameTimers(u, s) /\ SameButIdle(u, s)
        /\ u.idle = FALSE /\ u.paused = s.paused
    BY <1>0, MemberFields DEF SameButIdle
  <2> HIDE DEF u
  <2>2. VideoWatched(u)
    BY <1>0, <2>1 DEF VideoWatched, Watched, SameTimers, SameButIdle
  <2>3. Owns(u, H)
    BY <1>0, <2>1, SameTimersOwns
  <2>4. LET t == Resume(u) IN
        /\ t \in Screen /\ Owns(t, H) /\ SameButIdle(t, u) /\ t.idle = u.idle
        /\ t.mpv => ~t.paused /\ t.handle["render"] # NoTimer
    BY <2>1, <2>2, <2>3, ResumeSound
  <2>5. LET t == Resume(u) IN
        /\ t \in Screen /\ Owns(t, H) /\ SameButIdle(t, s) /\ ~t.idle
        /\ t.mpv => ~t.paused /\ t.handle["render"] # NoTimer
    BY <2>1, <2>4 DEF SameButIdle
  <2> QED
    BY <1>2, <2>5 DEF u
<1> QED
  BY <1>0, <1>1, <1>2

LEMMA RevealSound ==
    ASSUME NEW s, NEW H, Sound(s, H), H \subseteq {"repeat"}
    PROVE  LET t == Reveal(s) IN
           /\ Sound(t, H) /\ t.revealed /\ t.expanded = s.expanded
           /\ t.repeatKey = s.repeatKey /\ (t.asked = s.asked \/ t.asked = Nothing)
<1> DEFINE awake == IF s.idle THEN Resume([s EXCEPT !.idle = FALSE]) ELSE s
           counting == Arm(awake, "idle", "idle")
           shown == [counting EXCEPT !.revealed = TRUE]
           hiding == Arm(shown, "hide", "hide")
<1>1. /\ awake \in Screen /\ Owns(awake, H) /\ SameButIdle(awake, s) /\ ~awake.idle
      /\ awake.mpv => ~awake.paused /\ awake.handle["render"] # NoTimer
  BY AwakeSound
<1> HIDE DEF awake
<1>2. /\ counting \in Screen /\ Owns(counting, H) /\ SameFace(counting, awake)
      /\ counting.handle["idle"] # NoTimer /\ OtherHandles(counting, awake, "idle")
  BY <1>1, ArmSound, HandlesAre
<1> HIDE DEF counting
<1>3. /\ shown \in Screen /\ SameTimers(shown, counting) /\ shown.revealed = TRUE
      /\ shown.idle = counting.idle /\ shown.expanded = counting.expanded
      /\ shown.mpv = counting.mpv /\ shown.paused = counting.paused
      /\ shown.repeatKey = counting.repeatKey /\ shown.asked = counting.asked
  BY <1>2, MemberFields
<1> HIDE DEF shown
<1>4. Owns(shown, H)
  BY <1>2, <1>3, SameTimersOwns
<1>5. /\ hiding \in Screen /\ Owns(hiding, H) /\ SameFace(hiding, shown)
      /\ OtherHandles(hiding, shown, "hide")
  BY <1>3, <1>4, ArmSound, HandlesAre
<1>6. Reveal(s) = Invalidate(hiding)
  BY Zenon DEF Reveal, awake, counting, shown
<1> HIDE DEF hiding
<1>7. /\ hiding.handle["idle"] = counting.handle["idle"]
      /\ hiding.handle["render"] = awake.handle["render"]
  BY <1>2, <1>3, <1>5, HandlesAre DEF OtherHandles, SameTimers
<1>8. /\ ~hiding.idle /\ hiding.mpv = awake.mpv /\ hiding.paused = awake.paused
      /\ hiding.revealed = TRUE /\ hiding.expanded = s.expanded
      /\ hiding.repeatKey = s.repeatKey /\ hiding.asked = s.asked
  BY <1>1, <1>2, <1>3, <1>5 DEF SameFace, SameButIdle
<1>9. Watched(hiding) /\ Tucked(hiding)
  BY <1>1, <1>2, <1>7, <1>8 DEF Watched, Tucked
<1>10. Sound(hiding, H) /\ Redrawn(Invalidate(hiding), hiding)
  BY <1>5, <1>9, InvalidateRedraws DEF Sound
<1>11. Sound(Invalidate(hiding), H)
  BY <1>10, RedrawnSound
<1> QED
  BY <1>6, <1>8, <1>10, <1>11 DEF Redrawn

\* What an input handler makes of the screen, the popover's question apart: kept or given up.
Handled(t, s, H) ==
    /\ Sound(t, H) /\ t.repeatKey = s.repeatKey
    /\ t.asked = s.asked \/ t.asked = Nothing

LEMMA HandledTwice ==
    ASSUME NEW s, NEW t, NEW u, NEW H, Handled(t, s, H), Handled(u, t, H)
    PROVE  Handled(u, s, H)
  BY DEF Handled

LEMMA RedrawnHandled ==
    ASSUME NEW s, NEW H, NEW t, Sound(s, H), Redrawn(t, s)
    PROVE  Handled(t, s, H) /\ t.revealed = s.revealed
  BY RedrawnSound DEF Handled, Redrawn

LEMMA InvalidateHandled ==
    ASSUME NEW s, NEW H, Sound(s, H)
    PROVE  Handled(Invalidate(s), s, H) /\ Invalidate(s).revealed = s.revealed
  BY InvalidateRedraws, RedrawnHandled DEF Sound

LEMMA EnterIdleSound ==
    ASSUME NEW s \in Screen, Owns(s, {}), Tucked(s), s.handle["idle"] = NoTimer, ~s.idle,
           s.mpv => ~s.paused /\ s.handle["render"] # NoTimer
    PROVE  Handled(EnterIdle(s), s, {}) /\ EnterIdle(s).revealed = s.revealed
<1> DEFINE u == [s EXCEPT !.idle = TRUE]
           v == [u EXCEPT !.paused = TRUE]
           w == Disarm(v, "render")
<1>1. /\ u \in Screen /\ SameTimers(u, s) /\ u.idle = TRUE /\ u.paused = s.paused
      /\ SameButIdle(u, s)
  BY MemberFields DEF SameButIdle
<1>2. EnterIdle(s) = Invalidate(Pause(u))
  BY DEF EnterIdle
<1> HIDE DEF u
<1>3. /\ v \in Screen /\ SameTimers(v, u) /\ v.idle = u.idle /\ v.paused = TRUE
      /\ SameButIdle(v, u)
  BY <1>1, MemberFields DEF SameButIdle
<1>4. Pause(u) = IF ~u.mpv \/ u.paused THEN u ELSE w
  BY DEF Pause
<1> HIDE DEF v
<1>5. Owns(u, {}) /\ Owns(v, {})
  BY <1>1, <1>3, SameTimersOwns
<1>6. /\ w \in Screen /\ Owns(w, {}) /\ SameFace(w, v)
      /\ w.handle["render"] = NoTimer /\ OtherHandles(w, v, "render")
  BY <1>3, <1>5, DisarmSound, HandlesAre
<1> HIDE DEF w
<1>7. CASE u.mpv
  <2>1. Pause(u) = w
    BY <1>1, <1>4, <1>7 DEF SameButIdle
  <2>2. w.handle["idle"] = NoTimer /\ w.handle["hide"] = s.handle["hide"]
    BY <1>1, <1>3, <1>6, HandlesAre DEF OtherHandles, SameTimers
  <2>3. /\ w.idle = TRUE /\ w.paused = TRUE /\ w.revealed = s.revealed
        /\ w.expanded = s.expanded /\ w.repeatKey = s.repeatKey /\ w.asked = s.asked
    BY <1>1, <1>3, <1>6 DEF SameFace, SameButIdle
  <2>4. Watched(w) /\ Tucked(w)
    BY <1>6, <2>2, <2>3 DEF Watched, Tucked
  <2>5. Handled(Invalidate(w), w, {}) /\ Invalidate(w).revealed = w.revealed
    BY <1>6, <2>4, InvalidateHandled DEF Sound
  <2> QED
    BY <1>2, <2>1, <2>3, <2>5 DEF Handled
<1>8. CASE ~u.mpv
  <2>1. Pause(u) = u
    BY <1>4, <1>8
  <2>2. Watched(u) /\ Tucked(u)
    BY <1>1, <1>8 DEF Watched, Tucked, SameButIdle, SameTimers
  <2>3. Handled(Invalidate(u), u, {}) /\ Invalidate(u).revealed = u.revealed
    BY <1>1, <1>5, <2>2, InvalidateHandled DEF Sound
  <2> QED
    BY <1>1, <1>2, <2>1, <2>3 DEF Handled, SameButIdle
<1> QED
  BY <1>7, <1>8

LEMMA CollapsePowerFields ==
    ASSUME NEW s \in Screen
    PROVE  LET t == CollapsePower(s) IN
           /\ t \in Screen /\ SameTimers(t, s) /\ t.expanded = FALSE
           /\ t.revealed = s.revealed /\ t.idle = s.idle /\ t.mpv = s.mpv
           /\ t.paused = s.paused /\ t.repeatKey = s.repeatKey
           /\ t.asked = s.asked \/ t.asked = Nothing
<1> DEFINE u == [s EXCEPT !.expanded = FALSE]
<1>1. /\ u \in Screen /\ SameTimers(u, s) /\ u.expanded = FALSE
      /\ u.revealed = s.revealed /\ u.idle = s.idle /\ u.mpv = s.mpv
      /\ u.paused = s.paused /\ u.repeatKey = s.repeatKey /\ u.asked = s.asked
  BY MemberFields
<1>2. CollapsePower(s) = IF s.expanded THEN Invalidate(u) ELSE s
  BY DEF CollapsePower
<1> HIDE DEF u
<1>3. Redrawn(Invalidate(u), u)
  BY <1>1, InvalidateRedraws
<1>4. CASE s.expanded
  BY <1>1, <1>2, <1>3, <1>4 DEF Redrawn, SameTimers
<1>5. CASE ~s.expanded
  <2>1. s.expanded = FALSE
    BY <1>5 DEF Screen
  <2> QED
    BY <1>2, <1>5, <2>1 DEF SameTimers
<1> QED
  BY <1>4, <1>5

LEMMA CollapsePowerSound ==
    ASSUME NEW s, NEW H, Sound(s, H)
    PROVE  Handled(CollapsePower(s), s, H) /\ CollapsePower(s).revealed = s.revealed
  BY CollapsePowerFields, SameTimersOwns DEF Sound, Handled, Watched, Tucked, SameTimers

LEMMA ExpandPowerSound ==
    ASSUME NEW s, NEW H, Sound(s, H), s.revealed
    PROVE  Handled(ExpandPower(s), s, H) /\ ExpandPower(s).revealed = s.revealed
<1> DEFINE u == [s EXCEPT !.expanded = TRUE]
<1>1. /\ u \in Screen /\ SameTimers(u, s)
      /\ u.revealed = s.revealed /\ u.idle = s.idle /\ u.mpv = s.mpv
      /\ u.paused = s.paused /\ u.repeatKey = s.repeatKey /\ u.asked = s.asked
  BY MemberFields DEF Sound
<1>2. ExpandPower(s) = IF s.expanded THEN s ELSE Invalidate(u)
  BY DEF ExpandPower
<1> HIDE DEF u
<1>3. Sound(u, H)
  BY <1>1, SameTimersOwns DEF Sound, Watched, Tucked, SameTimers
<1>4. Handled(Invalidate(u), u, H) /\ Invalidate(u).revealed = u.revealed
  BY <1>3, InvalidateHandled
<1> QED
  BY <1>1, <1>2, <1>4 DEF Handled

\* Escape and the hide timer; the members of a hidden screen are put right by it.
LEMMA CollapseSound ==
    ASSUME NEW s \in Screen, NEW H, Owns(s, H), "hide" \notin H, Watched(s)
    PROVE  Handled(Collapse(s), s, H)
<1> DEFINE u == [s EXCEPT !.revealed = FALSE]
           v == CollapsePower(u)
           w == Disarm(v, "hide")
<1>1. /\ u \in Screen /\ SameTimers(u, s) /\ u.revealed = FALSE
      /\ u.idle = s.idle /\ u.mpv = s.mpv /\ u.paused = s.paused
      /\ u.repeatKey = s.repeatKey /\ u.asked = s.asked
  BY MemberFields
<1> HIDE DEF u
<1>2. /\ v \in Screen /\ SameTimers(v, u) /\ v.expanded = FALSE
      /\ v.revealed = u.revealed /\ v.idle = u.idle /\ v.mpv = u.mpv
      /\ v.paused = u.paused /\ v.repeatKey = u.repeatKey
      /\ v.asked = u.asked \/ v.asked = Nothing
  BY <1>1, CollapsePowerFields
<1> HIDE DEF v
<1>3. Owns(v, H)
  BY <1>1, <1>2, SameTimersOwns
<1>4. /\ w \in Screen /\ Owns(w, H) /\ SameFace(w, v)
      /\ w.handle["hide"] = NoTimer /\ OtherHandles(w, v, "hide")
  BY <1>2, <1>3, DisarmSound, HandlesAre
<1>5. Collapse(s) = Invalidate(w)
  BY DEF Collapse, w, v, u
<1> HIDE DEF w
<1>6. w.handle["idle"] = s.handle["idle"] /\ w.handle["render"] = s.handle["render"]
  BY <1>1, <1>2, <1>4, HandlesAre DEF OtherHandles, SameTimers
<1>7. Watched(w)
  BY <1>1, <1>2, <1>4, <1>6 DEF Watched, SameFace
<1>8. Tucked(w)
  BY <1>2, <1>4 DEF Tucked, SameFace
<1>9. Sound(w, H) /\ Handled(Invalidate(w), w, H)
  BY <1>4, <1>7, <1>8, InvalidateHandled DEF Sound
<1> QED
  BY <1>1, <1>2, <1>4, <1>5, <1>9 DEF Handled, SameFace

LEMMA ShowPowerConfirmSound ==
    ASSUME NEW s, NEW H, Sound(s, H), NEW a \in Actions
    PROVE  LET t == ShowPowerConfirm(s, a) IN
           Sound(t, H) /\ t.revealed = s.revealed /\ (t.asked = a \/ t.asked = Nothing)
<1> DEFINE u == [s EXCEPT !.asked = a, !.drained = FALSE]
           v == CollapsePower(u)
<1>1. /\ u \in Screen /\ SameTimers(u, s) /\ u.asked = a
      /\ u.revealed = s.revealed /\ u.expanded = s.expanded /\ u.idle = s.idle
      /\ u.mpv = s.mpv /\ u.paused = s.paused
  BY AskedFields DEF Sound
<1>2. ShowPowerConfirm(s, a) = Invalidate(v)
  BY DEF ShowPowerConfirm
<1> HIDE DEF u
<1>3. Sound(u, H)
  BY <1>1, SameTimersOwns DEF Sound, Watched, Tucked, SameTimers
<1>4. Handled(v, u, H) /\ v.revealed = u.revealed
  BY <1>3, CollapsePowerSound
<1> HIDE DEF v
<1>5. Handled(Invalidate(v), v, H) /\ Invalidate(v).revealed = v.revealed
  BY <1>4, InvalidateHandled DEF Handled
<1> QED
  BY <1>1, <1>2, <1>4, <1>5 DEF Handled

\* A key pressed: what it reveals and what it answers.
LEMMA KeyPressedSound ==
    ASSUME NEW s, NEW H, Sound(s, H), H \subseteq {"repeat"}, NEW k
    PROVE  LET t == KeyPressed(s, k) IN
           /\ Handled(t, s, H)
           /\ s.asked = Nothing /\ k \notin {"enter", "escape"} => t.revealed
           /\ s.asked # Nothing \/ k = "enter" => t.revealed = s.revealed
           /\ s.asked # Nothing /\ k = "enter" => t.asked = Nothing
<1>0. Handled(s, s, H) /\ s \in Screen /\ Owns(s, H) /\ Watched(s)
  BY DEF Handled, Sound
<1>1. CASE s.asked # Nothing
  <2> DEFINE d == Dismiss(s)
  <2>1. Redrawn(d, s) /\ d.asked = Nothing /\ d \in Screen
    BY <1>0, DismissRedraws DEF Redrawn
  <2>2. KeyPressed(s, k) = IF k \in {"enter", "escape"} THEN Invalidate(d) ELSE s
    BY <1>1 DEF KeyPressed
  <2> HIDE DEF d
  <2>3. Redrawn(Invalidate(d), d)
    BY <2>1, InvalidateRedraws
  <2>4. Redrawn(Invalidate(d), s) /\ Invalidate(d).asked = Nothing
    BY <2>1, <2>3, RedrawnTwice DEF Redrawn
  <2>5. Handled(Invalidate(d), s, H) /\ Invalidate(d).revealed = s.revealed
    BY <2>4, RedrawnHandled
  <2> QED
    BY <1>0, <1>1, <2>2, <2>4, <2>5
<1>2. CASE s.asked = Nothing /\ k = "escape"
  <2>1. KeyPressed(s, k) = Collapse(s)
    BY <1>2 DEF KeyPressed
  <2>2. Handled(Collapse(s), s, H)
    BY <1>0, CollapseSound
  <2> QED
    BY <1>2, <2>1, <2>2
<1>3. CASE s.asked = Nothing /\ k = "enter"
  <2>1. KeyPressed(s, k) = IF password = "" \/ busy THEN s ELSE Invalidate(s)
    BY <1>3 DEF KeyPressed
  <2>2. Handled(Invalidate(s), s, H) /\ Invalidate(s).revealed = s.revealed
    BY InvalidateHandled
  <2> QED
    BY <1>0, <1>3, <2>1, <2>2
<1>4. CASE s.asked = Nothing /\ k \notin {"enter", "escape"}
  <2>1. KeyPressed(s, k) = Reveal(s)
    BY <1>4 DEF KeyPressed
  <2>2. Sound(Reveal(s), H) /\ Reveal(s).revealed /\ Reveal(s).repeatKey = s.repeatKey
        /\ (Reveal(s).asked = s.asked \/ Reveal(s).asked = Nothing)
    BY RevealSound
  <2> QED
    BY <1>4, <2>1, <2>2 DEF Handled
<1> QED
  BY <1>1, <1>2, <1>3, <1>4

LEMMA RepeatTimerSound ==
    ASSUME NEW s, Sound(s, {}), NEW k \in Keys \cup {Nothing}
    PROVE  /\ LET t == StartRepeat(s, k) IN
              Sound(t, {}) /\ t.revealed = s.revealed /\ t.asked = s.asked
           /\ LET t == StopRepeat(s) IN
              Sound(t, {}) /\ t.revealed = s.revealed /\ t.asked = s.asked
<1> DEFINE u == Arm(s, "repeat", "delay")
           v == Disarm(s, "repeat")
<1>1. /\ u \in Screen /\ Owns(u, {}) /\ SameFace(u, s) /\ OtherHandles(u, s, "repeat")
      /\ v \in Screen /\ Owns(v, {}) /\ SameFace(v, s) /\ OtherHandles(v, s, "repeat")
  BY ArmSound, DisarmSound, HandlesAre DEF Sound
<1>2. /\ StartRepeat(s, k) = [u EXCEPT !.repeatKey = k]
      /\ StopRepeat(s) = [v EXCEPT !.repeatKey = Nothing]
  BY DEF StartRepeat, StopRepeat
<1> HIDE DEF u, v
<1>3. ASSUME NEW w \in Screen, Owns(w, {}), SameFace(w, s), OtherHandles(w, s, "repeat"),
             NEW n \in Keys \cup {Nothing}
      PROVE  LET t == [w EXCEPT !.repeatKey = n] IN
             Sound(t, {}) /\ t.revealed = s.revealed /\ t.asked = s.asked
  <2> DEFINE t == [w EXCEPT !.repeatKey = n]
  <2>1. /\ t \in Screen /\ SameTimers(t, w)
        /\ t.revealed = w.revealed /\ t.expanded = w.expanded /\ t.idle = w.idle
        /\ t.mpv = w.mpv /\ t.paused = w.paused /\ t.asked = w.asked
    BY <1>3, RepeatKeyFields
  <2> HIDE DEF t
  <2>2. Owns(t, {})
    BY <1>3, <2>1, SameTimersOwns
  <2>3. /\ t.handle["idle"] = s.handle["idle"] /\ t.handle["hide"] = s.handle["hide"]
        /\ t.handle["render"] = s.handle["render"]
    BY <1>3, <2>1, HandlesAre DEF OtherHandles, SameTimers
  <2>4. Watched(t) /\ Tucked(t)
    BY <1>3, <2>1, <2>3 DEF Sound, SameFace, Watched, Tucked
  <2>5. t.revealed = s.revealed /\ t.asked = s.asked
    BY <1>3, <2>1 DEF SameFace
  <2> QED
    BY <2>1, <2>2, <2>4, <2>5 DEF Sound, t
<1> QED
  BY <1>1, <1>2, <1>3

-----------------------------------------------------------------------------
\* The secret.

LEMMA AuthenticateTyped ==
    ASSUME PamTypeOK, NEW pw \in Passwords, Authenticate(pw)
    PROVE  PamTypeOK' /\ posted' = posted
<1>1. busy' \in BOOLEAN /\ passed' \in BOOLEAN /\ posted' = posted
  BY Zenon DEF PamTypeOK, Authenticate
<1>2. /\ attempts' \in Nat /\ secret' \in Passwords
      /\ worker' \in {"none", "authenticating", "posted", "finished"}
  BY DEF PamTypeOK, Authenticate
<1> QED
  BY <1>1, <1>2 DEF PamTypeOK

\* What a key does to the secret, and what that leaves in the field.
LEMMA KeyTypedSecret ==
    ASSUME PamTypeOK, LoginTypeOK, NEW k, KeyTyped(ui, k)
    PROVE  /\ PamTypeOK' /\ LoginTypeOK' /\ posted' = posted
           /\ ui.asked # Nothing => password' = password
           /\ k \in {"enter", "other"} => password' = password \/ password' = ""
           /\ ui.asked = Nothing /\ k = "escape" => password' = ""
<1>1. CASE UNCHANGED <<pamVars, loginVars>>
  <2>1. ~(ui.asked = Nothing /\ k = "escape") \/ ClearPassword
    BY DEF KeyTyped
  <2> QED
    BY <1>1, <2>1 DEF PamTypeOK, LoginTypeOK, pamVars, loginVars, ClearPassword
<1>2. CASE ui.asked = Nothing /\ k \in {"text", "back", "clear", "escape"}
            /\ (TypeText \/ PopBack \/ ClearPassword) /\ UNCHANGED pamVars
            /\ (k = "escape" => ClearPassword)
  <2>1. PamTypeOK' /\ posted' = posted
    BY <1>2 DEF PamTypeOK, pamVars
  <2>2. LoginTypeOK'
    BY <1>2 DEF LoginTypeOK, TypeText, PopBack, ClearPassword, Passwords
  <2> QED
    BY <1>2, <2>1, <2>2 DEF ClearPassword
<1>3. CASE ui.asked = Nothing /\ k = "enter" /\ SubmitPassword
            /\ ~(password = "" \/ busy)
  <2>1. Authenticate(password) /\ password' = "" /\ status' = "authenticating" /\ handled' = handled
    BY <1>3 DEF SubmitPassword
  <2>2. PamTypeOK' /\ posted' = posted
    BY <2>1, AuthenticateTyped DEF LoginTypeOK
  <2>3. LoginTypeOK'
    BY <2>1 DEF LoginTypeOK, Passwords, Statuses
  <2> QED
    BY <1>3, <2>1, <2>2, <2>3
<1> QED
  <2>1. \/ UNCHANGED <<pamVars, loginVars>>
        \/ ui.asked = Nothing /\ k = "enter" /\ SubmitPassword
        \/ ui.asked = Nothing /\ k \in {"text", "back", "clear", "escape"}
             /\ (TypeText \/ PopBack \/ ClearPassword) /\ UNCHANGED pamVars
             /\ (k = "escape" => ClearPassword)
    BY DEF KeyTyped
  <2>2. SubmitPassword /\ (password = "" \/ busy) => UNCHANGED <<pamVars, loginVars>>
    BY DEF SubmitPassword
  <2> QED
    BY <1>1, <1>2, <1>3, <2>1, <2>2

-----------------------------------------------------------------------------
\* The handlers.

GateStep == [Gate!Next]_<<ui.asked, done>>

UiInv == Sound(ui, {}) /\ (~ui.revealed => password = "")

Types == PamTypeOK /\ LoginTypeOK /\ done \in Seq(Actions) /\ inputs \in Nat

LEMMA QuestionGivenUp ==
    ASSUME ui'.asked = ui.asked \/ ui'.asked = Nothing, done' = done
    PROVE  GateStep
  BY DEF GateStep, Gate!Next, Gate!Dismiss

LEMMA AskedOf == ASSUME UiInv PROVE ui.asked \in Actions \cup {Nothing}
  BY DEF UiInv, Sound, Screen

\* One key, to the screen and to the secret; s is ui, or ui with its repeat timer closed.
LEMMA KeySound ==
    ASSUME Types, UiInv, NEW s, NEW H, Sound(s, H), H \subseteq {"repeat"},
           s.asked = ui.asked, s.revealed = ui.revealed,
           NEW k, KeyTyped(ui, k),
           ui'.asked = KeyPressed(s, k).asked, ui'.revealed = KeyPressed(s, k).revealed
    PROVE  /\ PamTypeOK' /\ LoginTypeOK' /\ posted' = posted
           /\ ~ui'.revealed => password' = ""
           /\ done' \in Seq(Actions) /\ GateStep
<1> DEFINE t == KeyPressed(s, k)
<1>1. /\ Handled(t, s, H)
      /\ s.asked = Nothing /\ k \notin {"enter", "escape"} => t.revealed
      /\ s.asked # Nothing \/ k = "enter" => t.revealed = s.revealed
      /\ s.asked # Nothing /\ k = "enter" => t.asked = Nothing
  BY KeyPressedSound
<1>2. ui'.asked = t.asked /\ ui'.revealed = t.revealed
  OBVIOUS
<1> HIDE DEF t
<1>3. /\ PamTypeOK' /\ LoginTypeOK' /\ posted' = posted
      /\ ui.asked # Nothing => password' = password
      /\ k \in {"enter", "other"} => password' = password \/ password' = ""
      /\ ui.asked = Nothing /\ k = "escape" => password' = ""
  BY KeyTypedSecret DEF Types
<1>4. ~ui'.revealed => password' = ""
  BY <1>1, <1>2, <1>3 DEF UiInv
<1>5. done' = IF ui.asked # Nothing /\ k = "enter" THEN Append(done, ui.asked) ELSE done
  BY DEF KeyTyped
<1>6. done' \in Seq(Actions) /\ GateStep
  <2>1. CASE ui.asked # Nothing /\ k = "enter"
    <3>1. ui'.asked = Nothing /\ done' = Append(done, ui.asked) /\ ui.asked \in Actions
      BY <1>1, <1>2, <1>5, <2>1, AskedOf
    <3>2. Gate!Confirm
      BY <2>1, <3>1 DEF Gate!Confirm
    <3> QED
      BY <3>1, <3>2 DEF GateStep, Gate!Next, Types
  <2>2. CASE ~(ui.asked # Nothing /\ k = "enter")
    BY <1>1, <1>2, <1>5, <2>2, QuestionGivenUp DEF Handled, Types
  <2> QED
    BY <2>1, <2>2
<1> QED
  BY <1>3, <1>4, <1>6

\* What an event may do, whoever dispatches it.
Effect == UiInv' /\ Types' /\ posted' = posted /\ GateStep

\* A handler of the screen that leaves the secret alone.
LEMMA HandledEffect ==
    ASSUME Types, UiInv, UNCHANGED <<pamVars, loginVars, done>>, inputs' \in Nat,
           Sound(ui', {}), ui'.revealed = ui.revealed \/ ui'.revealed,
           ui'.asked = ui.asked \/ ui'.asked = Nothing
    PROVE  Effect
<1>1. /\ PamTypeOK' /\ LoginTypeOK' /\ posted' = posted /\ password' = password
      /\ done' = done
  BY DEF Types, PamTypeOK, LoginTypeOK, pamVars, loginVars
<1>2. GateStep
  BY <1>1, QuestionGivenUp
<1>3. ~ui'.revealed => password' = ""
  BY <1>1 DEF UiInv
<1> QED
  BY <1>1, <1>2, <1>3 DEF Effect, UiInv, Types

LEMMA KeyDownEffect ==
    ASSUME Types, UiInv, NEW k \in Keys, KeyDown(k), inputs' \in Nat
    PROVE  Effect
<1> DEFINE t == KeyPressed(ui, k)
<1>1. Handled(t, ui, {})
  BY KeyPressedSound DEF UiInv
<1>2. KeyTyped(ui, k) /\ ui' = IF k \in Repeating THEN StartRepeat(t, k) ELSE t
  BY DEF KeyDown
<1>3. Sound(t, {})
  BY <1>1 DEF Handled
<1> HIDE DEF t
<1>4. LET u == StartRepeat(t, k) IN
      Sound(u, {}) /\ u.revealed = t.revealed /\ u.asked = t.asked
  BY <1>3, RepeatTimerSound
<1>5. Sound(ui', {}) /\ ui'.revealed = t.revealed /\ ui'.asked = t.asked
  BY <1>2, <1>3, <1>4
<1>6. /\ PamTypeOK' /\ LoginTypeOK' /\ posted' = posted
      /\ ~ui'.revealed => password' = ""
      /\ done' \in Seq(Actions) /\ GateStep
  BY <1>2, <1>5, KeySound DEF t, UiInv
<1> QED
  BY <1>5, <1>6 DEF Effect, UiInv, Types

LEMMA DialogPressEffect ==
    ASSUME Types, UiInv, UNCHANGED <<pamVars, loginVars>>, inputs' \in Nat,
           ui.asked # Nothing, NEW place, DialogPress(place)
    PROVE  Effect
<1> DEFINE d == Dismiss(ui)
<1>1. Redrawn(d, ui) /\ d.asked = Nothing /\ d \in Screen /\ ui \in Screen
  BY DismissRedraws DEF UiInv, Sound, Redrawn
<1>2. /\ ui' = Invalidate(IF place = "inside" THEN ui ELSE d)
      /\ done' = IF place = "confirm" THEN Append(done, ui.asked) ELSE done
  BY DEF DialogPress
<1> HIDE DEF d
<1>3. Redrawn(Invalidate(d), d) /\ Redrawn(Invalidate(ui), ui)
  BY <1>1, InvalidateRedraws
<1>4. Redrawn(Invalidate(d), ui) /\ Invalidate(d).asked = Nothing
  BY <1>1, <1>3, RedrawnTwice DEF Redrawn
<1>5. Redrawn(ui', ui) /\ (place # "inside" => ui'.asked = Nothing)
  BY <1>2, <1>3, <1>4
<1>6. Handled(ui', ui, {}) /\ ui'.revealed = ui.revealed
  BY <1>5, RedrawnHandled DEF UiInv
<1>7. CASE place = "confirm"
  <2>1. ui'.asked = Nothing /\ done' = Append(done, ui.asked) /\ ui.asked \in Actions
    BY <1>2, <1>5, <1>7, AskedOf
  <2>2. done' \in Seq(Actions) /\ GateStep
    BY <2>1 DEF GateStep, Gate!Next, Gate!Confirm, Types
  <2>3. /\ PamTypeOK' /\ LoginTypeOK' /\ posted' = posted /\ password' = password
    BY DEF Types, PamTypeOK, LoginTypeOK, pamVars, loginVars
  <2> QED
    BY <1>6, <2>2, <2>3 DEF Effect, Types, UiInv, Handled
<1>8. CASE place # "confirm"
  BY <1>2, <1>6, <1>8, HandledEffect DEF Handled
<1> QED
  BY <1>7, <1>8

LEMMA ScreenPressEffect ==
    ASSUME Types, UiInv, UNCHANGED <<pamVars, loginVars>>, inputs' \in Nat,
           ui.asked = Nothing, NEW place, ScreenPress(place)
    PROVE  Effect
<1> DEFINE shown == Reveal(ui)
           again == Reveal(shown)
           clicks == ui.revealed /\ (place \in Actions => ui.expanded)
<1>1. done' = done
  BY DEF ScreenPress
<1>2. Sound(shown, {}) /\ shown.revealed /\ shown.asked = Nothing
  BY RevealSound DEF UiInv
<1>3. ui' = IF place = "panel" THEN Invalidate(shown)
            ELSE IF ~clicks \/ place = "elsewhere" THEN shown
            ELSE IF place \in Actions THEN ShowPowerConfirm(shown, place)
            ELSE IF again.expanded THEN CollapsePower(again) ELSE ExpandPower(again)
  BY Zenon DEF ScreenPress
<1> HIDE DEF clicks, shown
<1>4. Sound(again, {}) /\ again.revealed /\ again.asked = Nothing
  BY <1>2, RevealSound
<1> HIDE DEF again
<1>5. CASE ui' = Invalidate(shown)
  <2>1. Sound(ui', {}) /\ ui'.revealed /\ ui'.asked = Nothing
    BY <1>2, <1>5, InvalidateHandled DEF Handled
  <2> QED
    BY <1>1, <2>1, HandledEffect
<1>6. CASE ui' = shown
  BY <1>1, <1>2, <1>6, HandledEffect
<1>7. CASE place \in Actions /\ ui' = ShowPowerConfirm(shown, place)
  <2>1. Sound(ui', {}) /\ ui'.revealed /\ (ui'.asked = place \/ ui'.asked = Nothing)
    BY <1>2, <1>7, ShowPowerConfirmSound
  <2>2. CASE ui'.asked = Nothing
    BY <1>1, <2>1, <2>2, HandledEffect
  <2>3. CASE ui'.asked = place
    <3>1. GateStep
      BY <1>1, <1>7, <2>3 DEF GateStep, Gate!Next, Gate!Ask
    <3>2. /\ PamTypeOK' /\ LoginTypeOK' /\ posted' = posted /\ password' = password
      BY DEF Types, PamTypeOK, LoginTypeOK, pamVars, loginVars
    <3> QED
      BY <1>1, <2>1, <3>1, <3>2 DEF Effect, Types, UiInv
  <2> QED
    BY <2>1, <2>2, <2>3
<1>8. CASE ui' = CollapsePower(again) \/ ui' = ExpandPower(again)
  <2>1. Sound(ui', {}) /\ ui'.revealed /\ ui'.asked = Nothing
    BY <1>4, <1>8, CollapsePowerSound, ExpandPowerSound DEF Handled
  <2> QED
    BY <1>1, <2>1, HandledEffect
<1> QED
  BY <1>3, <1>5, <1>6, <1>7, <1>8

LEMMA InputEffect ==
    ASSUME Types, UiInv, Input
    PROVE  Effect
<1>0. inputs' \in Nat
  BY DEF Input, Types
<1>1. CASE \E k \in Keys : KeyDown(k)
  BY <1>0, <1>1, KeyDownEffect
<1>2. CASE PointerPress /\ UNCHANGED <<pamVars, loginVars>>
  BY <1>0, <1>2, DialogPressEffect, ScreenPressEffect DEF PointerPress
<1>3. CASE PointerMotion /\ UNCHANGED <<pamVars, loginVars, done>>
  <2> DEFINE shown == Reveal(ui)
  <2>1. /\ Sound(shown, {}) /\ shown.revealed
        /\ (shown.asked = ui.asked \/ shown.asked = Nothing)
    BY RevealSound DEF UiInv
  <2>2. ui' = Invalidate(ui) \/ ui' = Invalidate(shown)
    BY <1>3 DEF PointerMotion
  <2> HIDE DEF shown
  <2>3. /\ Handled(Invalidate(ui), ui, {}) /\ Invalidate(ui).revealed = ui.revealed
        /\ Handled(Invalidate(shown), shown, {}) /\ Invalidate(shown).revealed = shown.revealed
    BY <2>1, InvalidateHandled DEF UiInv
  <2>4. /\ Sound(ui', {}) /\ (ui'.revealed = ui.revealed \/ ui'.revealed)
        /\ (ui'.asked = ui.asked \/ ui'.asked = Nothing)
    BY <2>1, <2>2, <2>3 DEF Handled
  <2> QED
    BY <1>0, <1>3, <2>4, HandledEffect
<1> QED
  BY <1>1, <1>2, <1>3 DEF Input

LEMMA InputEndEffect ==
    ASSUME Types, UiInv, InputEnd
    PROVE  Effect
<1>1. Handled(Invalidate(ui), ui, {}) /\ Invalidate(ui).revealed = ui.revealed
  BY InvalidateHandled DEF UiInv
<1>2. LET t == StopRepeat(ui) IN
      Sound(t, {}) /\ t.revealed = ui.revealed /\ t.asked = ui.asked
  BY RepeatTimerSound DEF UiInv
<1>3. /\ Sound(ui', {}) /\ ui'.revealed = ui.revealed
      /\ (ui'.asked = ui.asked \/ ui'.asked = Nothing)
  BY <1>1, <1>2 DEF InputEnd, KeyUp, PointerLeave, Handled
<1> QED
  BY <1>3, HandledEffect DEF InputEnd, Types

LEMMA FrameEffect ==
    ASSUME Types, UiInv, Frame
    PROVE  Effect
<1>1. PICK animating \in BOOLEAN : ui' = OnFrame(ui, animating)
  BY DEF Frame
<1>2. Redrawn(ui', ui)
  BY <1>1, OnFrameRedraws DEF UiInv, Sound
<1>3. Handled(ui', ui, {}) /\ ui'.revealed = ui.revealed
  BY <1>2, RedrawnHandled DEF UiInv
<1> QED
  BY <1>3, HandledEffect DEF Frame, Types, Handled

-----------------------------------------------------------------------------
\* The loop's callbacks.

LoopInv == EventLoopTypeOK /\ batch \in Seq(Results) /\ LoopShape

Inv == Types /\ UiInv /\ LoopInv

LEMMA VisitedLoop ==
    ASSUME LoopInv, NEW fd, Visiting(fd), Visited, UNCHANGED <<running, batch, posted>>
    PROVE  LoopInv'
<1>1. /\ ready' = ready \ {fd} /\ phase' \in {"wait", "visit"}
      /\ running' = running /\ batch' = batch /\ posted' = posted
  BY DEF Visiting, Visited
<1> QED
  BY <1>1 DEF LoopInv, EventLoopTypeOK, LoopShape

LEMMA EffectInv ==
    ASSUME Inv, Effect, LoopInv'
    PROVE  Inv' /\ GateStep
  BY DEF Inv, Effect

LEMMA ExpiredSound ==
    ASSUME NEW s, NEW H, Sound(s, H), NEW e \in SUBSET DOMAIN s.timers
    PROVE  LET t == [s EXCEPT !.expired = e] IN
           Sound(t, H) /\ t.revealed = s.revealed /\ t.asked = s.asked
                       /\ t.repeatKey = s.repeatKey
<1> DEFINE t == [s EXCEPT !.expired = e]
<1>1. s \in Screen /\ e \in SUBSET Fds
  BY TimerMap DEF Sound, Screen
<1>2. /\ t \in Screen /\ t.timers = s.timers /\ t.expired = e /\ t.handle = s.handle
      /\ SameFace(t, s)
  BY <1>1, Zenon DEF Screen, SameFace
<1> HIDE DEF t
<1>3. Owns(t, H)
  BY <1>2 DEF Sound, Owns
<1>4. Watched(t) /\ Tucked(t)
  BY <1>2 DEF Sound, Watched, Tucked, SameFace
<1> QED
  BY <1>2, <1>3, <1>4 DEF Sound, SameFace, t

LEMMA EpollWaitSound ==
    ASSUME Inv, EpollWait
    PROVE  Inv' /\ GateStep
<1>1. Sound(ui', {}) /\ ui'.revealed = ui.revealed /\ ui'.asked = ui.asked
  BY ExpiredSound DEF EpollWait, Inv, UiInv
<1>2. Effect
  BY <1>1, HandledEffect DEF EpollWait, Inv, Types
<1>3. LoopInv'
  <2>1. DOMAIN ui.timers \subseteq Fds
    BY TimerMap DEF Inv, UiInv, Sound, Screen
  <2>2. /\ ready' \subseteq Readable /\ phase' = "visit" /\ running' = running
        /\ batch' = batch /\ posted' = posted
    BY DEF EpollWait, Wait, pamVars
  <2>3. ready' \subseteq Fds \cup {WakeFd, WaylandFd}
    BY <2>1, <2>2 DEF Readable
  <2>4. WakeFd \notin DOMAIN ui.timers /\ WakeFd # WaylandFd
    BY <2>1, FdsAssumption DEF WakeFd, WaylandFd
  <2>5. WakeFd \in ready' => posted # <<>>
    BY <2>2, <2>4 DEF Readable
  <2> QED
    BY <2>2, <2>3, <2>5 DEF Inv, LoopInv, EventLoopTypeOK, LoopShape
<1> QED
  BY <1>2, <1>3, EffectInv

LEMMA VisitWaylandSound ==
    ASSUME Inv, VisitWayland \/ VisitFrame
    PROVE  Inv' /\ GateStep
<1>1. Effect
  <2>1. CASE Input \/ InputEnd \/ Frame
    BY <2>1, InputEffect, InputEndEffect, FrameEffect DEF Inv
  <2>2. CASE OtherEvent
    BY <2>2, HandledEffect DEF OtherEvent, Inv, Types, UiInv
  <2> QED
    BY <2>1, <2>2 DEF VisitWayland, VisitFrame
<1>2. LoopInv'
  BY <1>1, VisitedLoop DEF VisitWayland, VisitFrame, Inv, Effect
<1> QED
  BY <1>1, <1>2, EffectInv

\* A one-shot timer has fired: its number is free, its handle to be forgotten.
LEMMA FiredSound ==
    ASSUME UiInv, NEW fd \in DOMAIN ui.timers, NEW h, HandleOf(ui.timers[fd]) = h
    PROVE  /\ h \in Handles /\ h \notin {} /\ ui.handle[h] = fd
           /\ RemoveTimer(ui, fd) \in Screen /\ Owns(RemoveTimer(ui, fd), {} \cup {h})
           /\ RemoveTimer(ui, fd).handle = ui.handle /\ SameFace(RemoveTimer(ui, fd), ui)
<1>1. ui \in Screen /\ Owns(ui, {})
  BY DEF UiInv, Sound
<1>2. h \in Handles /\ h \notin {} /\ ui.handle[h] = fd
  BY <1>1, TimerMap, HandlesOfTimers DEF Owns, Screen
<1>3. Owns(RemoveTimer(ui, ui.handle[h]), {} \cup {h})
  BY <1>1, <1>2, CloseSound
<1> QED
  BY <1>1, <1>2, <1>3, RemoveTimerFields

LEMMA ForgottenSound ==
    ASSUME UiInv, NEW fd \in DOMAIN ui.timers, NEW h, HandleOf(ui.timers[fd]) = h
    PROVE  LET t == [RemoveTimer(ui, fd) EXCEPT !.handle[h] = NoTimer] IN
           /\ t \in Screen /\ Owns(t, {}) /\ SameFace(t, ui)
           /\ t.handle[h] = NoTimer /\ OtherHandles(t, ui, h) /\ ui.handle[h] # NoTimer
<1> DEFINE s == RemoveTimer(ui, fd)
<1>1. /\ h \in Handles /\ h \notin {} /\ ui.handle[h] = fd
      /\ s \in Screen /\ Owns(s, {} \cup {h}) /\ s.handle = ui.handle /\ SameFace(s, ui)
  BY FiredSound
<1> HIDE DEF s
<1>2. LET t == [s EXCEPT !.handle[h] = NoTimer] IN
      /\ t \in Screen /\ t.handle[h] = NoTimer /\ OtherHandles(t, s, h) /\ SameFace(t, s)
      /\ Owns(t, {})
  BY <1>1, HandleFields, ForgetSound
<1>3. fd # NoTimer
  BY TimerMap, NoTimerIsNoFd DEF UiInv, Sound, Screen
<1> QED
  BY <1>1, <1>2, <1>3 DEF SameFace, OtherHandles, s

LEMMA VisitTimerSound ==
    ASSUME Inv, NEW what \in Handles \ {"repeat"}, VisitTimer(what)
    PROVE  Inv' /\ GateStep
<1>0. Types /\ UiInv /\ LoopInv /\ Sound(ui, {})
  BY DEF Inv, UiInv
<1>1. PICK fd \in ready \cap DOMAIN ui.timers :
         /\ ui.timers[fd] = what
         /\ Visiting(fd)
         /\ Visited
         /\ LET s == IF what \in OneShot
                     THEN RemoveTimer(ui, fd)
                     ELSE [ui EXCEPT !.expired = @ \ {fd}] IN
            \/ what = "clock" /\ ui' = Invalidate(s)
            \/ what = "render" /\ ui' \in {s, Invalidate(s)}
            \/ what = "idle" /\ ui' = EnterIdle([s EXCEPT !.handle["idle"] = NoTimer])
            \/ /\ what = "hide"
               /\ LET t == [s EXCEPT !.handle["hide"] = NoTimer] IN
                  ui' = IF password = "" THEN Collapse(t) ELSE t
         /\ UNCHANGED <<pamVars, loginVars, running, batch, done, inputs>>
  BY DEF VisitTimer
<1>2. LoopInv'
  BY <1>0, <1>1, VisitedLoop DEF pamVars
<1>3. inputs' \in Nat /\ UNCHANGED <<pamVars, loginVars, done>>
  BY <1>0, <1>1 DEF Types
<1>4. HandleOf(ui.timers[fd]) = what
  BY <1>1, HandlesAre
<1>5. CASE what \in {"clock", "render"}
  <2> DEFINE s == [ui EXCEPT !.expired = ui.expired \ {fd}]
  <2>1. ui' = s \/ ui' = Invalidate(s)
    BY <1>1, <1>5 DEF OneShot
  <2>2. ui.expired \ {fd} \in SUBSET DOMAIN ui.timers
    BY <1>0 DEF Sound, Owns
  <2>3. Sound(s, {}) /\ s.revealed = ui.revealed /\ s.asked = ui.asked
    BY <1>0, <2>2, ExpiredSound
  <2> HIDE DEF s
  <2>4. Handled(Invalidate(s), s, {}) /\ Invalidate(s).revealed = s.revealed
    BY <2>3, InvalidateHandled
  <2>5. Effect
    BY <1>0, <1>3, <2>1, <2>3, <2>4, HandledEffect DEF Handled
  <2> QED
    BY <1>2, <2>5, EffectInv
<1>6. CASE what = "idle"
  <2> DEFINE t == [RemoveTimer(ui, fd) EXCEPT !.handle["idle"] = NoTimer]
  <2>1. ui' = EnterIdle(t)
    BY <1>1, <1>6 DEF OneShot
  <2>2. /\ t \in Screen /\ Owns(t, {}) /\ SameFace(t, ui)
        /\ t.handle["idle"] = NoTimer /\ OtherHandles(t, ui, "idle")
        /\ ui.handle["idle"] # NoTimer
    BY <1>0, <1>4, <1>6, ForgottenSound
  <2> HIDE DEF t
  <2>3. t.handle["render"] = ui.handle["render"] /\ t.handle["hide"] = ui.handle["hide"]
    BY <2>2, HandlesAre DEF OtherHandles
  <2>4. ~t.idle /\ (t.mpv => ~t.paused /\ t.handle["render"] # NoTimer) /\ Tucked(t)
    BY <1>0, <2>2, <2>3 DEF Sound, Watched, Tucked, SameFace
  <2>5. Handled(EnterIdle(t), t, {}) /\ EnterIdle(t).revealed = t.revealed
    BY <2>2, <2>4, EnterIdleSound
  <2>6. Effect
    BY <1>0, <1>3, <2>1, <2>2, <2>5, HandledEffect DEF Handled, SameFace
  <2> QED
    BY <1>2, <2>6, EffectInv
<1>7. CASE what = "hide"
  <2> DEFINE t == [RemoveTimer(ui, fd) EXCEPT !.handle["hide"] = NoTimer]
  <2>1. ui' = IF password = "" THEN Collapse(t) ELSE t
    BY <1>1, <1>7 DEF OneShot
  <2>2. /\ t \in Screen /\ Owns(t, {}) /\ SameFace(t, ui)
        /\ t.handle["hide"] = NoTimer /\ OtherHandles(t, ui, "hide")
    BY <1>0, <1>4, <1>7, ForgottenSound
  <2> HIDE DEF t
  <2>3. t.handle["render"] = ui.handle["render"] /\ t.handle["idle"] = ui.handle["idle"]
    BY <2>2, HandlesAre DEF OtherHandles
  <2>4. Watched(t) /\ Tucked(t)
    BY <1>0, <2>2, <2>3 DEF Sound, Watched, Tucked, SameFace
  <2>5. Handled(Collapse(t), t, {}) /\ Handled(t, t, {})
    BY <2>2, <2>4, CollapseSound DEF Handled, Sound
  <2>6. password' = password
    BY <1>1 DEF loginVars
  <2>7. /\ Sound(ui', {}) /\ (ui'.asked = ui.asked \/ ui'.asked = Nothing)
        /\ password = "" \/ ui'.revealed = ui.revealed
    BY <2>1, <2>2, <2>5 DEF Handled, SameFace
  <2>8. GateStep
    BY <1>3, <2>7, QuestionGivenUp
  <2>9. Effect
    BY <1>0, <1>3, <2>6, <2>7, <2>8
       DEF Effect, Types, UiInv, PamTypeOK, LoginTypeOK, pamVars, loginVars
  <2> QED
    BY <1>2, <2>9, EffectInv
<1> QED
  BY <1>5, <1>6, <1>7 DEF Handles

LEMMA RepeatOnSound ==
    ASSUME NEW s, Sound(s, {} \cup {"repeat"})
    PROVE  LET t == KeyPressed(s, s.repeatKey) IN
           /\ Sound(RepeatOn(s), {})
           /\ RepeatOn(s).asked = t.asked /\ RepeatOn(s).revealed = t.revealed
<1> DEFINE t == KeyPressed(s, s.repeatKey)
           u == [AddTimer(t, "repeat") EXCEPT !.handle["repeat"] = NewFd(t)]
<1>1. Handled(t, s, {} \cup {"repeat"})
  BY KeyPressedSound
<1>2. RepeatOn(s) = u
  BY DEF RepeatOn
<1>3. t \in Screen /\ Owns(t, {} \cup {"repeat"}) /\ Watched(t) /\ Tucked(t)
  BY <1>1 DEF Handled, Sound
<1> HIDE DEF t
<1>4. "repeat" \in Handles \ {} /\ "repeat" \in Timers /\ HandleOf("repeat") = "repeat"
  BY HandlesAre
<1>5. /\ u \in Screen /\ Owns(u, {}) /\ SameFace(u, t) /\ OtherHandles(u, t, "repeat")
  BY <1>3, <1>4, OpenSound
<1> HIDE DEF u
<1>6. /\ u.handle["idle"] = t.handle["idle"] /\ u.handle["hide"] = t.handle["hide"]
      /\ u.handle["render"] = t.handle["render"]
  BY <1>5, HandlesAre DEF OtherHandles
<1>7. Watched(u) /\ Tucked(u)
  BY <1>3, <1>5, <1>6 DEF Watched, Tucked, SameFace
<1> QED
  BY <1>2, <1>5, <1>7 DEF Sound, SameFace, t

LEMMA VisitRepeatSound ==
    ASSUME Inv, VisitRepeat
    PROVE  Inv' /\ GateStep
<1>0. Types /\ UiInv /\ LoopInv /\ Sound(ui, {})
  BY DEF Inv, UiInv
<1>1. PICK fd \in ready \cap DOMAIN ui.timers :
        /\ inputs' = inputs + 1
        /\ Visiting(fd)
        /\ Visited
        /\ \/ ui.timers[fd] = "delay" /\ ui' = RepeatOn(RemoveTimer(ui, fd))
           \/ /\ ui.timers[fd] = "repeat"
              /\ ui' = KeyPressed([ui EXCEPT !.expired = @ \ {fd}], ui.repeatKey)
        /\ KeyTyped(ui, ui.repeatKey)
        /\ UNCHANGED <<running, batch>>
  BY DEF VisitRepeat
<1> DEFINE k == ui.repeatKey
<1>t. KeyTyped(ui, k) /\ inputs' \in Nat
  BY <1>0, <1>1 DEF Types
<1> HIDE DEF k
<1>2. ASSUME NEW s, NEW H, Sound(s, H), H \subseteq {"repeat"},
             s.asked = ui.asked, s.revealed = ui.revealed,
             ui'.asked = KeyPressed(s, k).asked, ui'.revealed = KeyPressed(s, k).revealed,
             Sound(ui', {})
      PROVE  Effect
  <2>1. /\ PamTypeOK' /\ LoginTypeOK' /\ posted' = posted
        /\ ~ui'.revealed => password' = ""
        /\ done' \in Seq(Actions) /\ GateStep
    BY <1>0, <1>t, <1>2, KeySound
  <2> QED
    BY <1>t, <1>2, <2>1 DEF Effect, Types, UiInv
<1>3. ASSUME ui.timers[fd] = "delay" PROVE Effect
  <2> DEFINE s == RemoveTimer(ui, fd)
  <2>1. /\ s \in Screen /\ Owns(s, {} \cup {"repeat"})
        /\ s.handle = ui.handle /\ SameFace(s, ui)
    BY <1>0, <1>1, <1>3, FiredSound, HandlesAre
  <2>2. ui' = RepeatOn(s)
    BY <1>1, <1>3
  <2> HIDE DEF s
  <2>3. Sound(s, {} \cup {"repeat"}) /\ s.repeatKey = k
    BY <1>0, <2>1 DEF Sound, Watched, Tucked, SameFace, k
  <2>4. /\ Sound(ui', {}) /\ ui'.asked = KeyPressed(s, k).asked
        /\ ui'.revealed = KeyPressed(s, k).revealed
    BY <2>2, <2>3, RepeatOnSound
  <2>5. s.asked = ui.asked /\ s.revealed = ui.revealed /\ {} \cup {"repeat"} \subseteq {"repeat"}
    BY <2>1 DEF SameFace
  <2> QED
    BY <1>2, <2>3, <2>4, <2>5
<1>4. ASSUME ui.timers[fd] = "repeat" PROVE Effect
  <2> DEFINE s == [ui EXCEPT !.expired = ui.expired \ {fd}]
  <2>1. ui.expired \ {fd} \in SUBSET DOMAIN ui.timers
    BY <1>0 DEF Sound, Owns
  <2>2. Sound(s, {}) /\ s.revealed = ui.revealed /\ s.asked = ui.asked
    BY <1>0, <2>1, ExpiredSound
  <2>3. ui' = KeyPressed(s, k)
    BY <1>1, <1>4 DEF k
  <2> HIDE DEF s
  <2>4. Sound(ui', {}) /\ {} \subseteq {"repeat"}
    BY <2>2, <2>3, KeyPressedSound DEF Handled
  <2>5. ui'.asked = KeyPressed(s, k).asked /\ ui'.revealed = KeyPressed(s, k).revealed
    BY <2>3
  <2> QED
    BY <1>2, <2>2, <2>4, <2>5
<1>5. Effect
  BY <1>1, <1>3, <1>4
<1>6. LoopInv'
  BY <1>0, <1>1, <1>5, VisitedLoop DEF Effect
<1> QED
  BY <1>5, <1>6, EffectInv

\* Steps that leave the screen and the secret alone.
LEMMA LoopOnly ==
    ASSUME Inv, PamTypeOK', LoginTypeOK', UNCHANGED <<ui, done, inputs, password>>, LoopInv'
    PROVE  Inv' /\ GateStep
  BY QuestionGivenUp DEF Inv, Types, UiInv

LEMMA VisitStaleSound ==
    ASSUME Inv, VisitStale
    PROVE  Inv' /\ GateStep
<1>1. /\ UNCHANGED <<pamVars, loginVars, screenVars>> /\ UNCHANGED <<running, batch, posted>>
      /\ \E fd : Visiting(fd) /\ Visited
  BY DEF VisitStale, VisitClosed, screenVars, pamVars
<1>2. LoopInv'
  BY <1>1, VisitedLoop DEF Inv
<1>3. PamTypeOK' /\ LoginTypeOK' /\ UNCHANGED <<ui, done, inputs, password>>
  BY <1>1 DEF Inv, Types, PamTypeOK, LoginTypeOK, pamVars, loginVars, screenVars
<1> QED
  BY <1>2, <1>3, LoopOnly

LEMMA VisitWakeSound ==
    ASSUME Inv, VisitWake
    PROVE  Inv' /\ GateStep
<1>1. /\ phase' = "results" /\ batch' = posted /\ posted' = <<>> /\ ready' = ready \ {WakeFd}
      /\ running' = running /\ posted # <<>>
  BY DEF VisitWake, Visiting, Inv, LoopInv, LoopShape
<1>2. posted \in Seq(Results) /\ <<>> \in Seq(Results)
  BY DEF Inv, Types, PamTypeOK
<1>3. PamTypeOK' /\ LoginTypeOK' /\ UNCHANGED <<ui, done, inputs, password>>
  BY <1>1, <1>2 DEF VisitWake, Inv, Types, PamTypeOK, LoginTypeOK, loginVars
<1>4. LoopInv'
  BY <1>1, <1>2 DEF Inv, LoopInv, EventLoopTypeOK, LoopShape
<1> QED
  BY <1>3, <1>4, LoopOnly

LEMMA OnAuthResultTyped ==
    ASSUME LoginTypeOK, NEW result, OnAuthResult(result)
    PROVE  LoginTypeOK' /\ (password' = password \/ password' = "")
<1>0. handled' = handled + 1
  BY Zenon DEF OnAuthResult
<1>1. handled \in Nat /\ password \in Passwords
  BY Zenon DEF LoginTypeOK
<1>4. "" \in Passwords
  BY Zenon DEF Passwords
<1>5. handled' \in Nat
  BY <1>0, <1>1
<1>2. password' = password \/ password' = ""
  BY Zenon DEF OnAuthResult
<1>3. status' \in {"unlocking", "failed", "error"}
  BY Zenon DEF OnAuthResult
<1> QED
  BY <1>1, <1>2, <1>3, <1>4, <1>5 DEF LoginTypeOK, Statuses

LEMMA ResultDoneLoop ==
    ASSUME LoopInv, phase \in {"results", "roundtrip"}, ResultDone,
           batch' \in Seq(Results), running' \in BOOLEAN, UNCHANGED <<ready, posted>>
    PROVE  LoopInv'
  BY DEF LoopInv, EventLoopTypeOK, LoopShape, ResultDone

LEMMA RunResultSound ==
    ASSUME Inv, RunResult
    PROVE  Inv' /\ GateStep
<1>0. Types /\ UiInv /\ LoopInv
  BY DEF Inv
<1>1. /\ phase = "results" /\ OnAuthResult(Head(batch)) /\ ui' = Invalidate(ui)
      /\ batch' = Tail(batch) /\ UNCHANGED <<pamVars, ready, running, done, inputs>>
      /\ ResultDone
  BY DEF RunResult
<1>2. batch # <<>> /\ batch' \in Seq(Results)
  BY <1>0, <1>1 DEF LoopInv, LoopShape
<1>3. LoopInv'
  BY <1>0, <1>1, <1>2, ResultDoneLoop DEF pamVars, LoopInv, EventLoopTypeOK
<1>4. Handled(Invalidate(ui), ui, {}) /\ Invalidate(ui).revealed = ui.revealed
  BY <1>0, InvalidateHandled DEF UiInv
<1>5. LoginTypeOK' /\ (password' = password \/ password' = "")
  BY <1>0, <1>1, OnAuthResultTyped DEF Types
<1>6. PamTypeOK' /\ posted' = posted
  BY <1>0, <1>1 DEF Types, PamTypeOK, pamVars
<1>7. GateStep
  BY <1>1, <1>4, QuestionGivenUp DEF Handled
<1>8. Effect
  BY <1>0, <1>1, <1>4, <1>5, <1>6, <1>7 DEF Effect, Types, UiInv, Handled
<1> QED
  BY <1>3, <1>8, EffectInv

LEMMA RunSuccessSound ==
    ASSUME Inv, RunSuccess
    PROVE  Inv' /\ GateStep
<1>0. Types /\ UiInv /\ LoopInv
  BY DEF Inv
<1>1. /\ phase = "results" /\ OnAuthResult(Head(batch)) /\ Head(batch).verdict = "Success"
      /\ batch' = Tail(batch) /\ phase' = "roundtrip"
      /\ UNCHANGED <<pamVars, ready, running, ui, done, inputs>>
  BY DEF RunSuccess
<1>2. batch # <<>> /\ batch' \in Seq(Results)
  BY <1>0, <1>1 DEF LoopInv, LoopShape
<1>3. LoopInv'
  BY <1>0, <1>1, <1>2 DEF pamVars, LoopInv, EventLoopTypeOK, LoopShape
<1>4. LoginTypeOK' /\ password' = password
  BY <1>0, <1>1, OnAuthResultTyped DEF Types, OnAuthResult
<1>5. PamTypeOK'
  BY <1>0, <1>1 DEF Types, PamTypeOK, pamVars
<1> QED
  BY <1>1, <1>3, <1>4, <1>5, LoopOnly

LEMMA RoundtripEventSound ==
    ASSUME Inv, RoundtripEvent
    PROVE  Inv' /\ GateStep
<1>1. Effect
  BY InputEffect, InputEndEffect, FrameEffect DEF RoundtripEvent, Inv
<1>2. LoopInv'
  BY <1>1 DEF RoundtripEvent, Inv, LoopInv, EventLoopTypeOK, LoopShape, eventLoopVars, Effect
<1> QED
  BY <1>1, <1>2, EffectInv

LEMMA RoundtripDoneSound ==
    ASSUME Inv, RoundtripDone
    PROVE  Inv' /\ GateStep
<1>0. Types /\ UiInv /\ LoopInv
  BY DEF Inv
<1>1. /\ phase = "roundtrip" /\ running' = FALSE /\ ui' = Invalidate(ui)
      /\ UNCHANGED <<pamVars, loginVars, ready, batch, done, inputs>> /\ ResultDone
  BY DEF RoundtripDone
<1>2. LoopInv'
  <2>1. running' \in BOOLEAN /\ batch' \in Seq(Results) /\ UNCHANGED <<ready, posted>>
    BY <1>0, <1>1 DEF LoopInv, pamVars
  <2> QED
    BY <1>0, <1>1, <2>1, ResultDoneLoop
<1>3. Handled(Invalidate(ui), ui, {}) /\ Invalidate(ui).revealed = ui.revealed
  BY <1>0, InvalidateHandled DEF UiInv
<1>4. Effect
  BY <1>0, <1>1, <1>3, HandledEffect DEF Handled, Types
<1> QED
  BY <1>2, <1>4, EffectInv

LEMMA DrainSound ==
    ASSUME Inv, Drain
    PROVE  Inv' /\ GateStep
<1>0. Types /\ UiInv /\ LoopInv
  BY DEF Inv
<1>1. Redrawn(ui', ui)
  BY <1>0, FlagsRedraw DEF Drain, UiInv, Sound
<1>2. Handled(ui', ui, {}) /\ ui'.revealed = ui.revealed
  BY <1>0, <1>1, RedrawnHandled DEF UiInv
<1>3. Effect
  BY <1>0, <1>2, HandledEffect DEF Drain, Types, Handled
<1>4. LoopInv'
  BY <1>0, <1>3 DEF Drain, LoopInv, EventLoopTypeOK, LoopShape, eventLoopVars, Effect
<1> QED
  BY <1>3, <1>4, EffectInv

LEMMA WorkerSound ==
    ASSUME Inv, Worker
    PROVE  Inv' /\ GateStep
<1>0. PamTypeOK /\ LoginTypeOK /\ LoopInv
  BY DEF Inv, Types
<1>1. UNCHANGED <<loginVars, eventLoopVars, screenVars>>
  BY DEF Worker
<1>2. PamTypeOK' /\ (posted # <<>> => posted' # <<>>)
  <2>1. CASE WorkerPosts
    <3>1. PICK v \in PamAnswers(secret) :
             /\ posted' = Append(posted, [id |-> attempts, verdict |-> v])
             /\ passed' = (passed \/ v = "Success")
      BY <2>1 DEF WorkerPosts
    <3>2. [id |-> attempts, verdict |-> v] \in Results
      BY <1>0 DEF PamTypeOK, Results, PamAnswers, Verdicts
    <3>3. posted' \in Seq(Results) /\ posted' # <<>>
      BY <1>0, <3>1, <3>2, AppendProperties DEF PamTypeOK
    <3>4. passed' \in BOOLEAN /\ busy' \in BOOLEAN
      BY <1>0, <2>1, <3>1, Zenon DEF PamTypeOK, WorkerPosts
    <3>5. /\ attempts' \in Nat /\ secret' \in Passwords
          /\ worker' \in {"none", "authenticating", "posted", "finished"}
      BY <1>0, <2>1 DEF PamTypeOK, WorkerPosts, Passwords
    <3> QED
      BY <3>3, <3>4, <3>5 DEF PamTypeOK
  <2>2. CASE WorkerEnds
    <3>1. busy' \in BOOLEAN /\ passed' \in BOOLEAN /\ posted' = posted
      BY <1>0, <2>2, Zenon DEF PamTypeOK, WorkerEnds
    <3> QED
      BY <1>0, <2>2, <3>1 DEF PamTypeOK, WorkerEnds
  <2> QED
    BY <2>1, <2>2 DEF Worker
<1>3. LoginTypeOK' /\ UNCHANGED <<ui, done, inputs, password>>
  BY <1>0, <1>1 DEF LoginTypeOK, loginVars, screenVars
<1>4. LoopInv'
  BY <1>0, <1>1, <1>2 DEF LoopInv, EventLoopTypeOK, LoopShape, eventLoopVars, screenVars
<1> QED
  BY <1>2, <1>3, <1>4, LoopOnly

LEMMA InvStep == Inv /\ [Next]_vars => Inv' /\ GateStep
<1> SUFFICES ASSUME Inv, [Next]_vars PROVE Inv' /\ GateStep
  OBVIOUS
<1>1. CASE UNCHANGED vars
  <2>1. PamTypeOK' /\ LoginTypeOK' /\ UNCHANGED <<ui, done, inputs, password>>
    BY <1>1 DEF Inv, Types, PamTypeOK, LoginTypeOK, vars, pamVars, loginVars, screenVars
  <2>2. LoopInv'
    BY <1>1 DEF Inv, LoopInv, EventLoopTypeOK, LoopShape, vars, pamVars, eventLoopVars, screenVars
  <2> QED
    BY <2>1, <2>2, LoopOnly
<1>2. CASE Visit
  <2>1. CASE VisitWayland \/ VisitFrame
    BY <2>1, VisitWaylandSound
  <2>2. CASE VisitWake \/ VisitStale \/ VisitRepeat
    BY <2>2, VisitWakeSound, VisitStaleSound, VisitRepeatSound
  <2>3. CASE \E what \in Handles \ {"repeat"} : VisitTimer(what)
    BY <2>3, VisitTimerSound
  <2> QED
    BY <1>2, <2>1, <2>2, <2>3 DEF Visit
<1> QED
  BY <1>1, <1>2, EpollWaitSound, RunResultSound, RunSuccessSound, RoundtripEventSound,
     RoundtripDoneSound, DrainSound, WorkerSound DEF Next, Stopped

-----------------------------------------------------------------------------
\* The start: the clock's and the idle timer armed, and the video's if there is mpv.

LEMMA FirstTimer ==
    ASSUME NEW s \in Screen, NEW h \in Handles, Owns(s, {})
    PROVE  /\ Arm(s, h, h) \in Screen /\ Owns(Arm(s, h, h), {}) /\ SameFace(Arm(s, h, h), s)
           /\ Arm(s, h, h).handle[h] # NoTimer /\ OtherHandles(Arm(s, h, h), s, h)
  BY ArmSound, HandlesAre

LEMMA StartSound ==
    ASSUME Init
    PROVE  Sound(ui, {}) /\ ui.asked = Nothing
<1>1. PICK mpv \in BOOLEAN :
          ui = LET s == [timers |-> <<>>, expired |-> {},
                         handle |-> [h \in Handles |-> NoTimer],
                         revealed |-> FALSE, expanded |-> FALSE, idle |-> FALSE,
                         mpv |-> mpv, paused |-> FALSE, repeatKey |-> Nothing,
                         asked |-> Nothing, drained |-> FALSE,
                         framePending |-> TRUE, dirty |-> FALSE]
                   t == Arm(Arm(s, "clock", "clock"), "idle", "idle") IN
               IF mpv THEN Arm(t, "render", "render") ELSE t
  BY Zenon DEF Init
<1> DEFINE none == [h \in Handles |-> NoTimer]
           s == [timers |-> <<>>, expired |-> {}, handle |-> none,
                 revealed |-> FALSE, expanded |-> FALSE, idle |-> FALSE,
                 mpv |-> mpv, paused |-> FALSE, repeatKey |-> Nothing,
                 asked |-> Nothing, drained |-> FALSE,
                 framePending |-> TRUE, dirty |-> FALSE]
           c == Arm(s, "clock", "clock")
           t == Arm(c, "idle", "idle")
           r == Arm(t, "render", "render")
<1>2. ui = IF mpv THEN r ELSE t
  BY <1>1, Zenon
<1>3. <<>> \in TimerMaps /\ DOMAIN <<>> = {}
  <2>1. <<>> \in [{} -> Timers] /\ {} \in SUBSET Fds
    OBVIOUS
  <2> QED
    BY <2>1 DEF TimerMaps
<1>4. none \in [Handles -> Fds \cup {NoTimer}] /\ \A h \in Handles : none[h] = NoTimer
  OBVIOUS
<1> HIDE DEF none
<1>5. /\ s \in Screen /\ s.timers = <<>> /\ s.expired = {} /\ s.handle = none
      /\ s.revealed = FALSE /\ s.expanded = FALSE /\ s.idle = FALSE /\ s.paused = FALSE
      /\ s.mpv = mpv /\ s.asked = Nothing
  BY <1>3, <1>4 DEF Screen
<1> HIDE DEF s
<1>6. Owns(s, {})
  BY <1>3, <1>4, <1>5 DEF Owns
<1>7. /\ c \in Screen /\ Owns(c, {}) /\ SameFace(c, s) /\ OtherHandles(c, s, "clock")
  BY <1>5, <1>6, FirstTimer, HandlesAre
<1> HIDE DEF c
<1>8. /\ t \in Screen /\ Owns(t, {}) /\ SameFace(t, c) /\ OtherHandles(t, c, "idle")
      /\ t.handle["idle"] # NoTimer
  BY <1>7, FirstTimer, HandlesAre
<1> HIDE DEF t
<1>9. /\ r \in Screen /\ Owns(r, {}) /\ SameFace(r, t) /\ OtherHandles(r, t, "render")
      /\ r.handle["render"] # NoTimer
  BY <1>8, FirstTimer, HandlesAre
<1> HIDE DEF r
<1>10. /\ t.handle["hide"] = NoTimer /\ r.handle["hide"] = NoTimer
       /\ r.handle["idle"] # NoTimer
  BY <1>4, <1>5, <1>7, <1>8, <1>9, HandlesAre DEF OtherHandles
<1>11. \A x \in {t, r} : /\ x.revealed = FALSE /\ x.expanded = FALSE /\ x.idle = FALSE
                         /\ x.paused = FALSE /\ x.mpv = mpv /\ x.asked = Nothing
  BY <1>5, <1>7, <1>8, <1>9 DEF SameFace
<1>12. CASE mpv
  <2>1. Watched(r) /\ Tucked(r)
    BY <1>9, <1>10, <1>11 DEF Watched, Tucked
  <2> QED
    BY <1>2, <1>9, <1>11, <1>12, <2>1 DEF Sound
<1>13. CASE ~mpv
  <2>1. Watched(t) /\ Tucked(t)
    BY <1>8, <1>10, <1>11, <1>13 DEF Watched, Tucked
  <2> QED
    BY <1>2, <1>8, <1>11, <1>13, <2>1 DEF Sound
<1> QED
  BY <1>12, <1>13

LEMMA InvInit == Init => Inv /\ Gate!Init
<1> SUFFICES ASSUME Init PROVE Inv /\ Gate!Init
  OBVIOUS
<1>1. Sound(ui, {}) /\ ui.asked = Nothing
  BY StartSound
<1>2. /\ busy \in BOOLEAN /\ passed \in BOOLEAN /\ running \in BOOLEAN
  BY Zenon DEF Init, PamInit, EventLoopInit
<1>3. /\ password = "" /\ done = <<>> /\ batch = <<>> /\ posted = <<>> /\ inputs = 0
      /\ phase = "wait" /\ ready = {}
  BY DEF Init, PamInit, LoginInit, EventLoopInit
<1>7. <<>> \in Seq(Results) /\ <<>> \in Seq(Actions)
  OBVIOUS
<1>4. /\ posted \in Seq(Results) /\ batch \in Seq(Results) /\ done \in Seq(Actions)
  BY <1>3, <1>7, Zenon
<1>5. PamTypeOK /\ LoginTypeOK
  BY <1>2, <1>4 DEF Init, PamInit, LoginInit, PamTypeOK, LoginTypeOK, Passwords, Statuses
<1>6. LoopInv
  BY <1>2, <1>3, <1>4 DEF LoopInv, EventLoopTypeOK, LoopShape
<1> QED
  BY <1>1, <1>3, <1>4, <1>5, <1>6 DEF Inv, Types, UiInv, Gate!Init

LEMMA InvGives ==
    ASSUME Inv
    PROVE  TypeOK /\ HandlesOwnTimers /\ HiddenHoldsNothing /\ IdleOrCounting
<1>1. ui \in Screen /\ Owns(ui, {}) /\ Watched(ui) /\ Tucked(ui)
  BY DEF Inv, UiInv, Sound
<1>2. HandlesOwnTimers
  BY <1>1 DEF Owns, HandlesOwnTimers
<1>3. HiddenHoldsNothing /\ IdleOrCounting
  BY <1>1 DEF Inv, UiInv, Watched, Tucked, HiddenHoldsNothing, IdleOrCounting
<1>4. /\ DOMAIN ui.timers \subseteq Fds
      /\ ui.timers \in [DOMAIN ui.timers -> Timers]
      /\ ui.expired \subseteq DOMAIN ui.timers
  BY <1>1 DEF Screen, TimerMaps, Owns
<1>5. /\ ui.handle \in [Handles -> Fds \cup {NoTimer}]
      /\ ui.revealed \in BOOLEAN /\ ui.expanded \in BOOLEAN /\ ui.idle \in BOOLEAN
      /\ ui.mpv \in BOOLEAN /\ ui.paused \in BOOLEAN
      /\ ui.repeatKey \in Keys \cup {Nothing}
      /\ ui.asked \in Actions \cup {Nothing}
      /\ ui.drained \in BOOLEAN
      /\ ui.framePending \in BOOLEAN /\ ui.dirty \in BOOLEAN
  BY <1>1 DEF Screen
<1>6. TypeOK
  BY <1>4, <1>5, Zenon DEF TypeOK, Inv, Types, LoopInv
<1> QED
  BY <1>2, <1>3, <1>6

-----------------------------------------------------------------------------

\* The screen's members, the timers and the loop keep their types, and there is always a
\* descriptor for a timer, through any inputs, repeats, expiries and results.
THEOREM TypeCorrect == Spec => []TypeOK
  BY InvInit, InvStep, InvGives, PTL DEF Spec

\* Every handle names the timer armed through it or none, and every timer has its handle,
\* though numbers of closed timers are given out again and stale events reach new timers.
THEOREM HandlesCorrect == Spec => []HandlesOwnTimers
  BY InvInit, InvStep, InvGives, PTL DEF Spec

\* A hidden screen holds no password, no open pill and no hide timer.
THEOREM HiddenCorrect == Spec => []HiddenHoldsNothing
  BY InvInit, InvStep, InvGives, PTL DEF Spec

\* The screen is idle or counts down to it, and the video is paused exactly when idle.
THEOREM IdleCorrect == Spec => []IdleOrCounting
  BY InvInit, InvStep, InvGives, PTL DEF Spec

\* The popover, with the keys, clicks, repeats and frames that reach it, implements
\* PowerGate: an action runs once, from a popover that asked about it.
THEOREM PowerGateCorrect == Spec => PowerGateHolds
<1>1. GateStep => [Gate!Next]_<<ui.asked, done>>
  BY DEF GateStep
<1> QED
  BY <1>1, InvInit, InvStep, PTL DEF Spec, PowerGateHolds, Gate!Spec

=============================================================================
