----------------------------- MODULE LockScreen -----------------------------
(***************************************************************************)
(* ui/LockScreen with what its state is tied to: the reveal, hide and idle *)
(* timers, the power pill and ui/PowerDialog, video/VideoPlayer's pause,   *)
(* wayland/Seat's key repeat, and the repaint throttle of wayland/Output   *)
(* (one output, already configured).  Login has the secret.                *)
(*                                                                         *)
(* A member function is an operator from the state before to the state     *)
(* after, on the record ui; the actions are the event loop's callbacks.    *)
(***************************************************************************)
EXTENDS Login, EventLoop

CONSTANTS
    Actions,    \* the power buttons
    Keys,       \* kinds of key the user presses, of "text", "back", "clear", ...
    Repeating,  \* those that repeat while held
    MaxInputs   \* bound: key and pointer events, repeated ones included

ASSUME KeysAssumption ==
    Repeating \subseteq Keys /\ Keys \subseteq {"text", "back", "clear", "enter", "escape", "other"}
ASSUME MaxInputsAssumption == MaxInputs \in Nat

VARIABLES
    ui,         \* the members below
    batch,      \* results dispatchPosted() has still to run
    done,       \* history: power actions run
    inputs      \* input events so far

screenVars == <<ui, batch, done, inputs>>
vars == <<pamVars, loginVars, eventLoopVars, screenVars>>

Nothing == "nothing"
Handles == {"clock", "idle", "hide", "render", "repeat"}

\* A process may have more descriptors than there are timers at a time.
ASSUME FdsSuffice == Cardinality(Fds) > Cardinality(Handles)

\* The handle a timer is kept in.  Key repeat uses two timers in turn.
Timers == Handles \cup {"delay"}
HandleOf(what) == IF what = "delay" THEN "repeat" ELSE what
OneShot == {"idle", "hide", "delay"}

TypeOK ==
    /\ PamTypeOK /\ LoginTypeOK /\ EventLoopTypeOK
    /\ DOMAIN ui.timers \subseteq Fds
    /\ ui.timers \in [DOMAIN ui.timers -> Timers]
    /\ ui.expired \subseteq DOMAIN ui.timers
    /\ ui.handle \in [Handles -> Fds \cup {NoTimer}]        \* idleTimer_, hideTimer_, ...
    /\ ui.revealed \in BOOLEAN /\ ui.expanded \in BOOLEAN /\ ui.idle \in BOOLEAN
    /\ ui.mpv \in BOOLEAN /\ ui.paused \in BOOLEAN          \* VideoPlayer
    /\ ui.repeatKey \in Keys \cup {Nothing}                 \* Seat
    /\ ui.asked \in Actions \cup {Nothing}                  \* PowerDialog, when active
    /\ ui.drained \in BOOLEAN                               \* its countdown has run out
    /\ ui.framePending \in BOOLEAN /\ ui.dirty \in BOOLEAN  \* Output
    /\ batch \in Seq(Results)
    /\ done \in Seq(Actions)
    /\ inputs \in Nat

-----------------------------------------------------------------------------
\* Output: a repaint now, or with the next frame callback.

\* PowerDialog::dismiss
Dismiss(s) == [s EXCEPT !.asked = Nothing]

\* MUTANT of DrawDialog: the countdown is drawn, its end is not looked at.
DrawDialogOnly(s) == s

\* PowerDialog::draw, which is where its countdown is looked at.
DrawDialog(s) == IF s.drained THEN [Dismiss(s) EXCEPT !.drained = FALSE] ELSE s

\* LockScreen::draw
Draw(s) == IF s.asked # Nothing THEN DrawDialog(s) ELSE s

Render(s) == [Draw(s) EXCEPT !.framePending = TRUE, !.dirty = FALSE]

Invalidate(s) == IF s.framePending THEN [s EXCEPT !.dirty = TRUE] ELSE Render(s)

\* onFrame.  Whether something is animating depends on the time.
OnFrame(s, animating) ==
    LET free == [s EXCEPT !.framePending = FALSE] IN
    IF s.dirty \/ animating THEN Render(free) ELSE free

-----------------------------------------------------------------------------
\* Timers and their handles.

\* removeTimer if the handle names one, then addTimer.
Arm(s, h, what) ==
    LET freed == RemoveTimer(s, s.handle[h]) IN
    [AddTimer(freed, what) EXCEPT !.handle[h] = NewFd(freed)]

Disarm(s, h) == [RemoveTimer(s, s.handle[h]) EXCEPT !.handle[h] = NoTimer]

\* VideoPlayer::pause and resume, which do nothing without mpv.
Pause(s) == IF ~s.mpv \/ s.paused THEN s ELSE Disarm([s EXCEPT !.paused = TRUE], "render")
Resume(s) ==
    IF ~s.mpv \/ ~s.paused THEN s
    ELSE LET going == [s EXCEPT !.paused = FALSE] IN
         IF s.handle["render"] = NoTimer THEN Arm(going, "render", "render") ELSE going

-----------------------------------------------------------------------------
\* LockScreen's reveal state machine and power pill.

\* MUTANT of Reveal: the idle countdown starts only once, not at each input.
RevealOnce(s) ==
    LET awake == IF s.idle THEN Resume([s EXCEPT !.idle = FALSE]) ELSE s IN
    Invalidate(Arm([awake EXCEPT !.revealed = TRUE], "hide", "hide"))

Reveal(s) ==
    LET awake == IF s.idle THEN Resume([s EXCEPT !.idle = FALSE]) ELSE s
        counting == Arm(awake, "idle", "idle") IN
    Invalidate(Arm([counting EXCEPT !.revealed = TRUE], "hide", "hide"))

EnterIdle(s) == IF s.idle THEN s ELSE Invalidate(Pause([s EXCEPT !.idle = TRUE]))

ExpandPower(s) == IF s.expanded THEN s ELSE Invalidate([s EXCEPT !.expanded = TRUE])
CollapsePower(s) == IF s.expanded THEN Invalidate([s EXCEPT !.expanded = FALSE]) ELSE s

\* MUTANT of Collapse: the hide timer runs on.
CollapseKeepsTimer(s) == Invalidate(CollapsePower([s EXCEPT !.revealed = FALSE]))

Collapse(s) == Invalidate(Disarm(CollapsePower([s EXCEPT !.revealed = FALSE]), "hide"))

\* PowerDialog::show, with its countdown full, over a pill that collapses.
ShowPowerConfirm(s, action) ==
    Invalidate(CollapsePower([s EXCEPT !.asked = action, !.drained = FALSE]))

-----------------------------------------------------------------------------
\* Keyboard.  s is ui, or what a callback has made of it so far.

\* What onTextInput and onSpecialKey do to the screen ...
KeyPressed(s, k) ==
    IF s.asked # Nothing
    THEN IF k \in {"enter", "escape"} THEN Invalidate(Dismiss(s)) ELSE s
    ELSE IF k = "escape" THEN Collapse(s)
    ELSE IF k = "enter" THEN IF password = "" \/ busy THEN s ELSE Invalidate(s)
    ELSE Reveal(s)

\* ... to the secret, and to the machine.
KeyTyped(s, k) ==
    /\ \/ (s.asked # Nothing \/ k = "other") /\ UNCHANGED <<pamVars, loginVars>>
       \/ /\ s.asked = Nothing
          /\ \/ k = "text" /\ TypeText /\ UNCHANGED pamVars
             \/ k = "back" /\ PopBack /\ UNCHANGED pamVars
             \/ k \in {"clear", "escape"} /\ ClearPassword /\ UNCHANGED pamVars
             \/ k = "enter" /\ SubmitPassword
    /\ done' = IF s.asked # Nothing /\ k = "enter" THEN Append(done, s.asked) ELSE done

\* Seat::startRepeat; repeat_info's rate is taken to be positive.
StartRepeat(s, k) == [Arm(s, "repeat", "delay") EXCEPT !.repeatKey = k]
StopRepeat(s) == [Disarm(s, "repeat") EXCEPT !.repeatKey = Nothing]

\* Seat::onKey, a press: the key is handled before its repeat is armed.
KeyDown(k) ==
    /\ KeyTyped(ui, k)
    /\ ui' = LET s == KeyPressed(ui, k) IN IF k \in Repeating THEN StartRepeat(s, k) ELSE s

\* A release of the repeating key, or the keyboard leaving.
KeyUp == ui' = StopRepeat(ui)

-----------------------------------------------------------------------------
\* Pointer.

PointerMotion == ui' = IF ui.asked # Nothing THEN Invalidate(ui) ELSE Invalidate(Reveal(ui))

PointerLeave == ui' = Invalidate(ui)

\* MUTANT of DialogPress: confirm() without its dismiss.
DialogPressStays(place) ==
    /\ ui' = Invalidate(IF place = "inside" \/ place = "confirm" THEN ui ELSE Dismiss(ui))
    /\ done' = IF place = "confirm" THEN Append(done, ui.asked) ELSE done

\* While the popover is up it takes the press: its buttons, the card, or the outside.
DialogPress(place) ==
    /\ ui' = Invalidate(IF place = "inside" THEN ui ELSE Dismiss(ui))
    /\ done' = IF place = "confirm" THEN Append(done, ui.asked) ELSE done

\* Otherwise it reveals, and only on a revealed screen does it also click: a notification
\* card or the audio panel, which take it, a power button or the anchor.
ScreenPress(place) ==
    /\ done' = done
    /\ LET shown == Reveal(ui)
           clicks == ui.revealed /\ (place \in Actions => ui.expanded) IN
       ui' = IF place = "panel" THEN Invalidate(shown)
             ELSE IF ~clicks \/ place = "elsewhere" THEN shown
             ELSE IF place \in Actions THEN ShowPowerConfirm(shown, place)
             ELSE LET again == Reveal(shown) IN
                  IF again.expanded THEN CollapsePower(again) ELSE ExpandPower(again)

PointerPress ==
    \/ /\ ui.asked # Nothing
       /\ \E place \in {"confirm", "cancel", "inside", "outside"} : DialogPress(place)
    \/ /\ ui.asked = Nothing
       /\ \E place \in {"panel", "elsewhere", "anchor"} \cup Actions : ScreenPress(place)

-----------------------------------------------------------------------------
\* The loop's callbacks.

Init ==
    /\ PamInit /\ LoginInit /\ EventLoopInit
    \* App and the LockScreen constructor ran, then video_.start() if mpv came up, and
    \* the first configure painted the output.
    /\ \E mpv \in BOOLEAN :
          ui = LET s == [timers |-> <<>>, expired |-> {},
                         handle |-> [h \in Handles |-> NoTimer],
                         revealed |-> FALSE, expanded |-> FALSE, idle |-> FALSE,
                         mpv |-> mpv, paused |-> FALSE, repeatKey |-> Nothing,
                         asked |-> Nothing, drained |-> FALSE,
                         framePending |-> TRUE, dirty |-> FALSE]
                   t == Arm(Arm(s, "clock", "clock"), "idle", "idle") IN
               IF mpv THEN Arm(t, "render", "render") ELSE t
    /\ batch = <<>>
    /\ done = <<>>
    /\ inputs = 0

\* What the user does: key presses, pointer motion and presses.
Input ==
    /\ inputs < MaxInputs
    /\ inputs' = inputs + 1
    /\ \/ \E k \in Keys : KeyDown(k)
       \/ PointerPress /\ UNCHANGED <<pamVars, loginVars>>
       \/ PointerMotion /\ UNCHANGED <<pamVars, loginVars, done>>

\* What ends what the user does.
InputEnd ==
    /\ KeyUp \/ PointerLeave
    /\ UNCHANGED <<pamVars, loginVars, done, inputs>>

\* The compositor's frame callback.
Frame ==
    /\ ui.framePending
    /\ \E animating \in BOOLEAN : ui' = OnFrame(ui, animating)
    /\ UNCHANGED <<pamVars, loginVars, done, inputs>>

Readable == DOMAIN ui.timers \cup {WaylandFd} \cup (IF posted = <<>> THEN {} ELSE {WakeFd})

\* epoll_wait.  Expired timers are the readable ones; which have expired is chosen here,
\* those of a held key only while there are inputs left.
EpollWait ==
    /\ Wait(Readable)
    /\ ui.handle["repeat"] \in ready' => inputs < MaxInputs
    /\ ui' = [ui EXCEPT !.expired = ready' \cap DOMAIN ui.timers]
    /\ UNCHANGED <<pamVars, loginVars, batch, done, inputs>>

\* An event without a handler, or whose handler changes nothing here (onModifiers, ...).
OtherEvent == UNCHANGED <<pamVars, loginVars, ui, done, inputs>>

\* wl_display_dispatch, one event of it.
VisitWayland ==
    /\ Visiting(WaylandFd)
    /\ Visited
    /\ Input \/ InputEnd \/ OtherEvent
    /\ UNCHANGED <<running, batch>>

VisitFrame ==
    /\ Visiting(WaylandFd)
    /\ Visited
    /\ Frame
    /\ UNCHANGED <<running, batch>>

\* The callback of addTimer: read the expirations, forget a one-shot timer, run.  That
\* the timer has expired is not looked at.
VisitTimer(what) ==
    \E fd \in ready \cap DOMAIN ui.timers :
        /\ ui.timers[fd] = what
        /\ Visiting(fd)
        /\ Visited
        /\ LET s == IF what \in OneShot
                    THEN RemoveTimer(ui, fd)
                    ELSE [ui EXCEPT !.expired = @ \ {fd}] IN
           \/ what = "clock" /\ ui' = Invalidate(s)
           \/ what = "render" /\ ui' \in {s, Invalidate(s)}    \* whether mpv had a frame
           \/ what = "idle" /\ ui' = EnterIdle([s EXCEPT !.handle["idle"] = NoTimer])
           \/ /\ what = "hide"
              /\ LET t == [s EXCEPT !.handle["hide"] = NoTimer] IN
                 ui' = IF password = "" THEN Collapse(t) ELSE t
        /\ UNCHANGED <<pamVars, loginVars, running, batch, done, inputs>>

\* MUTANT of RepeatOn: the delay's handle, whose number is free again, is removed first.
RepeatOnRemoving(s) == Arm(KeyPressed(s, s.repeatKey), "repeat", "repeat")

\* Seat: after the delay, the key again, and then at the repeat rate.
RepeatOn(s) ==
    LET t == KeyPressed(s, s.repeatKey) IN
    [AddTimer(t, "repeat") EXCEPT !.handle["repeat"] = NewFd(t)]

VisitRepeat ==
    \E fd \in ready \cap DOMAIN ui.timers :
        /\ inputs' = inputs + 1
        /\ Visiting(fd)
        /\ Visited
        /\ \/ ui.timers[fd] = "delay" /\ ui' = RepeatOn(RemoveTimer(ui, fd))
           \/ /\ ui.timers[fd] = "repeat"
              /\ ui' = KeyPressed([ui EXCEPT !.expired = @ \ {fd}], ui.repeatKey)
        /\ KeyTyped(ui, ui.repeatKey)
        /\ UNCHANGED <<running, batch>>

VisitStale ==
    /\ VisitClosed(ui)
    /\ UNCHANGED <<pamVars, loginVars, screenVars>>

\* The wake fd: dispatchPosted.
VisitWake ==
    /\ Visiting(WakeFd)
    /\ phase' = "results"
    /\ batch' = posted
    /\ posted' = <<>>
    /\ UNCHANGED <<busy, worker, secret, attempts, passed, loginVars, running, ui, done, inputs>>

\* The batch of results done, the loop visits the rest of the descriptors if it still runs.
ResultDone ==
    phase' = IF batch' # <<>> THEN "results"
             ELSE IF ~running' THEN "stopped"
             ELSE IF ready = {} THEN "wait" ELSE "visit"

\* onAuthResult without an unlock; a Success after the first finds the lock released.
RunResult ==
    /\ phase = "results"
    /\ Head(batch).verdict # "Success" \/ ~running
    /\ OnAuthResult(Head(batch))
    /\ ui' = Invalidate(ui)
    /\ batch' = Tail(batch)
    /\ UNCHANGED <<pamVars, ready, running, done, inputs>>
    /\ ResultDone

\* requestUnlock blocks in a roundtrip, which dispatches Wayland events, input included.
RunSuccess ==
    /\ phase = "results"
    /\ Head(batch).verdict = "Success" /\ running
    /\ OnAuthResult(Head(batch))
    /\ batch' = Tail(batch)
    /\ phase' = "roundtrip"
    /\ UNCHANGED <<pamVars, ready, running, ui, done, inputs>>

RoundtripEvent ==
    /\ phase = "roundtrip"
    /\ Input \/ InputEnd \/ Frame
    /\ UNCHANGED <<eventLoopVars, batch>>

RoundtripDone ==
    /\ phase = "roundtrip"
    /\ running' = FALSE
    /\ ui' = Invalidate(ui)
    /\ UNCHANGED <<pamVars, loginVars, ready, batch, done, inputs>>
    /\ ResultDone

\* Time: the popover's countdown runs out.
Drain ==
    /\ phase # "stopped"
    /\ ui.asked # Nothing /\ ~ui.drained
    /\ ui' = [ui EXCEPT !.drained = TRUE]
    /\ UNCHANGED <<pamVars, loginVars, eventLoopVars, batch, done, inputs>>

Worker == (WorkerPosts \/ WorkerEnds) /\ UNCHANGED <<loginVars, eventLoopVars, screenVars>>

Stopped == phase = "stopped" /\ UNCHANGED vars

Visit == \/ VisitWayland \/ VisitFrame \/ VisitWake \/ VisitStale \/ VisitRepeat
         \/ \E what \in Handles \ {"repeat"} : VisitTimer(what)

Next == \/ EpollWait \/ Visit
        \/ RunResult \/ RunSuccess \/ RoundtripEvent \/ RoundtripDone
        \/ Drain \/ Worker \/ Stopped

Spec == Init /\ [][Next]_vars

\* The loop goes on, epoll passes no descriptor over for ever, a timer that is left armed
\* expires, the compositor sends the frame callback it owes, the roundtrip is answered.
\* Inputs are bounded and with them the times a timer is armed again, so a timer that may
\* expire again and again is one that stays armed.  Nothing is assumed of the user or of
\* PAM.  A step is named by what only it does to the variables of its subscript.
Reports(fd) == Wait(Readable) /\ fd \in ready'
FairSpec ==
    /\ Spec
    /\ WF_ready(\E fd \in ready : Visiting(fd))
    /\ WF_batch(phase = "results" /\ batch' = Tail(batch))
    /\ WF_phase(phase = "roundtrip" /\ phase' \in {"results", "stopped"})
    /\ SF_eventLoopVars(Reports(WaylandFd))
    /\ SF_eventLoopVars(Reports(ui.handle["clock"]))
    /\ SF_eventLoopVars(Reports(ui.handle["idle"]))
    /\ WF_vars(Drain)
    /\ SF_vars(VisitFrame)

-----------------------------------------------------------------------------
\* Properties.

\* A handle is NoTimer or names the timer armed through it, and no timer is without its
\* handle, though the numbers of closed timers are given out again: removing one's own
\* timer never removes another's, and no timer is left that nobody can remove.
HandlesOwnTimers ==
    /\ \A h \in Handles : ui.handle[h] # NoTimer =>
           ui.handle[h] \in DOMAIN ui.timers /\ HandleOf(ui.timers[ui.handle[h]]) = h
    /\ \A fd \in DOMAIN ui.timers : ui.handle[HandleOf(ui.timers[fd])] = fd

\* A screen that shows no password field holds no password, and what belongs to the
\* revealed screen, the open pill and the hide timer, is gone with it.
HiddenHoldsNothing ==
    ~ui.revealed => password = "" /\ ~ui.expanded /\ ui.handle["hide"] = NoTimer

\* The screen is either idle or counting down to it, and the video runs exactly until
\* then: it is never left playing behind the black screen, nor paused once awake.
IdleOrCounting ==
    /\ ui.idle <=> ui.handle["idle"] = NoTimer
    /\ ui.mpv => /\ ui.idle <=> ui.paused
                 /\ ui.paused <=> ui.handle["render"] = NoTimer

\* What makes these inductive: the loop runs results, and reads the wake descriptor, only
\* with something to run.
LoopShape ==
    /\ WakeFd \in ready => posted # <<>>
    /\ phase = "results" => batch # <<>>

\* Power actions run only as PowerGate allows, with key repeat and late clicks.
Gate == INSTANCE PowerGate WITH asked <- ui.asked
PowerGateHolds == Gate!Spec

\* Left alone the screen goes idle, whatever PAM and the timers do meanwhile.
GoesIdle == <>[](ui.idle \/ ~running)

\* The popover does not stay: its countdown is noticed by the next frames.
QuestionEnds == ui.asked # Nothing ~> (ui.asked = Nothing \/ ~running)

=============================================================================
