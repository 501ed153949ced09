------------------------------- MODULE Video --------------------------------
(***************************************************************************)
(* video/VideoPlayer: mpv's events, which its threads announce through     *)
(* EventLoop::post, the buffer frames are rendered into while the video's  *)
(* size changes, and pause and resume.  libmpv is external: it calls the   *)
(* wakeup callback again only after mpv_wait_event has found its queue     *)
(* empty, as the comment of mpv_set_wakeup_callback warns.                 *)
(*                                                                         *)
(* PAM's worker posts to the same queue, and its result may end the loop.  *)
(***************************************************************************)
EXTENDS PostQueue

CONSTANTS
    Widths, Heights,    \* of videos
    MaxEvents,          \* bound: events in mpv's queue
    MaxResults          \* bound: results of PAM

ASSUME VideoSizesAssumption == Widths \subseteq Nat \ {0} /\ Heights \subseteq Nat \ {0}
ASSUME VideoBoundsAssumption == MaxEvents \in Nat \ {0} /\ MaxResults \in Nat
ASSUME PostersAssumption == Threads = {"mpv", "pam"} /\ Closures = {"processEvents", "result"}

VARIABLES
    player,     \* VideoPlayer
    core,       \* mpv
    width,      \* ensureBuffer's w, between its two calls
    results     \* results PAM's worker has posted

videoVars == <<player, core, width, results>>
vars == <<postVars, videoVars>>

NoSize == <<0, 0>>
Sizes == Widths \X Heights

TypeOK ==
    /\ PostTypeOK
    \* in epoll_wait; the eventfd read; in dispatchPosted; in ensureBuffer; run() over;
    \* the player destroyed
    /\ at \in {"wait", "swap", "run", "height", "over", "stopped"}
    /\ player \in [mpv : BOOLEAN,                       \* mpv_ and renderCtx_
                   paused : BOOLEAN,                    \* paused_
                   timer : BOOLEAN,                     \* renderTimer_ >= 0
                   frame : Sizes \cup {NoSize},         \* frameW_, frameH_
                   pixels : [size : Sizes \cup {NoSize}, filled : BOOLEAN],  \* pixels_
                   content : BOOLEAN]                   \* haveContent_
    /\ core \in [events : 0 .. MaxEvents,               \* its queue
                 need : BOOLEAN,                        \* its need_wakeup
                 calling : BOOLEAN,                     \* a thread of it is in onWakeup
                 paused : BOOLEAN,                      \* its property "pause"
                 size : Sizes \cup {NoSize}]            \* dwidth and dheight
    /\ width \in Widths \cup {0}
    /\ results \in 0 .. MaxResults

\* pixels_ empty, and as assigned: cleared.
NoPixels == [size |-> NoSize, filled |-> FALSE]
Pixels(size) == [size |-> size, filled |-> FALSE]

NoPlayer == [mpv |-> FALSE, paused |-> FALSE, timer |-> FALSE,
             frame |-> NoSize, pixels |-> NoPixels, content |-> FALSE]

NoCore == [events |-> 0, need |-> FALSE, calling |-> FALSE, paused |-> FALSE, size |-> NoSize]

-----------------------------------------------------------------------------
\* mpv, external.

\* An event; the callback is called unless the last call has not been answered.
MpvEvent ==
    /\ player.mpv
    /\ core.events < MaxEvents
    /\ core' = [core EXCEPT !.events = @ + 1, !.need = TRUE,
                            !.calling = @ \/ ~core.need]
    /\ UNCHANGED <<postVars, player, width, results>>

\* A file is opened, with a size of its own, or closed.
MpvResizes ==
    /\ player.mpv /\ ~core.paused
    /\ \E s \in Sizes \cup {NoSize} : s # core.size /\ core' = [core EXCEPT !.size = s]
    /\ UNCHANGED <<postVars, player, width, results>>

\* onWakeup, handleWakeup: post(processEvents), in mpv's thread.
OnWakeup ==
    /\ core.calling
    /\ Push("mpv", "processEvents")
    /\ UNCHANGED videoVars

WakeupDone ==
    /\ WriteWake("mpv")
    /\ core' = [core EXCEPT !.calling = FALSE]
    /\ UNCHANGED <<player, width, results>>

-----------------------------------------------------------------------------
\* PAM's worker.

WorkerPushes ==
    /\ results < MaxResults
    /\ Push("pam", "result")
    /\ results' = results + 1
    /\ UNCHANGED <<player, core, width>>

WorkerWrites == WriteWake("pam") /\ UNCHANGED videoVars

-----------------------------------------------------------------------------
\* The loop's closures.

Running(c) == at = "run" /\ batch # <<>> /\ Head(batch) = c

\* MUTANT of ProcessEvent: one event for each wakeup.
ProcessOne ==
    /\ Running("processEvents")
    /\ \/ /\ core.events > 0
          /\ core' = [core EXCEPT !.events = @ - 1]
       \/ /\ core.events = 0 /\ ~core.calling
          /\ core' = [core EXCEPT !.need = FALSE]
    /\ batch' = Tail(batch)
    /\ UNCHANGED <<posted, wake, writing, at, running, player, width, results>>

\* processEvents, one mpv_wait_event of it.  One that finds the queue empty, which takes
\* the lock mpv holds around the callback, makes mpv call again for the next event.
ProcessEvent ==
    /\ Running("processEvents")
    /\ \/ /\ player.mpv /\ core.events > 0
          /\ core' = [core EXCEPT !.events = @ - 1]
          /\ batch' = batch
       \/ /\ player.mpv /\ core.events = 0 /\ ~core.calling
          /\ core' = [core EXCEPT !.need = FALSE]
          /\ batch' = Tail(batch)
       \/ /\ ~player.mpv
          /\ core' = core
          /\ batch' = Tail(batch)
    /\ UNCHANGED <<posted, wake, writing, at, running, player, width, results>>

\* onAuthResult, which may end the loop.
RunResult ==
    /\ Running("result")
    /\ batch' = Tail(batch)
    /\ Quit \/ UNCHANGED <<running, wake>>
    /\ UNCHANGED <<posted, writing, at, videoVars>>

\* The lock is refused or lost (onFinished): the loop ends without another epoll_wait.
Finished ==
    /\ at = "wait"
    /\ Quit
    /\ at' = "over"
    /\ UNCHANGED <<posted, writing, batch, videoVars>>

-----------------------------------------------------------------------------
\* The render timer.

\* MUTANT of Ensured: the flag stays when the buffer is new.
EnsuredKeepsContent(p, size) ==
    IF size = p.frame /\ p.pixels # NoPixels THEN p
    ELSE [p EXCEPT !.frame = size, !.pixels = Pixels(size)]

\* The end of ensureBuffer: another buffer for another size.
Ensured(p, size) ==
    IF size = p.frame /\ p.pixels # NoPixels THEN p
    ELSE [p EXCEPT !.frame = size, !.pixels = Pixels(size), !.content = FALSE]

\* MUTANT of Measured: a height that cannot be had is taken for 0.
MeasuredUnchecked(p, w, size) == Ensured(p, <<w, size[2]>>)

\* ensureBuffer's second call: without a height there is no change.
Measured(p, w, size) == IF size = NoSize THEN p ELSE Ensured(p, <<w, size[2]>>)

\* renderFrame after ensureBuffer: mpv fills the buffer, of whatever size it is, or fails.
\* The repaint that is then asked for is a matter of LockScreen's module.
Rendered(p) ==
    {p} \cup IF p.frame = NoSize THEN {}
             ELSE {[p EXCEPT !.content = TRUE, !.pixels.filled = TRUE]}

\* The timer ticks: renderFrame, ensureBuffer, and the width is asked for.
Tick ==
    /\ at = "wait"
    /\ player.timer
    /\ IF core.size = NoSize
       THEN player' \in Rendered(player) /\ UNCHANGED <<at, width>>
       ELSE at' = "height" /\ width' = core.size[1] /\ UNCHANGED player
    /\ UNCHANGED <<posted, wake, writing, batch, running, core, results>>

\* The height, which may be that of the next video.
TickHeight ==
    /\ at = "height"
    /\ at' = "wait"
    /\ width' = 0
    /\ player' \in Rendered(Measured(player, width, core.size))
    /\ UNCHANGED <<posted, wake, writing, batch, running, core, results>>

-----------------------------------------------------------------------------
\* pause() and resume(), as LockScreen goes idle and wakes.

Pause ==
    /\ at = "wait"
    /\ player.mpv /\ ~player.paused
    /\ player' = [player EXCEPT !.paused = TRUE, !.timer = FALSE]
    /\ core' = [core EXCEPT !.paused = TRUE]
    /\ UNCHANGED <<postVars, width, results>>

Resume ==
    /\ at = "wait"
    /\ player.mpv /\ player.paused
    /\ player' = [player EXCEPT !.paused = FALSE, !.timer = TRUE]
    /\ core' = [core EXCEPT !.paused = FALSE]
    /\ UNCHANGED <<postVars, width, results>>

\* ~VideoPlayer, stop(), once run() has returned.  mpv_destroy waits for a callback.
Stop ==
    /\ at = "over"
    /\ ~core.calling
    /\ at' = "stopped"
    /\ player' = NoPlayer
    /\ core' = NoCore
    /\ UNCHANGED <<posted, wake, writing, batch, running, width, results>>

-----------------------------------------------------------------------------
\* init() and start() have run, or init() failed; the callback is called once when it is set.
Init ==
    /\ \E mpv \in BOOLEAN :
          /\ player = [NoPlayer EXCEPT !.mpv = mpv, !.timer = mpv]
          /\ posted = IF mpv THEN <<"processEvents">> ELSE <<>>
          /\ wake = mpv
    /\ core = [NoCore EXCEPT !.need = player.mpv]
    /\ writing = {}
    /\ at = "wait"
    /\ batch = <<>>
    /\ running = TRUE
    /\ width = 0
    /\ results = 0

Mpv == MpvEvent \/ MpvResizes \/ OnWakeup \/ WakeupDone
Worker == WorkerPushes \/ WorkerWrites
Loop == \/ (ReadWake \/ TakePosted \/ BatchDone) /\ UNCHANGED videoVars
        \/ ProcessEvent \/ RunResult \/ Finished \/ Tick \/ TickHeight \/ Pause \/ Resume \/ Stop

Stopped == at = "stopped" /\ UNCHANGED vars

Next == Mpv \/ Worker \/ Loop \/ Stopped

Spec == Init /\ [][Next]_vars

\* Threads are scheduled; epoll passes no descriptor over for ever.
FairSpec ==
    /\ Spec
    /\ WF_vars(OnWakeup) /\ WF_vars(WakeupDone) /\ WF_vars(WorkerWrites)
    /\ SF_vars(ReadWake /\ UNCHANGED videoVars)
    /\ WF_vars((TakePosted \/ BatchDone) /\ UNCHANGED videoVars)
    /\ WF_vars(ProcessEvent) /\ WF_vars(RunResult) /\ WF_vars(TickHeight)

-----------------------------------------------------------------------------
\* Properties.

\* While an event waits in mpv's queue, processEvents has still to run, or to be posted: mpv
\* calls only once until its queue has been read to the end.
EventsOwed ==
    core.events > 0 =>
        \/ core.calling
        \/ \E i \in DOMAIN posted : posted[i] = "processEvents"
        \/ \E i \in DOMAIN batch : batch[i] = "processEvents"

\* draw() shows pixels_ as an image of frameW_ by frameH_ once haveContent_ is set: it is of
\* that size then, and mpv has filled it since it was allocated, whatever the videos' sizes
\* do between the calls of ensureBuffer.
FrameFits ==
    player.content => /\ player.frame # NoSize
                      /\ player.pixels = [size |-> player.frame, filled |-> TRUE]

\* Events of mpv get read, though pauses, ticks and PAM's results keep the loop busy.
EventsGetRead ==
    core.events > 0 ~> (Running("processEvents") \/ at \in {"over", "stopped"})

=============================================================================
