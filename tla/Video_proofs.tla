---------------------------- MODULE Video_proofs ----------------------------
(***************************************************************************)
(* Proofs about Video, for every set of video sizes and any number of      *)
(* events and results.                                                     *)
(***************************************************************************)
EXTENDS Video, SequenceTheorems, TLAPS

USE PostersAssumption

-----------------------------------------------------------------------------
\* Queues of closures.

\* The queue s holds a processEvents.
Holds(s) == \E i \in DOMAIN s : s[i] = "processEvents"

\* A closure put at the end joins those that are there.
LEMMA AppendHolds ==
    ASSUME NEW s \in Seq(Closures), NEW c \in Closures
    PROVE  /\ Append(s, c) \in Seq(Closures)
           /\ Holds(s) => Holds(Append(s, c))
           /\ c = "processEvents" => Holds(Append(s, c))
<1>1. /\ Append(s, c) \in Seq(Closures)
      /\ Len(Append(s, c)) = Len(s) + 1
      /\ \A i \in 1 .. Len(s) : Append(s, c)[i] = s[i]
      /\ Append(s, c)[Len(s) + 1] = c
  BY AppendProperties
<1>2. DOMAIN s = 1 .. Len(s) /\ DOMAIN Append(s, c) = 1 .. Len(s) + 1 /\ Len(s) \in Nat
  BY <1>1, LenProperties
<1> QED BY <1>1, <1>2 DEF Holds

\* Taking the first closure leaves the others.
LEMMA TailHolds ==
    ASSUME NEW s \in Seq(Closures), s # <<>>
    PROVE  /\ Head(s) \in Closures
           /\ Tail(s) \in Seq(Closures)
           /\ Head(s) # "processEvents" /\ Holds(s) => Holds(Tail(s))
<1>1. /\ Head(s) \in Closures /\ Tail(s) \in Seq(Closures)
      /\ Len(Tail(s)) = Len(s) - 1
      /\ \A i \in 1 .. Len(Tail(s)) : Tail(s)[i] = s[i + 1]
      /\ Head(s) = s[1]
  BY HeadTailProperties
<1>2. /\ DOMAIN s = 1 .. Len(s) /\ Len(s) \in Nat
      /\ DOMAIN Tail(s) = 1 .. Len(s) - 1
  BY <1>1, LenProperties
<1>3. ASSUME Head(s) # "processEvents", NEW i \in DOMAIN s, s[i] = "processEvents"
      PROVE  Holds(Tail(s))
  <2>1. i - 1 \in DOMAIN Tail(s) /\ Tail(s)[i - 1] = s[i]
    BY <1>1, <1>2, <1>3
  <2> QED BY <2>1, <1>3 DEF Holds
<1> QED BY <1>1, <1>3 DEF Holds

\* No processEvents is in a queue of none.
LEMMA EmptyHolds == <<>> \in Seq(Closures) /\ ~Holds(<<>>)
BY DEF Holds

-----------------------------------------------------------------------------
\* Type correctness.  Between the two questions of ensureBuffer the width is one.

Shape == TypeOK /\ (at = "height" => width \in Widths)

\* What player, its buffer and core are taken from.
PixelsType == [size : Sizes \cup {NoSize}, filled : BOOLEAN]

PlayerType == [mpv : BOOLEAN, paused : BOOLEAN, timer : BOOLEAN,
               frame : Sizes \cup {NoSize}, pixels : PixelsType, content : BOOLEAN]

CoreType == [events : 0 .. MaxEvents, need : BOOLEAN, calling : BOOLEAN,
             paused : BOOLEAN, size : Sizes \cup {NoSize}]

LEMMA StateTyped == TypeOK => player \in PlayerType /\ core \in CoreType
BY DEF TypeOK, PlayerType, PixelsType, CoreType

\* Nothing rendered, no size and another size leave a player a player.
LEMMA RenderedTyped ==
    ASSUME NEW x \in PlayerType, NEW y \in Rendered(x)
    PROVE  y \in PlayerType
<1>1. [x EXCEPT !.content = TRUE, !.pixels.filled = TRUE] \in PlayerType
  BY Zenon DEF PlayerType, PixelsType
<1> QED BY <1>1 DEF Rendered

LEMMA EnsuredTyped ==
    ASSUME NEW x \in PlayerType, NEW size \in Sizes
    PROVE  Ensured(x, size) \in PlayerType
<1>1. Pixels(size) \in PixelsType
  BY DEF Pixels, PixelsType
<1>2. [x EXCEPT !.frame = size, !.pixels = Pixels(size), !.content = FALSE] \in PlayerType
  BY <1>1, Zenon DEF PlayerType
<1> QED BY <1>2 DEF Ensured

\* The size that two questions give is one of a video, if the second was answered.
LEMMA MeasuredSize ==
    ASSUME TypeOK, width \in Widths, core.size # NoSize
    PROVE  <<width, core.size[2]>> \in Sizes
BY DEF TypeOK, Sizes

LEMMA MeasuredTyped ==
    ASSUME TypeOK, width \in Widths
    PROVE  Measured(player, width, core.size) \in PlayerType
BY MeasuredSize, EnsuredTyped, StateTyped DEF Measured

\* The types of what is posted, taken and run.
LEMMA PostTyped ==
    ASSUME PostTypeOK
    PROVE  /\ \A t \in Threads, c \in Closures : Push(t, c) => PostTypeOK'
           /\ \A t \in Threads : WriteWake(t) => PostTypeOK'
           /\ ReadWake \/ TakePosted \/ BatchDone => PostTypeOK'
<1>1. ASSUME NEW t \in Threads, NEW c \in Closures, Push(t, c) PROVE PostTypeOK'
  BY <1>1, AppendHolds DEF PostTypeOK, Push
<1>2. ASSUME NEW t \in Threads, WriteWake(t) PROVE PostTypeOK'
  BY <1>2 DEF PostTypeOK, WriteWake
<1>3. ASSUME ReadWake \/ TakePosted \/ BatchDone PROVE PostTypeOK'
  BY <1>3, EmptyHolds DEF PostTypeOK, ReadWake, TakePosted, BatchDone
<1> QED BY <1>1, <1>2, <1>3

LEMMA ShapeInit == Init => Shape
<1> SUFFICES ASSUME Init PROVE Shape
  OBVIOUS
<1>1. PICK mpv \in BOOLEAN :
         /\ player = [NoPlayer EXCEPT !.mpv = mpv, !.timer = mpv]
         /\ posted = IF mpv THEN <<"processEvents">> ELSE <<>>
         /\ wake = mpv
  BY DEF Init
<1>2. NoPlayer \in PlayerType /\ NoCore \in CoreType
  BY VideoBoundsAssumption
     DEF NoPlayer, NoCore, PlayerType, PixelsType, CoreType, NoPixels, NoSize
<1>3. player \in PlayerType
  BY <1>1, <1>2, Zenon DEF PlayerType
<1>4. player.mpv \in BOOLEAN
  BY <1>3 DEF PlayerType
<1>5. core \in CoreType
  <2>1. ASSUME NEW n \in BOOLEAN PROVE [NoCore EXCEPT !.need = n] \in CoreType
    BY <1>2, Zenon DEF CoreType
  <2>2. core = [NoCore EXCEPT !.need = player.mpv]
    BY DEF Init
  <2> QED BY <1>4, <2>1, <2>2
<1>6. posted \in Seq(Closures) /\ wake \in BOOLEAN
  <2>1. <<"processEvents">> \in Seq(Closures)
    BY PostersAssumption
  <2> QED BY <1>1, <2>1, EmptyHolds
<1>7. /\ at = "wait" /\ batch = <<>> /\ running = TRUE /\ writing = {}
      /\ width = 0 /\ results = 0
  BY DEF Init
<1>8. PostTypeOK
  BY <1>6, <1>7, EmptyHolds DEF PostTypeOK
<1> QED
  BY <1>3, <1>5, <1>7, <1>8, VideoBoundsAssumption
     DEF Shape, TypeOK, PlayerType, PixelsType, CoreType

LEMMA ShapeStep == Shape /\ [Next]_vars => Shape'
<1> SUFFICES ASSUME Shape, [Next]_vars PROVE Shape'
  OBVIOUS
<1> USE VideoBoundsAssumption
<1>1. TypeOK /\ PostTypeOK
  BY DEF Shape, TypeOK
<1>2. "mpv" \in Threads /\ "pam" \in Threads /\ "processEvents" \in Closures /\ "result" \in Closures
  OBVIOUS
<1>t. player \in PlayerType /\ core \in CoreType
  BY <1>1, StateTyped
<1>3. CASE MpvEvent
  <2>1. core.events + 1 \in 0 .. MaxEvents /\ (core.calling \/ ~core.need) \in BOOLEAN
    BY <1>3, <1>t DEF MpvEvent, CoreType
  <2>2. core' \in CoreType
    BY <1>3, <1>t, <2>1, Zenon DEF MpvEvent, CoreType
  <2> QED BY <1>1, <1>3, <2>2 DEF Shape, TypeOK, PostTypeOK, MpvEvent, postVars, CoreType
<1>4. CASE MpvResizes
  <2>1. core' \in CoreType
    BY <1>4, <1>t, Zenon DEF MpvResizes, CoreType
  <2> QED BY <1>1, <1>4, <2>1 DEF Shape, TypeOK, PostTypeOK, MpvResizes, postVars, CoreType
<1>5. CASE OnWakeup
  <2>1. PostTypeOK' /\ at' = at
    BY <1>1, <1>2, <1>5, PostTyped DEF OnWakeup, Push
  <2> QED BY <1>5, <2>1 DEF Shape, TypeOK, OnWakeup, videoVars
<1>6. CASE WakeupDone
  <2>1. PostTypeOK' /\ at' = at
    BY <1>1, <1>2, <1>6, PostTyped DEF WakeupDone, WriteWake
  <2>2. core' \in CoreType
    BY <1>6, <1>t, Zenon DEF WakeupDone, CoreType
  <2> QED BY <1>6, <2>1, <2>2 DEF Shape, TypeOK, WakeupDone, CoreType
<1>7. CASE WorkerPushes
  <2>1. PostTypeOK' /\ at' = at
    BY <1>1, <1>2, <1>7, PostTyped DEF WorkerPushes, Push
  <2> QED BY <1>7, <2>1 DEF Shape, TypeOK, WorkerPushes
<1>8. CASE WorkerWrites
  <2>1. PostTypeOK' /\ at' = at
    BY <1>1, <1>2, <1>8, PostTyped DEF WorkerWrites, WriteWake
  <2> QED BY <1>8, <2>1 DEF Shape, TypeOK, WorkerWrites, videoVars
<1>9. CASE (ReadWake \/ TakePosted \/ BatchDone) /\ UNCHANGED videoVars
  <2>1. PostTypeOK' /\ at' \in {"swap", "run", "wait", "over"}
    BY <1>1, <1>9, PostTyped DEF ReadWake, TakePosted, BatchDone
  <2> QED BY <1>9, <2>1 DEF Shape, TypeOK, videoVars
<1>10. CASE ProcessEvent
  <2>1. batch # <<>> /\ (batch' = batch \/ batch' = Tail(batch))
    BY <1>10 DEF ProcessEvent, Running
  <2>2. batch' \in Seq(Closures)
    BY <1>1, <2>1, TailHolds DEF PostTypeOK
  <2>3. core.events > 0 => core.events - 1 \in 0 .. MaxEvents
    BY <1>t DEF CoreType
  <2>4. core' \in CoreType
    BY <1>10, <1>t, <2>3, Zenon DEF ProcessEvent, CoreType
  <2> QED
    BY <1>1, <1>10, <2>2, <2>4 DEF Shape, TypeOK, PostTypeOK, ProcessEvent, CoreType
<1>11. CASE RunResult
  <2>1. batch' \in Seq(Closures)
    BY <1>1, <1>11, TailHolds DEF PostTypeOK, RunResult, Running
  <2>2. running' \in BOOLEAN /\ wake' \in BOOLEAN
    BY <1>1, <1>11 DEF PostTypeOK, RunResult, Quit
  <2>3. UNCHANGED <<posted, writing, at, player, core, width, results>>
    BY <1>11 DEF RunResult, videoVars
  <2> QED BY <1>1, <2>1, <2>2, <2>3 DEF Shape, TypeOK, PostTypeOK
<1>12. CASE Finished
  <2>1. running' \in BOOLEAN /\ wake' \in BOOLEAN /\ at' = "over"
    BY <1>12 DEF Finished, Quit
  <2>2. UNCHANGED <<posted, writing, batch, player, core, width, results>>
    BY <1>12 DEF Finished, videoVars
  <2> QED BY <1>1, <2>1, <2>2 DEF Shape, TypeOK, PostTypeOK
<1>13. CASE Tick
  <2>1. CASE core.size = NoSize
    <3>1. player' \in PlayerType /\ at' = at /\ width' = width /\ at = "wait"
      BY <1>13, <1>t, <2>1, RenderedTyped DEF Tick
    <3> QED
      BY <1>1, <1>13, <3>1 DEF Shape, TypeOK, PostTypeOK, Tick, PlayerType, PixelsType
  <2>2. CASE core.size # NoSize
    <3>1. core.size[1] \in Widths
      BY <1>1, <2>2 DEF TypeOK, Sizes
    <3> QED BY <1>1, <1>13, <2>2, <3>1 DEF Shape, TypeOK, PostTypeOK, Tick
  <2> QED BY <2>1, <2>2
<1>14. CASE TickHeight
  <2>1. player' \in PlayerType
    BY <1>1, <1>14, MeasuredTyped, RenderedTyped DEF Shape, TickHeight
  <2> QED
    BY <1>1, <1>14, <2>1 DEF Shape, TypeOK, PostTypeOK, TickHeight, PlayerType, PixelsType
<1>15. CASE Pause
  <2>1. player' \in PlayerType /\ core' \in CoreType
    BY <1>15, <1>t, Zenon DEF Pause, PlayerType, CoreType
  <2> QED
    BY <1>1, <1>15, <2>1
       DEF Shape, TypeOK, PostTypeOK, Pause, postVars, PlayerType, PixelsType, CoreType
<1>16. CASE Resume
  <2>1. player' \in PlayerType /\ core' \in CoreType
    BY <1>16, <1>t, Zenon DEF Resume, PlayerType, CoreType
  <2> QED
    BY <1>1, <1>16, <2>1
       DEF Shape, TypeOK, PostTypeOK, Resume, postVars, PlayerType, PixelsType, CoreType
<1>17. CASE Stop
  BY <1>1, <1>17 DEF Shape, TypeOK, PostTypeOK, Stop, NoPlayer, NoCore, NoPixels, NoSize
<1>18. CASE UNCHANGED vars
  BY <1>18 DEF Shape, TypeOK, PostTypeOK, vars, postVars, videoVars
<1> QED
  BY <1>3, <1>4, <1>5, <1>6, <1>7, <1>8, <1>9, <1>10, <1>11, <1>12, <1>13, <1>14, <1>15,
     <1>16, <1>17, <1>18 DEF Next, Mpv, Worker, Loop, Stopped

\* VideoPlayer and the queue keep their types, for all sizes of videos and any number of
\* events and results; the buffer never gets half a size.
THEOREM TypeCorrect == Spec => []TypeOK
<1>1. Shape => TypeOK
  BY DEF Shape
<1> QED BY <1>1, ShapeInit, ShapeStep, PTL DEF Spec

-----------------------------------------------------------------------------
\* The eventfd.

\* A closure posted is never left lying: post() puts it into the queue before it writes the
\* eventfd, and the loop reads the eventfd before it takes the queue, in every interleaving
\* of any number of posts.
THEOREM WakeupOwedAlways == Spec => []WakeupOwed
<1>1. Init => WakeupOwed
  BY DEF Init, WakeupOwed
<1>2. WakeupOwed /\ [Next]_vars => WakeupOwed'
  <2> SUFFICES ASSUME WakeupOwed, [Next]_vars PROVE WakeupOwed'
    OBVIOUS
  <2>1. CASE OnWakeup \/ WorkerPushes
    BY <2>1 DEF OnWakeup, WorkerPushes, Push, WakeupOwed
  <2>2. CASE WakeupDone \/ WorkerWrites
    BY <2>2 DEF WakeupDone, WorkerWrites, WriteWake, WakeupOwed
  <2>3. CASE ReadWake \/ TakePosted \/ BatchDone
    BY <2>3 DEF ReadWake, TakePosted, BatchDone, WakeupOwed
  <2>4. CASE RunResult \/ Finished
    BY <2>4 DEF RunResult, Finished, Quit, WakeupOwed
  <2>5. CASE Tick
    BY <2>5 DEF Tick, WakeupOwed
  <2>6. CASE TickHeight \/ Stop \/ ProcessEvent
    BY <2>6 DEF TickHeight, Stop, ProcessEvent, Running, WakeupOwed
  <2>7. CASE MpvEvent \/ MpvResizes \/ Pause \/ Resume \/ UNCHANGED vars
    BY <2>7 DEF MpvEvent, MpvResizes, Pause, Resume, vars, postVars, WakeupOwed
  <2> QED
    BY <2>1, <2>2, <2>3, <2>4, <2>5, <2>6, <2>7 DEF Next, Mpv, Worker, Loop, Stopped
<1> QED BY <1>1, <1>2, PTL DEF Spec

-----------------------------------------------------------------------------
\* mpv's wakeup.

\* mpv calls once, until its queue has been read to the end: as long as it will not call
\* again, its call, a processEvents posted or one taken is there to read the queue.
Wakeup ==
    /\ core.events > 0 => core.need
    /\ core.need => core.calling \/ Holds(posted) \/ Holds(batch)
    /\ "mpv" \in writing => core.calling /\ (Holds(posted) \/ Holds(batch))
    /\ core.need \/ core.calling => player.mpv
    /\ at # "run" => batch = <<>>

LEMMA RenderedMpv ==
    ASSUME NEW x \in PlayerType, NEW y \in Rendered(x)
    PROVE  y.mpv = x.mpv
<1>1. [x EXCEPT !.content = TRUE, !.pixels.filled = TRUE].mpv = x.mpv
  BY Zenon DEF PlayerType
<1> QED BY <1>1 DEF Rendered

LEMMA MeasuredMpv ==
    ASSUME player \in PlayerType
    PROVE  Measured(player, width, core.size).mpv = player.mpv
<1>1. ASSUME NEW size PROVE Ensured(player, size).mpv = player.mpv
  <2>1. [player EXCEPT !.frame = size, !.pixels = Pixels(size), !.content = FALSE].mpv
          = player.mpv
    BY Zenon DEF PlayerType
  <2> QED BY <2>1 DEF Ensured
<1> QED BY <1>1 DEF Measured

LEMMA WakeupInit == Init => Wakeup
<1> SUFFICES ASSUME Init PROVE Wakeup
  OBVIOUS
<1>1. PICK mpv \in BOOLEAN :
         /\ player = [NoPlayer EXCEPT !.mpv = mpv, !.timer = mpv]
         /\ posted = IF mpv THEN <<"processEvents">> ELSE <<>>
  BY DEF Init
<1>2. player.mpv = mpv
  BY <1>1 DEF NoPlayer
<1>3. core.events = 0 /\ core.need = mpv /\ core.calling = FALSE
  BY <1>2 DEF Init, NoCore
<1>4. mpv => Holds(posted)
  BY <1>1 DEF Holds
<1>5. at = "wait" /\ batch = <<>> /\ writing = {}
  BY DEF Init
<1> QED BY <1>2, <1>3, <1>4, <1>5 DEF Wakeup

LEMMA WakeupStep == Shape /\ Wakeup /\ [Next]_vars => Wakeup'
<1> SUFFICES ASSUME Shape, Wakeup, [Next]_vars PROVE Wakeup'
  OBVIOUS
<1>1. /\ player \in PlayerType /\ core \in CoreType
      /\ posted \in Seq(Closures) /\ batch \in Seq(Closures)
  BY StateTyped DEF Shape, TypeOK, PostTypeOK
<1>2. CASE MpvEvent
  <2>1. core'.need = TRUE /\ core'.calling = (core.calling \/ ~core.need)
    BY <1>1, <1>2 DEF MpvEvent, CoreType
  <2> QED BY <1>2, <2>1 DEF MpvEvent, Wakeup, postVars
<1>3. CASE MpvResizes \/ Pause \/ Resume
  <2>1. /\ core'.events = core.events /\ core'.need = core.need
        /\ core'.calling = core.calling /\ player'.mpv = player.mpv
    BY <1>1, <1>3 DEF MpvResizes, Pause, Resume, CoreType, PlayerType
  <2>2. UNCHANGED postVars
    BY <1>3 DEF MpvResizes, Pause, Resume
  <2> QED BY <2>1, <2>2 DEF Wakeup, postVars
<1>4. CASE OnWakeup
  <2>1. Holds(posted')
    BY <1>1, <1>4, AppendHolds DEF OnWakeup, Push
  <2> QED BY <1>4, <2>1 DEF OnWakeup, Push, Wakeup, videoVars
<1>5. CASE WakeupDone
  <2>1. /\ core'.events = core.events /\ core'.need = core.need /\ core'.calling = FALSE
    BY <1>1, <1>5 DEF WakeupDone, CoreType
  <2> QED BY <1>5, <2>1 DEF WakeupDone, WriteWake, Wakeup
<1>6. CASE WorkerPushes
  <2>1. Holds(posted) => Holds(posted')
    BY <1>1, <1>6, AppendHolds DEF WorkerPushes, Push
  <2> QED BY <1>6, <2>1 DEF WorkerPushes, Push, Wakeup
<1>7. CASE WorkerWrites
  BY <1>7 DEF WorkerWrites, WriteWake, Wakeup, videoVars
<1>8. CASE (ReadWake \/ TakePosted \/ BatchDone) /\ UNCHANGED videoVars
  BY <1>8, EmptyHolds DEF ReadWake, TakePosted, BatchDone, Wakeup, videoVars
<1>9. CASE ProcessEvent
  <2>1. CASE player.mpv /\ core.events > 0 /\ core' = [core EXCEPT !.events = @ - 1]
             /\ batch' = batch
    <3>1. /\ core'.need = core.need /\ core'.calling = core.calling
      BY <1>1, <2>1 DEF CoreType
    <3> QED BY <1>9, <2>1, <3>1 DEF ProcessEvent, Wakeup
  <2>2. CASE player.mpv /\ core.events = 0 /\ ~core.calling
             /\ core' = [core EXCEPT !.need = FALSE] /\ batch' = Tail(batch)
    <3>1. /\ core'.need = FALSE /\ core'.calling = core.calling
          /\ core'.events = core.events
      BY <1>1, <2>2 DEF CoreType
    <3> QED BY <1>9, <2>2, <3>1 DEF ProcessEvent, Running, Wakeup
  <2>3. CASE ~player.mpv /\ core' = core /\ batch' = Tail(batch)
    BY <1>9, <2>3 DEF ProcessEvent, Running, Wakeup
  <2> QED BY <1>9, <2>1, <2>2, <2>3 DEF ProcessEvent
<1>10. CASE RunResult
  <2>1. Holds(batch) => Holds(batch')
    BY <1>1, <1>10, TailHolds DEF RunResult, Running
  <2>2. at = "run" /\ UNCHANGED <<posted, writing, at, player, core>>
    BY <1>10 DEF RunResult, Running, videoVars
  <2> QED BY <2>1, <2>2 DEF Wakeup
<1>11. CASE Finished
  BY <1>11 DEF Finished, Wakeup, videoVars
<1>12. CASE Tick
  <2>1. player'.mpv = player.mpv
    BY <1>1, <1>12, RenderedMpv DEF Tick
  <2>2. at = "wait" /\ at' # "run" /\ UNCHANGED <<posted, writing, batch, core>>
    BY <1>12 DEF Tick
  <2> QED BY <2>1, <2>2 DEF Wakeup
<1>13. CASE TickHeight
  <2>1. player'.mpv = player.mpv
    BY <1>1, <1>13, MeasuredTyped, RenderedMpv, MeasuredMpv DEF Shape, TickHeight
  <2> QED BY <1>13, <2>1 DEF TickHeight, Wakeup
<1>14. CASE Stop
  BY <1>14 DEF Stop, NoCore, Wakeup
<1>15. CASE UNCHANGED vars
  BY <1>15 DEF Wakeup, vars, postVars, videoVars
<1> QED
  BY <1>2, <1>3, <1>4, <1>5, <1>6, <1>7, <1>8, <1>9, <1>10, <1>11, <1>12, <1>13, <1>14,
     <1>15 DEF Next, Mpv, Worker, Loop, Stopped

\* No event of mpv is forgotten: while one waits, processEvents has still to run or to be
\* posted, though mpv calls onWakeup only once and in a thread of its own, and though
\* PAM's worker posts between.
THEOREM EventsOwedAlways == Spec => []EventsOwed
<1>1. Wakeup => EventsOwed
  BY DEF Wakeup, EventsOwed, Holds
<1>2. Init => Shape /\ Wakeup
  BY ShapeInit, WakeupInit
<1>3. (Shape /\ Wakeup) /\ [Next]_vars => (Shape /\ Wakeup)'
  BY ShapeStep, WakeupStep
<1> QED BY <1>1, <1>2, <1>3, PTL DEF Spec

-----------------------------------------------------------------------------
\* The buffer.

\* The buffer is of the size the player takes it for, and once there is content mpv has
\* filled it.
Fits(p) ==
    /\ p.pixels.size = p.frame
    /\ p.content => p.frame # NoSize /\ p.pixels.filled

LEMMA RenderedFits ==
    ASSUME NEW x \in PlayerType, Fits(x), NEW y \in Rendered(x)
    PROVE  Fits(y)
<1> DEFINE z == [x EXCEPT !.content = TRUE, !.pixels.filled = TRUE]
<1>1. z.frame = x.frame
  BY Zenon DEF PlayerType
<1>2. z.pixels = [x.pixels EXCEPT !.filled = TRUE]
  BY Zenon DEF PlayerType
<1>3. z.pixels.size = x.pixels.size /\ z.pixels.filled = TRUE
  BY <1>2, Zenon DEF PlayerType, PixelsType
<1>4. CASE x.frame = NoSize
  BY <1>4 DEF Rendered
<1>5. CASE x.frame # NoSize
  <2>1. Fits(z)
    BY <1>1, <1>3, <1>5 DEF Fits
  <2> QED BY <1>5, <2>1 DEF Rendered
<1> QED BY <1>4, <1>5

LEMMA MeasuredFits ==
    ASSUME player \in PlayerType, Fits(player)
    PROVE  Fits(Measured(player, width, core.size))
<1>1. ASSUME NEW size PROVE Fits(Ensured(player, size))
  <2> DEFINE z == [player EXCEPT !.frame = size, !.pixels = Pixels(size), !.content = FALSE]
  <2>1. z.frame = size /\ z.pixels = Pixels(size) /\ z.content = FALSE
    BY Zenon DEF PlayerType
  <2>2. Fits(z)
    BY <2>1 DEF Fits, Pixels
  <2> QED BY <2>2 DEF Ensured
<1> QED BY <1>1 DEF Measured

LEMMA FitsInit == Init => Fits(player)
<1> SUFFICES ASSUME Init PROVE Fits(player)
  OBVIOUS
<1>1. PICK mpv \in BOOLEAN : player = [NoPlayer EXCEPT !.mpv = mpv, !.timer = mpv]
  BY DEF Init
<1>2. player.pixels = NoPixels /\ player.frame = NoSize /\ player.content = FALSE
  BY <1>1 DEF NoPlayer
<1> QED BY <1>2 DEF Fits, NoPixels

LEMMA FitsStep == Shape /\ Fits(player) /\ [Next]_vars => Fits(player)'
<1> SUFFICES ASSUME Shape, Fits(player), [Next]_vars PROVE Fits(player')
  OBVIOUS
<1>1. player \in PlayerType
  BY StateTyped DEF Shape
<1>2. CASE Tick
  BY <1>1, <1>2, RenderedFits DEF Tick
<1>3. CASE TickHeight
  BY <1>1, <1>3, MeasuredTyped, MeasuredFits, RenderedFits DEF Shape, TickHeight
<1>4. CASE Pause \/ Resume
  <2>1. /\ player'.frame = player.frame /\ player'.pixels = player.pixels
        /\ player'.content = player.content
    BY <1>1, <1>4 DEF Pause, Resume, PlayerType
  <2> QED BY <2>1 DEF Fits
<1>5. CASE Stop
  BY <1>5 DEF Stop, NoPlayer, NoPixels, Fits
<1>6. CASE UNCHANGED player
  BY <1>6
<1>7. \/ UNCHANGED player
      \/ Tick \/ TickHeight \/ Pause \/ Resume \/ Stop
  BY DEF Next, Mpv, Worker, Loop, Stopped, MpvEvent, MpvResizes, OnWakeup, WakeupDone,
         WorkerPushes, WorkerWrites, ProcessEvent, RunResult, Finished, videoVars, vars
<1> QED BY <1>2, <1>3, <1>4, <1>5, <1>6, <1>7

\* What draw() shows as an image of frameW_ by frameH_ is a buffer of that size which mpv has
\* filled, for all sizes of videos and all moments at which one becomes another.
THEOREM FrameFitsAlways == Spec => []FrameFits
<1>1. Shape /\ Fits(player) => FrameFits
  <2> SUFFICES ASSUME Shape, Fits(player), player.content PROVE FrameFits
    BY DEF FrameFits
  <2>1. player.pixels \in PixelsType
    BY StateTyped DEF Shape, PlayerType
  <2>2. player.pixels = [size |-> player.frame, filled |-> TRUE]
    BY <2>1 DEF Fits, PixelsType
  <2> QED BY <2>2 DEF Fits, FrameFits
<1>2. Init => Shape /\ Fits(player)
  BY ShapeInit, FitsInit
<1>3. (Shape /\ Fits(player)) /\ [Next]_vars => (Shape /\ Fits(player))'
  BY ShapeStep, FitsStep
<1> QED BY <1>1, <1>2, <1>3, PTL DEF Spec

=============================================================================
