# qypr-lock in TLA+

A model of qypr-lock, the Wayland lock screen in this repository: TLA+ modules,
TLC configurations that check them on small instances, and proofs for TLAPS.
Paths below are relative to the repository; the program is in `src/src/`.

## 1. The system

One process, one loop thread, one worker thread while a password is checked.
`App` owns everything; its members call each other directly on the loop thread,
and the rest of the world reaches them through `EventLoop`: descriptors in an
epoll set, timers (a `timerfd` each, whose handle is its descriptor number) and
a mutex-protected queue of posted closures with an eventfd.

| component | state | operations | talks to |
|---|---|---|---|
| `core/EventLoop` | `fds_`, `posted_`, `running_`, `prepare_` | addFd, addTimer, removeTimer, post, quit, run | every other component: it runs their callbacks |
| `auth/PamAuthenticator` | `busy_` (atomic), `worker_` | authenticate, destructor (joins) | PAM on the worker thread; posts the result to the loop |
| `wayland/LockSession` | `lock_`, `locked_` | lock, unlock, locked, finished, destructor | the compositor (ext-session-lock-v1); `WaylandDisplay` for the surfaces |
| `wayland/WaylandDisplay` | `outputs_`, `activeLock_`, globals | connect, onGlobal, onGlobalRemove, createLockSurfaces, flush, roundtrip | the compositor; `Output` |
| `wayland/Output`, `ShmBuffer` | `frameCallback_`, `dirty_`, `configured_`, sizes, scale, `buffers_` | invalidate, render, onFrame, onConfigure | `LockScreen::draw`; the compositor |
| `wayland/Seat`, `Cursor` | keyboard, pointer, keymap, `repeatTimer_`, `repeatKeycode_`, `pointerOutput_`, `cursor_` | capabilities, keymap, key, leave, repeat info, pointer events | `LockScreen`'s input handlers; two timers |
| `ui/LockScreen` | `password_`, status, `revealed_`, `idle_`, hide and idle timers, power pill | key and pointer handlers, onAuthResult, draw | everything in `ui/`, `PamAuthenticator`, `VideoPlayer` |
| `ui/PowerDialog` | `active_`, the pending action, its end time | show, dismiss, confirm, handlePress, draw | `PowerManager` |
| `video/VideoPlayer` | mpv, `paused_`, the render timer, `pixels_` with its size and `haveContent_` | init, start, pause, resume, stop, wakeup, processEvents, render tick | libmpv, whose threads post to the loop; `LockScreen` repaints |
| `notifications/NotificationMonitor` | `notes_`, `pending_`, `nextKey_` | start, fetchBacklog, Notify, reply, NotificationClosed, teardown | the session bus, the recorder, `NotificationView` |
| `notifications/NotificationLog` (the `qypr-record` process) | its own monitor | List | the locker that starts |
| `ui/Notification` (NotificationView) | `cards_`, `layout_` | update, handlePress, hover, draw | `LockScreen` |
| `mpris/MprisController`, `ui/AudioController` | the player's snapshot | refresh, toggle, next, previous, setVolume | players over D-Bus, synchronously |
| `ui/IconResolver` | a cache of surfaces | get | the file system; the cards' `draw` |
| `power/PowerManager` | none | suspend, reboot, ... | systemctl |

What is hard here, and what each component must get right:

- *The roundtrip inside unlock().* `requestUnlock` runs inside the callback of a
  posted result and blocks in `wl_display_roundtrip`, which dispatches every
  other event meanwhile: input, hotplug, even the start of another attempt.
  The session must open after PAM's Success only, no surface may be asked of a
  released lock, and the release must have arrived when the process exits.
- *The worker.* It posts its result before it clears `busy_`; a submit in that
  window must not lose the typed password. Results of two attempts may queue
  up; they must be handled once each and in order. The worker must be over
  before the loop it posts to is.
- *Events looked up by number.* An epoll batch may name a timer that an earlier
  callback of the same batch closed, and whose number a new timer has taken.
- *The screen's state machine.* Two timers, the power pill, the popover, the
  paused video and the repaint throttle are tied together by calls from ten
  handlers. A timer handle must name its owner's timer or none; the screen is
  idle or counting down; a hidden form holds no secret; a repaint that is asked
  for happens.
- *Power actions.* One runs only from a popover that asked about it, once.
- *Buffers and frames.* A size can change while a frame is pending, a monitor
  can be plugged in while the session is locked, and the compositor holds
  buffers for as long as it likes: what it reads must not be painted over, and
  nothing may leave an output dirty with no frame to come.
- *Two mirrors of a queue.* The recorder and the locker rebuild the daemon's
  queue from copies of other programs' messages: calls without their answers,
  answers matched by cookie, closings. A card must keep its identity, content
  and order through replacements, limits and the hand-over of the backlog.
- *Two threads, four steps.* `post()` fills a queue and then writes an eventfd;
  the loop reads the eventfd and then takes the queue. mpv, in turn, announces
  events once until its queue has been read to the end. A closure or an event
  that is left behind stays behind.
- *Sizes that change between two calls.* The video's width and height are two
  questions to mpv; the buffer, its size and the flag that it may be drawn must
  agree after any answer.
- *What is held down.* A key repeats by a timer that nobody but a release, a
  leave or another key stops; the pointer is resolved to a monitor once, at its
  enter. Keyboards, keymaps, rates, focus and monitors change meanwhile.
- *A cache that owns.* Icons are drawn from surfaces the cache may evict for the
  next one, and looked up by names that have several spellings.
- *Snapshots.* The media panel is read call by call from players that change
  meanwhile, and pressed as it was last drawn.

## 2. The modules

| module | models | extends |
|---|---|---|
| `AuthGate` | what the locker promises, seen from the compositor (abstract) | |
| `PamAuthenticator` | `auth/PamAuthenticator` and the worker thread | |
| `Login` | the secret's path through `LockScreen`: password, status, submit, result | `PamAuthenticator` |
| `LockSession` | `LockSession`, the outputs of `WaylandDisplay`, the wire, the compositor | |
| `QyprLock` | `App::run`, the loop, and the composition of the above | `Login`, `LockSession` |
| `QyprLock_proofs` | proofs about `QyprLock` | `QyprLock` |
| `EventLoop` | epoll batches, timers and their descriptor numbers | |
| `PostQueue` | `EventLoop`'s door for other threads, step by step | |
| `Video` | `VideoPlayer`: mpv's events, the frame buffer, pause and resume | `PostQueue` |
| `Video_proofs` | proofs about `Video` and its queue | `Video` |
| `Seat` | keyboard, key repeat, pointer and cursor, against hotplug | |
| `Seat_proofs` | proofs about `Seat` | `Seat` |
| `Icons` | `IconResolver`: names, files, cache, base64; what a card is drawn with | |
| `Icons_proofs` | proofs about `Icons` | `Icons` |
| `PowerGate` | what the power popover promises (abstract) | |
| `LockScreen` | the screen's state machine, the popover, the video's pause, key repeat, the repaint throttle | `Login`, `EventLoop` |
| `LockScreen_proofs` | proofs about `LockScreen`, its timers and the popover | `LockScreen` |
| `NotificationMonitor` | the monitor's handlers, from a monitor to a monitor | |
| `Notifications` | applications, daemon and bus; recorder, locker and cards | `NotificationMonitor` |
| `Notifications_proofs` | proofs about `Notifications` and its two mirrors | `Notifications` |
| `Output` | one monitor: scale, sizes, lock surface, buffers, frame callbacks | |
| `Output_proofs` | proofs about `Output` | `Output` |
| `Media` | the players, `MprisController`'s refresh, the panel and its presses | |
| `Media_proofs` | proofs about `Media` | `Media` |
| `MC...` | the instances TLC checks | |

Definitions carry the name of the function they model; `PROJECT.json` maps each
to its lines. The components' operations are operators without a `Next` of
their own, and `QyprLock` and `LockScreen` call them from their actions, each of
which is one callback of the loop thread (or one event of it), one step of the
worker, or one step of the compositor.

**`QyprLock`** takes the granularity of the loop's callbacks. A request travels
`outbuf` (libwayland's buffer), then `toComp` (the socket) once something
flushes; an event travels `toClient`, then `inq` (read by the client, not yet
dispatched). `pc` says where the loop thread is; `roundtrip` is the wait inside
`unlock()`. The compositor grants, refuses, revokes, plugs and unplugs outputs,
sends keys and crashes when it likes; a request the protocol forbids at that
moment sets `protoError` and kills the connection. A password is `""`, `"right"`
or `"wrong"`: what PAM can tell apart. PAM may refuse a right password.

**`LockScreen`** keeps the screen in one record `ui`, because one handler often
calls four or five members that each change part of it: every member function
is an operator from record to record, composed in the order of the C++ calls.
`EventLoop`'s timers are the fields `timers` (descriptor number to purpose) and
`expired`; `NewFd` gives the lowest free number as the kernel does. `EpollWait`
returns up to `MaxBatch` descriptors and the loop visits them in any order, each
looked up at the moment of its visit. Input arrives through the Wayland
descriptor, the repeat timers, or a roundtrip. The loss of the connection and
hotplug are `QyprLock`'s matter and not repeated here.

**`NotificationMonitor`** is a pure module: a monitor is a record (`notes`,
`pending`, `nextKey`, and `changed` for the callback), and each D-Bus handler an
operator on it. **`Notifications`** has two of them. The bus is the order in
which the daemon and the applications send; a monitor's `feed` is what it has
been sent and has not read. The daemon (external) takes calls in the order the
bus has them, gives every notification a new id, and keeps to the notification
specification; `undismissed` is what its user has not closed. The view's
`cards` change at once with the monitor, its `layout` only when drawn, as in
`NotificationView`; a press on a card's × takes it out, one elsewhere on it opens
or shuts it. `closed` is a history of the cards taken out since the last
`update()`, and `given` one of the backlog: the locker's keys up to it are cards
it was given. One output draws; with several, `layout_` is that of the last. The
recorder may lose its monitor and go on serving (`deaf`), or die and come back.

**`Output`** is `wayland/Output` alone. A size is its width; a buffer's is its
pixels, and the buffers are a set told apart by an id, the least free one when
one is made; `held` is what the compositor uses, `shown` the last commit. `render()`
appears as an operator, because `invalidate`, `onFrame` and `onConfigure` call
it; a buffer that cannot be allocated is one of its outcomes. A monitor that was
there before `connect()` has its scale before its surface, one that comes later
the other way round.

**`PostQueue`** splits what `QyprLock` takes in one step: `Push` and `WriteWake`
are the halves of `post()`, `ReadWake` and `TakePosted` those of the eventfd's
callback. **`Video`** puts mpv's threads and PAM's worker on it. `core` is the
part of mpv that the player depends on: a queue, its `need` (it will not call
the wakeup callback again until its queue was found empty, `need_wakeup` in
mpv), and the size of the video, which changes between the two questions of
`ensureBuffer` (`Tick`, `TickHeight`). One call of `mpv_wait_event` is one step.
That the picture is drawn, and the two timers' descriptors, are `LockScreen`'s.

**`Seat`** has the handlers of one seat in the order in which the client
dispatches the compositor's events. A timer is its kind and its milliseconds
(`addTimer` with 0 arms nothing), modifiers are a choice in `HandleKey`, and
outputs have as much life as the pointer can tell: a surface of an output that
is gone arrives as null. `due` and `lost` are history variables: the key the
user may expect to repeat, and that a keyboard was taken away while one did.

**`Icons`** writes a name as the sequence of its words and marks, so that the
conversions of `resolveName` are what they do to words. A surface is the file it
was loaded from; `disk` changes as applications come and go, and any load may
fail. `DrawCard` is what `drawCard` does with icons: the hint, then the
application, in the cache or through it.

**`Media`** takes the granularity of D-Bus calls: `call` says whose answer
`refresh()` waits for, with the loop thread blocked and the players going on. The
vectors of players are sets, read in the order of the bus (`Order`, `First`).
`panel` is what the last `draw()` left behind, which presses are tested
against.

## 3. The checks

| run | instance | what it shows |
|---|---|---|
| `lock_safety` | one output, four key events of four kinds | `TypeOK`; no result lost, doubled or reordered (`ResultsConserved`); "Authenticating..." only while an attempt is outstanding (`StatusHonest`); `unlock_and_destroy` never before `locked` (`UnlockNeverEarly`); `QyprLock` implements `AuthGate` (`GateHolds`) |
| `lock_live` | two outputs, one plugged in later; two key events; fair | `SuccessOpens`, `AttemptResolves`, `LossExits`, `HeadsGetCovered`, and `NoSurfaceAfterRelease` with hotplug |
| `screen_safety` | four inputs of six key kinds and every place of the pointer, two keys that repeat, six descriptor numbers, batches of two | `TypeOK`, `HandlesOwnTimers`, `HiddenHoldsNothing`, `IdleOrCounting`, and that the popover implements `PowerGate` (`PowerGateHolds`) |
| `screen_live` | three inputs, fair | `GoesIdle`, `QuestionEnds` |
| `notes_safety` | three calls with replacements, two notes and two pending calls held, one card visible; recorder and locker one message behind | `TypeOK`; an id is of one card (`NoTwins`); a card that nothing on its way concerns is what the daemon shows, in the recorder and, but for its backlog, in the locker (`NoGhosts`); the cards are the notes as they are now, all of them but those closed by hand since they changed (`CardsCurrent`), and are pressed as drawn (`PressHitsDrawn`) |
| `output_safety` | two sizes, two scales, one spare callback; fair | `TypeOK`, `ThrottleSound`, `NeverPaintsHeld`, `DirtyGetsPainted` |
| `media_panel` | three players in any state, two of them of the priority list and one with a volume; one change at any point, two presses or drags; fair | `TypeOK`, `RefreshAccurate`, `PanelCatchesUp` |
| `video_player` | videos of four sizes, two events waiting, two results of PAM on the same queue; fair | `TypeOK`; no closure is left lying (`WakeupOwed`), no event of mpv (`EventsOwed`, `EventsGetRead`); what is drawn is a filled frame of the size it is drawn as (`FrameFits`) |
| `seat_input` | two monitors, three keys of which two repeat, rates 0, 25 and 2000, delays 0 and 600 | `TypeOK`; what repeats is what is held (`RepeatsTheHeldKey`); the pointer is handed on with the size of its monitor (`PointerOverItsOutput`) |
| `icons_cache` | two applications that share a file, an icon given by its path, two directories of two places, a cache of two | `TypeOK`; what is painted is owned by the cache (`CacheOwnsDrawn`); the best file wins (`BestFile`); and, once, `Base64Exact` |

Two further runs look for, and find, a disagreement between the code and what
the repository says of it; see section 5.

*The bounds.* Four keys are two whole attempts (type, submit, type, submit),
which is what overlapping results need, or one attempt with edits; the second
attempt may begin before the first result is dispatched. Two outputs are one
present at the start and one hotplugged at any moment: outputs do not interact
with each other. Six descriptor numbers are one more than the timers that can
be armed at once (clock, idle, hide, render, repeat), so that a number is always
free (`FdsSuffice`; `LockScreen_proofs` shows that it suffices); with fewer the
model could not arm a timer, with more nothing changes, as the lowest is taken. Batches of two are enough for a callback to close what a
later event of the batch names. Four inputs reach every pair of a state of the
screen (hidden, revealed, pill open, popover up, idle) and a further input, with
repeats: the longest such path is reveal, open, choose, confirm. Results and
attempts are bounded by the inputs.

Three calls are what it takes to overtake (a notification, its replacement, and
another that pushes a card over the limit), and two is the least limit at which
one note stays when another is dropped. `OneMonitorAtATime` is a constraint: the
recorder goes once the locker has its backlog. From then on neither has an
effect on the other, so nothing is lost but their product. In `output_safety`
the compositor takes no new frame while it holds two buffers (`MaxHolds`);
`MaxBuffers` is more than holds and callbacks can then use, so it never limits:
`TypeCorrect` of `Output_proofs` shows that an id is left whenever one is asked
for. Of the three players the one that is not on the priority list comes first, so
that `pickActive` prefers a later player to an earlier one for its priority and,
among those of the list, for playing; that among players outside the list one
that plays is preferred needs a fourth and is left to `RefreshCorrect`. One change
falls into each gap of a refresh.

Two events are one that mpv announces and one that it does not, because the
first has not been read; two results put a closure before and after mpv's. Sizes
of two widths and two heights make a width and a height of different videos
possible. Two repeating keys are the one that repeats and one that takes it
over, the third is one that does neither. Two monitors are the pointer's and
another that could be taken for it. A cache of two is full after one card whose
hint and application both have icons; its limit in the code is 32. Two files
are enough for the better and the worse.

*Deadlock* is checked in the runs of `QyprLock`, `LockScreen`, `Media`, `Video`,
`Seat` and `Icons`; the process that is gone stutters (`Gone`, `Stopped`). `Notifications` may stop,
when every application has made its calls and all is read, and so may `Output`,
when the monitor is gone.

## 4. Fairness

`QyprLock!FairSpec`: the loop thread is never descheduled for good and epoll
reports what is ready; PAM answers and the worker ends (PAM modules have
timeouts of their own); the compositor reads its socket. Nothing is assumed of
when the compositor grants, or of the user.

`LockScreen!FairSpec`: the loop visits what epoll returned and finishes the
batch of results; a roundtrip ends (it is answered, or the connection is lost);
epoll passes no descriptor over for ever although batches are small (it rotates
its ready list), hence strong fairness for the Wayland, clock and idle
descriptors; the frame callback a surface is owed arrives. Time is not modelled:
"a timer that is left armed expires" is strong fairness of its report. Since
inputs are bounded, a timer is re-armed only finitely often, so the assumption
never forces an expiry that a steady stream of input would prevent. A
compositor that sends no frame callbacks (the output is off) is outside
`QuestionEnds`: there the popover stays up past its countdown (section 5).

`Output!FairSpec`: the compositor sends the callbacks it owes and gives back
every buffer but the one it shows; the loop dispatches them.

`Video!FairSpec`: threads are scheduled, and a thread in `post()` gets through
it; epoll passes no descriptor over for ever, hence strong fairness of
`ReadWake`, which a tick of the render timer disables for a moment. Nothing is
assumed of mpv or of PAM beyond that their threads run.

`Media!FairSpec`: calls are answered, if by D-Bus's timeout; the clock's timer
goes on; and what is invalidated is drawn, now and then before the next tick,
hence strong fairness of `Draw`, which a refresh disables. It is the repaint
that `LockScreen` and `Output` show to happen, on a screen that stays revealed.

## 5. Where code and text disagree

Two are runs that TLC ends with a counterexample.

- `lock_protocol`: `LockSession.hpp` says the protocol is never misused. If PAM's
  Success is dispatched after the compositor has granted the lock and before the
  client has read `locked`, `unlock()` sees `locked_` false and sends `destroy`
  for a granted lock: a protocol error, the connection is killed and the session
  stays locked without a locker. `UnlockNeverEarly` shows that this is the only
  misuse.
- `notes_backlog`: "To also carry the pre-lock backlog". `List()` is answered
  from what the recorder has read so far, and the locker becomes a monitor after
  it: a notification in between is in neither, and not on the screen. Likewise a
  card of the backlog that is closed in between stays. `NoGhosts` shows that
  the damage ends there: the cards the locker makes itself are right.

Seen while modelling, and left without a run:

- `App::run` returns 0 after a refusal, a revocation and a lost connection,
  where the manual (`src/man/man1/qypr-lock.1`) gives 0 to an unlocked session.
- `LockScreen.hpp` says "Any input reverses both" (pause and fade); Escape,
  Return and everything the popover consumes do not call `reveal()`.
- A recorder that has lost its monitor goes on to answer `List()` from a mirror
  that stands still (`RecorderLosesMonitor`).
- When the notification daemon restarts it counts from 1 again; nothing tells the
  monitor, so cards of the old and the new daemon share ids.
- Cards "dismiss on click" says the repository's `README.md` (lines 18-19), "Click
  a card to dismiss it" `ui/Notification.hpp` (48), "dismiss on click"
  `ui/LockScreen.cpp` (296). A press on a card opens or shuts it (`PressCard`, `ui/Notification.cpp:192-197`); only one
  on its × dismisses it. `CardsCurrent` and `PressHitsDrawn` take no side: they
  speak of the card a press acts on, not of what the press ought to do to it.
- And what the × removes it removes from the view only (`PressClose`); the next
  update brings it back (`Update`).
- A notification that is closed while its replacement is on its way to the
  daemon is removed with the new content (`HandleClosed` after `Replace`), which
  the daemon goes on to show.
- `readSnapshot` makes a valid snapshot of a player that has left since it was
  picked (`ReadAnswered`), and `active()` then shows a panel of nobody until the
  next tick, where `AudioController.hpp` says "Only drawn while audio is
  active". `PanelCatchesUp` shows that it passes.
- A drag of the volume goes on with whatever player the next refresh picks.
- "Begin the idle countdown; any input resets it". When an input and the expired
  idle timer are in one epoll batch, the input first, `reveal()` closes the old
  timer, the new one gets its number, and the stale event runs its callback at
  once: the screen dims right after the input. `HandlesOwnTimers` holds all the
  same: the callback is the idle timer's own.
- "Letting the countdown expire" dismisses without acting, but only `draw()`
  looks at the countdown: Return after its end and before the next frame still
  runs the action.
- The surface of a monitor that is plugged in while locked is made by
  `onGlobal`, with scale 1 (`surfaceScale` in `Output`); the scale arrives after
  it and goes to the buffers alone. Any later change of scale does the same.
- A keyboard that is lost while a key repeats leaves the timer running, with the
  last keymap, until another keyboard presses a key or loses the focus (`lost` in
  `Seat`).
- `pointerOutput_` outlives its `Output` when a monitor is removed before the
  pointer has left it (`OnPtrMotionOrButton` reads what is there). An enter with
  a surface that is gone matches any output without a surface.
- A second `wl_seat` would replace the `Seat`, while the first one, which is
  never destroyed, keeps the address of the old one for its events.
- Icons that cannot be found are looked for again in every frame, as only hits
  are cached; and with the cache full, a card whose hint and application both
  miss may evict one for the other in every frame.

## 6. What is proved

`QyprLock_proofs`, for any finite set of outputs, any of the key kinds and any
number of key events, hence of attempts:

- `TypeCorrect`: `Spec => []TypeOK`. The invariant proved is `Shape`, which adds
  `LoopShape`: the loop thread is in the middle of a batch only with something
  left of it, without which `Head(batch)` and `Head(inq)` have no type. Each
  component has a lemma per operation (`...Typed`) and a frame lemma.
- `GateCorrect`: `Spec => GateHolds`, the refinement of `AuthGate`. A release
  that arrives at the compositor must find `passed` true, which is known only of
  the time it was written; so the invariant (`GateInv`) follows it backwards: an
  `unlock` on the wire was preceded by a Success (`WireGate`), a Success in a
  queue by PAM's answer (`QueueGate`), and the session follows the lock object
  (`LockGate`). `GateStep` proves it inductive together with the step
  simulation.
- `ResultsCorrect`: `Spec => []ResultsConserved`; inductive together with
  `Shape`.
- `StatusCorrect`, `UnlockCorrect`, `SurfacesCorrect`: `StatusHonest`,
  `UnlockNeverEarly` and `NoSurfaceAfterRelease`, from `OrderInv`, which is
  `GateInv` with three facts about order: on the wire the request to lock comes
  first, behind a release there is nothing but a sync, and `unlock` is there
  only once the lock was granted (`WireOrder`); while the client has an active
  lock it has not given it up, and it believes itself locked only after the
  grant (`ClientKnows`); and a `locked` event is under way only after the grant
  (`GrantTold`). None of the properties is
  inductive alone: what a request means is decided when it is written, and what
  it does when it arrives.

`Output_proofs`, for any sizes and scales and all bounds on what the compositor
holds and owes:

- `TypeCorrect`: `Spec => []TypeOK`. With `BuffersSound`: ids are distinct, a buffer is
  busy just while the compositor holds it, and none that is held is forgotten
  when sizes change; and with `Paced`: the compositor holds no more than it may
  and one per callback it owes. A buffer is made only when all are busy, so an
  id is left for it.
- `ThrottleCorrect`: `Spec => []ThrottleSound`, from the same invariant
  (`OutputInv`), in which a monitor that is not there yet has nothing
  outstanding (`Unplugged`).
- `PaintCorrect`: `Spec => NeverPaintsHeld`, an action property: what is painted
  is not busy, hence not held (`BuffersSound`).

`LockScreen_proofs`, for any keys, power actions, descriptors and any number of
inputs. A handler is the composition of member functions, and each of these has
a lemma: what it needs, and that it keeps the screen `Sound(s, H)`, which is the
invariant with a set `H` of handles that a callback has still to set or clear.
`LoopShape` says that the loop runs results only with something to run.

- `TypeCorrect`: `Spec => []TypeOK`; the timers that are armed are at most five,
  so `NewFd` always finds a number (`FdsSuffice`).
- `HandlesCorrect`: `Spec => []HandlesOwnTimers`. It has to hold in the middle of
  a handler too, as one member closes what another has armed.
- `HiddenCorrect`, `IdleCorrect`: `Spec => []HiddenHoldsNothing` and
  `Spec => []IdleOrCounting`, with `Tucked` and `Watched`, their parts about the screen's
  record.
- `PowerGateCorrect`: `Spec => PowerGateHolds`, the refinement of `PowerGate`:
  every step of the loop is a step of the popover or leaves it alone.

`Icons_proofs`, for any applications, directories, places and limits:

- `TypeCorrect`, `CacheCorrect`: `Spec => []TypeOK` and `Spec => []CacheOwnsDrawn`,
  inductive together with `Sound`: the cache is finite, within its limit, keeps
  no miss and nothing under the empty name. The lookup of the application comes
  after a miss of the hint only, so what it evicts is not what is painted.
- `BestCorrect`: `Spec => []BestFile`. `resolveName` tries a list of candidates in
  nested loops; the property says which file is least in a rank of name,
  directory and place. The proof goes by a predicate on such lists (`FirstHit`:
  the first that is there, or none), which holds of a concatenation when it does
  of its parts, and by the order of ranks as numbers of three digits.

`Media_proofs`, for any players in any order, any priorities, tracks and volumes:

- `TypeCorrect`: `Spec => []TypeOK`, with `Asking`: there is always a player to
  ask when an answer comes.
- `RefreshCorrect`: `Spec => []RefreshAccurate`. While nothing changes under it,
  the refresh knows who plays first of those it has asked (`Scanned`), that none
  of the priority list it has asked plays (`Preferred`), and what it has read of
  the player to show (`Reading`); a drag changes snapshot and player alike
  (`SetVolumeIs`). That the player to show is unique and always there
  (`BestIs`, `BestExists`) makes what the steps find the one the property means.

`Notifications_proofs`, for any limits (`kMaxHeld`, `kMaxPending`, the cards that
fit), any number of calls and restarts, and feeds of any length. The invariant
(`Inv`) has to say what a mirror *will* hold when it has read what it was sent,
so its parts speak of notes `N`, pending calls `P`, the feed `f` and the calls
`td` that the daemon has not come to. `Mirror`, of either monitor:

- an id is in a message only after the daemon has told it (`Known`), and a call
  is read once and pending under a key of its own (`Once`);
- the reply in the feed tells its note the id that it has already, or one that
  no note has and no earlier message mentions (`Answering`). This is the core:
  `replaces_id` gives a note its id before the reply, and the application that
  was told an id may use it while the mirror has not read the reply;
- a call that waits for the daemon is remembered as it was sent (`Waiting`),
  and a note without an id says what its call said (`Quoting`);
- ids are of one card (`Apart`).

`Following`, of a recorder that has kept its monitor and of the notes of a
locker that are not from its backlog: a note, a call or a reply
after which the feed has nothing on its id says what a waiting replacement says,
or else what the daemon was told last (`SaysNotes`, `SaysCalls`,
`SaysReplies`). Each kind of message read, each handler of the monitor and each
event of the bus has a lemma per part; a recorder that starts late, a note that
is pushed out and a call that is forgotten only take something away. `Counted`
bounds the daemon's ids, `Viewed` relates the cards, their keys and the layout.

- `TypeCorrect`, `TwinsCorrect`: `Spec => []TypeOK` and `Spec => []NoTwins`.
- `GhostsCorrect`: `Spec => []NoGhosts`: of an id that nothing on its way concerns,
  `Following` says what the property says. For the locker it is of `Own`, the notes of keys above
  `given`: what a monitor does with all its notes it does with any part of them
  that keys mark off (`ReadsSome`), and the part inherits `Talk` (`TalkSome`). So a
  locker that begins late or with a stale backlog is wrong about that backlog only.
- `CardsCorrect`, `PressCorrect`: `Spec => []CardsCurrent` and
  `Spec => []PressHitsDrawn`, as `update` clears the layout it invalidates. The
  cards are the notes of the last `update`, less what presses have closed since
  (`Shown`, `Complete`); a handler that does not ask for the callback leaves the
  notes as they were, for all that a view shows of them (`Shows`), and a press
  takes the one key out of the cards that it puts into `closed`.

`Video_proofs`, for all sets of video sizes, any number of events of mpv and any
number of results of PAM:

- `TypeCorrect`: `Spec => []TypeOK`. It is proved as `Shape`: between
  `ensureBuffer`'s two questions the width is one of a video, so that the pair
  it makes is a size.
- `WakeupOwedAlways`: `Spec => []WakeupOwed`, inductive as it stands.
- `EventsOwedAlways`: `Spec => []EventsOwed`. That mpv calls only once is what
  makes it hard: the invariant (`Wakeup`) says that while mpv's `need_wakeup` is
  set its callback is under way, or a `processEvents` is posted or taken; that a
  thread still to write the eventfd has left one there; and that the batch is
  empty unless it is being run, or taking the queue would lose one. That queues
  keep what they hold is shown by lemmas on sequences (`AppendHolds`,
  `TailHolds`).
- `FrameFitsAlways`: `Spec => []FrameFits`, with `Fits`: the buffer has the size
  the player takes it for, with content or without.

`Seat_proofs`, for any sets of outputs and keys and all rates and delays:

- `TypeCorrect`: `Spec => []TypeOK`, with `Shape`: a timer that is there has a
  key, and there is none before a keymap.
- `RepeatCorrect`: `Spec => []RepeatsTheHeldKey`, with `RepeatsInv`: once a
  keyboard is lost while a key repeats, nothing is due until the exception ends,
  or a release of that key would leave something due. `IntervalOf` is the
  arithmetic: `1000 / rate` is positive exactly for the rates 1 to 1000.
- `PointerCorrect`: `Spec => []PointerOverItsOutput`, with `PointerInv`: the
  pointer is over a lock surface of a monitor that is there or was, so a monitor
  plugged in, or covered by `lock()`, is never the one under it.

They use the assumptions of the modules (`OutputsAssumption`: finitely many
outputs, the initial ones among them; `KeyKindsAssumption`;
`MaxKeysAssumption`; `KeysAssumption`, `FdsAssumption` and `FdsSuffice` of
`LockScreen`; `OutputAssumption`; `IconsAssumption`; `MediaAssumption`: the bus
lists a player once; `VideoBoundsAssumption`; `PostersAssumption`: who posts;
`SeatRatesAssumption`; `NothingAssumption`; `LimitsAssumption` and
`NotificationBoundsAssumption`: a mirror may hold a card, a call may wait), which
TLC evaluates in the runs.

Only model-checked: every liveness property (`SuccessOpens`, `AttemptResolves`,
`LossExits`, `HeadsGetCovered`, `GoesIdle`, `QuestionEnds`, `DirtyGetsPainted`,
`EventsGetRead`, `PanelCatchesUp`), as fairness and `ENABLED` are out of the
prover's reach. `Base64Exact` is about a recursive operator over all inputs, which needs
an induction the prover cannot do. `BacklogComplete` does not hold (section 5).

## 7. What is left

Not modelled, and why:

- *Drawing* (`render/Painter`, `ui/Clock`, `ui/PasswordField`, ...): pixels from
  state. What `draw` functions change (the countdown, hit-test caches, button
  flags) is modelled.
- *`power/PowerManager`*: forks `systemctl`; it is the action a popover runs.
- *`App::preview` and `videoTest`, argument parsing*: tools without state.
- *Time*: timers expire when they like. Durations are left out, except that
  `Seat` knows a timer that is never armed (`--idle-timeout 0` is ignored).
- *Geometry*: a press is at a place, not at a point.
- *Players that are listed and do not play along*: one that says `CanControl` is
  false, or whose calls fail while it stays on the bus. In `Media` every player can
  be controlled, and a call fails when the player has gone.

Planned, in this order:

1. `Notifications` further: a daemon that restarts and counts from 1, and the
   failure of the connection on which the recorder serves `List`.
2. Every safety property that a run checks has its theorem. An induction over
   the sextets would give `Base64Exact` for icons of any length.
