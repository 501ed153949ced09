-------------------------------- MODULE Seat ---------------------------------
(***************************************************************************)
(* wayland/Seat and wayland/Cursor: the keyboard with its key repeat and   *)
(* the pointer with the output it is over, while capabilities, focus and   *)
(* outputs (wayland/WaylandDisplay) come and go.  One seat.                *)
(*                                                                         *)
(* The user and the compositor (external) are seen through the events they *)
(* send, in the order in which the client dispatches them.                 *)
(***************************************************************************)
EXTENDS Integers

CONSTANTS
    Outputs,
    Keys,
    TextKeys,       \* those that give text unless Ctrl or Alt is down
    SpecialKeys,    \* isSpecial()
    Repeating,      \* xkb_keymap_key_repeats()
    Rates,          \* of repeat_info: keys a second
    Delays,         \* of repeat_info: milliseconds
    Nothing         \* no key, no output

ASSUME SeatKeysAssumption ==
    TextKeys \subseteq Keys /\ SpecialKeys \subseteq Keys \ TextKeys /\ Repeating \subseteq Keys
ASSUME SeatRatesAssumption == Rates \subseteq Int /\ Delays \subseteq Int
                              /\ 25 \in Rates /\ 600 \in Delays
ASSUME NothingAssumption == Nothing \notin Keys \cup Outputs

VARIABLES
    seat,       \* Seat's members
    sink,       \* the last call of InputSink
    life,       \* of each output; "covered" with a lock surface
    active,     \* WaylandDisplay::activeLock_ is set
    focus,      \* wl_keyboard has entered one of the surfaces
    held,       \* keys that are down, as far as wl_keyboard has told
    over,       \* the output whose surface wl_pointer has entered
    image,      \* the compositor shows a cursor for that enter
    due,        \* history: the key the user may expect to repeat
    lost        \* history: the keyboard went while a key repeated, and none since

keyVars == <<focus, held, due, lost>>
pointerVars == <<over, image>>
displayVars == <<life, active>>
vars == <<seat, sink, keyVars, pointerVars, displayVars>>

\* repeatTimer_ with what addTimer was given, and what the delay's callback will give it.
NoTimer == [kind |-> "none", ms |-> 0, next |-> 0]
Interval(rate) == IF rate <= 0 THEN 0 ELSE 1000 \div rate
DelayTimer(delay, rateMs) == [kind |-> "delay", ms |-> delay, next |-> rateMs]
RateTimer(rateMs) == [kind |-> "repeat", ms |-> rateMs, next |-> rateMs]

Calls == [call : {"text", "special"}, of : Keys] \cup [call : {"motion", "button"}, of : Outputs]
         \cup [call : {"none", "leave"}, of : {Nothing}]

TypeOK ==
    /\ seat \in [keyboard : BOOLEAN, pointer : BOOLEAN, xkb : BOOLEAN,
                 rate : Rates, delay : Delays,              \* repeatRate_, repeatDelay_
                 key : Keys \cup {Nothing},                 \* repeatKeycode_
                 timer : {NoTimer} \cup {RateTimer(Interval(r)) : r \in Rates}
                         \cup {DelayTimer(d, Interval(r)) : d \in Delays, r \in Rates},
                 output : Outputs \cup {Nothing},           \* pointerOutput_
                 cursor : {"unbuilt", "empty", "built"}]    \* cursorInit_, cursor_
    /\ sink \in Calls
    /\ life \in [Outputs -> {"absent", "bare", "covered", "gone"}]
    /\ active \in BOOLEAN
    /\ focus \in BOOLEAN /\ held \subseteq Keys
    /\ over \in Outputs \cup {Nothing} /\ image \in BOOLEAN
    /\ due \in Keys \cup {Nothing} /\ lost \in BOOLEAN

-----------------------------------------------------------------------------
\* Key repeat.

StopRepeat(s) == [s EXCEPT !.timer = NoTimer, !.key = Nothing]

\* MUTANT of StartRepeat: a rate of 0 is looked at before the old repeat is stopped.
StartRepeatLate(s, k) ==
    IF s.rate <= 0 THEN s
    ELSE [s EXCEPT !.key = k, !.timer = DelayTimer(s.delay, Interval(s.rate))]

StartRepeat(s, k) ==
    IF s.rate <= 0 THEN StopRepeat(s)
    ELSE [s EXCEPT !.key = k, !.timer = DelayTimer(s.delay, Interval(s.rate))]

\* handleKey: as text, as a special key if it is one or with Ctrl or Alt, or not at all.
HandleKey(k) ==
    \/ k \in TextKeys /\ sink' = [call |-> "text", of |-> k]
    \/ sink' = [call |-> "special", of |-> k]
    \/ k \notin TextKeys \cup SpecialKeys /\ sink' = sink

\* addTimer arms nothing with an interval that is not positive.
RepeatFires ==
    /\ seat.timer.kind # "none" /\ seat.timer.ms > 0
    /\ HandleKey(seat.key)
    /\ seat' = [seat EXCEPT !.timer = RateTimer(seat.timer.next)]
    /\ UNCHANGED <<keyVars, pointerVars, displayVars>>

-----------------------------------------------------------------------------
\* Keyboard.

OnKeyboardCapability ==
    \/ /\ ~seat.keyboard
       /\ seat' = [seat EXCEPT !.keyboard = TRUE]
       /\ UNCHANGED keyVars
    \/ /\ seat.keyboard
       /\ seat' = [seat EXCEPT !.keyboard = FALSE]
       /\ focus' = FALSE /\ held' = {} /\ due' = Nothing
       /\ lost' = (lost \/ seat.timer # NoTimer)
OnKeyboard == OnKeyboardCapability /\ UNCHANGED <<sink, pointerVars, displayVars>>

\* A keymap that cannot be used leaves the old one, or none.
OnKeymap ==
    /\ seat.keyboard
    /\ \E usable \in BOOLEAN : seat' = [seat EXCEPT !.xkb = usable \/ @]
    /\ UNCHANGED <<sink, keyVars, pointerVars, displayVars>>

\* MUTANT of OnRepeatInfo: the two numbers swapped.
RepeatInfoSwapped ==
    /\ seat.keyboard
    /\ \E rate \in Rates, delay \in Delays :
          seat' = [seat EXCEPT !.rate = delay, !.delay = rate]
    /\ UNCHANGED <<sink, keyVars, pointerVars, displayVars>>

OnRepeatInfo ==
    /\ seat.keyboard
    /\ \E rate \in Rates, delay \in Delays :
          seat' = [seat EXCEPT !.rate = rate, !.delay = delay]
    /\ UNCHANGED <<sink, keyVars, pointerVars, displayVars>>

\* With the keys that are down already, which the handler does not look at.
OnKbEnter ==
    /\ seat.keyboard /\ ~focus
    /\ \E o \in Outputs : life[o] = "covered"
    /\ focus' = TRUE
    /\ held' \in SUBSET Keys
    /\ UNCHANGED <<seat, sink, due, lost, pointerVars, displayVars>>

\* MUTANT of OnKbLeave: the repeat runs on.
LeaveRepeating ==
    /\ focus
    /\ focus' = FALSE /\ held' = {} /\ due' = Nothing
    /\ UNCHANGED <<seat, sink, lost, pointerVars, displayVars>>

OnKbLeave ==
    /\ focus
    /\ focus' = FALSE /\ held' = {} /\ due' = Nothing
    /\ seat' = StopRepeat(seat) /\ lost' = FALSE
    /\ UNCHANGED <<sink, pointerVars, displayVars>>

\* A rate and a delay with which both timers are armed.
Usable(s) == s.rate \in 1 .. 1000 /\ s.delay > 0

KeyPressed(k) ==
    IF ~seat.xkb
    THEN UNCHANGED <<seat, sink, due, lost>>
    ELSE /\ HandleKey(k)
         /\ IF k \in Repeating
            THEN /\ seat' = StartRepeat(seat, k)
                 /\ due' = IF Usable(seat) THEN k ELSE Nothing
                 /\ lost' = FALSE
            ELSE UNCHANGED <<seat, due, lost>>

KeyReleased(k) ==
    /\ sink' = sink
    /\ due' = IF due = k THEN Nothing ELSE due
    /\ IF seat.xkb /\ seat.key = k
       THEN seat' = StopRepeat(seat) /\ lost' = FALSE
       ELSE UNCHANGED <<seat, lost>>

OnKey ==
    /\ focus
    /\ \E k \in Keys : \/ k \notin held /\ held' = held \cup {k} /\ KeyPressed(k)
                       \/ k \in held /\ held' = held \ {k} /\ KeyReleased(k)
    /\ UNCHANGED <<focus, pointerVars, displayVars>>

-----------------------------------------------------------------------------
\* Pointer.

OnPointerCapability ==
    /\ seat' = [seat EXCEPT !.pointer = ~@]
    /\ over' = Nothing /\ image' = FALSE
    /\ UNCHANGED <<sink, keyVars, displayVars>>

\* The surface of an output that is gone is null by the time the event is dispatched.
Surface(o) == IF life[o] = "covered" THEN o ELSE Nothing

\* MUTANT of OutputForSurface: any output will do.
AnyOutput(surface) == {o \in Outputs : life[o] \in {"bare", "covered"}}

\* outputForSurface(): whose surface it is; null is that of an output without one.
OutputForSurface(surface) ==
    {o \in Outputs : life[o] \in {"bare", "covered"} /\ Surface(o) = surface}

\* Nothing if there is none, the first in the order of outputs_ if there are several.
Resolved(surface) ==
    IF OutputForSurface(surface) = {} THEN {Nothing} ELSE OutputForSurface(surface)

\* applyCursor(), Cursor::Cursor: built at the first enter, from a theme that may be missing.
CursorBuilt == IF seat.cursor = "unbuilt" THEN {"empty", "built"} ELSE {seat.cursor}

OnPtrEnter ==
    /\ seat.pointer /\ over = Nothing
    /\ \E o \in Outputs :
          /\ life[o] \in {"covered", "gone"}
          /\ over' = o
          /\ \E resolved \in Resolved(Surface(o)), cursor \in CursorBuilt :
                /\ seat' = [seat EXCEPT !.output = resolved, !.cursor = cursor]
                /\ image' = (cursor = "built")
    /\ UNCHANGED <<sink, keyVars, displayVars>>

OnPtrLeave ==
    /\ over # Nothing
    /\ over' = Nothing /\ image' = FALSE
    /\ seat' = [seat EXCEPT !.output = Nothing]
    /\ sink' = [call |-> "leave", of |-> Nothing]
    /\ UNCHANGED <<keyVars, displayVars>>

\* onPtrMotion, onPtrButton: with the size of pointerOutput_, or what is read where it was.
Sizes == IF life[seat.output] \in {"bare", "covered"} THEN {seat.output} ELSE Outputs

OnPtrMotionOrButton ==
    /\ over # Nothing
    /\ IF seat.output = Nothing
       THEN sink' = sink
       ELSE \E call \in {"motion", "button"}, size \in Sizes : sink' = [call |-> call, of |-> size]
    /\ UNCHANGED <<seat, keyVars, pointerVars, displayVars>>

-----------------------------------------------------------------------------
\* Outputs.

Lock ==
    /\ ~active
    /\ active' = TRUE
    /\ life' = [o \in Outputs |-> IF life[o] = "bare" THEN "covered" ELSE life[o]]
    /\ UNCHANGED <<seat, sink, keyVars, pointerVars>>

\* unlock(): the surfaces stay; events go on in its roundtrip.
Unlock ==
    /\ active
    /\ active' = FALSE
    /\ UNCHANGED <<seat, sink, keyVars, pointerVars, life>>

OnGlobal ==
    /\ \E o \in Outputs :
          /\ life[o] = "absent"
          /\ life' = [life EXCEPT ![o] = IF active THEN "covered" ELSE "bare"]
    /\ UNCHANGED <<seat, sink, keyVars, pointerVars, active>>

\* A monitor of which nothing is left in the client may as well be another when it comes again.
OnGlobalRemove ==
    /\ \E o \in Outputs :
          /\ life[o] \in {"bare", "covered"}
          /\ life' = [life EXCEPT ![o] = IF @ = "bare" /\ o # seat.output THEN "absent" ELSE "gone"]
    /\ UNCHANGED <<seat, sink, keyVars, pointerVars, active>>

-----------------------------------------------------------------------------
Init ==
    /\ seat = [keyboard |-> FALSE, pointer |-> FALSE, xkb |-> FALSE,
               rate |-> 25, delay |-> 600, key |-> Nothing, timer |-> NoTimer,
               output |-> Nothing, cursor |-> "unbuilt"]
    /\ sink = [call |-> "none", of |-> Nothing]
    /\ life \in [Outputs -> {"absent", "bare"}]
    /\ active = FALSE
    /\ focus = FALSE /\ held = {}
    /\ over = Nothing /\ image = FALSE
    /\ due = Nothing /\ lost = FALSE

Keyboard == OnKeyboard \/ OnKeymap \/ OnRepeatInfo \/ OnKbEnter \/ OnKbLeave \/ OnKey \/ RepeatFires
Pointer == OnPointerCapability \/ OnPtrEnter \/ OnPtrLeave \/ OnPtrMotionOrButton
Display == Lock \/ Unlock \/ OnGlobal \/ OnGlobalRemove

Next == Keyboard \/ Pointer \/ Display

Spec == Init /\ [][Next]_vars

-----------------------------------------------------------------------------
\* Properties.

\* The key whose timer will go on firing.
Repeats == IF seat.timer.ms > 0 /\ seat.timer.next > 0 THEN seat.key ELSE Nothing

\* What repeats is the repeating key that was pressed last, as long as it is held and the
\* keyboard is here, through releases of other keys, changes of rate, keymap and focus.  The
\* one exception is a keyboard that goes while a key repeats: nobody stops the timer until
\* another keyboard presses a key or leaves.  A rate above 1000 or a delay of 0 repeats nothing.
RepeatsTheHeldKey ==
    /\ due # Nothing => focus /\ due \in held
    /\ lost \/ Repeats = due

\* A pointer on the lock surface of a monitor that is there is handed on with the size of that
\* monitor, and has a cursor if there is one.  pointerOutput_ is another only until the next
\* enter, or if the monitor under the pointer was removed before the pointer left it.
PointerOverItsOutput ==
    /\ over # Nothing /\ life[over] = "covered" =>
          /\ seat.output = over
          /\ seat.cursor = "built" => image
    /\ over # Nothing /\ seat.output \notin {Nothing, over} => life[over] = "gone"

=============================================================================
