---------------------------- MODULE Seat_proofs -----------------------------
(***************************************************************************)
(* Proofs about Seat, for every set of outputs and keys and for all rates  *)
(* and delays a compositor may send.                                       *)
(***************************************************************************)
EXTENDS Seat, TLAPS

-----------------------------------------------------------------------------
\* Timers.

\* A rate has an interval in whole milliseconds, which is 0 above 1000 keys a second.
LEMMA IntervalOf ==
    ASSUME NEW r \in Int
    PROVE  Interval(r) \in Nat /\ (Interval(r) > 0 <=> r \in 1 .. 1000)
<1>1. CASE r <= 0
  BY <1>1 DEF Interval
<1>2. CASE r > 0
  <2>1. 1000 \div r \in Nat
    BY <1>2
  <2>2. r <= 1000 => 1000 \div r > 0
    BY <1>2
  <2>3. r > 1000 => 1000 \div r = 0
    OBVIOUS
  <2> QED BY <1>2, <2>1, <2>2, <2>3 DEF Interval
<1> QED BY <1>1, <1>2

TimerType ==
    {NoTimer} \cup {RateTimer(Interval(r)) : r \in Rates}
              \cup {DelayTimer(d, Interval(r)) : d \in Delays, r \in Rates}

SeatType == [keyboard : BOOLEAN, pointer : BOOLEAN, xkb : BOOLEAN,
             rate : Rates, delay : Delays, key : Keys \cup {Nothing},
             timer : TimerType, output : Outputs \cup {Nothing},
             cursor : {"unbuilt", "empty", "built"}]

\* A timer's fields, and the one that takes its place when it has fired.
LEMMA TimerFields ==
    ASSUME NEW t \in TimerType
    PROVE  /\ t.ms \in Int /\ t.next \in Int
           /\ t.kind = "none" <=> t = NoTimer
           /\ t.kind # "none" => RateTimer(t.next) \in TimerType
<1>1. NoTimer.kind = "none" /\ NoTimer.ms = 0 /\ NoTimer.next = 0
  BY DEF NoTimer
<1>2. ASSUME NEW r \in Rates, t = RateTimer(Interval(r))
      PROVE  /\ t.kind = "repeat" /\ t.ms = Interval(r) /\ t.next = Interval(r)
  BY <1>2 DEF RateTimer
<1>3. ASSUME NEW r \in Rates, NEW d \in Delays, t = DelayTimer(d, Interval(r))
      PROVE  /\ t.kind = "delay" /\ t.ms = d /\ t.next = Interval(r)
  BY <1>3 DEF DelayTimer
<1>4. \A r \in Rates : Interval(r) \in Int
  BY IntervalOf, SeatRatesAssumption
<1>5. Delays \subseteq Int
  BY SeatRatesAssumption
<1>6. CASE t = NoTimer
  BY <1>1, <1>6
<1>7. CASE \E r \in Rates : t = RateTimer(Interval(r))
  <2>1. PICK r \in Rates : t = RateTimer(Interval(r))
    BY <1>7
  <2>2. t.kind = "repeat" /\ t.ms = Interval(r) /\ t.next = Interval(r)
    BY <1>2, <2>1
  <2>3. RateTimer(t.next) \in TimerType
    BY <2>2 DEF TimerType
  <2> QED BY <1>1, <1>4, <2>2, <2>3
<1>8. CASE \E d \in Delays, r \in Rates : t = DelayTimer(d, Interval(r))
  <2>1. PICK d \in Delays, r \in Rates : t = DelayTimer(d, Interval(r))
    BY <1>8
  <2>2. t.kind = "delay" /\ t.ms = d /\ t.next = Interval(r)
    BY <1>3, <2>1
  <2>3. RateTimer(t.next) \in TimerType
    BY <2>2 DEF TimerType
  <2> QED BY <1>1, <1>4, <1>5, <2>2, <2>3
<1> QED BY <1>6, <1>7, <1>8 DEF TimerType

-----------------------------------------------------------------------------
\* Type correctness.  A timer that is there has a key, and a keymap gave it.

Shape ==
    /\ TypeOK
    /\ seat.timer # NoTimer => seat.key # Nothing
    /\ ~seat.xkb => seat.timer = NoTimer

LEMMA SeatTyped == TypeOK => seat \in SeatType
BY DEF TypeOK, SeatType, TimerType

\* What the operations on the timer make of a seat.
LEMMA StopRepeatIs ==
    ASSUME NEW s \in SeatType
    PROVE  /\ StopRepeat(s) \in SeatType
           /\ StopRepeat(s).timer = NoTimer
<1>1. NoTimer \in TimerType
  BY DEF TimerType
<1> QED BY <1>1, Zenon DEF StopRepeat, SeatType

LEMMA StartRepeatIs ==
    ASSUME NEW s \in SeatType, NEW k \in Keys
    PROVE  /\ StartRepeat(s, k) \in SeatType
           /\ StartRepeat(s, k).xkb = s.xkb
           /\ s.rate <= 0 => StartRepeat(s, k).timer = NoTimer
           /\ ~(s.rate <= 0) => /\ StartRepeat(s, k).key = k
                                /\ StartRepeat(s, k).timer = DelayTimer(s.delay, Interval(s.rate))
<1> DEFINE timer == DelayTimer(s.delay, Interval(s.rate))
           z == [s EXCEPT !.key = k, !.timer = timer]
<1>1. timer \in TimerType
  BY DEF TimerType, SeatType
<1>2. z \in SeatType /\ z.xkb = s.xkb /\ z.key = k /\ z.timer = timer
  <2> HIDE DEF timer
  <2> QED BY <1>1, Zenon DEF SeatType
<1>3. StopRepeat(s).xkb = s.xkb
  BY Zenon DEF StopRepeat, SeatType
<1> QED BY <1>2, <1>3, StopRepeatIs DEF StartRepeat

LEMMA CallTyped ==
    ASSUME NEW k \in Keys, sink \in Calls, HandleKey(k)
    PROVE  sink' \in Calls
BY DEF HandleKey, Calls

LEMMA ShapeInit == Init => Shape
<1> SUFFICES ASSUME Init PROVE Shape
  OBVIOUS
<1>1. NoTimer \in TimerType
  BY DEF TimerType
<1>2. seat \in SeatType
  BY <1>1, SeatRatesAssumption DEF Init, SeatType
<1>3. seat.timer = NoTimer
  BY DEF Init
<1>4. sink \in Calls
  BY DEF Init, Calls
<1>5. /\ life \in [Outputs -> {"absent", "bare", "covered", "gone"}] /\ active = FALSE
      /\ focus = FALSE /\ held = {} /\ over = Nothing /\ image = FALSE
      /\ due = Nothing /\ lost = FALSE
  <2>1. {"absent", "bare"} \subseteq {"absent", "bare", "covered", "gone"}
    OBVIOUS
  <2> QED BY <2>1 DEF Init
<1>6. /\ active \in BOOLEAN /\ focus \in BOOLEAN /\ held \subseteq Keys
      /\ over \in Outputs \cup {Nothing} /\ image \in BOOLEAN
      /\ due \in Keys \cup {Nothing} /\ lost \in BOOLEAN
  BY <1>5
<1>7. TypeOK
  BY <1>2, <1>4, <1>5, <1>6 DEF TypeOK, SeatType, TimerType
<1> QED BY <1>3, <1>7 DEF Shape

\* The keyboard's steps, on seat.
LEMMA KeyboardShape ==
    ASSUME Shape, Keyboard
    PROVE  /\ seat' \in SeatType
           /\ seat'.timer # NoTimer => seat'.key # Nothing
           /\ ~seat'.xkb => seat'.timer = NoTimer
<1>1. seat \in SeatType /\ seat.timer \in TimerType
  BY SeatTyped DEF Shape, SeatType
<1>2. \A k \in Keys : k # Nothing
  BY NothingAssumption
<1>3. CASE OnKeyboard
  <2>1. CASE seat' = seat \/ \E b \in BOOLEAN : seat' = [seat EXCEPT !.keyboard = b]
    <3>1. seat' \in SeatType
      BY <1>1, <2>1, Zenon DEF SeatType
    <3>2. seat'.timer = seat.timer /\ seat'.key = seat.key /\ seat'.xkb = seat.xkb
      BY <1>1, <2>1, Zenon DEF SeatType
    <3> QED BY <3>1, <3>2 DEF Shape
  <2> QED BY <1>3, <2>1 DEF OnKeyboard, OnKeyboardCapability
<1>4. CASE OnKeymap
  <2>1. PICK usable \in BOOLEAN : seat' = [seat EXCEPT !.xkb = usable \/ @]
    BY <1>4 DEF OnKeymap
  <2>2. (usable \/ seat.xkb) \in BOOLEAN
    OBVIOUS
  <2>3. seat' \in SeatType
    BY <1>1, <2>1, <2>2, Zenon DEF SeatType
  <2>4. /\ seat'.timer = seat.timer /\ seat'.key = seat.key
        /\ seat'.xkb = (usable \/ seat.xkb)
    BY <1>1, <2>1, Zenon DEF SeatType
  <2> QED BY <2>3, <2>4 DEF Shape
<1>5. CASE OnRepeatInfo
  <2>1. PICK rate \in Rates, delay \in Delays :
           seat' = [seat EXCEPT !.rate = rate, !.delay = delay]
    BY <1>5 DEF OnRepeatInfo
  <2>2. seat' \in SeatType
    BY <1>1, <2>1, Zenon DEF SeatType
  <2>3. seat'.timer = seat.timer /\ seat'.key = seat.key /\ seat'.xkb = seat.xkb
    BY <1>1, <2>1, Zenon DEF SeatType
  <2> QED BY <2>2, <2>3 DEF Shape
<1>6. CASE OnKbEnter
  BY <1>1, <1>6 DEF OnKbEnter, Shape
<1>7. CASE OnKbLeave
  BY <1>1, <1>7, StopRepeatIs DEF OnKbLeave
<1>8. CASE OnKey
  <2>1. PICK k \in Keys : KeyPressed(k) \/ KeyReleased(k)
    BY <1>8 DEF OnKey
  <2>2. CASE seat' = seat
    BY <1>1, <2>2 DEF Shape
  <2>3. CASE seat' = StopRepeat(seat)
    BY <1>1, <2>3, StopRepeatIs
  <2>4. CASE seat.xkb /\ seat' = StartRepeat(seat, k)
    BY <1>1, <1>2, <2>4, StartRepeatIs
  <2> QED BY <2>1, <2>2, <2>3, <2>4 DEF KeyPressed, KeyReleased
<1>9. CASE RepeatFires
  <2> DEFINE timer == RateTimer(seat.timer.next)
  <2>1. timer \in TimerType /\ seat.timer # NoTimer
    BY <1>1, <1>9, TimerFields DEF RepeatFires
  <2>2. seat' = [seat EXCEPT !.timer = timer]
    BY <1>9 DEF RepeatFires
  <2> HIDE DEF timer
  <2>3. seat' \in SeatType /\ seat'.key = seat.key /\ seat'.xkb = seat.xkb
    BY <1>1, <2>1, <2>2, Zenon DEF SeatType
  <2> QED BY <2>1, <2>3 DEF Shape
<1> QED BY <1>3, <1>4, <1>5, <1>6, <1>7, <1>8, <1>9 DEF Keyboard

\* The pointer's.
LEMMA PointerShape ==
    ASSUME Shape, Pointer
    PROVE  /\ seat' \in SeatType
           /\ seat'.timer = seat.timer /\ seat'.key = seat.key /\ seat'.xkb = seat.xkb
<1>1. seat \in SeatType
  BY SeatTyped DEF Shape
<1>2. CASE OnPointerCapability
  <2>1. seat' = [seat EXCEPT !.pointer = ~seat.pointer] /\ (~seat.pointer) \in BOOLEAN
    BY <1>2 DEF OnPointerCapability
  <2> QED BY <1>1, <2>1, Zenon DEF SeatType
<1>3. CASE OnPtrEnter
  <2>0. PICK o \in Outputs :
           \E resolved \in Resolved(Surface(o)), cursor \in CursorBuilt :
              seat' = [seat EXCEPT !.output = resolved, !.cursor = cursor]
    BY <1>3 DEF OnPtrEnter
  <2>1. PICK resolved \in Resolved(Surface(o)), cursor \in CursorBuilt :
           seat' = [seat EXCEPT !.output = resolved, !.cursor = cursor]
    BY <2>0
  <2>2. resolved \in Outputs \cup {Nothing}
    BY DEF Resolved, OutputForSurface
  <2>3. cursor \in {"unbuilt", "empty", "built"}
    BY <1>1 DEF CursorBuilt, SeatType
  <2> QED BY <1>1, <2>1, <2>2, <2>3, Zenon DEF SeatType
<1>4. CASE OnPtrLeave
  <2>1. seat' = [seat EXCEPT !.output = Nothing]
    BY <1>4 DEF OnPtrLeave
  <2> QED BY <1>1, <2>1, Zenon DEF SeatType
<1>5. CASE OnPtrMotionOrButton
  BY <1>1, <1>5 DEF OnPtrMotionOrButton
<1> QED BY <1>2, <1>3, <1>4, <1>5 DEF Pointer

LEMMA ShapeStep == Shape /\ [Next]_vars => Shape'
<1> SUFFICES ASSUME Shape, [Next]_vars PROVE Shape'
  OBVIOUS
<1>1. TypeOK /\ seat \in SeatType
  BY SeatTyped DEF Shape
<1>2. CASE Keyboard
  <2>1. /\ seat' \in SeatType
        /\ seat'.timer # NoTimer => seat'.key # Nothing
        /\ ~seat'.xkb => seat'.timer = NoTimer
    BY <1>2, KeyboardShape
  <2>2. sink' \in Calls
    <3>1. CASE RepeatFires
      <4>1. seat.key \in Keys /\ HandleKey(seat.key)
        BY <1>1, <3>1, TimerFields DEF RepeatFires, Shape, SeatType
      <4> QED BY <1>1, <4>1, CallTyped DEF TypeOK
    <3>2. CASE OnKey
      <4>1. PICK k \in Keys : KeyPressed(k) \/ KeyReleased(k)
        BY <3>2 DEF OnKey
      <4>2. sink' = sink \/ HandleKey(k)
        BY <4>1 DEF KeyPressed, KeyReleased
      <4> QED BY <1>1, <4>2, CallTyped DEF TypeOK
    <3>3. CASE OnKeyboard \/ OnKeymap \/ OnRepeatInfo \/ OnKbEnter \/ OnKbLeave
      <4>1. sink' = sink
        BY <3>3, Zenon DEF OnKeyboard, OnKeymap, OnRepeatInfo, OnKbEnter, OnKbLeave
      <4> QED BY <1>1, <4>1 DEF TypeOK
    <3> QED BY <1>2, <3>1, <3>2, <3>3 DEF Keyboard
  <2>3. focus' \in BOOLEAN /\ held' \subseteq Keys
    <3>1. CASE UNCHANGED <<focus, held>>
      BY <1>1, <3>1 DEF TypeOK
    <3>2. CASE focus' \in BOOLEAN /\ (held' = {} \/ held' \in SUBSET Keys)
      BY <3>2
    <3>3. CASE OnKey
      <4>1. PICK k \in Keys : focus' = focus /\ held' \in {held \cup {k}, held \ {k}}
        BY <3>3, Zenon DEF OnKey
      <4>2. focus \in BOOLEAN /\ held \subseteq Keys
        BY <1>1 DEF TypeOK
      <4> QED BY <4>1, <4>2
    <3> QED
      BY <1>2, <3>1, <3>2, <3>3, Zenon
         DEF Keyboard, OnKeyboard, OnKeyboardCapability, OnKeymap, OnRepeatInfo, OnKbEnter,
             OnKbLeave, RepeatFires, keyVars
  <2>4. due' \in Keys \cup {Nothing} /\ lost' \in BOOLEAN
    <3>1. due \in Keys \cup {Nothing} /\ lost \in BOOLEAN
      BY <1>1 DEF TypeOK
    <3>2. CASE OnKey
      <4>1. PICK k \in Keys : KeyPressed(k) \/ KeyReleased(k)
        BY <3>2 DEF OnKey
      <4>2. due' \in {due, k, Nothing} /\ lost' \in {lost, FALSE}
        BY <4>1, Zenon DEF KeyPressed, KeyReleased
      <4> QED BY <3>1, <4>2
    <3>3. CASE OnKeyboard
      <4>1. /\ due' \in {due, Nothing}
            /\ lost' = lost \/ lost' = (lost \/ seat.timer # NoTimer)
        BY <3>3, Zenon DEF OnKeyboard, OnKeyboardCapability, keyVars
      <4> QED BY <3>1, <4>1
    <3>4. CASE OnKeymap \/ OnRepeatInfo \/ OnKbEnter \/ OnKbLeave \/ RepeatFires
      <4>1. due' \in {due, Nothing} /\ lost' \in {lost, FALSE}
        BY <3>4, Zenon DEF OnKeymap, OnRepeatInfo, OnKbEnter, OnKbLeave, RepeatFires, keyVars
      <4> QED BY <3>1, <4>1
    <3> QED BY <1>2, <3>2, <3>3, <3>4 DEF Keyboard
  <2>5. UNCHANGED <<pointerVars, displayVars>>
    BY <1>2
       DEF Keyboard, OnKeyboard, OnKeymap, OnRepeatInfo, OnKbEnter, OnKbLeave, OnKey, RepeatFires
  <2> QED
    BY <1>1, <2>1, <2>2, <2>3, <2>4, <2>5
       DEF Shape, TypeOK, SeatType, TimerType, pointerVars, displayVars
<1>3. CASE Pointer
  <2>1. /\ seat' \in SeatType
        /\ seat'.timer = seat.timer /\ seat'.key = seat.key /\ seat'.xkb = seat.xkb
    BY <1>3, PointerShape
  <2>2. sink' \in Calls
    <3>1. CASE OnPtrMotionOrButton
      <4>1. Sizes \subseteq Outputs \/ seat.output = Nothing
        BY <1>1 DEF Sizes, SeatType
      <4>2. \A call \in {"motion", "button"}, size \in Outputs :
               [call |-> call, of |-> size] \in Calls
        BY DEF Calls
      <4> QED BY <1>1, <3>1, <4>1, <4>2 DEF OnPtrMotionOrButton, TypeOK
    <3>2. CASE OnPtrLeave
      BY <3>2 DEF OnPtrLeave, Calls
    <3>3. CASE OnPointerCapability \/ OnPtrEnter
      <4>1. sink' = sink
        BY <3>3, Zenon DEF OnPointerCapability, OnPtrEnter
      <4> QED BY <1>1, <4>1 DEF TypeOK
    <3> QED BY <1>3, <3>1, <3>2, <3>3 DEF Pointer
  <2>3. over' \in Outputs \cup {Nothing} /\ image' \in BOOLEAN
    <3>1. CASE OnPtrEnter
      <4>1. PICK o \in Outputs : over' = o /\ \E cursor \in CursorBuilt : image' = (cursor = "built")
        BY <3>1 DEF OnPtrEnter
      <4> QED BY <4>1
    <3>2. CASE OnPointerCapability \/ OnPtrLeave
      BY <3>2 DEF OnPointerCapability, OnPtrLeave
    <3>3. CASE OnPtrMotionOrButton
      BY <1>1, <3>3 DEF OnPtrMotionOrButton, TypeOK, pointerVars
    <3> QED BY <1>3, <3>1, <3>2, <3>3 DEF Pointer
  <2>4. UNCHANGED <<keyVars, displayVars>>
    BY <1>3 DEF Pointer, OnPointerCapability, OnPtrEnter, OnPtrLeave, OnPtrMotionOrButton
  <2> QED
    BY <1>1, <2>1, <2>2, <2>3, <2>4
       DEF Shape, TypeOK, SeatType, TimerType, keyVars, displayVars
<1>4. CASE Display
  <2>1. life' \in [Outputs -> {"absent", "bare", "covered", "gone"}] /\ active' \in BOOLEAN
    <3>1. CASE OnGlobalRemove
      <4>1. PICK o \in Outputs :
               life' = [life EXCEPT ![o] = IF @ = "bare" /\ o # seat.output THEN "absent" ELSE "gone"]
        BY <3>1 DEF OnGlobalRemove
      <4> QED BY <1>1, <3>1, <4>1 DEF OnGlobalRemove, TypeOK
    <3>2. CASE OnGlobal
      <4>1. PICK o \in Outputs : life' = [life EXCEPT ![o] = IF active THEN "covered" ELSE "bare"]
        BY <3>2 DEF OnGlobal
      <4> QED BY <1>1, <3>2, <4>1 DEF OnGlobal, TypeOK
    <3>3. CASE Lock
      BY <1>1, <3>3 DEF Lock, TypeOK
    <3>4. CASE Unlock
      <4>1. life' = life /\ active' = FALSE
        BY <3>4 DEF Unlock
      <4>2. life \in [Outputs -> {"absent", "bare", "covered", "gone"}]
        BY <1>1 DEF TypeOK
      <4> QED BY <4>1, <4>2
    <3> QED BY <1>4, <3>1, <3>2, <3>3, <3>4 DEF Display
  <2>2. UNCHANGED <<seat, sink, keyVars, pointerVars>>
    BY <1>4 DEF Display, Lock, Unlock, OnGlobal, OnGlobalRemove
  <2> QED BY <1>1, <2>1, <2>2 DEF Shape, TypeOK, keyVars, pointerVars
<1>5. CASE UNCHANGED vars
  BY <1>1, <1>5 DEF Shape, TypeOK, vars, keyVars, pointerVars, displayVars
<1> QED BY <1>2, <1>3, <1>4, <1>5 DEF Next

\* The seat keeps its types, for any outputs, keys, rates and delays: a timer that fires has a
\* key, and the timer that takes the place of the delay's is one of the rates'.
THEOREM TypeCorrect == Spec => []TypeOK
<1>1. Shape => TypeOK
  BY DEF Shape
<1> QED BY <1>1, ShapeInit, ShapeStep, PTL DEF Spec

-----------------------------------------------------------------------------
\* The key that repeats.

\* A keyboard lost while a key repeats has no key the user may expect to repeat.
RepeatsInv == RepeatsTheHeldKey /\ (lost => due = Nothing)

LEMMA RepeatsInit == Init => RepeatsInv
<1>1. Init => seat.timer = NoTimer /\ due = Nothing
  BY DEF Init
<1> QED BY <1>1 DEF RepeatsInv, RepeatsTheHeldKey, Repeats, NoTimer

LEMMA RepeatsStep == Shape /\ RepeatsInv /\ [Next]_vars => RepeatsInv'
<1> SUFFICES ASSUME Shape, RepeatsInv, [Next]_vars PROVE RepeatsInv'
  OBVIOUS
<1>1. /\ seat \in SeatType /\ seat.timer \in TimerType
      /\ seat.timer.ms \in Int /\ seat.timer.next \in Int
      /\ due \in Keys \cup {Nothing} /\ lost \in BOOLEAN
  BY SeatTyped, TimerFields DEF Shape, TypeOK, SeatType
<1>2. NoTimer.ms = 0
  BY DEF NoTimer
<1>3. ASSUME seat'.timer = seat.timer, seat'.key = seat.key, UNCHANGED keyVars
      PROVE  RepeatsInv'
  BY <1>3 DEF RepeatsInv, RepeatsTheHeldKey, Repeats, keyVars
<1>4. CASE OnKeyboard
  <2>1. CASE seat.keyboard
    <3>1. seat' = [seat EXCEPT !.keyboard = FALSE] /\ focus' = FALSE /\ held' = {}
          /\ due' = Nothing /\ lost' = (lost \/ seat.timer # NoTimer)
      BY <1>4, <2>1 DEF OnKeyboard, OnKeyboardCapability
    <3>2. seat'.timer = seat.timer
      BY <1>1, <3>1, Zenon DEF SeatType
    <3>3. lost' \/ seat'.timer = NoTimer
      BY <1>1, <3>1, <3>2
    <3> QED BY <1>2, <3>1, <3>2, <3>3 DEF RepeatsInv, RepeatsTheHeldKey, Repeats
  <2>2. CASE ~seat.keyboard
    <3>1. seat' = [seat EXCEPT !.keyboard = TRUE] /\ UNCHANGED keyVars
      BY <1>4, <2>2 DEF OnKeyboard, OnKeyboardCapability
    <3>2. seat'.timer = seat.timer /\ seat'.key = seat.key
      BY <1>1, <3>1, Zenon DEF SeatType
    <3> QED BY <1>3, <3>1, <3>2
  <2> QED BY <2>1, <2>2
<1>5. CASE OnKeymap
  <2>1. PICK usable \in BOOLEAN : seat' = [seat EXCEPT !.xkb = usable \/ @]
    BY <1>5 DEF OnKeymap
  <2>2. seat'.timer = seat.timer /\ seat'.key = seat.key
    BY <1>1, <2>1, Zenon DEF SeatType
  <2> QED BY <1>3, <1>5, <2>2 DEF OnKeymap
<1>6. CASE OnRepeatInfo
  <2>1. PICK rate \in Rates, delay \in Delays :
           seat' = [seat EXCEPT !.rate = rate, !.delay = delay]
    BY <1>6 DEF OnRepeatInfo
  <2>2. seat'.timer = seat.timer /\ seat'.key = seat.key
    BY <1>1, <2>1, Zenon DEF SeatType
  <2> QED BY <1>3, <1>6, <2>2 DEF OnRepeatInfo
<1>7. CASE OnKbEnter
  BY <1>7 DEF OnKbEnter, RepeatsInv, RepeatsTheHeldKey, Repeats
<1>8. CASE OnKbLeave
  <2>1. seat'.timer = NoTimer /\ due' = Nothing
    BY <1>1, <1>8, StopRepeatIs DEF OnKbLeave
  <2> QED BY <1>2, <2>1 DEF RepeatsInv, RepeatsTheHeldKey, Repeats
<1>9. ASSUME NEW k \in Keys, k \notin held, held' = held \cup {k}, focus, focus' = focus,
             KeyPressed(k)
      PROVE  RepeatsInv'
  <2>1. CASE seat' = seat /\ due' = due /\ lost' = lost
    BY <1>9, <2>1 DEF RepeatsInv, RepeatsTheHeldKey, Repeats
  <2>2. CASE /\ seat' = StartRepeat(seat, k)
             /\ due' = IF Usable(seat) THEN k ELSE Nothing
             /\ lost' = FALSE
    <3>1. seat.rate \in Int /\ seat.delay \in Int
      BY <1>1, SeatRatesAssumption DEF SeatType
    <3>2. Interval(seat.rate) \in Nat /\ (Interval(seat.rate) > 0 <=> seat.rate \in 1 .. 1000)
      <4>1. PICK r \in Int : r = seat.rate
        BY <3>1
      <4>2. Interval(r) \in Nat /\ (Interval(r) > 0 <=> r \in 1 .. 1000)
        BY IntervalOf
      <4> QED
        BY ONLY <4>1, <4>2
    <3>3. CASE seat.rate <= 0
      <4>1. seat'.timer = NoTimer
        <5>1. PICK s \in SeatType : s = seat
          BY <1>1
        <5>2. s.rate <= 0 => StartRepeat(s, k).timer = NoTimer
          BY StartRepeatIs
        <5> QED
          BY <2>2, <3>3, <5>1, <5>2, Zenon
      <4>2. due' = Nothing
        <5>1. ~Usable(seat)
          BY <3>2, <3>3 DEF Usable
        <5> QED
          BY <2>2, <5>1
      <4> QED BY <1>2, <4>1, <4>2 DEF RepeatsInv, RepeatsTheHeldKey, Repeats
    <3>4. CASE ~(seat.rate <= 0)
      <4>1. seat'.key = k /\ seat'.timer = DelayTimer(seat.delay, Interval(seat.rate))
        BY <1>1, <1>9, <2>2, <3>4, StartRepeatIs
      <4>2. seat'.timer.ms = seat.delay /\ seat'.timer.next = Interval(seat.rate)
        BY <4>1 DEF DelayTimer
      <4>3. Usable(seat) <=> seat'.timer.ms > 0 /\ seat'.timer.next > 0
        BY <3>1, <3>2, <4>2 DEF Usable
      <4>4. Repeats' = due'
        BY <2>2, <4>1, <4>3 DEF Repeats
      <4>5. due' # Nothing => focus' /\ due' \in held'
        BY <1>9, <2>2
      <4>6. lost' = FALSE
        BY <2>2
      <4> QED BY <4>4, <4>5, <4>6 DEF RepeatsInv, RepeatsTheHeldKey
    <3> QED BY <3>3, <3>4
  <2> QED BY <1>9, <2>1, <2>2 DEF KeyPressed
<1>10. ASSUME NEW k \in Keys, k \in held, held' = held \ {k}, focus, focus' = focus,
              KeyReleased(k)
       PROVE  RepeatsInv'
  <2>1. /\ due' = IF due = k THEN Nothing ELSE due
        /\ due' # Nothing => focus' /\ due' \in held'
    BY <1>10 DEF KeyReleased, RepeatsInv, RepeatsTheHeldKey
  <2>2. k # Nothing
    BY <1>10, NothingAssumption
  <2>3. CASE seat.xkb /\ seat.key = k
    <3>1. seat'.timer = NoTimer
      BY <1>1, <1>10, <2>3, StopRepeatIs DEF KeyReleased
    <3>2. due' = Nothing
      BY <2>1, <2>3 DEF RepeatsInv, RepeatsTheHeldKey, Repeats
    <3>3. lost' = FALSE
      BY <1>10, <2>3 DEF KeyReleased
    <3> QED BY <1>2, <2>1, <3>1, <3>2, <3>3 DEF RepeatsInv, RepeatsTheHeldKey, Repeats
  <2>4. CASE ~(seat.xkb /\ seat.key = k)
    <3>1. seat' = seat /\ lost' = lost
      BY <1>10, <2>4 DEF KeyReleased
    <3>2. lost \/ Repeats # k
      BY <1>2, <2>2, <2>4 DEF Repeats, Shape
    <3> QED BY <2>1, <3>1, <3>2 DEF RepeatsInv, RepeatsTheHeldKey, Repeats
  <2> QED BY <2>3, <2>4
<1>11. CASE OnKey
  BY <1>9, <1>10, <1>11 DEF OnKey
<1>12. CASE RepeatFires
  <2>1. seat' = [seat EXCEPT !.timer = RateTimer(seat.timer.next)] /\ seat.timer.ms > 0
    BY <1>12 DEF RepeatFires
  <2>2. seat'.key = seat.key /\ seat'.timer = RateTimer(seat.timer.next)
    BY <1>1, <2>1, Zenon DEF SeatType
  <2>3. seat'.timer.ms = seat.timer.next /\ seat'.timer.next = seat.timer.next
    BY <2>2 DEF RateTimer
  <2> QED BY <1>12, <2>1, <2>2, <2>3 DEF RepeatFires, RepeatsInv, RepeatsTheHeldKey, Repeats, keyVars
<1>13. CASE Pointer
  <2>1. UNCHANGED keyVars
    BY <1>13 DEF Pointer, OnPointerCapability, OnPtrEnter, OnPtrLeave, OnPtrMotionOrButton
  <2> QED BY <1>3, <1>13, <2>1, PointerShape
<1>14. CASE Display \/ UNCHANGED vars
  BY <1>3, <1>14 DEF Display, Lock, Unlock, OnGlobal, OnGlobalRemove, vars
<1> QED
  BY <1>4, <1>5, <1>6, <1>7, <1>8, <1>11, <1>12, <1>13, <1>14 DEF Next, Keyboard

\* What repeats is the key that is held and was pressed last, for all rates and delays a
\* compositor may send, those among them at which a timer is never armed.
THEOREM RepeatCorrect == Spec => []RepeatsTheHeldKey
<1>1. Init => Shape /\ RepeatsInv
  BY ShapeInit, RepeatsInit
<1>2. (Shape /\ RepeatsInv) /\ [Next]_vars => (Shape /\ RepeatsInv)'
  BY ShapeStep, RepeatsStep
<1>3. RepeatsInv => RepeatsTheHeldKey
  BY DEF RepeatsInv
<1> QED BY <1>1, <1>2, <1>3, PTL DEF Spec

-----------------------------------------------------------------------------
\* The output under the pointer.

\* The pointer is over a lock surface, of a monitor that is there or was.
PointerInv ==
    /\ PointerOverItsOutput
    /\ over # Nothing => life[over] \in {"covered", "gone"}

\* The keyboard's steps leave the pointer alone.
LEMMA KeyboardLeavesPointer ==
    ASSUME Shape, Keyboard
    PROVE  /\ seat'.output = seat.output /\ seat'.cursor = seat.cursor
           /\ UNCHANGED <<over, image, life>>
<1>1. seat \in SeatType
  BY SeatTyped DEF Shape
<1>2. UNCHANGED <<over, image, life>>
  BY Zenon
     DEF Keyboard, OnKeyboard, OnKeymap, OnRepeatInfo, OnKbEnter, OnKbLeave, OnKey, RepeatFires,
         pointerVars, displayVars
<1> SUFFICES seat'.output = seat.output /\ seat'.cursor = seat.cursor
  BY <1>2
<1>3. ASSUME NEW x, NEW k
      PROVE  /\ [seat EXCEPT !.timer = x].output = seat.output
             /\ [seat EXCEPT !.timer = x].cursor = seat.cursor
             /\ [seat EXCEPT !.timer = x, !.key = k].output = seat.output
             /\ [seat EXCEPT !.timer = x, !.key = k].cursor = seat.cursor
             /\ [seat EXCEPT !.key = x, !.timer = k].output = seat.output
             /\ [seat EXCEPT !.key = x, !.timer = k].cursor = seat.cursor
  BY <1>1, Zenon DEF SeatType
<1>4. ASSUME NEW k
      PROVE  /\ StopRepeat(seat).output = seat.output /\ StopRepeat(seat).cursor = seat.cursor
             /\ StartRepeat(seat, k).output = seat.output
             /\ StartRepeat(seat, k).cursor = seat.cursor
  BY <1>3, Zenon DEF StopRepeat, StartRepeat
<1>5. CASE OnKeyboard
  <2>1. PICK b \in BOOLEAN : seat' = [seat EXCEPT !.keyboard = b]
    BY <1>5, Zenon DEF OnKeyboard, OnKeyboardCapability
  <2> QED BY <1>1, <2>1, Zenon DEF SeatType
<1>6. CASE OnKeymap
  <2>1. PICK usable \in BOOLEAN : seat' = [seat EXCEPT !.xkb = usable \/ @]
    BY <1>6 DEF OnKeymap
  <2> QED BY <1>1, <2>1, Zenon DEF SeatType
<1>7. CASE OnRepeatInfo
  <2>1. PICK rate \in Rates, delay \in Delays :
           seat' = [seat EXCEPT !.rate = rate, !.delay = delay]
    BY <1>7 DEF OnRepeatInfo
  <2> QED BY <1>1, <2>1, Zenon DEF SeatType
<1>8. CASE OnKbEnter
  BY <1>8, Zenon DEF OnKbEnter
<1>9. CASE OnKbLeave
  BY <1>4, <1>9, Zenon DEF OnKbLeave
<1>10. CASE OnKey
  <2>1. PICK k \in Keys : KeyPressed(k) \/ KeyReleased(k)
    BY <1>10 DEF OnKey
  <2>2. seat' \in {seat, StopRepeat(seat), StartRepeat(seat, k)}
    BY <2>1, Zenon DEF KeyPressed, KeyReleased
  <2> QED BY <1>4, <2>2
<1>11. CASE RepeatFires
  BY <1>3, <1>11, Zenon DEF RepeatFires
<1> QED BY <1>5, <1>6, <1>7, <1>8, <1>9, <1>10, <1>11 DEF Keyboard

LEMMA PointerInit == Init => PointerInv
BY DEF Init, PointerInv, PointerOverItsOutput

LEMMA PointerStep == Shape /\ PointerInv /\ [Next]_vars => PointerInv'
<1> SUFFICES ASSUME Shape, PointerInv, [Next]_vars PROVE PointerInv'
  OBVIOUS
<1>1. /\ seat \in SeatType /\ over \in Outputs \cup {Nothing}
      /\ life \in [Outputs -> {"absent", "bare", "covered", "gone"}]
  BY SeatTyped DEF Shape, TypeOK
<1>2. Nothing \notin Outputs
  BY NothingAssumption
<1>3. ASSUME UNCHANGED <<over, image, life>>,
             seat'.output = seat.output, seat'.cursor = seat.cursor
      PROVE  PointerInv'
  BY <1>3 DEF PointerInv, PointerOverItsOutput
<1>4. CASE Keyboard
  BY <1>3, <1>4, KeyboardLeavesPointer
<1>5. CASE OnPointerCapability \/ OnPtrLeave
  <2>1. over' = Nothing
    BY <1>5 DEF OnPointerCapability, OnPtrLeave
  <2> QED BY <2>1 DEF PointerInv, PointerOverItsOutput
<1>6. CASE OnPtrMotionOrButton
  BY <1>3, <1>6 DEF OnPtrMotionOrButton, pointerVars, displayVars
<1>7. CASE OnPtrEnter
  <2>1. PICK o \in Outputs :
           /\ life[o] \in {"covered", "gone"} /\ over' = o
           /\ \E resolved \in Resolved(Surface(o)), cursor \in CursorBuilt :
                 /\ seat' = [seat EXCEPT !.output = resolved, !.cursor = cursor]
                 /\ image' = (cursor = "built")
    BY <1>7 DEF OnPtrEnter
  <2>2. PICK resolved \in Resolved(Surface(o)), cursor \in CursorBuilt :
           /\ seat' = [seat EXCEPT !.output = resolved, !.cursor = cursor]
           /\ image' = (cursor = "built")
    BY <2>1
  <2>3. seat'.output = resolved /\ seat'.cursor = cursor
    BY <1>1, <2>2, Zenon DEF SeatType
  <2>4. life' = life
    BY <1>7 DEF OnPtrEnter, displayVars
  <2>5. life[o] = "covered" => Resolved(Surface(o)) = {o}
    <3>1. SUFFICES ASSUME life[o] = "covered" PROVE Resolved(o) = {o}
      BY DEF Surface
    <3>2. OutputForSurface(o) = {o}
      BY <1>2, <3>1 DEF OutputForSurface, Surface
    <3> QED BY <3>2 DEF Resolved
  <2> QED
    BY <2>1, <2>2, <2>3, <2>4, <2>5 DEF PointerInv, PointerOverItsOutput
<1>8. CASE Display
  <2>1. UNCHANGED <<seat, over, image>>
    BY <1>8 DEF Display, Lock, Unlock, OnGlobal, OnGlobalRemove, pointerVars
  <2>2. \A o \in Outputs : /\ life[o] = "covered" => life'[o] \in {"covered", "gone"}
                           /\ life[o] = "gone" => life'[o] = "gone"
    <3>1. CASE Lock
      BY <3>1 DEF Lock
    <3>2. CASE Unlock
      BY <3>2 DEF Unlock
    <3>3. CASE OnGlobal
      BY <1>1, <3>3 DEF OnGlobal
    <3>4. CASE OnGlobalRemove
      BY <1>1, <3>4 DEF OnGlobalRemove
    <3> QED BY <1>8, <3>1, <3>2, <3>3, <3>4 DEF Display
  <2> QED BY <1>1, <2>1, <2>2 DEF PointerInv, PointerOverItsOutput
<1>9. CASE UNCHANGED vars
  BY <1>3, <1>9 DEF vars, pointerVars, displayVars
<1> QED BY <1>4, <1>5, <1>6, <1>7, <1>8, <1>9 DEF Next, Pointer

\* Motion and presses over a monitor that is there are handed on with its size, for any
\* number of monitors plugged and removed while the pointer moves from one to another.
THEOREM PointerCorrect == Spec => []PointerOverItsOutput
<1>1. PointerInv => PointerOverItsOutput
  BY DEF PointerInv
<1>2. Init => Shape /\ PointerInv
  BY ShapeInit, PointerInit
<1>3. (Shape /\ PointerInv) /\ [Next]_vars => (Shape /\ PointerInv)'
  BY ShapeStep, PointerStep
<1> QED BY <1>1, <1>2, <1>3, PTL DEF Spec

=============================================================================
