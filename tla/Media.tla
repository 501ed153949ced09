-------------------------------- MODULE Media --------------------------------
(***************************************************************************)
(* mpris/MprisController and ui/AudioController: the snapshot of a media   *)
(* player, refreshed by synchronous calls on the loop thread while players *)
(* come, go and change (external); the panel drawn from it, which is also  *)
(* what presses are tested against; and the commands that presses send.    *)
(*                                                                         *)
(* The screen is taken to be revealed, with the popover down.  A press is  *)
(* one that no notification card takes.                                    *)
(***************************************************************************)
EXTENDS Integers, Sequences, SequencesExt

CONSTANTS
    Order,      \* all the players, in the order the bus lists them
    Priority,   \* those matchesPriority() accepts
    Volumed,    \* those with a volume
    LastTrack,  \* a player has tracks 1 .. LastTrack
    MaxVolume,  \* volumes are 0 .. MaxVolume
    MaxChanges, \* bound: changes of the players by themselves
    MaxInputs   \* bound: presses and motions

Players == ToSet(Order)
NoName == "no player"
Position(p) == CHOOSE i \in DOMAIN Order : Order[i] = p

ASSUME MediaAssumption ==
    /\ Order \in Seq(Players) /\ IsInjective(Order) /\ NoName \notin Players
    /\ Priority \subseteq Players /\ Volumed \subseteq Players
    /\ LastTrack \in Nat \ {0} /\ MaxVolume \in Nat /\ MaxChanges \in Nat /\ MaxInputs \in Nat

VARIABLES
    player,     \* the players; "gone" is one that is not on the bus
    snap,       \* snap_
    panel,      \* what the last draw() showed and cached
    down,       \* pointerDown_
    dragging,   \* dragging_
    call,       \* where refresh() waits for an answer, "loop" when it is not running
    local,      \* its local variables
    calm,       \* history: no player has changed since refresh() began
    changes, inputs

vars == <<player, snap, panel, down, dragging, call, local, calm, changes, inputs>>

NoVolume == -1
Statuses == {"Playing", "Paused", "Stopped"}
Volumes == 0 .. MaxVolume
Controls == {"previous", "play", "next"}

\* Title, artist, album, length and position come with the track, Identity with the name.
Fields == <<"status", "canControl", "canGoNext", "canGoPrevious", "volume", "track">>
NoSnapshot == [valid |-> FALSE, name |-> NoName, status |-> "", canControl |-> FALSE,
               canGoNext |-> FALSE, canGoPrevious |-> FALSE, volume |-> NoVolume, track |-> 0]
\* names and todo hold players as vectors do, in the order of the bus; next counts Fields.
NoLocals == [names |-> {}, todo |-> {}, firstPlaying |-> NoName, s |-> NoSnapshot, next |-> 1]

Snapshots == [valid : BOOLEAN, name : Players \cup {NoName}, status : Statuses \cup {""},
              canControl : BOOLEAN, canGoNext : BOOLEAN, canGoPrevious : BOOLEAN,
              volume : Volumes \cup {NoVolume}, track : 0 .. LastTrack]
States == [status : Statuses \cup {"gone"}, track : 1 .. LastTrack,
           volume : Volumes \cup {NoVolume}]
Locals == [names : SUBSET Players, todo : SUBSET Players, firstPlaying : Players \cup {NoName},
           s : Snapshots, next : 1 .. Len(Fields)]
Panels == [shown : BOOLEAN, of : Snapshots, enabled : [Controls -> BOOLEAN],
           slider : BOOLEAN, drawn : BOOLEAN]

TypeOK ==
    /\ player \in [Players -> States]
    /\ snap \in Snapshots
    /\ panel \in Panels
    /\ down \in BOOLEAN /\ dragging \in BOOLEAN
    /\ call \in {"loop", "list", "scan", "prefer", "read"}
    /\ local \in Locals
    /\ calm \in BOOLEAN
    /\ changes \in 0 .. MaxChanges /\ inputs \in 0 .. MaxInputs

-----------------------------------------------------------------------------
\* The bus.

Present(p) == player[p].status # "gone"
Listed == {p \in Players : Present(p)}
Prioritized(names) == names \cap Priority
First(names) == CHOOSE p \in names : \A q \in names : Position(p) <= Position(q)

\* s with what getProp() finds of a player that is there.
Property(s, p, f) ==
    CASE f = "status" -> [s EXCEPT !.status = player[p].status]
      [] f = "canControl" -> [s EXCEPT !.canControl = TRUE]
      [] f = "canGoNext" -> [s EXCEPT !.canGoNext = player[p].track < LastTrack]
      [] f = "canGoPrevious" -> [s EXCEPT !.canGoPrevious = player[p].track > 1]
      [] f = "volume" -> [s EXCEPT !.volume = player[p].volume]
      [] f = "track" -> [s EXCEPT !.track = player[p].track]

\* A player afterwards, with another status, track or volume.
WithStatus(p, status) == [player EXCEPT ![p] = [@ EXCEPT !.status = status]]
WithTrack(p, track) == [player EXCEPT ![p] = [@ EXCEPT !.track = track]]
WithVolume(p, volume) == [player EXCEPT ![p] = [@ EXCEPT !.volume = volume]]

\* A player starts or ends, plays on, or is used by somebody else.
PlayerChanges ==
    /\ changes < MaxChanges
    /\ changes' = changes + 1
    /\ calm' = FALSE
    /\ \E p \in Players :
          \/ \E st \in (Statuses \cup {"gone"}) \ {player[p].status} :
                player' = WithStatus(p, st)
          \/ /\ Present(p)
             /\ \/ \E t \in 1 .. LastTrack : player' = WithTrack(p, t)
                \/ \E v \in Volumes : p \in Volumed /\ player' = WithVolume(p, v)
    /\ player' # player
    /\ UNCHANGED <<snap, panel, down, dragging, call, local, inputs>>

-----------------------------------------------------------------------------
\* refresh(): each step is the answer to one call.

Refresh ==
    /\ call' = "list"
    /\ local' = NoLocals
    /\ calm' = TRUE

\* listPlayers(); with no player there is no snapshot.
ListAnswered ==
    /\ call = "list"
    /\ IF Listed = {}
       THEN call' = "loop" /\ snap' = NoSnapshot /\ local' = NoLocals
       ELSE call' = "scan" /\ snap' = snap /\ local' = [NoLocals EXCEPT !.names = Listed,
                                                                        !.todo = Listed]
    /\ UNCHANGED <<player, panel, down, dragging, calm, changes, inputs>>

\* readSnapshot() of the player that pickActive() returned.
StartRead(name) ==
    /\ call' = "read"
    /\ local' = [NoLocals EXCEPT !.s = [NoSnapshot EXCEPT !.name = name]]

\* MUTANT of Fallback: whoever plays comes before a player of the priority list.
FallbackPlaying(names, firstPlaying) ==
    IF firstPlaying # NoName THEN firstPlaying
    ELSE IF Prioritized(names) # {} THEN First(Prioritized(names))
    ELSE First(names)

\* pickActive() when no player of the priority list plays.
Fallback(names, firstPlaying) ==
    IF Prioritized(names) # {} THEN First(Prioritized(names))
    ELSE IF firstPlaying # NoName THEN firstPlaying
    ELSE First(names)

Playing(p) == player[p].status = "Playing"

\* pickActive()'s first loop, over all players: which plays first.
ScanAnswered ==
    /\ call = "scan"
    /\ LET p == First(local.todo)
           rest == local.todo \ {p}
           prioritized == Prioritized(local.names)
           first == IF Playing(p) /\ local.firstPlaying = NoName THEN p ELSE local.firstPlaying IN
       IF rest # {}
       THEN call' = call /\ local' = [local EXCEPT !.todo = rest, !.firstPlaying = first]
       ELSE IF prioritized # {}
       THEN call' = "prefer" /\ local' = [local EXCEPT !.todo = prioritized, !.firstPlaying = first]
       ELSE StartRead(Fallback(local.names, first))
    /\ UNCHANGED <<player, snap, panel, down, dragging, calm, changes, inputs>>

\* Its second loop, over the priority list, which asks again.
PreferAnswered ==
    /\ call = "prefer"
    /\ LET p == First(local.todo)
           rest == local.todo \ {p} IN
       IF Playing(p) THEN StartRead(p)
       ELSE IF rest # {} THEN call' = call /\ local' = [local EXCEPT !.todo = rest]
       ELSE StartRead(Fallback(local.names, local.firstPlaying))
    /\ UNCHANGED <<player, snap, panel, down, dragging, calm, changes, inputs>>

\* readSnapshot(): one property after the other.  What cannot be read keeps its default,
\* and the snapshot is valid all the same.
ReadAnswered ==
    /\ call = "read"
    /\ LET p == local.s.name
           s == IF Present(p) THEN Property(local.s, p, Fields[local.next]) ELSE local.s IN
       IF local.next < Len(Fields)
       THEN call' = call /\ snap' = snap /\ local' = [local EXCEPT !.s = s, !.next = @ + 1]
       ELSE call' = "loop" /\ snap' = [s EXCEPT !.valid = TRUE] /\ local' = NoLocals
    /\ UNCHANGED <<player, panel, down, dragging, calm, changes, inputs>>

Answered == ListAnswered \/ ScanAnswered \/ PreferAnswered \/ ReadAnswered

-----------------------------------------------------------------------------
\* The panel.

Active(s) == s.valid /\ s.status # "Stopped"

\* MUTANT of Tick: only while there is something to show.
TickIfActive ==
    /\ call = "loop"
    /\ Active(snap)
    /\ Refresh
    /\ UNCHANGED <<player, snap, panel, down, dragging, changes, inputs>>

\* The clock's timer, once a second.
Tick ==
    /\ call = "loop"
    /\ Refresh
    /\ UNCHANGED <<player, snap, panel, down, dragging, changes, inputs>>

\* LockScreen::draw and AudioController::draw.
Draw ==
    /\ call = "loop"
    /\ panel' = IF ~Active(snap) THEN [panel EXCEPT !.shown = FALSE, !.of = NoSnapshot]
                ELSE [shown |-> TRUE, of |-> snap, drawn |-> TRUE,
                      enabled |-> [c \in Controls |-> CASE c = "previous" -> snap.canGoPrevious
                                                        [] c = "play" -> snap.canControl
                                                        [] c = "next" -> snap.canGoNext],
                      slider |-> snap.canControl /\ snap.volume # NoVolume]
    /\ UNCHANGED <<player, snap, down, dragging, call, local, calm, changes, inputs>>

\* MUTANT of Clamped: where the pointer is, also beside the track.
ClampedNot(v) == v

\* handleDrag's ratio, once more clamped by setVolume.
Clamped(v) == IF v < 0 THEN 0 ELSE IF v > MaxVolume THEN MaxVolume ELSE v

\* setVolume(); the call fails if the player is gone.
SetVolume ==
    IF snap.valid /\ snap.volume # NoVolume /\ Present(snap.name)
    THEN \E x \in -1 .. MaxVolume + 1 :
            /\ player' = WithVolume(snap.name, Clamped(x))
            /\ snap' = [snap EXCEPT !.volume = Clamped(x)]
    ELSE UNCHANGED <<player, snap>>

\* togglePlaying(), next() and previous().  The call expects no answer; a player that is
\* there handles it before the refresh that follows, as it likes.
Command(c) ==
    LET can == CASE c = "play" -> snap.canControl
                 [] c = "next" -> snap.canGoNext
                 [] c = "previous" -> snap.canGoPrevious
        p == snap.name IN
    IF ~snap.valid \/ ~can
    THEN UNCHANGED <<player, call, local, calm>>
    ELSE /\ Refresh
         /\ \/ player' = player
            \/ /\ Present(p)
               /\ \/ /\ c = "play"
                     /\ player' = WithStatus(p, IF Playing(p) THEN "Paused" ELSE "Playing")
                  \/ /\ c = "next" /\ player[p].track < LastTrack
                     /\ player' = WithTrack(p, player[p].track + 1)
                  \/ /\ c = "previous" /\ player[p].track > 1
                     /\ player' = WithTrack(p, player[p].track - 1)

\* handlePress(): by what draw() cached, with a panel that may have gone since.
PressControl(c) ==
    /\ Active(snap) /\ panel.drawn
    /\ IF panel.enabled[c] THEN Command(c) ELSE UNCHANGED <<player, call, local, calm>>
    /\ UNCHANGED <<snap, dragging>>

PressSlider ==
    /\ Active(snap) /\ panel.drawn /\ panel.slider
    /\ dragging' = TRUE
    /\ SetVolume
    /\ UNCHANGED <<call, local, calm>>

PressElsewhere == UNCHANGED <<player, snap, dragging, call, local, calm>>

OnPress ==
    /\ call = "loop" /\ inputs < MaxInputs
    /\ inputs' = inputs + 1
    /\ down' = TRUE
    /\ (\E c \in Controls : PressControl(c)) \/ PressSlider \/ PressElsewhere
    /\ UNCHANGED <<panel, changes>>

OnRelease ==
    /\ call = "loop"
    /\ down' = FALSE /\ dragging' = FALSE
    /\ UNCHANGED <<player, snap, panel, call, local, calm, changes, inputs>>

\* onPointerMotion(), handleDrag(): with the track of the last draw(), whosever it was.
OnMotion ==
    /\ call = "loop" /\ inputs < MaxInputs
    /\ inputs' = inputs + 1
    /\ down /\ dragging /\ panel.slider
    /\ SetVolume
    /\ UNCHANGED <<panel, down, dragging, call, local, calm, changes>>

-----------------------------------------------------------------------------
Init ==
    /\ player \in [Players -> [status : Statuses \cup {"gone"}, track : {1}, volume : {0, NoVolume}]]
    /\ \A p \in Players : player[p].volume = NoVolume <=> p \notin Volumed
    /\ snap = NoSnapshot
    /\ panel = [shown |-> FALSE, of |-> NoSnapshot, enabled |-> [c \in Controls |-> TRUE],
                slider |-> FALSE, drawn |-> FALSE]
    /\ down = FALSE /\ dragging = FALSE
    /\ call = "loop" /\ local = NoLocals
    /\ calm = FALSE
    /\ changes = 0 /\ inputs = 0

Next == PlayerChanges \/ Answered \/ Tick \/ Draw \/ OnPress \/ OnRelease \/ OnMotion

Spec == Init /\ [][Next]_vars

\* Calls are answered, if by D-Bus's timeout; the timer goes on; what is invalidated is
\* drawn before the next tick now and then, on a screen that stays revealed.
FairSpec == Spec /\ WF_vars(Answered) /\ WF_call(Tick) /\ SF_panel(Draw)

-----------------------------------------------------------------------------
\* Properties.

\* The player to show, of those now on the bus: one of the priority list before others, one
\* that plays before one that does not, then as listed.
Rank(p) == (IF p \in Priority THEN 0 ELSE 2) + (IF Playing(p) THEN 0 ELSE 1)
Best == CHOOSE p \in Listed :
            \A q \in Listed : /\ Rank(p) <= Rank(q)
                              /\ Rank(p) = Rank(q) => Position(p) <= Position(q)
Truth ==
    IF Listed = {} THEN NoSnapshot
    ELSE LET p == Best IN
         [valid |-> TRUE, name |-> p, status |-> player[p].status, canControl |-> TRUE,
          canGoNext |-> player[p].track < LastTrack, canGoPrevious |-> player[p].track > 1,
          volume |-> player[p].volume, track |-> player[p].track]

\* A refresh that nothing changed under has found the player to show and the truth about
\* it, and it stays true through the volume's drags.
RefreshAccurate == calm /\ call = "loop" => snap = Truth

\* Once the players stop changing the panel shows the player to show as it is, if it is
\* not stopped, with the controls it can take, whatever was read half way before.
PanelCatchesUp ==
    <>[](/\ panel.shown <=> Active(Truth)
         /\ panel.shown => /\ panel.of = Truth
                           /\ panel.enabled["next"] = Truth.canGoNext
                           /\ panel.slider <=> Truth.volume # NoVolume)

=============================================================================
