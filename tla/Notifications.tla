---------------------------- MODULE Notifications ----------------------------
(***************************************************************************)
(* Notifications end to end: applications and the notification daemon      *)
(* (external) on the session bus, qypr-record with its NotificationMonitor *)
(* and NotificationLog, the locker with its own monitor seeded from the    *)
(* recorder's, and ui/Notification's cards.                                *)
(*                                                                         *)
(* The bus orders all messages; each monitor is sent a copy of those after *)
(* its BecomeMonitor and reads them when its loop gets to it.              *)
(***************************************************************************)
EXTENDS NotificationMonitor, FiniteSets

CONSTANTS
    MaxVisible,     \* theme::notification::maxVisible
    MaxCalls,       \* bound: Notify calls
    MaxStarts,      \* bound: starts of the recorder
    MaxFeed         \* bound: messages a monitor is behind the bus

ASSUME NotificationBoundsAssumption ==
    MaxVisible \in Nat \ {0} /\ MaxCalls \in Nat /\ MaxStarts \in Nat /\ MaxFeed \in Nat

VARIABLES
    calls,      \* Notify calls made
    toDaemon,   \* those the daemon has not come to
    daemon,     \* what the daemon has given out and knows
    recorder,   \* the qypr-record process
    locker,     \* the locker's monitor
    view        \* NotificationView

vars == <<calls, toDaemon, daemon, recorder, locker, view>>

Calls == 1 .. MaxCalls
Ids == 1 .. MaxCalls
Messages == [msg : {"notify"}, call : Calls, replaces : Ids \cup {0}, queued : BOOLEAN]
                \cup [msg : {"return"}, call : Calls, id : Ids]
                \cup [msg : {"closed"}, id : Ids, reason : Reasons]

Keys == Nat \ {0}
Monitors == [notes : Seq([key : Keys, daemonId : Ids \cup {0}, text : Calls]),
             pending : Seq([call : Calls, key : Keys]),
             nextKey : Keys,
             changed : BOOLEAN]

MonitorTypeOK(m) ==
    /\ m \in Monitors
    /\ Len(m.notes) <= MaxHeld /\ Len(m.pending) <= MaxPending
    /\ \A i \in DOMAIN m.notes : m.notes[i].key < m.nextKey
    /\ \A i \in DOMAIN m.pending : m.pending[i].key < m.nextKey
    /\ m.changed = FALSE

\* Of the daemon's ids some are known to an application, some are not closed for whatever
\* reason, some are not closed by user or application; content is 0 if only transient so far.
DaemonTypeOK(d) ==
    /\ d = [ids |-> d.ids, told |-> d.told, shown |-> d.shown, undismissed |-> d.undismissed,
            content |-> d.content]
    /\ d.ids \subseteq Ids /\ d.told \subseteq d.ids
    /\ d.shown \subseteq d.ids /\ d.undismissed \subseteq d.ids
    /\ d.content \in [d.ids -> Calls \cup {0}]

Recorders == [life : {"off", "on", "deaf"},         \* deaf: without its monitor
              starts : 0 .. MaxStarts,
              from : 0 .. MaxCalls,                 \* calls before it started
              feed : Seq(Messages),
              m : Monitors]
Lockers == [phase : {"off", "fetched", "monitoring", "lost"},
            seeded : BOOLEAN, given : Nat,            \* history: keys up to given are the backlog's
            feed : Seq(Messages), m : Monitors]
Views == [cards : Seq([key : Keys, text : Calls, expanded : BOOLEAN]),
          layout : Seq([at : Keys, key : Keys]),
          closed : SUBSET Keys]                     \* history: closed by hand since update()

TypeOK ==
    /\ calls \in 0 .. MaxCalls
    /\ toDaemon \in Seq(Messages)
    /\ DaemonTypeOK(daemon)
    /\ recorder \in Recorders /\ MonitorTypeOK(recorder.m)
    /\ locker \in Lockers /\ MonitorTypeOK(locker.m)
    /\ view \in Views
    /\ \A i \in DOMAIN view.cards : view.cards[i].key < locker.m.nextKey

-----------------------------------------------------------------------------
\* The bus, the applications and the daemon.

\* A message passes the bus: a copy to each monitor.
Broadcast(msg) ==
    /\ Len(recorder.feed) < MaxFeed /\ Len(locker.feed) < MaxFeed
    /\ recorder' = IF recorder.life = "on" THEN [recorder EXCEPT !.feed = Append(@, msg)] ELSE recorder
    /\ locker' = IF locker.phase = "monitoring"
                 THEN [locker EXCEPT !.feed = Append(@, msg)] ELSE locker

\* An application posts a notification, or updates one whose id it has been told.
AppNotifies ==
    /\ calls < MaxCalls
    /\ calls' = calls + 1
    /\ \E replaces \in {0} \cup daemon.told, queued \in BOOLEAN :
          LET msg == Notify(calls', replaces, queued) IN
          Broadcast(msg) /\ toDaemon' = Append(toDaemon, msg)
    /\ UNCHANGED <<daemon, view>>

\* The daemon takes the next call and answers with the id: replaces_id if there is one, as
\* the specification of notifications demands.  A caller may have asked for no reply.
DaemonAnswers ==
    /\ toDaemon # <<>>
    /\ toDaemon' = Tail(toDaemon)
    /\ LET c == Head(toDaemon)
           id == IF c.replaces # 0 THEN c.replaces ELSE Cardinality(daemon.ids) + 1
           before == IF id \in daemon.ids THEN daemon.content[id] ELSE 0 IN
       \E replies \in BOOLEAN :
          /\ daemon' = [ids |-> daemon.ids \cup {id},
                        told |-> daemon.told \cup (IF replies THEN {id} ELSE {}),
                        shown |-> daemon.shown \cup {id},
                        undismissed |-> IF c.queued THEN daemon.undismissed \cup {id}
                                        ELSE daemon.undismissed,
                        content |-> [i \in daemon.ids \cup {id} |->
                                        IF i # id THEN daemon.content[i]
                                        ELSE IF c.queued THEN c.call ELSE before]]
          /\ IF replies THEN Broadcast(Return(c.call, id)) ELSE UNCHANGED <<recorder, locker>>
    /\ UNCHANGED <<calls, view>>

\* A notification is closed: by time, by the user, by its application.
DaemonCloses ==
    /\ \E id \in daemon.shown, reason \in Reasons :
          /\ daemon' = [daemon EXCEPT !.shown = @ \ {id},
                            !.undismissed = IF reason \in {Dismissed, ByCall}
                                            THEN @ \ {id} ELSE @]
          /\ Broadcast(Closed(id, reason))
    /\ UNCHANGED <<calls, toDaemon, view>>

-----------------------------------------------------------------------------
\* qypr-record.

\* runRecorder(): monitor first, then the bus name, with an empty mirror each time.
RecorderStarts ==
    /\ recorder.life = "off"
    /\ recorder.starts < MaxStarts
    /\ recorder' = [life |-> "on", starts |-> recorder.starts + 1, from |-> calls,
                    feed |-> <<>>, m |-> EmptyMonitor]
    /\ UNCHANGED <<calls, toDaemon, daemon, locker, view>>

RecorderDies ==
    /\ recorder.life # "off"
    /\ recorder' = [recorder EXCEPT !.life = "off", !.feed = <<>>, !.m = EmptyMonitor]
    /\ UNCHANGED <<calls, toDaemon, daemon, locker, view>>

\* drain() fails, as when the bus drops a monitor that is too slow: the monitor is torn down,
\* and NotificationLog, on a connection of its own, goes on to answer from what there is.
RecorderLosesMonitor ==
    /\ recorder.life = "on"
    /\ recorder' = [recorder EXCEPT !.life = "deaf", !.feed = <<>>]
    /\ UNCHANGED <<calls, toDaemon, daemon, locker, view>>

\* drain(), one message of it; the recorder has no onChange.
RecorderDrains ==
    /\ recorder.feed # <<>>
    /\ recorder' = [recorder EXCEPT !.m = Settled(OnMessage(@, Head(recorder.feed))),
                                    !.feed = Tail(@)]
    /\ UNCHANGED <<calls, toDaemon, daemon, locker, view>>

\* onList(): the mirror as far as it has been drained.
List == recorder.m.notes

-----------------------------------------------------------------------------
\* NotificationView.

\* The card of a note: the one it had, expanded or not, with what the note says now.
Card(n) ==
    LET same == {i \in DOMAIN view.cards : view.cards[i].key = n.key} IN
    [key |-> n.key, text |-> n.text, expanded |-> same # {} /\ view.cards[Min(same)].expanded]

Cards(notes) == [i \in DOMAIN notes |-> Card(notes[i])]
KeysOf(cards) == {cards[i].key : i \in DOMAIN cards}

\* MUTANT of Update: the hit-test cache is kept until the next draw.
UpdateKeepsLayout(notes) ==
    [view EXCEPT !.cards = Cards(notes), !.closed = {}]

\* update(): a card for each note, by key, one that was closed by hand included.
Update(notes) == [cards |-> Cards(notes), layout |-> <<>>, closed |-> {}]

\* draw(): the newest MaxVisible, and where they are.  The key stands for the rectangle a
\* card was drawn in.
Draw ==
    /\ locker.phase # "off"
    /\ LET n == Len(view.cards)
           start == Max({0, n - MaxVisible}) IN
       view' = [view EXCEPT !.layout =
                    [k \in 1 .. n - start |-> [at |-> start + k, key |-> view.cards[start + k].key]]]
    /\ UNCHANGED <<calls, toDaemon, daemon, recorder, locker>>

\* handlePress() on a card's close button ...
PressClose ==
    /\ \E l \in Range(view.layout) :
          /\ l.at <= Len(view.cards)
          /\ view' = [cards |-> RemoveAt(view.cards, l.at), layout |-> <<>>,
                      closed |-> view.closed \cup {l.key}]
    /\ UNCHANGED <<calls, toDaemon, daemon, recorder, locker>>

\* ... and elsewhere on a card, which opens or shuts.
PressCard ==
    /\ \E l \in Range(view.layout) :
          /\ l.at <= Len(view.cards)
          /\ view' = [view EXCEPT !.cards[l.at].expanded = ~@]
    /\ UNCHANGED <<calls, toDaemon, daemon, recorder, locker>>

-----------------------------------------------------------------------------
\* The locker's monitor.  App's onChange updates the view.

Changed(m) == view' = IF m.changed THEN Update(m.notes) ELSE view

\* start(), first fetchBacklog(): List() is answered with what the recorder has drained so
\* far; without a recorder, or when the call fails, the locker begins with nothing.
LockerFetches ==
    /\ locker.phase = "off"
    /\ \E answered \in {recorder.life # "off", FALSE} :
          LET m == IF answered THEN Seeded(List) ELSE EmptyMonitor IN
          /\ locker' = [phase |-> "fetched", seeded |-> answered, given |-> m.nextKey - 1,
                        feed |-> <<>>, m |-> Settled(m)]
          /\ Changed(m)
    /\ UNCHANGED <<calls, toDaemon, daemon, recorder>>

\* then BecomeMonitor, which may be refused.
LockerMonitors ==
    /\ locker.phase = "fetched"
    /\ \E phase \in {"monitoring", "lost"} : locker' = [locker EXCEPT !.phase = phase]
    /\ UNCHANGED <<calls, toDaemon, daemon, recorder, view>>

LockerDrains ==
    /\ locker.phase = "monitoring"
    /\ locker.feed # <<>>
    /\ LET m == OnMessage(locker.m, Head(locker.feed)) IN
       /\ locker' = [locker EXCEPT !.m = Settled(m), !.feed = Tail(@)]
       /\ Changed(m)
    /\ UNCHANGED <<calls, toDaemon, daemon, recorder>>

\* drain() fails: teardown is posted, and the cards stay as they are.
LockerLosesBus ==
    /\ locker.phase = "monitoring"
    /\ locker' = [locker EXCEPT !.phase = "lost", !.feed = <<>>]
    /\ UNCHANGED <<calls, toDaemon, daemon, recorder, view>>

-----------------------------------------------------------------------------
Init ==
    /\ calls = 0
    /\ toDaemon = <<>>
    /\ daemon = [ids |-> {}, told |-> {}, shown |-> {}, undismissed |-> {}, content |-> <<>>]
    /\ recorder = [life |-> "off", starts |-> 0, from |-> 0, feed |-> <<>>, m |-> EmptyMonitor]
    /\ locker = [phase |-> "off", seeded |-> FALSE, given |-> 0, feed |-> <<>>, m |-> EmptyMonitor]
    /\ view = [cards |-> <<>>, layout |-> <<>>, closed |-> {}]

World == AppNotifies \/ DaemonAnswers \/ DaemonCloses
Recorder == RecorderStarts \/ RecorderDies \/ RecorderLosesMonitor \/ RecorderDrains
Locker == \/ LockerFetches \/ LockerMonitors \/ LockerDrains \/ LockerLosesBus
          \/ Draw \/ PressClose \/ PressCard

Next == World \/ Recorder \/ Locker

Spec == Init /\ [][Next]_vars

-----------------------------------------------------------------------------
\* Properties.

\* No two cards answer to one daemon id, so a replacement or a dismissal concerns one card.
NoTwins ==
    \A m \in {recorder.m, locker.m} : \A id \in Ids : Cardinality(Named(m, id)) <= 1

Concerns(msg, id) == \/ msg.msg = "notify" /\ msg.replaces = id
                     \/ msg.msg = "closed" /\ msg.id = id

\* Of the cards that a monitor has made itself, of keys above those it was given, one whose
\* id is known says what the daemon shows, unless something on its way concerns it.
Accurate(m, given, feed) ==
    \A i \in DOMAIN m.notes :
        LET n == m.notes[i] IN
        /\ n.key > given /\ n.daemonId # 0
        /\ \A msg \in Range(feed) \cup Range(toDaemon) : ~Concerns(msg, n.daemonId)
        => n.daemonId \in daemon.undismissed /\ n.text = daemon.content[n.daemonId]

\* A card of the recorder about which there is nothing left to read is one that nobody has
\* dismissed, and shows what its application said last; unless its monitor is lost.  So is
\* one of the locker, however late it began to listen, but for the cards of its backlog: of
\* these it may have missed the end.
NoGhosts ==
    /\ recorder.life = "on" => Accurate(recorder.m, 0, recorder.feed)
    /\ locker.phase = "monitoring" => Accurate(locker.m, locker.given, locker.feed)

\* The screen follows the monitor: a card shows what its note says now, and every note has
\* its card, but for those the user has closed since the notes last changed.  So no change
\* to the notes goes without onChange, and no press takes away a card but the one it closes.
CardsCurrent ==
    /\ \A i \in DOMAIN view.cards : \E j \in DOMAIN locker.m.notes :
          /\ locker.m.notes[j].key = view.cards[i].key
          /\ locker.m.notes[j].text = view.cards[i].text
    /\ \A j \in DOMAIN locker.m.notes :
          locker.m.notes[j].key \in KeysOf(view.cards) \cup view.closed
    /\ KeysOf(view.cards) \cap view.closed = {}

\* A press acts on the card that was drawn under the pointer, though cards come and go
\* between drawing and pressing.
PressHitsDrawn ==
    \A i \in DOMAIN view.layout :
        LET l == view.layout[i] IN
        l.at <= Len(view.cards) /\ view.cards[l.at].key = l.key

\* README: the locker shows the undismissed notifications from before the screen locked, and
\* those that come after.  So with everything drained it holds what the daemon shows, if the
\* recorder ran from the start.
BacklogComplete ==
    /\ locker.phase = "monitoring" /\ locker.seeded /\ locker.feed = <<>>
    /\ recorder.life = "on" /\ recorder.from = 0 /\ recorder.feed = <<>> /\ toDaemon = <<>>
    => \A id \in daemon.undismissed :
           \E i \in DOMAIN locker.m.notes : locker.m.notes[i].text = daemon.content[id]

=============================================================================
