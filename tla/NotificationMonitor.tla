------------------------ MODULE NotificationMonitor -------------------------
(***************************************************************************)
(* notifications/NotificationMonitor: a mirror of the notification         *)
(* daemon's queue, made from the traffic on the session bus alone.  The    *)
(* handlers are operators on a record m with the members `notes`,          *)
(* `pending`, `nextKey`, and `changed`: that a handler called changed(),   *)
(* whose callback is run by the owner of the record.                       *)
(*                                                                         *)
(* A Notify call stands for its content, and its number for the sender and *)
(* cookie that its reply is recognised by.                                 *)
(***************************************************************************)
EXTENDS Integers, Sequences, SequencesExt, FiniteSetsExt

CONSTANTS
    MaxHeld,        \* kMaxHeld
    MaxPending      \* kMaxPending

ASSUME LimitsAssumption == MaxHeld \in Nat \ {0} /\ MaxPending \in Nat \ {0}

Dismissed == 2      \* reasons of NotificationClosed: kClosedDismissed,
ByCall == 3         \* kClosedByCall; 1 is the end of a popup's time, as good as 4, undefined
Reasons == 1 .. 3

\* queued: neither transient nor empty, the calls handleNotify returns from early.
Notify(call, replaces, queued) ==
    [msg |-> "notify", call |-> call, replaces |-> replaces, queued |-> queued]
Return(call, id) == [msg |-> "return", call |-> call, id |-> id]
Closed(id, reason) == [msg |-> "closed", id |-> id, reason |-> reason]

\* What is left of s when all but the places in keep are erased.
Kept(s, keep) ==
    [k \in 1 .. Cardinality(keep) |->
        s[CHOOSE i \in keep : Cardinality({j \in keep : j <= i}) = k]]

Note(key, daemonId, text) == [key |-> key, daemonId |-> daemonId, text |-> text]

EmptyMonitor == [notes |-> <<>>, pending |-> <<>>, nextKey |-> 1, changed |-> FALSE]

\* Once the callback has run.
Settled(m) == [m EXCEPT !.changed = FALSE]

\* MUTANT of Held: one note too many is kept.
HeldOneMore(notes) == SubSeq(notes, Max({1, Len(notes) - MaxHeld}), Len(notes))

\* The newest MaxHeld; the oldest are erased.
Held(notes) == SubSeq(notes, Max({1, Len(notes) - MaxHeld + 1}), Len(notes))

\* fetchBacklog(): the recorder's notes under keys of the locker's own.
Seeded(notes) ==
    LET own == [i \in DOMAIN notes |-> Note(i, notes[i].daemonId, notes[i].text)] IN
    [notes |-> Held(own), pending |-> <<>>, nextKey |-> Len(notes) + 1, changed |-> notes # <<>>]

Named(m, id) == {i \in DOMAIN m.notes : m.notes[i].daemonId = id}

Reworded(notes, i, text) == [notes EXCEPT ![i] = [@ EXCEPT !.text = text]]

\* MUTANT of Replace: the card is updated, onChange is not called.
ReplaceQuietly(m, i, c) == [m EXCEPT !.notes = Reworded(@, i, c.call)]

\* replaces_id names a card: its content changes in place.
Replace(m, i, c) == [m EXCEPT !.notes = Reworded(@, i, c.call), !.changed = TRUE]

\* A new card at the end, and the call remembered until its reply.
Push(m, c) ==
    [notes |-> Held(Append(m.notes, Note(m.nextKey, c.replaces, c.call))),
     pending |-> Append(IF Len(m.pending) >= MaxPending THEN <<>> ELSE m.pending,
                        [call |-> c.call, key |-> m.nextKey]),
     nextKey |-> m.nextKey + 1,
     changed |-> TRUE]

\* MUTANT of HandleNotify: replaces_id is ignored.
HandleNotifyAsNew(m, c) == IF c.queued THEN Push(m, c) ELSE m

HandleNotify(m, c) ==
    IF ~c.queued THEN m
    ELSE IF c.replaces # 0 /\ Named(m, c.replaces) # {}
         THEN Replace(m, Min(Named(m, c.replaces)), c)
         ELSE Push(m, c)

Learned(notes, key, id) ==
    [i \in DOMAIN notes |-> IF notes[i].key = key THEN [notes[i] EXCEPT !.daemonId = id] ELSE notes[i]]

\* The reply to a remembered call tells its card the daemon's id.
HandleReturn(m, r) ==
    LET calls == {i \in DOMAIN m.pending : m.pending[i].call = r.call}
        at == Min(calls) IN
    IF calls = {} THEN m
    ELSE [m EXCEPT !.notes = IF r.id = 0 THEN @ ELSE Learned(@, m.pending[at].key, r.id),
                   !.pending = RemoveAt(@, at)]

\* MUTANT of HandleClosed: only the user's dismissal removes a card.
HandleDismissed(m, c) ==
    IF c.reason # Dismissed \/ Named(m, c.id) = {} THEN m
    ELSE [m EXCEPT !.notes = Kept(@, DOMAIN @ \ Named(m, c.id)), !.changed = TRUE]

\* Dismissed, or closed by its application; a popup that expires stays in the mirror.
HandleClosed(m, c) ==
    IF c.reason \notin {Dismissed, ByCall} \/ Named(m, c.id) = {} THEN m
    ELSE [m EXCEPT !.notes = Kept(@, DOMAIN @ \ Named(m, c.id)), !.changed = TRUE]

OnMessage(m, msg) ==
    CASE msg.msg = "notify" -> HandleNotify(m, msg)
      [] msg.msg = "return" -> HandleReturn(m, msg)
      [] msg.msg = "closed" -> HandleClosed(m, msg)

=============================================================================
