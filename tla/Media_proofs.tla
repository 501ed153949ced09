---------------------------- MODULE Media_proofs ----------------------------
(***************************************************************************)
(* Proofs about media control: the types of snapshot, panel and refresh,   *)
(* and that a refresh which nothing changed under has found the player to  *)
(* show and the truth about it, for any players, priorities and bounds.    *)
(***************************************************************************)
EXTENDS Media, WellFoundedInduction, TLAPS

-----------------------------------------------------------------------------
\* The order of the bus.

LEMMA Least ==
    ASSUME NEW S \in SUBSET Nat, S # {}
    PROVE  \E x \in S : \A y \in S : x <= y
<1>1. PICK x \in S : \A y \in S : <<y, x>> \notin OpToRel(<, Nat)
  BY WFMin, NatLessThanWellFounded
<1>2. \A y \in S : ~(y < x)
  BY <1>1 DEF OpToRel
<1> QED
  BY <1>2

LEMMA PositionIs ==
    /\ \A p \in Players : Position(p) \in Nat /\ Order[Position(p)] = p
    /\ \A p, q \in Players : Position(p) = Position(q) => p = q
<1>1. ASSUME NEW p \in Players PROVE Position(p) \in Nat /\ Order[Position(p)] = p
  <2>1. \E i \in DOMAIN Order : Order[i] = p
    BY Zenon DEF Players, ToSet
  <2>2. Position(p) \in DOMAIN Order /\ Order[Position(p)] = p
    BY <2>1 DEF Position
  <2>3. DOMAIN Order \subseteq Nat
    BY MediaAssumption
  <2> QED
    BY <2>2, <2>3
<1> QED
  BY <1>1

LEMMA FirstIs ==
    ASSUME NEW names \in SUBSET Players, names # {}
    PROVE  First(names) \in names /\ \A q \in names : Position(First(names)) <= Position(q)
<1> DEFINE S == {Position(p) : p \in names}
<1>1. S \in SUBSET Nat /\ S # {}
  BY PositionIs
<1>2. PICK x \in S : \A y \in S : x <= y
  BY <1>1, Least
<1>3. \E p \in names : \A q \in names : Position(p) <= Position(q)
  BY <1>2
<1> QED
  BY <1>3 DEF First

\* p is the player to show of those that are there.
IsBest(p) ==
    /\ p \in Listed
    /\ \A q \in Listed : Rank(p) <= Rank(q) /\ (Rank(p) = Rank(q) => Position(p) <= Position(q))

LEMMA RankIs == \A p : Rank(p) \in 0 .. 3
  BY DEF Rank

LEMMA BestIs == \A p : IsBest(p) => Best = p
<1> SUFFICES ASSUME NEW p, IsBest(p) PROVE Best = p
  OBVIOUS
<1>1. Best = CHOOSE b : IsBest(b)
  BY DEF Best, IsBest
<1>2. IsBest(Best)
  BY <1>1
<1>3. Best \in Players /\ p \in Players
  BY <1>2 DEF IsBest, Listed
<1>4. Rank(Best) = Rank(p)
  BY <1>2, RankIs DEF IsBest
<1>5. Position(Best) = Position(p)
  BY <1>2, <1>3, <1>4, PositionIs DEF IsBest
<1> QED
  BY <1>3, <1>5, PositionIs

LEMMA BestExists == Listed # {} => IsBest(Best)
<1> SUFFICES ASSUME Listed # {} PROVE IsBest(Best)
  OBVIOUS
<1> DEFINE S == {Rank(p) : p \in Listed}
<1>1. S \in SUBSET Nat /\ S # {}
  BY RankIs
<1>2. PICK r \in S : \A y \in S : r <= y
  BY <1>1, Least
<1> DEFINE names == {p \in Listed : Rank(p) = r}
<1>3. names \in SUBSET Players /\ names # {}
  BY DEF Listed
<1> DEFINE p == First(names)
<1>4. p \in names /\ \A q \in names : Position(p) <= Position(q)
  BY <1>3, FirstIs
<1> HIDE DEF p
<1>5. IsBest(p)
  BY <1>2, <1>4 DEF IsBest
<1> QED
  BY <1>5, BestIs

LEMMA BestIsNext == (\A p : IsBest(p) => Best = p)'
  BY BestIs, PTL

-----------------------------------------------------------------------------
\* Players and snapshots.

LEMMA WithStatusIs ==
    ASSUME player \in [Players -> States], NEW p \in Players, NEW status \in Statuses \cup {"gone"}
    PROVE  WithStatus(p, status) \in [Players -> States]
<1>1. [player[p] EXCEPT !.status = status] \in States
  BY Zenon DEF States
<1> QED
  BY <1>1 DEF WithStatus

LEMMA WithTrackIs ==
    ASSUME player \in [Players -> States], NEW p \in Players, NEW track \in 1 .. LastTrack
    PROVE  WithTrack(p, track) \in [Players -> States]
<1>1. [player[p] EXCEPT !.track = track] \in States
  BY Zenon DEF States
<1> QED
  BY <1>1 DEF WithTrack

LEMMA WithVolumeIs ==
    ASSUME player \in [Players -> States], NEW p \in Players, NEW volume \in Volumes
    PROVE  /\ WithVolume(p, volume) \in [Players -> States]
           /\ \A q \in Players : /\ WithVolume(p, volume)[q].status = player[q].status
                                 /\ WithVolume(p, volume)[q].track = player[q].track
           /\ WithVolume(p, volume)[p].volume = volume
<1> DEFINE s == [player[p] EXCEPT !.volume = volume]
<1>1. player[p] \in States
  OBVIOUS
<1>2. s \in States /\ s.status = player[p].status /\ s.track = player[p].track /\ s.volume = volume
  BY <1>1, Zenon DEF States
<1>3. WithVolume(p, volume) = [player EXCEPT ![p] = s]
  BY DEF WithVolume
<1> HIDE DEF s
<1> QED
  BY <1>2, <1>3

LEMMA NoSnapshotIs == NoSnapshot \in Snapshots /\ ~NoSnapshot.valid
  BY MediaAssumption DEF NoSnapshot, Snapshots, NoVolume

LEMMA ClampedIs == \A v \in -1 .. MaxVolume + 1 : Clamped(v) \in Volumes
  BY MediaAssumption DEF Clamped, Volumes

\* A record of the type is told by its fields.
LEMMA SameSnapshot ==
    ASSUME NEW s \in Snapshots, NEW t \in Snapshots,
           s.valid = t.valid, s.name = t.name, s.status = t.status, s.canControl = t.canControl,
           s.canGoNext = t.canGoNext, s.canGoPrevious = t.canGoPrevious,
           s.volume = t.volume, s.track = t.track
    PROVE  s = t
<1> DEFINE Built(r) == [valid |-> r.valid, name |-> r.name, status |-> r.status,
                        canControl |-> r.canControl, canGoNext |-> r.canGoNext,
                        canGoPrevious |-> r.canGoPrevious, volume |-> r.volume, track |-> r.track]
<1>1. ASSUME NEW r \in Snapshots PROVE r = Built(r)
  BY Zenon DEF Snapshots
<1>2. Built(s) = Built(t)
  BY Zenon
<1> HIDE DEF Built
<1> QED
  BY <1>1, <1>2

TruthOf(p) ==
    [valid |-> TRUE, name |-> p, status |-> player[p].status, canControl |-> TRUE,
     canGoNext |-> player[p].track < LastTrack, canGoPrevious |-> player[p].track > 1,
     volume |-> player[p].volume, track |-> player[p].track]

LEMMA TruthIs ==
    player \in [Players -> States] => \A p \in Listed : TruthOf(p) \in Snapshots
<1> SUFFICES ASSUME player \in [Players -> States], NEW p \in Listed
             PROVE  TruthOf(p) \in Snapshots
  OBVIOUS
<1>1. /\ p \in Players /\ player[p].status \in Statuses /\ player[p].track \in 1 .. LastTrack
      /\ player[p].volume \in Volumes \cup {NoVolume} /\ LastTrack \in Nat
  BY MediaAssumption DEF Listed, States, Present
<1>2. /\ (player[p].track < LastTrack) \in BOOLEAN /\ (player[p].track > 1) \in BOOLEAN
      /\ player[p].track \in 0 .. LastTrack
  BY <1>1
<1> QED
  BY <1>1, <1>2, Zenon DEF TruthOf, Snapshots

LEMMA TruthOfIs ==
    \A p : /\ TruthOf(p).valid = TRUE /\ TruthOf(p).name = p
          /\ TruthOf(p).status = player[p].status /\ TruthOf(p).canControl = TRUE
          /\ TruthOf(p).canGoNext = (player[p].track < LastTrack)
          /\ TruthOf(p).canGoPrevious = (player[p].track > 1)
          /\ TruthOf(p).volume = player[p].volume /\ TruthOf(p).track = player[p].track
  BY Zenon DEF TruthOf

LEMMA TruthOfIsNext ==
    (\A p : /\ TruthOf(p).valid = TRUE /\ TruthOf(p).name = p
           /\ TruthOf(p).status = player[p].status /\ TruthOf(p).canControl = TRUE
           /\ TruthOf(p).canGoNext = (player[p].track < LastTrack)
           /\ TruthOf(p).canGoPrevious = (player[p].track > 1)
           /\ TruthOf(p).volume = player[p].volume /\ TruthOf(p).track = player[p].track)'
  BY TruthOfIs, PTL

LEMMA TruthIsNext ==
    (player \in [Players -> States] => \A p \in Listed : TruthOf(p) \in Snapshots)'
  BY TruthIs, PTL

\* How much of p has been read into s before the property numbered n.
ReadSoFar(s, p, n) ==
    /\ s.name = p /\ s.valid = FALSE
    /\ n > 1 => s.status = player[p].status
    /\ n > 2 => s.canControl = TRUE
    /\ n > 3 => s.canGoNext = (player[p].track < LastTrack)
    /\ n > 4 => s.canGoPrevious = (player[p].track > 1)
    /\ n > 5 => s.volume = player[p].volume
    /\ n > 6 => s.track = player[p].track

LEMMA FieldsAre ==
    /\ Len(Fields) = 6
    /\ Fields[1] = "status" /\ Fields[2] = "canControl" /\ Fields[3] = "canGoNext"
    /\ Fields[4] = "canGoPrevious" /\ Fields[5] = "volume" /\ Fields[6] = "track"
  BY DEF Fields

LEMMA PropertyIs ==
    ASSUME player \in [Players -> States], NEW p \in Players, Present(p), NEW s \in Snapshots,
           NEW n \in 1 .. Len(Fields)
    PROVE  /\ Property(s, p, Fields[n]) \in Snapshots
           /\ Property(s, p, Fields[n]).name = s.name
           /\ ReadSoFar(s, p, n) => ReadSoFar(Property(s, p, Fields[n]), p, n + 1)
<1> DEFINE t == Property(s, p, Fields[n])
<1>1. /\ player[p].status \in Statuses /\ player[p].track \in 1 .. LastTrack
      /\ player[p].volume \in Volumes \cup {NoVolume} /\ LastTrack \in Nat
  BY MediaAssumption DEF States, Present
<1>2. /\ (player[p].track < LastTrack) \in BOOLEAN /\ (player[p].track > 1) \in BOOLEAN
      /\ player[p].track \in 0 .. LastTrack
  BY <1>1
<1> DEFINE Other(f) == /\ f # "status" => t.status = s.status
                       /\ f # "canControl" => t.canControl = s.canControl
                       /\ f # "canGoNext" => t.canGoNext = s.canGoNext
                       /\ f # "canGoPrevious" => t.canGoPrevious = s.canGoPrevious
                       /\ f # "volume" => t.volume = s.volume
                       /\ f # "track" => t.track = s.track
                       /\ t.name = s.name /\ t.valid = s.valid
<1>3. CASE n = 1
  <2>1. t = [s EXCEPT !.status = player[p].status]
    BY <1>3, FieldsAre DEF Property
  <2>2. t \in Snapshots /\ Other("status") /\ t.status = player[p].status
    BY <1>1, <2>1, Zenon DEF Snapshots
  <2> HIDE DEF t
  <2> QED
    BY <1>3, <2>2 DEF ReadSoFar, t
<1>4. CASE n = 2
  <2>1. t = [s EXCEPT !.canControl = TRUE]
    BY <1>4, FieldsAre DEF Property
  <2>2. t \in Snapshots /\ Other("canControl") /\ t.canControl = TRUE
    BY <2>1, Zenon DEF Snapshots
  <2> HIDE DEF t
  <2> QED
    BY <1>4, <2>2 DEF ReadSoFar, t
<1>5. CASE n = 3
  <2>1. t = [s EXCEPT !.canGoNext = player[p].track < LastTrack]
    BY <1>5, FieldsAre DEF Property
  <2>2. t \in Snapshots /\ Other("canGoNext") /\ t.canGoNext = (player[p].track < LastTrack)
    BY <1>2, <2>1, Zenon DEF Snapshots
  <2> HIDE DEF t
  <2> QED
    BY <1>5, <2>2 DEF ReadSoFar, t
<1>6. CASE n = 4
  <2>1. t = [s EXCEPT !.canGoPrevious = player[p].track > 1]
    BY <1>6, FieldsAre DEF Property
  <2>2. t \in Snapshots /\ Other("canGoPrevious") /\ t.canGoPrevious = (player[p].track > 1)
    BY <1>2, <2>1, Zenon DEF Snapshots
  <2> HIDE DEF t
  <2> QED
    BY <1>6, <2>2 DEF ReadSoFar, t
<1>7. CASE n = 5
  <2>1. t = [s EXCEPT !.volume = player[p].volume]
    BY <1>7, FieldsAre DEF Property
  <2>2. t \in Snapshots /\ Other("volume") /\ t.volume = player[p].volume
    BY <1>1, <2>1, Zenon DEF Snapshots
  <2> HIDE DEF t
  <2> QED
    BY <1>7, <2>2 DEF ReadSoFar, t
<1>8. CASE n = 6
  <2>1. t = [s EXCEPT !.track = player[p].track]
    BY <1>8, FieldsAre DEF Property
  <2>2. t \in Snapshots /\ Other("track") /\ t.track = player[p].track
    BY <1>2, <2>1, Zenon DEF Snapshots
  <2> HIDE DEF t
  <2> QED
    BY <1>8, <2>2 DEF ReadSoFar, t
<1> QED
  BY <1>3, <1>4, <1>5, <1>6, <1>7, <1>8, FieldsAre

-----------------------------------------------------------------------------
\* The inductive invariant.

\* f plays, and is listed before the others of names that do; or none does.
PlaysFirst(f, names) ==
    \/ f = NoName /\ \A q \in names : ~Playing(q)
    \/ f \in names /\ Playing(f) /\ \A q \in names : Playing(q) => Position(f) <= Position(q)

Ahead(done, todo) == \A p \in done, q \in todo : Position(p) <= Position(q)

\* There is always a player to ask.
Asking ==
    /\ call = "scan" => local.todo # {} /\ local.todo \subseteq local.names
    /\ call = "prefer" => local.todo # {} /\ local.todo \subseteq Prioritized(local.names)
    /\ call = "read" => local.s.name \in Players

\* What the refresh knows while nothing changes under it.
Scanned ==
    /\ local.names = Listed
    /\ Ahead(local.names \ local.todo, local.todo)
    /\ PlaysFirst(local.firstPlaying, local.names \ local.todo)

Preferred ==
    /\ local.names = Listed
    /\ Ahead(Prioritized(local.names) \ local.todo, local.todo)
    /\ \A q \in Prioritized(local.names) \ local.todo : ~Playing(q)
    /\ PlaysFirst(local.firstPlaying, local.names)

Reading == IsBest(local.s.name) /\ ReadSoFar(local.s, local.s.name, local.next)

Knowing ==
    calm => /\ call = "loop" => snap = Truth
            /\ call = "scan" => Scanned
            /\ call = "prefer" => Preferred
            /\ call = "read" => Reading

Inv == TypeOK /\ Asking /\ Knowing

\* Neither the players nor what depends on them alone changes.
LEMMA SamePlayers ==
    ASSUME player' = player
    PROVE  /\ Listed' = Listed /\ Truth' = Truth
           /\ \A p : Present(p)' = Present(p) /\ Playing(p)' = Playing(p) /\ IsBest(p)' = IsBest(p)
           /\ \A f, names : PlaysFirst(f, names)' = PlaysFirst(f, names)
           /\ \A s, p, n : ReadSoFar(s, p, n)' = ReadSoFar(s, p, n)
<1>1. \A p : Present(p)' = Present(p) /\ Playing(p)' = Playing(p) /\ Rank(p)' = Rank(p)
  BY DEF Present, Playing, Rank
<1>2. Listed' = Listed
  BY DEF Listed, Present
<1>3. Truth' = Truth
  BY DEF Truth, Best, Listed, Present, Rank, Playing
<1>4. \A p : IsBest(p)' = IsBest(p)
  BY DEF IsBest, Listed, Present, Rank, Playing
<1>5. \A f, names : PlaysFirst(f, names)' = PlaysFirst(f, names)
  BY DEF PlaysFirst, Playing
<1>6. \A s, p, n : ReadSoFar(s, p, n)' = ReadSoFar(s, p, n)
  BY DEF ReadSoFar
<1> QED
  BY <1>1, <1>2, <1>3, <1>4, <1>5, <1>6

\* Nothing that the refresh knows changes.
LEMMA KnowingKept ==
    ASSUME Asking, Knowing, UNCHANGED <<player, snap, call, local, calm>>
    PROVE  Asking' /\ Knowing'
<1>1. Asking'
  BY DEF Asking
<1>2. Truth' = Truth
  BY SamePlayers
<1>3. Knowing'
  BY <1>2 DEF Knowing, Scanned, Preferred, Reading, Ahead, Prioritized, IsBest, PlaysFirst,
              ReadSoFar, Rank, Playing, Listed, Present
<1> QED
  BY <1>1, <1>3

LEMMA Unmoved ==
    ASSUME Inv, UNCHANGED <<player, snap, panel, call, local, calm, changes>>,
           down' \in BOOLEAN, dragging' \in BOOLEAN, inputs' \in 0 .. MaxInputs
    PROVE  Inv'
  BY KnowingKept DEF Inv, TypeOK

LEMMA PlayingIsListed == \A p \in Players : Playing(p) => p \in Listed
  BY DEF Playing, Listed, Present

\* A player of the priority list that plays, of those listed first, is the one to show.
LEMMA PreferredBest ==
    ASSUME NEW p \in Players, p \in Priority, Playing(p),
           \A q \in Prioritized(Listed) : Playing(q) => Position(p) <= Position(q)
    PROVE  IsBest(p)
<1>1. p \in Listed /\ Rank(p) = 0
  BY PlayingIsListed DEF Rank
<1>2. ASSUME NEW q \in Listed
      PROVE  Rank(p) <= Rank(q) /\ (Rank(p) = Rank(q) => Position(p) <= Position(q))
  <2>1. Rank(q) = 0 => q \in Prioritized(Listed) /\ Playing(q)
    BY DEF Rank, Prioritized
  <2>2. Rank(q) \in 0 .. 3
    BY RankIs
  <2> QED
    BY <1>1, <2>1, <2>2
<1> QED
  BY <1>1, <1>2 DEF IsBest

\* When none of the priority list plays the fallback is the one to show.
LEMMA FallbackBest ==
    ASSUME Listed # {}, \A q \in Prioritized(Listed) : ~Playing(q),
           NEW f, PlaysFirst(f, Listed)
    PROVE  IsBest(Fallback(Listed, f))
<1>1. Listed \in SUBSET Players /\ Prioritized(Listed) \in SUBSET Players
      /\ Prioritized(Listed) \subseteq Listed
  BY DEF Listed, Prioritized
<1>2. \A q \in Listed : IF q \in Priority THEN Rank(q) = 1
                        ELSE IF Playing(q) THEN Rank(q) = 2 ELSE Rank(q) = 3
  BY DEF Prioritized, Rank
<1>3. CASE Prioritized(Listed) # {}
  <2>1. /\ Fallback(Listed, f) \in Prioritized(Listed)
        /\ \A q \in Prioritized(Listed) : Position(Fallback(Listed, f)) <= Position(q)
    BY <1>1, <1>3, FirstIs DEF Fallback
  <2>2. \A q \in Listed : q \in Prioritized(Listed) <=> q \in Priority
    BY DEF Prioritized
  <2> QED
    BY <1>1, <1>2, <2>1, <2>2 DEF IsBest
<1>4. CASE Prioritized(Listed) = {} /\ f # NoName
  <2>1. Fallback(Listed, f) = f
    BY <1>4 DEF Fallback
  <2>2. f \in Listed /\ Playing(f) /\ \A q \in Listed : Playing(q) => Position(f) <= Position(q)
    BY <1>4 DEF PlaysFirst
  <2>3. \A q \in Listed : q \notin Priority
    BY <1>4 DEF Prioritized
  <2> QED
    BY <1>2, <2>1, <2>2, <2>3 DEF IsBest
<1>5. CASE Prioritized(Listed) = {} /\ f = NoName
  <2>1. /\ Fallback(Listed, f) \in Listed
        /\ \A q \in Listed : Position(Fallback(Listed, f)) <= Position(q)
    BY <1>1, <1>5, FirstIs DEF Fallback
  <2>2. \A q \in Listed : q \notin Priority
    BY <1>5 DEF Prioritized
  <2>3. \A q \in Listed : ~Playing(q)
    <3>1. NoName \notin Listed
      BY MediaAssumption DEF Listed
    <3> QED
      BY <1>5, <3>1 DEF PlaysFirst
  <2> QED
    BY <1>2, <2>1, <2>2, <2>3 DEF IsBest
<1> QED
  BY <1>3, <1>4, <1>5

\* Who plays first, when one more player has been asked.
LEMMA PlaysFirstOfMore ==
    ASSUME NEW names \in SUBSET Players, NEW todo \in SUBSET names, todo # {},
           Ahead(names \ todo, todo), NEW f, PlaysFirst(f, names \ todo)
    PROVE  LET p == First(todo)
               rest == todo \ {p}
               g == IF Playing(p) /\ f = NoName THEN p ELSE f IN
           PlaysFirst(g, names \ rest) /\ Ahead(names \ rest, rest)
<1> DEFINE p == First(todo)
           rest == todo \ {p}
           g == IF Playing(p) /\ f = NoName THEN p ELSE f
<1>1. p \in todo /\ \A q \in todo : Position(p) <= Position(q)
  BY FirstIs
<1> HIDE DEF p
<1>2. names \ rest = (names \ todo) \cup {p}
  BY <1>1
<1>3. Ahead(names \ rest, rest)
  BY <1>1, <1>2 DEF Ahead
<1>4. \A q \in names \ todo : q \in Players /\ Position(q) <= Position(p)
  BY <1>1 DEF Ahead
<1>5. p \in Players /\ p # NoName /\ NoName \notin names
  BY <1>1, MediaAssumption
<1>6. CASE f = NoName /\ \A q \in names \ todo : ~Playing(q)
  <2>1. CASE Playing(p)
    <3>1. \A q \in names \ rest : Playing(q) => q = p
      BY <1>2, <1>6
    <3>2. p \in names \ rest /\ g = p
      BY <1>2, <1>6, <2>1
    <3>3. Position(p) \in Nat
      BY <1>5, PositionIs
    <3> QED
      BY <1>3, <2>1, <3>1, <3>2, <3>3 DEF PlaysFirst, p
  <2>2. CASE ~Playing(p)
    BY <1>2, <1>3, <1>6, <2>2 DEF PlaysFirst, p
  <2> QED
    BY <2>1, <2>2
<1>7. CASE f \in names \ todo /\ Playing(f)
           /\ \A q \in names \ todo : Playing(q) => Position(f) <= Position(q)
  <2>1. g = f
    BY <1>5, <1>7
  <2>2. f \in names \ rest /\ \A q \in names \ rest : Playing(q) => Position(f) <= Position(q)
    BY <1>2, <1>4, <1>7
  <2> QED
    BY <1>3, <1>7, <2>1, <2>2 DEF PlaysFirst, p
<1> QED
  BY <1>6, <1>7 DEF PlaysFirst

-----------------------------------------------------------------------------
\* refresh().

LEMMA NoLocalsIs == NoLocals \in Locals /\ NoLocals.names = {} /\ NoLocals.todo = {}
                    /\ NoLocals.firstPlaying = NoName /\ NoLocals.s = NoSnapshot /\ NoLocals.next = 1
<1>1. 1 \in 1 .. Len(Fields)
  BY FieldsAre
<1> QED
  BY <1>1, NoSnapshotIs DEF NoLocals, Locals

\* The types other than call, local and snap, which an answer leaves alone.
Rest ==
    /\ player \in [Players -> States] /\ panel \in Panels
    /\ down \in BOOLEAN /\ dragging \in BOOLEAN /\ calm \in BOOLEAN
    /\ changes \in 0 .. MaxChanges /\ inputs \in 0 .. MaxInputs

LEMMA TypesAre ==
    TypeOK <=> Rest /\ snap \in Snapshots /\ local \in Locals
               /\ call \in {"loop", "list", "scan", "prefer", "read"}
  BY DEF TypeOK, Rest

LEMMA TypesAreNext ==
    (TypeOK <=> Rest /\ snap \in Snapshots /\ local \in Locals
                /\ call \in {"loop", "list", "scan", "prefer", "read"})'
  BY TypesAre, PTL

LEMMA RestKept ==
    ASSUME Rest, UNCHANGED <<player, panel, down, dragging, calm, changes, inputs>>
    PROVE  Rest'
  BY DEF Rest

LEMMA ListAnsweredInv ==
    ASSUME Inv, ListAnswered
    PROVE  Inv'
<1>1. /\ player' = player /\ calm' = calm
      /\ Rest' /\ snap \in Snapshots
  BY TypesAre, RestKept DEF Inv, ListAnswered
<1>2. Listed \in SUBSET Players
  BY DEF Listed
<1>3. CASE Listed = {}
  <2>1. call' = "loop" /\ snap' = NoSnapshot /\ local' = NoLocals
    BY <1>3 DEF ListAnswered
  <2>2. TypeOK'
    BY <1>1, <2>1, NoLocalsIs, NoSnapshotIs, TypesAreNext
  <2>3. Truth' = NoSnapshot
    BY <1>1, <1>3, SamePlayers DEF Truth
  <2> QED
    BY <2>1, <2>2, <2>3 DEF Inv, Asking, Knowing
<1>4. CASE Listed # {}
  <2>1. call' = "scan" /\ snap' = snap /\ local' = [NoLocals EXCEPT !.names = Listed, !.todo = Listed]
    BY <1>4 DEF ListAnswered
  <2>2. /\ local' \in Locals /\ local'.names = Listed /\ local'.todo = Listed
        /\ local'.firstPlaying = NoName
    BY <1>2, <2>1, NoLocalsIs, Zenon DEF Locals
  <2>3. TypeOK'
    BY <1>1, <2>1, <2>2, TypesAreNext
  <2>4. Scanned'
    <3>1. Listed' = Listed /\ local'.names \ local'.todo = {}
      BY <1>1, <2>2, SamePlayers
    <3> QED
      BY <2>2, <3>1 DEF Scanned, Ahead, PlaysFirst
  <2> QED
    BY <1>4, <2>1, <2>2, <2>3, <2>4 DEF Inv, Asking, Knowing
<1> QED
  BY <1>3, <1>4

LEMMA StartReadInv ==
    ASSUME Inv, NEW name \in Players, StartRead(name), player' = player, snap' = snap, Rest',
           calm' => IsBest(name)
    PROVE  Inv'
<1> DEFINE s == [NoSnapshot EXCEPT !.name = name]
<1>1. s \in Snapshots /\ s.name = name /\ s.valid = FALSE
  <2>1. s \in Snapshots /\ s.name = name /\ s.valid = NoSnapshot.valid
    BY NoSnapshotIs, Zenon DEF Snapshots
  <2> QED
    BY <2>1 DEF NoSnapshot
<1>2. call' = "read" /\ local' = [NoLocals EXCEPT !.s = s]
  BY DEF StartRead
<1> HIDE DEF s
<1>3. local' \in Locals /\ local'.s = s /\ local'.next = 1
  BY <1>1, <1>2, NoLocalsIs, Zenon DEF Locals
<1>4. TypeOK'
  BY <1>2, <1>3, TypesAre, TypesAreNext DEF Inv
<1>5. calm' => Reading'
  <2> SUFFICES ASSUME calm' PROVE Reading'
    OBVIOUS
  <2>1. IsBest(name)'
    BY SamePlayers
  <2> QED
    BY <1>1, <1>3, <2>1 DEF Reading, IsBest, ReadSoFar, Rank, Playing, Listed, Present
<1> QED
  BY <1>1, <1>2, <1>3, <1>4, <1>5 DEF Inv, Asking, Knowing

LEMMA FallbackIs ==
    ASSUME NEW names \in SUBSET Players, names # {}, NEW f \in Players \cup {NoName}
    PROVE  Fallback(names, f) \in Players
<1>1. First(names) \in Players
  BY FirstIs
<1>2. Prioritized(names) # {} => First(Prioritized(names)) \in Players
  <2>1. Prioritized(names) \in SUBSET Players
    BY DEF Prioritized
  <2> QED
    BY <2>1, FirstIs
<1> QED
  BY <1>1, <1>2 DEF Fallback

LEMMA ScanAnsweredInv ==
    ASSUME Inv, ScanAnswered
    PROVE  Inv'
<1> DEFINE p == First(local.todo)
           rest == local.todo \ {p}
           prioritized == Prioritized(local.names)
           first == IF Playing(p) /\ local.firstPlaying = NoName THEN p ELSE local.firstPlaying
<1>1. /\ player' = player /\ calm' = calm /\ snap' = snap
      /\ Rest' /\ snap \in Snapshots /\ local \in Locals
  BY TypesAre, RestKept DEF Inv, ScanAnswered
<1>2. /\ local.names \in SUBSET Players /\ local.todo \in SUBSET local.names /\ local.todo # {}
      /\ local.firstPlaying \in Players \cup {NoName}
  BY <1>1 DEF Inv, Asking, ScanAnswered, Locals
<1>3. p \in local.todo
  BY <1>2, FirstIs
<1>4. first \in Players \cup {NoName} /\ rest \in SUBSET Players
      /\ prioritized \in SUBSET Players /\ prioritized \subseteq local.names
  BY <1>2, <1>3 DEF Prioritized
<1>5. calm => /\ local.names = Listed
              /\ PlaysFirst(first, local.names \ rest) /\ Ahead(local.names \ rest, rest)
  <2> SUFFICES ASSUME calm
               PROVE  /\ local.names = Listed
                      /\ PlaysFirst(first, local.names \ rest) /\ Ahead(local.names \ rest, rest)
    OBVIOUS
  <2>1. Scanned
    BY DEF Inv, Knowing, ScanAnswered
  <2> QED
    BY <1>2, <2>1, PlaysFirstOfMore DEF Scanned
<1>6. CASE rest # {}
  <2>1. call' = "scan" /\ local' = [local EXCEPT !.todo = rest, !.firstPlaying = first]
    BY <1>6 DEF ScanAnswered
  <2> HIDE DEF rest, first
  <2>2. /\ local' \in Locals /\ local'.names = local.names /\ local'.todo = rest
        /\ local'.firstPlaying = first
    BY <1>1, <1>4, <2>1, Zenon DEF Locals
  <2>3. TypeOK'
    BY <1>1, <2>1, <2>2, TypesAreNext
  <2>4. calm' => Scanned'
    <3> SUFFICES ASSUME calm' PROVE Scanned'
      OBVIOUS
    <3>1. Listed' = Listed
      BY <1>1, SamePlayers
    <3> QED
      BY <1>1, <1>5, <2>2, <3>1 DEF Scanned, PlaysFirst, Playing, Ahead
  <2>5. Asking'
    BY <1>2, <1>6, <2>1, <2>2 DEF Asking, rest
  <2> QED
    BY <2>1, <2>3, <2>4, <2>5 DEF Inv, Knowing
<1>7. CASE rest = {} /\ prioritized # {}
  <2>1. call' = "prefer" /\ local' = [local EXCEPT !.todo = prioritized, !.firstPlaying = first]
    BY <1>7 DEF ScanAnswered
  <2> HIDE DEF rest, first, prioritized
  <2>2. /\ local' \in Locals /\ local'.names = local.names /\ local'.todo = prioritized
        /\ local'.firstPlaying = first
    BY <1>1, <1>4, <2>1, Zenon DEF Locals
  <2>3. TypeOK'
    BY <1>1, <2>1, <2>2, TypesAreNext
  <2>4. calm' => Preferred'
    <3> SUFFICES ASSUME calm' PROVE Preferred'
      OBVIOUS
    <3>1. Listed' = Listed
      BY <1>1, SamePlayers
    <3>2. Prioritized(local'.names) = prioritized /\ local.names \ rest = local.names
      BY <1>7, <2>2 DEF prioritized
    <3> QED
      BY <1>1, <1>5, <2>2, <3>1, <3>2 DEF Preferred, PlaysFirst, Playing, Ahead, Prioritized
  <2>5. Asking'
    BY <1>7, <2>1, <2>2 DEF Asking, prioritized
  <2> QED
    BY <2>1, <2>3, <2>4, <2>5 DEF Inv, Knowing
<1>8. CASE rest = {} /\ prioritized = {}
  <2>1. StartRead(Fallback(local.names, first))
    BY <1>8 DEF ScanAnswered
  <2>2. Fallback(local.names, first) \in Players
    BY <1>2, <1>4, FallbackIs
  <2>3. calm' => IsBest(Fallback(local.names, first))
    <3> SUFFICES ASSUME calm' PROVE IsBest(Fallback(local.names, first))
      OBVIOUS
    <3>1. local.names = Listed /\ PlaysFirst(first, Listed)
      <4>1. local.names \ rest = local.names
        BY <1>8
      <4> QED
        BY <1>1, <1>5, <4>1
    <3>2. Listed # {} /\ Prioritized(Listed) = {}
      BY <1>2, <1>8, <3>1
    <3> QED
      BY <3>1, <3>2, FallbackBest
  <2> QED
    BY <1>1, <2>1, <2>2, <2>3, StartReadInv
<1> QED
  BY <1>6, <1>7, <1>8

LEMMA PreferAnsweredInv ==
    ASSUME Inv, PreferAnswered
    PROVE  Inv'
<1> DEFINE p == First(local.todo)
           rest == local.todo \ {p}
<1>1. /\ player' = player /\ calm' = calm /\ snap' = snap
      /\ Rest' /\ snap \in Snapshots /\ local \in Locals
  BY TypesAre, RestKept DEF Inv, PreferAnswered
<1>2. /\ local.names \in SUBSET Players /\ local.todo # {}
      /\ local.todo \subseteq Prioritized(local.names)
      /\ local.firstPlaying \in Players \cup {NoName}
  BY <1>1 DEF Inv, Asking, PreferAnswered, Locals
<1>3. Prioritized(local.names) \in SUBSET Players /\ Prioritized(local.names) \subseteq local.names
      /\ Prioritized(local.names) \subseteq Priority
  BY <1>2 DEF Prioritized
<1>4. p \in local.todo /\ \A q \in local.todo : Position(p) <= Position(q)
  BY <1>2, <1>3, FirstIs
<1>5. calm => Preferred
  BY DEF Inv, Knowing, PreferAnswered
<1>6. CASE Playing(p)
  <2>1. StartRead(p)
    BY <1>6 DEF PreferAnswered
  <2>2. p \in Players /\ p \in Priority
    BY <1>2, <1>3, <1>4
  <2>3. calm' => IsBest(p)
    <3> SUFFICES ASSUME calm' PROVE IsBest(p)
      OBVIOUS
    <3>1. \A q \in Prioritized(Listed) : Playing(q) => Position(p) <= Position(q)
      BY <1>1, <1>4, <1>5 DEF Preferred
    <3> HIDE DEF p
    <3> QED
      BY <1>6, <2>2, <3>1, PreferredBest
  <2> HIDE DEF p
  <2> QED
    BY <1>1, <2>1, <2>2, <2>3, StartReadInv
<1>7. CASE ~Playing(p) /\ rest # {}
  <2>1. call' = "prefer" /\ local' = [local EXCEPT !.todo = rest]
    BY <1>7 DEF PreferAnswered
  <2>2. rest \in SUBSET Players
    BY <1>2, <1>3
  <2>3. Prioritized(local.names) \ rest = (Prioritized(local.names) \ local.todo) \cup {p}
    BY <1>2, <1>4
  <2>4. rest \subseteq local.todo
    OBVIOUS
  <2> HIDE DEF rest, p
  <2>5. /\ local' \in Locals /\ local'.names = local.names /\ local'.todo = rest
        /\ local'.firstPlaying = local.firstPlaying
    BY <1>1, <2>1, <2>2, Zenon DEF Locals
  <2>6. TypeOK'
    BY <1>1, <2>1, <2>5, TypesAreNext
  <2>7. calm' => Preferred'
    <3> SUFFICES ASSUME calm' PROVE Preferred'
      OBVIOUS
    <3>1. Listed' = Listed /\ Prioritized(local'.names) = Prioritized(local.names)
      BY <1>1, <2>5, SamePlayers
    <3>2. Ahead(Prioritized(local.names) \ rest, rest)
      BY <1>1, <1>4, <1>5, <2>3, <2>4 DEF Preferred, Ahead
    <3>3. \A q \in Prioritized(local.names) \ rest : ~Playing(q)
      BY <1>1, <1>5, <1>7, <2>3 DEF Preferred
    <3>4. local.names = Listed /\ PlaysFirst(local.firstPlaying, local.names)
      BY <1>1, <1>5 DEF Preferred
    <3> QED
      BY <1>1, <2>5, <3>1, <3>2, <3>3, <3>4 DEF Preferred, PlaysFirst, Playing, Ahead
  <2>8. Asking'
    BY <1>2, <1>7, <2>1, <2>4, <2>5 DEF Asking
  <2> QED
    BY <2>1, <2>6, <2>7, <2>8 DEF Inv, Knowing
<1>8. CASE ~Playing(p) /\ rest = {}
  <2>1. StartRead(Fallback(local.names, local.firstPlaying))
    BY <1>8 DEF PreferAnswered
  <2>2. Fallback(local.names, local.firstPlaying) \in Players
    BY <1>2, <1>3, FallbackIs
  <2>3. calm' => IsBest(Fallback(local.names, local.firstPlaying))
    <3> SUFFICES ASSUME calm' PROVE IsBest(Fallback(local.names, local.firstPlaying))
      OBVIOUS
    <3>1. local.names = Listed /\ PlaysFirst(local.firstPlaying, Listed)
      BY <1>1, <1>5 DEF Preferred
    <3>2. \A q \in Prioritized(Listed) : ~Playing(q)
      BY <1>1, <1>5, <1>8 DEF Preferred
    <3>3. Listed # {}
      BY <1>2, <1>3, <3>1
    <3> QED
      BY <3>1, <3>2, <3>3, FallbackBest
  <2> QED
    BY <1>1, <2>1, <2>2, <2>3, StartReadInv
<1> QED
  BY <1>6, <1>7, <1>8

LEMMA ReadAnsweredInv ==
    ASSUME Inv, ReadAnswered
    PROVE  Inv'
<1> DEFINE p == local.s.name
           s == IF Present(p) THEN Property(local.s, p, Fields[local.next]) ELSE local.s
<1>1. /\ player' = player /\ calm' = calm
      /\ player \in [Players -> States] /\ Rest' /\ snap \in Snapshots /\ local \in Locals
  BY TypesAre, RestKept DEF Inv, ReadAnswered, Rest
<1>2. p \in Players /\ local.s \in Snapshots /\ local.next \in 1 .. Len(Fields)
  BY <1>1 DEF Inv, Asking, ReadAnswered, Locals
<1>3. s \in Snapshots /\ s.name = p
  BY <1>1, <1>2, PropertyIs
<1>4. calm => IsBest(p) /\ Present(p) /\ ReadSoFar(s, p, local.next + 1)
  <2> SUFFICES ASSUME calm PROVE IsBest(p) /\ Present(p) /\ ReadSoFar(s, p, local.next + 1)
    OBVIOUS
  <2>1. IsBest(p) /\ ReadSoFar(local.s, p, local.next)
    BY DEF Inv, Knowing, Reading, ReadAnswered
  <2>2. Present(p)
    BY <2>1 DEF IsBest, Listed
  <2> QED
    BY <1>1, <1>2, <2>1, <2>2, PropertyIs
<1>5. CASE local.next < Len(Fields)
  <2>1. call' = "read" /\ snap' = snap /\ local' = [local EXCEPT !.s = s, !.next = @ + 1]
    BY <1>5 DEF ReadAnswered
  <2>2. local.next + 1 \in 1 .. Len(Fields)
    BY <1>2, <1>5, FieldsAre
  <2> HIDE DEF s
  <2>3. local' \in Locals /\ local'.s = s /\ local'.next = local.next + 1
    BY <1>1, <1>3, <2>1, <2>2, Zenon DEF Locals
  <2>4. TypeOK'
    BY <1>1, <2>1, <2>3, TypesAreNext
  <2>5. calm' => Reading'
    BY <1>1, <1>3, <1>4, <2>3, SamePlayers
       DEF Reading, IsBest, ReadSoFar, Rank, Playing, Listed, Present
  <2> QED
    BY <1>2, <1>3, <2>1, <2>3, <2>4, <2>5 DEF Inv, Asking, Knowing
<1>6. CASE ~(local.next < Len(Fields))
  <2> DEFINE t == [s EXCEPT !.valid = TRUE]
  <2>1. call' = "loop" /\ snap' = t /\ local' = NoLocals
    BY <1>6 DEF ReadAnswered
  <2> HIDE DEF s
  <2>2. /\ t \in Snapshots /\ t.valid = TRUE /\ t.name = s.name /\ t.status = s.status
        /\ t.canControl = s.canControl /\ t.canGoNext = s.canGoNext
        /\ t.canGoPrevious = s.canGoPrevious /\ t.volume = s.volume /\ t.track = s.track
    BY <1>3, Zenon DEF Snapshots
  <2> HIDE DEF t
  <2>3. TypeOK'
    BY <1>1, <2>1, <2>2, NoLocalsIs, TypesAreNext
  <2>4. calm => t = Truth
    <3> SUFFICES ASSUME calm PROVE t = Truth
      OBVIOUS
    <3>1. ReadSoFar(s, p, 7)
      BY <1>2, <1>4, <1>6, FieldsAre
    <3>2. Truth = TruthOf(p)
      BY <1>4, BestIs DEF Truth, TruthOf, IsBest
    <3>3. Truth \in Snapshots
      BY <1>1, <1>4, <3>2, TruthIs DEF IsBest
    <3>4. /\ t.valid = TRUE /\ t.name = p /\ t.status = player[p].status
          /\ t.canControl = TRUE /\ t.canGoNext = (player[p].track < LastTrack)
          /\ t.canGoPrevious = (player[p].track > 1)
          /\ t.volume = player[p].volume /\ t.track = player[p].track
      BY <2>2, <3>1 DEF ReadSoFar
    <3>5. t \in Snapshots /\ TruthOf(p) \in Snapshots
      BY <2>2, <3>2, <3>3
    <3> DEFINE u == TruthOf(p)
    <3>6. /\ t.valid = u.valid /\ t.name = u.name /\ t.status = u.status
          /\ t.canControl = u.canControl /\ t.canGoNext = u.canGoNext
          /\ t.canGoPrevious = u.canGoPrevious /\ t.volume = u.volume /\ t.track = u.track
      BY <3>4, TruthOfIs, Zenon
    <3> HIDE DEF u
    <3> QED
      BY <3>2, <3>5, <3>6, SameSnapshot DEF u
  <2> QED
    BY <1>1, <2>1, <2>3, <2>4, SamePlayers DEF Inv, Asking, Knowing
<1> QED
  BY <1>5, <1>6

-----------------------------------------------------------------------------
\* The players and the panel.

LEMMA RefreshInv ==
    ASSUME Inv, Refresh, player' \in [Players -> States], panel' \in Panels, snap' \in Snapshots,
           down' \in BOOLEAN, dragging' \in BOOLEAN,
           changes' \in 0 .. MaxChanges, inputs' \in 0 .. MaxInputs
    PROVE  Inv'
<1>1. call' = "list" /\ local' = NoLocals /\ calm' = TRUE
  BY DEF Refresh
<1>2. TypeOK'
  BY <1>1, NoLocalsIs DEF TypeOK
<1> QED
  BY <1>1, <1>2 DEF Inv, Asking, Knowing

LEMMA PlayerChangesInv ==
    ASSUME Inv, PlayerChanges
    PROVE  Inv'
<1>1. player' \in [Players -> States]
  <2>1. PICK p \in Players :
          \/ \E st \in (Statuses \cup {"gone"}) \ {player[p].status} : player' = WithStatus(p, st)
          \/ \E t \in 1 .. LastTrack : player' = WithTrack(p, t)
          \/ \E v \in Volumes : player' = WithVolume(p, v)
    BY DEF PlayerChanges
  <2> QED
    BY <2>1, WithStatusIs, WithTrackIs, WithVolumeIs DEF Inv, TypeOK
<1>2. changes' \in 0 .. MaxChanges
  BY MediaAssumption DEF PlayerChanges, Inv, TypeOK
<1>3. TypeOK'
  BY <1>1, <1>2 DEF PlayerChanges, Inv, TypeOK
<1> QED
  BY <1>3 DEF PlayerChanges, Inv, Asking, Knowing

LEMMA TickInv ==
    ASSUME Inv, Tick
    PROVE  Inv'
  BY RefreshInv DEF Tick, Inv, TypeOK

LEMMA DrawInv ==
    ASSUME Inv, Draw
    PROVE  Inv'
<1>1. player' = player /\ snap' = snap /\ call' = call /\ local' = local /\ calm' = calm
  BY DEF Draw
<1>2. panel' \in Panels
  <2>1. panel \in Panels /\ snap \in Snapshots
    BY DEF Inv, TypeOK
  <2>2. CASE ~Active(snap)
    <3>1. panel' = [panel EXCEPT !.shown = FALSE, !.of = NoSnapshot]
      BY <2>2 DEF Draw
    <3> QED
      BY <2>1, <3>1, NoSnapshotIs, Zenon DEF Panels
  <2>3. CASE Active(snap)
    <3> DEFINE enabled == [c \in Controls |-> CASE c = "previous" -> snap.canGoPrevious
                                                [] c = "play" -> snap.canControl
                                                [] c = "next" -> snap.canGoNext]
               slider == snap.canControl /\ snap.volume # NoVolume
    <3>1. panel' = [shown |-> TRUE, of |-> snap, drawn |-> TRUE, enabled |-> enabled,
                    slider |-> slider]
      BY <2>3 DEF Draw
    <3>2. enabled \in [Controls -> BOOLEAN]
      BY <2>1 DEF Controls, Snapshots
    <3>3. slider \in BOOLEAN
      OBVIOUS
    <3> HIDE DEF enabled, slider
    <3> QED
      BY <2>1, <3>1, <3>2, <3>3 DEF Panels
  <2> QED
    BY <2>2, <2>3
<1>3. TypeOK'
  BY <1>2 DEF Draw, Inv, TypeOK
<1> QED
  BY <1>1, <1>3, KnowingKept DEF Inv

\* A drag keeps a snapshot that is true true: it changes the volume in both.
LEMMA SetVolumeIs ==
    ASSUME Inv, SetVolume
    PROVE  /\ player' \in [Players -> States] /\ snap' \in Snapshots
           /\ snap = Truth => snap' = Truth'
<1>1. player \in [Players -> States] /\ snap \in Snapshots
  BY DEF Inv, TypeOK
<1>2. CASE UNCHANGED <<player, snap>>
  BY <1>1, <1>2, SamePlayers
<1>3. CASE snap.valid /\ \E x \in -1 .. MaxVolume + 1 :
                            /\ player' = WithVolume(snap.name, Clamped(x))
                            /\ snap' = [snap EXCEPT !.volume = Clamped(x)]
  <2>1. PICK x \in -1 .. MaxVolume + 1 : /\ player' = WithVolume(snap.name, Clamped(x))
                                         /\ snap' = [snap EXCEPT !.volume = Clamped(x)]
    BY <1>3
  <2> DEFINE v == Clamped(x)
  <2>2. v \in Volumes
    BY ClampedIs
  <2>3. /\ snap' = [snap EXCEPT !.volume = v]
        /\ player' = WithVolume(snap.name, v)
    BY <2>1
  <2> HIDE DEF v
  <2>4. /\ snap' \in Snapshots /\ snap'.volume = v
        /\ snap'.valid = snap.valid /\ snap'.name = snap.name /\ snap'.status = snap.status
        /\ snap'.canControl = snap.canControl /\ snap'.canGoNext = snap.canGoNext
        /\ snap'.canGoPrevious = snap.canGoPrevious /\ snap'.track = snap.track
    BY <1>1, <2>2, <2>3, Zenon DEF Snapshots
  <2>5. CASE snap.name \in Players
    <3>1. PICK n \in Players : n = snap.name /\ n = snap'.name
      BY <2>4, <2>5
    <3>2. /\ player' \in [Players -> States]
          /\ \A q \in Players : player'[q].status = player[q].status
                                /\ player'[q].track = player[q].track
          /\ player'[n].volume = v
      BY <1>1, <2>2, <2>3, <3>1, WithVolumeIs
    <3>3. ASSUME snap = Truth PROVE snap' = Truth'
      <4>1. Listed # {} /\ Truth = TruthOf(Best)
        BY <1>3, <3>3, NoSnapshotIs DEF Truth, TruthOf
      <4>2. IsBest(n) /\ snap = TruthOf(n)
        BY <3>1, <3>3, <4>1, BestExists DEF TruthOf
      <4>3. Listed' = Listed /\ \A q \in Players : Rank(q)' = Rank(q)
        BY <3>2 DEF Listed, Present, Rank, Playing
      <4>4. IsBest(n)'
        BY <4>2, <4>3 DEF IsBest, Listed
      <4>5. n \in Listed' /\ Truth' = TruthOf(n)'
        BY <4>4, BestIsNext DEF IsBest, Truth, TruthOf
      <4>6. TruthOf(n)' \in Snapshots
        BY <3>2, <4>5, TruthIsNext
      <4>7. /\ player[n].status = player'[n].status /\ player[n].track = player'[n].track
            /\ player'[n].volume = v
        BY <3>2
      <4>8. /\ snap.valid = TRUE /\ snap.name = n /\ snap.status = player[n].status
            /\ snap.canControl = TRUE /\ snap.canGoNext = (player[n].track < LastTrack)
            /\ snap.canGoPrevious = (player[n].track > 1) /\ snap.track = player[n].track
        BY <4>2, TruthOfIs
      <4>9. /\ TruthOf(n)'.valid = TRUE /\ TruthOf(n)'.name = n
            /\ TruthOf(n)'.status = player[n].status /\ TruthOf(n)'.canControl = TRUE
            /\ TruthOf(n)'.canGoNext = (player[n].track < LastTrack)
            /\ TruthOf(n)'.canGoPrevious = (player[n].track > 1)
            /\ TruthOf(n)'.volume = v /\ TruthOf(n)'.track = player[n].track
        BY <4>7, TruthOfIsNext
      <4> DEFINE t == snap'
                 u == TruthOf(n)'
      <4>10. /\ t.valid = u.valid /\ t.name = u.name /\ t.status = u.status
             /\ t.canControl = u.canControl /\ t.canGoNext = u.canGoNext
             /\ t.canGoPrevious = u.canGoPrevious /\ t.volume = u.volume /\ t.track = u.track
        BY <2>4, <3>1, <4>8, <4>9, Zenon
      <4>11. t \in Snapshots /\ u \in Snapshots /\ Truth' = u
        BY <2>4, <4>5, <4>6
      <4> HIDE DEF t, u
      <4>12. t = u
        BY <4>10, <4>11, SameSnapshot
      <4> QED
        BY <4>11, <4>12 DEF t
    <3> QED
      BY <2>4, <3>2, <3>3
  <2>6. CASE snap.name \notin Players
    <3>1. player' = player
      BY <1>1, <2>3, <2>6 DEF WithVolume
    <3>2. snap # Truth
      BY <1>3, <2>6, BestExists, NoSnapshotIs DEF Truth, IsBest, Listed
    <3> QED
      BY <1>1, <2>4, <3>1, <3>2
  <2> QED
    BY <2>5, <2>6
<1> QED
  BY <1>2, <1>3 DEF SetVolume

LEMMA SliderInv ==
    ASSUME Inv, call = "loop", SetVolume, UNCHANGED <<panel, call, local, calm, changes>>,
           down' \in BOOLEAN, dragging' \in BOOLEAN, inputs' \in 0 .. MaxInputs
    PROVE  Inv'
<1>1. TypeOK'
  BY SetVolumeIs DEF Inv, TypeOK
<1> QED
  BY <1>1, SetVolumeIs DEF Inv, Asking, Knowing

LEMMA CommandIs ==
    ASSUME Inv, call = "loop", NEW c \in Controls, Command(c)
    PROVE  /\ player' \in [Players -> States]
           /\ Refresh \/ UNCHANGED <<player, call, local, calm>>
<1>1. player \in [Players -> States] /\ snap \in Snapshots /\ LastTrack \in Nat
  BY MediaAssumption DEF Inv, TypeOK
<1>2. CASE UNCHANGED <<player, call, local, calm>>
  BY <1>1, <1>2
<1>3. CASE Refresh /\ player' = player
  BY <1>1, <1>3
<1>4. CASE Refresh /\ Present(snap.name) /\ player' # player
  <2> DEFINE p == snap.name
  <2>1. \/ player' = WithStatus(p, IF Playing(p) THEN "Paused" ELSE "Playing")
        \/ player[p].track < LastTrack /\ player' = WithTrack(p, player[p].track + 1)
        \/ player[p].track > 1 /\ player' = WithTrack(p, player[p].track - 1)
    BY <1>4 DEF Command
  <2>2. p \in Players
    BY <1>1, <1>4, <2>1 DEF WithStatus, WithTrack
  <2>3. player[p].track \in 1 .. LastTrack
    BY <1>1, <2>2 DEF States
  <2>4. (IF Playing(p) THEN "Paused" ELSE "Playing") \in Statuses \cup {"gone"}
    BY DEF Statuses
  <2>5. /\ player[p].track < LastTrack => player[p].track + 1 \in 1 .. LastTrack
        /\ player[p].track > 1 => player[p].track - 1 \in 1 .. LastTrack
    BY <1>1, <2>3
  <2> HIDE DEF p
  <2> QED
    BY <1>1, <1>4, <2>1, <2>2, <2>4, <2>5, WithStatusIs, WithTrackIs
<1> QED
  BY <1>2, <1>3, <1>4 DEF Command

LEMMA OnPressInv ==
    ASSUME Inv, OnPress
    PROVE  Inv'
<1>1. /\ call = "loop" /\ down' = TRUE /\ panel' = panel /\ changes' = changes
      /\ inputs' \in 0 .. MaxInputs
  BY MediaAssumption DEF OnPress, Inv, TypeOK
<1>2. ASSUME UNCHANGED <<player, snap, dragging, call, local, calm>> PROVE Inv'
  BY <1>1, <1>2, Unmoved DEF Inv, TypeOK
<1>3. ASSUME NEW c \in Controls, PressControl(c) PROVE Inv'
  <2>1. UNCHANGED <<snap, dragging>>
    BY <1>3 DEF PressControl
  <2>2. CASE UNCHANGED <<player, call, local, calm>>
    BY <1>2, <2>1, <2>2
  <2>3. CASE Command(c)
    <3>1. CASE UNCHANGED <<player, call, local, calm>>
      BY <2>2, <3>1
    <3>2. CASE Refresh
      BY <1>1, <2>1, <2>3, <3>2, CommandIs, RefreshInv DEF Inv, TypeOK
    <3> QED
      BY <1>1, <2>3, <3>1, <3>2, CommandIs
  <2> QED
    BY <1>3, <2>2, <2>3 DEF PressControl
<1>4. CASE PressSlider
  BY <1>1, <1>4, SliderInv DEF PressSlider
<1> QED
  BY <1>2, <1>3, <1>4 DEF OnPress, PressElsewhere

LEMMA OnReleaseInv ==
    ASSUME Inv, OnRelease
    PROVE  Inv'
  BY Unmoved DEF OnRelease, Inv, TypeOK

LEMMA OnMotionInv ==
    ASSUME Inv, OnMotion
    PROVE  Inv'
<1>1. inputs' \in 0 .. MaxInputs
  BY MediaAssumption DEF OnMotion, Inv, TypeOK
<1> QED
  BY <1>1, SliderInv DEF OnMotion, Inv, TypeOK

-----------------------------------------------------------------------------

LEMMA InvInit ==
    ASSUME Init
    PROVE  Inv
<1>1. player \in [Players -> States]
  BY MediaAssumption DEF Init, States, Volumes
<1>2. panel \in Panels
  <2> DEFINE enabled == [c \in Controls |-> TRUE]
  <2>1. enabled \in [Controls -> BOOLEAN]
    OBVIOUS
  <2>2. panel = [shown |-> FALSE, of |-> NoSnapshot, enabled |-> enabled,
                 slider |-> FALSE, drawn |-> FALSE]
    BY DEF Init
  <2> HIDE DEF enabled
  <2> QED
    BY <2>1, <2>2, NoSnapshotIs DEF Panels
<1>3. TypeOK
  <2>1. snap \in Snapshots /\ local \in Locals
    BY NoSnapshotIs, NoLocalsIs DEF Init
  <2>2. changes \in 0 .. MaxChanges /\ inputs \in 0 .. MaxInputs
    BY MediaAssumption DEF Init
  <2>3. down \in BOOLEAN /\ dragging \in BOOLEAN /\ calm \in BOOLEAN /\ call = "loop"
    BY DEF Init
  <2> QED
    BY <1>1, <1>2, <2>1, <2>2, <2>3 DEF TypeOK
<1> QED
  BY <1>3, NoSnapshotIs DEF Init, Inv, Asking, Knowing

LEMMA InvStep ==
    ASSUME Inv, [Next]_vars
    PROVE  Inv'
<1>1. CASE UNCHANGED vars
  BY <1>1, Unmoved DEF vars, Inv, TypeOK
<1> QED
  BY <1>1, ListAnsweredInv, ScanAnsweredInv, PreferAnsweredInv, ReadAnsweredInv, PlayerChangesInv,
     TickInv, DrawInv, OnPressInv, OnReleaseInv, OnMotionInv DEF Next, Answered

\* What the panel, the drags and the refresh keep stays of its type: a snapshot names a player
\* or none, a volume is inside the slider however far a drag goes past its end, and the refresh
\* stays within the properties it reads (MprisController, AudioController::handleDrag).
THEOREM TypeCorrect == Spec => []TypeOK
<1>1. Init => Inv
  BY InvInit
<1>2. Inv /\ [Next]_vars => Inv'
  BY InvStep
<1>3. Inv => TypeOK
  BY DEF Inv
<1> QED
  BY <1>1, <1>2, <1>3, PTL DEF Spec

\* However the calls of a refresh interleave with players that come, go and change, a refresh
\* that nothing changed under has chosen the player of the priority list that plays and is
\* listed first, or the one pickActive() falls back to, with all its properties.
THEOREM RefreshCorrect == Spec => []RefreshAccurate
<1>1. Init => Inv
  BY InvInit
<1>2. Inv /\ [Next]_vars => Inv'
  BY InvStep
<1>3. Inv => RefreshAccurate
  BY DEF Inv, Knowing, RefreshAccurate
<1> QED
  BY <1>1, <1>2, <1>3, PTL DEF Spec

=============================================================================
