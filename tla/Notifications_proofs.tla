------------------------ MODULE Notifications_proofs ------------------------
(***************************************************************************)
(* Proofs about notifications: the types of daemon, mirrors and view; that *)
(* a mirror keeps the daemon's ids apart and, but for a locker's backlog,  *)
(* shows no ghosts; and that cards are current and pressed as drawn; for   *)
(* any limits and bounds.                                                  *)
(***************************************************************************)
EXTENDS Notifications, FiniteSetTheorems, SequenceTheorems, WellFoundedInduction, TLAPS

-----------------------------------------------------------------------------
\* The inductive invariant.  N and P are the notes and the pending calls of a monitor, f is
\* its feed, td the calls the daemon has not come to.

Calling(msg, call) == msg.msg = "notify" /\ msg.call = call
Queues(msg, call) == Calling(msg, call) /\ msg.queued
Mentions(msg, id) == \/ msg.msg = "notify" /\ msg.replaces = id
                     \/ msg.msg = "return" /\ msg.id = id

\* Ids are told in messages, before anyone uses them.
Known(N, f, td, told, limit) ==
    /\ \A n \in N : n.daemonId \in told \cup {0}
    /\ \A i \in 1 .. Len(f) : /\ f[i].msg = "notify" => f[i].replaces \in told \cup {0}
                              /\ f[i].msg = "return" => f[i].id \in told
                              /\ f[i].msg = "notify" => f[i].call <= limit
    /\ \A x \in 1 .. Len(td) :
          td[x].msg = "notify" /\ td[x].replaces \in told \cup {0} /\ td[x].call <= limit

\* A call is read once, and remembered with a key of its own.
Once(P, f, limit) ==
    /\ \A p, q \in P : p.call = q.call \/ p.key = q.key => p = q
    /\ \A i, j \in 1 .. Len(f) : f[i].msg = "notify" /\ Calling(f[j], f[i].call) => i = j
    /\ \A p \in P : p.call <= limit /\ \A i \in 1 .. Len(f) : ~Calling(f[i], p.call)

\* Nothing that the monitor holds, or reads before f[j], uses the id.
Unused(N, f, j, id) ==
    /\ \A n \in N : n.daemonId # id
    /\ \A i \in 1 .. j - 1 : ~Mentions(f[i], id)

\* The reply to a call tells the id that its note has, or one that is not used before.
Fits(N, f, j, id) == id = f[j].id \/ (id = 0 /\ Unused(N, f, j, f[j].id))
FitsNote(N, P, f, j) ==
    \A p \in P, n \in N : p.call = f[j].call /\ n.key = p.key => Fits(N, f, j, n.daemonId)
FitsCall(N, f, j) ==
    \A i \in 1 .. j - 1 : Queues(f[i], f[j].call) => Fits(N, f, j, f[i].replaces)
Answering(N, P, f) ==
    \A j \in 1 .. Len(f) : f[j].msg = "return" => FitsNote(N, P, f, j) /\ FitsCall(N, f, j)

\* A call that waits for the daemon, as the monitor has read it or will.
Waiting(N, P, f, td) ==
    \A x \in 1 .. Len(td) :
        /\ \A p \in P : p.call = td[x].call =>
              td[x].queued /\ \A n \in N : n.key = p.key => n.daemonId = td[x].replaces
        /\ \A i \in 1 .. Len(f) : Calling(f[i], td[x].call) => f[i] = td[x]

\* Until the reply a note says what its call said.
Quoting(N, P) == \A p \in P, n \in N : n.key = p.key /\ n.daemonId = 0 => n.text = p.call

Apart(N) == \A n, o \in N : n.daemonId = o.daemonId /\ n.daemonId # 0 => n.key = o.key

Talk(N, P, f, td, told, limit) ==
    /\ Known(N, f, td, told, limit) /\ Once(P, f, limit) /\ Answering(N, P, f)
    /\ Waiting(N, P, f, td) /\ Quoting(N, P) /\ Apart(N)

KeysApart(s) == \A i, j \in 1 .. Len(s) : s[i].key = s[j].key => i = j

Mirror(m, f) ==
    /\ KeysApart(m.notes) /\ KeysApart(m.pending)
    /\ Talk(Range(m.notes), Range(m.pending), f, toDaemon, daemon.told, calls)

\* What is said last of an id: by a call that waits, or else by the daemon.
Replacing(td, id) == {x \in 1 .. Len(td) : td[x].queued /\ td[x].replaces = id}
Said(td, d, id, text) ==
    /\ Replacing(td, id) = {} => id \in d.undismissed /\ d.content[id] = text
    /\ \A x \in Replacing(td, id) :
          (\A y \in Replacing(td, id) : y <= x) => td[x].call = text

\* A message that changes or removes the card of an id.
Touches(msg, id) ==
    \/ msg.msg = "notify" /\ msg.queued /\ msg.replaces = id
    \/ msg.msg = "closed" /\ msg.reason \in {Dismissed, ByCall} /\ msg.id = id
Untouched(f, j, id) == \A i \in 1 .. Len(f) : i > j => ~Touches(f[i], id)

\* With what is still to be read, a mirror that has missed nothing will say the same.
SaysNotes(N, f, td, d) ==
    \A n \in N : n.daemonId # 0 /\ Untouched(f, 0, n.daemonId) => Said(td, d, n.daemonId, n.text)
SaysCalls(f, td, d) ==
    \A j \in 1 .. Len(f) :
        f[j].msg = "notify" /\ f[j].queued /\ f[j].replaces # 0 /\ Untouched(f, j, f[j].replaces)
            => Said(td, d, f[j].replaces, f[j].call)
\* The reply f[j] is the first that the mirror hears of its id.
Names(N, P, f, j) ==
    \/ \E p \in P, n \in N : p.call = f[j].call /\ n.key = p.key /\ n.daemonId = 0
    \/ \E i \in 1 .. j - 1 : Queues(f[i], f[j].call) /\ f[i].replaces = 0
SaysReplies(N, P, f, td, d) ==
    \A j \in 1 .. Len(f) : f[j].msg = "return" /\ Untouched(f, j, f[j].id) /\ Names(N, P, f, j)
        => Said(td, d, f[j].id, f[j].call)
Following(N, P, f, td, d) ==
    SaysNotes(N, f, td, d) /\ SaysCalls(f, td, d) /\ SaysReplies(N, P, f, td, d)

\* The notes that a locker has not been given.
Own(l) == {n \in Range(l.m.notes) : n.key > l.given}

\* The daemon counts its ids.
Counted ==
    /\ daemon.ids = 1 .. Cardinality(daemon.ids)
    /\ Cardinality(daemon.ids) + Len(toDaemon) <= calls

Viewed ==
    /\ KeysApart(view.cards)
    /\ CardsCurrent
    /\ PressHitsDrawn

Inv ==
    /\ TypeOK
    /\ Counted
    /\ Mirror(recorder.m, recorder.feed)
    /\ Mirror(locker.m, locker.feed)
    /\ recorder.life = "on" =>
          Following(Range(recorder.m.notes), Range(recorder.m.pending), recorder.feed, toDaemon, daemon)
    /\ locker.phase = "off" => locker.m = EmptyMonitor
    /\ locker.phase \in {"off", "fetched"} =>
          Own(locker) = {} /\ Range(locker.m.pending) = {} /\ locker.feed = <<>>
    /\ locker.phase = "monitoring" =>
          Following(Own(locker), Range(locker.m.pending), locker.feed, toDaemon, daemon)
    /\ Viewed

-----------------------------------------------------------------------------
\* Sequences.

LEMMA Least ==
    ASSUME NEW S \in SUBSET Nat, S # {}
    PROVE  Min(S) \in S /\ \A y \in S : Min(S) <= y
<1>1. PICK x \in S : \A y \in S : <<y, x>> \notin OpToRel(<, Nat)
  BY WFMin, NatLessThanWellFounded
<1>2. \A y \in S : ~(y < x)
  BY <1>1 DEF OpToRel
<1>3. \A y \in S : x <= y
  BY <1>2
<1>4. \E z \in S : \A y \in S : z =< y
  BY <1>3
<1> QED
  BY <1>4 DEF Min

LEMMA MaxOfTwo ==
    ASSUME NEW a \in Int, NEW b \in Int
    PROVE  Max({a, b}) = IF a >= b THEN a ELSE b
<1>1. \E x \in {a, b} : \A y \in {a, b} : x >= y
  OBVIOUS
<1>2. Max({a, b}) \in {a, b} /\ \A y \in {a, b} : Max({a, b}) >= y
  BY <1>1 DEF Max
<1> QED
  BY <1>2

LEMMA RangeIs ==
    ASSUME NEW S, NEW s \in Seq(S)
    PROVE  /\ Range(s) = {s[i] : i \in 1 .. Len(s)} /\ Range(s) \subseteq S
           /\ DOMAIN s = 1 .. Len(s) /\ Len(s) \in Nat
  BY LenProperties DEF Range

\* t has elements of s, in whatever order, none of them twice.
Part(t, s) ==
    \E at \in [1 .. Len(t) -> 1 .. Len(s)] :
        /\ \A k \in 1 .. Len(t) : t[k] = s[at[k]]
        /\ \A k, l \in 1 .. Len(t) : at[k] = at[l] => k = l

LEMMA PartIs ==
    ASSUME NEW S, NEW s \in Seq(S), NEW t \in Seq(S), Part(t, s)
    PROVE  /\ Range(t) \subseteq Range(s)
           /\ KeysApart(s) => KeysApart(t)
<1>1. PICK at \in [1 .. Len(t) -> 1 .. Len(s)] :
        /\ \A k \in 1 .. Len(t) : t[k] = s[at[k]]
        /\ \A k, l \in 1 .. Len(t) : at[k] = at[l] => k = l
  BY DEF Part
<1>2. Range(t) \subseteq Range(s)
  BY <1>1, RangeIs
<1>3. ASSUME KeysApart(s) PROVE KeysApart(t)
  <2>1. ASSUME NEW k \in 1 .. Len(t), NEW l \in 1 .. Len(t), t[k].key = t[l].key PROVE k = l
    <3>1. at[k] \in 1 .. Len(s) /\ at[l] \in 1 .. Len(s) /\ s[at[k]].key = s[at[l]].key
      BY <1>1, <2>1
    <3>2. at[k] = at[l]
      BY <1>3, <3>1 DEF KeysApart
    <3> QED
      BY <1>1, <3>2
  <2> QED
    BY <2>1 DEF KeysApart
<1> QED
  BY <1>2, <1>3

\* The k-th of a set of places.
Below(keep, i) == {j \in keep : j <= i}

LEMMA PlacesFinite ==
    ASSUME NEW n \in Nat, NEW keep \in SUBSET (1 .. n)
    PROVE  IsFiniteSet(keep) /\ Cardinality(keep) \in Nat /\ Cardinality(keep) <= n
<1>1. IsFiniteSet(1 .. n) /\ Cardinality(1 .. n) = n
  <2>1. 1 \in Int /\ n \in Int
    OBVIOUS
  <2>2. IsFiniteSet(1 .. n) /\ Cardinality(1 .. n) = IF 1 > n THEN 0 ELSE n - 1 + 1
    BY ONLY <2>1, FS_Interval
  <2> QED
    BY <2>2
<1>2. IsFiniteSet(keep) /\ Cardinality(keep) <= n
  BY <1>1, FS_Subset
<1>3. Cardinality(keep) \in Nat
  BY <1>2, FS_CardinalityType
<1> QED
  BY <1>2, <1>3

LEMMA BelowIs ==
    ASSUME NEW n \in Nat, NEW keep \in SUBSET (1 .. n), NEW i
    PROVE  IsFiniteSet(Below(keep, i)) /\ Cardinality(Below(keep, i)) \in Nat
<1>1. Below(keep, i) \in SUBSET (1 .. n)
  BY DEF Below
<1> QED
  BY <1>1, PlacesFinite

LEMMA NextPlace ==
    ASSUME NEW n \in Nat, NEW keep \in SUBSET (1 .. n), NEW i \in 0 .. n,
           Cardinality(Below(keep, i)) < Cardinality(keep)
    PROVE  \E j \in keep : Cardinality(Below(keep, j)) = Cardinality(Below(keep, i)) + 1
<1> DEFINE above == {j \in keep : i < j}
<1>0. Cardinality(keep) \in Nat /\ \A j \in keep : j \in Nat
  BY PlacesFinite
<1>1. above # {} /\ above \in SUBSET Nat
  <2>1. ASSUME above = {} PROVE Below(keep, i) = keep
    <3>1. ASSUME NEW j \in keep PROVE j <= i
      <4>1. j \in Nat /\ i \in Nat /\ ~(i < j)
        BY <1>0, <2>1
      <4> QED
        BY <4>1
    <3> QED
      BY <3>1 DEF Below
  <2>2. above # {}
    <3>1. CASE above = {}
      <4>1. Cardinality(keep) < Cardinality(keep)
        BY <2>1, <3>1
      <4> QED
        BY <1>0, <4>1
    <3> QED
      BY <3>1
  <2> QED
    BY <1>0, <2>2
<1>2. PICK j \in above : \A k \in above : j <= k
  BY <1>1, Least
<1>3. Below(keep, j) = Below(keep, i) \cup {j} /\ j \notin Below(keep, i)
  <2>1. j \in keep /\ j \in Nat /\ i \in Nat /\ i < j
    BY <1>0, <1>2
  <2>2. ASSUME NEW k \in keep PROVE k <= j <=> (k <= i \/ k = j)
    <3>1. k \in Nat /\ (i < k => j <= k)
      BY <1>0, <1>2
    <3> QED
      BY <2>1, <3>1
  <2>3. j \notin Below(keep, i)
    BY <2>1 DEF Below
  <2>4. Below(keep, j) = Below(keep, i) \cup {j}
    BY <2>1, <2>2 DEF Below
  <2> QED
    BY <2>3, <2>4
<1>4. IsFiniteSet(Below(keep, i)) /\ Cardinality(Below(keep, i)) \in Nat
  BY BelowIs
<1>5. Cardinality(Below(keep, j)) = Cardinality(Below(keep, i)) + 1
  BY <1>3, <1>4, FS_AddElement
<1> QED
  BY <1>2, <1>5

LEMMA PlaceExists ==
    ASSUME NEW n \in Nat, NEW keep \in SUBSET (1 .. n), NEW k \in 1 .. Cardinality(keep)
    PROVE  \E i \in keep : Cardinality(Below(keep, i)) = k
<1>1. Cardinality(keep) \in Nat /\ \A j \in keep : j \in Nat
  BY PlacesFinite
<1> DEFINE Missing == {l \in 1 .. Cardinality(keep) :
                          ~\E i \in keep : Cardinality(Below(keep, i)) = l}
<1>2. CASE Missing = {}
  BY <1>2
<1>3. CASE Missing # {}
  <2>1. Missing \in SUBSET Nat
    BY <1>1
  <2>2. PICK l \in Missing : \A o \in Missing : l <= o
    BY <1>3, <2>1, Least
  <2>3. l \in 1 .. Cardinality(keep) /\ ~\E i \in keep : Cardinality(Below(keep, i)) = l
    BY <2>2
  <2>4. \E i \in 0 .. n : Cardinality(Below(keep, i)) = l - 1
    <3>1. CASE l = 1
      <4>1. Below(keep, 0) = {}
        <5>1. ASSUME NEW j \in keep PROVE ~(j <= 0)
          OBVIOUS
        <5> QED
          BY <5>1 DEF Below
      <4>2. Cardinality(Below(keep, 0)) = l - 1
        BY <3>1, <4>1, FS_EmptySet
      <4> QED
        BY <4>2
    <3>2. CASE l > 1
      <4>1. l - 1 \in 1 .. Cardinality(keep) /\ l - 1 \notin Missing
        BY <1>1, <2>2, <2>3, <3>2
      <4>2. \E i \in keep : Cardinality(Below(keep, i)) = l - 1
        BY <4>1
      <4> QED
        BY <4>2
    <3> QED
      BY <1>1, <2>3, <3>1, <3>2
  <2>5. PICK i \in 0 .. n : Cardinality(Below(keep, i)) = l - 1
    BY <2>4
  <2>6. \E j \in keep : Cardinality(Below(keep, j)) = (l - 1) + 1
    BY <1>1, <2>3, <2>5, NextPlace
  <2> QED
    BY <1>1, <2>3, <2>6
<1> QED
  BY <1>2, <1>3

LEMMA KeptIs ==
    ASSUME NEW S, NEW s \in Seq(S), NEW keep \in SUBSET (1 .. Len(s))
    PROVE  /\ Kept(s, keep) \in Seq(S) /\ Len(Kept(s, keep)) <= Len(s)
           /\ Part(Kept(s, keep), s)
           /\ Range(Kept(s, keep)) \subseteq {s[i] : i \in keep}
<1> DEFINE c == Cardinality(keep)
           Place(k) == CHOOSE i \in keep : Cardinality({j \in keep : j <= i}) = k
           t == Kept(s, keep)
<1>1. Len(s) \in Nat /\ \A i \in 1 .. Len(s) : s[i] \in S
  BY LenProperties
<1>2. c \in Nat /\ c <= Len(s)
  BY <1>1, PlacesFinite
<1>3. ASSUME NEW k \in 1 .. c
      PROVE  Place(k) \in keep /\ Cardinality({j \in keep : j <= Place(k)}) = k
  <2>1. \E i \in keep : Cardinality({j \in keep : j <= i}) = k
    BY <1>1, PlaceExists DEF Below
  <2> QED
    BY <2>1
<1>4. t = [k \in 1 .. c |-> s[Place(k)]]
  BY DEF Kept
<1> HIDE DEF c, Place, t
<1>5. t \in Seq(S) /\ Len(t) = c /\ \A k \in 1 .. c : t[k] = s[Place(k)]
  <2>1. \A k \in 1 .. c : s[Place(k)] \in S
    BY <1>1, <1>3
  <2> QED
    BY <1>2, <1>4, <2>1
<1> DEFINE at == [k \in 1 .. c |-> Place(k)]
<1>6. at \in [1 .. Len(t) -> 1 .. Len(s)]
  BY <1>3, <1>5
<1>7. \A k, l \in 1 .. c : at[k] = at[l] => k = l
  BY <1>3
<1>8. Part(t, s)
  BY <1>5, <1>6, <1>7 DEF Part
<1>9. Range(t) \subseteq {s[i] : i \in keep}
  <2>1. Range(t) = {t[k] : k \in 1 .. c}
    BY <1>5, RangeIs
  <2>2. ASSUME NEW k \in 1 .. c PROVE t[k] \in {s[i] : i \in keep}
    <3>1. Place(k) \in keep /\ t[k] = s[Place(k)]
      BY <1>3, <1>5
    <3> QED
      BY ONLY <3>1
  <2> QED
    BY ONLY <2>1, <2>2
<1> QED
  BY <1>2, <1>5, <1>8, <1>9 DEF t

LEMMA RemoveAtIs ==
    ASSUME NEW S, NEW s \in Seq(S), NEW i \in 1 .. Len(s)
    PROVE  /\ RemoveAt(s, i) \in Seq(S) /\ Len(RemoveAt(s, i)) = Len(s) - 1
           /\ Part(RemoveAt(s, i), s)
           /\ Range(RemoveAt(s, i)) \subseteq {s[j] : j \in (1 .. Len(s)) \ {i}}
           /\ \A j \in (1 .. Len(s)) \ {i} : \E k \in 1 .. Len(RemoveAt(s, i)) : RemoveAt(s, i)[k] = s[j]
<1> DEFINE a == SubSeq(s, 1, i - 1)
           b == SubSeq(s, i + 1, Len(s))
           t == RemoveAt(s, i)
           at == [k \in 1 .. Len(s) - 1 |-> IF k < i THEN k ELSE k + 1]
<1>1. Len(s) \in Nat /\ \A j \in 1 .. Len(s) : s[j] \in S
  BY LenProperties
<1>2. a \in Seq(S) /\ Len(a) = i - 1 /\ \A j \in 1 .. i - 1 : a[j] = s[j]
  BY <1>1, SubSeqProperties
<1>3. b \in Seq(S) /\ Len(b) = Len(s) - i /\ \A j \in 1 .. Len(s) - i : b[j] = s[i + j]
  BY <1>1, SubSeqProperties
<1>4. t = a \o b
  BY DEF RemoveAt
<1> HIDE DEF a, b, t
<1>5. t \in Seq(S) /\ Len(t) = Len(s) - 1
  BY <1>1, <1>2, <1>3, <1>4, ConcatProperties
<1>6. \A k \in 1 .. Len(s) - 1 : t[k] = IF k <= Len(a) THEN a[k] ELSE b[k - Len(a)]
  BY <1>1, <1>2, <1>3, <1>4, ConcatProperties
<1>7. ASSUME NEW k \in 1 .. Len(s) - 1 PROVE t[k] = s[at[k]]
  <2>1. at[k] = IF k < i THEN k ELSE k + 1
    OBVIOUS
  <2> HIDE DEF at
  <2>2. CASE k < i
    <3>1. k \in 1 .. i - 1 /\ k <= Len(a)
      BY <1>1, <1>2, <2>2
    <3> QED
      BY <1>2, <1>6, <2>1, <2>2, <3>1
  <2>3. CASE ~(k < i)
    <3>1. /\ k - (i - 1) \in 1 .. Len(s) - i /\ i + (k - (i - 1)) = k + 1
          /\ ~(k <= Len(a)) /\ k - Len(a) = k - (i - 1)
      BY <1>1, <1>2, <2>3
    <3>2. t[k] = b[k - (i - 1)]
      BY <1>6, <3>1
    <3> QED
      BY <1>3, <2>1, <2>3, <3>1, <3>2
  <2> QED
    BY <2>2, <2>3
<1>8. at \in [1 .. Len(t) -> 1 .. Len(s)] /\ \A k \in 1 .. Len(t) : at[k] # i
  BY <1>1, <1>5
<1>9. \A k, l \in 1 .. Len(t) : at[k] = at[l] => k = l
  BY <1>1, <1>5
<1>10. Part(t, s)
  BY <1>5, <1>7, <1>8, <1>9 DEF Part
<1>11. Range(t) \subseteq {s[j] : j \in (1 .. Len(s)) \ {i}}
  BY <1>5, <1>7, <1>8, RangeIs
<1>12. ASSUME NEW j \in (1 .. Len(s)) \ {i} PROVE \E k \in 1 .. Len(t) : t[k] = s[j]
  <2>1. CASE j < i
    <3>1. j \in 1 .. Len(t) /\ at[j] = j
      BY <1>1, <1>5, <2>1
    <3> QED
      BY <1>5, <1>7, <3>1
  <2>2. CASE j > i
    <3>1. j - 1 \in 1 .. Len(t) /\ at[j - 1] = j
      BY <1>1, <1>5, <2>2
    <3> QED
      BY <1>5, <1>7, <3>1
  <2> QED
    BY <1>1, <2>1, <2>2
<1> QED
  BY <1>5, <1>10, <1>11, <1>12 DEF t

LEMMA HeldIs ==
    ASSUME NEW S, NEW s \in Seq(S)
    PROVE  /\ Held(s) \in Seq(S) /\ Len(Held(s)) <= MaxHeld
           /\ Part(Held(s), s)
<1> DEFINE t == Held(s)
           start == Max({1, Len(s) - MaxHeld + 1})
           at == [k \in 1 .. Len(s) - start + 1 |-> k + start - 1]
<1>1. Len(s) \in Nat /\ (\A j \in 1 .. Len(s) : s[j] \in S) /\ MaxHeld \in Nat \ {0}
  BY LenProperties, LimitsAssumption
<1>2. start \in Nat \ {0} /\ start <= Len(s) + 1 /\ Len(s) - start + 1 <= MaxHeld
  BY <1>1, MaxOfTwo
<1>3. t = SubSeq(s, start, Len(s))
  BY DEF Held
<1> HIDE DEF t, start
<1>4. \A j \in start .. Len(s) : s[j] \in S
  BY <1>1, <1>2
<1>5. /\ t \in Seq(S) /\ Len(t) = Len(s) - start + 1
      /\ \A k \in 1 .. Len(s) - start + 1 : t[k] = s[start + k - 1]
  BY <1>1, <1>2, <1>3, <1>4, SubSeqProperties
<1>6. at \in [1 .. Len(t) -> 1 .. Len(s)]
  BY <1>1, <1>2, <1>5
<1>7. \A k, l \in 1 .. Len(t) : at[k] = at[l] => k = l
  BY <1>2, <1>5
<1>8. \A k \in 1 .. Len(t) : t[k] = s[at[k]]
  <2>1. ASSUME NEW k \in 1 .. Len(t) PROVE t[k] = s[at[k]]
    <3>1. k \in 1 .. Len(s) - start + 1 /\ start + k - 1 = k + start - 1
      BY <1>1, <1>2, <1>5
    <3> QED
      BY <1>5, <3>1
  <2> QED
    BY <2>1
<1>9. Part(t, s)
  BY <1>6, <1>7, <1>8 DEF Part
<1> QED
  BY <1>1, <1>2, <1>5, <1>9 DEF t

LEMMA AppendIs ==
    ASSUME NEW S, NEW s \in Seq(S), NEW e \in S
    PROVE  /\ Append(s, e) \in Seq(S) /\ Range(Append(s, e)) = Range(s) \cup {e}
           /\ Len(Append(s, e)) = Len(s) + 1 /\ Append(s, e)[Len(s) + 1] = e
           /\ \A i \in 1 .. Len(s) : Append(s, e)[i] = s[i]
<1>1. Len(s) \in Nat
  BY LenProperties
<1>2. /\ Append(s, e) \in Seq(S) /\ Len(Append(s, e)) = Len(s) + 1
      /\ Append(s, e)[Len(s) + 1] = e /\ \A i \in 1 .. Len(s) : Append(s, e)[i] = s[i]
  BY AppendProperties
<1>3. 1 .. Len(s) + 1 = (1 .. Len(s)) \cup {Len(s) + 1}
  BY <1>1
<1>4. Range(Append(s, e)) = Range(s) \cup {e}
  <2> DEFINE t == Append(s, e)
  <2>1. Range(s) = {s[i] : i \in 1 .. Len(s)}
    BY RangeIs
  <2>2. Range(t) = {t[i] : i \in 1 .. Len(t)}
    BY <1>2, RangeIs
  <2> HIDE DEF t
  <2>3. /\ t[Len(s) + 1] = e /\ \A i \in 1 .. Len(s) : t[i] = s[i]
        /\ 1 .. Len(t) = (1 .. Len(s)) \cup {Len(s) + 1}
    BY <1>2, <1>3 DEF t
  <2>4. Range(t) = Range(s) \cup {e}
    BY <2>1, <2>2, <2>3
  <2> QED
    BY <2>4 DEF t
<1> QED
  BY <1>2, <1>4

LEMMA TailIs ==
    ASSUME NEW S, NEW s \in Seq(S), s # <<>>
    PROVE  /\ Head(s) = s[1] /\ s[1] \in S
           /\ Tail(s) \in Seq(S) /\ Len(s) \in Nat \ {0} /\ Len(Tail(s)) = Len(s) - 1
           /\ \A i \in 1 .. Len(Tail(s)) : i + 1 \in 1 .. Len(s) /\ Tail(s)[i] = s[i + 1]
  BY HeadTailProperties, LenProperties, EmptySeq

-----------------------------------------------------------------------------
\* A monitor with notes N and pending calls P reads a message, which leaves N2 and P2.  What
\* is held may be less than what is said here: the invariant speaks of every note and call.

Ignores(N, P, msg, N2, P2) ==
    /\ \/ msg.msg = "notify" /\ ~msg.queued
       \/ msg.msg = "return" /\ \A p \in P : p.call # msg.call
    /\ N2 \subseteq N /\ P2 \subseteq P

Rewords(N, P, msg, N2, P2) ==
    /\ msg.msg = "notify" /\ msg.queued /\ msg.replaces # 0
    /\ \A o \in N2 : \E n \in N :
          /\ o.key = n.key /\ o.daemonId = n.daemonId
          /\ o.text = IF n.daemonId = msg.replaces THEN msg.call ELSE n.text
    /\ P2 \subseteq P

Pushes(N, P, msg, N2, P2) ==
    /\ msg.msg = "notify" /\ msg.queued
    /\ msg.replaces # 0 => \A n \in N : n.daemonId # msg.replaces
    /\ \E k \in Keys :
          /\ (\A n \in N : n.key # k) /\ (\A p \in P : p.key # k)
          /\ N2 \subseteq N \cup {Note(k, msg.replaces, msg.call)}
          /\ P2 \subseteq P \cup {[call |-> msg.call, key |-> k]}

Learns(N, P, msg, N2, P2) ==
    /\ msg.msg = "return"
    /\ \E p \in P :
          /\ p.call = msg.call
          /\ \A o \in N2 : \E n \in N :
                /\ o.key = n.key /\ o.text = n.text
                /\ o.daemonId = IF n.key = p.key THEN msg.id ELSE n.daemonId
          /\ P2 \subseteq P \ {p}

Removes(N, P, msg, N2, P2) ==
    /\ msg.msg = "closed"
    /\ N2 \subseteq N /\ P2 \subseteq P
    /\ msg.reason \in {Dismissed, ByCall} => \A n \in N2 : n.daemonId # msg.id

Reads(N, P, msg, N2, P2) ==
    \/ Ignores(N, P, msg, N2, P2) \/ Rewords(N, P, msg, N2, P2) \/ Pushes(N, P, msg, N2, P2)
    \/ Learns(N, P, msg, N2, P2) \/ Removes(N, P, msg, N2, P2)

\* g is f without the message read.
Rest(f, g) ==
    /\ Len(f) \in Nat \ {0} /\ Len(g) = Len(f) - 1
    /\ \A i \in 1 .. Len(f) : f[i] \in Messages
    /\ \A i \in 1 .. Len(g) : i + 1 \in 1 .. Len(f) /\ g[i] = f[i + 1]

LEMMA MessageIs ==
    ASSUME NEW msg \in Messages
    PROVE  /\ msg.msg \in {"notify", "return", "closed"}
           /\ msg.msg = "notify" => /\ msg.call \in Calls /\ msg.call \in Int
                                    /\ msg.replaces \in Ids \cup {0} /\ msg.queued \in BOOLEAN
           /\ msg.msg = "return" => msg.call \in Calls /\ msg.call \in Int /\ msg.id \in Ids
           /\ msg.msg = "closed" => msg.id \in Ids /\ msg.reason \in Reasons
  BY DEF Messages, Calls, Ids

LEMMA UnusedRest ==
    ASSUME NEW N, NEW f, NEW g, Rest(f, g), NEW j \in 1 .. Len(g), NEW id, Unused(N, f, j + 1, id)
    PROVE  Unused(N, g, j, id) /\ ~Mentions(f[1], id)
<1>1. j \in Nat \ {0} /\ Len(f) \in Nat
  BY DEF Rest
<1>2. ASSUME NEW i \in 1 .. j - 1 PROVE ~Mentions(g[i], id)
  <2>1. i \in 1 .. Len(g) /\ i + 1 \in 1 .. (j + 1) - 1
    BY <1>1 DEF Rest
  <2>2. g[i] = f[i + 1]
    BY <2>1 DEF Rest
  <2> QED
    BY <2>1, <2>2 DEF Unused
<1>3. 1 \in 1 .. (j + 1) - 1
  BY <1>1
<1> QED
  BY <1>2, <1>3 DEF Unused

LEMMA UntouchedRest ==
    ASSUME NEW f, NEW g, Rest(f, g), NEW j \in Nat, NEW id, Untouched(g, j, id)
    PROVE  Untouched(f, j + 1, id)
<1>1. ASSUME NEW i \in 1 .. Len(f), i > j + 1 PROVE ~Touches(f[i], id)
  <2>1. i - 1 \in 1 .. Len(g) /\ i - 1 > j /\ (i - 1) + 1 = i
    BY <1>1 DEF Rest
  <2>2. g[i - 1] = f[i]
    BY <2>1 DEF Rest
  <2> QED
    BY <2>1, <2>2 DEF Untouched
<1> QED
  BY <1>1 DEF Untouched

LEMMA UntouchedAll ==
    ASSUME NEW f, NEW id, Len(f) \in Nat \ {0}, Untouched(f, 1, id), ~Touches(f[1], id)
    PROVE  Untouched(f, 0, id)
<1>1. ASSUME NEW i \in 1 .. Len(f) PROVE ~Touches(f[i], id)
  <2>1. i = 1 \/ i > 1
    OBVIOUS
  <2> QED
    BY <2>1 DEF Untouched
<1> QED
  BY <1>1 DEF Untouched

\* Reading leaves what is known of the rest.
LEMMA KnownRest ==
    ASSUME NEW N, NEW N2, NEW f, NEW g, NEW td, NEW told, NEW limit, Rest(f, g),
           Known(N, f, td, told, limit), \A n \in N2 : n.daemonId \in told \cup {0}
    PROVE  Known(N2, g, td, told, limit)
  BY DEF Known, Rest

LEMMA OnceRest ==
    ASSUME NEW P, NEW P2, NEW f, NEW g, NEW limit, Rest(f, g), Once(P, f, limit), P2 \subseteq P
    PROVE  Once(P2, g, limit)
<1>1. \A p, q \in P2 : p.call = q.call \/ p.key = q.key => p = q
  BY DEF Once
<1>2. ASSUME NEW i \in 1 .. Len(g), NEW j \in 1 .. Len(g),
             g[i].msg = "notify", Calling(g[j], g[i].call)
      PROVE  i = j
  <2>1. i + 1 \in 1 .. Len(f) /\ j + 1 \in 1 .. Len(f) /\ g[i] = f[i + 1] /\ g[j] = f[j + 1]
    BY DEF Rest
  <2>2. i + 1 = j + 1
    BY <1>2, <2>1 DEF Once
  <2> QED
    BY <2>2
<1>3. \A p \in P2 : p.call <= limit /\ \A i \in 1 .. Len(g) : ~Calling(g[i], p.call)
  BY DEF Once, Rest
<1> QED
  BY <1>1, <1>2, <1>3 DEF Once

LEMMA AnsweringRest ==
    ASSUME NEW N, NEW P, NEW f, Answering(N, P, f), NEW g, Rest(f, g), NEW N2, NEW P2,
           \A j \in 1 .. Len(g) : g[j].msg = "return" =>
               /\ Unused(N, f, j + 1, g[j].id) => Unused(N2, g, j, g[j].id)
               /\ FitsNote(N, P, f, j + 1) => FitsNote(N2, P2, g, j)
    PROVE  Answering(N2, P2, g)
<1>1. ASSUME NEW j \in 1 .. Len(g), g[j].msg = "return"
      PROVE  FitsNote(N2, P2, g, j) /\ FitsCall(N2, g, j)
  <2>1. j + 1 \in 1 .. Len(f) /\ f[j + 1] = g[j] /\ j \in Nat /\ Len(f) \in Nat
    BY DEF Rest
  <2>2. FitsNote(N, P, f, j + 1) /\ FitsCall(N, f, j + 1)
    BY <1>1, <2>1 DEF Answering
  <2>3. ASSUME NEW i \in 1 .. j - 1, Queues(g[i], g[j].call)
        PROVE  Fits(N2, g, j, g[i].replaces)
    <3>1. i + 1 \in 1 .. (j + 1) - 1 /\ i \in 1 .. Len(g)
      BY <2>1 DEF Rest
    <3>2. f[i + 1] = g[i]
      BY <3>1 DEF Rest
    <3>3. Fits(N, f, j + 1, g[i].replaces)
      BY <2>1, <2>2, <2>3, <3>1, <3>2 DEF FitsCall
    <3> QED
      BY <1>1, <2>1, <3>3 DEF Fits
  <2> QED
    BY <1>1, <2>2, <2>3 DEF FitsCall
<1> QED
  BY <1>1 DEF Answering

LEMMA WaitingRest ==
    ASSUME NEW N, NEW P, NEW f, NEW td, Waiting(N, P, f, td), NEW g, Rest(f, g), NEW N2, NEW P2,
           \A x \in 1 .. Len(td), p \in P2 : p.call = td[x].call =>
               td[x].queued /\ \A n \in N2 : n.key = p.key => n.daemonId = td[x].replaces
    PROVE  Waiting(N2, P2, g, td)
  BY DEF Waiting, Rest

\* No new note or call, and no note with another id.
LEMMA TalkOfFewer ==
    ASSUME NEW N, NEW P, NEW f, NEW td, NEW told, NEW limit, Talk(N, P, f, td, told, limit),
           NEW g, Rest(f, g), NEW N2, NEW P2, P2 \subseteq P,
           \A o \in N2 : \E n \in N : /\ o.key = n.key /\ o.daemonId = n.daemonId
                                      /\ n.daemonId = 0 => o.text = n.text
    PROVE  Talk(N2, P2, g, td, told, limit)
<1>1. Known(N2, g, td, told, limit)
  <2>1. \A n \in N2 : n.daemonId \in told \cup {0}
    BY DEF Talk, Known
  <2> QED
    BY <2>1, KnownRest DEF Talk
<1>2. Once(P2, g, limit)
  BY OnceRest DEF Talk
<1>3. Answering(N2, P2, g)
  <2>1. ASSUME NEW j \in 1 .. Len(g), g[j].msg = "return"
        PROVE  /\ Unused(N, f, j + 1, g[j].id) => Unused(N2, g, j, g[j].id)
               /\ FitsNote(N, P, f, j + 1) => FitsNote(N2, P2, g, j)
    <3>1. Unused(N, f, j + 1, g[j].id) => Unused(N2, g, j, g[j].id)
      <4>1. Unused(N, f, j + 1, g[j].id) => Unused(N, g, j, g[j].id)
        BY UnusedRest
      <4> QED
        BY <4>1 DEF Unused
    <3>2. f[j + 1] = g[j]
      BY DEF Rest
    <3> QED
      BY <3>1, <3>2 DEF FitsNote, Fits
  <2> QED
    BY <2>1, AnsweringRest DEF Talk
<1>4. Waiting(N2, P2, g, td)
  <2>1. \A x \in 1 .. Len(td), p \in P2 : p.call = td[x].call =>
               td[x].queued /\ \A n \in N2 : n.key = p.key => n.daemonId = td[x].replaces
    BY DEF Talk, Waiting
  <2> QED
    BY <2>1, WaitingRest DEF Talk
<1>5. Quoting(N2, P2)
  BY DEF Talk, Quoting
<1>6. Apart(N2)
  BY DEF Talk, Apart
<1> QED
  BY <1>1, <1>2, <1>3, <1>4, <1>5, <1>6 DEF Talk

LEMMA TalkPushes ==
    ASSUME NEW N, NEW P, NEW f, NEW td, NEW told, NEW limit, Talk(N, P, f, td, told, limit),
           NEW g, Rest(f, g), NEW N2, NEW P2, Pushes(N, P, f[1], N2, P2)
    PROVE  Talk(N2, P2, g, td, told, limit)
<1> DEFINE c == f[1]
<1>0. 1 \in 1 .. Len(f) /\ c \in Messages /\ c.msg = "notify" /\ c.queued
      /\ (c.replaces # 0 => \A n \in N : n.daemonId # c.replaces)
  BY DEF Rest, Pushes
<1>1. PICK k \in Keys : /\ (\A n \in N : n.key # k) /\ (\A p \in P : p.key # k)
                        /\ N2 \subseteq N \cup {Note(k, c.replaces, c.call)}
                        /\ P2 \subseteq P \cup {[call |-> c.call, key |-> k]}
  BY DEF Pushes
<1>2. PICK new : new = Note(k, c.replaces, c.call)
  OBVIOUS
<1>3. PICK made : made = [call |-> c.call, key |-> k]
  OBVIOUS
<1>4. new.key = k /\ new.daemonId = c.replaces /\ new.text = c.call
  BY <1>2 DEF Note
<1>5. made.call = c.call /\ made.key = k
  BY <1>3
<1>6. N2 \subseteq N \cup {new} /\ P2 \subseteq P \cup {made}
  BY <1>1, <1>2, <1>3
<1>7. \A i \in 1 .. Len(g) : ~Calling(g[i], c.call)
  <2>1. ASSUME NEW i \in 1 .. Len(g), Calling(g[i], c.call) PROVE FALSE
    <3>1. i + 1 \in 1 .. Len(f) /\ f[i + 1] = g[i] /\ i + 1 # 1
      BY DEF Rest
    <3> QED
      BY <1>0, <2>1, <3>1 DEF Talk, Once
  <2> QED
    BY <2>1
<1>8. \A p \in P : p.call # c.call
  BY <1>0 DEF Talk, Once, Calling
<1> HIDE DEF c
<1>10. Known(N2, g, td, told, limit)
  <2>1. \A n \in N2 : n.daemonId \in told \cup {0}
    BY <1>0, <1>4, <1>6 DEF Talk, Known, c
  <2> QED
    BY <2>1, KnownRest DEF Talk
<1>11. Once(P2, g, limit)
  <2>1. Once(P, g, limit)
    BY OnceRest DEF Talk
  <2>2. c.call <= limit
    BY <1>0 DEF Talk, Known, c
  <2> QED
    BY <1>1, <1>5, <1>6, <1>7, <1>8, <2>1, <2>2 DEF Once
<1>12. Answering(N2, P2, g)
  <2>1. ASSUME NEW j \in 1 .. Len(g), g[j].msg = "return"
        PROVE  /\ Unused(N, f, j + 1, g[j].id) => Unused(N2, g, j, g[j].id)
               /\ FitsNote(N, P, f, j + 1) => FitsNote(N2, P2, g, j)
    <3>1. j + 1 \in 1 .. Len(f) /\ f[j + 1] = g[j] /\ g[j] \in Messages /\ j \in Nat
      BY DEF Rest
    <3>2. g[j].id # 0
      BY <2>1, <3>1, MessageIs DEF Ids
    <3>3. Unused(N, f, j + 1, g[j].id) => Unused(N2, g, j, g[j].id)
      <4>1. ASSUME Unused(N, f, j + 1, g[j].id) PROVE Unused(N, g, j, g[j].id) /\ c.replaces # g[j].id
        BY <1>0, <4>1, UnusedRest DEF Mentions, c
      <4> QED
        BY <1>4, <1>6, <4>1 DEF Unused
    <3>4. 1 \in 1 .. (j + 1) - 1
      BY <3>1
    <3>5. Queues(c, g[j].call) => Fits(N, f, j + 1, c.replaces)
      BY <2>1, <3>1, <3>4 DEF Talk, Answering, FitsCall, c
    <3>6. ASSUME FitsNote(N, P, f, j + 1),
                 NEW p \in P2, NEW n \in N2, p.call = g[j].call, n.key = p.key
          PROVE  Fits(N2, g, j, n.daemonId)
      <4>1. CASE p \in P /\ n \in N
        BY <3>1, <3>3, <3>6, <4>1 DEF FitsNote, Fits
      <4>2. CASE p = made /\ n = new
        BY <1>0, <1>4, <1>5, <3>1, <3>3, <3>5, <3>6, <4>2 DEF Queues, Calling, Fits
      <4>3. (p \in P /\ n \in N) \/ (p = made /\ n = new)
        BY <1>1, <1>4, <1>5, <1>6, <3>6
      <4> QED
        BY <4>1, <4>2, <4>3
    <3> QED
      BY <3>3, <3>6 DEF FitsNote
  <2> QED
    BY <2>1, AnsweringRest DEF Talk
<1>13. Waiting(N2, P2, g, td)
  <2>1. ASSUME NEW x \in 1 .. Len(td), NEW p \in P2, p.call = td[x].call
        PROVE  td[x].queued /\ \A n \in N2 : n.key = p.key => n.daemonId = td[x].replaces
    <3>1. CASE p \in P
      BY <1>1, <1>4, <1>6, <2>1, <3>1 DEF Talk, Waiting
    <3>2. CASE p = made
      <4>1. c = td[x]
        BY <1>0, <1>5, <2>1, <3>2 DEF Talk, Waiting, Calling, c
      <4> QED
        BY <1>0, <1>1, <1>4, <1>5, <1>6, <3>2, <4>1
    <3> QED
      BY <1>6, <3>1, <3>2
  <2> QED
    BY <2>1, WaitingRest DEF Talk
<1>14. Quoting(N2, P2)
  BY <1>1, <1>4, <1>5, <1>6 DEF Talk, Quoting
<1>15. Apart(N2)
  BY <1>0, <1>4, <1>6 DEF Talk, Apart
<1> QED
  BY <1>10, <1>11, <1>12, <1>13, <1>14, <1>15 DEF Talk

LEMMA TalkLearns ==
    ASSUME NEW N, NEW P, NEW f, NEW td, NEW told, NEW limit, Talk(N, P, f, td, told, limit),
           NEW g, Rest(f, g), NEW N2, NEW P2, Learns(N, P, f[1], N2, P2)
    PROVE  Talk(N2, P2, g, td, told, limit)
<1> DEFINE r == f[1]
<1>0. 1 \in 1 .. Len(f) /\ r \in Messages /\ r.msg = "return" /\ r.id \in told /\ r.id # 0
  <2>1. 1 \in 1 .. Len(f) /\ r \in Messages /\ r.msg = "return"
    BY DEF Rest, Learns
  <2>2. r.id \in told
    BY <2>1 DEF Talk, Known
  <2>3. r.id # 0
    BY <2>1, MessageIs DEF Ids
  <2> QED
    BY <2>1, <2>2, <2>3
<1>1. PICK q \in P : /\ q.call = r.call
                     /\ \A o \in N2 : \E n \in N :
                          /\ o.key = n.key /\ o.text = n.text
                          /\ o.daemonId = IF n.key = q.key THEN r.id ELSE n.daemonId
                     /\ P2 \subseteq P \ {q}
  BY DEF Learns
<1>2. \A p \in P2 : p \in P /\ p.key # q.key
  BY <1>1 DEF Talk, Once
<1>3. \A n \in N : n.key = q.key => n.daemonId = r.id \/ Unused(N, f, 1, r.id)
  BY <1>0, <1>1 DEF Talk, Answering, FitsNote, Fits
<1> HIDE DEF r
<1>4. Known(N2, g, td, told, limit)
  <2>1. \A n \in N2 : n.daemonId \in told \cup {0}
    BY <1>0, <1>1 DEF Talk, Known
  <2> QED
    BY <2>1, KnownRest DEF Talk
<1>5. Once(P2, g, limit)
  BY <1>1, OnceRest DEF Talk
<1>6. Answering(N2, P2, g)
  <2>1. ASSUME NEW j \in 1 .. Len(g), g[j].msg = "return"
        PROVE  /\ Unused(N, f, j + 1, g[j].id) => Unused(N2, g, j, g[j].id)
               /\ FitsNote(N, P, f, j + 1) => FitsNote(N2, P2, g, j)
    <3>1. Unused(N, f, j + 1, g[j].id) => Unused(N2, g, j, g[j].id)
      <4>1. ASSUME Unused(N, f, j + 1, g[j].id) PROVE Unused(N, g, j, g[j].id) /\ r.id # g[j].id
        BY <1>0, <4>1, UnusedRest DEF Mentions, r
      <4> QED
        BY <1>1, <4>1 DEF Unused
    <3>2. f[j + 1] = g[j]
      BY DEF Rest
    <3> QED
      BY <1>1, <1>2, <3>1, <3>2 DEF FitsNote, Fits
  <2> QED
    BY <2>1, AnsweringRest DEF Talk
<1>7. Waiting(N2, P2, g, td)
  <2>1. \A x \in 1 .. Len(td), p \in P2 : p.call = td[x].call =>
               td[x].queued /\ \A n \in N2 : n.key = p.key => n.daemonId = td[x].replaces
    BY <1>1, <1>2 DEF Talk, Waiting
  <2> QED
    BY <2>1, WaitingRest DEF Talk
<1>8. Quoting(N2, P2)
  BY <1>0, <1>1, <1>2 DEF Talk, Quoting
<1>9. Apart(N2)
  BY <1>0, <1>1, <1>3 DEF Talk, Apart, Unused
<1> QED
  BY <1>4, <1>5, <1>6, <1>7, <1>8, <1>9 DEF Talk

LEMMA TalkReads ==
    ASSUME NEW N, NEW P, NEW f, NEW td, NEW told, NEW limit, Talk(N, P, f, td, told, limit),
           NEW g, Rest(f, g), NEW N2, NEW P2, Reads(N, P, f[1], N2, P2)
    PROVE  Talk(N2, P2, g, td, told, limit)
<1>1. CASE Ignores(N, P, f[1], N2, P2)
  BY <1>1, TalkOfFewer DEF Ignores
<1>2. CASE Rewords(N, P, f[1], N2, P2)
  <2>1. /\ P2 \subseteq P
        /\ \A o \in N2 : \E n \in N : /\ o.key = n.key /\ o.daemonId = n.daemonId
                                      /\ n.daemonId = 0 => o.text = n.text
    BY <1>2 DEF Rewords
  <2> QED
    BY <2>1, TalkOfFewer
<1>3. CASE Pushes(N, P, f[1], N2, P2)
  BY <1>3, TalkPushes
<1>4. CASE Learns(N, P, f[1], N2, P2)
  BY <1>4, TalkLearns
<1>5. CASE Removes(N, P, f[1], N2, P2)
  BY <1>5, TalkOfFewer DEF Removes
<1> QED
  BY <1>1, <1>2, <1>3, <1>4, <1>5 DEF Reads

\* The recorder's mirror goes on following the daemon.
LEMMA SaysCallsRest ==
    ASSUME NEW f, NEW td, NEW d, SaysCalls(f, td, d), NEW g, Rest(f, g)
    PROVE  SaysCalls(g, td, d)
<1>1. ASSUME NEW j \in 1 .. Len(g), g[j].msg = "notify", g[j].queued, g[j].replaces # 0,
             Untouched(g, j, g[j].replaces)
      PROVE  Said(td, d, g[j].replaces, g[j].call)
  <2>1. j + 1 \in 1 .. Len(f) /\ f[j + 1] = g[j] /\ j \in Nat
    BY DEF Rest
  <2>2. Untouched(f, j + 1, g[j].replaces)
    BY <1>1, <2>1, UntouchedRest
  <2> QED
    BY <1>1, <2>1, <2>2 DEF SaysCalls
<1> QED
  BY <1>1 DEF SaysCalls

LEMMA SaysRepliesRest ==
    ASSUME NEW N, NEW P, NEW f, NEW td, NEW d, SaysReplies(N, P, f, td, d), NEW g, Rest(f, g),
           NEW N2, NEW P2,
           \A j \in 1 .. Len(g) : g[j].msg = "return" /\ Names(N2, P2, g, j) => Names(N, P, f, j + 1)
    PROVE  SaysReplies(N2, P2, g, td, d)
<1>1. ASSUME NEW j \in 1 .. Len(g), g[j].msg = "return", Untouched(g, j, g[j].id), Names(N2, P2, g, j)
      PROVE  Said(td, d, g[j].id, g[j].call)
  <2>1. j + 1 \in 1 .. Len(f) /\ f[j + 1] = g[j] /\ j \in Nat
    BY DEF Rest
  <2>2. Untouched(f, j + 1, g[j].id)
    BY <1>1, <2>1, UntouchedRest
  <2>3. Names(N, P, f, j + 1)
    BY <1>1
  <2> QED
    BY <1>1, <2>1, <2>2, <2>3 DEF SaysReplies
<1> QED
  BY <1>1 DEF SaysReplies

LEMMA NamesRest ==
    ASSUME NEW N, NEW P, NEW f, NEW g, Rest(f, g), NEW j \in 1 .. Len(g), NEW N2, NEW P2,
           Names(N2, P2, g, j),
           \A p \in P2, n \in N2 : p.call = g[j].call /\ n.key = p.key /\ n.daemonId = 0 =>
               \/ \E q \in P, o \in N : q.call = g[j].call /\ o.key = q.key /\ o.daemonId = 0
               \/ Queues(f[1], g[j].call) /\ f[1].replaces = 0
    PROVE  Names(N, P, f, j + 1)
<1>1. j + 1 \in 1 .. Len(f) /\ f[j + 1] = g[j] /\ j \in Nat /\ Len(f) \in Nat /\ 1 \in 1 .. (j + 1) - 1
  BY DEF Rest
<1>2. CASE \E p \in P2, n \in N2 : p.call = g[j].call /\ n.key = p.key /\ n.daemonId = 0
  BY <1>1, <1>2 DEF Names
<1>3. CASE \E i \in 1 .. j - 1 : Queues(g[i], g[j].call) /\ g[i].replaces = 0
  <2>1. PICK i \in 1 .. j - 1 : Queues(g[i], g[j].call) /\ g[i].replaces = 0
    BY <1>3
  <2>2. i + 1 \in 1 .. (j + 1) - 1 /\ i \in 1 .. Len(g)
    BY <1>1 DEF Rest
  <2>3. f[i + 1] = g[i]
    BY <2>2 DEF Rest
  <2> QED
    BY <1>1, <2>1, <2>2, <2>3 DEF Names
<1> QED
  BY <1>2, <1>3 DEF Names

\* A remembered call has a note that has no id yet.
Nameless(N, P, call) == \E p \in P, n \in N : p.call = call /\ n.key = p.key /\ n.daemonId = 0

LEMMA NamesLess ==
    ASSUME NEW N, NEW P, NEW f, NEW g, Rest(f, g), NEW j \in 1 .. Len(g), NEW N2, NEW P2,
           Names(N2, P2, g, j), Nameless(N2, P2, g[j].call) => Nameless(N, P, g[j].call)
    PROVE  Names(N, P, f, j + 1)
<1>1. CASE Nameless(N2, P2, g[j].call)
  <2>1. PICK q \in P, o \in N : q.call = g[j].call /\ o.key = q.key /\ o.daemonId = 0
    BY <1>1 DEF Nameless
  <2>2. \A p \in P2, n \in N2 : p.call = g[j].call /\ n.key = p.key /\ n.daemonId = 0 =>
           \/ \E r \in P, x \in N : r.call = g[j].call /\ x.key = r.key /\ x.daemonId = 0
           \/ Queues(f[1], g[j].call) /\ f[1].replaces = 0
    BY <2>1
  <2> QED
    BY <2>2, NamesRest
<1>2. CASE ~Nameless(N2, P2, g[j].call)
  <2>1. \A p \in P2, n \in N2 : p.call = g[j].call /\ n.key = p.key /\ n.daemonId = 0 =>
           \/ \E r \in P, x \in N : r.call = g[j].call /\ x.key = r.key /\ x.daemonId = 0
           \/ Queues(f[1], g[j].call) /\ f[1].replaces = 0
    BY <1>2 DEF Nameless
  <2> QED
    BY <2>1, NamesRest
<1> QED
  BY <1>1, <1>2

\* The notes left are not touched by the message.
LEMMA SaysNotesRest ==
    ASSUME NEW N, NEW f, NEW td, NEW d, SaysNotes(N, f, td, d), NEW g, Rest(f, g),
           NEW n \in N, n.daemonId # 0, Untouched(g, 0, n.daemonId), ~Touches(f[1], n.daemonId)
    PROVE  Said(td, d, n.daemonId, n.text)
<1>1. Untouched(f, 1, n.daemonId)
  <2>1. Untouched(f, 0 + 1, n.daemonId)
    BY UntouchedRest
  <2> QED
    BY <2>1
<1>2. Untouched(f, 0, n.daemonId)
  BY <1>1, UntouchedAll DEF Rest
<1> QED
  BY <1>2 DEF SaysNotes

LEMMA FollowingIgnores ==
    ASSUME NEW N, NEW P, NEW f, NEW td, NEW d, Following(N, P, f, td, d),
           NEW g, Rest(f, g), NEW N2, NEW P2,
           Ignores(N, P, f[1], N2, P2) \/ Removes(N, P, f[1], N2, P2)
    PROVE  Following(N2, P2, g, td, d)
<1>0. N2 \subseteq N /\ P2 \subseteq P /\ \A n \in N2 : ~Touches(f[1], n.daemonId)
  BY DEF Ignores, Removes, Touches
<1>1. SaysNotes(N2, g, td, d)
  BY <1>0, SaysNotesRest DEF Following, SaysNotes
<1>2. SaysCalls(g, td, d)
  BY SaysCallsRest DEF Following
<1>3. SaysReplies(N2, P2, g, td, d)
  <2>1. ASSUME NEW j \in 1 .. Len(g), Names(N2, P2, g, j) PROVE Names(N, P, f, j + 1)
    <3>1. Nameless(N2, P2, g[j].call) => Nameless(N, P, g[j].call)
      BY <1>0 DEF Nameless
    <3> QED
      BY <2>1, <3>1, NamesLess
  <2>2. SaysReplies(N, P, f, td, d)
    BY DEF Following
  <2> QED
    BY <2>1, <2>2, SaysRepliesRest
<1> QED
  BY <1>1, <1>2, <1>3 DEF Following

LEMMA FollowingRewords ==
    ASSUME NEW N, NEW P, NEW f, NEW td, NEW d, Following(N, P, f, td, d),
           NEW g, Rest(f, g), NEW N2, NEW P2, Rewords(N, P, f[1], N2, P2)
    PROVE  Following(N2, P2, g, td, d)
<1> DEFINE c == f[1]
<1>0. P2 \subseteq P /\ \A o \in N2 : \E n \in N :
          /\ o.key = n.key /\ o.daemonId = n.daemonId
          /\ o.text = IF n.daemonId = c.replaces THEN c.call ELSE n.text
  BY DEF Rewords
<1>1. 1 \in 1 .. Len(f) /\ c.msg = "notify" /\ c.queued /\ c.replaces # 0
  BY DEF Rest, Rewords
<1> HIDE DEF c
<1>2. SaysNotes(N2, g, td, d)
  <2>1. ASSUME NEW o \in N2, o.daemonId # 0, Untouched(g, 0, o.daemonId)
        PROVE  Said(td, d, o.daemonId, o.text)
    <3>1. PICK n \in N : /\ o.key = n.key /\ o.daemonId = n.daemonId
                         /\ o.text = IF n.daemonId = c.replaces THEN c.call ELSE n.text
      BY <1>0
    <3>2. CASE n.daemonId = c.replaces
      <4>1. Untouched(f, 0 + 1, c.replaces)
        BY <2>1, <3>1, <3>2, UntouchedRest
      <4>2. Untouched(f, 1, c.replaces)
        BY <4>1
      <4> QED
        BY <1>1, <3>1, <3>2, <4>2 DEF Following, SaysCalls, c
    <3>3. CASE n.daemonId # c.replaces
      <4>1. ~Touches(f[1], n.daemonId)
        BY <1>1, <3>3 DEF Touches, c
      <4>2. Said(td, d, n.daemonId, n.text)
        BY <2>1, <3>1, <4>1, SaysNotesRest DEF Following
      <4> QED
        BY <3>1, <3>3, <4>2
    <3> QED
      BY <3>2, <3>3
  <2> QED
    BY <2>1 DEF SaysNotes
<1>3. SaysCalls(g, td, d)
  BY SaysCallsRest DEF Following
<1>4. SaysReplies(N2, P2, g, td, d)
  <2>1. ASSUME NEW j \in 1 .. Len(g), NEW p \in P2, NEW n \in N2,
               p.call = g[j].call, n.key = p.key, n.daemonId = 0
        PROVE  \E q \in P, o \in N : q.call = g[j].call /\ o.key = q.key /\ o.daemonId = 0
    BY <1>0, <2>1
  <2>2. ASSUME NEW j \in 1 .. Len(g), Names(N2, P2, g, j) PROVE Names(N, P, f, j + 1)
    <3>1. Nameless(N2, P2, g[j].call) => Nameless(N, P, g[j].call)
      BY <2>1 DEF Nameless
    <3> QED
      BY <2>2, <3>1, NamesLess
  <2>3. SaysReplies(N, P, f, td, d)
    BY DEF Following
  <2> QED
    BY <2>2, <2>3, SaysRepliesRest
<1> QED
  BY <1>2, <1>3, <1>4 DEF Following

LEMMA FollowingPushes ==
    ASSUME NEW N, NEW P, NEW f, NEW td, NEW d, Following(N, P, f, td, d),
           NEW g, Rest(f, g), NEW N2, NEW P2, Pushes(N, P, f[1], N2, P2)
    PROVE  Following(N2, P2, g, td, d)
<1> DEFINE c == f[1]
<1>0. 1 \in 1 .. Len(f) /\ c.msg = "notify" /\ c.queued
      /\ (c.replaces # 0 => \A n \in N : n.daemonId # c.replaces)
  BY DEF Rest, Pushes
<1>1. PICK k \in Keys : /\ (\A n \in N : n.key # k) /\ (\A p \in P : p.key # k)
                        /\ N2 \subseteq N \cup {Note(k, c.replaces, c.call)}
                        /\ P2 \subseteq P \cup {[call |-> c.call, key |-> k]}
  BY DEF Pushes
<1>2. PICK new : new = Note(k, c.replaces, c.call)
  OBVIOUS
<1>3. PICK made : made = [call |-> c.call, key |-> k]
  OBVIOUS
<1>4. new.key = k /\ new.daemonId = c.replaces /\ new.text = c.call
  BY <1>2 DEF Note
<1>5. made.call = c.call /\ made.key = k
  BY <1>3
<1>6. N2 \subseteq N \cup {new} /\ P2 \subseteq P \cup {made}
  BY <1>1, <1>2, <1>3
<1> HIDE DEF c
<1>7. SaysNotes(N2, g, td, d)
  <2>1. ASSUME NEW n \in N2, n.daemonId # 0, Untouched(g, 0, n.daemonId)
        PROVE  Said(td, d, n.daemonId, n.text)
    <3>1. CASE n = new
      <4>1. Untouched(f, 0 + 1, c.replaces)
        BY <1>4, <2>1, <3>1, UntouchedRest
      <4>2. Untouched(f, 1, c.replaces)
        BY <4>1
      <4> QED
        BY <1>0, <1>4, <2>1, <3>1, <4>2 DEF Following, SaysCalls, c
    <3>2. CASE n \in N
      <4>1. ~Touches(f[1], n.daemonId)
        BY <1>0, <2>1, <3>2 DEF Touches, c
      <4> QED
        BY <2>1, <3>2, <4>1, SaysNotesRest DEF Following
    <3> QED
      BY <1>6, <3>1, <3>2
  <2> QED
    BY <2>1 DEF SaysNotes
<1>8. SaysCalls(g, td, d)
  BY SaysCallsRest DEF Following
<1>9. SaysReplies(N2, P2, g, td, d)
  <2>1. ASSUME NEW j \in 1 .. Len(g), NEW p \in P2, NEW n \in N2,
               p.call = g[j].call, n.key = p.key, n.daemonId = 0
        PROVE  \/ \E q \in P, o \in N : q.call = g[j].call /\ o.key = q.key /\ o.daemonId = 0
               \/ Queues(f[1], g[j].call) /\ f[1].replaces = 0
    <3>1. (p \in P /\ n \in N) \/ (p = made /\ n = new)
      BY <1>1, <1>4, <1>5, <1>6, <2>1
    <3>2. CASE p \in P /\ n \in N
      BY <2>1, <3>2
    <3>3. CASE p = made /\ n = new
      BY <1>0, <1>4, <1>5, <2>1, <3>3 DEF Queues, Calling, c
    <3> QED
      BY <3>1, <3>2, <3>3
  <2>2. ASSUME NEW j \in 1 .. Len(g), Names(N2, P2, g, j) PROVE Names(N, P, f, j + 1)
    <3>1. \A p \in P2, n \in N2 : p.call = g[j].call /\ n.key = p.key /\ n.daemonId = 0 =>
               \/ \E q \in P, o \in N : q.call = g[j].call /\ o.key = q.key /\ o.daemonId = 0
               \/ Queues(f[1], g[j].call) /\ f[1].replaces = 0
      BY <2>1
    <3> QED
      BY <2>2, <3>1, NamesRest
  <2> QED
    BY <2>2, SaysRepliesRest DEF Following
<1> QED
  BY <1>7, <1>8, <1>9 DEF Following

LEMMA FollowingLearns ==
    ASSUME NEW N, NEW P, NEW f, NEW td, NEW d, Following(N, P, f, td, d),
           NEW told, NEW limit, Talk(N, P, f, td, told, limit),
           NEW g, Rest(f, g), NEW N2, NEW P2, Learns(N, P, f[1], N2, P2)
    PROVE  Following(N2, P2, g, td, d)
<1> DEFINE r == f[1]
<1>0. 1 \in 1 .. Len(f) /\ r.msg = "return"
  BY DEF Rest, Learns
<1>1. PICK q \in P : /\ q.call = r.call
                     /\ \A o \in N2 : \E n \in N :
                          /\ o.key = n.key /\ o.text = n.text
                          /\ o.daemonId = IF n.key = q.key THEN r.id ELSE n.daemonId
                     /\ P2 \subseteq P \ {q}
  BY DEF Learns
<1>2. \A p \in P2 : p \in P /\ p.key # q.key
  BY <1>1 DEF Talk, Once
<1>3. \A n \in N : n.key = q.key => n.daemonId = r.id \/ n.daemonId = 0
  BY <1>0, <1>1 DEF Talk, Answering, FitsNote, Fits
<1>4. \A id : ~Touches(f[1], id)
  BY <1>0 DEF Touches
<1> HIDE DEF r
<1>5. SaysNotes(N2, g, td, d)
  <2>1. ASSUME NEW o \in N2, o.daemonId # 0, Untouched(g, 0, o.daemonId)
        PROVE  Said(td, d, o.daemonId, o.text)
    <3>1. PICK n \in N : /\ o.key = n.key /\ o.text = n.text
                         /\ o.daemonId = IF n.key = q.key THEN r.id ELSE n.daemonId
      BY <1>1
    <3>2. CASE n.daemonId = o.daemonId
      BY <1>4, <2>1, <3>1, <3>2, SaysNotesRest DEF Following
    <3>3. CASE n.daemonId # o.daemonId
      <4>1. n.key = q.key /\ n.daemonId = 0 /\ o.daemonId = r.id
        BY <1>3, <3>1, <3>3
      <4>2. n.text = r.call
        BY <1>1, <4>1 DEF Talk, Quoting
      <4>3. Untouched(f, 0 + 1, r.id)
        BY <2>1, <4>1, UntouchedRest
      <4>4. Untouched(f, 1, r.id)
        BY <4>3
      <4>5. Names(N, P, f, 1)
        BY <1>1, <4>1 DEF Names, r
      <4>6. Said(td, d, r.id, r.call)
        BY <1>0, <4>4, <4>5 DEF Following, SaysReplies, r
      <4> QED
        BY <3>1, <4>1, <4>2, <4>6
    <3> QED
      BY <3>2, <3>3
  <2> QED
    BY <2>1 DEF SaysNotes
<1>6. SaysCalls(g, td, d)
  BY SaysCallsRest DEF Following
<1>7. SaysReplies(N2, P2, g, td, d)
  <2>1. \A p \in P2, n \in N2 : n.key = p.key /\ n.daemonId = 0 =>
            p \in P /\ \E o \in N : o.key = p.key /\ o.daemonId = 0
    BY <1>1, <1>2
  <2>2. ASSUME NEW j \in 1 .. Len(g), NEW p \in P2, NEW n \in N2,
               p.call = g[j].call, n.key = p.key, n.daemonId = 0
        PROVE  \E o \in P, m \in N : o.call = g[j].call /\ m.key = o.key /\ m.daemonId = 0
    BY <2>1, <2>2
  <2>3. \A j \in 1 .. Len(g) : Names(N2, P2, g, j) => Names(N, P, f, j + 1)
    BY <2>2, NamesRest
  <2> QED
    BY <2>3, SaysRepliesRest DEF Following
<1> QED
  BY <1>5, <1>6, <1>7 DEF Following

LEMMA FollowingReads ==
    ASSUME NEW N, NEW P, NEW f, NEW td, NEW d, Following(N, P, f, td, d),
           NEW told, NEW limit, Talk(N, P, f, td, told, limit),
           NEW g, Rest(f, g), NEW N2, NEW P2, Reads(N, P, f[1], N2, P2)
    PROVE  Following(N2, P2, g, td, d)
<1>1. CASE Ignores(N, P, f[1], N2, P2) \/ Removes(N, P, f[1], N2, P2)
  BY <1>1, FollowingIgnores
<1>2. CASE Rewords(N, P, f[1], N2, P2)
  BY <1>2, FollowingRewords
<1>3. CASE Pushes(N, P, f[1], N2, P2)
  BY <1>3, FollowingPushes
<1>4. CASE Learns(N, P, f[1], N2, P2)
  BY <1>4, FollowingLearns
<1> QED
  BY <1>1, <1>2, <1>3, <1>4 DEF Reads

-----------------------------------------------------------------------------
\* A message joins a queue.

Longer(f, f2, e) ==
    /\ Len(f) \in Nat /\ Len(f2) = Len(f) + 1 /\ f2[Len(f) + 1] = e
    /\ \A i \in 1 .. Len(f) : f2[i] = f[i]

LEMMA LongerIs ==
    ASSUME NEW f, NEW f2, NEW e, Longer(f, f2, e), NEW i \in 1 .. Len(f2)
    PROVE  (i \in 1 .. Len(f) /\ f2[i] = f[i]) \/ (i = Len(f) + 1 /\ f2[i] = e)
<1>1. i \in 1 .. Len(f) \/ i = Len(f) + 1
  BY DEF Longer
<1> QED
  BY <1>1 DEF Longer

LEMMA UnusedLonger ==
    ASSUME NEW N, NEW f, NEW f2, NEW e, Longer(f, f2, e), NEW j \in 1 .. Len(f), NEW id,
           Unused(N, f, j, id)
    PROVE  Unused(N, f2, j, id)
<1>1. ASSUME NEW i \in 1 .. j - 1 PROVE f2[i] = f[i]
  <2>1. i \in 1 .. Len(f)
    BY DEF Longer
  <2> QED
    BY <2>1 DEF Longer
<1> QED
  BY <1>1 DEF Unused

LEMMA AnsweringLonger ==
    ASSUME NEW N, NEW P, NEW f, Answering(N, P, f), NEW f2, NEW e, Longer(f, f2, e),
           e.msg = "return" => FitsNote(N, P, f2, Len(f) + 1) /\ FitsCall(N, f2, Len(f) + 1)
    PROVE  Answering(N, P, f2)
<1>1. ASSUME NEW j \in 1 .. Len(f2), f2[j].msg = "return"
      PROVE  FitsNote(N, P, f2, j) /\ FitsCall(N, f2, j)
  <2>1. CASE j = Len(f) + 1 /\ f2[j] = e
    BY <1>1, <2>1
  <2>2. CASE j \in 1 .. Len(f) /\ f2[j] = f[j]
    <3>1. FitsNote(N, P, f, j) /\ FitsCall(N, f, j)
      BY <1>1, <2>2 DEF Answering
    <3>2. \A id : Fits(N, f, j, id) => Fits(N, f2, j, id)
      BY <2>2, UnusedLonger DEF Fits
    <3>3. FitsNote(N, P, f2, j)
      BY <2>2, <3>1, <3>2 DEF FitsNote
    <3>4. ASSUME NEW i \in 1 .. j - 1 PROVE f2[i] = f[i]
      <4>1. i \in 1 .. Len(f)
        BY <2>2 DEF Longer
      <4> QED
        BY <4>1 DEF Longer
    <3>5. FitsCall(N, f2, j)
      BY <2>2, <3>1, <3>2, <3>4 DEF FitsCall
    <3> QED
      BY <3>3, <3>5
  <2> QED
    BY <2>1, <2>2, LongerIs
<1> QED
  BY <1>1 DEF Answering

\* A message that is not a call adds nothing to those that may be made or waited for.
LEMMA OnceLonger ==
    ASSUME NEW P, NEW f, NEW limit, Once(P, f, limit), NEW f2, NEW e, Longer(f, f2, e),
           e.msg # "notify"
    PROVE  Once(P, f2, limit)
<1>1. ASSUME NEW i \in 1 .. Len(f2), NEW j \in 1 .. Len(f2),
             f2[i].msg = "notify", Calling(f2[j], f2[i].call)
      PROVE  i = j
  <2>1. i \in 1 .. Len(f) /\ f2[i] = f[i] /\ j \in 1 .. Len(f) /\ f2[j] = f[j]
    BY <1>1, LongerIs DEF Calling
  <2> QED
    BY <1>1, <2>1 DEF Once
<1>2. ASSUME NEW p \in P, NEW i \in 1 .. Len(f2) PROVE ~Calling(f2[i], p.call)
  BY LongerIs DEF Once, Calling
<1> QED
  BY <1>1, <1>2 DEF Once

LEMMA WaitingLonger ==
    ASSUME NEW N, NEW P, NEW f, NEW td, Waiting(N, P, f, td), NEW f2, NEW e, Longer(f, f2, e),
           e.msg # "notify"
    PROVE  Waiting(N, P, f2, td)
<1>1. ASSUME NEW x \in 1 .. Len(td), NEW i \in 1 .. Len(f2), Calling(f2[i], td[x].call)
      PROVE  f2[i] = td[x]
  BY <1>1, LongerIs DEF Waiting, Calling
<1> QED
  BY <1>1 DEF Waiting

LEMMA KnownLonger ==
    ASSUME NEW N, NEW f, NEW td, NEW told, NEW limit, Known(N, f, td, told, limit),
           NEW f2, NEW e, Longer(f, f2, e), e.msg # "notify", NEW told2, told \subseteq told2,
           e.msg = "return" => e.id \in told2
    PROVE  Known(N, f2, td, told2, limit)
<1>1. ASSUME NEW i \in 1 .. Len(f2)
      PROVE  /\ f2[i].msg = "notify" => f2[i].replaces \in told2 \cup {0}
             /\ f2[i].msg = "return" => f2[i].id \in told2
             /\ f2[i].msg = "notify" => f2[i].call <= limit
  BY LongerIs DEF Known
<1> QED
  BY <1>1 DEF Known

LEMMA TalkClosed ==
    ASSUME NEW N, NEW P, NEW f, NEW td, NEW told, NEW limit, Talk(N, P, f, td, told, limit),
           NEW f2, NEW e, Longer(f, f2, e), e.msg = "closed"
    PROVE  Talk(N, P, f2, td, told, limit)
<1>1. Known(N, f2, td, told, limit)
  BY KnownLonger DEF Talk
<1>2. Answering(N, P, f2)
  BY AnsweringLonger DEF Talk
<1> QED
  BY <1>1, <1>2, OnceLonger, WaitingLonger DEF Talk

\* The daemon answers the call td[1] with an id the application has named, or a new one.
LEMMA TalkReturn ==
    ASSUME NEW N, NEW P, NEW f, NEW td, NEW told, NEW limit, Talk(N, P, f, td, told, limit),
           1 \in 1 .. Len(td), NEW f2, NEW e, Longer(f, f2, e),
           e.msg = "return", e.call = td[1].call, e.id # 0,
           td[1].replaces # 0 => e.id = td[1].replaces,
           td[1].replaces = 0 => e.id \notin told
    PROVE  Talk(N, P, f2, td, told \cup {e.id}, limit)
<1>1. Known(N, f2, td, told \cup {e.id}, limit)
  BY KnownLonger DEF Talk
<1>2. Answering(N, P, f2)
  <2> DEFINE k == Len(f) + 1
  <2>1. f2[k] = e /\ Len(f) \in Nat /\ \A i \in 1 .. k - 1 : i \in 1 .. Len(f) /\ f2[i] = f[i]
    BY DEF Longer
  <2>2. ASSUME td[1].replaces = 0 PROVE Unused(N, f2, k, e.id)
    BY <2>1, <2>2 DEF Unused, Mentions, Talk, Known
  <2>3. Fits(N, f2, k, td[1].replaces)
    BY <2>1, <2>2 DEF Fits
  <2> HIDE DEF k
  <2>4. FitsNote(N, P, f2, k)
    BY <2>1, <2>3 DEF FitsNote, Talk, Waiting
  <2>5. FitsCall(N, f2, k)
    BY <2>1, <2>3 DEF FitsCall, Queues, Talk, Waiting
  <2> QED
    BY <2>4, <2>5, AnsweringLonger DEF Talk, k
<1> QED
  BY <1>1, <1>2, OnceLonger, WaitingLonger DEF Talk

\* The call that was answered does not wait any more.
LEMMA TalkTail ==
    ASSUME NEW N, NEW P, NEW f, NEW td, NEW told, NEW limit, Talk(N, P, f, td, told, limit),
           NEW td2, Rest(td, td2)
    PROVE  Talk(N, P, f, td2, told, limit)
<1>1. \A x \in 1 .. Len(td2) : \E y \in 1 .. Len(td) : td2[x] = td[y]
  BY DEF Rest
<1>2. Known(N, f, td2, told, limit)
  BY <1>1 DEF Talk, Known
<1>3. Waiting(N, P, f, td2)
  BY <1>1 DEF Talk, Waiting
<1> QED
  BY <1>2, <1>3 DEF Talk

\* An application calls; the monitor may be one that is not there to read it.
LEMMA TalkNotify ==
    ASSUME NEW N, NEW P, NEW f, NEW td, NEW told, NEW limit \in Nat, Talk(N, P, f, td, told, limit),
           \A i \in 1 .. Len(f) : f[i] \in Messages, \A x \in 1 .. Len(td) : td[x] \in Messages,
           \A p \in P : p.call \in Calls,
           NEW c, c.msg = "notify", c.call = limit + 1, c.replaces \in told \cup {0},
           NEW td2, Longer(td, td2, c), NEW f2, f2 = f \/ Longer(f, f2, c)
    PROVE  Talk(N, P, f2, td2, told, limit + 1)
<1>1. \A i \in 1 .. Len(f2) : (i \in 1 .. Len(f) /\ f2[i] = f[i])
                              \/ (Longer(f, f2, c) /\ i = Len(f) + 1 /\ f2[i] = c)
  BY LongerIs
<1>2. \A x \in 1 .. Len(td2) : (x \in 1 .. Len(td) /\ td2[x] = td[x]) \/ td2[x] = c
  BY LongerIs
<1>3. \A i \in 1 .. Len(f) : f[i].msg = "notify" =>
          f[i].call \in Int /\ f[i].call <= limit /\ f[i].call # limit + 1
  <2>1. ASSUME NEW i \in 1 .. Len(f), f[i].msg = "notify"
        PROVE  f[i].call \in Int /\ f[i].call <= limit
    BY <2>1, MessageIs DEF Talk, Known
  <2> QED
    BY <2>1
<1>4. \A x \in 1 .. Len(td) :
          td[x].call \in Int /\ td[x].call <= limit /\ td[x].call # limit + 1
  <2>1. ASSUME NEW x \in 1 .. Len(td) PROVE td[x].call \in Int /\ td[x].call <= limit
    BY MessageIs DEF Talk, Known
  <2> QED
    BY <2>1
<1>5. \A p \in P : p.call \in Int /\ p.call <= limit /\ p.call # limit + 1
  BY DEF Talk, Once, Calls
<1>6. Known(N, f2, td2, told, limit + 1)
  <2>1. \A n \in N : n.daemonId \in told \cup {0}
    BY DEF Talk, Known
  <2>2. ASSUME NEW i \in 1 .. Len(f2)
        PROVE  /\ f2[i].msg = "notify" => f2[i].replaces \in told \cup {0}
               /\ f2[i].msg = "return" => f2[i].id \in told
               /\ f2[i].msg = "notify" => f2[i].call <= limit + 1
    BY <1>1, <1>3 DEF Talk, Known
  <2>3. ASSUME NEW x \in 1 .. Len(td2)
        PROVE  /\ td2[x].msg = "notify" /\ td2[x].replaces \in told \cup {0}
               /\ td2[x].call <= limit + 1
    BY <1>2, <1>4 DEF Talk, Known
  <2> QED
    BY <2>1, <2>2, <2>3 DEF Known
<1>7. Once(P, f2, limit + 1)
  <2>1. ASSUME NEW i \in 1 .. Len(f2), NEW j \in 1 .. Len(f2),
               f2[i].msg = "notify", Calling(f2[j], f2[i].call)
        PROVE  i = j
    <3>1. \A x, y \in 1 .. Len(f) : f[x].msg = "notify" /\ Calling(f[y], f[x].call) => x = y
      BY DEF Talk, Once
    <3>2. CASE i \in 1 .. Len(f) /\ f2[i] = f[i]
      <4>1. f2[j] # c
        BY <1>3, <2>1, <3>2 DEF Calling
      <4>2. j \in 1 .. Len(f) /\ f2[j] = f[j]
        BY <1>1, <4>1
      <4> QED
        BY <2>1, <3>1, <3>2, <4>2
    <3>3. CASE Longer(f, f2, c) /\ i = Len(f) + 1 /\ f2[i] = c
      <4>1. ~(j \in 1 .. Len(f) /\ f2[j] = f[j])
        BY <1>3, <2>1, <3>3 DEF Calling
      <4> QED
        BY <1>1, <3>3, <4>1
    <3> QED
      BY <1>1, <3>2, <3>3
  <2>2. ASSUME NEW p \in P PROVE p.call <= limit + 1
    BY <1>5
  <2>3. ASSUME NEW p \in P, NEW i \in 1 .. Len(f2) PROVE ~Calling(f2[i], p.call)
    BY <1>1, <1>5 DEF Talk, Once, Calling
  <2> QED
    BY <2>1, <2>2, <2>3 DEF Talk, Once
<1>8. Answering(N, P, f2)
  BY AnsweringLonger DEF Talk
<1>9. Waiting(N, P, f2, td2)
  <2>1. ASSUME NEW x \in 1 .. Len(td2), NEW p \in P, p.call = td2[x].call
        PROVE  td2[x].queued /\ \A n \in N : n.key = p.key => n.daemonId = td2[x].replaces
    BY <1>2, <1>5, <2>1 DEF Talk, Waiting
  <2>2. ASSUME NEW x \in 1 .. Len(td2), NEW i \in 1 .. Len(f2), Calling(f2[i], td2[x].call)
        PROVE  f2[i] = td2[x]
    <3>1. CASE i \in 1 .. Len(f) /\ f2[i] = f[i]
      <4>1. td2[x] # c
        BY <1>3, <2>2, <3>1 DEF Calling
      <4>2. x \in 1 .. Len(td) /\ td2[x] = td[x]
        BY <1>2, <4>1
      <4> QED
        BY <2>2, <3>1, <4>2 DEF Talk, Waiting
    <3>2. CASE f2[i] = c
      <4>1. ~(x \in 1 .. Len(td) /\ td2[x] = td[x])
        BY <1>4, <2>2, <3>2 DEF Calling
      <4> QED
        BY <1>2, <3>2, <4>1
    <3> QED
      BY <1>1, <3>1, <3>2
  <2> QED
    BY <2>1, <2>2 DEF Waiting
<1> QED
  BY <1>6, <1>7, <1>8, <1>9 DEF Talk

LEMMA UntouchedLonger ==
    ASSUME NEW f, NEW f2, NEW e, Longer(f, f2, e), NEW j \in 0 .. Len(f), NEW id,
           Untouched(f2, j, id)
    PROVE  Untouched(f, j, id) /\ ~Touches(e, id)
<1>1. Len(f) + 1 \in 1 .. Len(f2) /\ Len(f) + 1 > j
  BY DEF Longer
<1>2. \A i \in 1 .. Len(f) : i \in 1 .. Len(f2) /\ f2[i] = f[i]
  BY DEF Longer
<1>3. ~Touches(e, id)
  BY <1>1 DEF Untouched, Longer
<1>4. Untouched(f, j, id)
  BY <1>2 DEF Untouched
<1> QED
  BY <1>3, <1>4

\* What is said of an id still is, as far as e does not change it, and e tells no lies.
LEMMA FollowingLonger ==
    ASSUME NEW N, NEW P, NEW f, NEW td, NEW told, NEW limit, Known(N, f, td, told, limit),
           NEW d, Following(N, P, f, td, d), NEW f2, NEW e, Longer(f, f2, e), NEW td2, NEW d2,
           \A id \in told : \A text : Said(td, d, id, text) /\ ~Touches(e, id) => Said(td2, d2, id, text),
           e.msg = "notify" /\ e.queued /\ e.replaces # 0 => Said(td2, d2, e.replaces, e.call),
           e.msg = "return" /\ Names(N, P, f2, Len(f) + 1) => Said(td2, d2, e.id, e.call)
    PROVE  Following(N, P, f2, td2, d2)
<1>0. Len(f) \in Nat
  BY DEF Longer
<1>1. SaysNotes(N, f2, td2, d2)
  <2>1. ASSUME NEW n \in N, n.daemonId # 0, Untouched(f2, 0, n.daemonId)
        PROVE  Said(td2, d2, n.daemonId, n.text)
    <3>1. 0 \in 0 .. Len(f)
      BY <1>0
    <3>2. Untouched(f, 0, n.daemonId) /\ ~Touches(e, n.daemonId)
      BY <2>1, <3>1, UntouchedLonger
    <3>3. n.daemonId \in told
      BY <2>1 DEF Known
    <3> QED
      BY <2>1, <3>2, <3>3 DEF Following, SaysNotes
  <2> QED
    BY <2>1 DEF SaysNotes
<1>2. SaysCalls(f2, td2, d2)
  <2>1. ASSUME NEW j \in 1 .. Len(f2), f2[j].msg = "notify", f2[j].queued, f2[j].replaces # 0,
               Untouched(f2, j, f2[j].replaces)
        PROVE  Said(td2, d2, f2[j].replaces, f2[j].call)
    <3>1. CASE f2[j] = e
      BY <2>1, <3>1
    <3>2. CASE j \in 1 .. Len(f) /\ f2[j] = f[j]
      <4>1. Untouched(f, j, f[j].replaces) /\ ~Touches(e, f[j].replaces)
        BY <1>0, <2>1, <3>2, UntouchedLonger
      <4>2. f[j].replaces \in told
        BY <2>1, <3>2 DEF Known
      <4> QED
        BY <2>1, <3>2, <4>1, <4>2 DEF Following, SaysCalls
    <3> QED
      BY <3>1, <3>2, LongerIs
  <2> QED
    BY <2>1 DEF SaysCalls
<1>3. SaysReplies(N, P, f2, td2, d2)
  <2>1. ASSUME NEW j \in 1 .. Len(f2), f2[j].msg = "return", Untouched(f2, j, f2[j].id),
               Names(N, P, f2, j)
        PROVE  Said(td2, d2, f2[j].id, f2[j].call)
    <3>1. CASE j = Len(f) + 1 /\ f2[j] = e
      BY <2>1, <3>1
    <3>2. CASE j \in 1 .. Len(f) /\ f2[j] = f[j]
      <4>1. Untouched(f, j, f[j].id) /\ ~Touches(e, f[j].id)
        BY <1>0, <2>1, <3>2, UntouchedLonger
      <4>2. f[j].id \in told
        BY <2>1, <3>2 DEF Known
      <4>3. \A i \in 1 .. j - 1 : f2[i] = f[i]
        BY <1>0, <3>2 DEF Longer
      <4>4. Names(N, P, f, j)
        BY <2>1, <3>2, <4>3 DEF Names
      <4> QED
        BY <2>1, <3>2, <4>1, <4>2, <4>4 DEF Following, SaysReplies
    <3> QED
      BY <3>1, <3>2, LongerIs
  <2> QED
    BY <2>1 DEF SaysReplies
<1> QED
  BY <1>1, <1>2, <1>3 DEF Following

LEMMA FollowingSaid ==
    ASSUME NEW N, NEW P, NEW f, NEW td, NEW told, NEW limit, Known(N, f, td, told, limit),
           NEW d, Following(N, P, f, td, d), NEW td2, NEW d2,
           \A id \in told : \A text : Said(td, d, id, text) => Said(td2, d2, id, text)
    PROVE  Following(N, P, f, td2, d2)
<1>1. SaysNotes(N, f, td2, d2)
  BY DEF Following, SaysNotes, Known
<1>2. SaysCalls(f, td2, d2)
  BY DEF Following, SaysCalls, Known
<1>3. SaysReplies(N, P, f, td2, d2)
  BY DEF Following, SaysReplies, Known
<1> QED
  BY <1>1, <1>2, <1>3 DEF Following

LEMMA FollowingNotify ==
    ASSUME NEW N, NEW P, NEW f, NEW td, NEW told, NEW limit, Known(N, f, td, told, limit),
           NEW d, Following(N, P, f, td, d),
           NEW c, c.msg = "notify", NEW f2, Longer(f, f2, c), NEW td2, Longer(td, td2, c)
    PROVE  Following(N, P, f2, td2, d)
<1>1. ASSUME NEW id, NEW text, Said(td, d, id, text), ~Touches(c, id)
      PROVE  Said(td2, d, id, text)
  <2>1. Replacing(td2, id) = Replacing(td, id)
    <3>1. ASSUME NEW x \in Replacing(td2, id) PROVE x \in Replacing(td, id)
      BY <1>1, LongerIs DEF Replacing, Touches
    <3>2. ASSUME NEW x \in Replacing(td, id) PROVE x \in Replacing(td2, id)
      BY DEF Replacing, Longer
    <3> QED
      BY <3>1, <3>2
  <2>2. \A x \in Replacing(td, id) : td2[x] = td[x]
    BY DEF Replacing, Longer
  <2> QED
    BY <1>1, <2>1, <2>2 DEF Said
<1>2. ASSUME c.queued PROVE Said(td2, d, c.replaces, c.call)
  <2> DEFINE k == Len(td) + 1
  <2>1. k \in 1 .. Len(td2) /\ td2[k] = c
    BY DEF Longer
  <2>2. k \in Replacing(td2, c.replaces)
    BY <1>2, <2>1 DEF Replacing
  <2>3. ASSUME NEW x \in Replacing(td2, c.replaces), \A y \in Replacing(td2, c.replaces) : y <= x
        PROVE  td2[x] = c
    <3>1. x \in 1 .. Len(td) + 1 /\ k <= x /\ Len(td) \in Nat
      BY <2>2, <2>3 DEF Replacing, Longer
    <3>2. x = k
      BY <3>1
    <3> QED
      BY <2>1, <3>2
  <2> QED
    BY <2>2, <2>3 DEF Said
<1> QED
  BY <1>1, <1>2, FollowingLonger

LEMMA FollowingClosed ==
    ASSUME NEW N, NEW P, NEW f, NEW td, NEW told, NEW limit, Known(N, f, td, told, limit),
           NEW d, Following(N, P, f, td, d),
           NEW e, e.msg = "closed", NEW f2, Longer(f, f2, e),
           NEW d2, d2.content = d.content,
           \A id \in d.undismissed : ~Touches(e, id) => id \in d2.undismissed
    PROVE  Following(N, P, f2, td, d2)
<1>1. ASSUME NEW id, NEW text, Said(td, d, id, text), ~Touches(e, id)
      PROVE  Said(td, d2, id, text)
  BY <1>1 DEF Said
<1> QED
  BY <1>1, FollowingLonger

\* The daemon comes to the call td[1], for the id, and replies or not.
Answers(d, c, id, d2) ==
    /\ IF c.replaces # 0 THEN id = c.replaces ELSE id \notin d.ids
    /\ \A i \in d.ids : i # id => d2.content[i] = d.content[i]
    /\ id \in d.ids /\ ~c.queued => d2.content[id] = d.content[id]
    /\ c.queued => d2.content[id] = c.call /\ id \in d2.undismissed
    /\ d.undismissed \subseteq d2.undismissed

LEMMA SaidAnswers ==
    ASSUME NEW td, NEW td2, Rest(td, td2), NEW d, NEW d2, NEW new, Answers(d, td[1], new, d2),
           NEW id \in d.ids, id # 0, NEW text, Said(td, d, id, text)
    PROVE  Said(td2, d2, id, text)
<1>1. Len(td) \in Nat /\ 1 \in 1 .. Len(td)
  BY DEF Rest
<1>2. ASSUME NEW x \in Replacing(td2, id) PROVE x + 1 \in Replacing(td, id) /\ td[x + 1] = td2[x]
  BY DEF Replacing, Rest
<1>3. ASSUME NEW x \in Replacing(td, id), x # 1 PROVE x - 1 \in Replacing(td2, id)
  <2>1. x - 1 \in 1 .. Len(td2) /\ (x - 1) + 1 = x /\ td[x].queued /\ td[x].replaces = id
    BY <1>1, <1>3 DEF Replacing, Rest
  <2>2. td2[x - 1] = td[x]
    BY <2>1 DEF Rest
  <2> QED
    BY <2>1, <2>2 DEF Replacing
<1>4. \A x \in Replacing(td, id) : x \in Nat \ {0}
  BY <1>1 DEF Replacing
<1>5. \A x \in Replacing(td2, id) : x \in Nat \ {0}
  BY DEF Replacing, Rest
<1>6. ASSUME Replacing(td2, id) = {} PROVE id \in d2.undismissed /\ d2.content[id] = text
  <2>1. \A x \in Replacing(td, id) : x = 1
    BY <1>3, <1>6
  <2>2. CASE 1 \in Replacing(td, id)
    <3>1. td[1].call = text
      BY <2>1, <2>2 DEF Said
    <3>2. td[1].queued /\ td[1].replaces = id
      BY <2>2 DEF Replacing
    <3> QED
      BY <3>1, <3>2 DEF Answers
  <2>3. CASE 1 \notin Replacing(td, id)
    <3>1. Replacing(td, id) = {}
      BY <2>1, <2>3
    <3>2. id \in d.undismissed /\ d.content[id] = text
      BY <3>1 DEF Said
    <3>3. id = new => id = td[1].replaces /\ ~td[1].queued
      BY <1>1, <2>3 DEF Answers, Replacing
    <3> QED
      BY <3>2, <3>3 DEF Answers
  <2> QED
    BY <2>2, <2>3
<1>7. ASSUME NEW x \in Replacing(td2, id), \A y \in Replacing(td2, id) : y <= x
      PROVE  td2[x].call = text
  <2>1. x + 1 \in Replacing(td, id) /\ td[x + 1] = td2[x] /\ x \in Nat \ {0}
    BY <1>2, <1>5
  <2>2. ASSUME NEW y \in Replacing(td, id) PROVE y <= x + 1
    <3>1. y \in Nat \ {0}
      BY <1>4
    <3>2. CASE y = 1
      BY <2>1, <3>2
    <3>3. CASE y # 1
      <4>1. y - 1 <= x
        BY <1>3, <1>7, <3>3
      <4> QED
        BY <2>1, <3>1, <4>1
    <3> QED
      BY <3>2, <3>3
  <2> QED
    BY <2>1, <2>2 DEF Said
<1> QED
  BY <1>6, <1>7 DEF Said

LEMMA FollowingAnswers ==
    ASSUME NEW N, NEW P, NEW f, NEW td, NEW told, NEW limit, Talk(N, P, f, td, told, limit),
           NEW d, Following(N, P, f, td, d), NEW td2, Rest(td, td2),
           told \subseteq d.ids, 0 \notin d.ids, NEW d2, NEW id, id # 0, Answers(d, td[1], id, d2),
           NEW f2, f2 = f \/ Longer(f, f2, Return(td[1].call, id))
    PROVE  Following(N, P, f2, td2, d2)
<1> DEFINE e == Return(td[1].call, id)
<1>0. e.msg = "return" /\ e.call = td[1].call /\ e.id = id
  BY DEF Return
<1>1. \A i \in told : \A text : Said(td, d, i, text) => Said(td2, d2, i, text)
  BY SaidAnswers
<1>2. 1 \in 1 .. Len(td)
  BY DEF Rest
<1> HIDE DEF e
<1>3. ASSUME Longer(f, f2, e), Names(N, P, f2, Len(f) + 1) PROVE Said(td2, d2, id, td[1].call)
  <2>1. \A i \in 1 .. (Len(f) + 1) - 1 : i \in 1 .. Len(f) /\ f2[i] = f[i]
    BY <1>3 DEF Longer
  <2>2. f2[Len(f) + 1] = e
    BY <1>3 DEF Longer
  <2>3. td[1].queued /\ td[1].replaces = 0
    <3>1. CASE \E p \in P, n \in N : p.call = e.call /\ n.key = p.key /\ n.daemonId = 0
      BY <1>0, <1>2, <3>1 DEF Talk, Waiting
    <3>2. CASE \E i \in 1 .. (Len(f) + 1) - 1 : Queues(f2[i], e.call) /\ f2[i].replaces = 0
      BY <1>0, <1>2, <2>1, <3>2 DEF Talk, Waiting, Queues
    <3> QED
      BY <1>3, <2>2, <3>1, <3>2 DEF Names
  <2>4. id \notin d.ids
    BY <2>3 DEF Answers
  <2>5. Replacing(td2, id) = {}
    <3>1. ASSUME NEW x \in Replacing(td2, id) PROVE FALSE
      <4>1. x + 1 \in 1 .. Len(td) /\ td[x + 1].replaces = id
        BY DEF Replacing, Rest
      <4> QED
        BY <2>4, <3>1, <4>1 DEF Talk, Known
    <3> QED
      BY <3>1
  <2> QED
    BY <2>3, <2>5 DEF Said, Answers
<1>4. CASE f2 = f
  BY <1>1, <1>4, FollowingSaid DEF Talk
<1>5. CASE Longer(f, f2, e)
  BY <1>0, <1>1, <1>3, <1>5, FollowingLonger DEF Talk
<1> QED
  BY <1>4, <1>5 DEF e

-----------------------------------------------------------------------------
\* The handlers, on a monitor m whose callback has run.

Notes == [key : Keys, daemonId : Ids \cup {0}, text : Calls]
Pendings == [call : Calls, key : Keys]

Whole(m) ==
    /\ m \in Monitors
    /\ Len(m.notes) <= MaxHeld /\ Len(m.pending) <= MaxPending
    /\ \A i \in 1 .. Len(m.notes) : m.notes[i].key < m.nextKey
    /\ \A i \in 1 .. Len(m.pending) : m.pending[i].key < m.nextKey
    /\ KeysApart(m.notes) /\ KeysApart(m.pending)

\* The same notes, for all that a view shows of them.
Shows(m, m2) ==
    /\ Len(m2.notes) = Len(m.notes)
    /\ \A i \in 1 .. Len(m.notes) :
          m2.notes[i].key = m.notes[i].key /\ m2.notes[i].text = m.notes[i].text

Handled(m, msg, m2) ==
    /\ Whole(m2) /\ m.nextKey <= m2.nextKey
    /\ Reads(Range(m.notes), Range(m.pending), msg, Range(m2.notes), Range(m2.pending))
    /\ m2.changed \/ Shows(m, m2)

LEMMA MonitorIs ==
    ASSUME NEW m \in Monitors
    PROVE  /\ m.notes \in Seq(Notes) /\ m.pending \in Seq(Pendings)
           /\ m.nextKey \in Nat \ {0} /\ m.changed \in BOOLEAN
           /\ Len(m.notes) \in Nat /\ DOMAIN m.notes = 1 .. Len(m.notes)
           /\ Len(m.pending) \in Nat /\ DOMAIN m.pending = 1 .. Len(m.pending)
           /\ \A i \in 1 .. Len(m.notes) : m.notes[i] \in Notes
           /\ \A i \in 1 .. Len(m.pending) : m.pending[i] \in Pendings
<1>1. /\ m.notes \in Seq(Notes) /\ m.pending \in Seq(Pendings)
      /\ m.nextKey \in Nat \ {0} /\ m.changed \in BOOLEAN
  BY DEF Monitors, Notes, Pendings, Keys
<1> QED
  BY <1>1, LenProperties

LEMMA MonitorOf ==
    ASSUME NEW n \in Seq(Notes), NEW p \in Seq(Pendings), NEW k \in Nat \ {0}, NEW c \in BOOLEAN
    PROVE  [notes |-> n, pending |-> p, nextKey |-> k, changed |-> c] \in Monitors
  BY DEF Monitors, Notes, Pendings, Keys

LEMMA MonitorFields ==
    ASSUME NEW m \in Monitors
    PROVE  m = [notes |-> m.notes, pending |-> m.pending, nextKey |-> m.nextKey, changed |-> m.changed]
  BY Zenon DEF Monitors

LEMMA SettledIs ==
    ASSUME NEW m \in Monitors
    PROVE  /\ Settled(m) \in Monitors
           /\ Settled(m).notes = m.notes /\ Settled(m).pending = m.pending
           /\ Settled(m).nextKey = m.nextKey /\ Settled(m).changed = FALSE
<1>1. Settled(m) \in Monitors
  BY Zenon DEF Monitors, Settled
<1>2. Settled(m).notes = m.notes
  BY Zenon DEF Monitors, Settled
<1>3. Settled(m).pending = m.pending
  BY Zenon DEF Monitors, Settled
<1>4. Settled(m).nextKey = m.nextKey
  BY Zenon DEF Monitors, Settled
<1>5. Settled(m).changed = FALSE
  BY Zenon DEF Monitors, Settled
<1> QED
  BY <1>1, <1>2, <1>3, <1>4, <1>5

LEMMA WholeIs ==
    ASSUME NEW m
    PROVE  MonitorTypeOK(m) /\ KeysApart(m.notes) /\ KeysApart(m.pending)
               <=> Whole(m) /\ m.changed = FALSE
<1>1. CASE m \in Monitors
  BY <1>1, MonitorIs DEF MonitorTypeOK, Whole
<1>2. CASE m \notin Monitors
  BY <1>2 DEF MonitorTypeOK, Whole
<1> QED
  BY <1>1, <1>2

LEMMA NamedIs ==
    ASSUME NEW m \in Monitors, NEW id
    PROVE  /\ Named(m, id) = {i \in 1 .. Len(m.notes) : m.notes[i].daemonId = id}
           /\ Named(m, id) \in SUBSET Nat
           /\ Named(m, id) # {} => Min(Named(m, id)) \in Named(m, id)
<1>1. Named(m, id) = {i \in 1 .. Len(m.notes) : m.notes[i].daemonId = id}
  BY MonitorIs DEF Named
<1>2. Named(m, id) \in SUBSET Nat
  BY <1>1
<1> QED
  BY <1>1, <1>2, Least

LEMMA SameHandled ==
    ASSUME NEW m, Whole(m), NEW msg,
           Ignores(Range(m.notes), Range(m.pending), msg, Range(m.notes), Range(m.pending))
               \/ Removes(Range(m.notes), Range(m.pending), msg, Range(m.notes), Range(m.pending))
    PROVE  Handled(m, msg, m)
<1>1. m.nextKey <= m.nextKey
  BY MonitorIs DEF Whole
<1> QED
  BY <1>1 DEF Handled, Reads, Shows

LEMMA RewordedIs ==
    ASSUME NEW s \in Seq(Notes), NEW i \in 1 .. Len(s), NEW text \in Calls
    PROVE  /\ Reworded(s, i, text) \in Seq(Notes) /\ Len(Reworded(s, i, text)) = Len(s)
           /\ \A j \in 1 .. Len(s) :
                 /\ Reworded(s, i, text)[j].key = s[j].key
                 /\ Reworded(s, i, text)[j].daemonId = s[j].daemonId
                 /\ Reworded(s, i, text)[j].text = IF j = i THEN text ELSE s[j].text
<1> DEFINE n == [s[i] EXCEPT !.text = text]
           t == Reworded(s, i, text)
<1>1. s[i] \in Notes /\ Len(s) \in Nat
  BY LenProperties
<1>2. n \in Notes
  BY <1>1, Zenon DEF Notes
<1>3. n.key = s[i].key
  BY <1>1, Zenon DEF Notes
<1>4. n.daemonId = s[i].daemonId
  BY <1>1, Zenon DEF Notes
<1>5. n.text = text
  BY <1>1, Zenon DEF Notes
<1>6. t = [s EXCEPT ![i] = n]
  BY DEF Reworded
<1> HIDE DEF n, t
<1>7. t \in Seq(Notes) /\ Len(t) = Len(s) /\ \A j \in 1 .. Len(s) : t[j] = IF j = i THEN n ELSE s[j]
  BY <1>2, <1>6, ExceptSeq
<1> QED
  BY <1>3, <1>4, <1>5, <1>7 DEF t

LEMMA ReplaceHandled ==
    ASSUME NEW m, Whole(m), Apart(Range(m.notes)),
           NEW c \in Messages, c.msg = "notify", c.queued, c.replaces # 0,
           NEW i \in Named(m, c.replaces)
    PROVE  Handled(m, c, Replace(m, i, c))
<1> DEFINE t == Reworded(m.notes, i, c.call)
           m2 == Replace(m, i, c)
<1> HIDE DEF m2
<1>0. m \in Monitors /\ c.call \in Calls /\ i \in 1 .. Len(m.notes) /\ m.notes[i].daemonId = c.replaces
  BY NamedIs, MessageIs DEF Whole
<1>1. /\ m.notes \in Seq(Notes) /\ m.pending \in Seq(Pendings) /\ m.nextKey \in Nat \ {0}
      /\ Len(m.notes) \in Nat
  BY <1>0, MonitorIs
<1>2. /\ t \in Seq(Notes) /\ Len(t) = Len(m.notes)
      /\ \A j \in 1 .. Len(m.notes) :
            /\ t[j].key = m.notes[j].key /\ t[j].daemonId = m.notes[j].daemonId
            /\ t[j].text = IF j = i THEN c.call ELSE m.notes[j].text
  <2>1. PICK s \in Seq(Notes) : s = m.notes
    BY <1>1
  <2>2. PICK text \in Calls : text = c.call
    BY <1>0
  <2>3. i \in 1 .. Len(s) /\ t = Reworded(s, i, text)
    BY <1>0, <2>1, <2>2
  <2> HIDE DEF t
  <2>4. /\ t \in Seq(Notes) /\ Len(t) = Len(s)
        /\ \A j \in 1 .. Len(s) :
              /\ t[j].key = s[j].key /\ t[j].daemonId = s[j].daemonId
              /\ t[j].text = IF j = i THEN text ELSE s[j].text
    BY <2>3, RewordedIs
  <2> QED
    BY <2>1, <2>2, <2>4
<1>3. m2 = [notes |-> t, pending |-> m.pending, nextKey |-> m.nextKey, changed |-> TRUE]
  <2>1. m2 = [m EXCEPT !.notes = t, !.changed = TRUE]
    BY DEF Replace, m2
  <2> HIDE DEF t
  <2> QED
    BY <1>0, <2>1, Zenon DEF Monitors
<1> HIDE DEF t
<1>4. m2.notes = t /\ m2.pending = m.pending /\ m2.nextKey = m.nextKey /\ m2.changed
  BY <1>3
<1>5. m2 \in Monitors
  BY <1>1, <1>2, <1>3, MonitorOf
<1>6. Whole(m2)
  BY <1>2, <1>4, <1>5 DEF Whole, KeysApart
<1>7. Rewords(Range(m.notes), Range(m.pending), c, Range(t), Range(m.pending))
  <2>1. Range(m.notes) = {m.notes[j] : j \in 1 .. Len(m.notes)}
    BY <1>1, RangeIs
  <2>2. Range(t) = {t[j] : j \in 1 .. Len(m.notes)}
    BY <1>2, RangeIs
  <2>3. ASSUME NEW j \in 1 .. Len(m.notes)
        PROVE  t[j].text = IF m.notes[j].daemonId = c.replaces THEN c.call ELSE m.notes[j].text
    <3>1. m.notes[j].daemonId = c.replaces <=> j = i
      BY <1>0, <2>1 DEF Whole, Apart, KeysApart
    <3> QED
      BY <1>2, <3>1
  <2> QED
    BY <1>2, <2>1, <2>2, <2>3 DEF Rewords
<1>8. m.nextKey <= m2.nextKey
  BY <1>1, <1>4
<1> QED
  BY <1>4, <1>6, <1>7, <1>8 DEF Handled, Reads, m2

LEMMA KeysApartAppend ==
    ASSUME NEW S, NEW s \in Seq(S), NEW e \in S, KeysApart(s), \A i \in 1 .. Len(s) : s[i].key # e.key
    PROVE  KeysApart(Append(s, e))
<1>1. Len(s) \in Nat
  BY LenProperties
<1>2. /\ Len(Append(s, e)) = Len(s) + 1 /\ Append(s, e)[Len(s) + 1] = e
      /\ \A i \in 1 .. Len(s) : Append(s, e)[i] = s[i]
  BY AppendIs
<1>3. \A i \in 1 .. Len(s) + 1 : i \in 1 .. Len(s) \/ i = Len(s) + 1
  BY <1>1
<1> QED
  BY <1>2, <1>3 DEF KeysApart

LEMMA PushHandled ==
    ASSUME NEW m, Whole(m), NEW c \in Messages, c.msg = "notify", c.queued,
           c.replaces # 0 => \A n \in Range(m.notes) : n.daemonId # c.replaces
    PROVE  Handled(m, c, Push(m, c))
<1> DEFINE new == Note(m.nextKey, c.replaces, c.call)
           made == [call |-> c.call, key |-> m.nextKey]
           all == Append(m.notes, new)
           was == IF Len(m.pending) >= MaxPending THEN <<>> ELSE m.pending
           m2 == Push(m, c)
<1>0. m \in Monitors /\ c.call \in Calls /\ c.replaces \in Ids \cup {0}
  BY MessageIs DEF Whole
<1>1. /\ m.notes \in Seq(Notes) /\ m.pending \in Seq(Pendings) /\ m.nextKey \in Nat \ {0}
      /\ Len(m.notes) \in Nat /\ Len(m.pending) \in Nat
      /\ \A i \in 1 .. Len(m.notes) : m.notes[i] \in Notes
      /\ \A i \in 1 .. Len(m.pending) : m.pending[i] \in Pendings
  BY <1>0, MonitorIs
<1>2. new \in Notes /\ new.key = m.nextKey
  BY <1>0, <1>1 DEF Note, Notes, Keys
<1>3. made \in Pendings /\ made.key = m.nextKey
  BY <1>0, <1>1 DEF Pendings, Keys
<1>4. m2 = [notes |-> Held(all), pending |-> Append(was, made), nextKey |-> m.nextKey + 1,
            changed |-> TRUE]
  BY DEF Push
<1>5. new = Note(m.nextKey, c.replaces, c.call) /\ made = [call |-> c.call, key |-> m.nextKey]
  OBVIOUS
<1> HIDE DEF new, made, m2
<1>6. /\ all \in Seq(Notes) /\ Range(all) = Range(m.notes) \cup {new}
      /\ Len(all) = Len(m.notes) + 1 /\ all[Len(m.notes) + 1] = new
      /\ \A i \in 1 .. Len(m.notes) : all[i] = m.notes[i]
  BY <1>1, <1>2, AppendIs
<1>7. \A i \in 1 .. Len(m.notes) : m.notes[i].key < m.nextKey /\ m.notes[i].key # m.nextKey
  <2>1. ASSUME NEW i \in 1 .. Len(m.notes)
        PROVE  m.notes[i].key < m.nextKey /\ m.notes[i].key # m.nextKey
    <3>1. m.notes[i].key \in Nat /\ m.notes[i].key < m.nextKey
      BY <1>1 DEF Whole, Notes, Keys
    <3> QED
      BY <1>1, <3>1
  <2> QED
    BY <2>1
<1>8. \A i \in 1 .. Len(m.pending) : m.pending[i].key < m.nextKey /\ m.pending[i].key # m.nextKey
  <2>1. ASSUME NEW i \in 1 .. Len(m.pending)
        PROVE  m.pending[i].key < m.nextKey /\ m.pending[i].key # m.nextKey
    <3>1. m.pending[i].key \in Nat /\ m.pending[i].key < m.nextKey
      BY <1>1 DEF Whole, Pendings, Keys
    <3> QED
      BY <1>1, <3>1
  <2> QED
    BY <2>1
<1>9. KeysApart(all)
  BY <1>1, <1>2, <1>7, KeysApartAppend DEF Whole
<1>10. \A n \in Range(all) : n.key < m.nextKey + 1
  <2>1. Range(m.notes) = {m.notes[i] : i \in 1 .. Len(m.notes)}
    BY <1>1, RangeIs
  <2>2. ASSUME NEW i \in 1 .. Len(m.notes) PROVE m.notes[i].key < m.nextKey + 1
    <3>1. m.notes[i].key \in Nat /\ m.notes[i].key < m.nextKey
      BY <1>1, <1>7 DEF Notes, Keys
    <3> QED
      BY <1>1, <3>1
  <2>3. new.key < m.nextKey + 1
    BY <1>1, <1>2
  <2> QED
    BY <1>6, <2>1, <2>2, <2>3
<1> HIDE DEF all
<1>11. /\ Held(all) \in Seq(Notes) /\ Len(Held(all)) <= MaxHeld
       /\ Range(Held(all)) \subseteq Range(all) /\ KeysApart(Held(all))
  BY <1>6, <1>9, HeldIs, PartIs
<1>12. \A i \in 1 .. Len(Held(all)) : Held(all)[i].key < m.nextKey + 1
  <2>1. Range(Held(all)) = {Held(all)[i] : i \in 1 .. Len(Held(all))}
    BY <1>11, RangeIs
  <2> QED
    BY <1>10, <1>11, <2>1
<1>13. /\ was \in Seq(Pendings) /\ Len(was) \in Nat /\ Len(was) < MaxPending
       /\ Range(was) \subseteq Range(m.pending) /\ KeysApart(was)
       /\ \A i \in 1 .. Len(was) : was[i].key < m.nextKey /\ was[i].key # m.nextKey
  <2>1. CASE Len(m.pending) >= MaxPending
    <3>1. was = <<>> /\ was \in Seq(Pendings) /\ Len(was) = 0
      BY <2>1
    <3>2. 1 .. 0 = {}
      OBVIOUS
    <3> HIDE DEF was
    <3>3. Range(was) = {was[i] : i \in 1 .. Len(was)}
      <4>1. was \in Seq(Pendings)
        BY <3>1
      <4> QED
        BY ONLY <4>1, RangeIs
    <3>4. Range(was) = {}
      BY <3>1, <3>2, <3>3
    <3> QED
      BY <3>1, <3>2, <3>4, LimitsAssumption DEF KeysApart
  <2>2. CASE ~(Len(m.pending) >= MaxPending)
    <3>1. was = m.pending
      BY <2>2
    <3>2. Len(m.pending) < MaxPending
      BY <1>1, <2>2, LimitsAssumption
    <3> QED
      BY <1>1, <1>8, <3>1, <3>2 DEF Whole
  <2> QED
    BY <2>1, <2>2
<1> HIDE DEF was
<1>14. /\ Append(was, made) \in Seq(Pendings)
       /\ Range(Append(was, made)) \subseteq Range(m.pending) \cup {made}
       /\ Len(Append(was, made)) <= MaxPending /\ KeysApart(Append(was, made))
  <2>1. /\ Append(was, made) \in Seq(Pendings) /\ Range(Append(was, made)) = Range(was) \cup {made}
        /\ Len(Append(was, made)) = Len(was) + 1
    BY <1>3, <1>13, AppendIs
  <2>2. KeysApart(Append(was, made))
    BY <1>3, <1>13, KeysApartAppend
  <2>3. Len(was) + 1 <= MaxPending
    BY <1>13, LimitsAssumption
  <2> QED
    BY <1>13, <2>1, <2>2, <2>3
<1>15. \A i \in 1 .. Len(Append(was, made)) : Append(was, made)[i].key < m.nextKey + 1
  <2>1. /\ Len(Append(was, made)) = Len(was) + 1 /\ Append(was, made)[Len(was) + 1] = made
        /\ \A i \in 1 .. Len(was) : Append(was, made)[i] = was[i]
    BY <1>3, <1>13, AppendIs
  <2>2. ASSUME NEW i \in 1 .. Len(was) PROVE was[i].key < m.nextKey + 1
    <3>1. was[i] \in Pendings
      BY <1>13, LenProperties
    <3>2. was[i].key \in Nat /\ was[i].key < m.nextKey
      BY <1>13, <3>1 DEF Pendings, Keys
    <3> QED
      BY <1>1, <3>2
  <2>3. made.key < m.nextKey + 1
    BY <1>1, <1>3
  <2>4. \A i \in 1 .. Len(was) + 1 : i \in 1 .. Len(was) \/ i = Len(was) + 1
    BY <1>13
  <2> QED
    BY <2>1, <2>2, <2>3, <2>4
<1>16. /\ m2.notes = Held(all) /\ m2.pending = Append(was, made)
       /\ m2.nextKey = m.nextKey + 1 /\ m2.changed
  BY <1>4
<1>17. m2 \in Monitors
  <2>1. m.nextKey + 1 \in Nat \ {0}
    BY <1>1
  <2> QED
    BY <1>4, <1>11, <1>14, <2>1, MonitorOf
<1>18. Whole(m2)
  BY <1>11, <1>12, <1>14, <1>15, <1>16, <1>17 DEF Whole
<1>19. Pushes(Range(m.notes), Range(m.pending), c, Range(m2.notes), Range(m2.pending))
  <2>1. Range(m.notes) = {m.notes[i] : i \in 1 .. Len(m.notes)}
    BY <1>1, RangeIs
  <2>2. Range(m.pending) = {m.pending[i] : i \in 1 .. Len(m.pending)}
    BY <1>1, RangeIs
  <2>3. (\A n \in Range(m.notes) : n.key # m.nextKey) /\ (\A p \in Range(m.pending) : p.key # m.nextKey)
    BY <1>7, <1>8, <2>1, <2>2
  <2>4. m.nextKey \in Keys
    BY <1>1 DEF Keys
  <2>5. Range(m2.notes) \subseteq Range(m.notes) \cup {Note(m.nextKey, c.replaces, c.call)}
    BY <1>5, <1>6, <1>11, <1>16
  <2>6. Range(m2.pending) \subseteq Range(m.pending) \cup {[call |-> c.call, key |-> m.nextKey]}
    BY <1>5, <1>14, <1>16
  <2> QED
    BY <2>3, <2>4, <2>5, <2>6 DEF Pushes
<1>20. m.nextKey <= m2.nextKey
  BY <1>1, <1>16
<1> QED
  BY <1>16, <1>18, <1>19, <1>20 DEF Handled, Reads, m2

LEMMA NotifyHandled ==
    ASSUME NEW m, Whole(m), m.changed = FALSE, Apart(Range(m.notes)),
           NEW c \in Messages, c.msg = "notify"
    PROVE  Handled(m, c, HandleNotify(m, c))
<1>0. m \in Monitors
  BY DEF Whole
<1>1. CASE ~c.queued
  <2>1. HandleNotify(m, c) = m
    BY <1>1 DEF HandleNotify
  <2>2. Handled(m, c, m)
    BY <1>1, SameHandled DEF Ignores
  <2> QED
    BY <2>1, <2>2
<1>2. CASE c.queued /\ c.replaces # 0 /\ Named(m, c.replaces) # {}
  <2>1. HandleNotify(m, c) = Replace(m, Min(Named(m, c.replaces)), c)
    BY <1>2 DEF HandleNotify
  <2>2. Min(Named(m, c.replaces)) \in Named(m, c.replaces)
    BY <1>0, <1>2, NamedIs
  <2> QED
    BY <1>2, <2>1, <2>2, ReplaceHandled
<1>3. CASE c.queued /\ ~(c.replaces # 0 /\ Named(m, c.replaces) # {})
  <2>1. HandleNotify(m, c) = Push(m, c)
    BY <1>3 DEF HandleNotify
  <2>2. c.replaces # 0 => \A n \in Range(m.notes) : n.daemonId # c.replaces
    <3>1. Range(m.notes) = {m.notes[i] : i \in 1 .. Len(m.notes)}
      BY <1>0, MonitorIs, RangeIs
    <3>2. c.replaces # 0 => {i \in 1 .. Len(m.notes) : m.notes[i].daemonId = c.replaces} = {}
      BY <1>0, <1>3, NamedIs
    <3> QED
      BY <3>1, <3>2
  <2> QED
    BY <1>3, <2>1, <2>2, PushHandled
<1> QED
  BY <1>1, <1>2, <1>3

LEMMA LearnedIs ==
    ASSUME NEW s \in Seq(Notes), NEW key, NEW id \in Ids
    PROVE  /\ Learned(s, key, id) \in Seq(Notes) /\ Len(Learned(s, key, id)) = Len(s)
           /\ \A j \in 1 .. Len(s) :
                 /\ Learned(s, key, id)[j].key = s[j].key
                 /\ Learned(s, key, id)[j].text = s[j].text
                 /\ Learned(s, key, id)[j].daemonId = IF s[j].key = key THEN id ELSE s[j].daemonId
<1> DEFINE new(j) == [s[j] EXCEPT !.daemonId = id]
           t == Learned(s, key, id)
<1>1. Len(s) \in Nat /\ DOMAIN s = 1 .. Len(s) /\ \A j \in 1 .. Len(s) : s[j] \in Notes
  BY LenProperties
<1>2. ASSUME NEW n \in Notes
      PROVE  /\ [n EXCEPT !.daemonId = id] \in Notes /\ [n EXCEPT !.daemonId = id].key = n.key
             /\ [n EXCEPT !.daemonId = id].text = n.text /\ [n EXCEPT !.daemonId = id].daemonId = id
  <2>1. [n EXCEPT !.daemonId = id] \in Notes
    BY Zenon DEF Notes
  <2>2. [n EXCEPT !.daemonId = id].key = n.key
    BY Zenon DEF Notes
  <2>3. [n EXCEPT !.daemonId = id].text = n.text
    BY Zenon DEF Notes
  <2>4. [n EXCEPT !.daemonId = id].daemonId = id
    BY Zenon DEF Notes
  <2> QED
    BY <2>1, <2>2, <2>3, <2>4, Zenon
<1>3. \A j \in 1 .. Len(s) : /\ new(j) \in Notes /\ new(j).key = s[j].key
                             /\ new(j).text = s[j].text /\ new(j).daemonId = id
  BY <1>1, <1>2, Zenon
<1>4. t = [j \in 1 .. Len(s) |-> IF s[j].key = key THEN new(j) ELSE s[j]]
  BY <1>1, Zenon DEF Learned
<1> HIDE DEF new, t
<1>5. \A j \in 1 .. Len(s) : (IF s[j].key = key THEN new(j) ELSE s[j]) \in Notes
  BY <1>1, <1>3
<1>6. t \in Seq(Notes) /\ Len(t) = Len(s)
  BY <1>1, <1>4, <1>5
<1>7. \A j \in 1 .. Len(s) : t[j] = IF s[j].key = key THEN new(j) ELSE s[j]
  BY <1>4
<1>8. \A j \in 1 .. Len(s) : /\ t[j].key = s[j].key /\ t[j].text = s[j].text
                             /\ t[j].daemonId = IF s[j].key = key THEN id ELSE s[j].daemonId
  BY <1>3, <1>7
<1> QED
  BY <1>6, <1>8 DEF t

LEMMA ReturnHandled ==
    ASSUME NEW m, Whole(m), m.changed = FALSE, NEW r \in Messages, r.msg = "return"
    PROVE  Handled(m, r, HandleReturn(m, r))
<1> DEFINE made == {i \in DOMAIN m.pending : m.pending[i].call = r.call}
           at == Min(made)
           q == m.pending[at]
           t == Learned(m.notes, q.key, r.id)
           rest == RemoveAt(m.pending, at)
           m2 == HandleReturn(m, r)
<1>0. m \in Monitors /\ r.id \in Ids /\ r.id # 0
  <2>1. r.id \in Ids
    BY MessageIs
  <2> QED
    BY <2>1 DEF Whole, Ids
<1>1. /\ m.notes \in Seq(Notes) /\ m.pending \in Seq(Pendings) /\ m.nextKey \in Nat \ {0}
      /\ Len(m.notes) \in Nat /\ Len(m.pending) \in Nat
      /\ DOMAIN m.pending = 1 .. Len(m.pending)
      /\ \A i \in 1 .. Len(m.pending) : m.pending[i] \in Pendings
  BY <1>0, MonitorIs
<1>2. CASE made = {}
  <2>1. m2 = m
    BY <1>2 DEF HandleReturn
  <2>2. \A p \in Range(m.pending) : p.call # r.call
    <3>1. Range(m.pending) = {m.pending[i] : i \in 1 .. Len(m.pending)}
      BY <1>1, RangeIs
    <3> QED
      BY <1>1, <1>2, <3>1
  <2>3. Handled(m, r, m)
    BY <2>2, SameHandled DEF Ignores
  <2> QED
    BY <2>1, <2>3
<1>3. CASE made # {}
  <2>1. m2 = [m EXCEPT !.notes = t, !.pending = rest]
    <3>1. m2 = [m EXCEPT !.notes = IF r.id = 0 THEN m.notes ELSE t, !.pending = rest]
      BY <1>3, Zenon DEF HandleReturn
    <3> QED
      BY <1>0, <3>1, Zenon
  <2>2. at \in 1 .. Len(m.pending) /\ q.call = r.call
    <3>1. made \in SUBSET Nat
      BY <1>1
    <3>2. at \in made
      BY <1>3, <3>1, Least
    <3> QED
      BY <1>1, <3>2
  <2> HIDE DEF made, at, m2
  <2>3. m2 = [notes |-> t, pending |-> rest, nextKey |-> m.nextKey, changed |-> m.changed]
    <3> HIDE DEF t, rest
    <3> QED
      BY <1>0, <2>1, Zenon DEF Monitors
  <2>4. /\ t \in Seq(Notes) /\ Len(t) = Len(m.notes)
        /\ \A j \in 1 .. Len(m.notes) :
              /\ t[j].key = m.notes[j].key /\ t[j].text = m.notes[j].text
              /\ t[j].daemonId = IF m.notes[j].key = q.key THEN r.id ELSE m.notes[j].daemonId
    <3>1. PICK s \in Seq(Notes) : s = m.notes
      BY <1>1
    <3>2. PICK key : key = q.key
      OBVIOUS
    <3>3. PICK id \in Ids : id = r.id
      BY <1>0
    <3>4. t = Learned(s, key, id)
      BY <3>1, <3>2, <3>3
    <3> HIDE DEF t, q
    <3>5. /\ t \in Seq(Notes) /\ Len(t) = Len(s)
          /\ \A j \in 1 .. Len(s) :
                /\ t[j].key = s[j].key /\ t[j].text = s[j].text
                /\ t[j].daemonId = IF s[j].key = key THEN id ELSE s[j].daemonId
      BY <3>4, LearnedIs
    <3> QED
      BY <3>1, <3>2, <3>3, <3>5
  <2>5. /\ rest \in Seq(Pendings) /\ Len(rest) = Len(m.pending) - 1 /\ Part(rest, m.pending)
        /\ Range(rest) \subseteq {m.pending[j] : j \in (1 .. Len(m.pending)) \ {at}}
    BY <1>1, <2>2, RemoveAtIs
  <2>6. Range(rest) \subseteq Range(m.pending) /\ KeysApart(rest)
    BY <1>1, <2>5, PartIs DEF Whole
  <2>7. q \in Range(m.pending) /\ Range(m.pending) = {m.pending[j] : j \in 1 .. Len(m.pending)}
    <3>1. Range(m.pending) = {m.pending[j] : j \in 1 .. Len(m.pending)}
      BY <1>1, RangeIs
    <3> QED
      BY <2>2, <3>1
  <2>8. Range(rest) \subseteq Range(m.pending) \ {q}
    BY <2>2, <2>5, <2>6 DEF Whole, KeysApart
  <2> HIDE DEF q, t, rest
  <2>9. m2.notes = t /\ m2.pending = rest /\ m2.nextKey = m.nextKey
    BY <2>3
  <2>10. m2 \in Monitors
    <3>1. m.changed \in BOOLEAN
      OBVIOUS
    <3> QED
      BY <1>1, <2>3, <2>4, <2>5, <3>1, MonitorOf
  <2>11. \A i \in 1 .. Len(rest) : rest[i].key < m.nextKey
    <3>1. Range(rest) = {rest[i] : i \in 1 .. Len(rest)}
      BY <2>5, RangeIs
    <3>2. \A p \in Range(m.pending) : p.key < m.nextKey
      BY <2>7 DEF Whole
    <3> QED
      BY <2>6, <3>1, <3>2
  <2>12. Whole(m2)
    <3>1. Len(rest) <= MaxPending
      BY <1>1, <2>5, LimitsAssumption DEF Whole
    <3>2. KeysApart(t) /\ (\A i \in 1 .. Len(t) : t[i].key < m.nextKey) /\ Len(t) <= MaxHeld
      BY <2>4 DEF Whole, KeysApart
    <3> QED
      BY <2>6, <2>9, <2>10, <2>11, <3>1, <3>2 DEF Whole
  <2>13. Learns(Range(m.notes), Range(m.pending), r, Range(t), Range(rest))
    <3>1. Range(m.notes) = {m.notes[j] : j \in 1 .. Len(m.notes)}
      BY <1>1, RangeIs
    <3>2. Range(t) = {t[j] : j \in 1 .. Len(m.notes)}
      BY <2>4, RangeIs
    <3>3. \A o \in Range(t) : \E n \in Range(m.notes) :
              /\ o.key = n.key /\ o.text = n.text
              /\ o.daemonId = IF n.key = q.key THEN r.id ELSE n.daemonId
      BY <2>4, <3>1, <3>2
    <3>4. q.call = r.call
      BY <2>2 DEF q
    <3> QED
      BY <2>7, <2>8, <3>3, <3>4 DEF Learns
  <2>14. Shows(m, m2)
    BY <2>4, <2>9 DEF Shows
  <2>15. m.nextKey <= m2.nextKey
    BY <1>1, <2>9
  <2> QED
    BY <2>9, <2>12, <2>13, <2>14, <2>15 DEF Handled, Reads, m2
<1> QED
  BY <1>2, <1>3

LEMMA ClosedHandled ==
    ASSUME NEW m, Whole(m), m.changed = FALSE, NEW c \in Messages, c.msg = "closed"
    PROVE  Handled(m, c, HandleClosed(m, c))
<1> DEFINE N == Named(m, c.id)
           keep == DOMAIN m.notes \ N
           t == Kept(m.notes, keep)
           m2 == HandleClosed(m, c)
<1>0. m \in Monitors
  BY DEF Whole
<1>1. /\ m.notes \in Seq(Notes) /\ m.pending \in Seq(Pendings) /\ m.nextKey \in Nat \ {0}
      /\ Len(m.notes) \in Nat /\ DOMAIN m.notes = 1 .. Len(m.notes)
  BY <1>0, MonitorIs
<1>2. N = {i \in 1 .. Len(m.notes) : m.notes[i].daemonId = c.id}
  BY <1>0, NamedIs
<1>3. Range(m.notes) = {m.notes[i] : i \in 1 .. Len(m.notes)}
  BY <1>1, RangeIs
<1>4. CASE c.reason \notin {Dismissed, ByCall} \/ N = {}
  <2>1. m2 = m
    BY <1>4 DEF HandleClosed
  <2>2. N = {} => \A n \in Range(m.notes) : n.daemonId # c.id
    BY <1>2, <1>3
  <2>3. Handled(m, c, m)
    BY <1>4, <2>2, SameHandled DEF Removes
  <2> QED
    BY <2>1, <2>3
<1>5. CASE ~(c.reason \notin {Dismissed, ByCall} \/ N = {})
  <2>1. m2 = [m EXCEPT !.notes = t, !.changed = TRUE]
    BY <1>5, Zenon DEF HandleClosed
  <2> HIDE DEF m2
  <2>2. m2 = [notes |-> t, pending |-> m.pending, nextKey |-> m.nextKey, changed |-> TRUE]
    <3> HIDE DEF t
    <3> QED
      BY <1>0, <2>1, Zenon DEF Monitors
  <2>3. keep \in SUBSET (1 .. Len(m.notes))
    BY <1>1
  <2>4. \A i \in keep : m.notes[i].daemonId # c.id
    BY <1>1, <1>2
  <2> HIDE DEF keep
  <2>5. /\ t \in Seq(Notes) /\ Len(t) <= Len(m.notes) /\ Part(t, m.notes)
        /\ Range(t) \subseteq {m.notes[i] : i \in keep}
    BY <1>1, <2>3, KeptIs
  <2> HIDE DEF t
  <2>6. Range(t) \subseteq Range(m.notes) /\ KeysApart(t) /\ Range(t) = {t[i] : i \in 1 .. Len(t)}
        /\ Len(t) \in Nat
    BY <1>1, <2>5, PartIs, RangeIs DEF Whole
  <2>7. \A n \in Range(t) : n.daemonId # c.id
    BY <2>4, <2>5
  <2>8. m2.notes = t /\ m2.pending = m.pending /\ m2.nextKey = m.nextKey /\ m2.changed
    BY <2>2
  <2>9. m2 \in Monitors
    BY <1>1, <2>2, <2>5, MonitorOf
  <2>10. \A i \in 1 .. Len(t) : t[i].key < m.nextKey
    <3>1. \A n \in Range(m.notes) : n.key < m.nextKey
      BY <1>3 DEF Whole
    <3> QED
      BY <2>6, <3>1
  <2>11. Whole(m2)
    <3>1. Len(t) <= MaxHeld
      BY <1>1, <2>5, <2>6, LimitsAssumption DEF Whole
    <3> QED
      BY <2>6, <2>8, <2>9, <2>10, <3>1 DEF Whole
  <2>12. Removes(Range(m.notes), Range(m.pending), c, Range(t), Range(m.pending))
    BY <2>6, <2>7 DEF Removes
  <2>13. m.nextKey <= m2.nextKey
    BY <1>1, <2>8
  <2> QED
    BY <2>8, <2>11, <2>12, <2>13 DEF Handled, Reads, m2
<1> QED
  BY <1>4, <1>5

LEMMA MessageHandled ==
    ASSUME NEW m, Whole(m), m.changed = FALSE, Apart(Range(m.notes)), NEW msg \in Messages
    PROVE  Handled(m, msg, OnMessage(m, msg))
<1>1. CASE msg.msg = "notify"
  <2>1. OnMessage(m, msg) = HandleNotify(m, msg)
    BY <1>1 DEF OnMessage
  <2> QED
    BY <1>1, <2>1, NotifyHandled
<1>2. CASE msg.msg = "return"
  <2>1. OnMessage(m, msg) = HandleReturn(m, msg)
    BY <1>2 DEF OnMessage
  <2> QED
    BY <1>2, <2>1, ReturnHandled
<1>3. CASE msg.msg = "closed"
  <2>1. OnMessage(m, msg) = HandleClosed(m, msg)
    BY <1>3 DEF OnMessage
  <2> QED
    BY <1>3, <2>1, ClosedHandled
<1> QED
  BY <1>1, <1>2, <1>3, MessageIs

-----------------------------------------------------------------------------
\* The view v over a monitor m.

CardsOfView == [key : Keys, text : Calls, expanded : BOOLEAN]
Spots == [at : Keys, key : Keys]

Shown(v, m) ==
    \A i \in 1 .. Len(v.cards) : \E j \in 1 .. Len(m.notes) :
        m.notes[j].key = v.cards[i].key /\ m.notes[j].text = v.cards[i].text
Complete(v, m) ==
    \A j \in 1 .. Len(m.notes) : m.notes[j].key \in KeysOf(v.cards) \cup v.closed
Placed(v) ==
    \A i \in 1 .. Len(v.layout) :
        v.layout[i].at <= Len(v.cards) /\ v.cards[v.layout[i].at].key = v.layout[i].key

Seen(v, m) ==
    /\ v \in Views /\ KeysApart(v.cards) /\ KeysOf(v.cards) \cap v.closed = {}
    /\ Shown(v, m) /\ Complete(v, m) /\ Placed(v)

LEMMA ViewIs ==
    ASSUME NEW v \in Views
    PROVE  /\ v.cards \in Seq(CardsOfView) /\ v.layout \in Seq(Spots) /\ v.closed \in SUBSET Keys
           /\ Len(v.cards) \in Nat /\ DOMAIN v.cards = 1 .. Len(v.cards)
           /\ Len(v.layout) \in Nat /\ DOMAIN v.layout = 1 .. Len(v.layout)
           /\ \A i \in 1 .. Len(v.cards) : v.cards[i] \in CardsOfView
           /\ \A i \in 1 .. Len(v.layout) : v.layout[i] \in Spots
           /\ KeysOf(v.cards) = {v.cards[i].key : i \in 1 .. Len(v.cards)}
<1>1. v.cards \in Seq(CardsOfView) /\ v.layout \in Seq(Spots) /\ v.closed \in SUBSET Keys
  BY DEF Views, CardsOfView, Spots
<1> QED
  BY <1>1, LenProperties DEF KeysOf

LEMMA ViewOf ==
    ASSUME NEW c \in Seq(CardsOfView), NEW l \in Seq(Spots), NEW o \in SUBSET Keys
    PROVE  [cards |-> c, layout |-> l, closed |-> o] \in Views
  BY DEF Views, CardsOfView, Spots

LEMMA KeysOfIs ==
    ASSUME NEW S, NEW s \in Seq(S)
    PROVE  KeysOf(s) = {s[i].key : i \in 1 .. Len(s)}
  BY LenProperties DEF KeysOf

LEMMA SeenIs ==
    ASSUME view \in Views, locker.m \in Monitors
    PROVE  Viewed <=> Seen(view, locker.m)
<1>1. DOMAIN view.cards = 1 .. Len(view.cards) /\ DOMAIN view.layout = 1 .. Len(view.layout)
  BY ViewIs
<1>2. DOMAIN locker.m.notes = 1 .. Len(locker.m.notes)
  BY MonitorIs
<1>3. CardsCurrent <=> /\ Shown(view, locker.m) /\ Complete(view, locker.m)
                       /\ KeysOf(view.cards) \cap view.closed = {}
  BY <1>1, <1>2 DEF CardsCurrent, Shown, Complete
<1>4. PressHitsDrawn <=> Placed(view)
  BY <1>1 DEF PressHitsDrawn, Placed
<1> QED
  BY <1>3, <1>4 DEF Viewed, Seen

LEMMA CardIs ==
    ASSUME NEW n \in Notes
    PROVE  Card(n) \in CardsOfView /\ Card(n).key = n.key /\ Card(n).text = n.text
<1> DEFINE same == {i \in DOMAIN view.cards : view.cards[i].key = n.key}
           e == same # {} /\ view.cards[Min(same)].expanded
<1>1. Card(n) = [key |-> n.key, text |-> n.text, expanded |-> e]
  BY DEF Card
<1>2. e \in BOOLEAN
  OBVIOUS
<1> HIDE DEF e
<1>3. Card(n) \in CardsOfView
  BY <1>1, <1>2 DEF CardsOfView, Notes
<1>4. Card(n).key = n.key /\ Card(n).text = n.text
  BY <1>1
<1> QED
  BY <1>3, <1>4

\* update() makes the cards those of the notes.
LEMMA UpdateSeen ==
    ASSUME NEW m, Whole(m)
    PROVE  Seen(Update(m.notes), m)
<1> DEFINE s == m.notes
           c == Cards(s)
           v == Update(s)
<1>1. s \in Seq(Notes) /\ Len(s) \in Nat /\ DOMAIN s = 1 .. Len(s) /\ KeysApart(s)
      /\ \A i \in 1 .. Len(s) : s[i] \in Notes
  BY MonitorIs DEF Whole
<1>2. v = [cards |-> c, layout |-> <<>>, closed |-> {}]
  BY DEF Update
<1> HIDE DEF v
<1>3. ASSUME NEW i \in 1 .. Len(s)
      PROVE  Card(s[i]) \in CardsOfView /\ Card(s[i]).key = s[i].key /\ Card(s[i]).text = s[i].text
  BY <1>1, CardIs
<1>4. c = [i \in 1 .. Len(s) |-> Card(s[i])]
  BY <1>1 DEF Cards
<1> HIDE DEF c, s
<1>5. c \in Seq(CardsOfView) /\ Len(c) = Len(s)
  BY <1>1, <1>3, <1>4
<1>6. \A i \in 1 .. Len(s) : c[i].key = s[i].key /\ c[i].text = s[i].text
  BY <1>3, <1>4
<1>7. KeysApart(c)
  BY <1>1, <1>5, <1>6 DEF KeysApart
<1>8. v.cards = c /\ v.layout = <<>> /\ v.closed = {}
  BY <1>2
<1>9. v \in Views
  <2>1. <<>> \in Seq(Spots) /\ {} \in SUBSET Keys
    OBVIOUS
  <2> QED
    BY <1>2, <1>5, <2>1, ViewOf
<1>10. Shown(v, m)
  BY <1>5, <1>6, <1>8 DEF Shown, s
<1>11. Complete(v, m)
  <2>1. KeysOf(c) = {c[i].key : i \in 1 .. Len(s)}
    BY <1>5, KeysOfIs
  <2>2. \A j \in 1 .. Len(s) : s[j].key \in KeysOf(c)
    BY <1>6, <2>1
  <2> QED
    BY <1>8, <2>2 DEF Complete, s
<1>12. Placed(v)
  BY <1>8 DEF Placed
<1> QED
  BY <1>7, <1>8, <1>9, <1>10, <1>11, <1>12 DEF Seen, v, s

\* When onChange is not called the view is right as it is.
LEMMA ShowsSeen ==
    ASSUME NEW v, NEW m, Seen(v, m), NEW m2, Shows(m, m2)
    PROVE  Seen(v, m2)
<1>1. Shown(v, m2)
  <2>1. ASSUME NEW i \in 1 .. Len(v.cards)
        PROVE  \E k \in 1 .. Len(m2.notes) :
                  m2.notes[k].key = v.cards[i].key /\ m2.notes[k].text = v.cards[i].text
    <3>1. PICK j \in 1 .. Len(m.notes) :
            m.notes[j].key = v.cards[i].key /\ m.notes[j].text = v.cards[i].text
      BY DEF Seen, Shown
    <3> QED
      BY <3>1 DEF Shows
  <2> QED
    BY <2>1 DEF Shown
<1>2. Complete(v, m2)
  <2>1. ASSUME NEW j \in 1 .. Len(m.notes) PROVE m2.notes[j].key \in KeysOf(v.cards) \cup v.closed
    <3>1. m.notes[j].key \in KeysOf(v.cards) \cup v.closed
      BY DEF Seen, Complete
    <3> QED
      BY <3>1 DEF Shows
  <2> QED
    BY <2>1 DEF Complete, Shows
<1> QED
  BY <1>1, <1>2 DEF Seen

LEMMA DrawSeen ==
    ASSUME NEW m, Seen(view, m), Draw
    PROVE  Seen(view', m)
<1> DEFINE n == Len(view.cards)
           start == Max({0, n - MaxVisible})
           l == [k \in 1 .. n - start |-> [at |-> start + k, key |-> view.cards[start + k].key]]
<1>1. view' = [view EXCEPT !.layout = l]
  BY DEF Draw
<1>2. n \in Nat /\ \A i \in 1 .. n : view.cards[i] \in CardsOfView
  BY ViewIs DEF Seen
<1>3. start \in Nat /\ start <= n
  <2>1. n - MaxVisible \in Int /\ MaxVisible \in Nat
    BY <1>2, NotificationBoundsAssumption
  <2>2. start = IF 0 >= n - MaxVisible THEN 0 ELSE n - MaxVisible
    BY <2>1, MaxOfTwo
  <2> QED
    BY <1>2, <2>1, <2>2
<1> HIDE DEF l, start
<1>4. view' = [cards |-> view.cards, layout |-> l, closed |-> view.closed]
  BY <1>1, Zenon DEF Views, Seen
<1>5. view'.cards = view.cards /\ view'.layout = l /\ view'.closed = view.closed
  BY <1>4
<1> HIDE DEF n
<1>6. ASSUME NEW k \in 1 .. n - start
      PROVE  start + k \in 1 .. n /\ start + k \in Keys /\ view.cards[start + k].key \in Keys
  <2>1. start + k \in 1 .. n /\ start + k \in Nat \ {0}
    BY <1>2, <1>3
  <2>2. view.cards[start + k] \in CardsOfView
    BY <1>2, <2>1
  <2> QED
    BY <2>1, <2>2 DEF CardsOfView, Keys
<1>7. l \in Seq(Spots) /\ Len(l) = n - start
      /\ \A k \in 1 .. n - start : l[k] = [at |-> start + k, key |-> view.cards[start + k].key]
  <2>1. \A k \in 1 .. n - start : [at |-> start + k, key |-> view.cards[start + k].key] \in Spots
    BY <1>6 DEF Spots
  <2>2. n - start \in Nat
    BY <1>2, <1>3
  <2> QED
    BY <2>1, <2>2 DEF l
<1>8. view' \in Views
  BY <1>4, <1>7, ViewIs, ViewOf DEF Seen
<1>9. \A k \in 1 .. Len(l) : l[k].at <= Len(view.cards) /\ view.cards[l[k].at].key = l[k].key
  <2>1. ASSUME NEW k \in 1 .. n - start
        PROVE  l[k].at <= n /\ view.cards[l[k].at].key = l[k].key
    <3>1. l[k].at = start + k /\ l[k].key = view.cards[start + k].key
      BY <1>7
    <3> QED
      BY <1>6, <3>1
  <2> QED
    BY <1>7, <2>1 DEF n
<1> QED
  BY <1>5, <1>8, <1>9 DEF Seen, Shown, Complete, Placed

LEMMA PressCloseSeen ==
    ASSUME NEW m, Seen(view, m), PressClose
    PROVE  Seen(view', m)
<1>1. PICK l \in Range(view.layout) :
          /\ l.at <= Len(view.cards)
          /\ view' = [cards |-> RemoveAt(view.cards, l.at), layout |-> <<>>,
                      closed |-> view.closed \cup {l.key}]
  BY DEF PressClose
<1>2. PICK c \in Seq(CardsOfView) : c = view.cards
  BY ViewIs DEF Seen
<1>3. PICK i \in 1 .. Len(view.layout) : l = view.layout[i]
  <2>1. PICK s \in Seq(Spots) : s = view.layout
    BY ViewIs DEF Seen
  <2>2. Range(s) = {s[i] : i \in 1 .. Len(s)}
    BY RangeIs
  <2> QED
    BY <2>1, <2>2
<1>4. l.at \in 1 .. Len(c) /\ c[l.at].key = l.key
  <2>1. l \in Spots
    BY <1>3, ViewIs DEF Seen
  <2>2. l.at \in Nat \ {0} /\ l.at <= Len(c)
    BY <1>1, <1>2, <2>1 DEF Spots, Keys
  <2>3. Len(c) \in Nat
    BY LenProperties
  <2> QED
    BY <1>2, <1>3, <2>2, <2>3 DEF Seen, Placed
<1>5. PICK t : t = RemoveAt(c, l.at)
  OBVIOUS
<1>6. /\ t \in Seq(CardsOfView) /\ Part(t, c)
      /\ Range(t) \subseteq {c[j] : j \in (1 .. Len(c)) \ {l.at}}
      /\ \A j \in (1 .. Len(c)) \ {l.at} : \E k \in 1 .. Len(t) : t[k] = c[j]
  <2>1. PICK x \in 1 .. Len(c) : x = l.at
    BY <1>4
  <2>2. /\ RemoveAt(c, x) \in Seq(CardsOfView) /\ Part(RemoveAt(c, x), c)
        /\ Range(RemoveAt(c, x)) \subseteq {c[j] : j \in (1 .. Len(c)) \ {x}}
        /\ \A j \in (1 .. Len(c)) \ {x} :
              \E k \in 1 .. Len(RemoveAt(c, x)) : RemoveAt(c, x)[k] = c[j]
    BY RemoveAtIs
  <2> QED
    BY <1>5, <2>1, <2>2
<1>7. KeysApart(t)
  BY <1>2, <1>6, PartIs DEF Seen
<1>8. \A k \in 1 .. Len(t) : \E j \in (1 .. Len(c)) \ {l.at} : t[k] = c[j]
  <2>1. Range(t) = {t[k] : k \in 1 .. Len(t)}
    BY <1>6, RangeIs
  <2> QED
    BY <1>6, <2>1
<1>9. view'.cards = t /\ view'.layout = <<>> /\ view'.closed = view.closed \cup {l.key}
  BY <1>1, <1>2, <1>5
<1>10. view' = [cards |-> t, layout |-> <<>>, closed |-> view.closed \cup {l.key}]
  BY <1>1, <1>2, <1>5
<1>11. view' \in Views
  <2>1. l.key \in Keys
    BY <1>3, ViewIs DEF Seen, Spots
  <2>2. <<>> \in Seq(Spots) /\ view.closed \cup {l.key} \in SUBSET Keys
    BY <2>1, ViewIs DEF Seen
  <2> QED
    BY <1>6, <1>10, <2>2, ViewOf
<1>12. Shown(view', m)
  <2>1. ASSUME NEW k \in 1 .. Len(t)
        PROVE  \E j \in 1 .. Len(m.notes) : m.notes[j].key = t[k].key /\ m.notes[j].text = t[k].text
    <3>1. PICK j \in 1 .. Len(c) : t[k] = c[j]
      BY <1>8
    <3>2. \E h \in 1 .. Len(m.notes) : m.notes[h].key = c[j].key /\ m.notes[h].text = c[j].text
      BY <1>2, <3>1 DEF Seen, Shown
    <3> QED
      BY <3>1, <3>2
  <2> QED
    BY <1>9, <2>1 DEF Shown
<1>13. /\ KeysOf(c) = {c[j].key : j \in 1 .. Len(c)}
       /\ KeysOf(t) = {t[k].key : k \in 1 .. Len(t)}
  BY <1>6, KeysOfIs
<1>14. KeysOf(t) = KeysOf(c) \ {l.key}
  <2>1. ASSUME NEW k \in 1 .. Len(t) PROVE t[k].key \in KeysOf(c) /\ t[k].key # l.key
    <3>1. PICK j \in (1 .. Len(c)) \ {l.at} : t[k] = c[j]
      BY <1>8
    <3>2. c[j].key # l.key
      BY <1>2, <1>4, <3>1 DEF Seen, KeysApart
    <3> QED
      BY <1>13, <3>1, <3>2
  <2>2. ASSUME NEW j \in 1 .. Len(c), c[j].key # l.key PROVE c[j].key \in KeysOf(t)
    <3>1. j # l.at
      BY <1>4, <2>2
    <3>2. PICK k \in 1 .. Len(t) : t[k] = c[j]
      BY <1>6, <3>1
    <3> QED
      BY <1>13, <3>2
  <2> QED
    BY <1>13, <2>1, <2>2
<1>15. Complete(view', m)
  <2>1. ASSUME NEW j \in 1 .. Len(m.notes)
        PROVE  m.notes[j].key \in KeysOf(t) \cup (view.closed \cup {l.key})
    <3>1. m.notes[j].key \in KeysOf(c) \cup view.closed
      BY <1>2 DEF Seen, Complete
    <3> QED
      BY <1>14, <3>1
  <2> QED
    BY <1>9, <2>1 DEF Complete
<1>16. KeysOf(view'.cards) \cap view'.closed = {}
  <2>1. KeysOf(c) \cap view.closed = {}
    BY <1>2 DEF Seen
  <2> QED
    BY <1>9, <1>14, <2>1
<1>17. Placed(view')
  BY <1>9 DEF Placed
<1> QED
  BY <1>7, <1>9, <1>11, <1>12, <1>15, <1>16, <1>17 DEF Seen

LEMMA PressCardSeen ==
    ASSUME NEW m, Seen(view, m), PressCard
    PROVE  Seen(view', m)
<1>1. PICK l \in Range(view.layout) :
          /\ l.at <= Len(view.cards)
          /\ view' = [view EXCEPT !.cards[l.at].expanded = ~@]
  BY DEF PressCard
<1>2. PICK c \in Seq(CardsOfView) : c = view.cards
  BY ViewIs DEF Seen
<1>3. PICK i \in 1 .. Len(view.layout) : l = view.layout[i]
  <2>1. Range(view.layout) = {view.layout[i] : i \in 1 .. Len(view.layout)}
    BY ViewIs, RangeIs DEF Seen
  <2> QED
    BY <2>1
<1>4. l.at \in 1 .. Len(c) /\ c[l.at].key = l.key /\ l.key \in Keys
  <2>1. l \in Spots
    BY <1>3, ViewIs DEF Seen
  <2>2. l.at \in Nat \ {0} /\ l.at <= Len(c) /\ l.key \in Keys
    BY <1>1, <1>2, <2>1 DEF Spots, Keys
  <2>3. Len(c) \in Nat
    BY LenProperties
  <2> QED
    BY <1>2, <1>3, <2>2, <2>3 DEF Seen, Placed
<1>5. PICK x : x = [c[l.at] EXCEPT !.expanded = ~c[l.at].expanded]
  OBVIOUS
<1>6. c[l.at] \in CardsOfView
  BY <1>4, LenProperties
<1>7. x \in CardsOfView
  BY <1>5, <1>6, Zenon DEF CardsOfView
<1>8. x.key = c[l.at].key
  BY <1>5, <1>6, Zenon DEF CardsOfView
<1>9. x.text = c[l.at].text
  BY <1>5, <1>6, Zenon DEF CardsOfView
<1>10. PICK t : t = [c EXCEPT ![l.at] = x]
  OBVIOUS
<1>11. view' = [view EXCEPT !.cards = t]
  BY <1>1, <1>2, <1>5, <1>10, Zenon
<1>12. view' = [cards |-> t, layout |-> view.layout, closed |-> view.closed]
  BY <1>11, Zenon DEF Seen, Views
<1>13. view'.cards = t /\ view'.layout = view.layout /\ view'.closed = view.closed
  BY <1>12
<1>14. /\ t \in Seq(CardsOfView) /\ Len(t) = Len(c)
       /\ \A j \in 1 .. Len(c) : t[j] = IF j = l.at THEN x ELSE c[j]
  BY <1>4, <1>7, <1>10, ExceptSeq
<1>15. \A j \in 1 .. Len(c) : t[j].key = c[j].key /\ t[j].text = c[j].text
  BY <1>8, <1>9, <1>14
<1>16. view' \in Views
  <2>1. view.closed \in SUBSET Keys /\ view.layout \in Seq(Spots)
    BY ViewIs DEF Seen
  <2> QED
    BY <1>12, <1>14, <2>1, ViewOf
<1>17. KeysApart(t)
  BY <1>2, <1>14, <1>15 DEF Seen, KeysApart
<1>18. Shown(view', m)
  <2>1. ASSUME NEW k \in 1 .. Len(t)
        PROVE  \E j \in 1 .. Len(m.notes) : m.notes[j].key = t[k].key /\ m.notes[j].text = t[k].text
    <3>1. k \in 1 .. Len(c) /\ t[k].key = c[k].key /\ t[k].text = c[k].text
      BY <1>14, <1>15
    <3>2. \E j \in 1 .. Len(m.notes) : m.notes[j].key = c[k].key /\ m.notes[j].text = c[k].text
      BY <1>2, <3>1 DEF Seen, Shown
    <3> QED
      BY <3>1, <3>2
  <2> QED
    BY <1>13, <2>1 DEF Shown
<1>19. KeysOf(t) = KeysOf(c)
  <2>1. KeysOf(c) = {c[j].key : j \in 1 .. Len(c)} /\ KeysOf(t) = {t[k].key : k \in 1 .. Len(t)}
    BY <1>14, KeysOfIs
  <2>2. Len(t) = Len(c) /\ \A k \in 1 .. Len(c) : t[k].key = c[k].key
    BY <1>14, <1>15
  <2> QED
    BY ONLY <2>1, <2>2
<1>20. Complete(view', m) /\ KeysOf(view'.cards) \cap view'.closed = {}
  BY <1>2, <1>13, <1>19 DEF Seen, Complete
<1>21. Placed(view')
  <2>1. ASSUME NEW k \in 1 .. Len(view.layout)
        PROVE  view.layout[k].at <= Len(t) /\ t[view.layout[k].at].key = view.layout[k].key
    <3>1. view.layout[k].at <= Len(c) /\ c[view.layout[k].at].key = view.layout[k].key
      BY <1>2 DEF Seen, Placed
    <3>2. view.layout[k].at \in Nat \ {0} /\ Len(c) \in Nat
      BY ViewIs, LenProperties DEF Seen, Spots, Keys
    <3>3. view.layout[k].at \in 1 .. Len(c)
      BY <3>1, <3>2
    <3> QED
      BY <1>14, <1>15, <3>1, <3>3
  <2> QED
    BY <1>13, <2>1 DEF Placed
<1> QED
  BY <1>13, <1>16, <1>17, <1>18, <1>20, <1>21 DEF Seen

-----------------------------------------------------------------------------
\* The parts of the invariant, each of one process.

Talks(m, f, td, told, limit) ==
    /\ Whole(m) /\ m.changed = FALSE
    /\ Talk(Range(m.notes), Range(m.pending), f, td, told, limit)
Follows(m, f, td, d) == Following(Range(m.notes), Range(m.pending), f, td, d)

WorldOK ==
    /\ calls \in 0 .. MaxCalls /\ toDaemon \in Seq(Messages)
    /\ DaemonTypeOK(daemon) /\ Counted
RecorderOK(r, td, d, limit) ==
    /\ r \in Recorders /\ Talks(r.m, r.feed, td, d.told, limit)
    /\ r.life = "on" => Follows(r.m, r.feed, td, d)
\* Of the notes it has made itself a locker has missed nothing either; there are none until it
\* listens.
FollowsOwn(l, f, td, d) == Following(Own(l), Range(l.m.pending), f, td, d)
Alone(l, td, d) ==
    /\ l.phase \in {"off", "fetched"} => Own(l) = {} /\ Range(l.m.pending) = {} /\ l.feed = <<>>
    /\ l.phase = "monitoring" => FollowsOwn(l, l.feed, td, d)
LockerOK(l, td, d, limit) ==
    /\ l \in Lockers /\ Talks(l.m, l.feed, td, d.told, limit)
    /\ l.phase = "off" => l.m = EmptyMonitor
    /\ Alone(l, td, d)

LEMMA InvIs ==
    Inv <=> /\ WorldOK
            /\ RecorderOK(recorder, toDaemon, daemon, calls)
            /\ LockerOK(locker, toDaemon, daemon, calls)
            /\ Seen(view, locker.m)
<1>1. ASSUME Inv
      PROVE  /\ WorldOK
             /\ RecorderOK(recorder, toDaemon, daemon, calls)
             /\ LockerOK(locker, toDaemon, daemon, calls)
             /\ Seen(view, locker.m)
  <2>1. WorldOK
    BY <1>1 DEF Inv, TypeOK, WorldOK
  <2>2. RecorderOK(recorder, toDaemon, daemon, calls)
    BY <1>1, WholeIs DEF Inv, TypeOK, Mirror, RecorderOK, Talks, Follows
  <2>3. LockerOK(locker, toDaemon, daemon, calls)
    <3>1. Alone(locker, toDaemon, daemon)
      BY <1>1, Zenon DEF Inv, Alone, FollowsOwn
    <3> QED
      BY <1>1, <3>1, WholeIs DEF Inv, TypeOK, Mirror, LockerOK, Talks
  <2>4. Seen(view, locker.m)
    BY <1>1, SeenIs DEF Inv, TypeOK, MonitorTypeOK
  <2> QED
    BY <2>1, <2>2, <2>3, <2>4
<1>2. ASSUME WorldOK,
             RecorderOK(recorder, toDaemon, daemon, calls),
             LockerOK(locker, toDaemon, daemon, calls),
             Seen(view, locker.m)
      PROVE  Inv
  <2>1. MonitorTypeOK(recorder.m) /\ KeysApart(recorder.m.notes) /\ KeysApart(recorder.m.pending)
    BY <1>2, WholeIs DEF RecorderOK, Talks
  <2>2. MonitorTypeOK(locker.m) /\ KeysApart(locker.m.notes) /\ KeysApart(locker.m.pending)
    BY <1>2, WholeIs DEF LockerOK, Talks
  <2>3. Viewed
    BY <1>2, <2>2, SeenIs DEF Seen, MonitorTypeOK
  <2>4. \A i \in DOMAIN view.cards : view.cards[i].key < locker.m.nextKey
    <3>1. DOMAIN view.cards = 1 .. Len(view.cards)
      BY <1>2, ViewIs DEF Seen
    <3>2. ASSUME NEW i \in 1 .. Len(view.cards) PROVE view.cards[i].key < locker.m.nextKey
      BY <1>2 DEF Seen, Shown, LockerOK, Talks, Whole
    <3> QED
      BY <3>1, <3>2
  <2>5. TypeOK
    BY <1>2, <2>1, <2>2, <2>4 DEF TypeOK, WorldOK, RecorderOK, LockerOK, Seen
  <2>6. Mirror(recorder.m, recorder.feed) /\ Mirror(locker.m, locker.feed)
    BY <1>2, <2>1, <2>2 DEF Mirror, RecorderOK, LockerOK, Talks
  <2> QED
    BY <1>2, <2>3, <2>5, <2>6, Zenon DEF Inv, WorldOK, RecorderOK, LockerOK, Alone, Follows, FollowsOwn
<1> QED
  BY <1>1, <1>2

LEMMA InvNext ==
    (Inv <=> /\ WorldOK
             /\ RecorderOK(recorder, toDaemon, daemon, calls)
             /\ LockerOK(locker, toDaemon, daemon, calls)
             /\ Seen(view, locker.m))'
BY InvIs, PTL

LEMMA AppendLonger ==
    ASSUME NEW f \in Seq(Messages), NEW e \in Messages
    PROVE  Longer(f, Append(f, e), e) /\ Append(f, e) \in Seq(Messages)
<1>1. Len(f) \in Nat
  BY LenProperties
<1> QED
  BY <1>1, AppendIs DEF Longer

LEMMA TailRest ==
    ASSUME NEW f \in Seq(Messages), f # <<>>
    PROVE  /\ Rest(f, Tail(f)) /\ Tail(f) \in Seq(Messages) /\ Head(f) = f[1] /\ f[1] \in Messages
           /\ 1 \in 1 .. Len(f)
<1>1. /\ Head(f) = f[1] /\ f[1] \in Messages
      /\ Tail(f) \in Seq(Messages) /\ Len(f) \in Nat \ {0} /\ Len(Tail(f)) = Len(f) - 1
      /\ \A i \in 1 .. Len(Tail(f)) : i + 1 \in 1 .. Len(f) /\ Tail(f)[i] = f[i + 1]
  BY TailIs
<1>2. \A i \in 1 .. Len(f) : f[i] \in Messages
  BY LenProperties
<1>3. 1 \in 1 .. Len(f)
  BY <1>1
<1> QED
  BY <1>1, <1>2, <1>3 DEF Rest

LEMMA RangeOfEmpty == Range(<<>>) = {} /\ Len(<<>>) = 0 /\ 1 .. 0 = {}
<1>0. <<>> \in Seq({})
  BY EmptySeq
<1>1. PICK e \in Seq({}) : e = <<>>
  BY <1>0, Zenon
<1>2. Range(e) = {}
  BY RangeIs
<1>3. Range(<<>>) = {}
  BY <1>1, <1>2
<1>4. Len(<<>>) = 0
  OBVIOUS
<1>5. 1 .. 0 = {}
  OBVIOUS
<1> QED
  BY <1>3, <1>4, <1>5

LEMMA FeedIs ==
    ASSUME NEW r \in Recorders, NEW f \in Seq(Messages)
    PROVE  /\ [r EXCEPT !.feed = f] \in Recorders /\ [r EXCEPT !.feed = f].feed = f
           /\ [r EXCEPT !.feed = f].life = r.life /\ [r EXCEPT !.feed = f].m = r.m
<1>1. [r EXCEPT !.feed = f] \in Recorders
  BY Zenon DEF Recorders
<1>2. [r EXCEPT !.feed = f].feed = f
  BY Zenon DEF Recorders
<1>3. [r EXCEPT !.feed = f].life = r.life
  BY Zenon DEF Recorders
<1>4. [r EXCEPT !.feed = f].m = r.m
  BY Zenon DEF Recorders
<1> QED
  BY <1>1, <1>2, <1>3, <1>4

LEMMA LockerFeedIs ==
    ASSUME NEW l \in Lockers, NEW f \in Seq(Messages)
    PROVE  /\ [l EXCEPT !.feed = f] \in Lockers /\ [l EXCEPT !.feed = f].feed = f
           /\ [l EXCEPT !.feed = f].phase = l.phase /\ [l EXCEPT !.feed = f].m = l.m
           /\ [l EXCEPT !.feed = f].given = l.given
<1>1. [l EXCEPT !.feed = f] \in Lockers
  BY Zenon DEF Lockers
<1>2. [l EXCEPT !.feed = f].feed = f
  BY Zenon DEF Lockers
<1>3. [l EXCEPT !.feed = f].phase = l.phase
  BY Zenon DEF Lockers
<1>4. [l EXCEPT !.feed = f].m = l.m
  BY Zenon DEF Lockers
<1>5. [l EXCEPT !.feed = f].given = l.given
  BY Zenon DEF Lockers
<1> QED
  BY <1>1, <1>2, <1>3, <1>4, <1>5

\* What is said of a monitor's notes is said of any part of them ...
LEMMA TalkSome ==
    ASSUME NEW N, NEW P, NEW f, NEW td, NEW told, NEW limit, Talk(N, P, f, td, told, limit),
           NEW N2, N2 \subseteq N
    PROVE  Talk(N2, P, f, td, told, limit)
<1>1. Known(N2, f, td, told, limit)
  BY DEF Talk, Known
<1>2. Answering(N2, P, f)
  <2>1. ASSUME NEW j, NEW id, Fits(N, f, j, id) PROVE Fits(N2, f, j, id)
    BY <2>1 DEF Fits, Unused
  <2>2. ASSUME NEW j \in 1 .. Len(f), f[j].msg = "return"
        PROVE  FitsNote(N2, P, f, j) /\ FitsCall(N2, f, j)
    <3>1. FitsNote(N, P, f, j) /\ FitsCall(N, f, j)
      BY <2>2 DEF Talk, Answering
    <3>2. FitsNote(N2, P, f, j)
      BY <2>1, <3>1 DEF FitsNote
    <3>3. FitsCall(N2, f, j)
      BY <2>1, <3>1 DEF FitsCall
    <3> QED
      BY <3>2, <3>3
  <2> QED
    BY <2>2 DEF Answering
<1>3. Waiting(N2, P, f, td)
  BY DEF Talk, Waiting
<1>4. Quoting(N2, P) /\ Apart(N2)
  BY DEF Talk, Quoting, Apart
<1> QED
  BY <1>1, <1>2, <1>3, <1>4 DEF Talk

\* ... and a message does to the notes above a key what it does to all.
Above(N, given) == {n \in N : n.key > given}

LEMMA ReadsSome ==
    ASSUME NEW N, NEW P, NEW msg, NEW N2, NEW P2, Reads(N, P, msg, N2, P2), NEW given
    PROVE  Reads(Above(N, given), P, msg, Above(N2, given), P2)
<1> DEFINE M == Above(N, given)
           M2 == Above(N2, given)
<1>1. /\ M \subseteq N /\ M2 \subseteq N2
      /\ \A o \in M2, n \in N : o.key = n.key => n \in M
      /\ \A o \in M2 : o \in N => o \in M
  BY DEF Above
<1> HIDE DEF M, M2
<1>2. CASE Ignores(N, P, msg, N2, P2)
  <2>1. M2 \subseteq M
    BY <1>1, <1>2 DEF Ignores
  <2> QED
    BY <1>2, <2>1 DEF Ignores, Reads, M, M2
<1>3. CASE Rewords(N, P, msg, N2, P2)
  <2>1. \A o \in M2 : \E n \in M :
            /\ o.key = n.key /\ o.daemonId = n.daemonId
            /\ o.text = IF n.daemonId = msg.replaces THEN msg.call ELSE n.text
    BY <1>1, <1>3 DEF Rewords
  <2>2. Rewords(M, P, msg, M2, P2)
    BY <1>3, <2>1 DEF Rewords
  <2> QED
    BY <2>2 DEF Reads, M, M2
<1>4. CASE Pushes(N, P, msg, N2, P2)
  <2>1. PICK k \in Keys : /\ (\A n \in N : n.key # k) /\ (\A p \in P : p.key # k)
                          /\ N2 \subseteq N \cup {Note(k, msg.replaces, msg.call)}
                          /\ P2 \subseteq P \cup {[call |-> msg.call, key |-> k]}
    BY <1>4 DEF Pushes
  <2>2. M2 \subseteq M \cup {Note(k, msg.replaces, msg.call)}
    BY <1>1, <2>1
  <2>3. \A n \in M : n.key # k
    BY <1>1, <2>1
  <2>4. msg.replaces # 0 => \A n \in M : n.daemonId # msg.replaces
    BY <1>1, <1>4 DEF Pushes
  <2>5. Pushes(M, P, msg, M2, P2)
    BY <1>4, <2>1, <2>2, <2>3, <2>4 DEF Pushes
  <2> QED
    BY <2>5 DEF Reads, M, M2
<1>5. CASE Learns(N, P, msg, N2, P2)
  <2>1. PICK p \in P :
            /\ p.call = msg.call
            /\ \A o \in N2 : \E n \in N :
                  /\ o.key = n.key /\ o.text = n.text
                  /\ o.daemonId = IF n.key = p.key THEN msg.id ELSE n.daemonId
            /\ P2 \subseteq P \ {p}
    BY <1>5 DEF Learns
  <2>2. \A o \in M2 : \E n \in M :
            /\ o.key = n.key /\ o.text = n.text
            /\ o.daemonId = IF n.key = p.key THEN msg.id ELSE n.daemonId
    BY <1>1, <2>1
  <2>3. Learns(M, P, msg, M2, P2)
    BY <1>5, <2>1, <2>2 DEF Learns
  <2> QED
    BY <2>3 DEF Reads, M, M2
<1>6. CASE Removes(N, P, msg, N2, P2)
  <2>1. M2 \subseteq M
    BY <1>1, <1>6 DEF Removes
  <2>2. Removes(M, P, msg, M2, P2)
    BY <1>1, <1>6, <2>1 DEF Removes
  <2> QED
    BY <2>2 DEF Reads, M, M2
<1> QED
  BY <1>2, <1>3, <1>4, <1>5, <1>6 DEF Reads

\* A monitor reads the first message of its feed.
LEMMA DrainIs ==
    ASSUME NEW m, NEW f \in Seq(Messages), f # <<>>, NEW td, NEW told, NEW limit,
           Talks(m, f, td, told, limit)
    PROVE  /\ Talks(Settled(OnMessage(m, Head(f))), Tail(f), td, told, limit)
           /\ \A d : Follows(m, f, td, d) => Follows(Settled(OnMessage(m, Head(f))), Tail(f), td, d)
           /\ \A given, d :
                 Following(Above(Range(m.notes), given), Range(m.pending), f, td, d) =>
                     Following(Above(Range(Settled(OnMessage(m, Head(f))).notes), given),
                               Range(Settled(OnMessage(m, Head(f))).pending), Tail(f), td, d)
           /\ Whole(OnMessage(m, Head(f)))
           /\ OnMessage(m, Head(f)).changed \/ Shows(m, OnMessage(m, Head(f)))
<1> DEFINE n == OnMessage(m, Head(f))
           m2 == Settled(n)
           g == Tail(f)
<1>1. Rest(f, g) /\ g \in Seq(Messages) /\ Head(f) = f[1] /\ f[1] \in Messages
  BY TailRest
<1>2. Handled(m, f[1], n)
  BY <1>1, MessageHandled DEF Talks, Talk
<1> HIDE DEF n, g
<1>3. /\ m2 \in Monitors /\ m2.notes = n.notes /\ m2.pending = n.pending
      /\ m2.nextKey = n.nextKey /\ m2.changed = FALSE
  BY <1>2, SettledIs DEF Handled, Whole
<1> HIDE DEF m2
<1>4. Whole(m2)
  BY <1>2, <1>3 DEF Handled, Whole
<1>5. Reads(Range(m.notes), Range(m.pending), f[1], Range(m2.notes), Range(m2.pending))
  BY <1>2, <1>3 DEF Handled
<1>6. Talk(Range(m2.notes), Range(m2.pending), g, td, told, limit)
  BY <1>1, <1>5, TalkReads DEF Talks
<1>7. \A d : Follows(m, f, td, d) => Follows(m2, g, td, d)
  BY <1>1, <1>5, FollowingReads DEF Follows, Talks
<1>8. ASSUME NEW given, NEW d,
             Following(Above(Range(m.notes), given), Range(m.pending), f, td, d)
      PROVE  Following(Above(Range(m2.notes), given), Range(m2.pending), g, td, d)
  <2>1. Reads(Above(Range(m.notes), given), Range(m.pending), f[1],
              Above(Range(m2.notes), given), Range(m2.pending))
    BY <1>5, ReadsSome
  <2>2. Talk(Above(Range(m.notes), given), Range(m.pending), f, td, told, limit)
    <3>1. Above(Range(m.notes), given) \subseteq Range(m.notes)
      BY DEF Above
    <3> QED
      BY <3>1, TalkSome DEF Talks
  <2> QED
    BY <1>1, <1>8, <2>1, <2>2, FollowingReads
<1> QED
  BY <1>2, <1>3, <1>4, <1>6, <1>7, <1>8 DEF Handled, Talks, n, m2, g

\* A feed is lost, perhaps with the notes.
LEMMA TalkLost ==
    ASSUME NEW N, NEW P, NEW f, NEW td, NEW told, NEW limit, Talk(N, P, f, td, told, limit),
           NEW N2, N2 \subseteq N, NEW P2, P2 \subseteq P
    PROVE  Talk(N2, P2, <<>>, td, told, limit)
<1>1. PICK e : e = <<>> /\ Len(e) = 0 /\ 1 .. Len(e) = {}
  BY RangeOfEmpty
<1>2. Known(N2, e, td, told, limit)
  BY <1>1 DEF Talk, Known
<1>3. Once(P2, e, limit)
  BY <1>1 DEF Talk, Once
<1>4. Answering(N2, P2, e)
  BY <1>1 DEF Answering
<1>5. Waiting(N2, P2, e, td)
  BY <1>1 DEF Talk, Waiting
<1>6. Quoting(N2, P2) /\ Apart(N2)
  BY DEF Talk, Quoting, Apart
<1> QED
  BY <1>1, <1>2, <1>3, <1>4, <1>5, <1>6 DEF Talk

LEMMA EmptyIs ==
    /\ Whole(EmptyMonitor) /\ EmptyMonitor.changed = FALSE
    /\ Range(EmptyMonitor.notes) = {} /\ Range(EmptyMonitor.pending) = {}
    /\ Len(EmptyMonitor.notes) = 0
    /\ Settled(EmptyMonitor) = EmptyMonitor
<1>1. /\ EmptyMonitor.notes = <<>> /\ EmptyMonitor.pending = <<>>
      /\ EmptyMonitor.nextKey = 1 /\ EmptyMonitor.changed = FALSE
  BY DEF EmptyMonitor
<1>2. EmptyMonitor \in Monitors
  <2>1. <<>> \in Seq(Notes) /\ <<>> \in Seq(Pendings) /\ 1 \in Nat \ {0} /\ FALSE \in BOOLEAN
    OBVIOUS
  <2> QED
    BY <2>1, MonitorOf DEF EmptyMonitor
<1>3. Whole(EmptyMonitor)
  BY <1>1, <1>2, LimitsAssumption DEF Whole, KeysApart
<1>4. Settled(EmptyMonitor) = EmptyMonitor
  <2>1. PICK m : m = Settled(EmptyMonitor)
    OBVIOUS
  <2>2. /\ m \in Monitors /\ m.notes = <<>> /\ m.pending = <<>>
        /\ m.nextKey = 1 /\ m.changed = FALSE
    BY <1>1, <1>2, <2>1, SettledIs
  <2>3. m = [notes |-> m.notes, pending |-> m.pending, nextKey |-> m.nextKey, changed |-> m.changed]
    BY <2>2, MonitorFields
  <2>4. m = [notes |-> <<>>, pending |-> <<>>, nextKey |-> 1, changed |-> FALSE]
    BY <2>2, <2>3, Zenon
  <2> QED
    BY <2>1, <2>4, Zenon DEF EmptyMonitor
<1> QED
  BY <1>1, <1>3, <1>4, RangeOfEmpty

\* What the recorder lists is a mirror for the locker, under other keys.
LEMMA SeededIs ==
    ASSUME NEW r, NEW f, NEW td, NEW told, NEW limit, Talks(r, f, td, told, limit)
    PROVE  /\ Talks(Settled(Seeded(r.notes)), <<>>, td, told, limit)
           /\ Whole(Seeded(r.notes))
           /\ Seeded(r.notes).changed \/ Len(Seeded(r.notes).notes) = 0
<1> DEFINE s == r.notes
           own == [i \in DOMAIN s |-> Note(i, s[i].daemonId, s[i].text)]
           m == Seeded(s)
           m2 == Settled(m)
<1>1. /\ s \in Seq(Notes) /\ Len(s) \in Nat /\ DOMAIN s = 1 .. Len(s)
      /\ KeysApart(s) /\ \A i \in 1 .. Len(s) : s[i] \in Notes
  BY MonitorIs DEF Talks, Whole
<1>2. Range(s) = {s[i] : i \in 1 .. Len(s)}
  BY <1>1, RangeIs
<1>3. m = [notes |-> Held(own), pending |-> <<>>, nextKey |-> Len(s) + 1, changed |-> s # <<>>]
  BY DEF Seeded
<1>4. own = [i \in 1 .. Len(s) |-> Note(i, s[i].daemonId, s[i].text)]
  BY <1>1
<1> HIDE DEF own, m, m2
<1>5. ASSUME NEW i \in 1 .. Len(s)
      PROVE  /\ own[i] \in Notes /\ own[i].key = i /\ own[i].daemonId = s[i].daemonId
  <2>1. own[i] = Note(i, s[i].daemonId, s[i].text)
    BY <1>4
  <2>2. i \in Nat \ {0} /\ s[i].daemonId \in Ids \cup {0} /\ s[i].text \in Calls
    BY <1>1 DEF Notes
  <2> QED
    BY <2>1, <2>2 DEF Note, Notes, Keys
<1>6. own \in Seq(Notes) /\ Len(own) = Len(s)
  <2>1. \A i \in 1 .. Len(s) : Note(i, s[i].daemonId, s[i].text) \in Notes
    BY <1>4, <1>5
  <2> QED
    BY <1>1, <1>4, <2>1
<1>7. KeysApart(own)
  BY <1>5, <1>6 DEF KeysApart
<1>8. Range(own) = {own[i] : i \in 1 .. Len(s)}
  BY <1>6, RangeIs
<1>9. PICK t : t = Held(own)
  OBVIOUS
<1>10. /\ t \in Seq(Notes) /\ Len(t) <= MaxHeld /\ Part(t, own)
       /\ Range(t) \subseteq Range(own) /\ KeysApart(t) /\ Range(t) = {t[i] : i \in 1 .. Len(t)}
  <2>1. t \in Seq(Notes) /\ Len(t) <= MaxHeld /\ Part(t, own)
    BY <1>6, <1>9, HeldIs
  <2> QED
    BY <1>6, <1>7, <2>1, PartIs, RangeIs
<1>11. m.notes = t /\ m.pending = <<>> /\ m.nextKey = Len(s) + 1
  BY <1>3, <1>9
<1>12. m \in Monitors
  <2>1. <<>> \in Seq(Pendings) /\ Len(s) + 1 \in Nat \ {0} /\ (s # <<>>) \in BOOLEAN
    BY <1>1
  <2>2. PICK b \in BOOLEAN : b = (s # <<>>)
    BY <2>1
  <2>3. m = [notes |-> t, pending |-> <<>>, nextKey |-> Len(s) + 1, changed |-> b]
    BY <1>3, <1>9, <2>2, Zenon
  <2> QED
    BY <1>10, <2>1, <2>3, MonitorOf
<1>13. \A i \in 1 .. Len(t) : t[i].key < Len(s) + 1
  <2>1. \A n \in Range(own) : n.key < Len(s) + 1
    BY <1>1, <1>5, <1>8
  <2> QED
    BY <1>10, <2>1
<1>14. Whole(m)
  BY <1>10, <1>11, <1>12, <1>13, LimitsAssumption DEF Whole, KeysApart
<1>15. /\ m2 \in Monitors /\ m2.notes = t /\ m2.pending = <<>>
       /\ m2.nextKey = Len(s) + 1 /\ m2.changed = FALSE
  BY <1>11, <1>12, SettledIs DEF m2
<1>16. Whole(m2)
  BY <1>11, <1>14, <1>15 DEF Whole
<1>17. Range(m2.pending) = {}
  BY <1>15, RangeOfEmpty
<1>18. Talk(Range(t), {}, <<>>, td, told, limit)
  <2>1. PICK e : e = <<>> /\ Len(e) = 0 /\ 1 .. Len(e) = {}
    BY RangeOfEmpty
  <2>2. \A n \in Range(t) : \E i \in 1 .. Len(s) :
            n.key = i /\ n.daemonId = s[i].daemonId /\ s[i] \in Range(s)
    BY <1>2, <1>5, <1>8, <1>10
  <2>3. Known(Range(t), e, td, told, limit)
    BY <2>1, <2>2 DEF Talks, Talk, Known
  <2>4. Apart(Range(t))
    <3>1. \A i, j \in 1 .. Len(s) : s[i].daemonId = s[j].daemonId /\ s[i].daemonId # 0 => i = j
      BY <1>1, <1>2 DEF Talks, Talk, Apart, KeysApart
    <3> QED
      BY <2>2, <3>1 DEF Apart
  <2>5. Once({}, e, limit) /\ Answering(Range(t), {}, e)
    BY <2>1 DEF Once, Answering
  <2>6. Waiting(Range(t), {}, e, td) /\ Quoting(Range(t), {})
    BY <2>1 DEF Waiting, Quoting
  <2> QED
    BY <2>1, <2>3, <2>4, <2>5, <2>6 DEF Talk
<1>19. m.changed \/ Len(m.notes) = 0
  <2>1. CASE s = <<>>
    <3>1. Range(own) = {}
      BY <1>1, <1>8, <2>1, RangeOfEmpty
    <3>2. Len(t) \in Nat
      BY ONLY <1>10, LenProperties
    <3>3. {t[i] : i \in 1 .. Len(t)} = {}
      BY ONLY <1>10, <3>1
    <3>4. 1 .. Len(t) = {}
      BY ONLY <3>3
    <3> QED
      BY <1>11, <3>2, <3>4
  <2>2. CASE s # <<>>
    BY <1>3, <2>2
  <2> QED
    BY <2>1, <2>2
<1> QED
  BY <1>14, <1>15, <1>16, <1>17, <1>18, <1>19 DEF Talks, m, m2

-----------------------------------------------------------------------------
\* The actions.

\* A copy for each monitor that listens.
LEMMA Copies ==
    ASSUME NEW msg \in Messages, Broadcast(msg),
           recorder \in Recorders, recorder.feed \in Seq(Messages),
           locker \in Lockers, locker.feed \in Seq(Messages)
    PROVE  /\ recorder' \in Recorders /\ recorder'.life = recorder.life /\ recorder'.m = recorder.m
           /\ recorder'.feed \in Seq(Messages)
           /\ \/ recorder.life # "on" /\ recorder'.feed = recorder.feed
              \/ Longer(recorder.feed, recorder'.feed, msg)
           /\ locker' \in Lockers /\ locker'.phase = locker.phase /\ locker'.m = locker.m
           /\ locker'.given = locker.given
           /\ \/ locker.phase # "monitoring" /\ locker'.feed = locker.feed
              \/ Longer(locker.feed, locker'.feed, msg)
<1> DEFINE f == Append(recorder.feed, msg)
           g == Append(locker.feed, msg)
<1>1. /\ recorder' = IF recorder.life = "on" THEN [recorder EXCEPT !.feed = f] ELSE recorder
      /\ locker' = IF locker.phase = "monitoring" THEN [locker EXCEPT !.feed = g] ELSE locker
  BY Zenon DEF Broadcast
<1>2. /\ f \in Seq(Messages) /\ Longer(recorder.feed, f, msg)
      /\ g \in Seq(Messages) /\ Longer(locker.feed, g, msg)
  BY AppendLonger
<1> HIDE DEF f, g
<1>3. PICK r : r = [recorder EXCEPT !.feed = f]
  OBVIOUS
<1>4. r \in Recorders /\ r.feed = f /\ r.life = recorder.life /\ r.m = recorder.m
  BY <1>2, <1>3, FeedIs, Zenon
<1>5. PICK l : l = [locker EXCEPT !.feed = g]
  OBVIOUS
<1>6. l \in Lockers /\ l.feed = g /\ l.phase = locker.phase /\ l.m = locker.m
      /\ l.given = locker.given
  BY <1>2, <1>5, LockerFeedIs, Zenon
<1>7. recorder' = IF recorder.life = "on" THEN r ELSE recorder
  BY <1>1, <1>3, Zenon
<1>8. locker' = IF locker.phase = "monitoring" THEN l ELSE locker
  BY <1>1, <1>5, Zenon
<1> QED
  BY <1>2, <1>4, <1>6, <1>7, <1>8

LEMMA FeedsIn ==
    ASSUME Inv
    PROVE  /\ recorder \in Recorders /\ recorder.feed \in Seq(Messages)
           /\ locker \in Lockers /\ locker.feed \in Seq(Messages)
           /\ \A i \in 1 .. Len(recorder.feed) : recorder.feed[i] \in Messages
           /\ \A i \in 1 .. Len(locker.feed) : locker.feed[i] \in Messages
           /\ \A p \in Range(recorder.m.pending) : p.call \in Calls
           /\ \A p \in Range(locker.m.pending) : p.call \in Calls
<1>1. recorder \in Recorders /\ locker \in Lockers /\ Whole(recorder.m) /\ Whole(locker.m)
  BY InvIs DEF RecorderOK, LockerOK, Talks
<1>2. recorder.feed \in Seq(Messages) /\ locker.feed \in Seq(Messages)
  BY <1>1 DEF Recorders, Lockers
<1>3. \A p \in Range(recorder.m.pending) : p \in Pendings
  BY <1>1, MonitorIs, RangeIs DEF Whole
<1>4. \A p \in Range(locker.m.pending) : p \in Pendings
  BY <1>1, MonitorIs, RangeIs DEF Whole
<1> QED
  BY <1>1, <1>2, <1>3, <1>4, LenProperties DEF Pendings

\* The world goes on: a locker that does not listen stays as it is.
LEMMA AloneStep ==
    ASSUME NEW l, NEW td, NEW d, Alone(l, td, d), NEW l2, NEW td2, NEW d2,
           l2.phase = l.phase, l2.m = l.m, l2.given = l.given,
           l.phase # "monitoring" => l2.feed = l.feed,
           l.phase = "monitoring" => FollowsOwn(l, l2.feed, td2, d2)
    PROVE  Alone(l2, td2, d2)
<1>1. Own(l2) = Own(l)
  BY DEF Own
<1> QED
  BY <1>1 DEF Alone, FollowsOwn

LEMMA OwnTalk ==
    ASSUME NEW l, NEW td, NEW told, NEW limit, Talks(l.m, l.feed, td, told, limit)
    PROVE  Talk(Own(l), Range(l.m.pending), l.feed, td, told, limit)
<1>1. Own(l) \subseteq Range(l.m.notes)
  BY DEF Own
<1> QED
  BY <1>1, TalkSome DEF Talks

LEMMA AppNotifiesKeepsInv == Inv /\ AppNotifies => Inv'
<1> SUFFICES ASSUME Inv, AppNotifies PROVE Inv'
  OBVIOUS
<1>0. WorldOK /\ RecorderOK(recorder, toDaemon, daemon, calls)
      /\ LockerOK(locker, toDaemon, daemon, calls) /\ Seen(view, locker.m)
  BY InvIs
<1>1. PICK replaces \in {0} \cup daemon.told, queued \in BOOLEAN :
          /\ Broadcast(Notify(calls', replaces, queued))
          /\ toDaemon' = Append(toDaemon, Notify(calls', replaces, queued))
  BY DEF AppNotifies
<1>2. calls' = calls + 1 /\ calls \in Nat /\ calls' \in Calls /\ UNCHANGED <<daemon, view>>
      /\ calls' \in 0 .. MaxCalls
  BY <1>0, NotificationBoundsAssumption DEF AppNotifies, WorldOK, Calls
<1>3. PICK c : c = Notify(calls', replaces, queued)
  OBVIOUS
<1>4. c \in Messages /\ c.msg = "notify" /\ c.call = calls + 1 /\ c.replaces \in daemon.told \cup {0}
  <2>1. replaces \in Ids \cup {0}
    BY <1>0 DEF WorldOK, DaemonTypeOK
  <2>2. c = [msg |-> "notify", call |-> calls', replaces |-> replaces, queued |-> queued]
    BY <1>3 DEF Notify
  <2> QED
    BY <1>2, <2>1, <2>2 DEF Messages
<1>5. toDaemon' \in Seq(Messages) /\ Longer(toDaemon, toDaemon', c)
  BY <1>0, <1>1, <1>3, <1>4, AppendLonger DEF WorldOK
<1>6. Broadcast(c)
  BY <1>1, <1>3
<1>7. /\ recorder' \in Recorders /\ recorder'.life = recorder.life /\ recorder'.m = recorder.m
      /\ \/ recorder.life # "on" /\ recorder'.feed = recorder.feed
         \/ Longer(recorder.feed, recorder'.feed, c)
      /\ locker' \in Lockers /\ locker'.phase = locker.phase /\ locker'.m = locker.m
      /\ locker'.given = locker.given
      /\ \/ locker.phase # "monitoring" /\ locker'.feed = locker.feed
         \/ Longer(locker.feed, locker'.feed, c)
  BY <1>4, <1>6, FeedsIn, Copies
<1>8. \A x \in 1 .. Len(toDaemon) : toDaemon[x] \in Messages
  BY <1>0, LenProperties DEF WorldOK
<1>9. WorldOK'
  <2>1. Len(toDaemon') = Len(toDaemon) + 1 /\ Len(toDaemon) \in Nat
    BY <1>5 DEF Longer
  <2>2. Cardinality(daemon.ids) \in Nat
    BY <1>0, FS_CardinalityType, PlacesFinite, NotificationBoundsAssumption
       DEF WorldOK, DaemonTypeOK, Ids
  <2>3. Counted'
    BY <1>0, <1>2, <2>1, <2>2 DEF WorldOK, Counted
  <2> QED
    BY <1>0, <1>2, <1>5, <2>3 DEF WorldOK, DaemonTypeOK
<1>10. RecorderOK(recorder, toDaemon, daemon, calls)'
  <2>1. Talk(Range(recorder.m.notes), Range(recorder.m.pending), recorder'.feed, toDaemon',
             daemon.told, calls + 1)
    BY <1>0, <1>2, <1>4, <1>5, <1>7, <1>8, FeedsIn, TalkNotify DEF RecorderOK, Talks
  <2>2. ASSUME recorder.life = "on"
        PROVE  Following(Range(recorder.m.notes), Range(recorder.m.pending), recorder'.feed,
                         toDaemon', daemon)
    BY <1>0, <1>4, <1>5, <1>7, <2>2, FollowingNotify DEF RecorderOK, Talks, Follows, Talk
  <2> QED
    BY <1>0, <1>2, <1>7, <2>1, <2>2 DEF RecorderOK, Talks, Follows
<1>11. LockerOK(locker, toDaemon, daemon, calls)'
  <2>1. Talk(Range(locker.m.notes), Range(locker.m.pending), locker'.feed, toDaemon',
             daemon.told, calls + 1)
    BY <1>0, <1>2, <1>4, <1>5, <1>7, <1>8, FeedsIn, TalkNotify DEF LockerOK, Talks
  <2>2. ASSUME locker.phase = "monitoring"
        PROVE  FollowsOwn(locker, locker'.feed, toDaemon', daemon)
    BY <1>0, <1>4, <1>5, <1>7, <2>2, FollowingNotify, OwnTalk
       DEF LockerOK, Alone, FollowsOwn, Talk
  <2>3. Alone(locker', toDaemon', daemon')
    <3>1. locker.phase # "monitoring" => locker'.feed = locker.feed
      BY <1>6, Zenon DEF Broadcast
    <3>2. locker.phase = "monitoring" => FollowsOwn(locker, locker'.feed, toDaemon', daemon')
      BY <1>2, <2>2
    <3>3. Alone(locker, toDaemon, daemon)
      BY <1>0 DEF LockerOK
    <3> QED
      BY <1>7, <3>1, <3>2, <3>3, AloneStep, Zenon
  <2> QED
    BY <1>0, <1>2, <1>7, <2>1, <2>3 DEF LockerOK, Talks
<1>12. Seen(view, locker.m)'
  BY <1>0, <1>2, <1>7
<1> QED
  BY <1>9, <1>10, <1>11, <1>12, InvNext

LEMMA TalkTold ==
    ASSUME NEW N, NEW P, NEW f, NEW td, NEW told, NEW limit, Talk(N, P, f, td, told, limit),
           NEW told2, told \subseteq told2
    PROVE  Talk(N, P, f, td, told2, limit)
<1>1. Known(N, f, td, told2, limit)
  BY DEF Talk, Known
<1> QED
  BY <1>1 DEF Talk

\* What the daemon's answer is to a monitor that is sent it or not.
LEMMA TalkSilent ==
    ASSUME NEW N, NEW P, NEW f, NEW td, NEW told, NEW limit, Talk(N, P, f, td, told, limit),
           NEW td2, Rest(td, td2), NEW told2, told \subseteq told2
    PROVE  Talk(N, P, f, td2, told2, limit)
<1>1. Talk(N, P, f, td, told2, limit)
  BY TalkTold
<1> QED
  BY <1>1, TalkTail

LEMMA TalkAnswers ==
    ASSUME NEW N, NEW P, NEW f, NEW td, NEW told, NEW limit, Talk(N, P, f, td, told, limit),
           NEW td2, Rest(td, td2), NEW e, e.msg = "return", e.call = td[1].call, e.id # 0,
           td[1].replaces # 0 => e.id = td[1].replaces,
           td[1].replaces = 0 => e.id \notin told,
           NEW f2, Longer(f, f2, e)
    PROVE  Talk(N, P, f2, td2, told \cup {e.id}, limit)
<1>1. 1 \in 1 .. Len(td)
  BY DEF Rest
<1>2. Talk(N, P, f2, td, told \cup {e.id}, limit)
  BY <1>1, TalkReturn
<1> QED
  BY <1>2, TalkTail

\* The daemon counts on.
LEMMA NextId ==
    ASSUME NEW ids, ids = 1 .. Cardinality(ids), Cardinality(ids) \in Nat,
           NEW id \in 1 .. Cardinality(ids) + 1
    PROVE  /\ ids \cup {id} = 1 .. Cardinality(ids \cup {id})
           /\ Cardinality(ids \cup {id}) \in Nat
           /\ Cardinality(ids \cup {id}) <= Cardinality(ids) + 1
<1> DEFINE n == Cardinality(ids)
<1>1. CASE id \in ids
  <2>1. PICK next : next = ids \cup {id}
    OBVIOUS
  <2>2. next = ids
    BY <1>1, <2>1
  <2>3. Cardinality(ids) <= Cardinality(ids) + 1
    OBVIOUS
  <2> QED
    BY <2>1, <2>2, <2>3, Zenon
<1>2. CASE id \notin ids
  <2>1. PICK k \in Nat : k = n
    OBVIOUS
  <2>2. id = k + 1
    BY <1>2, <2>1
  <2>3. ids \cup {id} = 1 .. k + 1
    BY <2>1, <2>2
  <2>4. Cardinality(1 .. k + 1) = k + 1
    <3>1. 1 \in Int /\ k + 1 \in Int
      BY <2>1
    <3>2. Cardinality(1 .. k + 1) = IF 1 > k + 1 THEN 0 ELSE (k + 1) - 1 + 1
      BY ONLY <3>1, FS_Interval
    <3> QED
      BY <2>1, <3>2
  <2>5. Cardinality(ids \cup {id}) = k + 1
    BY <2>3, <2>4
  <2> QED
    BY <2>1, <2>3, <2>5
<1> QED
  BY <1>1, <1>2

LEMMA DaemonAnswersKeepsInv == Inv /\ DaemonAnswers => Inv'
<1> SUFFICES ASSUME Inv, DaemonAnswers PROVE Inv'
  OBVIOUS
<1> DEFINE c == toDaemon[1]
           n == Cardinality(daemon.ids)
<1>0. WorldOK /\ RecorderOK(recorder, toDaemon, daemon, calls)
      /\ LockerOK(locker, toDaemon, daemon, calls) /\ Seen(view, locker.m)
  BY InvIs
<1>1. /\ Rest(toDaemon, toDaemon') /\ toDaemon' \in Seq(Messages) /\ Head(toDaemon) = c
      /\ c \in Messages /\ 1 \in 1 .. Len(toDaemon)
  BY <1>0, TailRest DEF DaemonAnswers, WorldOK
<1>2. /\ c.msg = "notify" /\ c.replaces \in daemon.told \cup {0} /\ c.call \in Calls
      /\ c.queued \in BOOLEAN
  <2>1. c.msg = "notify" /\ c.replaces \in daemon.told \cup {0}
    BY <1>0, <1>1 DEF RecorderOK, Talks, Talk, Known
  <2> QED
    BY <1>1, <2>1, MessageIs
<1> HIDE DEF c
<1>3. /\ n \in Nat /\ daemon.ids = 1 .. n /\ n + Len(toDaemon) <= calls /\ calls \in Nat
      /\ calls <= MaxCalls /\ daemon.ids \subseteq Ids /\ Len(toDaemon) \in Nat \ {0}
  <2>1. n \in Nat
    BY <1>0, PlacesFinite, NotificationBoundsAssumption DEF WorldOK, DaemonTypeOK, Ids
  <2> QED
    BY <1>0, <1>1, <2>1, NotificationBoundsAssumption DEF WorldOK, DaemonTypeOK, Counted, Rest
<1>4. PICK id : id = IF c.replaces # 0 THEN c.replaces ELSE n + 1
  OBVIOUS
<1>5. PICK before : before = IF id \in daemon.ids THEN daemon.content[id] ELSE 0
  OBVIOUS
<1>6. PICK replies \in BOOLEAN :
        /\ daemon' = [ids |-> daemon.ids \cup {id},
                      told |-> daemon.told \cup (IF replies THEN {id} ELSE {}),
                      shown |-> daemon.shown \cup {id},
                      undismissed |-> IF c.queued THEN daemon.undismissed \cup {id}
                                      ELSE daemon.undismissed,
                      content |-> [i \in daemon.ids \cup {id} |->
                                      IF i # id THEN daemon.content[i]
                                      ELSE IF c.queued THEN c.call ELSE before]]
        /\ IF replies THEN Broadcast(Return(c.call, id)) ELSE UNCHANGED <<recorder, locker>>
  BY <1>1, <1>4, <1>5, Zenon DEF DaemonAnswers
<1>7. UNCHANGED <<calls, view>>
  BY DEF DaemonAnswers
<1>8. PICK content : content = [i \in daemon.ids \cup {id} |->
                                  IF i # id THEN daemon.content[i]
                                  ELSE IF c.queued THEN c.call ELSE before]
  OBVIOUS
<1>9. /\ daemon'.ids = daemon.ids \cup {id}
      /\ daemon'.told = daemon.told \cup (IF replies THEN {id} ELSE {})
      /\ daemon'.shown = daemon.shown \cup {id}
      /\ daemon'.undismissed = IF c.queued THEN daemon.undismissed \cup {id} ELSE daemon.undismissed
      /\ daemon'.content = content
      /\ daemon' = [ids |-> daemon'.ids, told |-> daemon'.told, shown |-> daemon'.shown,
                    undismissed |-> daemon'.undismissed, content |-> daemon'.content]
  BY <1>6, <1>8
<1>10. id \in 1 .. n + 1 /\ id \in Ids /\ id # 0 /\ (c.replaces = 0 => id \notin daemon.ids)
       /\ (c.replaces # 0 => id \in daemon.ids)
  <2>1. CASE c.replaces # 0
    <3>1. id \in daemon.ids
      BY <1>0, <1>2, <1>4, <2>1 DEF WorldOK, DaemonTypeOK
    <3> QED
      BY <1>3, <2>1, <3>1 DEF Ids
  <2>2. CASE c.replaces = 0
    <3>1. id = n + 1
      BY <1>4, <2>2
    <3>2. n + 1 <= MaxCalls /\ MaxCalls \in Nat
      BY <1>3, NotificationBoundsAssumption
    <3> QED
      BY <1>3, <2>2, <3>1, <3>2 DEF Ids
  <2> QED
    BY <2>1, <2>2
<1>11. content \in [daemon.ids \cup {id} -> Calls \cup {0}]
  <2>1. before \in Calls \cup {0}
    BY <1>0, <1>5 DEF WorldOK, DaemonTypeOK
  <2>2. ASSUME NEW i \in daemon.ids \cup {id}
        PROVE  (IF i # id THEN daemon.content[i] ELSE IF c.queued THEN c.call ELSE before)
                   \in Calls \cup {0}
    BY <1>0, <1>2, <2>1 DEF WorldOK, DaemonTypeOK
  <2> QED
    BY <1>8, <2>2
<1>12. WorldOK'
  <2>1. DaemonTypeOK(daemon')
    BY <1>0, <1>9, <1>10, <1>11 DEF WorldOK, DaemonTypeOK
  <2>2. Len(toDaemon') = Len(toDaemon) - 1
    BY <1>1 DEF Rest
  <2>3. /\ daemon'.ids = 1 .. Cardinality(daemon'.ids)
        /\ Cardinality(daemon'.ids) \in Nat /\ Cardinality(daemon'.ids) <= n + 1
    BY <1>3, <1>9, <1>10, NextId
  <2>4. Counted'
    BY <1>3, <1>7, <2>2, <2>3 DEF Counted
  <2> QED
    BY <1>0, <1>1, <1>7, <2>1, <2>4 DEF WorldOK
<1>13. Answers(daemon, c, id, daemon')
  <2>1. IF c.replaces # 0 THEN id = c.replaces ELSE id \notin daemon.ids
    BY <1>4, <1>10
  <2>2. \A i \in daemon.ids : i # id => content[i] = daemon.content[i]
    BY <1>8
  <2>3. content[id] = IF c.queued THEN c.call ELSE before
    BY <1>8
  <2> QED
    BY <1>5, <1>9, <2>1, <2>2, <2>3 DEF Answers
<1>14. PICK e : e = Return(c.call, id)
  OBVIOUS
<1>15. e \in Messages
  BY <1>2, <1>10, <1>14 DEF Return, Messages
<1>16. /\ recorder' \in Recorders /\ recorder'.life = recorder.life /\ recorder'.m = recorder.m
       /\ \/ ~replies /\ recorder'.feed = recorder.feed
          \/ replies /\ recorder.life # "on" /\ recorder'.feed = recorder.feed
          \/ replies /\ Longer(recorder.feed, recorder'.feed, e)
       /\ locker' \in Lockers /\ locker'.phase = locker.phase /\ locker'.m = locker.m
       /\ locker'.given = locker.given
       /\ \/ ~replies /\ locker'.feed = locker.feed
          \/ replies /\ locker.phase # "monitoring" /\ locker'.feed = locker.feed
          \/ replies /\ Longer(locker.feed, locker'.feed, e)
  <2>1. CASE replies
    <3>1. Broadcast(e)
      BY <1>6, <1>14, <2>1
    <3> QED
      BY <1>15, <2>1, <3>1, FeedsIn, Copies
  <2>2. CASE ~replies
    <3>1. UNCHANGED <<recorder, locker>>
      BY <1>6, <2>2
    <3> QED
      BY <2>2, <3>1, FeedsIn
  <2> QED
    BY <2>1, <2>2
<1>17. daemon.told \subseteq daemon.ids /\ 0 \notin daemon.ids
  BY <1>0, <1>3 DEF WorldOK, DaemonTypeOK
<1>18. id \in daemon.told => c.replaces # 0
  BY <1>10, <1>17
<1>22. /\ e.msg = "return" /\ e.call = toDaemon[1].call /\ e.id = id /\ e.id # 0
       /\ (toDaemon[1].replaces # 0 => e.id = toDaemon[1].replaces)
       /\ (toDaemon[1].replaces = 0 => e.id \notin daemon.told)
  BY <1>4, <1>10, <1>14, <1>18 DEF c, Return
<1>19. RecorderOK(recorder, toDaemon, daemon, calls)'
  <2>1. Talk(Range(recorder.m.notes), Range(recorder.m.pending), recorder'.feed, toDaemon',
             daemon'.told, calls)
    <3>1. \/ recorder'.feed = recorder.feed /\ daemon.told \subseteq daemon'.told
          \/ Longer(recorder.feed, recorder'.feed, e) /\ daemon'.told = daemon.told \cup {id}
      BY <1>9, <1>16
    <3>2. Talk(Range(recorder.m.notes), Range(recorder.m.pending), recorder.feed, toDaemon,
               daemon.told, calls)
      BY <1>0 DEF RecorderOK, Talks
    <3>3. CASE recorder'.feed = recorder.feed /\ daemon.told \subseteq daemon'.told
      BY <1>1, <3>2, <3>3, TalkSilent
    <3>4. CASE Longer(recorder.feed, recorder'.feed, e) /\ daemon'.told = daemon.told \cup {id}
      <4>1. Talk(Range(recorder.m.notes), Range(recorder.m.pending), recorder'.feed, toDaemon',
                 daemon.told \cup {e.id}, calls)
        BY <1>1, <1>22, <3>2, <3>4, TalkAnswers
      <4> QED
        BY <1>22, <3>4, <4>1
    <3> QED
      BY <3>1, <3>3, <3>4
  <2>2. ASSUME recorder.life = "on"
        PROVE  Following(Range(recorder.m.notes), Range(recorder.m.pending), recorder'.feed,
                         toDaemon', daemon')
    <3>1. recorder'.feed = recorder.feed \/ Longer(recorder.feed, recorder'.feed, Return(c.call, id))
      BY <1>14, <1>16
    <3>2. /\ Talk(Range(recorder.m.notes), Range(recorder.m.pending), recorder.feed, toDaemon,
                  daemon.told, calls)
          /\ Following(Range(recorder.m.notes), Range(recorder.m.pending), recorder.feed,
                       toDaemon, daemon)
      BY <1>0, <2>2 DEF RecorderOK, Talks, Follows
    <3> QED
      BY <1>1, <1>10, <1>13, <1>17, <3>1, <3>2, FollowingAnswers DEF c
  <2> QED
    BY <1>0, <1>7, <1>16, <2>1, <2>2 DEF RecorderOK, Talks, Follows
<1>20. LockerOK(locker, toDaemon, daemon, calls)'
  <2>1. Talk(Range(locker.m.notes), Range(locker.m.pending), locker'.feed, toDaemon',
             daemon'.told, calls)
    <3>1. \/ locker'.feed = locker.feed /\ daemon.told \subseteq daemon'.told
          \/ Longer(locker.feed, locker'.feed, e) /\ daemon'.told = daemon.told \cup {id}
      BY <1>9, <1>16
    <3>2. Talk(Range(locker.m.notes), Range(locker.m.pending), locker.feed, toDaemon,
               daemon.told, calls)
      BY <1>0 DEF LockerOK, Talks
    <3>3. CASE locker'.feed = locker.feed /\ daemon.told \subseteq daemon'.told
      BY <1>1, <3>2, <3>3, TalkSilent
    <3>4. CASE Longer(locker.feed, locker'.feed, e) /\ daemon'.told = daemon.told \cup {id}
      <4>1. Talk(Range(locker.m.notes), Range(locker.m.pending), locker'.feed, toDaemon',
                 daemon.told \cup {e.id}, calls)
        BY <1>1, <1>22, <3>2, <3>4, TalkAnswers
      <4> QED
        BY <1>22, <3>4, <4>1
    <3> QED
      BY <3>1, <3>3, <3>4
  <2>2. ASSUME locker.phase = "monitoring"
        PROVE  FollowsOwn(locker, locker'.feed, toDaemon', daemon')
    <3>1. locker'.feed = locker.feed \/ Longer(locker.feed, locker'.feed, Return(c.call, id))
      BY <1>14, <1>16
    <3>2. /\ Talk(Own(locker), Range(locker.m.pending), locker.feed, toDaemon, daemon.told, calls)
          /\ Following(Own(locker), Range(locker.m.pending), locker.feed, toDaemon, daemon)
      BY <1>0, <2>2, OwnTalk DEF LockerOK, Alone, FollowsOwn
    <3> QED
      BY <1>1, <1>10, <1>13, <1>17, <3>1, <3>2, FollowingAnswers DEF FollowsOwn, c
  <2>3. locker.phase # "monitoring" => locker'.feed = locker.feed
    BY <1>0, <1>6, <1>16 DEF Broadcast
  <2>4. Alone(locker', toDaemon', daemon')
    BY <1>0, <1>16, <2>2, <2>3, AloneStep DEF LockerOK
  <2> QED
    BY <1>0, <1>7, <1>16, <2>1, <2>4 DEF LockerOK, Talks
<1>21. Seen(view, locker.m)'
  BY <1>0, <1>7, <1>16
<1> QED
  BY <1>12, <1>19, <1>20, <1>21, InvNext

LEMMA DaemonClosesKeepsInv == Inv /\ DaemonCloses => Inv'
<1> SUFFICES ASSUME Inv, DaemonCloses PROVE Inv'
  OBVIOUS
<1>0. WorldOK /\ RecorderOK(recorder, toDaemon, daemon, calls)
      /\ LockerOK(locker, toDaemon, daemon, calls) /\ Seen(view, locker.m)
  BY InvIs
<1>1. PICK id \in daemon.shown, reason \in Reasons :
          /\ daemon' = [daemon EXCEPT !.shown = @ \ {id},
                            !.undismissed = IF reason \in {Dismissed, ByCall}
                                            THEN @ \ {id} ELSE @]
          /\ Broadcast(Closed(id, reason))
  BY DEF DaemonCloses
<1>2. UNCHANGED <<calls, toDaemon, view>>
  BY DEF DaemonCloses
<1>3. PICK e : e = Closed(id, reason)
  OBVIOUS
<1>4. e \in Messages /\ e.msg = "closed" /\ e.id = id /\ e.reason = reason
  <2>1. id \in Ids
    BY <1>0 DEF WorldOK, DaemonTypeOK
  <2> QED
    BY <1>3, <2>1 DEF Closed, Messages
<1>5. Broadcast(e)
  BY <1>1, <1>3
<1>6. /\ recorder' \in Recorders /\ recorder'.life = recorder.life /\ recorder'.m = recorder.m
      /\ \/ recorder.life # "on" /\ recorder'.feed = recorder.feed
         \/ Longer(recorder.feed, recorder'.feed, e)
      /\ locker' \in Lockers /\ locker'.phase = locker.phase /\ locker'.m = locker.m
      /\ locker'.given = locker.given
      /\ \/ locker.phase # "monitoring" /\ locker'.feed = locker.feed
         \/ Longer(locker.feed, locker'.feed, e)
  BY <1>4, <1>5, FeedsIn, Copies
<1>7. PICK left : left = IF reason \in {Dismissed, ByCall} THEN daemon.undismissed \ {id}
                         ELSE daemon.undismissed
  OBVIOUS
<1>8. daemon' = [ids |-> daemon.ids, told |-> daemon.told, shown |-> daemon.shown \ {id},
                 undismissed |-> left, content |-> daemon.content]
  <2>1. daemon' = [daemon EXCEPT !.shown = daemon.shown \ {id}, !.undismissed = left]
    BY <1>1, <1>7, Zenon
  <2>2. daemon = [ids |-> daemon.ids, told |-> daemon.told, shown |-> daemon.shown,
                  undismissed |-> daemon.undismissed, content |-> daemon.content]
    BY <1>0 DEF WorldOK, DaemonTypeOK
  <2> QED
    BY <2>1, <2>2, Zenon
<1>9. /\ daemon'.ids = daemon.ids /\ daemon'.told = daemon.told /\ daemon'.content = daemon.content
      /\ daemon'.shown = daemon.shown \ {id} /\ daemon'.undismissed = left
      /\ daemon' = [ids |-> daemon'.ids, told |-> daemon'.told, shown |-> daemon'.shown,
                    undismissed |-> daemon'.undismissed, content |-> daemon'.content]
  BY <1>8
<1>10. WorldOK'
  <2>1. left \subseteq daemon.undismissed
    BY <1>7
  <2>2. DaemonTypeOK(daemon')
    BY <1>0, <1>9, <2>1 DEF WorldOK, DaemonTypeOK
  <2>3. Counted'
    BY <1>0, <1>2, <1>9 DEF WorldOK, Counted
  <2> QED
    BY <1>0, <1>2, <2>2, <2>3 DEF WorldOK
<1>11. \A i \in daemon.undismissed : ~Touches(e, i) => i \in daemon'.undismissed
  BY <1>4, <1>7, <1>9 DEF Touches
<1>12. RecorderOK(recorder, toDaemon, daemon, calls)'
  <2>1. Talk(Range(recorder.m.notes), Range(recorder.m.pending), recorder'.feed, toDaemon,
             daemon.told, calls)
    BY <1>0, <1>4, <1>6, TalkClosed DEF RecorderOK, Talks
  <2>2. ASSUME recorder.life = "on"
        PROVE  Following(Range(recorder.m.notes), Range(recorder.m.pending), recorder'.feed,
                         toDaemon, daemon')
    BY <1>0, <1>4, <1>6, <1>9, <1>11, <2>2, FollowingClosed DEF RecorderOK, Talks, Follows, Talk
  <2> QED
    BY <1>0, <1>2, <1>6, <1>9, <2>1, <2>2 DEF RecorderOK, Talks, Follows
<1>13. LockerOK(locker, toDaemon, daemon, calls)'
  <2>1. Talk(Range(locker.m.notes), Range(locker.m.pending), locker'.feed, toDaemon,
             daemon.told, calls)
    BY <1>0, <1>4, <1>6, TalkClosed DEF LockerOK, Talks
  <2>2. ASSUME locker.phase = "monitoring"
        PROVE  FollowsOwn(locker, locker'.feed, toDaemon, daemon')
    BY <1>0, <1>4, <1>6, <1>9, <1>11, <2>2, FollowingClosed, OwnTalk
       DEF LockerOK, Alone, FollowsOwn, Talk
  <2>3. Alone(locker', toDaemon', daemon')
    <3>1. locker.phase # "monitoring" => locker'.feed = locker.feed
      BY <1>5, Zenon DEF Broadcast
    <3>2. locker.phase = "monitoring" => FollowsOwn(locker, locker'.feed, toDaemon', daemon')
      BY <1>2, <2>2
    <3>3. Alone(locker, toDaemon, daemon)
      BY <1>0 DEF LockerOK
    <3> QED
      BY <1>6, <3>1, <3>2, <3>3, AloneStep, Zenon
  <2> QED
    BY <1>0, <1>2, <1>6, <1>9, <2>1, <2>3 DEF LockerOK, Talks
<1>14. Seen(view, locker.m)'
  BY <1>0, <1>2, <1>6
<1> QED
  BY <1>10, <1>12, <1>13, <1>14, InvNext

LEMMA FollowingEmpty ==
    ASSUME NEW td, NEW d
    PROVE  Following({}, {}, <<>>, td, d)
<1>1. PICK e : e = <<>> /\ Len(e) = 0 /\ 1 .. Len(e) = {}
  BY RangeOfEmpty
<1>2. SaysNotes({}, e, td, d) /\ SaysCalls(e, td, d) /\ SaysReplies({}, {}, e, td, d)
  BY <1>1 DEF SaysNotes, SaysCalls, SaysReplies
<1> QED
  BY <1>1, <1>2 DEF Following

LEMMA RecorderKeepsInv == Inv /\ Recorder => Inv'
<1> SUFFICES ASSUME Inv, Recorder PROVE Inv'
  OBVIOUS
<1>0. WorldOK /\ RecorderOK(recorder, toDaemon, daemon, calls)
      /\ LockerOK(locker, toDaemon, daemon, calls) /\ Seen(view, locker.m)
  BY InvIs
<1>1. UNCHANGED <<calls, toDaemon, daemon, locker, view>>
  BY DEF Recorder, RecorderStarts, RecorderDies, RecorderLosesMonitor, RecorderDrains
<1>2. WorldOK'
  BY <1>0, <1>1 DEF WorldOK, Counted
<1>3. LockerOK(locker, toDaemon, daemon, calls)'
  BY <1>0, <1>1
<1>4. Seen(view, locker.m)'
  BY <1>0, <1>1
<1>5. recorder \in Recorders /\ EmptyMonitor \in Monitors /\ <<>> \in Seq(Messages)
  BY <1>0, EmptyIs DEF RecorderOK, Whole
<1>6. Talks(EmptyMonitor, <<>>, toDaemon, daemon.told, calls)
  <2>1. Talk(Range(recorder.m.notes), Range(recorder.m.pending), recorder.feed, toDaemon,
             daemon.told, calls)
    BY <1>0 DEF RecorderOK, Talks
  <2>2. Talk({}, {}, <<>>, toDaemon, daemon.told, calls)
    BY <2>1, TalkLost
  <2> QED
    BY <2>2, EmptyIs DEF Talks
<1>7. RecorderOK(recorder, toDaemon, daemon, calls)'
  <2>1. CASE RecorderStarts
    <3>1. recorder' = [life |-> "on", starts |-> recorder.starts + 1, from |-> calls,
                       feed |-> <<>>, m |-> EmptyMonitor]
      BY <2>1 DEF RecorderStarts
    <3>2. recorder.starts + 1 \in 0 .. MaxStarts /\ calls \in 0 .. MaxCalls
      BY <1>0, <1>5, <2>1, NotificationBoundsAssumption DEF RecorderStarts, Recorders, WorldOK
    <3>3. recorder' \in Recorders /\ recorder'.m = EmptyMonitor /\ recorder'.feed = <<>>
      BY <1>5, <3>1, <3>2 DEF Recorders
    <3>4. Follows(EmptyMonitor, <<>>, toDaemon, daemon)
      BY EmptyIs, FollowingEmpty DEF Follows
    <3> QED
      BY <1>1, <1>6, <3>3, <3>4 DEF RecorderOK
  <2>2. CASE RecorderDies
    <3>1. recorder' = [recorder EXCEPT !.life = "off", !.feed = <<>>, !.m = EmptyMonitor]
      BY <2>2 DEF RecorderDies
    <3>2. recorder' = [life |-> "off", starts |-> recorder.starts, from |-> recorder.from,
                       feed |-> <<>>, m |-> EmptyMonitor]
      BY <1>5, <3>1, Zenon DEF Recorders
    <3>3. recorder.starts \in 0 .. MaxStarts /\ recorder.from \in 0 .. MaxCalls
      BY <1>5 DEF Recorders
    <3>4. /\ recorder' \in Recorders /\ recorder'.m = EmptyMonitor /\ recorder'.feed = <<>>
          /\ recorder'.life # "on"
      BY <1>5, <3>2, <3>3 DEF Recorders
    <3> QED
      BY <1>1, <1>6, <3>4 DEF RecorderOK
  <2>3. CASE RecorderLosesMonitor
    <3>1. recorder' = [recorder EXCEPT !.life = "deaf", !.feed = <<>>]
      BY <2>3 DEF RecorderLosesMonitor
    <3>2. recorder' = [life |-> "deaf", starts |-> recorder.starts, from |-> recorder.from,
                       feed |-> <<>>, m |-> recorder.m]
      BY <1>5, <3>1, Zenon DEF Recorders
    <3>3. recorder.starts \in 0 .. MaxStarts /\ recorder.from \in 0 .. MaxCalls /\ recorder.m \in Monitors
      BY <1>5 DEF Recorders
    <3>4. /\ recorder' \in Recorders /\ recorder'.m = recorder.m /\ recorder'.feed = <<>>
          /\ recorder'.life # "on"
      BY <1>5, <3>2, <3>3 DEF Recorders
    <3>5. Talk(Range(recorder.m.notes), Range(recorder.m.pending), recorder.feed, toDaemon,
               daemon.told, calls)
      BY <1>0 DEF RecorderOK, Talks
    <3>6. Talks(recorder.m, <<>>, toDaemon, daemon.told, calls)
      BY <1>0, <3>5, TalkLost DEF RecorderOK, Talks
    <3> QED
      BY <1>1, <3>4, <3>6 DEF RecorderOK
  <2>4. CASE RecorderDrains
    <3>1. PICK n : n = Settled(OnMessage(recorder.m, Head(recorder.feed)))
      OBVIOUS
    <3>2. recorder.feed # <<>> /\ recorder.feed \in Seq(Messages)
      BY <2>4, FeedsIn DEF RecorderDrains
    <3>3. recorder' = [recorder EXCEPT !.m = n, !.feed = Tail(recorder.feed)]
      BY <2>4, <3>1, Zenon DEF RecorderDrains
    <3>4. Talks(recorder.m, recorder.feed, toDaemon, daemon.told, calls)
      BY <1>0 DEF RecorderOK
    <3>5. Talks(n, Tail(recorder.feed), toDaemon, daemon.told, calls)
      BY <3>1, <3>2, <3>4, DrainIs
    <3>6. recorder.life = "on" => Follows(n, Tail(recorder.feed), toDaemon, daemon)
      BY <1>0, <3>1, <3>2, <3>4, DrainIs DEF RecorderOK
    <3>7. n \in Monitors /\ Tail(recorder.feed) \in Seq(Messages)
      BY <3>2, <3>5, TailRest DEF Talks, Whole
    <3>8. recorder' = [life |-> recorder.life, starts |-> recorder.starts, from |-> recorder.from,
                       feed |-> Tail(recorder.feed), m |-> n]
      BY <1>5, <3>3, Zenon DEF Recorders
    <3>9. /\ recorder.starts \in 0 .. MaxStarts /\ recorder.from \in 0 .. MaxCalls
          /\ recorder.life \in {"off", "on", "deaf"}
      BY <1>5 DEF Recorders
    <3>10. /\ recorder' \in Recorders /\ recorder'.m = n /\ recorder'.feed = Tail(recorder.feed)
           /\ recorder'.life = recorder.life
      <4>1. recorder' \in Recorders
        BY <3>7, <3>8, <3>9, Zenon DEF Recorders
      <4>2. recorder'.m = n /\ recorder'.feed = Tail(recorder.feed) /\ recorder'.life = recorder.life
        BY <3>8
      <4> QED
        BY <4>1, <4>2
    <3> QED
      BY <1>1, <3>5, <3>6, <3>10 DEF RecorderOK
  <2> QED
    BY <2>1, <2>2, <2>3, <2>4 DEF Recorder
<1> QED
  BY <1>2, <1>3, <1>4, <1>7, InvNext

\* The callback, if it was called, brings the view up to date with a monitor of the same notes.
LEMMA ChangedSeen ==
    ASSUME NEW m0, Seen(view, m0), NEW m, Whole(m), Changed(m), m.changed \/ Shows(m0, m),
           NEW m2, m2.notes = m.notes
    PROVE  Seen(view', m2)
<1>1. CASE m.changed
  <2>1. view' = Update(m.notes)
    BY <1>1 DEF Changed
  <2>2. Seen(view', m)
    BY <2>1, UpdateSeen
  <2>3. Shows(m, m2)
    BY DEF Shows
  <2> QED
    BY <2>2, <2>3, ShowsSeen
<1>2. CASE ~m.changed
  <2>1. view' = view
    BY <1>2 DEF Changed
  <2>2. Shows(m0, m2)
    BY <1>2 DEF Shows
  <2> QED
    BY <2>1, <2>2, ShowsSeen
<1> QED
  BY <1>1, <1>2

LEMMA FetchesKeepsInv == Inv /\ LockerFetches => Inv'
<1> SUFFICES ASSUME Inv, LockerFetches PROVE Inv'
  OBVIOUS
<1>0. WorldOK /\ RecorderOK(recorder, toDaemon, daemon, calls)
      /\ LockerOK(locker, toDaemon, daemon, calls) /\ Seen(view, locker.m)
  BY InvIs
<1>1. UNCHANGED <<calls, toDaemon, daemon, recorder>> /\ locker.phase = "off"
  BY DEF LockerFetches
<1>2. WorldOK' /\ RecorderOK(recorder, toDaemon, daemon, calls)'
  BY <1>0, <1>1 DEF WorldOK, Counted
<1>3. PICK answered \in {recorder.life # "off", FALSE} :
        \E m : /\ m = IF answered THEN Seeded(List) ELSE EmptyMonitor
              /\ locker' = [phase |-> "fetched", seeded |-> answered,
                            given |-> m.nextKey - 1, feed |-> <<>>, m |-> Settled(m)]
              /\ Changed(m)
  BY Zenon DEF LockerFetches
<1>4. answered \in BOOLEAN
  OBVIOUS
<1>5. PICK m : /\ m = IF answered THEN Seeded(List) ELSE EmptyMonitor
               /\ locker' = [phase |-> "fetched", seeded |-> answered,
                            given |-> m.nextKey - 1, feed |-> <<>>, m |-> Settled(m)]
               /\ Changed(m)
  BY <1>3
<1>6. Talks(recorder.m, recorder.feed, toDaemon, daemon.told, calls)
  BY <1>0 DEF RecorderOK
<1>7. Whole(m) /\ Talks(Settled(m), <<>>, toDaemon, daemon.told, calls)
      /\ (m.changed \/ Len(m.notes) = 0)
  <2>1. CASE answered
    <3>1. m = Seeded(recorder.m.notes)
      BY <1>5, <2>1 DEF List
    <3> QED
      BY <1>6, <3>1, SeededIs
  <2>2. CASE ~answered
    <3>1. m = EmptyMonitor
      BY <1>5, <2>2
    <3>2. Talk({}, {}, <<>>, toDaemon, daemon.told, calls)
      BY <1>6, TalkLost DEF Talks
    <3> QED
      BY <3>1, <3>2, EmptyIs, RangeOfEmpty DEF Talks
  <2> QED
    BY <1>4, <2>1, <2>2
<1>8. PICK n : n = Settled(m)
  OBVIOUS
<1>9. n \in Monitors /\ n.notes = m.notes
  BY <1>7, <1>8, SettledIs DEF Whole
<1>10. LockerOK(locker, toDaemon, daemon, calls)'
  <2>1. locker' = [phase |-> "fetched", seeded |-> answered, given |-> m.nextKey - 1,
                   feed |-> <<>>, m |-> n]
    BY <1>5, <1>8
  <2>2. <<>> \in Seq(Messages)
    OBVIOUS
  <2>3. locker' \in Lockers
    <3>1. m.nextKey - 1 \in Nat
      BY <1>7, MonitorIs DEF Whole
    <3> QED
      BY <1>4, <1>9, <2>1, <2>2, <3>1 DEF Lockers
  <2>4. locker'.phase = "fetched" /\ locker'.feed = <<>> /\ locker'.m = n
        /\ locker'.given = m.nextKey - 1
    BY <2>1
  <2>5. Alone(locker', toDaemon, daemon)
    <3>1. Own(locker') = {}
      <4>1. PICK s \in Seq(Notes) : s = m.notes
        BY <1>7, MonitorIs DEF Whole
      <4>2. PICK k \in Nat : k = m.nextKey
        BY <1>7, MonitorIs DEF Whole
      <4>3. \A i \in 1 .. Len(s) : s[i] \in Notes /\ s[i].key < k
        BY <1>7, <4>1, <4>2, LenProperties DEF Whole
      <4>4. \A x \in Range(s) : x.key \in Nat /\ x.key < k
        BY <4>3, RangeIs DEF Notes, Keys
      <4>5. Own(locker') = {x \in Range(s) : x.key > k - 1}
        BY <1>9, <2>4, <4>1, <4>2 DEF Own
      <4> QED
        BY <4>4, <4>5
    <3>2. Range(n.pending) = {}
      BY <1>5, <1>7, <1>8, SettledIs, RangeOfEmpty DEF Whole, Seeded, EmptyMonitor
    <3> QED
      BY <2>4, <3>1, <3>2 DEF Alone
  <2> QED
    BY <1>1, <1>7, <1>8, <2>3, <2>4, <2>5 DEF LockerOK
<1>11. Seen(view, locker.m)'
  <2>1. Len(locker.m.notes) = 0 /\ 1 .. 0 = {}
    BY <1>0, <1>1, EmptyIs, RangeOfEmpty DEF LockerOK
  <2>2. m.changed \/ Shows(locker.m, m)
    BY <1>7, <2>1 DEF Shows
  <2>3. locker'.m = n
    BY <1>5, <1>8
  <2>4. Seen(view', n)
    BY <1>0, <1>5, <1>7, <1>9, <2>2, ChangedSeen
  <2> QED
    BY <2>3, <2>4
<1> QED
  BY <1>2, <1>10, <1>11, InvNext

LEMMA DrainsKeepsInv == Inv /\ LockerDrains => Inv'
<1> SUFFICES ASSUME Inv, LockerDrains PROVE Inv'
  OBVIOUS
<1>0. WorldOK /\ RecorderOK(recorder, toDaemon, daemon, calls)
      /\ LockerOK(locker, toDaemon, daemon, calls) /\ Seen(view, locker.m)
  BY InvIs
<1>1. UNCHANGED <<calls, toDaemon, daemon, recorder>> /\ locker.phase = "monitoring" /\ locker.feed # <<>>
  BY DEF LockerDrains
<1>2. WorldOK' /\ RecorderOK(recorder, toDaemon, daemon, calls)'
  BY <1>0, <1>1 DEF WorldOK, Counted
<1>3. PICK m : m = OnMessage(locker.m, Head(locker.feed))
  OBVIOUS
<1>4. locker' = [locker EXCEPT !.m = Settled(m), !.feed = Tail(locker.feed)] /\ Changed(m)
  BY <1>3, Zenon DEF LockerDrains
<1>5. PICK n : n = Settled(m)
  OBVIOUS
<1>6. locker \in Lockers /\ locker.feed \in Seq(Messages)
  BY FeedsIn
<1>7. Talks(locker.m, locker.feed, toDaemon, daemon.told, calls)
  BY <1>0 DEF LockerOK
<1>8. Talks(n, Tail(locker.feed), toDaemon, daemon.told, calls)
  BY <1>1, <1>3, <1>5, <1>6, <1>7, DrainIs
<1>9. Whole(m) /\ (m.changed \/ Shows(locker.m, m))
  BY <1>1, <1>3, <1>6, <1>7, DrainIs
<1>10. n \in Monitors /\ n.notes = m.notes /\ Tail(locker.feed) \in Seq(Messages)
  BY <1>1, <1>5, <1>6, <1>9, SettledIs, TailRest DEF Whole
<1>11. locker' = [phase |-> locker.phase, seeded |-> locker.seeded, given |-> locker.given,
                  feed |-> Tail(locker.feed), m |-> n]
  BY <1>4, <1>5, <1>6, Zenon DEF Lockers
<1>12. locker' \in Lockers
  <2>1. locker.phase \in {"off", "fetched", "monitoring", "lost"} /\ locker.seeded \in BOOLEAN
        /\ locker.given \in Nat
    BY <1>6 DEF Lockers
  <2> QED
    BY <1>10, <1>11, <2>1, Zenon DEF Lockers
<1>13. locker'.phase = "monitoring" /\ locker'.feed = Tail(locker.feed) /\ locker'.m = n
       /\ locker'.given = locker.given
  BY <1>1, <1>11
<1>14. LockerOK(locker, toDaemon, daemon, calls)'
  <2>1. Own(locker) = Above(Range(locker.m.notes), locker.given)
        /\ Own(locker') = Above(Range(n.notes), locker.given)
    BY <1>13 DEF Own, Above
  <2>2. Following(Own(locker), Range(locker.m.pending), locker.feed, toDaemon, daemon)
    BY <1>0, <1>1 DEF LockerOK, Alone, FollowsOwn
  <2>3. Following(Own(locker'), Range(n.pending), Tail(locker.feed), toDaemon, daemon)
    BY <1>1, <1>3, <1>5, <1>6, <1>7, <2>1, <2>2, DrainIs
  <2>4. Alone(locker', toDaemon, daemon)
    BY <1>13, <2>3 DEF Alone, FollowsOwn
  <2> QED
    BY <1>1, <1>8, <1>12, <1>13, <2>4 DEF LockerOK
<1>15. Seen(view, locker.m)'
  <2>1. Seen(view', n)
    BY <1>0, <1>4, <1>9, <1>10, ChangedSeen
  <2> QED
    BY <1>13, <2>1
<1> QED
  BY <1>2, <1>14, <1>15, InvNext

LEMMA LockerKeepsInv == Inv /\ Locker => Inv'
<1> SUFFICES ASSUME Inv, Locker PROVE Inv'
  OBVIOUS
<1>0. WorldOK /\ RecorderOK(recorder, toDaemon, daemon, calls)
      /\ LockerOK(locker, toDaemon, daemon, calls) /\ Seen(view, locker.m)
  BY InvIs
<1>1. CASE LockerFetches
  BY <1>1, FetchesKeepsInv
<1>2. CASE LockerDrains
  BY <1>2, DrainsKeepsInv
<1>3. ASSUME UNCHANGED <<calls, toDaemon, daemon, recorder>>
      PROVE  WorldOK' /\ RecorderOK(recorder, toDaemon, daemon, calls)'
  BY <1>0, <1>3 DEF WorldOK, Counted
<1>4. locker \in Lockers
  BY <1>0 DEF LockerOK
<1>5. CASE LockerMonitors
  <2>1. /\ UNCHANGED <<calls, toDaemon, daemon, recorder, view>>
        /\ locker.phase = "fetched"
    BY <1>5 DEF LockerMonitors
  <2>2. PICK phase \in {"monitoring", "lost"} : locker' = [locker EXCEPT !.phase = phase]
    BY <1>5 DEF LockerMonitors
  <2>3. locker' = [phase |-> phase, seeded |-> locker.seeded, given |-> locker.given,
                   feed |-> locker.feed, m |-> locker.m]
    BY <1>4, <2>2, Zenon DEF Lockers
  <2>4. locker'.phase = phase /\ locker'.feed = locker.feed /\ locker'.m = locker.m
        /\ locker'.given = locker.given
    BY <2>3
  <2>5. locker' \in Lockers
    BY <1>4, <2>2, Zenon DEF Lockers
  <2>6. LockerOK(locker, toDaemon, daemon, calls)'
    <3>1. Own(locker') = Own(locker)
      BY <2>4 DEF Own
    <3>2. Own(locker) = {} /\ Range(locker.m.pending) = {} /\ locker.feed = <<>>
      BY <1>0, <2>1 DEF LockerOK, Alone
    <3>3. FollowsOwn(locker', locker'.feed, toDaemon, daemon)
      BY <2>4, <3>1, <3>2, FollowingEmpty DEF FollowsOwn
    <3>4. Alone(locker', toDaemon, daemon)
      BY <2>2, <2>4, <3>3 DEF Alone
    <3> QED
      BY <1>0, <2>1, <2>2, <2>4, <2>5, <3>4 DEF LockerOK
  <2>7. Seen(view, locker.m)'
    BY <1>0, <2>1, <2>4
  <2> QED
    BY <1>3, <2>1, <2>6, <2>7, InvNext
<1>6. CASE LockerLosesBus
  <2>1. /\ UNCHANGED <<calls, toDaemon, daemon, recorder, view>>
        /\ locker' = [locker EXCEPT !.phase = "lost", !.feed = <<>>]
    BY <1>6 DEF LockerLosesBus
  <2>2. locker' = [phase |-> "lost", seeded |-> locker.seeded, given |-> locker.given,
                   feed |-> <<>>, m |-> locker.m]
    BY <1>4, <2>1, Zenon DEF Lockers
  <2>3. locker'.phase = "lost" /\ locker'.feed = <<>> /\ locker'.m = locker.m
    BY <2>2
  <2>4. locker' \in Lockers
    <3>1. <<>> \in Seq(Messages) /\ locker.seeded \in BOOLEAN /\ locker.m \in Monitors
          /\ locker.given \in Nat
      BY <1>4 DEF Lockers
    <3> QED
      BY <2>2, <3>1 DEF Lockers
  <2>5. Talks(locker.m, <<>>, toDaemon, daemon.told, calls)
    BY <1>0, TalkLost DEF LockerOK, Talks
  <2>6. LockerOK(locker, toDaemon, daemon, calls)'
    BY <2>1, <2>3, <2>4, <2>5 DEF LockerOK, Alone
  <2>7. Seen(view, locker.m)'
    BY <1>0, <2>1, <2>3
  <2> QED
    BY <1>3, <2>1, <2>6, <2>7, InvNext
<1>7. ASSUME UNCHANGED <<calls, toDaemon, daemon, recorder, locker>>, Seen(view', locker.m)
      PROVE  Inv'
  <2>1. LockerOK(locker, toDaemon, daemon, calls)' /\ Seen(view, locker.m)'
    BY <1>0, <1>7
  <2> QED
    BY <1>3, <1>7, <2>1, InvNext
<1>8. CASE Draw
  <2>1. Seen(view', locker.m)
    BY <1>0, <1>8, DrawSeen
  <2> QED
    BY <1>7, <1>8, <2>1 DEF Draw
<1>9. CASE PressClose
  <2>1. Seen(view', locker.m)
    BY <1>0, <1>9, PressCloseSeen
  <2> QED
    BY <1>7, <1>9, <2>1 DEF PressClose
<1>10. CASE PressCard
  <2>1. Seen(view', locker.m)
    BY <1>0, <1>10, PressCardSeen
  <2> QED
    BY <1>7, <1>10, <2>1 DEF PressCard
<1> QED
  BY <1>1, <1>2, <1>5, <1>6, <1>8, <1>9, <1>10 DEF Locker

-----------------------------------------------------------------------------
LEMMA InitInv == Init => Inv
<1> SUFFICES ASSUME Init PROVE Inv
  OBVIOUS
<1>1. /\ calls = 0 /\ toDaemon = <<>>
      /\ daemon = [ids |-> {}, told |-> {}, shown |-> {}, undismissed |-> {}, content |-> <<>>]
      /\ recorder = [life |-> "off", starts |-> 0, from |-> 0, feed |-> <<>>, m |-> EmptyMonitor]
      /\ locker = [phase |-> "off", seeded |-> FALSE, given |-> 0, feed |-> <<>>,
                   m |-> EmptyMonitor]
      /\ view = [cards |-> <<>>, layout |-> <<>>, closed |-> {}]
  BY DEF Init
<1>2. <<>> \in Seq(Messages) /\ EmptyMonitor \in Monitors
  BY EmptyIs DEF Whole
<1>3. WorldOK
  <2>1. Cardinality({}) = 0 /\ 1 .. 0 = {}
    BY FS_EmptySet
  <2>2. PICK none : none = daemon.content /\ none \in [{} -> Calls \cup {0}]
    <3>1. daemon.content = <<>>
      BY <1>1
    <3>2. <<>> \in [{} -> Calls \cup {0}]
      <4>1. <<>> \in Seq(Calls \cup {0}) /\ Len(<<>>) = 0
        OBVIOUS
      <4>2. <<>> \in [1 .. 0 -> Calls \cup {0}]
        BY <4>1, LenProperties
      <4> QED
        BY <4>2, <2>1
    <3> QED
      BY <3>1, <3>2
  <2>3. DaemonTypeOK(daemon)
    <3>1. daemon.ids = {} /\ daemon.told = {} /\ daemon.shown = {} /\ daemon.undismissed = {}
      BY <1>1
    <3>2. daemon = [ids |-> daemon.ids, told |-> daemon.told, shown |-> daemon.shown,
                    undismissed |-> daemon.undismissed, content |-> daemon.content]
      BY <1>1
    <3> QED
      BY <2>2, <3>1, <3>2 DEF DaemonTypeOK
  <2>4. Counted
    BY <1>1, <2>1, RangeOfEmpty DEF Counted
  <2> QED
    BY <1>1, <1>2, <2>3, <2>4, NotificationBoundsAssumption DEF WorldOK
<1>4. Talks(EmptyMonitor, <<>>, toDaemon, daemon.told, calls)
  <2>1. PICK e : e = <<>> /\ Len(e) = 0 /\ 1 .. Len(e) = {}
    BY RangeOfEmpty
  <2>2. Talk({}, {}, e, toDaemon, daemon.told, calls)
    BY <1>1, <2>1 DEF Talk, Known, Once, Answering, Waiting, Quoting, Apart
  <2> QED
    BY <2>1, <2>2, EmptyIs DEF Talks
<1>5. RecorderOK(recorder, toDaemon, daemon, calls)
  <2>1. 0 \in 0 .. MaxStarts /\ 0 \in 0 .. MaxCalls
    BY NotificationBoundsAssumption
  <2>2. /\ recorder \in Recorders /\ recorder.life # "on" /\ recorder.m = EmptyMonitor
        /\ recorder.feed = <<>>
    BY <1>1, <1>2, <2>1 DEF Recorders
  <2> QED
    BY <1>4, <2>2 DEF RecorderOK
<1>6. LockerOK(locker, toDaemon, daemon, calls)
  <2>1. locker \in Lockers /\ locker.m = EmptyMonitor /\ locker.feed = <<>>
        /\ locker.phase = "off"
    BY <1>1, <1>2 DEF Lockers
  <2>2. Alone(locker, toDaemon, daemon)
    <3>1. Own(locker) = {} /\ Range(locker.m.pending) = {}
      BY <2>1, EmptyIs DEF Own
    <3> QED
      BY <2>1, <3>1 DEF Alone
  <2> QED
    BY <1>4, <2>1, <2>2 DEF LockerOK
<1>7. Seen(view, locker.m)
  <2>1. view.cards = <<>> /\ view.layout = <<>> /\ view.closed = {}
    BY <1>1
  <2>2. view \in Views
    <3>1. <<>> \in Seq(CardsOfView) /\ <<>> \in Seq(Spots) /\ {} \in SUBSET Keys
      OBVIOUS
    <3> QED
      BY <1>1, <3>1, ViewOf
  <2> QED
    <3>1. locker.m = EmptyMonitor /\ EmptyMonitor.notes = <<>>
      BY <1>1 DEF EmptyMonitor
    <3> QED
      BY <2>1, <2>2, <3>1, RangeOfEmpty DEF Seen, KeysApart, Shown, Complete, Placed
<1> QED
  BY <1>3, <1>5, <1>6, <1>7, InvIs

LEMMA NextInv == Inv /\ [Next]_vars => Inv'
<1> SUFFICES ASSUME Inv, [Next]_vars PROVE Inv'
  OBVIOUS
<1>1. CASE AppNotifies
  BY <1>1, AppNotifiesKeepsInv
<1>2. CASE DaemonAnswers
  BY <1>2, DaemonAnswersKeepsInv
<1>3. CASE DaemonCloses
  BY <1>3, DaemonClosesKeepsInv
<1>4. CASE Recorder
  BY <1>4, RecorderKeepsInv
<1>5. CASE Locker
  BY <1>5, LockerKeepsInv
<1>6. CASE UNCHANGED vars
  <2>1. /\ WorldOK /\ RecorderOK(recorder, toDaemon, daemon, calls)
        /\ LockerOK(locker, toDaemon, daemon, calls) /\ Seen(view, locker.m)
    BY InvIs
  <2>2. WorldOK'
    BY <1>6, <2>1 DEF vars, WorldOK, Counted
  <2>3. /\ RecorderOK(recorder, toDaemon, daemon, calls)' /\ LockerOK(locker, toDaemon, daemon, calls)'
        /\ Seen(view, locker.m)'
    BY <1>6, <2>1 DEF vars
  <2> QED
    BY <2>2, <2>3, InvNext
<1> QED
  BY <1>1, <1>2, <1>3, <1>4, <1>5, <1>6 DEF Next, World

LEMMA Invariant == Spec => []Inv
<1> QED
  BY InitInv, NextInv, PTL DEF Spec

-----------------------------------------------------------------------------
\* The theorems.

\* The daemon's books, what each monitor remembers and has still to read, and the view have
\* their types, and no monitor holds more than kMaxHeld notes or kMaxPending calls.
THEOREM TypeCorrect == Spec => []TypeOK
<1>1. Inv => TypeOK
  BY DEF Inv
<1> QED
  BY <1>1, Invariant, PTL

LEMMA OneNamed ==
    ASSUME NEW m, Whole(m), Apart(Range(m.notes)), NEW id \in Ids
    PROVE  Cardinality(Named(m, id)) <= 1
<1>1. m \in Monitors
  BY DEF Whole
<1>2. Named(m, id) = {i \in 1 .. Len(m.notes) : m.notes[i].daemonId = id}
  BY <1>1, NamedIs
<1>3. Range(m.notes) = {m.notes[i] : i \in 1 .. Len(m.notes)}
  BY <1>1, MonitorIs, RangeIs
<1>4. id # 0
  BY DEF Ids
<1>5. \A i, j \in Named(m, id) : i = j
  BY <1>2, <1>3, <1>4 DEF Whole, Apart, KeysApart
<1>6. CASE Named(m, id) = {}
  BY <1>6, FS_EmptySet
<1>7. CASE Named(m, id) # {}
  <2>1. PICK i \in Named(m, id) : TRUE
    BY <1>7
  <2>2. ASSUME NEW j \in Named(m, id) PROVE j = i
    BY <1>5
  <2>3. Named(m, id) = {i}
    BY <2>2
  <2>4. Cardinality({i}) = 1
    BY ONLY FS_Singleton
  <2> QED
    BY ONLY <2>3, <2>4
<1> QED
  BY <1>6, <1>7

\* handleNotify() and handleReturn() never leave two cards with one id of the daemon, in the
\* recorder or in the locker, whatever is lost, late or restarted.
THEOREM TwinsCorrect == Spec => []NoTwins
<1>1. Inv => NoTwins
  <2> SUFFICES ASSUME Inv, NEW id \in Ids
               PROVE  /\ Cardinality(Named(recorder.m, id)) <= 1
                      /\ Cardinality(Named(locker.m, id)) <= 1
    BY DEF NoTwins
  <2>1. /\ Whole(recorder.m) /\ Apart(Range(recorder.m.notes))
        /\ Whole(locker.m) /\ Apart(Range(locker.m.notes))
    BY InvIs DEF RecorderOK, LockerOK, Talks, Talk
  <2> QED
    BY <2>1, OneNamed
<1> QED
  BY <1>1, Invariant, PTL

\* Notes that have missed nothing are accurate but for what is still to be read.
LEMMA FollowedAccurate ==
    ASSUME NEW m \in Monitors, NEW given \in Nat, NEW f \in Seq(Messages), NEW P,
           toDaemon \in Seq(Messages), \A x \in 1 .. Len(toDaemon) : toDaemon[x].msg = "notify",
           Following(Above(Range(m.notes), given), P, f, toDaemon, daemon)
    PROVE  Accurate(m, given, f)
<1> SUFFICES ASSUME NEW i \in DOMAIN m.notes, m.notes[i].key > given, m.notes[i].daemonId # 0,
                    \A msg \in Range(f) \cup Range(toDaemon) : ~Concerns(msg, m.notes[i].daemonId)
             PROVE  /\ m.notes[i].daemonId \in daemon.undismissed
                    /\ m.notes[i].text = daemon.content[m.notes[i].daemonId]
  BY Zenon DEF Accurate
<1>1. PICK n \in Above(Range(m.notes), given) : n = m.notes[i]
  <2>1. PICK s \in Seq(Notes) : s = m.notes
    BY MonitorIs
  <2>2. Range(s) = {s[j] : j \in 1 .. Len(s)} /\ DOMAIN s = 1 .. Len(s)
    BY RangeIs
  <2>3. s[i] \in Range(s)
    BY <2>1, <2>2
  <2> QED
    BY <2>1, <2>3 DEF Above
<1>2. Range(f) = {f[j] : j \in 1 .. Len(f)} /\ Range(toDaemon) = {toDaemon[x] : x \in 1 .. Len(toDaemon)}
  BY RangeIs
<1>3. Untouched(f, 0, n.daemonId)
  BY <1>1, <1>2 DEF Untouched, Touches, Concerns
<1>4. Replacing(toDaemon, n.daemonId) = {}
  BY <1>1, <1>2 DEF Replacing, Concerns
<1>5. Said(toDaemon, daemon, n.daemonId, n.text)
  BY <1>1, <1>3 DEF Following, SaysNotes
<1> QED
  BY <1>1, <1>4, <1>5 DEF Said

\* When the recorder has read what concerns a card with an id, nobody has dismissed it and it
\* has the content the daemon was given last; and so it is in the locker with a card that
\* fetchBacklog() has not given it, however late BecomeMonitor came.
THEOREM GhostsCorrect == Spec => []NoGhosts
<1>1. Inv => NoGhosts
  <2> SUFFICES ASSUME Inv
               PROVE  /\ recorder.life = "on" => Accurate(recorder.m, 0, recorder.feed)
                      /\ locker.phase = "monitoring"
                             => Accurate(locker.m, locker.given, locker.feed)
    BY Zenon DEF NoGhosts
  <2>1. recorder.m \in Monitors /\ locker.m \in Monitors /\ locker.given \in Nat
    BY InvIs DEF RecorderOK, LockerOK, Talks, Whole, Lockers
  <2>2. recorder.feed \in Seq(Messages) /\ locker.feed \in Seq(Messages)
    BY FeedsIn
  <2>3. toDaemon \in Seq(Messages) /\ \A x \in 1 .. Len(toDaemon) : toDaemon[x].msg = "notify"
    BY InvIs DEF WorldOK, LockerOK, Talks, Talk, Known
  <2>4. ASSUME recorder.life = "on" PROVE Accurate(recorder.m, 0, recorder.feed)
    <3>1. Following(Range(recorder.m.notes), Range(recorder.m.pending), recorder.feed,
                    toDaemon, daemon)
      BY <2>4, InvIs DEF RecorderOK, Follows
    <3>2. \A n \in Range(recorder.m.notes) : n.key > 0
      <4>1. PICK s \in Seq(Notes) : s = recorder.m.notes
        BY <2>1, MonitorIs
      <4>2. \A n \in Range(s) : n \in Notes
        BY RangeIs, LenProperties
      <4> QED
        BY <4>1, <4>2 DEF Notes, Keys
    <3>3. Above(Range(recorder.m.notes), 0) = Range(recorder.m.notes)
      BY <3>2 DEF Above
    <3> QED
      BY <2>1, <2>2, <2>3, <3>1, <3>3, FollowedAccurate
  <2>5. ASSUME locker.phase = "monitoring" PROVE Accurate(locker.m, locker.given, locker.feed)
    <3>1. FollowsOwn(locker, locker.feed, toDaemon, daemon)
      BY <2>5, InvIs DEF LockerOK, Alone
    <3>2. Own(locker) = Above(Range(locker.m.notes), locker.given)
      BY DEF Own, Above
    <3> QED
      BY <2>1, <2>2, <2>3, <3>1, <3>2, FollowedAccurate DEF FollowsOwn
  <2> QED
    BY <2>4, <2>5
<1> QED
  BY <1>1, Invariant, PTL

\* The cards on the screen are notes the monitor holds, as they are worded now; and every
\* note it holds has a card, or had one that a press has closed since the notes changed.
THEOREM CardsCorrect == Spec => []CardsCurrent
<1>1. Inv => CardsCurrent
  BY DEF Inv, Viewed
<1> QED
  BY <1>1, Invariant, PTL

\* The hit-test cache of NotificationView never names another card than the one drawn.
THEOREM PressCorrect == Spec => []PressHitsDrawn
<1>1. Inv => PressHitsDrawn
  BY DEF Inv, Viewed
<1> QED
  BY <1>1, Invariant, PTL

=============================================================================
