--------------------------- MODULE Output_proofs ----------------------------
(***************************************************************************)
(* Proofs about Output for all sizes and scales, and for any number of     *)
(* buffers and callbacks the compositor may hold back.                     *)
(***************************************************************************)
EXTENDS Output, FiniteSetTheorems, FunctionTheorems, TLAPS

Buffer == [id : Buffers, px : Pixels, busy : BOOLEAN]
Members == [life : {"absent", "plugged", "removed"}, scale : Scales \cup {1},
            surfaceScale : Scales \cup {0, 1}, width : Widths \cup {0},
            dirty : BOOLEAN, framePending : BOOLEAN, starved : BOOLEAN,
            buffers : SUBSET Buffer]

\* OutputInv, with the record's type in one piece.
Counted ==
    /\ held \subseteq Buffers
    /\ callbacks \in 0 .. MaxCallbacks + 1
    /\ shown \in Buffers \cup {0}
Inv == /\ out \in Members /\ active \in BOOLEAN /\ Counted
       /\ ThrottleSound /\ BuffersSound(out.buffers, held) /\ Paced /\ Unplugged

-----------------------------------------------------------------------------
\* Buffers.

LEMMA BuffersFinite == IsFiniteSet(Buffers) /\ Cardinality(Buffers) = MaxBuffers
  BY FS_Interval, OutputAssumption DEF Buffers

\* A set with fewer than two members has no two of them.
LEMMA FewMembers ==
    ASSUME NEW S, IsFiniteSet(S), Cardinality(S) < 2, NEW b \in S, NEW c \in S
    PROVE  b = c
<1> SUFFICES ASSUME b # c PROVE FALSE
  OBVIOUS
<1>1. IsFiniteSet({b}) /\ Cardinality({b}) = 1
  BY FS_Singleton
<1>2. IsFiniteSet({b} \cup {c}) /\ Cardinality({b} \cup {c}) = 2
  BY <1>1, FS_AddElement
<1>3. Cardinality({b} \cup {c}) <= Cardinality(S)
  BY FS_Subset
<1>4. Cardinality(S) \in Nat
  BY FS_CardinalityType
<1> QED
  BY <1>2, <1>3, <1>4

\* Buffers with ids of their own are as finite as the ids.
LEMMA SoundFinite ==
    ASSUME NEW bufs \in SUBSET Buffer, NEW hs, BuffersSound(bufs, hs)
    PROVE  IsFiniteSet(bufs)
<1> DEFINE f == [b \in bufs |-> b.id]
<1>1. f \in [bufs -> Buffers]
  BY DEF Buffer
<1>2. \A b, c \in bufs : f[b] = f[c] => b = c
  BY DEF BuffersSound
<1>3. f \in Injection(bufs, Buffers)
  BY <1>1, <1>2 DEF Injection, IsInjective
<1> QED
  BY <1>3, FS_Injection, BuffersFinite

\* What acquireBuffer() keeps is sound, and it never runs out of ids.
LEMMA TrimmedSound ==
    ASSUME NEW s \in Members, NEW px \in Pixels, held \subseteq Buffers,
           BuffersSound(s.buffers, held), Reusable(s, px) = {},
           Cardinality(held) <= MaxHolds + MaxCallbacks
    PROVE  /\ Trimmed(s, px) \subseteq Buffer
           /\ BuffersSound(Trimmed(s, px), held)
           /\ \E b \in Buffers : b \notin Ids(Trimmed(s, px)) \cup held
<1> DEFINE kept == Trimmed(s, px)
<1>1. s.buffers \subseteq Buffer
  BY DEF Members
<1>2. IsFiniteSet(held) /\ Cardinality(held) \in Nat /\ Cardinality(held) < MaxBuffers
  BY FS_Subset, FS_CardinalityType, BuffersFinite, OutputAssumption
<1>3. kept \subseteq s.buffers /\ \A b \in s.buffers : b.busy => b \in kept
  BY DEF Trimmed
<1>4. BuffersSound(kept, held)
  BY <1>3 DEF BuffersSound, Ids
<1>5. CASE Cardinality(s.buffers) < 2
  <2>1. IsFiniteSet(s.buffers)
    BY <1>1, SoundFinite
  <2>2. \A b, c \in s.buffers : b = c
    BY <1>5, <2>1, FewMembers
  <2>3. \A b, c \in Ids(kept) \cup held : b = c
    BY <1>3, <1>4, <2>2 DEF BuffersSound, Ids
  <2>4. 1 \in Buffers /\ 2 \in Buffers
    BY OutputAssumption DEF Buffers
  <2> QED
    BY <1>1, <1>3, <1>4, <2>3, <2>4
<1>6. CASE ~(Cardinality(s.buffers) < 2)
  <2>1. \A b \in kept : b.busy
    BY <1>6 DEF Trimmed, Reusable, Free
  <2>2. Ids(kept) \cup held = held
    BY <1>4, <2>1 DEF BuffersSound, Ids
  <2>3. held # Buffers
    BY <1>2, BuffersFinite
  <2> QED
    BY <1>1, <1>3, <1>4, <2>2, <2>3
<1> QED
  BY <1>5, <1>6

LEMMA AcquiredSound ==
    ASSUME NEW s \in Members, NEW px \in Pixels, held \subseteq Buffers,
           BuffersSound(s.buffers, held), Cardinality(held) <= MaxHolds + MaxCallbacks,
           NEW a \in Acquired(s, px)
    PROVE  /\ a.buffers \subseteq Buffer
           /\ BuffersSound(a.buffers, held)
           /\ \A b \in a.taken : b \in a.buffers /\ b.id \notin held
<1>1. CASE Reusable(s, px) # {}
  <2>1. PICK b \in Reusable(s, px) : a = [buffers |-> s.buffers, taken |-> {b}]
    BY <1>1 DEF Acquired
  <2>2. b \in s.buffers /\ ~b.busy
    BY DEF Reusable, Free
  <2> QED
    BY <2>1, <2>2 DEF Members, BuffersSound
<1>2. CASE Reusable(s, px) = {}
  <2> DEFINE kept == Trimmed(s, px)
             new == Created(kept, px)
  <2>1. /\ kept \subseteq Buffer /\ BuffersSound(kept, held)
        /\ \E b \in Buffers : b \notin Ids(kept) \cup held
    BY <1>2, TrimmedSound
  <2>2. new.id \in Buffers /\ new.id \notin Ids(kept) \cup held
    BY <2>1 DEF Created
  <2>3. new \in Buffer /\ ~new.busy
    BY <2>2 DEF Created, Buffer
  <2>4. a = [buffers |-> kept \cup {new}, taken |-> {new}] \/ a = [buffers |-> kept, taken |-> {}]
    BY <1>2 DEF Acquired
  <2> HIDE DEF kept, new
  <2>5. BuffersSound(kept \cup {new}, held)
    <3>1. \A b \in kept : b.id # new.id
      BY <2>2 DEF Ids
    <3>2. \A b, c \in kept \cup {new} : b.id = c.id => b = c
      BY <2>1, <3>1 DEF BuffersSound
    <3>3. \A b \in kept \cup {new} : b.busy <=> b.id \in held
      BY <2>1, <2>2, <2>3 DEF BuffersSound
    <3>4. held \subseteq Ids(kept \cup {new})
      BY <2>1 DEF BuffersSound, Ids
    <3> QED
      BY <3>2, <3>3, <3>4 DEF BuffersSound
  <2> QED
    BY <2>1, <2>2, <2>3, <2>4, <2>5
<1> QED
  BY <1>1, <1>2

\* Painting a free buffer, and a release, keep busy_ in step with the compositor.
LEMMA BusySound ==
    ASSUME NEW bufs \in SUBSET Buffer, BuffersSound(bufs, held), NEW b \in bufs, b.id \notin held
    PROVE  /\ (bufs \ {b}) \cup {Busy(b)} \in SUBSET Buffer
           /\ BuffersSound((bufs \ {b}) \cup {Busy(b)}, held \cup {b.id})
<1> DEFINE B == Busy(b)
           new == (bufs \ {b}) \cup {B}
<1>1. B \in Buffer /\ B.id = b.id /\ B.busy
  BY DEF Busy, Buffer
<1> HIDE DEF B
<1>2. \A c \in bufs \ {b} : c.id # b.id
  BY DEF BuffersSound
<1>3. \A c, d \in new : c.id = d.id => c = d
  BY <1>1, <1>2 DEF BuffersSound
<1>4. \A c \in new : c.busy <=> c.id \in held \cup {b.id}
  BY <1>1, <1>2 DEF BuffersSound
<1>5. held \cup {b.id} \subseteq Ids(new)
  <2>1. b.id \in Ids(new)
    BY <1>1 DEF Ids
  <2>2. ASSUME NEW h \in held PROVE h \in Ids(new)
    <3>1. PICK c \in bufs : c.id = h
      BY DEF BuffersSound, Ids
    <3>2. c \in new
      BY <3>1
    <3> QED
      BY <3>1, <3>2 DEF Ids
  <2> QED
    BY <2>1, <2>2
<1>6. BuffersSound(new, held \cup {b.id})
  BY <1>3, <1>4, <1>5 DEF BuffersSound
<1> QED
  BY <1>1, <1>6 DEF B

LEMMA ReleaseSound ==
    ASSUME NEW bufs \in SUBSET Buffer, BuffersSound(bufs, held), NEW h \in held
    PROVE  /\ {IF x.id = h THEN Idle(x) ELSE x : x \in bufs} \in SUBSET Buffer
           /\ BuffersSound({IF x.id = h THEN Idle(x) ELSE x : x \in bufs}, held \ {h})
<1> DEFINE to(x) == IF x.id = h THEN Idle(x) ELSE x
           new == {to(x) : x \in bufs}
<1>1. \A x \in bufs : /\ to(x) \in Buffer /\ to(x).id = x.id
                      /\ x.id = h => ~to(x).busy
                      /\ x.id # h => to(x) = x
  BY DEF Idle, Buffer
<1>2. \A c \in new : \E x \in bufs : c = to(x)
  OBVIOUS
<1>3. \A x \in bufs : to(x) \in new
  OBVIOUS
<1> HIDE DEF new, to
<1>4. ASSUME NEW c \in new, NEW d \in new, c.id = d.id PROVE c = d
  <2>1. PICK x \in bufs : c = to(x)
    BY <1>2
  <2>2. PICK y \in bufs : d = to(y)
    BY <1>2
  <2> QED
    BY <1>1, <1>4, <2>1, <2>2 DEF BuffersSound
<1>5. ASSUME NEW c \in new PROVE c \in Buffer /\ (c.busy <=> c.id \in held \ {h})
  <2>1. PICK x \in bufs : c = to(x)
    BY <1>2
  <2> QED
    BY <1>1, <2>1 DEF BuffersSound
<1>6. ASSUME NEW g \in held \ {h} PROVE g \in Ids(new)
  <2>1. PICK x \in bufs : x.id = g
    BY DEF BuffersSound, Ids
  <2> QED
    BY <1>1, <1>3, <2>1 DEF Ids
<1>7. BuffersSound(new, held \ {h})
  BY <1>4, <1>5, <1>6 DEF BuffersSound
<1> QED
  BY <1>5, <1>7 DEF new, to

-----------------------------------------------------------------------------
\* Painting.

LEMMA StarveFields ==
    ASSUME NEW s \in Members, NEW bufs \in SUBSET Buffer, NEW owed, Starve(s, bufs, owed)
    PROVE  /\ out' \in Members /\ out'.buffers = bufs /\ out'.starved
           /\ out'.framePending = s.framePending /\ out'.life = s.life
  BY Zenon DEF Starve, Members

LEMMA PaintFields ==
    ASSUME NEW s \in Members, NEW bufs, NEW b, NEW owed, Paint(s, bufs, b, owed),
           (bufs \ {b}) \cup {Busy(b)} \in SUBSET Buffer
    PROVE  /\ out' \in Members /\ out'.buffers = (bufs \ {b}) \cup {Busy(b)}
           /\ out'.framePending /\ ~out'.dirty /\ out'.life = s.life
<1> DEFINE new == (bufs \ {b}) \cup {Busy(b)}
<1>1. out' = [s EXCEPT !.buffers = new, !.framePending = TRUE, !.dirty = FALSE, !.starved = FALSE]
  BY DEF Paint
<1>2. new \in SUBSET Buffer
  OBVIOUS
<1> HIDE DEF new
<1>3. /\ out' \in Members /\ out'.buffers = new
      /\ out'.framePending = TRUE /\ out'.dirty = FALSE /\ out'.life = s.life
  BY <1>1, <1>2, Zenon DEF Members
<1> QED
  BY <1>3 DEF new

\* render(), whatever it finds: the invariant, and the buffer it commits.
LEMMA RenderSound ==
    ASSUME NEW s \in Members, Counted, BuffersSound(s.buffers, held),
           NEW owed \in 0 .. MaxCallbacks, s.framePending => owed > 0,
           Cardinality(held) <= MaxHolds + owed,
           Render(s, owed)
    PROVE  /\ out' \in Members /\ Counted' /\ out'.life = s.life
           /\ ThrottleSound' /\ BuffersSound(out'.buffers, held') /\ Paced'
           /\ callbacks' > owed \/ shown' # shown \/ (out'.framePending /\ ~s.framePending)
                 => shown' \notin held
<1>0. /\ MaxCallbacks \in Nat /\ MaxHolds \in Nat
      /\ IsFiniteSet(held) /\ Cardinality(held) \in Nat
  BY FS_Subset, FS_CardinalityType, BuffersFinite, OutputAssumption DEF Counted
<1>1. CASE ~Configured(s)
  <2>1. out' = s /\ callbacks' = owed /\ held' = held /\ shown' = shown
    BY <1>1 DEF Render
  <2>2. Counted' /\ Paced'
    BY <1>0, <2>1 DEF Counted, Paced
  <2>3. ThrottleSound'
    BY <1>1, <2>1 DEF ThrottleSound, Configured
  <2> QED
    BY <1>0, <2>1, <2>2, <2>3
<1>2. CASE Configured(s)
  <2> DEFINE px == s.width * s.scale
  <2>1. px \in Pixels
    BY <1>2 DEF Configured, Members, Pixels
  <2>2. PICK a \in Acquired(s, px) : \/ a.taken = {} /\ Starve(s, a.buffers, owed)
                                     \/ \E b \in a.taken : Paint(s, a.buffers, b, owed)
    BY <1>2 DEF Render
  <2>3. /\ a.buffers \in SUBSET Buffer /\ BuffersSound(a.buffers, held)
        /\ \A b \in a.taken : b \in a.buffers /\ b.id \notin held
    <3>1. Cardinality(held) <= MaxHolds + MaxCallbacks
      BY <1>0
    <3> HIDE DEF px
    <3> QED
      BY <2>1, <3>1, AcquiredSound DEF Counted
  <2>4. CASE Starve(s, a.buffers, owed)
    <3>1. /\ out' \in Members /\ out'.buffers = a.buffers /\ out'.starved
          /\ out'.framePending = s.framePending /\ out'.life = s.life
      BY <2>3, <2>4, StarveFields
    <3>2. callbacks' = owed /\ held' = held /\ shown' = shown
      BY <2>4 DEF Starve
    <3>3. Counted' /\ Paced' /\ ThrottleSound'
      BY <1>0, <3>1, <3>2 DEF Counted, Paced, ThrottleSound
    <3> QED
      BY <1>0, <2>3, <3>1, <3>2, <3>3
  <2>5. ASSUME NEW b \in a.taken, Paint(s, a.buffers, b, owed)
        PROVE  /\ out' \in Members /\ Counted' /\ out'.life = s.life
               /\ ThrottleSound' /\ BuffersSound(out'.buffers, held') /\ Paced'
               /\ shown' \notin held
    <3>1. b \in a.buffers /\ b.id \notin held /\ b.id \in Buffers
      BY <2>3 DEF Buffer
    <3>2. /\ (a.buffers \ {b}) \cup {Busy(b)} \in SUBSET Buffer
          /\ BuffersSound((a.buffers \ {b}) \cup {Busy(b)}, held \cup {b.id})
      BY <2>3, <3>1, BusySound
    <3>3. /\ out' \in Members /\ out'.buffers = (a.buffers \ {b}) \cup {Busy(b)}
          /\ out'.framePending /\ ~out'.dirty /\ out'.life = s.life
      BY <2>5, <3>2, PaintFields
    <3>4. callbacks' = owed + 1 /\ held' = held \cup {b.id} /\ shown' = b.id
      BY <2>5 DEF Paint
    <3>5. Cardinality(held') = Cardinality(held) + 1
      BY <1>0, <3>1, <3>4, FS_AddElement
    <3>6. Counted' /\ Paced' /\ ThrottleSound'
      BY <1>0, <3>1, <3>3, <3>4, <3>5 DEF Counted, Paced, ThrottleSound
    <3> QED
      BY <3>1, <3>2, <3>3, <3>4, <3>6
  <2> QED
    BY <2>2, <2>4, <2>5
<1> QED
  BY <1>1, <1>2

-----------------------------------------------------------------------------
\* The steps.

\* An output from nowhere, with its lock surface or without.
LEMMA NewOutputSound ==
    ASSUME NEW scale \in Scales \cup {1}
    PROVE  /\ NewOutput(scale) \in Members /\ NewOutput(scale).buffers = {}
           /\ NewOutput(scale).width = 0 /\ NewOutput(scale).framePending = FALSE
           /\ NewOutput(scale).life = "plugged"
  BY DEF NewOutput, Members

\* The members the invariant looks at.
Alike(t, s) == /\ t.buffers = s.buffers /\ t.framePending = s.framePending
               /\ t.dirty = s.dirty /\ t.width = s.width /\ t.starved = s.starved
               /\ t.life = s.life

LEMMA AlikeSound ==
    ASSUME Inv, out' \in Members, Alike(out', out), active' \in BOOLEAN,
           UNCHANGED <<held, callbacks, shown>>
    PROVE  Inv'
  BY DEF Inv, Alike, Counted, ThrottleSound, Paced, Configured, Unplugged

LEMMA InvalidateSound ==
    ASSUME Inv, Invalidate
    PROVE  Inv' /\ (callbacks' > callbacks \/ shown' # shown => shown' \notin held)
<1> DEFINE s == [out EXCEPT !.dirty = TRUE]
<1>0. /\ MaxCallbacks \in Nat /\ callbacks \in Nat /\ active' \in BOOLEAN /\ Counted
      /\ BuffersSound(out.buffers, held)
  BY OutputAssumption DEF Inv, Counted, Invalidate
<1>1. /\ s \in Members /\ s.buffers = out.buffers /\ s.framePending = out.framePending
      /\ s.life = "plugged"
  BY Zenon DEF Inv, Members, Invalidate
<1>2. CASE s.framePending
  <2>1. out' = s /\ UNCHANGED <<held, callbacks, shown>>
    BY <1>2 DEF Invalidate
  <2> HIDE DEF s
  <2>2. Counted' /\ Paced' /\ ThrottleSound' /\ Unplugged'
    BY <1>1, <1>2, <2>1 DEF Inv, Counted, Paced, ThrottleSound, Unplugged
  <2> QED
    BY <1>0, <1>1, <2>1, <2>2 DEF Inv
<1>3. CASE ~s.framePending
  <2>1. Render(s, callbacks)
    BY <1>3 DEF Invalidate
  <2>2. callbacks \in 0 .. MaxCallbacks /\ Cardinality(held) <= MaxHolds + callbacks
    BY <1>0, <1>1, <1>3 DEF Inv, Paced
  <2> HIDE DEF s
  <2> QED
    BY <1>0, <1>1, <1>3, <2>1, <2>2, RenderSound DEF Inv, Unplugged
<1> QED
  BY <1>2, <1>3

LEMMA OnFrameSound ==
    ASSUME Inv, OnFrame
    PROVE  /\ Inv'
           /\ callbacks' > callbacks \/ shown' # shown \/ out'.framePending => shown' \notin held
<1> DEFINE s == [out EXCEPT !.framePending = FALSE]
<1>0. /\ MaxCallbacks \in Nat /\ MaxHolds \in Nat /\ callbacks \in 1 .. MaxCallbacks + 1
      /\ active' \in BOOLEAN /\ Counted
      /\ BuffersSound(out.buffers, held) /\ Cardinality(held) <= MaxHolds
  BY OutputAssumption DEF Inv, Counted, OnFrame
<1>1. /\ s \in Members /\ s.buffers = out.buffers /\ s.framePending = FALSE /\ s.dirty = out.dirty
      /\ s.life = "plugged"
  BY Zenon DEF Inv, Members, OnFrame
<1>2. Cardinality(held) \in Nat
  BY FS_Subset, FS_CardinalityType, BuffersFinite DEF Inv, Counted
<1>3. callbacks - 1 \in 0 .. MaxCallbacks /\ Cardinality(held) <= MaxHolds + (callbacks - 1)
  BY <1>0, <1>2
<1>4. CASE Render(s, callbacks - 1)
  <2>1. callbacks' > callbacks => callbacks' > callbacks - 1
    <3>1. callbacks' \in Nat
      <4> HIDE DEF s
      <4> QED BY <1>0, <1>1, <1>3, <1>4, RenderSound DEF Counted
    <3> QED
      BY <1>0, <3>1
  <2> HIDE DEF s
  <2> QED
    BY <1>0, <1>1, <1>3, <1>4, <2>1, RenderSound DEF Inv, Unplugged
<1>5. CASE ~s.dirty /\ out' = s /\ callbacks' = callbacks - 1 /\ UNCHANGED <<held, shown>>
  <2> HIDE DEF s
  <2>1. Counted' /\ Paced' /\ ThrottleSound' /\ Unplugged'
    BY <1>0, <1>1, <1>2, <1>3, <1>5 DEF Counted, Paced, ThrottleSound, Unplugged
  <2> QED
    BY <1>0, <1>1, <1>5, <2>1 DEF Inv
<1> QED
  BY <1>4, <1>5 DEF OnFrame

LEMMA OnConfigureSound ==
    ASSUME Inv, OnConfigure
    PROVE  Inv' /\ (callbacks' > callbacks \/ shown' # shown => shown' \notin held)
<1>0. /\ MaxCallbacks \in Nat /\ active' \in BOOLEAN /\ Counted
      /\ BuffersSound(out.buffers, held) /\ callbacks \in 0 .. MaxCallbacks
      /\ Cardinality(held) <= MaxHolds + callbacks
  BY OutputAssumption DEF Inv, Counted, Paced, OnConfigure
<1>1. PICK width \in Widths : Render([out EXCEPT !.width = width, !.dirty = TRUE], callbacks)
  BY DEF OnConfigure
<1> DEFINE s == [out EXCEPT !.width = width, !.dirty = TRUE]
<1>2. /\ s \in Members /\ s.buffers = out.buffers /\ s.framePending = out.framePending
      /\ s.life = "plugged"
  BY Zenon DEF Inv, Members, OnConfigure
<1> HIDE DEF s
<1>3. s.framePending => callbacks > 0
  BY <1>2 DEF Inv, ThrottleSound
<1>4. Render(s, callbacks)
  BY <1>1 DEF s
<1> QED
  BY <1>0, <1>2, <1>3, <1>4, RenderSound DEF Inv, Unplugged

LEMMA ComingAndGoing ==
    ASSUME Inv, Lock \/ OnScale \/ OnGlobal \/ OnGlobalRemove
    PROVE  Inv' /\ ~(callbacks' > callbacks) /\ shown' = shown
<1>0. /\ out \in Members /\ active \in BOOLEAN /\ Counted /\ MaxCallbacks \in Nat
      /\ MaxHolds \in Nat
  BY OutputAssumption DEF Inv
<1>c. callbacks \in Nat
  BY <1>0 DEF Counted
<1>1. ASSUME NEW x \in Scales \cup {1}
      PROVE  /\ [out EXCEPT !.scale = x] \in Members /\ Alike([out EXCEPT !.scale = x], out)
             /\ [out EXCEPT !.surfaceScale = x] \in Members
             /\ Alike([out EXCEPT !.surfaceScale = x], out)
  BY <1>0, Zenon DEF Members, Alike
<1>2. out.scale \in Scales \cup {1} /\ Alike(out, out)
  BY <1>0 DEF Members, Alike
<1>3. CASE Lock
  <2>1. out' \in Members /\ Alike(out', out)
    BY <1>0, <1>1, <1>2, <1>3 DEF Lock, CreateLockSurface
  <2> QED
    BY <1>3, <1>c, <2>1, AlikeSound DEF Lock
<1>4. CASE OnScale
  <2>1. out' \in Members /\ Alike(out', out)
    <3>1. PICK scale \in Scales \cup {0} :
             out' = IF scale > 0 THEN [out EXCEPT !.scale = scale] ELSE out
      BY <1>4 DEF OnScale
    <3>2. scale > 0 => scale \in Scales \cup {1}
      OBVIOUS
    <3> QED
      BY <1>0, <1>1, <1>2, <3>1, <3>2
  <2>2. UNCHANGED <<active, held, callbacks, shown>>
    BY <1>4 DEF OnScale
  <2> QED
    BY <1>0, <1>c, <2>1, <2>2, AlikeSound
<1>5. CASE OnGlobal
  <2> DEFINE new == NewOutput(1)
  <2>1. new \in Members /\ new.buffers = {} /\ new.width = 0 /\ new.framePending = FALSE
    BY NewOutputSound
  <2>2. out' = new \/ out' = [new EXCEPT !.surfaceScale = new.scale]
    BY <1>5 DEF OnGlobal, CreateLockSurface
  <2> HIDE DEF new
  <2>3. /\ [new EXCEPT !.surfaceScale = new.scale] \in Members
        /\ [new EXCEPT !.surfaceScale = new.scale].buffers = new.buffers
        /\ [new EXCEPT !.surfaceScale = new.scale].width = new.width
        /\ [new EXCEPT !.surfaceScale = new.scale].framePending = new.framePending
    BY <2>1, Zenon DEF Members
  <2>4. out' \in Members /\ out'.buffers = {} /\ out'.width = 0 /\ out'.framePending = FALSE
    BY <2>1, <2>2, <2>3
  <2>5. UNCHANGED <<active, held, callbacks, shown>>
    BY <1>5 DEF OnGlobal
  <2>6. held = {} /\ callbacks <= MaxCallbacks
    BY <1>5 DEF OnGlobal, Inv, Unplugged, BuffersSound, Ids, Paced
  <2>7. BuffersSound(out'.buffers, held')
    BY <2>4, <2>5, <2>6 DEF BuffersSound
  <2>8. Counted' /\ ThrottleSound' /\ Paced' /\ Unplugged'
    BY <1>0, <2>4, <2>5, <2>6 DEF Inv, Counted, ThrottleSound, Configured, Paced, Unplugged
  <2> QED
    BY <1>0, <1>c, <2>4, <2>5, <2>7, <2>8 DEF Inv
<1>6. CASE OnGlobalRemove
  <2> DEFINE new == NewOutput(1)
  <2>1. new \in Members /\ new.buffers = {} /\ new.width = 0 /\ new.framePending = FALSE
    BY NewOutputSound
  <2>2. out' = [new EXCEPT !.life = "removed"]
    BY <1>6 DEF OnGlobalRemove
  <2> HIDE DEF new
  <2>3. /\ out' \in Members /\ out'.buffers = new.buffers /\ out'.width = new.width
        /\ out'.framePending = new.framePending /\ out'.life = "removed"
    BY <2>1, <2>2, Zenon DEF Members
  <2>4. /\ held' = {} /\ shown' = shown /\ active' = active
        /\ callbacks' = IF out.framePending THEN callbacks - 1 ELSE callbacks
    BY <1>6 DEF OnGlobalRemove
  <2>5. callbacks' \in 0 .. MaxCallbacks /\ callbacks' <= callbacks
    BY <1>0, <2>4 DEF Inv, Counted, ThrottleSound, Paced
  <2>6. BuffersSound(out'.buffers, held')
    BY <2>1, <2>3, <2>4 DEF BuffersSound
  <2>7. Cardinality(held') = 0
    BY <2>4, FS_EmptySet
  <2>8. Counted' /\ ThrottleSound' /\ Paced' /\ Unplugged'
    BY <1>0, <2>1, <2>3, <2>4, <2>5, <2>7
       DEF Counted, ThrottleSound, Configured, Paced, Unplugged
  <2> QED
    BY <1>0, <1>c, <2>3, <2>4, <2>5, <2>6, <2>8 DEF Inv
<1> QED
  BY <1>3, <1>4, <1>5, <1>6

LEMMA HandleReleaseSound ==
    ASSUME Inv, NEW b \in Buffers, HandleRelease(b)
    PROVE  Inv' /\ callbacks' = callbacks /\ shown' = shown
<1> DEFINE new == {IF x.id = b THEN Idle(x) ELSE x : x \in out.buffers}
<1>0. /\ out \in Members /\ out.buffers \in SUBSET Buffer /\ BuffersSound(out.buffers, held)
      /\ MaxCallbacks \in Nat /\ MaxHolds \in Nat
  BY OutputAssumption DEF Inv, Members
<1>1. /\ b \in held /\ held' = held \ {b} /\ UNCHANGED <<active, callbacks, shown>>
      /\ out' = [out EXCEPT !.buffers = new]
  BY DEF HandleRelease
<1>2. new \in SUBSET Buffer /\ BuffersSound(new, held \ {b})
  BY <1>0, <1>1, ReleaseSound
<1>3. out.buffers # {}
  BY <1>0, <1>1 DEF BuffersSound, Ids
<1> HIDE DEF new
<1>4. /\ out' \in Members /\ out'.buffers = new /\ out'.framePending = out.framePending
      /\ out'.dirty = out.dirty /\ out'.width = out.width /\ out'.starved = out.starved
      /\ out'.life = out.life
  BY <1>0, <1>1, <1>2, Zenon DEF Members
<1>5. Cardinality(held') <= Cardinality(held) /\ Cardinality(held') \in Nat
      /\ Cardinality(held) \in Nat
  <2>1. IsFiniteSet(held) /\ held' \in SUBSET held
    BY <1>1, FS_Subset, BuffersFinite DEF Inv, Counted
  <2> QED
    BY <2>1, FS_Subset, FS_CardinalityType
<1>6. Counted' /\ ThrottleSound' /\ Paced' /\ Unplugged'
  BY <1>0, <1>1, <1>3, <1>4, <1>5
     DEF Inv, Counted, ThrottleSound, Configured, Paced, Unplugged
<1> QED
  BY <1>1, <1>2, <1>4, <1>6 DEF Inv

\* One step: the invariant, and no commit of a buffer the compositor reads from.
LEMMA StepSound ==
    ASSUME Inv, Next
    PROVE  /\ Inv'
           /\ (callbacks' > callbacks \/ shown' # shown \/ (OnFrame /\ out'.framePending))
                 => shown' \notin held
<1>0. callbacks \in Nat
  BY OutputAssumption DEF Inv, Counted
<1>1. OnFrame /\ out'.framePending => shown' \notin held
  BY OnFrameSound
<1>2. CASE Lock \/ OnScale \/ OnGlobal \/ OnGlobalRemove
  BY <1>1, <1>2, ComingAndGoing
<1>3. CASE Invalidate
  BY <1>1, <1>3, InvalidateSound
<1>4. CASE OnFrame
  BY <1>4, OnFrameSound
<1>5. CASE OnConfigure
  BY <1>1, <1>5, OnConfigureSound
<1>6. CASE \E b \in Buffers : HandleRelease(b)
  <2>1. Inv' /\ callbacks' = callbacks /\ shown' = shown
    BY <1>6, HandleReleaseSound
  <2> QED
    BY <1>0, <1>1, <2>1
<1> QED
  BY <1>2, <1>3, <1>4, <1>5, <1>6 DEF Next

LEMMA InitSound == Init => Inv
<1> SUFFICES ASSUME Init PROVE Inv
  OBVIOUS
<1>0. MaxCallbacks \in Nat /\ MaxHolds \in Nat
  BY OutputAssumption
<1>1. out \in Members /\ out.buffers = {} /\ out.width = 0 /\ out.framePending = FALSE
  <2>1. CASE \E scale \in Scales : out = NewOutput(scale)
    BY <2>1, NewOutputSound
  <2>2. CASE out = [NewOutput(1) EXCEPT !.life = "absent"]
    <3> DEFINE new == NewOutput(1)
    <3>1. new \in Members /\ new.buffers = {} /\ new.width = 0 /\ new.framePending = FALSE
      BY NewOutputSound
    <3>2. out = [new EXCEPT !.life = "absent"]
      BY <2>2
    <3> HIDE DEF new
    <3> QED
      BY <3>1, <3>2, Zenon DEF Members
  <2> QED
    BY <2>1, <2>2 DEF Init
<1>2. active = FALSE /\ held = {} /\ callbacks = 0 /\ shown = 0
  BY DEF Init
<1>3. active \in BOOLEAN
  BY <1>2, Zenon
<1>4. Counted /\ ThrottleSound /\ Unplugged
  BY <1>0, <1>1, <1>2 DEF Counted, ThrottleSound, Configured, Unplugged
<1>5. BuffersSound(out.buffers, held)
  BY <1>1, <1>2 DEF BuffersSound
<1>6. Paced
  BY <1>0, <1>2, FS_EmptySet DEF Paced
<1> QED
  BY <1>1, <1>3, <1>4, <1>5, <1>6 DEF Inv

LEMMA InvStep == Inv /\ [Next]_vars => Inv'
<1> SUFFICES ASSUME Inv, [Next]_vars PROVE Inv'
  OBVIOUS
<1>1. CASE UNCHANGED vars
  BY <1>1 DEF vars, Inv, Counted, ThrottleSound, Configured, Paced, Unplugged
<1> QED
  BY <1>1, StepSound

LEMMA InvTypes == Inv => TypeOK
  BY DEF Inv, TypeOK, Counted, Members, Buffer

-----------------------------------------------------------------------------

\* One monitor keeps its types through any sequence of configures, scales, frames, releases
\* and hotplug, and never runs out of the bounds; the inductive invariant holds.
THEOREM TypeCorrect == Spec => []TypeOK
  BY InitSound, InvStep, InvTypes, PTL DEF Spec

\* What waits for a frame callback is owed one; what is dirty waits for one or had no buffer.
THEOREM ThrottleCorrect == Spec => []ThrottleSound
<1>1. Inv => ThrottleSound
  BY DEF Inv
<1> QED
  BY <1>1, InitSound, InvStep, PTL DEF Spec

\* A commit takes a buffer the compositor is not reading from, however many buffers are out
\* and whatever order releases, callbacks and sizes come in.
THEOREM PaintCorrect == Spec => NeverPaintsHeld
<1> DEFINE Commit == callbacks' > callbacks \/ shown' # shown \/ (OnFrame /\ out'.framePending)
<1>1. Inv /\ [Next]_vars => [Commit => shown' \notin held]_vars
  <2> SUFFICES ASSUME Inv, Next, Commit PROVE shown' \notin held
    BY Zenon
  <2> QED
    BY StepSound
<1> QED
  BY <1>1, InitSound, InvStep, PTL DEF Spec, NeverPaintsHeld

=============================================================================
