---------------------------- MODULE Icons_proofs ----------------------------
(***************************************************************************)
(* Proofs about the icons: the cache owns what a card was drawn with and   *)
(* never grows past its limit, and the file an application gets is the     *)
(* best there is, for any applications, directories and files installed.   *)
(***************************************************************************)
EXTENDS Icons, FiniteSetTheorems, WellFoundedInduction, TLAPS

-----------------------------------------------------------------------------
\* Least elements.

LEMMA Least ==
    ASSUME NEW S \in SUBSET Nat, S # {}
    PROVE  \E x \in S : \A y \in S : x <= y
<1>1. PICK x \in S : \A y \in S : <<y, x>> \notin OpToRel(<, Nat)
  BY WFMin, NatLessThanWellFounded
<1>2. \A y \in S : ~(y < x)
  BY <1>1 DEF OpToRel
<1> QED
  BY <1>2

Before(f, g) == f.dir < g.dir \/ (f.dir = g.dir /\ f.place <= g.place)

LEMMA FilesAre ==
    \A f \in Files : /\ f.dir \in Nat \ {0} /\ f.place \in Nat \ {0}
                     /\ f.dir <= Dirs /\ f.place <= Places
                     /\ f = File(f.dir, f.place, f.name)
<1> SUFFICES ASSUME NEW f \in Files
             PROVE  /\ f.dir \in Nat \ {0} /\ f.place \in Nat \ {0}
                    /\ f.dir <= Dirs /\ f.place <= Places
                    /\ f = File(f.dir, f.place, f.name)
  OBVIOUS
<1>1. f.dir \in 1 .. Dirs /\ f.place \in 1 .. Places
      /\ f = [dir |-> f.dir, place |-> f.place, name |-> f.name]
  BY DEF Files
<1> QED
  BY <1>1, IconsAssumption DEF File

LEMMA NoFileIsNone == NoFile \notin Files
<1>1. NoFile.dir = 0
  BY DEF NoFile, File
<1> QED
  BY <1>1, FilesAre

\* Of some files one comes first.
LEMMA FirstFile ==
    ASSUME NEW found \in SUBSET Files, found # {}
    PROVE  \E f \in found : \A g \in found : Before(f, g)
<1> DEFINE dirs == {f.dir : f \in found}
<1>1. dirs \in SUBSET Nat /\ dirs # {}
  BY FilesAre
<1>2. PICK d \in dirs : \A e \in dirs : d <= e
  BY <1>1, Least
<1> DEFINE there == {f \in found : f.dir = d}
           places == {f.place : f \in there}
<1>3. places \in SUBSET Nat /\ places # {}
  BY FilesAre
<1>4. PICK p \in places : \A q \in places : p <= q
  BY <1>3, Least
<1>5. PICK f \in there : f.place = p
  OBVIOUS
<1>6. ASSUME NEW g \in found PROVE Before(f, g)
  <2>1. d <= g.dir /\ (g.dir = d => p <= g.place)
    BY <1>2, <1>4
  <2>2. f.dir = d /\ f.place = p /\ d \in Nat /\ g.dir \in Nat
    BY <1>1, <1>5, FilesAre
  <2> QED
    BY <2>1, <2>2 DEF Before
<1> QED
  BY <1>5, <1>6

\* What findFile finds: no file, or of the files there are the one that comes first.
Finds(f, name) ==
    \/ f = NoFile /\ \A g \in disk : g.name # name
    \/ f \in disk /\ f.name = name /\ \A g \in disk : g.name = name => Before(f, g)

LEMMA FindFileFinds ==
    ASSUME disk \subseteq Files, NEW name
    PROVE  Finds(FindFile(name), name)
<1> DEFINE found == {f \in disk : f.name = name}
<1>1. CASE found = {}
  BY <1>1 DEF FindFile, Finds
<1>2. CASE found # {}
  <2>1. \E f \in found : \A g \in found : Before(f, g)
    BY <1>2, FirstFile
  <2>2. FindFile(name) = CHOOSE f \in found : \A g \in found : Before(f, g)
    BY <1>2 DEF FindFile, Before
  <2> QED
    BY <2>1, <2>2 DEF Finds
<1> QED
  BY <1>1, <1>2

-----------------------------------------------------------------------------
\* The names.

Marks == Words \cup {Dot, Dash}
Names == Seq(Marks)

LEMMA DotIsNoWord == Dot \notin Words /\ Dash \notin Words /\ Dot # Dash
  BY DEF Dot, Dash, Words

LEMMA LowerWordIsWord == \A w \in Words : LowerWord(w) \in Words
  BY DEF Words, LowerWord

LEMMA JoinedName ==
    ASSUME NEW parts \in Seq(Words), parts # <<>>, NEW mark \in {Dot, Dash}
    PROVE  /\ Joined(parts, mark) \in Names
           /\ Len(Joined(parts, mark)) = 2 * Len(parts) - 1
           /\ \A i \in 1 .. 2 * Len(parts) - 1 :
                 Joined(parts, mark)[i] = IF i % 2 = 1 THEN parts[(i + 1) \div 2] ELSE mark
<1>1. Len(parts) \in Nat \ {0} /\ \A k \in 1 .. Len(parts) : parts[k] \in Words
  OBVIOUS
<1> DEFINE n == 2 * Len(parts) - 1
<1>2. n \in Nat
  BY <1>1
<1>3. ASSUME NEW i \in 1 .. n PROVE (IF i % 2 = 1 THEN parts[(i + 1) \div 2] ELSE mark) \in Marks
  <2>1. (i + 1) \div 2 \in 1 .. Len(parts)
    BY <1>1
  <2> QED
    BY <1>1, <2>1 DEF Marks
<1>4. Joined(parts, mark) \in [1 .. n -> Marks]
  BY <1>3 DEF Joined
<1>5. Joined(parts, mark) \in Names /\ Len(Joined(parts, mark)) = n
  BY <1>2, <1>4 DEF Names
<1> QED
  BY <1>5 DEF Joined

LEMMA LoweredName == \A name \in Names : Lowered(name) \in Names /\ Len(Lowered(name)) = Len(name)
<1> SUFFICES ASSUME NEW name \in Names
             PROVE  Lowered(name) \in Names /\ Len(Lowered(name)) = Len(name)
  OBVIOUS
<1>1. Len(name) \in Nat /\ DOMAIN name = 1 .. Len(name) /\ \A i \in 1 .. Len(name) : name[i] \in Marks
  BY DEF Names
<1>2. Lowered(name) \in [1 .. Len(name) -> Marks]
  BY <1>1, LowerWordIsWord DEF Lowered, Marks
<1> QED
  BY <1>1, <1>2 DEF Names

LEMMA DashedName == \A name \in Names : Dashed(name) \in Names /\ Len(Dashed(name)) = Len(name)
<1> SUFFICES ASSUME NEW name \in Names
             PROVE  Dashed(name) \in Names /\ Len(Dashed(name)) = Len(name)
  OBVIOUS
<1>1. Len(name) \in Nat /\ DOMAIN name = 1 .. Len(name) /\ \A i \in 1 .. Len(name) : name[i] \in Marks
  BY DEF Names
<1>2. Dashed(name) \in [1 .. Len(name) -> Marks]
  BY <1>1 DEF Dashed, Marks
<1> QED
  BY <1>1, <1>2 DEF Names

\* The first and the last dot, of a name that has one.
LEMMA DotsAre ==
    ASSUME NEW name \in Names, Dots(name) # {}
    PROVE  /\ FirstDot(name) \in Dots(name) /\ LastDot(name) \in Dots(name)
           /\ \A j \in Dots(name) : FirstDot(name) <= j /\ j <= LastDot(name)
           /\ Dots(name) \subseteq 1 .. Len(name)
<1>1. Len(name) \in Nat /\ Dots(name) \subseteq 1 .. Len(name)
  BY DEF Dots, Names
<1>2. \E i \in Dots(name) : \A j \in Dots(name) : i <= j
  <2>1. Dots(name) \in SUBSET Nat
    BY <1>1
  <2> QED
    BY <2>1, Least
<1>3. \E i \in Dots(name) : \A j \in Dots(name) : i >= j
  <2> DEFINE S == {Len(name) - i : i \in Dots(name)}
  <2>1. S \in SUBSET Nat /\ S # {}
    BY <1>1
  <2>2. PICK x \in S : \A y \in S : x <= y
    BY <2>1, Least
  <2>3. PICK i \in Dots(name) : x = Len(name) - i
    OBVIOUS
  <2>4. \A j \in Dots(name) : Len(name) - i <= Len(name) - j
    BY <2>2, <2>3
  <2> QED
    BY <1>1, <2>4
<1>4. FirstDot(name) \in Dots(name) /\ \A j \in Dots(name) : FirstDot(name) <= j
  BY <1>2 DEF FirstDot
<1>5. LastDot(name) \in Dots(name) /\ \A j \in Dots(name) : LastDot(name) >= j
  BY <1>3 DEF LastDot
<1> QED
  BY <1>1, <1>4, <1>5

LEMMA AfterName ==
    ASSUME NEW name \in Names, NEW i \in 1 .. Len(name)
    PROVE  /\ After(name, i) \in Names /\ Len(After(name, i)) = Len(name) - i
           /\ \A k \in 1 .. Len(name) - i : After(name, i)[k] = name[i + k]
  BY DEF After, Names

\* An application's names, after those of the case and of the dots: at most five.
Simple(name) == After(name, LastDot(name))
Rest(name) == Dashed(After(name, FirstDot(name)))

LEMMA TriedNames ==
    ASSUME NEW name \in Names
    PROVE  Tried(name) \in Seq(Names)
<1>1. name \in Names /\ Dashed(Lowered(name)) \in Names
  BY LoweredName, DashedName
<1>2. ASSUME Dots(name) # {}
      PROVE  Simple(name) \in Names /\ Lowered(Simple(name)) \in Names /\ Rest(name) \in Names
  <2>1. LastDot(name) \in 1 .. Len(name) /\ FirstDot(name) \in 1 .. Len(name)
    BY <1>2, DotsAre
  <2> QED
    BY <2>1, AfterName, LoweredName, DashedName DEF Simple, Rest
<1> DEFINE middle == IF Dots(name) = {} \/ LastDot(name) = 1 THEN <<>>
                     ELSE <<Simple(name)>>
                          \o (IF Lowered(Simple(name)) # Simple(name)
                              THEN <<Lowered(Simple(name))>> ELSE <<>>)
                          \o (IF FirstDot(name) < LastDot(name) THEN <<Rest(name)>> ELSE <<>>)
<1>3. middle \in Seq(Names)
  <2>0. <<>> \in Seq(Names)
    OBVIOUS
  <2>1. CASE Dots(name) = {} \/ LastDot(name) = 1
    BY <2>0, <2>1
  <2>2. CASE ~(Dots(name) = {} \/ LastDot(name) = 1)
    <3>1. <<Simple(name)>> \in Seq(Names) /\ <<Lowered(Simple(name))>> \in Seq(Names)
          /\ <<Rest(name)>> \in Seq(Names)
      BY <1>2, <2>2
    <3> QED
      BY <2>0, <2>2, <3>1
  <2> QED
    BY <2>1, <2>2
<1>4. <<name>> \in Seq(Names) /\ <<Dashed(Lowered(name))>> \in Seq(Names)
  BY <1>1
<1>5. Tried(name) = <<name>> \o middle \o <<Dashed(Lowered(name))>>
  BY DEF Tried, Simple, Rest
<1> HIDE DEF middle
<1> QED
  BY <1>3, <1>4, <1>5

-----------------------------------------------------------------------------
\* The file that is loaded.

\* f is the file of the first of some names that has one, or no name has one.
FirstHit(f, names) ==
    \/ f = NoFile /\ \A i \in DOMAIN names : FindFile(names[i]) = NoFile
    \/ \E i \in DOMAIN names : /\ f = FindFile(names[i]) /\ f # NoFile
                               /\ \A j \in 1 .. i - 1 : FindFile(names[j]) = NoFile

LEMMA ResolveHits ==
    ASSUME NEW name \in Names
    PROVE  FirstHit(ResolveName(name), Tried(name))
<1> DEFINE t == Tried(name)
           files == [i \in DOMAIN t |-> FindFile(t[i])]
           hits == {i \in DOMAIN files : files[i] # NoFile}
<1>1. Len(t) \in Nat /\ DOMAIN t = 1 .. Len(t)
  BY TriedNames
<1>2. ResolveName(name) = IF hits = {} THEN NoFile ELSE files[CHOOSE i \in hits : \A j \in hits : i <= j]
  BY DEF ResolveName
<1> HIDE DEF t
<1>3. CASE hits = {}
  BY <1>2, <1>3 DEF FirstHit, t
<1>4. CASE hits # {}
  <2>1. hits \in SUBSET Nat
    BY <1>1
  <2>2. \E i \in hits : \A j \in hits : i <= j
    BY <1>4, <2>1, Least
  <2> DEFINE first == CHOOSE i \in hits : \A j \in hits : i <= j
  <2>3. first \in hits /\ \A j \in hits : first <= j
    BY <2>2
  <2>4. ResolveName(name) = files[first]
    BY <1>2, <1>4
  <2> HIDE DEF first
  <2>5. first \in DOMAIN t /\ FindFile(t[first]) # NoFile /\ ResolveName(name) = FindFile(t[first])
    BY <2>3, <2>4
  <2>6. \A j \in 1 .. first - 1 : FindFile(t[j]) = NoFile
    <3> TAKE j \in 1 .. first - 1
    <3>1. j \in DOMAIN t /\ j < first
      BY <1>1, <2>5
    <3>2. j \notin hits
      BY <2>1, <2>3, <3>1
    <3> QED
      BY <3>1, <3>2
  <2> QED
    BY <2>5, <2>6 DEF FirstHit, t
<1> QED
  BY <1>3, <1>4

LEMMA ResolveTyped ==
    ASSUME disk \subseteq Files, NEW name \in Names
    PROVE  ResolveName(name) \in Files \cup {NoFile}
<1>1. FirstHit(ResolveName(name), Tried(name))
  BY ResolveHits
<1>2. \A n : FindFile(n) \in Files \cup {NoFile}
  BY FindFileFinds DEF Finds
<1> QED
  BY <1>1, <1>2 DEF FirstHit

-----------------------------------------------------------------------------
\* The cache.

Sound(c) ==
    /\ IsFiniteSet(DOMAIN c)
    /\ DOMAIN c \subseteq IconNames \ {NoIcon}
    /\ Cardinality(DOMAIN c) <= MaxCached
    /\ \A icon \in DOMAIN c : c[icon] \in Surfaces

Inv ==
    /\ disk \subseteq Files
    /\ Sound(cache)
    /\ drawn.note \in Notes \cup {NothingDrawn.note}
    /\ drawn.surface \in Surfaces \cup {NoSurface}
    /\ CacheOwnsDrawn

LEMMA IconIsName ==
    \A icon \in IconNames : icon \in Direct \/ icon = NoIcon \/ icon \in Names
<1>1. \A id \in Ids : Joined(id, Dot) \in Names
  BY JoinedName, IconsAssumption
<1> QED
  BY <1>1 DEF IconNames

LEMMA LoadsTyped ==
    ASSUME disk \subseteq Files, NEW icon \in IconNames \ {NoIcon}
    PROVE  Loads(icon) \subseteq Surfaces \cup {NoSurface}
<1>1. CASE icon \in Direct
  BY <1>1 DEF Loads, Surfaces
<1>2. CASE icon \notin Direct
  <2>1. ResolveName(icon) \in Files \cup {NoFile}
    BY <1>2, IconIsName, ResolveTyped
  <2> QED
    BY <1>2, <2>1 DEF Loads, Surfaces, NoSurface
<1> QED
  BY <1>1, <1>2

\* A new surface is kept under its name, and the cache grows no larger than it may be.
LEMMA KeepSound ==
    ASSUME NEW c, Sound(c), NEW icon \in IconNames \ {NoIcon}, icon \notin DOMAIN c,
           NEW surface \in Surfaces, NEW k \in Keep(c, icon, surface)
    PROVE  Sound(k) /\ icon \in DOMAIN k /\ k[icon] = surface
<1>1. PICK v \in Victims(c) : k = Stored([i \in DOMAIN c \ v |-> c[i]], icon, surface)
  BY DEF Keep
<1>2. DOMAIN k = (DOMAIN c \ v) \cup {icon}
      /\ \A i \in DOMAIN k : k[i] = IF i = icon THEN surface ELSE c[i]
  BY <1>1 DEF Stored
<1>3. IsFiniteSet(DOMAIN c) /\ Cardinality(DOMAIN c) \in Nat /\ Cardinality(DOMAIN c) <= MaxCached
      /\ MaxCached \in Nat
  BY FS_CardinalityType, IconsAssumption DEF Sound
<1>4. IsFiniteSet(DOMAIN c \ v) /\ Cardinality(DOMAIN c \ v) \in Nat
      /\ Cardinality(DOMAIN c \ v) < MaxCached
  <2>1. CASE Cardinality(DOMAIN c) >= MaxCached
    <3>1. PICK i \in DOMAIN c : v = {i}
      BY <1>1, <2>1 DEF Victims
    <3>2. IsFiniteSet(DOMAIN c \ {i}) /\ Cardinality(DOMAIN c \ {i}) = Cardinality(DOMAIN c) - 1
      BY <1>3, FS_RemoveElement
    <3>3. Cardinality(DOMAIN c \ {i}) \in Nat
      BY <3>2, FS_CardinalityType
    <3> QED
      BY <1>3, <3>1, <3>2, <3>3
  <2>2. CASE ~(Cardinality(DOMAIN c) >= MaxCached)
    <3>1. v = {}
      BY <1>1, <2>2 DEF Victims
    <3>2. DOMAIN c \ v = DOMAIN c
      BY <3>1
    <3> QED
      BY <1>3, <2>2, <3>2
  <2> QED
    BY <2>1, <2>2
<1>5. IsFiniteSet(DOMAIN k) /\ Cardinality(DOMAIN k) = Cardinality(DOMAIN c \ v) + 1
  <2>1. PICK S : S = DOMAIN c \ v
    OBVIOUS
  <2>2. \A x : x \notin S => /\ IsFiniteSet(S \cup {x})
                            /\ Cardinality(S \cup {x}) = Cardinality(S) + 1
    BY ONLY <1>4, <2>1, FS_AddElement
  <2> QED
    BY <1>2, <2>1, <2>2
<1>6. Cardinality(DOMAIN k) <= MaxCached
  BY <1>3, <1>4, <1>5
<1>7. DOMAIN k \subseteq IconNames \ {NoIcon} /\ \A i \in DOMAIN k : k[i] \in Surfaces
  BY <1>2 DEF Sound
<1> QED
  BY <1>2, <1>5, <1>6, <1>7 DEF Sound

\* get() hands out a surface only when the cache has it, under the name it was asked by.
LEMMA GetSound ==
    ASSUME disk \subseteq Files, NEW c, Sound(c), NEW icon \in IconNames, NEW got \in Get(c, icon)
    PROVE  /\ Sound(got.cache)
           /\ got.surface \in Surfaces \cup {NoSurface}
           /\ got.surface # NoSurface => icon \in DOMAIN got.cache /\ got.cache[icon] = got.surface
<1>1. CASE icon \in DOMAIN c
  <2>1. got = [cache |-> c, surface |-> c[icon]]
    BY <1>1 DEF Get
  <2> QED
    BY <1>1, <2>1 DEF Sound
<1>2. CASE icon \notin DOMAIN c /\ icon = NoIcon
  <2>1. got = [cache |-> c, surface |-> NoSurface]
    BY <1>2 DEF Get
  <2> QED
    BY <2>1
<1>3. CASE icon \notin DOMAIN c /\ icon # NoIcon
  <2>1. PICK s \in Loads(icon) :
            got \in IF s = NoSurface THEN {[cache |-> c, surface |-> s]}
                    ELSE {[cache |-> k, surface |-> s] : k \in Keep(c, icon, s)}
    BY <1>3 DEF Get
  <2>2. CASE s = NoSurface
    <3>1. got = [cache |-> c, surface |-> NoSurface]
      BY <2>1, <2>2
    <3> QED
      BY <3>1
  <2>3. CASE s # NoSurface
    <3>1. PICK k \in Keep(c, icon, s) : got = [cache |-> k, surface |-> s]
      BY <2>1, <2>3
    <3>2. s \in Surfaces
      BY <1>3, <2>3, LoadsTyped
    <3>3. Sound(k) /\ icon \in DOMAIN k /\ k[icon] = s
      BY <1>3, <3>2, KeepSound
    <3> QED
      BY <3>1, <3>2, <3>3
  <2> QED
    BY <2>2, <2>3
<1> QED
  BY <1>1, <1>2, <1>3

LEMMA DrawCardInv ==
    ASSUME Inv, NEW note \in Notes, DrawCard(note)
    PROVE  Inv'
<1>1. PICK got \in IF note.sensitive THEN {[cache |-> cache, surface |-> NoSurface]}
                   ELSE UNION {IF hint.surface # NoSurface THEN {hint} ELSE Get(hint.cache, note.app)
                                  : hint \in Get(cache, note.icon)} :
          cache' = got.cache /\ drawn' = [note |-> note, surface |-> got.surface]
  BY DEF DrawCard
<1>2. disk' = disk /\ disk \subseteq Files /\ Sound(cache)
  BY DEF DrawCard, Inv
<1>3. note.icon \in IconNames /\ note.app \in IconNames
  BY DEF Notes
<1>4. /\ Sound(got.cache)
      /\ got.surface \in Surfaces \cup {NoSurface}
      /\ got.surface # NoSurface =>
            ~note.sensitive /\ \E icon \in {note.icon, note.app} \cap DOMAIN got.cache :
                                   got.cache[icon] = got.surface
  <2>1. CASE note.sensitive
    <3>1. got = [cache |-> cache, surface |-> NoSurface]
      BY <1>1, <2>1
    <3> QED
      BY <1>2, <3>1
  <2>2. CASE ~note.sensitive
    <3>1. PICK hint \in Get(cache, note.icon) :
              got \in IF hint.surface # NoSurface THEN {hint} ELSE Get(hint.cache, note.app)
      BY <1>1, <2>2
    <3>2. /\ Sound(hint.cache)
          /\ hint.surface \in Surfaces \cup {NoSurface}
          /\ hint.surface # NoSurface =>
                note.icon \in DOMAIN hint.cache /\ hint.cache[note.icon] = hint.surface
      BY <1>2, <1>3, GetSound
    <3>3. CASE hint.surface # NoSurface
      BY <2>2, <3>1, <3>2, <3>3
    <3>4. CASE hint.surface = NoSurface
      <4>1. got \in Get(hint.cache, note.app)
        BY <3>1, <3>4
      <4>2. /\ Sound(got.cache)
            /\ got.surface \in Surfaces \cup {NoSurface}
            /\ got.surface # NoSurface =>
                  note.app \in DOMAIN got.cache /\ got.cache[note.app] = got.surface
        BY <1>2, <1>3, <3>2, <4>1, GetSound
      <4> QED
        BY <2>2, <4>2
    <3> QED
      BY <3>3, <3>4
  <2> QED
    BY <2>1, <2>2
<1>5. drawn'.note = note /\ drawn'.surface = got.surface
  BY <1>1
<1>6. CacheOwnsDrawn'
  BY <1>1, <1>4, <1>5 DEF CacheOwnsDrawn
<1>7. Sound(cache)'
  BY <1>1, <1>4 DEF Sound
<1> QED
  BY <1>2, <1>4, <1>5, <1>6, <1>7 DEF Inv

LEMMA InvInit == Init => Inv
<1> SUFFICES ASSUME Init PROVE Inv
  OBVIOUS
<1>1. disk = {} /\ cache = <<>> /\ drawn = NothingDrawn
  BY DEF Init
<1>2. DOMAIN cache = {}
  BY <1>1
<1>3. IsFiniteSet(DOMAIN cache) /\ Cardinality(DOMAIN cache) = 0
  BY <1>2, FS_EmptySet
<1>4. Sound(cache)
  BY <1>2, <1>3, IconsAssumption DEF Sound
<1>5. drawn.surface = NoSurface /\ drawn.note = NothingDrawn.note
  BY <1>1 DEF NothingDrawn
<1> QED
  BY <1>1, <1>4, <1>5 DEF Inv, CacheOwnsDrawn

LEMMA InvStep == Inv /\ [Next]_vars => Inv'
<1> SUFFICES ASSUME Inv, [Next]_vars PROVE Inv'
  OBVIOUS
<1>1. CASE UNCHANGED vars
  BY <1>1 DEF vars, Inv, Sound, CacheOwnsDrawn
<1>2. CASE Install
  <2>1. disk' \subseteq Files /\ cache' = cache /\ drawn' = drawn
    BY <1>2 DEF Install, Inv
  <2> QED
    BY <2>1 DEF Inv, Sound, CacheOwnsDrawn
<1>3. CASE Uninstall
  <2>1. disk' \subseteq Files /\ cache' = cache /\ drawn' = drawn
    BY <1>3 DEF Uninstall, Inv
  <2> QED
    BY <2>1 DEF Inv, Sound, CacheOwnsDrawn
<1>4. CASE \E note \in Notes : DrawCard(note)
  BY <1>4, DrawCardInv
<1> QED
  BY <1>1, <1>2, <1>3, <1>4 DEF Next

-----------------------------------------------------------------------------
\* The names of an application, word by word.

LowerId(id) == [i \in DOMAIN id |-> LowerWord(id[i])]

LEMMA IdIs ==
    \A id \in Ids : /\ id \in Seq(Words) /\ id # <<>> /\ Len(id) \in Nat \ {0}
                    /\ DOMAIN id = 1 .. Len(id) /\ \A i \in 1 .. Len(id) : id[i] \in Words
                    /\ LowerId(id) \in Seq(Words) /\ LowerId(id) # <<>> /\ Len(LowerId(id)) = Len(id)
<1> SUFFICES ASSUME NEW id \in Ids
             PROVE  /\ id \in Seq(Words) /\ id # <<>> /\ Len(id) \in Nat \ {0}
                    /\ DOMAIN id = 1 .. Len(id) /\ \A i \in 1 .. Len(id) : id[i] \in Words
                    /\ LowerId(id) \in Seq(Words) /\ LowerId(id) # <<>> /\ Len(LowerId(id)) = Len(id)
  OBVIOUS
<1>1. id \in Seq(Words) /\ id # <<>>
  BY IconsAssumption
<1>2. /\ Len(id) \in Nat \ {0} /\ DOMAIN id = 1 .. Len(id)
      /\ \A i \in 1 .. Len(id) : id[i] \in Words
  BY <1>1
<1>3. LowerId(id) \in [1 .. Len(id) -> Words]
  BY <1>2, LowerWordIsWord DEF LowerId
<1>4. LowerId(id) \in Seq(Words) /\ Len(LowerId(id)) = Len(id)
  BY <1>2, <1>3
<1>5. LowerId(id) # <<>>
  BY <1>2, <1>4
<1> QED
  BY <1>1, <1>2, <1>4, <1>5

\* The lowered name with dashes is the lowered words with dashes between.
LEMMA LoweredDashed ==
    ASSUME NEW id \in Ids
    PROVE  Dashed(Lowered(Joined(id, Dot))) = Joined(LowerId(id), Dash)
<1> DEFINE n == 2 * Len(id) - 1
           name == Joined(id, Dot)
<1>1. /\ name \in Names /\ Len(name) = n
      /\ \A i \in 1 .. n : name[i] = IF i % 2 = 1 THEN id[(i + 1) \div 2] ELSE Dot
  BY IdIs, JoinedName
<1>2. n \in Nat /\ DOMAIN name = 1 .. n
  BY <1>1 DEF Names
<1>3. Dashed(Lowered(name)) = [i \in 1 .. n |-> IF Lowered(name)[i] = Dot THEN Dash ELSE Lowered(name)[i]]
  BY <1>2 DEF Dashed, Lowered
<1>4. Joined(LowerId(id), Dash) = [i \in 1 .. n |-> IF i % 2 = 1 THEN LowerId(id)[(i + 1) \div 2] ELSE Dash]
  BY IdIs DEF Joined
<1>5. ASSUME NEW i \in 1 .. n
      PROVE  (IF Lowered(name)[i] = Dot THEN Dash ELSE Lowered(name)[i])
                 = IF i % 2 = 1 THEN LowerId(id)[(i + 1) \div 2] ELSE Dash
  <2>1. Lowered(name)[i] = IF name[i] \in Words THEN LowerWord(name[i]) ELSE name[i]
    BY <1>2 DEF Lowered
  <2>2. CASE i % 2 = 1
    <3>1. (i + 1) \div 2 \in 1 .. Len(id)
      BY <1>2, IdIs
    <3>2. name[i] = id[(i + 1) \div 2] /\ name[i] \in Words
      BY <1>1, <2>2, <3>1, IdIs
    <3>3. Lowered(name)[i] = LowerWord(name[i]) /\ Lowered(name)[i] \in Words
      BY <2>1, <3>2, LowerWordIsWord
    <3>4. LowerId(id)[(i + 1) \div 2] = LowerWord(id[(i + 1) \div 2])
      BY <3>1, IdIs DEF LowerId
    <3> QED
      BY <2>2, <3>2, <3>3, <3>4, DotIsNoWord
  <2>3. CASE i % 2 # 1
    <3>1. name[i] = Dot
      BY <1>1, <2>3
    <3>2. Lowered(name)[i] = Dot
      BY <2>1, <3>1, DotIsNoWord
    <3> QED
      BY <2>3, <3>2
  <2> QED
    BY <2>2, <2>3
<1> QED
  BY <1>3, <1>4, <1>5

\* The dots are at the even places.
LEMMA DotsOfId ==
    ASSUME NEW id \in Ids
    PROVE  Dots(Joined(id, Dot)) = {i \in 1 .. 2 * Len(id) - 1 : i % 2 = 0}
<1> DEFINE n == 2 * Len(id) - 1
           name == Joined(id, Dot)
<1>1. /\ name \in Names /\ Len(name) = n
      /\ \A i \in 1 .. n : name[i] = IF i % 2 = 1 THEN id[(i + 1) \div 2] ELSE Dot
  BY IdIs, JoinedName
<1>2. n \in Nat /\ DOMAIN name = 1 .. n
  BY <1>1 DEF Names
<1>3. ASSUME NEW i \in 1 .. n PROVE name[i] = Dot <=> i % 2 = 0
  <2>1. CASE i % 2 = 1
    <3>1. (i + 1) \div 2 \in 1 .. Len(id)
      BY <1>2, IdIs
    <3>2. name[i] \in Words
      BY <1>1, <2>1, <3>1, IdIs
    <3> QED
      BY <2>1, <3>2, DotIsNoWord
  <2>2. CASE i % 2 # 1
    <3>1. i % 2 = 0
      BY <1>2, <2>2
    <3> QED
      BY <1>1, <2>2, <3>1
  <2> QED
    BY <2>1, <2>2
<1> QED
  BY <1>2, <1>3 DEF Dots

LEMMA DotsOfLongId ==
    ASSUME NEW id \in Ids, Len(id) > 1
    PROVE  /\ Dots(Joined(id, Dot)) # {}
           /\ FirstDot(Joined(id, Dot)) = 2
           /\ LastDot(Joined(id, Dot)) = 2 * Len(id) - 2
<1> DEFINE n == 2 * Len(id) - 1
           name == Joined(id, Dot)
           first == FirstDot(name)
           last == LastDot(name)
<1>1. name \in Names /\ Len(id) \in Nat
  BY IdIs, JoinedName
<1>2. Dots(name) = {i \in 1 .. n : i % 2 = 0}
  BY DotsOfId
<1>3. 2 \in Dots(name) /\ n - 1 \in Dots(name) /\ \A i \in Dots(name) : 2 <= i /\ i <= n - 1 /\ i \in Nat
  <2>1. 2 \in 1 .. n /\ 2 % 2 = 0 /\ n - 1 \in 1 .. n /\ (n - 1) % 2 = 0 /\ n % 2 = 1
    BY <1>1
  <2>2. ASSUME NEW i \in 1 .. n, i % 2 = 0 PROVE 2 <= i /\ i <= n - 1
    BY <1>1, <2>1, <2>2
  <2> QED
    BY <1>2, <2>1, <2>2
<1>4. /\ first \in Dots(name) /\ last \in Dots(name)
      /\ \A j \in Dots(name) : first <= j /\ j <= last
  BY <1>1, <1>3, DotsAre
<1>5. first <= 2 /\ 2 <= first /\ n - 1 <= last /\ last <= n - 1 /\ first \in Nat /\ last \in Nat
  BY <1>3, <1>4
<1> QED
  BY <1>1, <1>3, <1>5

LEMMA SimpleOfId ==
    ASSUME NEW id \in Ids, Len(id) > 1
    PROVE  /\ Simple(Joined(id, Dot)) = <<id[Len(id)]>>
           /\ Lowered(Simple(Joined(id, Dot))) = <<LowerWord(id[Len(id)])>>
<1> DEFINE n == 2 * Len(id) - 1
           name == Joined(id, Dot)
<1>1. /\ name \in Names /\ Len(name) = n
      /\ \A i \in 1 .. n : name[i] = IF i % 2 = 1 THEN id[(i + 1) \div 2] ELSE Dot
  BY IdIs, JoinedName
<1>2. n - 1 \in 1 .. n /\ Len(id) \in Nat /\ id[Len(id)] \in Words
  BY IdIs
<1>3. /\ After(name, n - 1) \in Names /\ Len(After(name, n - 1)) = n - (n - 1)
      /\ \A k \in 1 .. n - (n - 1) : After(name, n - 1)[k] = name[(n - 1) + k]
  <2> HIDE DEF name, n
  <2> QED
    BY <1>1, <1>2, AfterName
<1>4. name[n] = id[Len(id)]
  <2>1. n \in 1 .. n /\ n % 2 = 1 /\ (n + 1) \div 2 = Len(id)
    BY <1>2
  <2> QED
    BY <1>1, <2>1
<1>5. Len(After(name, n - 1)) = 1 /\ After(name, n - 1)[1] = id[Len(id)]
  BY <1>2, <1>3, <1>4
<1>6. After(name, n - 1) = <<id[Len(id)]>>
  BY <1>3, <1>5 DEF Names
<1>7. LastDot(name) = n - 1
  BY <1>2, DotsOfLongId
<1>8. Simple(name) = <<id[Len(id)]>>
  BY <1>6, <1>7 DEF Simple
<1>9. Lowered(<<id[Len(id)]>>) = <<LowerWord(id[Len(id)])>>
  BY <1>2 DEF Lowered
<1> QED
  BY <1>8, <1>9

LEMMA RestOfId ==
    ASSUME NEW id \in Ids, Len(id) > 2
    PROVE  Rest(Joined(id, Dot)) = Joined(Tail(id), Dash)
<1> DEFINE n == 2 * Len(id) - 1
           name == Joined(id, Dot)
           after == After(name, 2)
<1>1. /\ name \in Names /\ Len(name) = n
      /\ \A i \in 1 .. n : name[i] = IF i % 2 = 1 THEN id[(i + 1) \div 2] ELSE Dot
  BY IdIs, JoinedName
<1>2. 2 \in 1 .. n /\ Len(id) \in Nat /\ FirstDot(name) = 2
  BY IdIs, DotsOfLongId
<1>3. after \in Names /\ Len(after) = n - 2 /\ \A k \in 1 .. n - 2 : after[k] = name[2 + k]
  <2> HIDE DEF name, n
  <2> QED
    BY <1>1, <1>2, AfterName
<1>4. Tail(id) \in Seq(Words) /\ Len(Tail(id)) = Len(id) - 1
      /\ \A k \in 1 .. Len(id) - 1 : Tail(id)[k] = id[k + 1]
  BY IdIs
<1>5. Joined(Tail(id), Dash) = [i \in 1 .. n - 2 |-> IF i % 2 = 1 THEN Tail(id)[(i + 1) \div 2] ELSE Dash]
  <2>1. 2 * (Len(id) - 1) - 1 = n - 2
    BY <1>2
  <2> QED
    BY <1>4, <2>1 DEF Joined
<1>6. Dashed(after) = [i \in 1 .. n - 2 |-> IF after[i] = Dot THEN Dash ELSE after[i]]
  BY <1>2, <1>3 DEF Dashed, Names
<1>7. ASSUME NEW i \in 1 .. n - 2
      PROVE  (IF after[i] = Dot THEN Dash ELSE after[i])
                 = IF i % 2 = 1 THEN Tail(id)[(i + 1) \div 2] ELSE Dash
  <2>1. 2 + i \in 1 .. n /\ (2 + i) % 2 = i % 2 /\ (2 + i + 1) \div 2 = (i + 1) \div 2 + 1
    BY <1>2
  <2>2. after[i] = IF i % 2 = 1 THEN id[(i + 1) \div 2 + 1] ELSE Dot
    BY <1>1, <1>3, <2>1
  <2>3. CASE i % 2 = 1
    <3>1. (i + 1) \div 2 \in 1 .. Len(id) - 1 /\ (i + 1) \div 2 + 1 \in 1 .. Len(id)
      BY <1>2, <2>3
    <3>2. after[i] = Tail(id)[(i + 1) \div 2] /\ after[i] \in Words
      BY <1>4, <2>2, <2>3, <3>1, IdIs
    <3> QED
      BY <2>3, <3>2, DotIsNoWord
  <2>4. CASE i % 2 # 1
    BY <2>2, <2>4
  <2> QED
    BY <2>3, <2>4
<1>8. Dashed(after) = Joined(Tail(id), Dash)
  BY <1>5, <1>6, <1>7
<1> QED
  BY <1>2, <1>8 DEF Rest

\* A first hit in two lists is one in the first list, or one in the second if the first has none.
LEMMA HitOfBoth ==
    ASSUME NEW s \in Seq(Names), NEW t \in Seq(Names), NEW f
    PROVE  FirstHit(f, s \o t) <=>
               (f # NoFile /\ FirstHit(f, s)) \/ (FirstHit(NoFile, s) /\ FirstHit(f, t))
<1> DEFINE st == s \o t
<1>1. /\ Len(s) \in Nat /\ Len(t) \in Nat /\ DOMAIN s = 1 .. Len(s) /\ DOMAIN t = 1 .. Len(t)
      /\ DOMAIN st = 1 .. Len(s) + Len(t)
      /\ \A i \in 1 .. Len(s) : st[i] = s[i]
      /\ \A i \in 1 .. Len(t) : st[Len(s) + i] = t[i]
  OBVIOUS
<1>2. \A i \in DOMAIN st : i \in 1 .. Len(s) \/ \E k \in 1 .. Len(t) : i = Len(s) + k
  <2> TAKE i \in DOMAIN st
  <2>1. i \in 1 .. Len(s) \/ (i - Len(s) \in 1 .. Len(t) /\ i = Len(s) + (i - Len(s)))
    BY <1>1
  <2> QED
    BY <2>1
<1> HIDE DEF st
<1>3. ASSUME FirstHit(f, st)
      PROVE  (f # NoFile /\ FirstHit(f, s)) \/ (FirstHit(NoFile, s) /\ FirstHit(f, t))
  <2>1. CASE f = NoFile /\ \A i \in DOMAIN st : FindFile(st[i]) = NoFile
    <3>1. \A i \in 1 .. Len(s) : FindFile(s[i]) = NoFile
      BY <1>1, <2>1
    <3>2. ASSUME NEW k \in 1 .. Len(t) PROVE FindFile(t[k]) = NoFile
      <4>1. Len(s) + k \in DOMAIN st
        BY <1>1
      <4> QED
        BY <1>1, <2>1, <4>1
    <3> QED
      BY <1>1, <2>1, <3>1, <3>2 DEF FirstHit
  <2>2. CASE \E i \in DOMAIN st : /\ f = FindFile(st[i]) /\ f # NoFile
                                  /\ \A j \in 1 .. i - 1 : FindFile(st[j]) = NoFile
    <3>1. PICK i \in DOMAIN st : /\ f = FindFile(st[i]) /\ f # NoFile
                                 /\ \A j \in 1 .. i - 1 : FindFile(st[j]) = NoFile
      BY <2>2
    <3>2. CASE i \in 1 .. Len(s)
      <4>1. f = FindFile(s[i]) /\ \A j \in 1 .. i - 1 : j \in 1 .. Len(s) /\ FindFile(s[j]) = NoFile
        BY <1>1, <3>1, <3>2
      <4> QED
        BY <1>1, <3>1, <3>2, <4>1 DEF FirstHit
    <3>3. CASE \E k \in 1 .. Len(t) : i = Len(s) + k
      <4>1. PICK k \in 1 .. Len(t) : i = Len(s) + k
        BY <3>3
      <4>2. \A j \in 1 .. Len(s) : FindFile(s[j]) = NoFile
        BY <1>1, <3>1, <4>1
      <4>3. ASSUME NEW j \in 1 .. k - 1 PROVE FindFile(t[j]) = NoFile
        <5>1. Len(s) + j \in 1 .. i - 1 /\ j \in 1 .. Len(t)
          BY <1>1, <4>1
        <5> QED
          BY <1>1, <3>1, <5>1
      <4>4. f = FindFile(t[k])
        BY <1>1, <3>1, <4>1
      <4> QED
        BY <1>1, <3>1, <4>2, <4>3, <4>4 DEF FirstHit
    <3> QED
      BY <1>2, <3>2, <3>3
  <2> QED
    BY <1>3, <2>1, <2>2 DEF FirstHit
<1>4. ASSUME f # NoFile, FirstHit(f, s)
      PROVE  FirstHit(f, st)
  <2>1. PICK i \in 1 .. Len(s) : f = FindFile(s[i]) /\ \A j \in 1 .. i - 1 : FindFile(s[j]) = NoFile
    BY <1>1, <1>4 DEF FirstHit
  <2>2. i \in DOMAIN st /\ f = FindFile(st[i]) /\ \A j \in 1 .. i - 1 : FindFile(st[j]) = NoFile
    BY <1>1, <2>1
  <2> QED
    BY <1>4, <2>2 DEF FirstHit
<1>5. ASSUME FirstHit(NoFile, s), FirstHit(f, t)
      PROVE  FirstHit(f, st)
  <2>1. \A i \in 1 .. Len(s) : FindFile(s[i]) = NoFile
    BY <1>1, <1>5 DEF FirstHit
  <2>2. CASE f = NoFile
    <3>1. \A k \in 1 .. Len(t) : FindFile(t[k]) = NoFile
      BY <1>1, <1>5, <2>2 DEF FirstHit
    <3>2. \A i \in DOMAIN st : FindFile(st[i]) = NoFile
      BY <1>1, <1>2, <2>1, <3>1
    <3> QED
      BY <2>2, <3>2 DEF FirstHit
  <2>3. CASE f # NoFile
    <3>1. PICK k \in 1 .. Len(t) : f = FindFile(t[k]) /\ \A j \in 1 .. k - 1 : FindFile(t[j]) = NoFile
      BY <1>1, <1>5, <2>3 DEF FirstHit
    <3>2. Len(s) + k \in DOMAIN st /\ f = FindFile(st[Len(s) + k])
      BY <1>1, <3>1
    <3>3. ASSUME NEW j \in 1 .. Len(s) + k - 1 PROVE FindFile(st[j]) = NoFile
      <4>1. CASE j \in 1 .. Len(s)
        BY <1>1, <2>1, <4>1
      <4>2. CASE j \notin 1 .. Len(s)
        <5>1. j - Len(s) \in 1 .. k - 1 /\ j - Len(s) \in 1 .. Len(t) /\ Len(s) + (j - Len(s)) = j
          BY <1>1, <4>2
        <5> QED
          BY <1>1, <3>1, <5>1
      <4> QED
        BY <4>1, <4>2
    <3> QED
      BY <2>3, <3>2, <3>3 DEF FirstHit
  <2> QED
    BY <2>2, <2>3
<1> QED
  BY <1>3, <1>4, <1>5 DEF st

LEMMA HitOfOne ==
    /\ \A f : FirstHit(f, <<>>) <=> f = NoFile
    /\ \A f, x : FirstHit(f, <<x>>) <=> f = FindFile(x)
    /\ \A f, x, y : FirstHit(f, <<x, y>>) <=>
           (f # NoFile /\ f = FindFile(x)) \/ (FindFile(x) = NoFile /\ f = FindFile(y))
<1>1. DOMAIN <<>> = {}
  OBVIOUS
<1>2. \A x : DOMAIN <<x>> = {1} /\ <<x>>[1] = x
  OBVIOUS
<1>3. \A x, y : DOMAIN <<x, y>> = {1, 2} /\ <<x, y>>[1] = x /\ <<x, y>>[2] = y
  OBVIOUS
<1>4. 1 .. 1 - 1 = {} /\ 1 .. 2 - 1 = {1}
  OBVIOUS
<1> QED
  BY <1>1, <1>2, <1>3, <1>4 DEF FirstHit

\* The first hit among the names tried is the first among the names wanted, which have the
\* last word twice when it is in lower case.
LEMMA WantedHits ==
    ASSUME NEW id \in Ids
    PROVE  FirstHit(ResolveName(Joined(id, Dot)), Wanted(id)) /\ Wanted(id) \in Seq(Names)
<1> DEFINE name == Joined(id, Dot)
           r == ResolveName(name)
           b == <<id[Len(id)]>>
           c == <<LowerWord(id[Len(id)])>>
           d == Joined(Tail(id), Dash)
           e == Joined(LowerId(id), Dash)
<1>1. name \in Names /\ Dashed(Lowered(name)) = e /\ e \in Names
  BY IdIs, JoinedName, LoweredDashed, LoweredName, DashedName
<1>2. FirstHit(r, Tried(name))
  BY <1>1, ResolveHits
<1>3. Len(id) \in Nat \ {0}
  BY IdIs
<1> DEFINE lower == IF c # b THEN <<c>> ELSE <<>>
           tail == IF Len(id) > 2 THEN <<d>> ELSE <<>>
           simple == IF Len(id) > 1 THEN <<b>> \o lower \o tail ELSE <<>>
           last == IF Len(id) > 1 THEN <<b, c>> ELSE <<>>
<1>4. Wanted(id) = <<name>> \o last \o tail \o <<e>>
  BY DEF Wanted, LowerId
<1>5. Tried(name) = <<name>> \o simple \o <<e>>
  <2>1. Tried(name) = <<name>>
                      \o (IF Dots(name) = {} \/ LastDot(name) = 1 THEN <<>>
                          ELSE <<Simple(name)>>
                               \o (IF Lowered(Simple(name)) # Simple(name)
                                   THEN <<Lowered(Simple(name))>> ELSE <<>>)
                               \o (IF FirstDot(name) < LastDot(name) THEN <<Rest(name)>> ELSE <<>>))
                      \o <<e>>
    BY <1>1 DEF Tried, Simple, Rest
  <2>2. CASE Len(id) = 1
    <3>1. 2 * Len(id) - 1 = 1
      BY <2>2
    <3>2. Dots(name) = {i \in 1 .. 1 : i % 2 = 0}
      BY <3>1, DotsOfId
    <3>3. Dots(name) = {}
      BY <3>2
    <3>4. ~(Len(id) > 1)
      BY <2>2
    <3> HIDE DEF name, b, c, d, e
    <3> QED
      BY <2>1, <3>3, <3>4
  <2>3. CASE Len(id) > 1
    <3>1. /\ Dots(name) # {} /\ FirstDot(name) = 2 /\ LastDot(name) = 2 * Len(id) - 2
          /\ Simple(name) = b /\ Lowered(Simple(name)) = c
      BY <2>3, DotsOfLongId, SimpleOfId
    <3>2. Len(id) > 2 => Rest(name) = d
      BY RestOfId
    <3>3. LastDot(name) # 1 /\ (FirstDot(name) < LastDot(name) <=> Len(id) > 2)
      BY <1>3, <2>3, <3>1
    <3> HIDE DEF name, b, c, d, e
    <3> QED
      BY <2>1, <2>3, <3>1, <3>2, <3>3
  <2>4. Len(id) = 1 \/ Len(id) > 1
    BY <1>3
  <2> QED
    BY <2>2, <2>3, <2>4
<1>6. Len(id) > 1 => b \in Names /\ c \in Names
  <2>1. Len(id) > 1 => Simple(name) = b /\ Lowered(Simple(name)) = c /\ LastDot(name) \in 1 .. Len(name)
    <3>1. Len(name) = 2 * Len(id) - 1
      BY IdIs, JoinedName
    <3> QED
      BY <1>3, <3>1, SimpleOfId, DotsOfLongId
  <2> QED
    BY <1>1, <2>1, AfterName, LoweredName DEF Simple
<1>7. Len(id) > 2 => d \in Names
  <2> SUFFICES ASSUME Len(id) > 2 PROVE d \in Names
    OBVIOUS
  <2>1. Tail(id) \in Seq(Words) /\ Len(Tail(id)) = Len(id) - 1
    BY <1>3, IdIs
  <2>2. Tail(id) # <<>>
    <3> DEFINE rest == Tail(id)
    <3>1. Len(rest) = Len(id) - 1 /\ Len(id) \in Nat
      BY <1>3, <2>1
    <3> HIDE DEF rest
    <3>2. rest # <<>>
      BY <3>1
    <3> QED
      BY <3>2 DEF rest
  <2> QED
    BY <2>1, <2>2, JoinedName
<1> HIDE DEF name, r, b, c, d, e
<1>8. /\ <<>> \in Seq(Names) /\ <<name>> \in Seq(Names) /\ <<e>> \in Seq(Names)
      /\ Len(id) > 1 => <<b>> \in Seq(Names) /\ <<c>> \in Seq(Names) /\ <<b, c>> \in Seq(Names)
      /\ Len(id) > 2 => <<d>> \in Seq(Names)
  BY <1>1, <1>6, <1>7
<1>9. \A s, t \in Seq(Names) : s \o t \in Seq(Names)
  OBVIOUS
<1>10. tail \in Seq(Names) /\ last \in Seq(Names) /\ (Len(id) > 1 => lower \in Seq(Names))
  BY <1>8
<1> HIDE DEF lower, tail, last
<1>11. Len(id) > 1 => <<b>> \o lower \in Seq(Names) /\ <<b>> \o lower \o tail \in Seq(Names)
  BY <1>8, <1>9, <1>10
<1>12. simple \in Seq(Names)
  BY <1>8, <1>11
<1>13. \A f : FirstHit(f, simple) <=> FirstHit(f, last \o tail)
  <2> TAKE f
  <2>1. FirstHit(f, last \o tail) <=>
            (f # NoFile /\ FirstHit(f, last)) \/ (FirstHit(NoFile, last) /\ FirstHit(f, tail))
    BY <1>10, HitOfBoth
  <2>2. CASE Len(id) > 1
    <3>1. \A g : FirstHit(g, <<b>> \o lower) <=>
                     (g # NoFile /\ FirstHit(g, <<b>>)) \/ (FirstHit(NoFile, <<b>>) /\ FirstHit(g, lower))
      BY <1>8, <1>10, <2>2, HitOfBoth
    <3>2. \A g : FirstHit(g, lower) <=> IF c # b THEN g = FindFile(c) ELSE g = NoFile
      BY HitOfOne DEF lower
    <3>3. \A g : FirstHit(g, last) <=>
              (g # NoFile /\ g = FindFile(b)) \/ (FindFile(b) = NoFile /\ g = FindFile(c))
      BY <2>2, HitOfOne DEF last
    <3>4. \A g : FirstHit(g, <<b>> \o lower) <=> FirstHit(g, last)
      BY <3>1, <3>2, <3>3, HitOfOne
    <3>5. FirstHit(f, <<b>> \o lower \o tail) <=>
              (f # NoFile /\ FirstHit(f, <<b>> \o lower))
              \/ (FirstHit(NoFile, <<b>> \o lower) /\ FirstHit(f, tail))
      BY <1>10, <1>11, <2>2, HitOfBoth
    <3>6. simple = <<b>> \o lower \o tail
      BY <2>2
    <3> HIDE DEF simple
    <3> QED
      BY <2>1, <3>4, <3>5, <3>6
  <2>3. CASE ~(Len(id) > 1)
    <3>1. simple = <<>> /\ last = <<>> /\ tail = <<>>
      BY <1>3, <2>3 DEF last, tail
    <3> HIDE DEF simple
    <3> QED
      BY <2>1, <3>1, HitOfOne
  <2> QED
    BY <2>2, <2>3
<1> HIDE DEF simple
<1>14. last \o tail \in Seq(Names)
  BY <1>9, <1>10
<1>15. <<name>> \o last \o tail = <<name>> \o (last \o tail)
  BY <1>8, <1>10
<1>16. \A f : FirstHit(f, <<name>> \o simple) <=> FirstHit(f, <<name>> \o (last \o tail))
  <2>1. \A f : FirstHit(f, <<name>> \o simple) <=>
            (f # NoFile /\ FirstHit(f, <<name>>)) \/ (FirstHit(NoFile, <<name>>) /\ FirstHit(f, simple))
    BY <1>8, <1>12, HitOfBoth
  <2>2. \A f : FirstHit(f, <<name>> \o (last \o tail)) <=>
            (f # NoFile /\ FirstHit(f, <<name>>)) \/ (FirstHit(NoFile, <<name>>) /\ FirstHit(f, last \o tail))
    BY <1>8, <1>14, HitOfBoth
  <2> QED
    BY <1>13, <2>1, <2>2, Zenon
<1>17. <<name>> \o simple \in Seq(Names) /\ <<name>> \o (last \o tail) \in Seq(Names)
  BY <1>8, <1>9, <1>12, <1>14
<1>18. FirstHit(r, <<name>> \o (last \o tail) \o <<e>>)
  <2>1. FirstHit(r, <<name>> \o simple \o <<e>>) <=>
            (r # NoFile /\ FirstHit(r, <<name>> \o simple))
            \/ (FirstHit(NoFile, <<name>> \o simple) /\ FirstHit(r, <<e>>))
    BY <1>8, <1>17, HitOfBoth
  <2>2. FirstHit(r, <<name>> \o (last \o tail) \o <<e>>) <=>
            (r # NoFile /\ FirstHit(r, <<name>> \o (last \o tail)))
            \/ (FirstHit(NoFile, <<name>> \o (last \o tail)) /\ FirstHit(r, <<e>>))
    BY <1>8, <1>17, HitOfBoth
  <2> QED
    BY <1>2, <1>5, <1>16, <2>1, <2>2, Zenon
<1>19. Wanted(id) \in Seq(Names)
  BY <1>4, <1>8, <1>9, <1>15, <1>17
<1> QED
  BY <1>4, <1>15, <1>18, <1>19 DEF name, r

-----------------------------------------------------------------------------
\* The order of the files.

NameRank(names, f) ==
    CHOOSE i \in DOMAIN names : names[i] = f.name /\ \A j \in 1 .. i - 1 : names[j] # f.name
FileRank(names, f) == (NameRank(names, f) * (Dirs + 1) + f.dir) * (Places + 1) + f.place

\* A pair of digits is ordered by the first, then by the second.
LEMMA Digits ==
    ASSUME NEW m \in Nat, NEW a \in Nat, NEW b \in Nat, NEW x \in 0 .. m, NEW y \in 0 .. m
    PROVE  /\ a < b => a * (m + 1) + x < b * (m + 1) + y
           /\ a * (m + 1) + x = b * (m + 1) + y => a = b /\ x = y
<1>1. ASSUME NEW p \in Nat, NEW q \in Nat, p < q, NEW u \in 0 .. m, NEW v \in 0 .. m
      PROVE  p * (m + 1) + u < q * (m + 1) + v
  <2>1. PICK k \in Nat : q = p + 1 + k
    <3>1. q - (p + 1) \in Nat /\ q = p + 1 + (q - (p + 1))
      BY <1>1
    <3> QED
      BY <3>1
  <2>2. q * (m + 1) = p * (m + 1) + (m + 1) + k * (m + 1)
    BY <2>1
  <2>3. p * (m + 1) \in Nat /\ k * (m + 1) \in Nat
    BY <2>1
  <2> QED
    BY <2>2, <2>3
<1>2. ASSUME a * (m + 1) + x = b * (m + 1) + y PROVE a = b /\ x = y
  <2>1. a * (m + 1) \in Nat /\ b * (m + 1) \in Nat
    OBVIOUS
  <2>2. ~(a < b)
    <3> SUFFICES ASSUME a < b PROVE FALSE
      OBVIOUS
    <3>1. a * (m + 1) + x < b * (m + 1) + y
      BY <1>1
    <3> QED
      BY <1>2, <2>1, <3>1
  <2>3. ~(b < a)
    <3> SUFFICES ASSUME b < a PROVE FALSE
      OBVIOUS
    <3>1. b * (m + 1) + y < a * (m + 1) + x
      BY <1>1
    <3> QED
      BY <1>2, <2>1, <3>1
  <2>4. a = b
    BY <2>2, <2>3
  <2> QED
    BY <1>2, <2>1, <2>4
<1> QED
  BY <1>1, <1>2

RankValue(a, d, p) == (a * (Dirs + 1) + d) * (Places + 1) + p

\* Rank orders by name, then directory, then place, and no two places have one rank.
LEMMA RankOrders ==
    ASSUME NEW a \in Nat, NEW b \in Nat, NEW d \in 0 .. Dirs, NEW e \in 0 .. Dirs,
           NEW p \in 0 .. Places, NEW q \in 0 .. Places
    PROVE  /\ RankValue(a, d, p) \in Nat
           /\ (a < b \/ (a = b /\ (d < e \/ (d = e /\ p <= q)))) =>
                 RankValue(a, d, p) <= RankValue(b, e, q)
           /\ RankValue(a, d, p) = RankValue(b, e, q) => a = b /\ d = e /\ p = q
<1> DEFINE s == a * (Dirs + 1) + d
           t == b * (Dirs + 1) + e
<1>0. Dirs \in Nat /\ Places \in Nat
  BY IconsAssumption
<1>1. s \in Nat /\ t \in Nat
  <2>1. a * (Dirs + 1) \in Nat /\ b * (Dirs + 1) \in Nat
    BY <1>0
  <2> QED
    BY <1>0, <2>1
<1>2. (a < b => s < t) /\ (s = t => a = b /\ d = e)
  BY <1>0, Digits
<1>3. a = b => (d < e => s < t) /\ (d = e => s = t)
  BY <1>0, <1>1
<1> HIDE DEF s, t
<1>4. /\ s < t => s * (Places + 1) + p < t * (Places + 1) + q
      /\ s * (Places + 1) + p = t * (Places + 1) + q => s = t /\ p = q
  BY <1>0, <1>1, Digits
<1>5. s = t /\ p <= q => s * (Places + 1) + p <= t * (Places + 1) + q
  <2>1. s * (Places + 1) \in Nat
    BY <1>0, <1>1
  <2> QED
    BY <1>0, <2>1
<1>6. s * (Places + 1) + p \in Nat /\ t * (Places + 1) + q \in Nat
  <2>1. s * (Places + 1) \in Nat /\ t * (Places + 1) \in Nat
    BY <1>0, <1>1
  <2> QED
    BY <1>0, <2>1
<1>7. ASSUME a < b \/ (a = b /\ (d < e \/ (d = e /\ p <= q)))
      PROVE  s * (Places + 1) + p <= t * (Places + 1) + q
  <2>1. s < t \/ (s = t /\ p <= q)
    BY <1>2, <1>3, <1>7
  <2> QED
    BY <1>4, <1>5, <1>6, <2>1
<1>8. RankValue(a, d, p) = s * (Places + 1) + p /\ RankValue(b, e, q) = t * (Places + 1) + q
  BY DEF RankValue, s, t
<1> QED
  BY <1>2, <1>4, <1>6, <1>7, <1>8

LEMMA RankInjective ==
    ASSUME NEW a \in Nat, NEW b \in Nat, NEW d \in 0 .. Dirs, NEW e \in 0 .. Dirs,
           NEW p \in 0 .. Places, NEW q \in 0 .. Places,
           RankValue(a, d, p) = RankValue(b, e, q)
    PROVE  a = b /\ d = e /\ p = q
  BY RankOrders

LEMMA NameRankIs ==
    ASSUME NEW names \in Seq(Names), NEW f, \E i \in DOMAIN names : names[i] = f.name
    PROVE  LET k == NameRank(names, f) IN
           k \in DOMAIN names /\ names[k] = f.name /\ \A j \in 1 .. k - 1 : names[j] # f.name
<1>1. Len(names) \in Nat /\ DOMAIN names = 1 .. Len(names)
  OBVIOUS
<1> DEFINE S == {i \in DOMAIN names : names[i] = f.name}
<1>2. S \in SUBSET Nat /\ S # {}
  BY <1>1
<1>3. PICK i \in S : \A j \in S : i <= j
  BY <1>2, Least
<1>4. ASSUME NEW j \in 1 .. i - 1 PROVE names[j] # f.name
  <2>1. j \in DOMAIN names /\ j < i /\ i \in Nat /\ j \in Nat
    BY <1>1, <1>3
  <2>2. j \notin S
    BY <1>3, <2>1
  <2> QED
    BY <2>1, <2>2
<1>5. \E k \in DOMAIN names : names[k] = f.name /\ \A j \in 1 .. k - 1 : names[j] # f.name
  BY <1>3, <1>4
<1> QED
  BY <1>5 DEF NameRank

\* A first hit is the one file of the least rank.
LEMMA HitIsBest ==
    ASSUME disk \subseteq Files, NEW names \in Seq(Names), NEW r, FirstHit(r, names)
    PROVE  LET fits == {f \in disk : f.name \in ToSet(names)} IN
           r = IF fits = {} THEN NoFile
               ELSE CHOOSE f \in fits : \A g \in fits : FileRank(names, f) <= FileRank(names, g)
<1> DEFINE fits == {f \in disk : f.name \in ToSet(names)}
<1>1. Len(names) \in Nat /\ DOMAIN names = 1 .. Len(names)
  OBVIOUS
<1>2. \A f : f \in fits <=> f \in disk /\ \E i \in DOMAIN names : names[i] = f.name
  <2>1. \A n : n \in ToSet(names) <=> \E i \in DOMAIN names : names[i] = n
    BY Zenon DEF ToSet
  <2> QED
    BY <2>1
<1>3. \A i \in DOMAIN names : Finds(FindFile(names[i]), names[i])
  BY FindFileFinds
<1> HIDE DEF fits
<1>4. CASE r = NoFile /\ \A i \in DOMAIN names : FindFile(names[i]) = NoFile
  <2>1. \A i \in DOMAIN names : \A g \in disk : g.name # names[i]
    BY <1>3, <1>4, NoFileIsNone DEF Finds
  <2>2. fits = {}
    BY <1>2, <2>1
  <2> QED
    BY <1>4, <2>2 DEF fits
<1>5. CASE \E i \in DOMAIN names : /\ r = FindFile(names[i]) /\ r # NoFile
                                   /\ \A j \in 1 .. i - 1 : FindFile(names[j]) = NoFile
  <2>1. PICK i \in DOMAIN names : /\ r = FindFile(names[i]) /\ r # NoFile
                                  /\ \A j \in 1 .. i - 1 : FindFile(names[j]) = NoFile
    BY <1>5
  <2>2. /\ r \in disk /\ r.name = names[i]
        /\ \A g \in disk : g.name = names[i] => Before(r, g)
    BY <1>3, <2>1 DEF Finds
  <2>3. \A j \in 1 .. i - 1 : \A g \in disk : g.name # names[j]
    <3> TAKE j \in 1 .. i - 1
    <3>1. j \in DOMAIN names /\ FindFile(names[j]) = NoFile
      BY <1>1, <2>1
    <3> QED
      BY <1>3, <3>1, NoFileIsNone DEF Finds
  <2>4. r \in fits
    BY <1>2, <2>2
  <2>5. \A g \in fits : /\ NameRank(names, g) \in DOMAIN names
                        /\ names[NameRank(names, g)] = g.name
                        /\ \A j \in 1 .. NameRank(names, g) - 1 : names[j] # g.name
    BY <1>2, NameRankIs
  <2>6. NameRank(names, r) = i
    <3> DEFINE k == NameRank(names, r)
    <3>1. k \in DOMAIN names /\ names[k] = r.name /\ \A j \in 1 .. k - 1 : names[j] # r.name
      BY <2>4, <2>5
    <3> HIDE DEF k
    <3>2. ~(k < i)
      <4>1. k < i => k \in 1 .. i - 1
        BY <1>1, <3>1
      <4> QED
        BY <2>2, <2>3, <3>1, <4>1
    <3>3. ~(i < k)
      <4>1. i < k => i \in 1 .. k - 1
        BY <1>1, <3>1
      <4> QED
        BY <2>2, <3>1, <4>1
    <3>4. k = i
      BY <1>1, <3>1, <3>2, <3>3
    <3> QED
      BY <3>4 DEF k
  <2>7. ASSUME NEW g \in fits
        PROVE  /\ FileRank(names, r) <= FileRank(names, g)
               /\ FileRank(names, r) = FileRank(names, g) => g = r
               /\ FileRank(names, g) \in Nat /\ FileRank(names, r) \in Nat
    <3> DEFINE k == NameRank(names, g)
    <3>1. k \in DOMAIN names /\ names[k] = g.name /\ g \in disk
      BY <1>2, <2>5
    <3> HIDE DEF k
    <3>2. ~(k < i)
      <4>1. k < i => k \in 1 .. i - 1
        BY <1>1, <3>1
      <4> QED
        BY <2>3, <3>1, <4>1
    <3>3. i < k \/ (i = k /\ Before(r, g))
      BY <1>1, <2>2, <3>1, <3>2
    <3>4. /\ r.dir \in 0 .. Dirs /\ g.dir \in 0 .. Dirs /\ r.place \in 0 .. Places
          /\ g.place \in 0 .. Places
      BY <2>2, <3>1, FilesAre, IconsAssumption
    <3>5. i \in Nat /\ k \in Nat
      BY <1>1, <3>1
    <3>6. i < k \/ (i = k /\ (r.dir < g.dir \/ (r.dir = g.dir /\ r.place <= g.place)))
      BY <3>3 DEF Before
    <3>7. RankValue(i, r.dir, r.place) <= RankValue(k, g.dir, g.place)
      <4>1. (i < k \/ (i = k /\ (r.dir < g.dir \/ (r.dir = g.dir /\ r.place <= g.place)))) =>
                RankValue(i, r.dir, r.place) <= RankValue(k, g.dir, g.place)
        <5>1. PICK d \in 0 .. Dirs, e \in 0 .. Dirs : d = r.dir /\ e = g.dir
          BY ONLY <3>4
        <5>2. PICK p \in 0 .. Places, q \in 0 .. Places : p = r.place /\ q = g.place
          BY ONLY <3>4
        <5>3. PICK a \in Nat, b \in Nat : a = i /\ b = k
          BY ONLY <3>5
        <5>4. (a < b \/ (a = b /\ (d < e \/ (d = e /\ p <= q)))) =>
                  RankValue(a, d, p) <= RankValue(b, e, q)
          BY ONLY RankOrders
        <5> QED
          BY ONLY <5>1, <5>2, <5>3, <5>4
      <4> QED
        BY <3>6, <4>1
    <3>8. RankValue(i, r.dir, r.place) = RankValue(k, g.dir, g.place) =>
              i = k /\ r.dir = g.dir /\ r.place = g.place
      <4>1. PICK d \in 0 .. Dirs, e \in 0 .. Dirs : d = r.dir /\ e = g.dir
        BY ONLY <3>4
      <4>2. PICK p \in 0 .. Places, q \in 0 .. Places : p = r.place /\ q = g.place
        BY ONLY <3>4
      <4>3. PICK a \in Nat, b \in Nat : a = i /\ b = k
        BY ONLY <3>5
      <4>4. RankValue(a, d, p) = RankValue(b, e, q) => a = b /\ d = e /\ p = q
        BY ONLY RankInjective
      <4> QED
        BY ONLY <4>1, <4>2, <4>3, <4>4
    <3>9. /\ FileRank(names, r) = RankValue(i, r.dir, r.place)
          /\ FileRank(names, g) = RankValue(k, g.dir, g.place)
      BY <2>6 DEF FileRank, RankValue, k
    <3>10. FileRank(names, r) = FileRank(names, g) => g = r
      <4>1. FileRank(names, r) = FileRank(names, g) =>
                r.name = g.name /\ r.dir = g.dir /\ r.place = g.place
        BY <2>2, <3>1, <3>8, <3>9
      <4>2. r = File(r.dir, r.place, r.name) /\ g = File(g.dir, g.place, g.name)
        BY <2>2, <3>1, FilesAre
      <4> QED
        BY <4>1, <4>2
    <3>11. RankValue(i, r.dir, r.place) \in Nat /\ RankValue(k, g.dir, g.place) \in Nat
      BY <3>4, <3>5, RankOrders, Zenon
    <3> QED
      BY <3>7, <3>9, <3>10, <3>11
  <2> DEFINE best(f) == \A g \in fits : FileRank(names, f) <= FileRank(names, g)
             chosen == CHOOSE f \in fits : best(f)
  <2>8. chosen \in fits /\ best(chosen)
    <3>1. r \in fits /\ best(r)
      BY <2>4, <2>7
    <3> HIDE DEF best
    <3> QED
      BY <3>1
  <2> HIDE DEF chosen
  <2>9. FileRank(names, chosen) <= FileRank(names, r) /\ FileRank(names, r) <= FileRank(names, chosen)
        /\ FileRank(names, chosen) \in Nat /\ FileRank(names, r) \in Nat
    BY <2>4, <2>7, <2>8
  <2>10. chosen = r
    BY <2>7, <2>8, <2>9
  <2>11. fits # {}
    BY <2>4
  <2> QED
    BY <2>10, <2>11 DEF chosen, fits
<1> QED
  BY <1>4, <1>5 DEF FirstHit

LEMMA BestFileAlways == ASSUME disk \subseteq Files PROVE BestFile
<1>1. ASSUME NEW id \in Ids
      PROVE  LET names == Wanted(id)
                 fits == {f \in disk : f.name \in ToSet(names)} IN
             ResolveName(Joined(id, Dot)) =
                 IF fits = {} THEN NoFile
                 ELSE CHOOSE f \in fits : \A g \in fits : FileRank(names, f) <= FileRank(names, g)
  BY WantedHits, HitIsBest
<1> QED
  BY <1>1 DEF BestFile, FileRank, NameRank

-----------------------------------------------------------------------------

\* The cache and what is drawn keep their types, whatever is installed and evicted, and the
\* cache never holds more surfaces than its limit, for any limit.
THEOREM TypeCorrect == Spec => []TypeOK
<1>1. Inv => TypeOK
  BY DEF Inv, Sound, TypeOK
<1> QED
  BY <1>1, InvInit, InvStep, PTL DEF Spec

\* The surface a card was painted with is still the cache's, and belongs to no sensitive note:
\* neither the second lookup nor an eviction frees what is in use.
THEOREM CacheCorrect == Spec => []CacheOwnsDrawn
<1>1. Inv => CacheOwnsDrawn
  BY DEF Inv
<1> QED
  BY <1>1, InvInit, InvStep, PTL DEF Spec

\* The file an application's icon is loaded from is the best there is by name, then by
\* directory, then by place, for any name, directories, places and files installed.
THEOREM BestCorrect == Spec => []BestFile
<1>1. Inv => BestFile
  BY BestFileAlways DEF Inv
<1> QED
  BY <1>1, InvInit, InvStep, PTL DEF Spec

=============================================================================
