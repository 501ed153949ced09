------------------------------- MODULE Icons --------------------------------
(***************************************************************************)
(* ui/IconResolver, which the cards of NotificationView are drawn with:    *)
(* the names an application's icon is looked up by, the files a name may   *)
(* be, while applications are installed and removed, and the cache that    *)
(* owns what was loaded; and the base64 of data: URIs, as an algorithm.    *)
(*                                                                         *)
(* A name is the sequence of its words and of the dots and dashes between. *)
(***************************************************************************)
EXTENDS Integers, Sequences, FiniteSets, SequencesExt

CONSTANTS
    Roots,          \* words, apart from their case
    Ids,            \* applications, by the words of their reverse-DNS names
    Direct,         \* icons given as a path, or a file: or data: URI
    Dirs,           \* directories findFile tries
    Places,         \* of a directory, in the order tried: sizes, scalable, flat
    MaxCached,      \* kMaxCached
    MaxFiles,       \* bound: files installed at a time
    BufferBits      \* of the decoder's unsigned int

Words == Roots \X {"as is", "lower"}

ASSUME IconsAssumption ==
    /\ Ids \subseteq Seq(Words) \ {<<>>}
    /\ Dirs \in Nat \ {0} /\ Places \in Nat \ {0}
    /\ MaxCached \in Nat \ {0} /\ MaxFiles \in Nat
    /\ BufferBits \in 14 .. 32

VARIABLES
    disk,       \* the icons installed
    cache,      \* cache_, from what was asked for to a surface
    drawn       \* what drawCard() painted last: [note, surface]

vars == <<disk, cache, drawn>>

LowerWord(w) == <<w[1], "lower">>

Dot == <<"", ".">>
Dash == <<"", "-">>

\* Words with a mark between each two.
Joined(parts, mark) ==
    [i \in 1 .. 2 * Len(parts) - 1 |-> IF i % 2 = 1 THEN parts[(i + 1) \div 2] ELSE mark]

-----------------------------------------------------------------------------
\* Names and files.

File(dir, place, name) == [dir |-> dir, place |-> place, name |-> name]
NoFile == File(0, 0, <<>>)

\* MUTANT of FindFile: the places in order, and for each the directories in order.
FindByPlace(name) ==
    LET found == {f \in disk : f.name = name}
        before(f, g) == f.place < g.place \/ (f.place = g.place /\ f.dir <= g.dir) IN
    IF found = {} THEN NoFile ELSE CHOOSE f \in found : \A g \in found : before(f, g)

\* findFile(): the directories in order, and in each the places in order.
FindFile(name) ==
    LET found == {f \in disk : f.name = name}
        before(f, g) == f.dir < g.dir \/ (f.dir = g.dir /\ f.place <= g.place) IN
    IF found = {} THEN NoFile ELSE CHOOSE f \in found : \A g \in found : before(f, g)

Dashed(name) == [i \in DOMAIN name |-> IF name[i] = Dot THEN Dash ELSE name[i]]
Lowered(name) == [i \in DOMAIN name |-> IF name[i] \in Words THEN LowerWord(name[i]) ELSE name[i]]

Dots(name) == {i \in DOMAIN name : name[i] = Dot}
FirstDot(name) == CHOOSE i \in Dots(name) : \A j \in Dots(name) : i <= j
LastDot(name) == CHOOSE i \in Dots(name) : \A j \in Dots(name) : i >= j
After(name, i) == SubSeq(name, i + 1, Len(name))

\* resolveName(): the names tried, in order.
Tried(name) ==
    <<name>>
    \o (IF Dots(name) = {} \/ LastDot(name) = 1 THEN <<>>
        ELSE LET simple == After(name, LastDot(name)) IN
             <<simple>>
             \o (IF Lowered(simple) # simple THEN <<Lowered(simple)>> ELSE <<>>)
             \o (IF FirstDot(name) < LastDot(name) THEN <<Dashed(After(name, FirstDot(name)))>> ELSE <<>>))
    \o <<Dashed(Lowered(name))>>

\* The file that is loaded: the first of the first name that has one.
ResolveName(name) ==
    LET files == [i \in DOMAIN Tried(name) |-> FindFile(Tried(name)[i])]
        hits == {i \in DOMAIN files : files[i] # NoFile} IN
    IF hits = {} THEN NoFile ELSE files[CHOOSE i \in hits : \A j \in hits : i <= j]

-----------------------------------------------------------------------------
\* Icons, as they are asked for, and surfaces, as what they were loaded from.

NoIcon == <<>>
IconNames == {Joined(id, Dot) : id \in Ids} \cup Direct \cup {NoIcon}
Notes == [icon : IconNames, app : IconNames \ Direct, sensitive : BOOLEAN]

NoSurface == NoFile
DirectSurface(icon) == File(0, 1, icon)

\* loadDataUri, loadFile or resolveName.  Any load may fail, and then no other file is tried.
Loads(icon) ==
    {NoSurface, IF icon \in Direct THEN DirectSurface(icon) ELSE ResolveName(icon)}

\* MUTANT of Victims: one too many is kept.
VictimsLate(c) == IF Cardinality(DOMAIN c) > MaxCached THEN {{i} : i \in DOMAIN c} ELSE {{}}

\* What is evicted for a new surface: cache_.begin(), which may be any.
Victims(c) == IF Cardinality(DOMAIN c) >= MaxCached THEN {{i} : i \in DOMAIN c} ELSE {{}}

\* cache_[icon] = surface
Stored(c, icon, surface) ==
    [i \in DOMAIN c \cup {icon} |-> IF i = icon THEN surface ELSE c[i]]

\* MUTANT of Keep: what is evicted is chosen with the new surface among it.
KeepFirst(c, icon, surface) ==
    LET more == Stored(c, icon, surface) IN
    {[i \in DOMAIN more \ v |-> more[i]] :
        v \in IF Cardinality(DOMAIN more) > MaxCached THEN {{i} : i \in DOMAIN more} ELSE {{}}}

Keep(c, icon, surface) ==
    {Stored([i \in DOMAIN c \ v |-> c[i]], icon, surface) : v \in Victims(c)}

\* get(): the cache after it, and the surface.
Get(c, icon) ==
    IF icon \in DOMAIN c THEN {[cache |-> c, surface |-> c[icon]]}
    ELSE IF icon = NoIcon THEN {[cache |-> c, surface |-> NoSurface]}
    ELSE UNION {IF s = NoSurface THEN {[cache |-> c, surface |-> s]}
                ELSE {[cache |-> k, surface |-> s] : k \in Keep(c, icon, s)} : s \in Loads(icon)}

\* drawCard(): the icon the notification names, or else its application's; none is even
\* looked up for a sensitive one.
DrawCard(note) ==
    /\ \E got \in IF note.sensitive THEN {[cache |-> cache, surface |-> NoSurface]}
                  ELSE UNION {IF hint.surface # NoSurface THEN {hint} ELSE Get(hint.cache, note.app)
                                 : hint \in Get(cache, note.icon)} :
          /\ cache' = got.cache
          /\ drawn' = [note |-> note, surface |-> got.surface]
    /\ UNCHANGED disk

-----------------------------------------------------------------------------
\* The file system.

Files == [dir : 1 .. Dirs, place : 1 .. Places, name : UNION {ToSet(Tried(Joined(id, Dot))) : id \in Ids}]

Install ==
    /\ Cardinality(disk) < MaxFiles
    /\ \E f \in Files \ disk : disk' = disk \cup {f}
    /\ UNCHANGED <<cache, drawn>>

Uninstall ==
    /\ \E f \in disk : disk' = disk \ {f}
    /\ UNCHANGED <<cache, drawn>>

NothingDrawn == [note |-> [icon |-> NoIcon, app |-> NoIcon, sensitive |-> FALSE], surface |-> NoSurface]

Init ==
    /\ disk = {}
    /\ cache = <<>>
    /\ drawn = NothingDrawn

Next == Install \/ Uninstall \/ \E note \in Notes : DrawCard(note)

Spec == Init /\ [][Next]_vars

-----------------------------------------------------------------------------
\* base64: the characters as sextets, or -1 for one that is skipped.

\* One character into the buffer, and a byte out of it when there are eight bits.
TakeSextet(d, v) ==
    IF v < 0 THEN d
    ELSE LET buf == (d.buf * 64 + v) % 2^BufferBits
             bits == d.bits + 6 IN
         IF bits < 8 THEN [d EXCEPT !.buf = buf, !.bits = bits]
         ELSE [buf |-> buf, bits |-> bits - 8, out |-> Append(d.out, (buf \div 2^(bits - 8)) % 256)]

Base64Decode(chars) == FoldLeft(TakeSextet, [buf |-> 0, bits |-> 0, out |-> <<>>], chars).out

-----------------------------------------------------------------------------
\* Properties.

Surfaces == Files \cup {DirectSurface(icon) : icon \in Direct}

\* No more than kMaxCached surfaces are kept, and a miss is not kept at all.
TypeOK ==
    /\ disk \subseteq Files
    /\ DOMAIN cache \subseteq IconNames \ {NoIcon}
    /\ Cardinality(DOMAIN cache) <= MaxCached
    /\ \A icon \in DOMAIN cache : cache[icon] \in Surfaces
    /\ drawn.note \in Notes \cup {NothingDrawn.note}
    /\ drawn.surface \in Surfaces \cup {NoSurface}

\* What a card was painted with is the cache's still, under the name it was asked by: looking
\* up the application after the hint, or evicting for it, frees no surface that is in use.
\* It is never a surface of a sensitive note.
CacheOwnsDrawn ==
    drawn.surface # NoSurface =>
        /\ ~drawn.note.sensitive
        /\ \E icon \in {drawn.note.icon, drawn.note.app} \cap DOMAIN cache :
               cache[icon] = drawn.surface

\* The names an application id is looked up by, word by word.
Wanted(id) ==
    LET last == id[Len(id)]
        lower == [i \in DOMAIN id |-> LowerWord(id[i])] IN
    <<Joined(id, Dot)>>
    \o (IF Len(id) > 1 THEN <<<<last>>, <<LowerWord(last)>>>> ELSE <<>>)
    \o (IF Len(id) > 2 THEN <<Joined(Tail(id), Dash)>> ELSE <<>>)
    \o <<Joined(lower, Dash)>>

\* Of the files there are an application gets the best by name, then directory, then place.
BestFile ==
    \A id \in Ids :
        LET names == Wanted(id)
            fits == {f \in disk : f.name \in ToSet(names)}
            nameRank(f) == CHOOSE i \in DOMAIN names :
                              names[i] = f.name /\ \A j \in 1 .. i - 1 : names[j] # f.name
            rank(f) == (nameRank(f) * (Dirs + 1) + f.dir) * (Places + 1) + f.place IN
        ResolveName(Joined(id, Dot)) =
            IF fits = {} THEN NoFile ELSE CHOOSE f \in fits : \A g \in fits : rank(f) <= rank(g)

\* The bytes of data: URIs are those of the sextets' bits in a row, though the buffer they go
\* through wraps around and other characters are in between.
Base64Exact ==
    \A n \in 0 .. 5 : \A chars \in [1 .. n -> {-1, 0, 1, 42, 63}] :
        LET sextets == SelectSeq(chars, LAMBDA v : v >= 0)
            number == FoldLeft(LAMBDA sum, v : sum * 64 + v, 0, sextets)
            bits == 6 * Len(sextets) IN
        Base64Decode(chars) =
            [i \in 1 .. bits \div 8 |-> (number \div 2^(bits - 8 * i)) % 256]

=============================================================================
