-------------------------- MODULE ExpansionProofs --------------------------
(***************************************************************************)
(* Theorems about Expansion: what the commands of a configuration are, in  *)
(* which order they come, when two of them write one file, and when a file *)
(* they write would be read as a source.  They hold for all configurations *)
(* and files, of any size.                                                 *)
(***************************************************************************)
EXTENDS Expansion, FiniteSetTheorems, SequenceTheorems, WellFoundedInduction, TLAPS

(***************************************************************************)
(* A command is determined by what it converts, for which type and into    *)
(* which slot.                                                             *)
(***************************************************************************)
LEMMA CommandShape ==
  ASSUME NEW cfg, NEW files, NEW c \in Expand(cfg, files)
  PROVE  /\ c.from \in KeptSources(cfg)
         /\ c.source \in SourcePaths(cfg, files, c.from)
         /\ c.slot \in Slots(cfg)
         /\ c = Command(cfg, c.source, c.from, c.slot)
<1>1. PICK i \in KeptSources(cfg) :
        c \in {Command(cfg, f, i, slot) : f \in SourcePaths(cfg, files, i), slot \in Slots(cfg)}
  BY DEF Expand
<1>2. PICK f \in SourcePaths(cfg, files, i), slot \in Slots(cfg) : c = Command(cfg, f, i, slot)
  BY <1>1
<1>3. c.from = i /\ c.source = f /\ c.slot = slot
  BY <1>2 DEF Command
<1> QED
  BY <1>2, <1>3

LEMMA CommandIsListed ==
  ASSUME NEW cfg, NEW files, NEW i \in KeptSources(cfg),
         NEW f \in SourcePaths(cfg, files, i), NEW slot \in Slots(cfg)
  PROVE  Command(cfg, f, i, slot) \in Expand(cfg, files)
<1>1. Command(cfg, f, i, slot) \in
        {Command(cfg, g, i, slot2) : g \in SourcePaths(cfg, files, i), slot2 \in Slots(cfg)}
  OBVIOUS
<1> QED
  BY <1>1 DEF Expand

LEMMA CommandDetermined ==
  ASSUME NEW cfg, NEW files, NEW c \in Expand(cfg, files), NEW d \in Expand(cfg, files),
         SameSource(c, d), c.slot = d.slot
  PROVE  c = d
  BY CommandShape DEF SameSource

(* A path leads to one file of those it is looked for among. *)
LEMMA PathFacts ==
  ASSUME NEW files, NEW path
  PROVE  /\ path \in PathsTo(files) =>
              /\ FileAt(path) \in files /\ path.name = FileAt(path).name
              /\ path \in PathsTo({FileAt(path)})
         /\ \A f : path \in PathsTo({f}) => f = FileAt(path)
         /\ \A f \in files : path \in PathsTo({f}) => path \in PathsTo(files)
<1>1. FileAt(path).name = path.name
  BY DEF FileAt
<1> QED
  BY <1>1 DEF PathsTo

(* What is found among some files is what is found of each. *)
LEMMA PathsFound ==
  ASSUME NEW cfg, NEW files, NEW i, NEW path
  PROVE  path \in SourcePaths(cfg, files, i) <=>
           FileAt(path) \in files /\ path \in SourcePaths(cfg, {FileAt(path)}, i)
  BY PathFacts DEF SourcePaths

(* A command converts a file that is there and is declared. *)
LEMMA ExpandMember ==
  ASSUME NEW cfg, NEW files, NEW c \in Expand(cfg, files)
  PROVE  SourceFile(c) \in files /\ Declared(cfg, SourceFile(c))
<1>1. c.from \in KeptSources(cfg) /\ c.source \in SourcePaths(cfg, files, c.from)
  BY CommandShape
<1>2. FileAt(c.source) \in files /\ c.source \in SourcePaths(cfg, {FileAt(c.source)}, c.from)
  BY <1>1, PathsFound
<1>3. Declared(cfg, FileAt(c.source))
  BY <1>1, <1>2 DEF Declared
<1> QED
  BY <1>2, <1>3 DEF SourceFile

(* More files, more commands; what counts are the declared files. *)
LEMMA ExpandMonotone ==
  ASSUME NEW cfg, NEW files, NEW more,
         \A i \in KeptSources(cfg) : SourcePaths(cfg, files, i) \subseteq SourcePaths(cfg, more, i)
  PROVE  Expand(cfg, files) \subseteq Expand(cfg, more)
  BY CommandShape, CommandIsListed

(* A list has as many places as there are commands, so it repeats none.     *)
LEMMA ListingDistinct ==
  ASSUME NEW cfg, NEW files, IsFiniteSet(Expand(cfg, files)),
         NEW list \in Listings(cfg, files),
         NEW m \in DOMAIN list, NEW n \in DOMAIN list,
         SameSource(list[m], list[n]), list[m].slot = list[n].slot
  PROVE  m = n
<1> DEFINE C == Expand(cfg, files)
           k == Cardinality(C)
<1>1. k \in Nat
  BY FS_CardinalityType
<1>2. list \in [1..k -> C] /\ {list[j] : j \in DOMAIN list} = C
  BY DEF Listings
<1>3. list \in Surjection(1..k, C)
  BY <1>2 DEF Surjection
<1>4. IsFiniteSet(1..k) /\ Cardinality(1..k) = k
  BY <1>1, FS_Interval
<1>5. list \in Injection(1..k, C)
  BY <1>3, <1>4, FS_SurjSameCardinalityImpliesInj
<1>6. list[m] = list[n]
  BY <1>2, CommandDetermined
<1> QED
  BY <1>2, <1>5, <1>6 DEF Injection, IsInjective

-----------------------------------------------------------------------------
(***************************************************************************)
(* The order of the list.  Before leaves it to CHOOSE where a type stands  *)
(* and which pattern finds a file first; both are minima, so it is an      *)
(* order, and the file system decides no more than the order in which one  *)
(* pattern of one type lists its files.                                    *)
(***************************************************************************)
LEMMA LeastNatural ==
  ASSUME NEW S, S \subseteq Nat, S # {}
  PROVE  \E n \in S : \A m \in S : n <= m
<1>1. PICK n \in S : \A m \in S : ~(<<m, n>> \in OpToRel(<, Nat))
  BY NatLessThanWellFounded, WFMin
<1>2. \A m \in S : ~(m < n)
  BY <1>1 DEF OpToRel
<1> QED
  BY <1>2

(* The entries of a section have places, those of its lists too. *)
Sectioned(section) ==
  /\ DOMAIN section \subseteq Nat
  /\ \A i \in DOMAIN section : DOMAIN section[i].list \subseteq Nat

LEMMA PlaceFacts ==
  ASSUME NEW section, NEW typeOf, Sectioned(section), NEW i \in Kept(section, typeOf)
  PROVE  /\ Place(section, typeOf, i) \in Nat
         /\ SameType(section, typeOf, i, Place(section, typeOf, i))
         /\ Place(section, typeOf, i) \in DOMAIN section
<1> DEFINE S == {k \in DOMAIN section : SameType(section, typeOf, i, k)}
<1>1. S \subseteq Nat /\ S # {}
  BY DEF Sectioned, Kept, SameType
<1>2. \E k \in DOMAIN section :
        /\ SameType(section, typeOf, i, k)
        /\ \A l \in DOMAIN section : SameType(section, typeOf, i, l) => k <= l
  <2>1. PICK k \in S : \A l \in S : k <= l
    BY <1>1, LeastNatural
  <2> QED
    BY <2>1
<1> QED
  BY <1>2 DEF Place, Sectioned

(* Each type that is kept has a place of its own. *)
LEMMA PlaceInjective ==
  ASSUME NEW section, NEW typeOf, Sectioned(section),
         NEW i \in Kept(section, typeOf), NEW k \in Kept(section, typeOf),
         Place(section, typeOf, i) = Place(section, typeOf, k)
  PROVE  i = k
<1>1. SameType(section, typeOf, i, k) /\ SameType(section, typeOf, k, i)
  BY PlaceFacts DEF SameType
<1>2. i \in Nat /\ k \in Nat
  BY DEF Kept, Sectioned
<1> QED
  BY <1>1, <1>2 DEF Kept

LEMMA FirstPatternFacts ==
  ASSUME NEW cfg, NEW files, NEW c \in Expand(cfg, files), Sectioned(Sources(cfg))
  PROVE  /\ c.from \in KeptSources(cfg) /\ c.slot \in Slots(cfg)
         /\ FirstPattern(cfg, c) \in Nat
<1> DEFINE S == Patterns(cfg, c.source, c.from)
<1>1. S \subseteq Nat /\ S # {}
  BY CommandShape DEF SourcePaths, Patterns, Sectioned, KeptSources, Kept
<1>2. \E n \in S : \A m \in S : n <= m
  BY <1>1, LeastNatural
<1> QED
  BY <1>1, <1>2, CommandShape DEF FirstPattern

LEMMA SlotFacts ==
  ASSUME NEW cfg, NEW slot \in Slots(cfg), Sectioned(Targets(cfg))
  PROVE  /\ slot[1] \in KeptTargets(cfg) /\ slot[2] \in Nat
         /\ slot = <<slot[1], slot[2]>>
<1>1. PICK i \in KeptTargets(cfg) :
        slot \in {<<i, n>> : n \in DOMAIN Targets(cfg)[i].list}
  BY DEF Slots
<1>2. PICK n \in DOMAIN Targets(cfg)[i].list : slot = <<i, n>>
  BY <1>1
<1> QED
  BY <1>2 DEF Sectioned, KeptTargets, Kept

(* The commands of an expansion are strictly ordered, but for those that    *)
(* convert different files the same pattern finds first.                    *)
THEOREM CommandsOrdered ==
  ASSUME NEW cfg, NEW files, Sectioned(Sources(cfg)), Sectioned(Targets(cfg))
  PROVE  \A c, d, e \in Expand(cfg, files) :
           /\ ~Before(cfg, c, c)
           /\ Before(cfg, c, d) /\ Before(cfg, d, e) => Before(cfg, c, e)
           /\ \/ c = d \/ Before(cfg, c, d) \/ Before(cfg, d, c)
              \/ /\ c.from = d.from /\ c.source # d.source
                 /\ FirstPattern(cfg, c) = FirstPattern(cfg, d)
<1> DEFINE C == Expand(cfg, files)
           sourcePlace(x) == Place(Sources(cfg), SourceTypeOf, x.from)
           targetPlace(x) == Place(Targets(cfg), TargetTypeOf, x.slot[1])
           first(x) == FirstPattern(cfg, x)
<1>1. \A x \in C : /\ sourcePlace(x) \in Nat /\ targetPlace(x) \in Nat
                   /\ first(x) \in Nat /\ x.slot[2] \in Nat
  <2> SUFFICES ASSUME NEW x \in C
               PROVE  /\ sourcePlace(x) \in Nat /\ targetPlace(x) \in Nat
                      /\ first(x) \in Nat /\ x.slot[2] \in Nat
    OBVIOUS
  <2>1. x.from \in KeptSources(cfg) /\ x.slot \in Slots(cfg) /\ first(x) \in Nat
    BY FirstPatternFacts
  <2>2. x.slot[1] \in KeptTargets(cfg) /\ x.slot[2] \in Nat
    BY <2>1, SlotFacts
  <2>3. sourcePlace(x) \in Nat
    BY <2>1, PlaceFacts DEF KeptSources
  <2>4. targetPlace(x) \in Nat
    BY <2>2, PlaceFacts DEF KeptTargets
  <2> QED
    BY <2>1, <2>2, <2>3, <2>4
<1>2. \A x, y \in C : sourcePlace(x) = sourcePlace(y) => x.from = y.from
  BY FirstPatternFacts, PlaceInjective DEF KeptSources
<1>3. \A x, y \in C : targetPlace(x) = targetPlace(y) => x.slot[1] = y.slot[1]
  BY FirstPatternFacts, SlotFacts, PlaceInjective DEF KeptTargets
<1>4. \A x, y \in C : SameSource(x, y) =>
        sourcePlace(x) = sourcePlace(y) /\ first(x) = first(y)
  BY DEF SameSource, FirstPattern
<1>5. \A x, y \in C : SameSource(x, y) /\ x.slot = y.slot => x = y
  BY CommandDetermined
<1>6. \A x, y \in C : x.slot[1] = y.slot[1] /\ x.slot[2] = y.slot[2] => x.slot = y.slot
  BY FirstPatternFacts, SlotFacts
<1>7. \A x, y \in C :
        /\ x.from = y.from => sourcePlace(x) = sourcePlace(y)
        /\ x.slot[1] = y.slot[1] => targetPlace(x) = targetPlace(y)
  OBVIOUS
<1>8. \A x, y \in C : Before(cfg, x, y) <=>
        \/ sourcePlace(x) < sourcePlace(y)
        \/ x.from = y.from /\ first(x) < first(y)
        \/ /\ SameSource(x, y)
           /\ \/ targetPlace(x) < targetPlace(y)
              \/ x.slot[1] = y.slot[1] /\ x.slot[2] < y.slot[2]
  BY DEF Before
<1> HIDE DEF C, sourcePlace, targetPlace, first
<1>9. \A x, y, z \in C :
        Before(cfg, x, y) /\ Before(cfg, y, z) => Before(cfg, x, z)
  BY <1>1, <1>4, <1>7, <1>8 DEF SameSource
<1>10. \A x \in C : ~Before(cfg, x, x)
  BY <1>1, <1>8
<1>11. \A x, y \in C :
         \/ x = y \/ Before(cfg, x, y) \/ Before(cfg, y, x)
         \/ x.from = y.from /\ x.source # y.source /\ first(x) = first(y)
  BY <1>1, <1>2, <1>3, <1>5, <1>6, <1>8 DEF SameSource
<1> QED
  BY <1>9, <1>10, <1>11 DEF C, first

-----------------------------------------------------------------------------
(***************************************************************************)
(* Names.  A target has the stem of its source's name and the extension of *)
(* its slot; Lexical says that names are made of parts.                    *)
(***************************************************************************)
Stem(path) == SubSeq(path.name, 1, Len(path.name) - 1)
SlotDir(cfg, slot) == DirectoryOf[Targets(cfg)[slot[1]].list[slot[2]].dir]
SlotExtension(cfg, slot) == TargetExtension[TargetTypeOf[Targets(cfg)[slot[1]].key]]

Lexical(cfg, files, parts) ==
  /\ \A f \in files : f.name \in Seq(parts)
  /\ \A slot \in Slots(cfg) : SlotExtension(cfg, slot) \in parts
  /\ \A i \in KeptSources(cfg) : Extensions[SourceType(cfg, i)] \subseteq Seq(parts)

LEMMA AppendFacts ==
  ASSUME NEW S, NEW s \in Seq(S), NEW e \in S
  PROVE  LET t == s \o <<e>> IN
           t \in Seq(S) /\ Len(t) = Len(s) + 1 /\ t[Len(t)] = e /\ SubSeq(t, 1, Len(t) - 1) = s
<1> DEFINE t == s \o <<e>>
<1>1. <<e>> \in Seq(S) /\ Len(<<e>>) = 1 /\ <<e>>[1] = e
  OBVIOUS
<1>2. /\ t \in Seq(S) /\ Len(t) = Len(s) + 1
      /\ \A i \in 1..(Len(s) + 1) : t[i] = IF i <= Len(s) THEN s[i] ELSE <<e>>[i - Len(s)]
  BY <1>1, ConcatProperties
<1>3. Len(s) \in Nat
  BY LenProperties
<1>4. t[Len(t)] = e
  BY <1>1, <1>2, <1>3
<1>5. SubSeq(t, 1, Len(t) - 1) = s
  <2> DEFINE u == SubSeq(t, 1, Len(s))
  <2>1. \A i \in 1..Len(s) : t[i] = s[i] /\ t[i] \in S
    BY <1>2, <1>3, ElementOfSeq
  <2>2. /\ u \in Seq(S)
        /\ Len(u) = IF 1 <= Len(s) THEN Len(s) - 1 + 1 ELSE 0
        /\ \A i \in 1..(Len(s) - 1 + 1) : u[i] = t[1 + i - 1]
    BY <1>3, <2>1, SubSeqProperties
  <2>3. Len(u) = Len(s)
    BY <1>3, <2>2
  <2>4. \A i \in 1..Len(u) : u[i] = s[i]
    BY <1>3, <2>1, <2>2, <2>3
  <2>5. u = s
    BY <2>2, <2>3, <2>4, SeqEqual
  <2> QED
    BY <1>2, <1>3, <2>5
<1> QED
  BY <1>2, <1>4, <1>5

LEMMA StemType ==
  ASSUME NEW S, NEW path, path.name \in Seq(S) PROVE Stem(path) \in Seq(S)
<1> DEFINE n == Len(path.name)
<1>1. n \in Nat
  BY LenProperties
<1>2. \A i \in 1..(n - 1) : path.name[i] \in S
  BY <1>1, ElementOfSeq
<1> QED
  BY <1>1, <1>2, SubSeqProperties DEF Stem

LEMMA TargetShape ==
  ASSUME NEW cfg, NEW files, NEW parts, Lexical(cfg, files, parts),
         NEW c \in Expand(cfg, files)
  PROVE  LET f == TargetFile(c) IN
         /\ f.dir = SlotDir(cfg, c.slot)
         /\ f.name \in Seq(parts) /\ Len(f.name) > 0
         /\ Stem(f) = Stem(c.source)
         /\ f.name[Len(f.name)] = SlotExtension(cfg, c.slot)
         /\ f = [dir |-> SlotDir(cfg, c.slot),
                 name |-> Stem(c.source) \o <<SlotExtension(cfg, c.slot)>>]
<1> DEFINE s == Stem(c.source)
           e == SlotExtension(cfg, c.slot)
<1>1. TargetFile(c) = [dir |-> SlotDir(cfg, c.slot), name |-> s \o <<e>>]
  <2> DEFINE entry == Targets(cfg)[c.slot[1]]
             pattern == entry.list[c.slot[2]]
             path == TargetPath(c.source, TargetTypeOf[entry.key], pattern)
  <2>1. c = Command(cfg, c.source, c.from, c.slot)
    BY CommandShape
  <2>2. Command(cfg, c.source, c.from, c.slot).target = path
    BY DEF Command
  <2>3. path = [dir |-> pattern.dir, name |-> s \o <<e>>]
    BY Zenon DEF TargetPath, SlotExtension, Stem
  <2>4. c.target = path
    BY <2>1, <2>2
  <2>5. SlotDir(cfg, c.slot) = DirectoryOf[pattern.dir]
    BY DEF SlotDir
  <2> HIDE DEF path, pattern, s, e
  <2>6. c.target.dir = pattern.dir /\ c.target.name = s \o <<e>>
    BY <2>3, <2>4
  <2> QED
    BY <2>5, <2>6, Zenon DEF TargetFile, FileAt
<1>2. s \in Seq(parts) /\ e \in parts
  <2>1. SourceFile(c) \in files /\ c.slot \in Slots(cfg)
    BY CommandShape, ExpandMember
  <2>2. SourceFile(c).name = c.source.name
    BY DEF SourceFile, FileAt
  <2>3. c.source.name \in Seq(parts) /\ e \in parts
    BY <2>1, <2>2, Zenon DEF Lexical
  <2> QED
    BY <2>3, StemType
<1>3. /\ s \o <<e>> \in Seq(parts) /\ Len(s \o <<e>>) = Len(s) + 1
      /\ (s \o <<e>>)[Len(s \o <<e>>)] = e
      /\ SubSeq(s \o <<e>>, 1, Len(s \o <<e>>) - 1) = s
  BY <1>2, AppendFacts
<1>4. Len(s) \in Nat
  BY <1>2, LenProperties
<1> HIDE DEF s, e
<1>5. /\ TargetFile(c).dir = SlotDir(cfg, c.slot)
      /\ TargetFile(c).name = s \o <<e>>
  BY <1>1
<1>6. Stem(TargetFile(c)) = s
  BY <1>3, <1>5 DEF Stem
<1>7. Len(TargetFile(c).name) > 0
  BY <1>3, <1>4, <1>5
<1>8. TargetFile(c).name[Len(TargetFile(c).name)] = e
  BY <1>3, <1>5
<1>9. TargetFile(c).name \in Seq(parts)
  BY <1>3, <1>5
<1> QED
  BY <1>1, <1>5, <1>6, <1>7, <1>8, <1>9, Zenon DEF s, e

-----------------------------------------------------------------------------
(***************************************************************************)
(* When two commands write one file.  Of a source only the stem gets into  *)
(* the target, not its directory or the name that is given by, nor the     *)
(* type that has read it; of a slot only the directory, by whatever name,  *)
(* and the first extension of its type.                                    *)
(***************************************************************************)
SourcesApart(cfg, files) ==
  \A i, k \in KeptSources(cfg) :
    \A p \in SourcePaths(cfg, files, i), q \in SourcePaths(cfg, files, k) :
      Stem(p) = Stem(q) => p = q /\ i = k

SlotsApart(cfg) ==
  \A s, t \in Slots(cfg) :
    SlotDir(cfg, s) = SlotDir(cfg, t) /\ SlotExtension(cfg, s) = SlotExtension(cfg, t) => s = t

(* Commands have targets of their own exactly when the paths of sources     *)
(* differ in their stems, so that none has two, and slots in directory or   *)
(* extension: what a user has to see to, as the tool does not.              *)
THEOREM TargetsApartExactly ==
  ASSUME NEW cfg, NEW files, NEW parts, Lexical(cfg, files, parts)
  PROVE  TargetsApart(cfg, files) <=>
           Expand(cfg, files) = {} \/ (SourcesApart(cfg, files) /\ SlotsApart(cfg))
<1> DEFINE C == Expand(cfg, files)
<1>1. \A c, d \in C : TargetFile(c) = TargetFile(d) <=>
        /\ Stem(c.source) = Stem(d.source)
        /\ SlotDir(cfg, c.slot) = SlotDir(cfg, d.slot)
        /\ SlotExtension(cfg, c.slot) = SlotExtension(cfg, d.slot)
  <2> TAKE c, d \in C
  <2>1. \A x \in C :
          /\ TargetFile(x).dir = SlotDir(cfg, x.slot)
          /\ Stem(TargetFile(x)) = Stem(x.source)
          /\ TargetFile(x).name[Len(TargetFile(x).name)] = SlotExtension(cfg, x.slot)
          /\ TargetFile(x) = [dir |-> SlotDir(cfg, x.slot),
                              name |-> Stem(x.source) \o <<SlotExtension(cfg, x.slot)>>]
    BY TargetShape
  <2>2. ASSUME TargetFile(c) = TargetFile(d)
        PROVE  /\ Stem(c.source) = Stem(d.source)
               /\ SlotDir(cfg, c.slot) = SlotDir(cfg, d.slot)
               /\ SlotExtension(cfg, c.slot) = SlotExtension(cfg, d.slot)
    BY <2>1, <2>2, Zenon
  <2>3. ASSUME Stem(c.source) = Stem(d.source),
               SlotDir(cfg, c.slot) = SlotDir(cfg, d.slot),
               SlotExtension(cfg, c.slot) = SlotExtension(cfg, d.slot)
        PROVE  TargetFile(c) = TargetFile(d)
    BY <2>1, <2>3, Zenon
  <2> QED
    BY <2>2, <2>3
<1>2. ASSUME SourcesApart(cfg, files), SlotsApart(cfg) PROVE TargetsApart(cfg, files)
  <2> SUFFICES ASSUME NEW c \in C, NEW d \in C, TargetFile(c) = TargetFile(d)
               PROVE  c = d
    BY DEF TargetsApart
  <2>1. SameSource(c, d)
    BY <1>1, <1>2, CommandShape DEF SourcesApart, SameSource
  <2>2. c.slot = d.slot
    BY <1>1, <1>2, CommandShape DEF SlotsApart
  <2> QED
    BY <2>1, <2>2, CommandDetermined
<1>3. ASSUME TargetsApart(cfg, files), NEW c \in C PROVE SourcesApart(cfg, files)
  <2> SUFFICES ASSUME NEW i \in KeptSources(cfg), NEW k \in KeptSources(cfg),
                      NEW f \in SourcePaths(cfg, files, i),
                      NEW g \in SourcePaths(cfg, files, k), Stem(f) = Stem(g)
               PROVE  f = g /\ i = k
    BY DEF SourcesApart
  <2> DEFINE x == Command(cfg, f, i, c.slot)
             y == Command(cfg, g, k, c.slot)
  <2>1. x \in C /\ y \in C
    BY CommandShape, CommandIsListed
  <2>2. /\ x.source = f /\ x.from = i /\ x.slot = c.slot
        /\ y.source = g /\ y.from = k /\ y.slot = c.slot
    BY DEF Command
  <2>3. TargetFile(x) = TargetFile(y)
    <3> HIDE DEF x, y
    <3> QED
      BY <1>1, <2>1, <2>2
  <2>4. x = y
    BY <1>3, <2>1, <2>3 DEF TargetsApart
  <2> QED
    BY <2>2, <2>4
<1>4. ASSUME TargetsApart(cfg, files), NEW c \in C PROVE SlotsApart(cfg)
  <2> SUFFICES ASSUME NEW s \in Slots(cfg), NEW t \in Slots(cfg),
                      SlotDir(cfg, s) = SlotDir(cfg, t),
                      SlotExtension(cfg, s) = SlotExtension(cfg, t)
               PROVE  s = t
    BY DEF SlotsApart
  <2> DEFINE x == Command(cfg, c.source, c.from, s)
             y == Command(cfg, c.source, c.from, t)
  <2>1. x \in C /\ y \in C
    BY CommandShape, CommandIsListed
  <2>2. x.source = c.source /\ x.slot = s /\ y.source = c.source /\ y.slot = t
    BY DEF Command
  <2>3. TargetFile(x) = TargetFile(y)
    <3> HIDE DEF x, y
    <3> QED
      BY <1>1, <2>1, <2>2
  <2>4. x = y
    BY <1>4, <2>1, <2>3 DEF TargetsApart
  <2> QED
    BY <2>2, <2>4
<1>5. C = {} => TargetsApart(cfg, files)
  BY DEF TargetsApart
<1> QED
  BY <1>2, <1>3, <1>4, <1>5

(***************************************************************************)
(* When a target is no source.                                             *)
(***************************************************************************)
Foreign(cfg) ==
  \A slot \in Slots(cfg), i \in KeptSources(cfg) :
    \A ext \in Extensions[SourceType(cfg, i)] :
      ext # <<>> /\ ext[Len(ext)] # SlotExtension(cfg, slot)

LEMMA LastPart ==
  ASSUME NEW S, NEW name \in Seq(S), NEW ext \in Seq(S), ext # <<>>, EndsWith(name, ext)
  PROVE  name[Len(name)] = ext[Len(ext)]
<1> DEFINE n == Len(name)
           k == Len(ext)
<1>1. n \in Nat /\ k \in Nat \ {0} /\ k < n /\ SubSeq(name, n - k + 1, n) = ext
  BY LenProperties, EmptySeq DEF EndsWith
<1>2. \A i \in (n - k + 1)..n : name[i] \in S
  BY <1>1, ElementOfSeq
<1>3. \A i \in 1..(n - (n - k + 1) + 1) :
        SubSeq(name, n - k + 1, n)[i] = name[(n - k + 1) + i - 1]
  BY <1>1, <1>2, SubSeqProperties
<1>4. k \in 1..(n - (n - k + 1) + 1) /\ (n - k + 1) + k - 1 = n
  BY <1>1
<1> QED
  BY <1>1, <1>3, <1>4

(* A target is never read as a source, wherever it is written, if no        *)
(* declared type's extensions end with a target's.                          *)
THEOREM TargetsAreNoSources ==
  ASSUME NEW cfg, NEW files, NEW parts, Lexical(cfg, files, parts), Foreign(cfg)
  PROVE  \A c \in Expand(cfg, files) : ~Declared(cfg, TargetFile(c))
<1> SUFFICES ASSUME NEW c \in Expand(cfg, files), NEW i \in KeptSources(cfg),
                    NEW p \in SourcePaths(cfg, {TargetFile(c)}, i)
             PROVE  FALSE
  BY DEF Declared
<1> DEFINE name == TargetFile(c).name
<1>1. p.name = name /\ HasExtension(p, SourceType(cfg, i))
  BY PathFacts DEF SourcePaths, Patterns, Matches
<1>2. PICK ext \in Extensions[SourceType(cfg, i)] : EndsWith(name, ext)
  BY <1>1 DEF HasExtension
<1>3. name \in Seq(parts) /\ name[Len(name)] = SlotExtension(cfg, c.slot)
  BY TargetShape
<1>4. ext \in Seq(parts)
  BY <1>2 DEF Lexical
<1>5. ext # <<>> /\ ext[Len(ext)] # SlotExtension(cfg, c.slot)
  BY <1>2, CommandShape DEF Foreign
<1> QED
  BY <1>2, <1>3, <1>4, <1>5, LastPart
=============================================================================
