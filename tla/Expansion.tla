------------------------------ MODULE Expansion ------------------------------
(***************************************************************************)
(* From a configuration to commands: how lib/src/config.dart reads         *)
(* quicktype.json, how lib/src/file_resolver.dart finds files and names    *)
(* targets, and how Quicktype.buildCommandsFromConfig puts them together.  *)
(*                                                                         *)
(* A path is a record [dir, name] of texts, dir being the name a directory *)
(* is given by.  A directory may have several: "models", "lib/../models",  *)
(* a link.  The code compares texts and does not normalise them, so a      *)
(* file, which is a record [dir, name] with the directory itself, may be   *)
(* at several paths.  A name is the sequence of its parts between the      *)
(* dots, and is empty for a directory.  A configuration is a record        *)
(* [sources, targets] of two sections, each a sequence of entries          *)
(* [key, list] in which the list holds paths.                              *)
(***************************************************************************)
EXTENDS Naturals, Sequences, FiniteSets

CONSTANTS
  SourceTypeOf,    \* the type a key of "sources" names, or "unknown"
  TargetTypeOf,    \* the type a key of "targets" names, or "unknown"
  Extensions,      \* SourceType.extensions: sets of suffixes of names
  TargetExtension, \* TargetType.extensions.first
  DirectoryOf,     \* the directory a directory's name stands for; names
                   \* that File.absolute makes equal count as one
  Directories,     \* those there are when files are looked for
  DefaultSources, DefaultTargets,  \* the sections Config.defaults makes
  Missing,         \* a section that is not there, as in a missing file
  Malformed        \* a section or list of the wrong shape

-----------------------------------------------------------------------------
(* Config.fromMap. *)

Sources(cfg) == IF cfg.sources = Missing THEN DefaultSources ELSE cfg.sources
Targets(cfg) == IF cfg.targets = Missing THEN DefaultTargets ELSE cfg.targets

(* _findTypeByKey and _parseConfigList accept every entry of the section. *)
SectionValid(section, typeOf) ==
  /\ section # Malformed
  /\ \A i \in DOMAIN section :
       typeOf[section[i].key] # "unknown" /\ section[i].list # Malformed

SameType(section, typeOf, i, k) ==
  typeOf[section[i].key] = typeOf[section[k].key]

(* Of several keys that name one type the map keeps the value of the last, *)
(* at the place of the first.                                              *)
Kept(section, typeOf) ==
  {i \in DOMAIN section :
     \A k \in DOMAIN section : SameType(section, typeOf, i, k) => k <= i}

Place(section, typeOf, i) ==
  CHOOSE k \in DOMAIN section :
    /\ SameType(section, typeOf, i, k)
    /\ \A l \in DOMAIN section : SameType(section, typeOf, i, l) => k <= l

SourceType(cfg, i) == SourceTypeOf[Sources(cfg)[i].key]
KeptSources(cfg) == Kept(Sources(cfg), SourceTypeOf)
KeptTargets(cfg) == Kept(Targets(cfg), TargetTypeOf)

-----------------------------------------------------------------------------
(* The file system. *)

FileAt(path) == [dir |-> DirectoryOf[path.dir], name |-> path.name]

PathsTo(files) ==
  {p \in [dir : DOMAIN DirectoryOf, name : {f.name : f \in files}] : FileAt(p) \in files}

-----------------------------------------------------------------------------
(* FileResolver. *)

EndsWith(name, ext) ==
  /\ Len(ext) < Len(name)
  /\ SubSeq(name, Len(name) - Len(ext) + 1, Len(name)) = ext

HasExtension(path, type) == \E ext \in Extensions[type] : EndsWith(path.name, ext)

(* getFiles: the path the pattern is, or one below its directory. *)
Matches(path, pattern, type) ==
  /\ HasExtension(path, type)
  /\ IF pattern.name = <<>> THEN path.dir = pattern.dir ELSE path = pattern

(* It throws on a pattern with an extension that is not one of the type's,  *)
(* and, in Glob.listSync, on a directory that is not there.                 *)
PatternValid(pattern, type) ==
  /\ pattern.name = <<>> \/ HasExtension(pattern, type)
  /\ DirectoryOf[pattern.dir] \in Directories

(* The patterns of the i-th entry that match the path. *)
Patterns(cfg, path, i) ==
  {n \in DOMAIN Sources(cfg)[i].list :
     Matches(path, Sources(cfg)[i].list[n], SourceType(cfg, i))}

(* resolveTargetPath: the source's name with its last extension replaced. *)
TargetPath(source, type, pattern) ==
  [dir |-> pattern.dir,
   name |-> SubSeq(source.name, 1, Len(source.name) - 1) \o <<TargetExtension[type]>>]

-----------------------------------------------------------------------------
(* buildCommandsFromConfig. *)

Valid(cfg) ==
  /\ SectionValid(Sources(cfg), SourceTypeOf)
  /\ SectionValid(Targets(cfg), TargetTypeOf)
  /\ \A i \in KeptSources(cfg) : \A n \in DOMAIN Sources(cfg)[i].list :
       PatternValid(Sources(cfg)[i].list[n], SourceType(cfg, i))

(* A slot is one target of the configuration, with options of its own. *)
Slots(cfg) ==
  UNION {{<<i, n>> : n \in DOMAIN Targets(cfg)[i].list} : i \in KeptTargets(cfg)}

(* "from" is the source entry, which stands for its type. *)
Command(cfg, source, i, slot) ==
  LET entry == Targets(cfg)[slot[1]] IN
    [source |-> source, from |-> i, slot |-> slot,
     target |-> TargetPath(source, TargetTypeOf[entry.key], entry.list[slot[2]])]

(* What the patterns of the i-th source entry find among the files: a set   *)
(* of paths, so a file is in it under each name that finds it.              *)
SourcePaths(cfg, files, i) == {p \in PathsTo(files) : Patterns(cfg, p, i) # {}}

(* Some source entry finds the file. *)
Declared(cfg, file) == \E i \in KeptSources(cfg) : SourcePaths(cfg, {file}, i) # {}

Expand(cfg, files) ==
  UNION {{Command(cfg, p, i, slot) : p \in SourcePaths(cfg, files, i), slot \in Slots(cfg)} :
           i \in KeptSources(cfg)}

SourceFile(c) == FileAt(c.source)
TargetFile(c) == FileAt(c.target)

FirstPattern(cfg, c) ==
  CHOOSE n \in Patterns(cfg, c.source, c.from) :
    \A m \in Patterns(cfg, c.source, c.from) : n <= m

(* The nested loops: by source type, pattern and file, then by target.     *)
(* The file system decides in which order a pattern lists its files.       *)
SameSource(c, d) == c.from = d.from /\ c.source = d.source

Before(cfg, c, d) ==
  LET sourcePlace(x) == Place(Sources(cfg), SourceTypeOf, x.from)
      targetPlace(x) == Place(Targets(cfg), TargetTypeOf, x.slot[1]) IN
  \/ sourcePlace(c) < sourcePlace(d)
  \/ c.from = d.from /\ FirstPattern(cfg, c) < FirstPattern(cfg, d)
  \/ /\ SameSource(c, d)
     /\ \/ targetPlace(c) < targetPlace(d)
        \/ c.slot[1] = d.slot[1] /\ c.slot[2] < d.slot[2]

InOrder(cfg, list) ==
  \A m, n \in DOMAIN list : m < n =>
    /\ ~Before(cfg, list[n], list[m])
    /\ SameSource(list[m], list[n]) => \A k \in m..n : SameSource(list[k], list[m])

Listings(cfg, files) ==
  LET C == Expand(cfg, files) IN
    {list \in [1..Cardinality(C) -> C] :
       {list[n] : n \in DOMAIN list} = C /\ InOrder(cfg, list)}

-----------------------------------------------------------------------------
(* No two commands of the configuration write one file. *)
TargetsApart(cfg, files) ==
  \A c, d \in Expand(cfg, files) : TargetFile(c) = TargetFile(d) => c = d
=============================================================================
