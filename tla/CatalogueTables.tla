--------------------------- MODULE CatalogueTables ---------------------------
(***************************************************************************)
(* The tables of a data carousel, without state of their own: the sections *)
(* of a table put together (SectionSet), virtual paths (safe_path,         *)
(* join_path), and the catalogue a complete directory table (DDMT) and     *)
(* asset management table (DAMT) describe (build_catalogue).               *)
(*                                                                         *)
(* A path is a sequence of parts.  A DDMT section has a base path and its  *)
(* directories [tag, path]; a DAMT section has a component, transaction    *)
(* and download ids and its MPUs [sequence, index, nodes, node]: index is  *)
(* the item that lists the files, nodes the directory tags of the items in *)
(* order, node the tag an MPU without items gives all its files.           *)
(***************************************************************************)
EXTENDS Functions, Integers, Sequences, FiniteSets

CONSTANTS Absent, Escapes

(* A path without its empty and "." parts; ".." anywhere refuses it.       *)
SafePath(path) ==
  IF ".." \in Range(path) THEN Escapes
  ELSE SelectSeq(path, LAMBDA part : part \notin {"", "."})

JoinPath(first, second) ==
  IF Escapes \in {SafePath(first), SafePath(second)} THEN Escapes
  ELSE SafePath(first) \o SafePath(second)

(* SectionSet: one version of a table, its sections by number.             *)
NoSections == [version |-> Absent, last |-> Absent, sections |-> << >>]

Bug_KeepsOldSections(set, table) ==
  LET kept == [number \in 0 .. table.last |->
                 IF number \in DOMAIN set.sections THEN set.sections[number] ELSE Absent]
  IN  [version |-> table.version, last |-> table.last,
       sections |-> [kept EXCEPT ![table.number] = table]]

AddSection(set, table) ==
  LET same == set.version = table.version /\ set.last = table.last
      held == IF same THEN set.sections ELSE [number \in 0 .. table.last |-> Absent]
  IN  [version |-> table.version, last |-> table.last,
       sections |-> IF table.number > table.last THEN held
                    ELSE [held EXCEPT ![table.number] = table]]

Complete(set) ==
  set.version # Absent /\ Absent \notin Range(set.sections)

(* What the DAMT says of an MPU: item 0 is the index when none is named.   *)
MpuMap(table, mpu) ==
  [transaction |-> table.transaction, download |-> table.download,
   index |-> IF mpu.index = Absent THEN 0 ELSE mpu.index,
   nodes |-> mpu.nodes, node |-> mpu.node]

(* The directory tags of n files of an MPU, in the order of its index.     *)
NodeTags(map, n) ==
  IF map.nodes = << >> /\ map.node # Absent THEN [i \in 1 .. n |-> map.node]
  ELSE map.nodes

(* All entries of a table's sections, and all MPUs of a DAMT's, each with  *)
(* the section it is in.                                                   *)
Directories(sections) ==
  UNION {{<< n, i >> : i \in DOMAIN sections[n].directories} : n \in DOMAIN sections}

ListedMpus(sections) ==
  UNION {{<< n, i >> : i \in DOMAIN sections[n].mpus} : n \in DOMAIN sections}

DirectoryTag(sections, d)  == sections[d[1]].directories[d[2]].tag
DirectoryPath(sections, d) ==
  JoinPath(sections[d[1]].base, sections[d[1]].directories[d[2]].path)

MpuKey(sections, u) ==
  << sections[u[1]].component, sections[u[1]].mpus[u[2]].sequence >>

NodesOf(sections) ==
  [tag \in {DirectoryTag(sections, d) : d \in Directories(sections)} |->
     DirectoryPath(sections,
       CHOOSE d \in Directories(sections) : DirectoryTag(sections, d) = tag)]

MpusOf(sections) ==
  [key \in {MpuKey(sections, u) : u \in ListedMpus(sections)} |->
     LET u == CHOOSE v \in ListedMpus(sections) : MpuKey(sections, v) = key
     IN  MpuMap(sections[u[1]], sections[u[1]].mpus[u[2]])]

(***************************************************************************)
(* What build_catalogue accepts: distinct base paths and tags, no path     *)
(* that escapes, distinct components and MPUs, and every directory an MPU  *)
(* refers to present.                                                      *)
(***************************************************************************)
ValidDirectories(sections) ==
  LET base == [n \in DOMAIN sections |-> SafePath(sections[n].base)]
      entries == Directories(sections)
  IN  /\ Escapes \notin Range(base)
      /\ IsInjective(base)
      /\ \A d \in entries : DirectoryPath(sections, d) # Escapes
      /\ IsInjective([d \in entries |-> DirectoryTag(sections, d)])

ValidManagement(sections, nodes) ==
  LET listed == ListedMpus(sections)
  IN  /\ IsInjective([n \in DOMAIN sections |-> sections[n].component])
      /\ IsInjective([u \in listed |-> MpuKey(sections, u)])
      /\ \A key \in DOMAIN MpusOf(sections) :
           Range(NodeTags(MpusOf(sections)[key], 1)) \subseteq DOMAIN nodes

ValidCatalogue(directories, management) ==
  /\ ValidDirectories(directories)
  /\ ValidManagement(management, NodesOf(directories))
=============================================================================
