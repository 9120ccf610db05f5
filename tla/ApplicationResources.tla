------------------------ MODULE ApplicationResources -------------------------
(***************************************************************************)
(* Application resources: from the tables and units of a data carousel to  *)
(* the files of a broadcast application.                                   *)
(*                                                                         *)
(* The Demuxer passes a section of a DDMT or DAMT on when its version is   *)
(* not the one it saw last under that number.  The assembler collects the  *)
(* sections per source and session, makes the catalogue active once both   *)
(* tables are complete (in the active session, once one is), and publishes *)
(* the files its MPUs' indexes list.  All of it is one thread; one context *)
(* is modelled, contexts share nothing but the pending limits.             *)
(*                                                                         *)
(* A broadcaster sends one carousel after the other, and repeats what the  *)
(* current one consists of in any order: its table sections, units and     *)
(* applications.  Nothing of an earlier carousel comes later.  A carousel  *)
(* may change anything: both tables in one session, an index under the     *)
(* same download id, an item that was dropped and returns.                 *)
(***************************************************************************)
EXTENDS CatalogueFiles

CONSTANTS
  Carousels,         (* sequence of [tables, units, applications], sets    *)
  MaxInterruptions   (* bound on resets and repositions together           *)

VARIABLES
  files,         (* the assembler's state and its store: CatalogueFiles    *)
  active,        (* ContextCatalogueState::active: [source, session,       *)
                 (* ddmt, damt], the tables as SectionSets                 *)
  candidates,    (* <<source, session>> -> [ddmt, damt], SectionSets       *)
  seen,          (* the Demuxer's data_directory_versions_ and             *)
                 (* data_asset_management_versions_                        *)
  carousel,      (* the number of the carousel on the air                  *)
  interruptions, (* resets and repositions so far                          *)
  orphaned       (* history: a section that is seen was dropped unused     *)

assemblerVars == << files, active, candidates, seen, carousel, interruptions, orphaned >>

assembler == << files, active, candidates >>

OnAir == Carousels[carousel]

AssemblerInit ==
  /\ files = NoState
  /\ active = Absent
  /\ candidates = NoFiles
  /\ seen = NoFiles
  /\ carousel = 1
  /\ interruptions = 0
  /\ orphaned = FALSE

(* Nothing is said of what follows undefined behaviour.                    *)
Defined == files.undefined = Absent

(***************************************************************************)
(* A section that is not next and not the active catalogue's joins its     *)
(* candidate.  What the candidate has not complete, the active catalogue   *)
(* of the same session supplies; then the candidate becomes active, if it  *)
(* is valid, and every candidate is dropped.                               *)
(***************************************************************************)
Id(table) == << table.source, table.session >>

Bug_AnySession(id) == active # Absent

IsActive(id) == active # Absent /\ id = << active.source, active.session >>

Candidate(table) ==
  LET held == IF Id(table) \in DOMAIN candidates THEN candidates[Id(table)]
              ELSE [ddmt |-> NoSections, damt |-> NoSections]
  IN  [held EXCEPT ![table.kind] = AddSection(@, table)]

Chosen(id, candidate, kind) ==
  IF Complete(candidate[kind]) THEN candidate[kind]
  ELSE IF IsActive(id) THEN active[kind] ELSE NoSections

Commits(id, candidate) ==
  /\ Complete(candidate.ddmt) \/ Complete(candidate.damt)
  /\ Complete(Chosen(id, candidate, "ddmt")) /\ Complete(Chosen(id, candidate, "damt"))
  /\ ValidCatalogue(Chosen(id, candidate, "ddmt").sections,
                    Chosen(id, candidate, "damt").sections)

(* The sections in use or being collected, by the Demuxer's key.           *)
SeenKey(table) == << table.kind, table.session, table.number >>

InSet(set) == Range(set.sections) \ {Absent}

InCandidates(cs) == UNION {InSet(c.ddmt) \cup InSet(c.damt) : c \in Range(cs)}

InUse(a) == IF a = Absent THEN {} ELSE InSet(a.ddmt) \cup InSet(a.damt)

Collect(table) ==
  LET id == Id(table)
      candidate == Candidate(table)
      ddmt == Chosen(id, candidate, "ddmt")
      damt == Chosen(id, candidate, "damt")
      nodes == NodesOf(ddmt.sections)
  IN  IF Commits(id, candidate)
      THEN /\ active' = [source |-> id[1], session |-> id[2], ddmt |-> ddmt, damt |-> damt]
           /\ files' = Retry(CommitCatalogue(files, nodes, MpusOf(damt.sections)))
           /\ candidates' = NoFiles
      ELSE /\ candidates' = With(candidates, id, candidate)
           /\ UNCHANGED << active, files >>

IsNew(table) ==
  ~(SeenKey(table) \in DOMAIN seen /\ seen[SeenKey(table)] = table.version)

TableArrives(table) ==
  /\ Defined
  /\ IsNew(table)
  /\ seen' = With(seen, SeenKey(table), table.version)
  /\ IF \/ table.next
        \/ IsActive(Id(table)) /\ active[table.kind].version = table.version
     THEN UNCHANGED assembler
     ELSE Collect(table)
  /\ orphaned' = (orphaned \/ ~InCandidates(candidates)
                                 \subseteq InCandidates(candidates') \cup InUse(active'))
  /\ UNCHANGED << carousel, interruptions >>

UnitArrives(unit) ==
  /\ Defined
  /\ files' = Unit(files, unit)
  /\ UNCHANGED << active, candidates, seen, carousel, interruptions, orphaned >>

ApplicationArrives(app) ==
  /\ Defined
  /\ ~(app.id \in DOMAIN files.applications /\ files.applications[app.id].application = app)
  /\ files' = Application(files, app)
  /\ UNCHANGED << active, candidates, seen, carousel, interruptions, orphaned >>

(* Demuxer::reposition and what dropTransientKeepActive drops.             *)
Reposition ==
  /\ Defined
  /\ interruptions < MaxInterruptions
  /\ interruptions' = interruptions + 1
  /\ candidates' = NoFiles
  /\ files' = [files EXCEPT !.pending = NoFiles, !.bytes = 0]
  /\ orphaned' = (orphaned \/ InCandidates(candidates) # {})
  /\ UNCHANGED << active, seen, carousel >>

(* Demuxer::reset and select_service: both clear the assembler, the store  *)
(* and the Demuxer's tables.                                               *)
Reset ==
  /\ Defined
  /\ interruptions < MaxInterruptions
  /\ interruptions' = interruptions + 1
  /\ files' = NoState
  /\ active' = Absent
  /\ candidates' = NoFiles
  /\ seen' = NoFiles
  /\ orphaned' = FALSE
  /\ UNCHANGED carousel

NextCarousel ==
  /\ carousel < Len(Carousels)
  /\ carousel' = carousel + 1
  /\ UNCHANGED << files, active, candidates, seen, interruptions, orphaned >>

AssemblerNext ==
  \/ \E table \in OnAir.tables : TableArrives(table)
  \/ \E unit \in OnAir.units : UnitArrives(unit)
  \/ \E app \in OnAir.applications : ApplicationArrives(app)
  \/ Reposition
  \/ Reset
  \/ NextCarousel

AssemblerSpec == AssemblerInit /\ [][AssemblerNext]_assemblerVars
-----------------------------------------------------------------------------
(* What a carousel consists of, read off its definition: the reference the *)
(* properties compare the store with.                                      *)
SectionsOf(c, kind) ==
  LET mine == {t \in c.tables : t.kind = kind /\ ~t.next}
  IN  [n \in {t.number : t \in mine} |-> CHOOSE t \in mine : t.number = n]

(* The files a carousel carries: [path, key, signature, content].          *)
FilesOf(c) ==
  LET nodes == NodesOf(SectionsOf(c, "ddmt"))
      mpus  == MpusOf(SectionsOf(c, "damt"))
      Index(unit) == unit.item = mpus[unit.mpu].index
      Listed(index) ==
        {[path |-> JoinPath(nodes[NodeTags(mpus[index.mpu], Len(index.records))[i]],
                            index.records[i].name),
          key  |-> << index.mpu, index.records[i].item >>,
          version |-> index.records[i].version] : i \in DOMAIN index.records}
      listed == UNION {Listed(u) : u \in {v \in c.units : Index(v)}}
      UnitOf(key) == CHOOSE u \in c.units : << u.mpu, u.item >> = key
  IN  {[path |-> f.path,
        file |-> [key |-> f.key,
                  signature |-> [transaction |-> mpus[f.key[1]].transaction,
                                 download |-> mpus[f.key[1]].download,
                                 version |-> f.version, path |-> f.path],
                  content |-> UnitOf(f.key).content]] :
       f \in {g \in listed : g.path # Escapes}}

CarouselFiles == [n \in DOMAIN Carousels |-> FilesOf(Carousels[n])]

(***************************************************************************)
(* What the broadcaster keeps to.  A carousel has both tables, of one      *)
(* source and session; a table is whole, of one version, and a version     *)
(* says the same whenever it is sent.                                      *)
(***************************************************************************)
Sent(n, kind) == {t \in Carousels[n].tables : t.kind = kind /\ ~t.next}

Kinds == {"ddmt", "damt"}

ASSUME CarouselsAssumption ==
  /\ Len(Carousels) \in Nat \ {0} /\ DOMAIN Carousels = 1 .. Len(Carousels)
  /\ MaxInterruptions \in Nat
  /\ MaxPendingUnits \in Nat /\ MaxPendingBytes \in Nat /\ MaxResources \in Nat

ASSUME TablesAssumption ==
  \A n \in DOMAIN Carousels :
    /\ \A t \in Carousels[n].tables : t.kind \in Kinds
    /\ \A kind \in Kinds : Sent(n, kind) # {}
    /\ \A kind \in Kinds : \A t, u \in Sent(n, kind) :
         /\ t.last \in Nat /\ t.last = u.last /\ t.version = u.version
         /\ t.number = u.number => t = u
    /\ \A kind \in Kinds : \A t \in Sent(n, kind) :
         {u.number : u \in Sent(n, kind)} = 0 .. t.last
    /\ \A t, u \in Sent(n, "ddmt") \cup Sent(n, "damt") :
         Id(t) = Id(u) /\ t.version # Absent /\ t # Absent

ASSUME VersionsAssumption ==
  \A m, n \in DOMAIN Carousels, kind \in Kinds :
    (\E t \in Sent(m, kind), u \in Sent(n, kind) : Id(t) = Id(u) /\ t.version = u.version)
      => Sent(m, kind) = Sent(n, kind)

Mpus(n) == MpusOf(SectionsOf(Carousels[n], "damt"))

ASSUME SequencesAssumption ==
  \A n \in DOMAIN Carousels : \A mpu \in DOMAIN Mpus(n) : mpu[2] \in Nat

ASSUME UnitsAssumption ==
  \A n \in DOMAIN Carousels : \A u \in Carousels[n].units :
    /\ u.size \in Nat
    /\ u.records # Absent => Len(u.records) \in Nat /\ DOMAIN u.records = 1 .. Len(u.records)

(***************************************************************************)
(* What the indexes on the air say: the files that a unit of carousel a    *)
(* lists when it is the index of its MPU in the DAMT of carousel m and the *)
(* directories are those of carousel n.                                    *)
(***************************************************************************)
IndexUnits(m, a) ==
  {u \in Carousels[a].units :
     /\ u.mpu \in DOMAIN Mpus(m) /\ u.records # Absent
     /\ u.item = Mpus(m)[u.mpu].index /\ u.download = Mpus(m)[u.mpu].download
     /\ Len(u.records) = Len(NodeTags(Mpus(m)[u.mpu], Len(u.records)))}

FilesListed(n, m, u) ==
  LET nodes == NodesOf(SectionsOf(Carousels[n], "ddmt"))
      tags  == NodeTags(Mpus(m)[u.mpu], Len(u.records))
      path  == [i \in DOMAIN u.records |-> JoinPath(nodes[tags[i]], u.records[i].name)]
  IN  {[key |-> << u.mpu, u.records[i].item >>, path |-> path[i],
        version |-> u.records[i].version] : i \in {j \in DOMAIN u.records : path[j] # Escapes}}

Indexes ==
  [n \in DOMAIN Carousels |-> [m \in DOMAIN Carousels |-> [a \in DOMAIN Carousels |->
     IF ValidCatalogue(SectionsOf(Carousels[n], "ddmt"), SectionsOf(Carousels[m], "damt"))
     THEN {[mpu |-> u.mpu, listed |-> FilesListed(n, m, u)] : u \in IndexUnits(m, a)}
     ELSE {}]]]

Shown == {[path |-> p, file |-> files.store[p]] : p \in DOMAIN files.store}

(***************************************************************************)
(* AssemblerTypeOK: shapes, and the pending budget.  pending_bytes_ is the *)
(* sum of the pending units' sizes, whichever way they leave (used up,     *)
(* replaced, erased with an MPU, dropped), and neither limit is passed,    *)
(* as long as the behaviour is defined.                                    *)
(***************************************************************************)
AssemblerTypeOK ==
  /\ active # Absent => Complete(active.ddmt) /\ Complete(active.damt)
  /\ carousel \in DOMAIN Carousels /\ interruptions \in 0 .. MaxInterruptions
  /\ Cardinality(DOMAIN files.items) <= MaxResources
  /\ Defined =>
       /\ files.bytes = PendingBytes(files.pending, DOMAIN files.pending)
       /\ files.bytes <= MaxPendingBytes
       /\ Cardinality(DOMAIN files.pending) <= MaxPendingUnits

(***************************************************************************)
(* CatalogueWhole: the active catalogue is one directory table and one     *)
(* management table as broadcast, every section of the same version, and   *)
(* both of the session it is said to be of; nodes and MPUs are theirs, and *)
(* no MPU has a directory that is not there.  The tables are of different  *)
(* carousels only where both changed within a session.                     *)
(***************************************************************************)
CatalogueWhole ==
  active # Absent => \E n, m \in 1 .. carousel :
    /\ active.ddmt.sections = SectionsOf(Carousels[n], "ddmt")
    /\ active.damt.sections = SectionsOf(Carousels[m], "damt")
    /\ \A t \in Sent(n, "ddmt") \cup Sent(m, "damt") :
         Id(t) = << active.source, active.session >>
    /\ files.nodes = NodesOf(active.ddmt.sections)
    /\ files.mpus = MpusOf(active.damt.sections)
    /\ ValidCatalogue(active.ddmt.sections, active.damt.sections)

(***************************************************************************)
(* BytesNotOlder: the bytes of a file in the store came with a unit sent   *)
(* for that item under the download id the file has, the id a management   *)
(* table gives its MPU; its path and version were listed for the item      *)
(* under that table or, until the new index of an MPU updated in place has *)
(* come, under an earlier one.  Units that waited never appear under a     *)
(* newer download than their own.                                          *)
(***************************************************************************)
BytesNotOlder ==
  \A f \in Shown : \E k \in 1 .. carousel :
    LET key == f.file.key
        signature == f.file.signature
    IN  /\ key[1] \in DOMAIN Mpus(k)
        /\ signature.transaction = Mpus(k)[key[1]].transaction
        /\ signature.download = Mpus(k)[key[1]].download
        /\ \E b \in 1 .. carousel : \E u \in Carousels[b].units :
             /\ << u.mpu, u.item >> = key /\ u.content = f.file.content
             /\ u.download = signature.download
        /\ \E m \in 1 .. k : \E n, a \in 1 .. carousel : \E index \in Indexes[n][m][a] :
             [key |-> key, path |-> f.path, version |-> signature.version] \in index.listed

(***************************************************************************)
(* RetryKeepsItsEntry: retry erases the entry it is iterating over for one *)
(* reason only: an index of the item's MPU left out the item and a later   *)
(* one, or the same one again, lists it, or it became the index itself.    *)
(***************************************************************************)
Lists(index, item) == item \in {file.key : file \in index.listed}

IndexesUnder(m) == UNION {Indexes[n][m][a] : n \in 1 .. carousel, a \in 1 .. carousel}

ListedUnder(item, m) == \E index \in IndexesUnder(m) : Lists(index, item)

LeftOutUnder(item, m) ==
  \E index \in IndexesUnder(m) : index.mpu = item[1] /\ ~Lists(index, item)

Relisted(item) ==
  \E l, m, n \in 1 .. carousel :
    /\ l <= m /\ m <= n
    /\ ListedUnder(item, l) /\ LeftOutUnder(item, m)
    /\ \/ ListedUnder(item, n)
       \/ item[1] \in DOMAIN Mpus(n) /\ item[2] = Mpus(n)[item[1]].index

RetryKeepsItsEntry == ~Defined => Relisted(files.undefined)

(***************************************************************************)
(* EntryServed: the state an application was told last agrees with the     *)
(* store: it is ready exactly when entryPath finds its entry, which is     *)
(* when the store has a file there, and the count is the store's.          *)
(***************************************************************************)
EntryServed ==
  \A id \in DOMAIN files.applications :
    LET told == files.applications[id]
        entries == Entries(told.application)
    IN  /\ told.ready <=> entries \cap ServedEntries(files) # {}
        /\ entries \cap DOMAIN files.store \subseteq ServedEntries(files)
        /\ told.count = Cardinality(DOMAIN files.store)

(***************************************************************************)
(* UpdatesKeepFiles: no step but a reset takes a file away that the active *)
(* catalogue lists at the same path, or takes files of an MPU away while   *)
(* its successor's index has not come.                                     *)
(***************************************************************************)
Listing(s, path) ==
  {key \in DOMAIN s.items : key[1] \in DOMAIN s.mpus /\ s.items[key].path = path}


(***************************************************************************)
(* RepeatsSuffice: when nothing the carousel repeats changes anything any  *)
(* more, the store shows it: all its files and no other, each with its own *)
(* bytes; provided no section was dropped after the Demuxer saw it.        *)
(***************************************************************************)
Quiet ==
  /\ Defined
  /\ \A table \in OnAir.tables : ~IsNew(table)
  /\ \A unit \in OnAir.units : Unit(files, unit) = files

Settled == Shown = CarouselFiles[carousel]

RepeatsSuffice == Quiet => Settled \/ orphaned

(***************************************************************************)
(* AcquiresAnyway: the same without the proviso: sections that were        *)
(* dropped are acquired again when they are repeated.                      *)
(***************************************************************************)
AcquiresAnyway == Quiet => Settled
=============================================================================
