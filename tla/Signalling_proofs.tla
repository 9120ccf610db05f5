--------------------------- MODULE Signalling_proofs ---------------------------
(***************************************************************************)
(* Proofs about ServiceTables, for any contexts, tables, sections and      *)
(* selections, and any order of packets and calls: the sub-tables the      *)
(* Demuxer shows, the roles of packet ids and the budget they share, the   *)
(* units that rerouting leaves alone, and what the sink has been told.     *)
(* After them, proofs about SignallingReassembly, for any stream of        *)
(* messages and any walk of the channel over it: the messages the tables   *)
(* are read from.                                                          *)
(***************************************************************************)
EXTENDS ServiceTables, SignallingReassembly, FiniteSetTheorems, SequenceTheorems,
  NaturalsInduction, WellFoundedInduction, TLAPS

(***************************************************************************)
(* What is staged under an identity: sections of one version with one last *)
(* number, none of them twice.                                             *)
(***************************************************************************)
Collected(c, key, have) ==
  /\ have \subseteq {s \in Sections[c] : Identity(s) = key}
  /\ \A s \in have : s.number <= s.last
  /\ \A s, t \in have :
       /\ s.version = t.version /\ s.last = t.last
       /\ s.number = t.number => s = t

StagedWell(c, staged) == \A key \in DOMAIN staged : Collected(c, key, staged[key])

LEMMA CollectedGrows ==
  ASSUME NEW c \in Contexts, NEW section \in Sections[c], NEW old,
         Collected(c, Identity(section), old), section.number <= section.last,
         ~Conflicts(SameVersion(old, section), section)
  PROVE  Collected(c, Identity(section), SameVersion(old, section) \cup {section})
<1> DEFINE kept == SameVersion(old, section)
<1>1. /\ kept \subseteq old
      /\ \A s \in kept : s.version = section.version /\ s.last = section.last
  BY DEF SameVersion
<1>2. \A s \in kept : s.number = section.number => s = section
  BY DEF Conflicts
<1>3. \A s, t \in kept \cup {section} :
        /\ s.version = t.version /\ s.last = t.last
        /\ s.number = t.number => s = t
  BY <1>1, <1>2 DEF Collected
<1> HIDE DEF kept
<1>4. \A s \in kept \cup {section} : s.number <= s.last
  BY <1>1 DEF Collected
<1>5. kept \cup {section} \subseteq {s \in Sections[c] : Identity(s) = Identity(section)}
  BY <1>1 DEF Collected
<1> QED
  BY <1>3, <1>4, <1>5 DEF Collected, kept

(* The sections of a sub-table shown (WholeSubTables): one version, whole. *)
WholeSet(c, pid, type, sections) ==
  /\ sections \subseteq {s \in Sections[c] : s.pid = pid /\ s.type = type /\ s.next}
  /\ \A s, t \in sections : s.version = t.version /\ s.last = t.last
  /\ \/ \E last \in {s.last : s \in sections} : {s.number : s \in sections} = 0 .. last
     \/ {s.number : s \in sections} = {1} /\ type = Html5

(* As many sections as numbers up to the last are all of them.             *)
LEMMA CountedWhole ==
  ASSUME NEW c \in Contexts, NEW key, NEW have, NEW section \in have,
         Collected(c, key, have), Cardinality(have) = section.last + 1
  PROVE  {s.number : s \in have} = 0 .. section.last
<1> DEFINE number == [s \in have |-> s.number]
<1>1. \A s \in have : s.number \in Nat /\ s.last \in Nat
  BY SectionsAssumption DEF Collected
<1>2. \A s \in have : s.number \in 0 .. section.last
  BY <1>1 DEF Collected
<1>3. number \in Injection(have, 0 .. section.last)
  BY <1>2 DEF Injection, IsInjective, Collected
<1>4. IsFiniteSet(0 .. section.last) /\ Cardinality(0 .. section.last) = section.last + 1
  BY <1>1, FS_Interval
<1>5. number \in Surjection(have, 0 .. section.last)
  BY <1>3, <1>4, FS_Injection
<1>6. \A n \in 0 .. section.last : \E s \in have : s.number = n
  BY <1>5 DEF Surjection
<1> QED
  BY <1>2, <1>6

LEMMA CompleteWhole ==
  ASSUME NEW c \in Contexts, NEW have, NEW section \in have, section.next,
         Collected(c, Identity(section), have), Complete(have, section)
  PROVE  WholeSet(c, section.pid, section.type, have)
<1>1. \A s \in have : s.number \in Nat /\ s.last \in Nat /\ s.next \in BOOLEAN
  BY SectionsAssumption DEF Collected
<1>2. \A s \in have :
        /\ s \in Sections[c] /\ s.pid = section.pid /\ s.type = section.type
        /\ s.next = section.next
  BY DEF Collected, Identity
<1>3. have \subseteq
        {s \in Sections[c] : s.pid = section.pid /\ s.type = section.type /\ s.next}
  BY <1>1, <1>2
<1>4. \A s, t \in have : s.version = t.version /\ s.last = t.last
  BY DEF Collected
<1>5. CASE section.type = Html5 /\ section.number = 1 /\ section.last = 1
  <2>1. \A s \in have : s.number \in {0, 1}
    BY <1>1, <1>4, <1>5 DEF Collected
  <2>2. CASE \E s \in have : s.number = 0
    <3>1. {s.number : s \in have} = 0 .. section.last
      BY <1>5, <2>1, <2>2
    <3> QED
      BY <1>3, <1>4, <3>1 DEF WholeSet
  <2>3. CASE \A s \in have : s.number # 0
    <3>1. {s.number : s \in have} = {1}
      BY <1>5, <2>1, <2>3
    <3> QED
      BY <1>3, <1>4, <1>5, <3>1 DEF WholeSet
  <2> QED
    BY <2>2, <2>3
<1>6. CASE Cardinality(have) = section.last + 1
  BY <1>3, <1>4, <1>6, CountedWhole DEF WholeSet
<1> QED
  BY <1>5, <1>6 DEF Complete


-----------------------------------------------------------------------------
(* Functions of packet ids and tables.                                     *)
LEMMA PutAt ==
  ASSUME NEW place, NEW value, NEW f
  PROVE  /\ DOMAIN Put(f, place, value) = {place} \cup DOMAIN f
         /\ Put(f, place, value)[place] = value
         /\ \A y \in DOMAIN f \ {place} : Put(f, place, value)[y] = f[y]
BY DEF Put, Over

LEMMA Restricted ==
  ASSUME NEW f, NEW S
  PROVE  DOMAIN Restrict(f, S) = S /\ \A x \in S : Restrict(f, S)[x] = f[x]
BY DEF Restrict

(***************************************************************************)
(* parse_mh_ait keeps the staging area well, and what it delivers is whole.*)
(***************************************************************************)
LEMMA StagingStep ==
  ASSUME NEW c \in Contexts, NEW section \in Sections[c], NEW staged, NEW committed,
         StagedWell(c, staged)
  PROVE  LET r == StageSection(staged, committed, section)
         IN  /\ StagedWell(c, r.staged)
             /\ r.delivered /\ section.next =>
                  \E have : /\ r.committed[Identity(section)] = have
                            /\ WholeSet(c, section.pid, section.type, have)
<1> DEFINE key == Identity(section)
           old == At(staged, key)
           kept == SameVersion(old, section)
           have == kept \cup {section}
           without == Restrict(staged, DOMAIN staged \ {key})
           r == StageSection(staged, committed, section)
<1>1. Collected(c, key, old)
  BY DEF At, StagedWell, Collected
<1>2. StagedWell(c, without)
  BY Restricted DEF StagedWell
<1>3. CASE section.number > section.last
  BY <1>3 DEF StageSection, Result
<1>4. CASE ~(section.number > section.last) /\ Conflicts(kept, section)
  BY <1>2, <1>4 DEF StageSection, Result
<1>5. CASE ~(section.number > section.last) /\ ~Conflicts(kept, section)
  <2>1. section.number <= section.last
    BY <1>5, SectionsAssumption
  <2>2. Collected(c, key, have)
    BY <1>1, <1>5, <2>1, CollectedGrows
  <2>3. CASE ~Complete(have, section)
    <3>1. r = Result(Put(without, key, have), committed, FALSE)
      BY <1>5, <2>3 DEF StageSection
    <3> HIDE DEF have, without, key
    <3>2. StagedWell(c, Put(without, key, have))
      <4> SUFFICES ASSUME NEW k \in DOMAIN Put(without, key, have)
                   PROVE  Collected(c, k, Put(without, key, have)[k])
        BY DEF StagedWell
      <4>1. CASE k = key
        BY <2>2, <4>1, PutAt
      <4>2. CASE k # key
        <5>1. DOMAIN Put(without, key, have) = {key} \cup DOMAIN without
          BY PutAt
        <5>2. k \in DOMAIN without \ {key}
          BY <4>2, <5>1
        <5>3. Put(without, key, have)[k] = without[k]
          BY <5>2 DEF Put, Over
        <5> QED
          BY <1>2, <5>2, <5>3 DEF StagedWell
      <4> QED
        BY <4>1, <4>2
    <3> QED
      BY <3>1, <3>2 DEF Result, key
  <2>4. CASE Complete(have, section)
    <3>1. r = Result(without, Put(committed, key, have), At(committed, key) # have)
      BY <1>5, <2>4 DEF StageSection
    <3>2. section.next => WholeSet(c, section.pid, section.type, have)
      BY <2>2, <2>4, CompleteWhole
    <3> HIDE DEF have, without, key
    <3>3. Put(committed, key, have)[key] = have
      BY PutAt
    <3> QED
      BY <1>2, <3>1, <3>2, <3>3 DEF Result, key
  <2> QED
    BY <2>3, <2>4
<1> QED
  BY <1>3, <1>4, <1>5

-----------------------------------------------------------------------------
(* The fields of the Demuxer's tables.                                     *)
View(mpts, tracks, aits, applications, told, shown) ==
  [mpts |-> mpts, tracks |-> tracks, aits |-> aits, applications |-> applications,
   sink |-> [tracks |-> told, applications |-> shown]]

ViewFields(v) ==
  v = View(v.mpts, v.tracks, v.aits, v.applications, v.sink.tracks, v.sink.applications)

(* What each operation makes of the fields.                                *)
LEMMA ForgetIs ==
  ASSUME NEW mpts, NEW tracks, NEW aits, NEW applications, NEW told, NEW shown, NEW gone
  PROVE  Forget(View(mpts, tracks, aits, applications, told, shown), gone)
           = View(mpts, tracks, aits, Restrict(applications, DOMAIN applications \ gone),
                  told, Restrict(shown, DOMAIN shown \ gone))
<1> DEFINE kept == Restrict(shown, DOMAIN shown \ gone)
           held == Restrict(applications, DOMAIN applications \ gone)
           sink == [tracks |-> told, applications |-> shown]
           record == [mpts |-> mpts, tracks |-> tracks, aits |-> aits,
                      applications |-> applications, sink |-> sink]
<1>1. Forget(record, gone) = [record EXCEPT !.applications = held, !.sink.applications = kept]
  BY DEF Forget
<1> HIDE DEF kept, held
<1>2. [record EXCEPT !.applications = held, !.sink.applications = kept]
        = [[record EXCEPT !.applications = held] EXCEPT !.sink.applications = kept]
  OBVIOUS
<1>3. [record EXCEPT !.applications = held]
        = [mpts |-> mpts, tracks |-> tracks, aits |-> aits, applications |-> held,
           sink |-> sink]
  OBVIOUS
<1>4. [sink EXCEPT !.applications = kept] = [tracks |-> told, applications |-> kept]
  OBVIOUS
<1>5. Forget(record, gone)
        = [mpts |-> mpts, tracks |-> tracks, aits |-> aits, applications |-> held,
           sink |-> [tracks |-> told, applications |-> kept]]
  BY <1>1, <1>2, <1>3, <1>4
<1> QED
  BY <1>5 DEF View, kept, held

LEMMA CommitIs ==
  ASSUME NEW mpts, NEW tracks, NEW aits, NEW applications, NEW told, NEW shown, NEW snapshot
  PROVE  LET held == {track \in tracks : track.context # snapshot.context}
                       \cup TracksOf(snapshot)
         IN CommitTracks(View(mpts, tracks, aits, applications, told, shown), snapshot)
              = View(mpts, held, aits, applications,
                     (told \ (tracks \ held)) \cup (TracksOf(snapshot) \ tracks), shown)
<1> DEFINE new == TracksOf(snapshot)
           held == {track \in tracks : track.context # snapshot.context} \cup new
           kept == (told \ (tracks \ held)) \cup (new \ tracks)
           sink == [tracks |-> told, applications |-> shown]
           record == [mpts |-> mpts, tracks |-> tracks, aits |-> aits,
                      applications |-> applications, sink |-> sink]
<1>1. CommitTracks(record, snapshot) = [record EXCEPT !.tracks = held, !.sink.tracks = kept]
  BY DEF CommitTracks
<1> HIDE DEF kept, held, new
<1>2. [record EXCEPT !.tracks = held, !.sink.tracks = kept]
        = [[record EXCEPT !.tracks = held] EXCEPT !.sink.tracks = kept]
  OBVIOUS
<1>3. [record EXCEPT !.tracks = held]
        = [mpts |-> mpts, tracks |-> held, aits |-> aits, applications |-> applications,
           sink |-> sink]
  OBVIOUS
<1>4. [sink EXCEPT !.tracks = kept] = [tracks |-> kept, applications |-> shown]
  OBVIOUS
<1>5. CommitTracks(record, snapshot)
        = [mpts |-> mpts, tracks |-> held, aits |-> aits, applications |-> applications,
           sink |-> [tracks |-> kept, applications |-> shown]]
  BY <1>1, <1>2, <1>3, <1>4
<1> QED
  BY <1>5 DEF View, kept, held, new

(* The applications of a sub-table that are new, or differ.                *)
Announced(applications, key, apps) ==
  LET named == [k \in ApplicationKeys(key, apps) |-> CHOOSE app \in apps : app.id = k[2]]
  IN Restrict(named, {k \in DOMAIN named :
                        k \notin DOMAIN applications \/ applications[k] # named[k]})

LEMMA AnnounceIs ==
  ASSUME NEW mpts, NEW tracks, NEW aits, NEW applications, NEW told, NEW shown,
         NEW key, NEW apps
  PROVE  LET announced == Announced(applications, key, apps)
         IN Announce(View(mpts, tracks, aits, applications, told, shown), key, apps)
              = View(mpts, tracks, Put(aits, key, apps), Over(announced, applications),
                     told, Over(announced, shown))
<1> DEFINE announced == Announced(applications, key, apps)
           held == Over(announced, applications)
           kept == Over(announced, shown)
           put  == Put(aits, key, apps)
           sink == [tracks |-> told, applications |-> shown]
           record == [mpts |-> mpts, tracks |-> tracks, aits |-> aits,
                      applications |-> applications, sink |-> sink]
<1>1. Announce(record, key, apps)
        = [record EXCEPT !.applications = held, !.sink.applications = kept, !.aits = put]
  BY DEF Announce, Announced
<1> HIDE DEF announced, held, kept, put
<1>2. [record EXCEPT !.applications = held, !.sink.applications = kept, !.aits = put]
        = [[[record EXCEPT !.applications = held] EXCEPT !.sink.applications = kept]
             EXCEPT !.aits = put]
  OBVIOUS
<1>3. [record EXCEPT !.applications = held]
        = [mpts |-> mpts, tracks |-> tracks, aits |-> aits, applications |-> held,
           sink |-> sink]
  OBVIOUS
<1>4. [sink EXCEPT !.applications = kept] = [tracks |-> told, applications |-> kept]
  OBVIOUS
<1>5. Announce(record, key, apps)
        = [mpts |-> mpts, tracks |-> tracks, aits |-> put, applications |-> held,
           sink |-> [tracks |-> told, applications |-> kept]]
  BY <1>1, <1>2, <1>3, <1>4
<1> QED
  BY <1>5 DEF View, held, kept, put, announced

(* Every application held is one of the sub-table it came with.            *)
Backed(v) ==
  \A k \in DOMAIN v.applications :
    k[1] \in DOMAIN v.aits /\ k \in ApplicationKeys(k[1], v.aits[k[1]])

LEMMA ForgetKeeps ==
  ASSUME NEW v, NEW gone, ViewFields(v)
  PROVE  /\ ViewFields(Forget(v, gone))
         /\ Forget(v, gone).mpts = v.mpts
         /\ Forget(v, gone).aits = v.aits
         /\ Forget(v, gone).sink.tracks = v.sink.tracks
         /\ DOMAIN Forget(v, gone).sink.applications \subseteq DOMAIN v.sink.applications
         /\ DOMAIN Forget(v, gone).applications = DOMAIN v.applications \ gone
<1>1. PICK mpts, tracks, aits, applications, told, shown :
        v = View(mpts, tracks, aits, applications, told, shown)
  BY DEF ViewFields
<1> DEFINE kept == Restrict(shown, DOMAIN shown \ gone)
           held == Restrict(applications, DOMAIN applications \ gone)
<1>2. Forget(v, gone) = View(mpts, tracks, aits, held, told, kept)
  BY <1>1, ForgetIs
<1>3. /\ DOMAIN kept \subseteq DOMAIN shown
      /\ DOMAIN held = DOMAIN applications \ gone
  BY Restricted
<1> HIDE DEF kept, held
<1> QED
  BY <1>1, <1>2, <1>3 DEF ViewFields, View

LEMMA RetireKeeps ==
  ASSUME NEW v, NEW c, NEW pids, ViewFields(v)
  PROVE  LET w == RetireSources(v, c, pids)
         IN  /\ ViewFields(w)
             /\ w.mpts = v.mpts
             /\ w.sink.tracks = v.sink.tracks
             /\ DOMAIN w.sink.applications \subseteq DOMAIN v.sink.applications
             /\ DOMAIN w.aits \subseteq DOMAIN v.aits
             /\ \A key \in DOMAIN w.aits : w.aits[key] = v.aits[key]
             /\ Backed(v) => /\ Backed(w)
                             /\ \A k \in DOMAIN w.applications :
                                  ~(k[1][1] = c /\ k[1][2] \in pids)
<1> DEFINE keys == {key \in DOMAIN v.aits : key[1] = c /\ key[2] \in pids}
           gone == UNION {ApplicationKeys(key, v.aits[key]) : key \in keys}
           kept == Restrict(v.aits, DOMAIN v.aits \ keys)
           w == RetireSources(v, c, pids)
<1>1. w = [Forget(v, gone) EXCEPT !.aits = Restrict(@, DOMAIN @ \ keys)]
  BY DEF RetireSources
<1>2. DOMAIN kept = DOMAIN v.aits \ keys /\ \A key \in DOMAIN kept : kept[key] = v.aits[key]
  BY Restricted
<1>3. ASSUME Backed(v), NEW k \in DOMAIN v.applications \ gone
      PROVE  /\ ~(k[1][1] = c /\ k[1][2] \in pids)
             /\ k[1] \in DOMAIN v.aits \ keys
             /\ k \in ApplicationKeys(k[1], v.aits[k[1]])
  BY <1>3 DEF Backed
<1> HIDE DEF keys, gone
<1>4. /\ ViewFields(Forget(v, gone))
      /\ Forget(v, gone).mpts = v.mpts
      /\ Forget(v, gone).aits = v.aits
      /\ Forget(v, gone).sink.tracks = v.sink.tracks
      /\ DOMAIN Forget(v, gone).sink.applications \subseteq DOMAIN v.sink.applications
      /\ DOMAIN Forget(v, gone).applications = DOMAIN v.applications \ gone
  BY ForgetKeeps
<1>5. w = [Forget(v, gone) EXCEPT !.aits = kept]
  BY <1>1, <1>4
<1> HIDE DEF kept, w
<1>6. /\ ViewFields(w)
      /\ w.mpts = v.mpts /\ w.aits = kept
      /\ w.sink = Forget(v, gone).sink
      /\ w.applications = Forget(v, gone).applications
  BY <1>4, <1>5 DEF ViewFields, View
<1>7. ASSUME Backed(v)
      PROVE  /\ Backed(w)
             /\ \A k \in DOMAIN w.applications : ~(k[1][1] = c /\ k[1][2] \in pids)
  BY <1>2, <1>3, <1>4, <1>6, <1>7 DEF Backed
<1> QED
  BY <1>2, <1>4, <1>6, <1>7 DEF w

LEMMA CommitKeeps ==
  ASSUME NEW v, NEW snapshot, ViewFields(v)
  PROVE  LET w == CommitTracks(v, snapshot)
         IN  /\ ViewFields(w)
             /\ w.mpts = v.mpts /\ w.aits = v.aits
             /\ w.applications = v.applications
             /\ w.sink.applications = v.sink.applications
             /\ w.sink.tracks \subseteq v.sink.tracks \cup TracksOf(snapshot)
<1>1. PICK mpts, tracks, aits, applications, told, shown :
        v = View(mpts, tracks, aits, applications, told, shown)
  BY DEF ViewFields
<1> DEFINE held == {track \in tracks : track.context # snapshot.context}
                     \cup TracksOf(snapshot)
           kept == (told \ (tracks \ held)) \cup (TracksOf(snapshot) \ tracks)
<1>2. CommitTracks(v, snapshot) = View(mpts, held, aits, applications, kept, shown)
  BY <1>1, CommitIs
<1>3. kept \subseteq told \cup TracksOf(snapshot)
  OBVIOUS
<1> HIDE DEF kept, held
<1> QED
  BY <1>1, <1>2, <1>3 DEF ViewFields, View

(***************************************************************************)
(* An MPT takes sub-tables away and adds tracks of its own context; the    *)
(* sources it no longer lists have nothing left.                           *)
(***************************************************************************)
LEMMA MptKeeps ==
  ASSUME NEW v, NEW snapshot, ViewFields(v)
  PROVE  LET w == MptSnapshot(v, snapshot)
         IN  /\ ViewFields(w)
             /\ DOMAIN w.mpts \subseteq {snapshot.context} \cup DOMAIN v.mpts
             /\ \A c \in DOMAIN w.mpts :
                  w.mpts[c] = IF c = snapshot.context THEN snapshot ELSE v.mpts[c]
             /\ w.sink.tracks \subseteq v.sink.tracks \cup TracksOf(snapshot)
             /\ DOMAIN w.sink.applications \subseteq DOMAIN v.sink.applications
             /\ DOMAIN w.aits \subseteq DOMAIN v.aits
             /\ \A key \in DOMAIN w.aits : w.aits[key] = v.aits[key]
             /\ Backed(v) => /\ Backed(w)
                             /\ \A k \in DOMAIN w.applications :
                                  ~(/\ k[1][1] = snapshot.context
                                    /\ \E service \in DroppedServices(v, snapshot) :
                                          service.ait = k[1][2] /\ service.ait # NoPid)
<1>1. CASE Unchanged(v, snapshot)
  <2>1. MptSnapshot(v, snapshot) = v
    BY <1>1 DEF MptSnapshot
  <2>2. DroppedServices(v, snapshot) = {}
    BY <1>1 DEF Unchanged, DroppedServices
  <2> QED
    BY <1>1, <2>1, <2>2 DEF Unchanged
<1>2. CASE ~Unchanged(v, snapshot)
  <2> DEFINE silenced == {service.ait : service \in DroppedServices(v, snapshot)} \ {NoPid}
             u == CommitTracks(v, snapshot)
             x == RetireSources(u, snapshot.context, silenced)
             mpts == Put(x.mpts, snapshot.context, snapshot)
  <2>1. MptSnapshot(v, snapshot) = [x EXCEPT !.mpts = mpts]
    BY <1>2 DEF MptSnapshot
  <2>2. \A service \in DroppedServices(v, snapshot) :
          service.ait # NoPid => service.ait \in silenced
    OBVIOUS
  <2> HIDE DEF silenced
  <2>3. /\ ViewFields(u)
        /\ u.mpts = v.mpts /\ u.aits = v.aits /\ u.applications = v.applications
        /\ u.sink.applications = v.sink.applications
        /\ u.sink.tracks \subseteq v.sink.tracks \cup TracksOf(snapshot)
    BY CommitKeeps
  <2> HIDE DEF u
  <2>4. /\ ViewFields(x)
        /\ x.mpts = u.mpts
        /\ x.sink.tracks = u.sink.tracks
        /\ DOMAIN x.sink.applications \subseteq DOMAIN u.sink.applications
        /\ DOMAIN x.aits \subseteq DOMAIN u.aits
        /\ \A key \in DOMAIN x.aits : x.aits[key] = u.aits[key]
        /\ Backed(u) => /\ Backed(x)
                        /\ \A k \in DOMAIN x.applications :
                             ~(k[1][1] = snapshot.context /\ k[1][2] \in silenced)
    BY <2>3, RetireKeeps
  <2>5. /\ DOMAIN mpts = {snapshot.context} \cup DOMAIN x.mpts
        /\ \A c \in DOMAIN mpts :
             mpts[c] = IF c = snapshot.context THEN snapshot ELSE x.mpts[c]
    BY DEF Put, Over
  <2>6. Backed(v) => Backed(u)
    BY <2>3 DEF Backed
  <2> HIDE DEF x, mpts
  <2>7. /\ ViewFields([x EXCEPT !.mpts = mpts])
        /\ [x EXCEPT !.mpts = mpts].mpts = mpts
        /\ [x EXCEPT !.mpts = mpts].sink = x.sink
        /\ [x EXCEPT !.mpts = mpts].aits = x.aits
        /\ [x EXCEPT !.mpts = mpts].applications = x.applications
    BY <2>4 DEF ViewFields, View
  <2>8. Backed(x) => Backed([x EXCEPT !.mpts = mpts])
    BY <2>7 DEF Backed
  <2> DEFINE w == [x EXCEPT !.mpts = mpts]
  <2>9. /\ ViewFields(w)
        /\ DOMAIN w.mpts \subseteq {snapshot.context} \cup DOMAIN v.mpts
        /\ \A c \in DOMAIN w.mpts :
             w.mpts[c] = IF c = snapshot.context THEN snapshot ELSE v.mpts[c]
        /\ w.sink.tracks \subseteq v.sink.tracks \cup TracksOf(snapshot)
        /\ DOMAIN w.sink.applications \subseteq DOMAIN v.sink.applications
        /\ DOMAIN w.aits \subseteq DOMAIN v.aits
        /\ \A key \in DOMAIN w.aits : w.aits[key] = v.aits[key]
    BY <2>3, <2>4, <2>5, <2>7
  <2>10. Backed(v) =>
           /\ Backed(w)
           /\ \A k \in DOMAIN w.applications :
                ~(/\ k[1][1] = snapshot.context
                  /\ \E service \in DroppedServices(v, snapshot) :
                        service.ait = k[1][2] /\ service.ait # NoPid)
    BY <2>2, <2>4, <2>6, <2>7, <2>8
  <2> QED
    BY <2>1, <2>9, <2>10
<1> QED
  BY <1>1, <1>2

(* An MH-AIT puts its sub-table in the place of the last one.              *)
LEMMA MhAitKeeps ==
  ASSUME NEW v, NEW c, NEW section, NEW apps, ViewFields(v)
  PROVE  LET w   == MhAitSnapshot(v, c, section, apps)
             key == << c, section.pid, section.type >>
         IN  /\ ViewFields(w)
             /\ w.mpts = v.mpts
             /\ w.sink.tracks = v.sink.tracks
             /\ DOMAIN w.sink.applications
                  \subseteq DOMAIN v.sink.applications \cup ApplicationKeys(key, apps)
             /\ w.aits = v.aits \/ (section.next /\ w.aits = Put(v.aits, key, apps))
             /\ Backed(v) => Backed(w)
<1> DEFINE key == << c, section.pid, section.type >>
           gone == ApplicationKeys(key, At(v.aits, key)) \ ApplicationKeys(key, apps)
           u == Forget(v, gone)
<1>1. CASE ~AcceptsMhAit(v, c, section.pid) \/ ~section.next
  BY <1>1 DEF MhAitSnapshot
<1>2. CASE ~(~AcceptsMhAit(v, c, section.pid) \/ ~section.next)
  <2>1. MhAitSnapshot(v, c, section, apps) = Announce(u, key, apps)
    BY <1>2 DEF MhAitSnapshot
  <2> HIDE DEF gone
  <2>2. /\ ViewFields(u)
        /\ u.mpts = v.mpts /\ u.aits = v.aits
        /\ u.sink.tracks = v.sink.tracks
        /\ DOMAIN u.sink.applications \subseteq DOMAIN v.sink.applications
        /\ DOMAIN u.applications = DOMAIN v.applications \ gone
    BY ForgetKeeps
  <2>3. ASSUME Backed(v), NEW k \in DOMAIN v.applications \ gone
         PROVE  /\ k[1] \in DOMAIN v.aits /\ k \in ApplicationKeys(k[1], v.aits[k[1]])
                /\ k[1] = key => k \in ApplicationKeys(key, apps)
    BY <2>3 DEF Backed, gone, At
  <2>4. \A k \in ApplicationKeys(key, apps) : k[1] = key
    BY DEF ApplicationKeys
  <2> HIDE DEF u, key
  <2>5. PICK mpts, tracks, aits, applications, told, shown :
          u = View(mpts, tracks, aits, applications, told, shown)
    BY <2>2 DEF ViewFields
  <2> DEFINE announced == Announced(applications, key, apps)
             held == Over(announced, applications)
             kept == Over(announced, shown)
             put  == Put(aits, key, apps)
  <2>6. /\ u.mpts = mpts /\ u.aits = aits /\ u.applications = applications
        /\ u.sink.tracks = told /\ u.sink.applications = shown
    BY <2>5 DEF View
  <2>7. /\ DOMAIN kept \subseteq DOMAIN shown \cup ApplicationKeys(key, apps)
        /\ DOMAIN held \subseteq DOMAIN applications \cup ApplicationKeys(key, apps)
    BY DEF Announced, Over, Restrict
  <2>8. Announce(u, key, apps) = View(mpts, tracks, put, held, told, kept)
    BY <2>5, AnnounceIs
  <2> HIDE DEF announced, held, kept, put
  <2>11. LET w == Announce(u, key, apps)
         IN /\ w.mpts = mpts /\ w.aits = put /\ w.applications = held
            /\ w.sink.tracks = told /\ w.sink.applications = kept
    BY <2>8 DEF View
  <2>12. put = Put(v.aits, key, apps) /\ shown = u.sink.applications /\ told = u.sink.tracks
    BY <2>2, <2>6 DEF put
  <2>13. ViewFields(Announce(u, key, apps))
    BY <2>8 DEF ViewFields, View
  <2> DEFINE w == Announce(u, key, apps)
  <2>14. DOMAIN w.applications
           \subseteq (DOMAIN v.applications \ gone) \cup ApplicationKeys(key, apps)
    BY <2>2, <2>6, <2>7, <2>11
  <2>15. w.aits = Put(v.aits, key, apps)
    BY <2>11, <2>12
  <2> HIDE DEF w
  <2>16. key \in DOMAIN w.aits /\ w.aits[key] = apps
    BY <2>15 DEF Put, Over
  <2>17. \A k \in DOMAIN v.aits \ {key} : k \in DOMAIN w.aits /\ w.aits[k] = v.aits[k]
    BY <2>15 DEF Put, Over
  <2>18. ASSUME Backed(v), NEW k \in DOMAIN w.applications
         PROVE  k[1] \in DOMAIN w.aits /\ k \in ApplicationKeys(k[1], w.aits[k[1]])
    <3>1. CASE k \in ApplicationKeys(key, apps)
      BY <2>4, <2>16, <3>1
    <3>2. CASE k \in DOMAIN v.applications \ gone /\ k[1] = key
      BY <2>3, <2>16, <2>18, <3>2
    <3>3. CASE k \in DOMAIN v.applications \ gone /\ k[1] # key
      BY <2>3, <2>17, <2>18, <3>3
    <3> QED
      BY <2>14, <2>18, <3>1, <3>2, <3>3
  <2>19. Backed(v) => Backed(w)
    BY <2>18 DEF Backed
  <2> QED
    BY <1>2, <2>1, <2>2, <2>6, <2>7, <2>11, <2>12, <2>13, <2>19 DEF key, w
<1> QED
  BY <1>1, <1>2

LEMMA MhAitBacked ==
  ASSUME NEW v, NEW c, NEW section, NEW apps, ViewFields(v), Backed(v)
  PROVE  Backed(MhAitSnapshot(v, c, section, apps))
<1> DEFINE w == MhAitSnapshot(v, c, section, apps)
<1>1. Backed(v) => Backed(w)
  BY MhAitKeeps
<1> QED
  BY <1>1

-----------------------------------------------------------------------------
(* The parser's side.                                                      *)
StagesWell(c, context) ==
  /\ {"staged", "committed"} \subseteq DOMAIN context
  /\ StagedWell(c, context.staged)

Staging == \A c \in DOMAIN contexts : c \in Contexts /\ StagesWell(c, contexts[c])

LEMMA NewStagesWell == \A c : StagesWell(c, NewContext)
BY DEF StagesWell, StagedWell, NewContext, EmptyFunction

LEMMA ContextStages ==
  ASSUME Staging, NEW c \in Contexts
  PROVE  StagesWell(c, Context(c))
BY NewStagesWell DEF Staging, Context

(* A change of the other fields does not matter.                           *)
LEMMA SameStaging ==
  ASSUME NEW c, NEW old, NEW new, StagesWell(c, old), DOMAIN new = DOMAIN old,
         new.staged = old.staged
  PROVE  StagesWell(c, new)
BY DEF StagesWell

LEMMA HoldingStages ==
  ASSUME Staging, NEW c \in Contexts, NEW pid
  PROVE  StagesWell(c, Holding(c, pid))
<1>1. StagesWell(c, Context(c))
  BY ContextStages
<1>2. DOMAIN Holding(c, pid) = DOMAIN Context(c)
  BY DEF Holding
<1>3. Holding(c, pid).staged = Context(c).staged
  BY <1>1 DEF Holding, StagesWell
<1> QED
  BY <1>1, <1>2, <1>3, SameStaging

LEMMA WithStages ==
  ASSUME Staging, NEW c \in Contexts, NEW context, StagesWell(c, context),
         contexts' = With(c, context)
  PROVE  Staging'
BY DEF Staging, With, Put, Over

LEMMA MptStages ==
  ASSUME Staging, NEW c \in Contexts, NEW table, ParseMpt(c, table)
  PROVE  Staging'
<1> DEFINE context == Holding(c, MptPid)
           routed  == Routed([active |-> ActiveHolding(c, MptPid),
                              tracks |-> context.tracks, data |-> context.data], table)
           new == [context EXCEPT !.tracks = routed.tracks, !.data = routed.data, !.mpt = table]
<1>1. contexts' = With(c, new)
  BY DEF ParseMpt
<1>2. StagesWell(c, context)
  BY HoldingStages
<1> HIDE DEF context, routed
<1>3. DOMAIN new = DOMAIN context
  OBVIOUS
<1>4. new.staged = context.staged
  BY <1>2 DEF StagesWell
<1>5. StagesWell(c, new)
  BY <1>2, <1>3, <1>4, SameStaging
<1> HIDE DEF new
<1> QED
  BY <1>1, <1>5, WithStages

LEMMA MhAitStages ==
  ASSUME Staging, NEW c \in Contexts, NEW section \in Sections[c], ParseMhAit(c, section)
  PROVE  Staging'
<1> DEFINE context == Holding(c, section.pid)
           result  == StageSection(context.staged, context.committed, section)
           new == [context EXCEPT !.staged = result.staged, !.committed = result.committed]
<1>1. contexts' = IF Routes(context, section.pid) THEN With(c, new) ELSE With(c, context)
  BY DEF ParseMhAit
<1>2. StagesWell(c, context)
  BY HoldingStages
<1> HIDE DEF context
<1>3. StagedWell(c, result.staged)
  BY <1>2, StagingStep DEF StagesWell
<1> HIDE DEF result
<1>4. DOMAIN new = DOMAIN context /\ new.staged = result.staged
  BY <1>2 DEF StagesWell
<1>5. StagesWell(c, new)
  BY <1>2, <1>3, <1>4 DEF StagesWell
<1> HIDE DEF new
<1> QED
  BY <1>1, <1>2, <1>5, WithStages

LEMMA MpuStages ==
  ASSUME Staging, NEW c \in Contexts, NEW pid, ParseMpu(c, pid)
  PROVE  Staging'
<1> DEFINE context == Context(c)
           asData  == [context EXCEPT !.data[pid].begun = TRUE]
           asTrack == [context EXCEPT !.tracks[pid].begun = TRUE]
<1>1. \E new \in {asData, asTrack, context} : contexts' = With(c, new)
  BY DEF ParseMpu
<1>2. StagesWell(c, context)
  BY ContextStages
<1> HIDE DEF context
<1>3. DOMAIN asData = DOMAIN context /\ DOMAIN asTrack = DOMAIN context
  OBVIOUS
<1>4. asData.staged = context.staged /\ asTrack.staged = context.staged
  BY <1>2 DEF StagesWell
<1>5. \A new \in {asData, asTrack, context} : StagesWell(c, new)
  BY <1>2, <1>3, <1>4, SameStaging
<1> HIDE DEF asData, asTrack
<1> QED
  BY <1>1, <1>5, WithStages

LEMMA FlushStages == Staging /\ Flush => Staging'
<1> SUFFICES ASSUME Staging, Flush, NEW c \in DOMAIN contexts'
             PROVE  c \in Contexts /\ StagesWell(c, contexts'[c])
  BY DEF Staging
<1> DEFINE old == contexts[c]
           new == [old EXCEPT !.signalling = {}, !.tracks = Ended(@), !.data = Ended(@)]
<1>1. c \in DOMAIN contexts /\ contexts'[c] = new
  BY DEF Flush
<1>2. c \in Contexts /\ StagesWell(c, old)
  BY <1>1 DEF Staging
<1> HIDE DEF old
<1>3. DOMAIN new = DOMAIN old
  OBVIOUS
<1>4. new.staged = old.staged
  BY <1>2 DEF StagesWell
<1> QED
  BY <1>1, <1>2, <1>3, <1>4, SameStaging

LEMMA StepStages == Staging /\ [Next]_vars => Staging'
<1> SUFFICES ASSUME Staging, [Next]_vars PROVE Staging'
  OBVIOUS
<1>1. CASE UNCHANGED vars
  BY <1>1 DEF vars, Staging
<1>2. ASSUME NEW c \in Contexts, NEW pid, RefuseSignalling(c, pid) \/ OtherMessage(c, pid)
      PROVE  Staging'
  BY <1>2, ContextStages, HoldingStages, WithStages DEF RefuseSignalling, OtherMessage
<1>3. CASE DropContexts \/ Reset
  BY <1>3 DEF DropContexts, Reset, Staging, EmptyFunction
<1>4. ASSUME NEW c, SelectService(c) PROVE Staging'
  BY <1>4 DEF SelectService, Staging, EmptyFunction
<1> QED
  BY <1>1, <1>2, <1>3, <1>4, MptStages, MhAitStages, MpuStages, FlushStages DEF Next


-----------------------------------------------------------------------------
(* The Demuxer's side.                                                     *)
OneTable(key, apps) ==
  \E sections : /\ WholeSet(key[1], key[2], key[3], sections)
                /\ apps = ApplicationsOf(sections)

ShowsWhole(v) == ViewFields(v) /\ \A key \in DOMAIN v.aits : OneTable(key, v.aits[key])

LEMMA EmptyShows == ShowsWhole(EmptyView)
<1>1. DOMAIN EmptyView.aits = {}
  BY DEF EmptyView, EmptyFunction
<1>2. ViewFields(EmptyView)
  BY DEF EmptyView, ViewFields, View
<1> QED
  BY <1>1, <1>2 DEF ShowsWhole

(* What ParseMpt hands to the Demuxer.                                     *)
LEMMA MptHanded ==
  ASSUME NEW c \in Contexts, NEW table, ParseMpt(c, table)
  PROVE  \E snapshot : snapshot.context = c /\ view' = MptSnapshot(view, snapshot)
<1> DEFINE context == Holding(c, MptPid)
           routed  == Routed([active |-> ActiveHolding(c, MptPid),
                              tracks |-> context.tracks, data |-> context.data], table)
           snapshot == [context  |-> c, version |-> table.version,
                        services |-> table.services,
                        tracks   |-> Installed(routed.tracks, table.tracks),
                        data     |-> Installed(routed.data, table.data)]
<1>1. view' = MptSnapshot(view, snapshot)
  BY DEF ParseMpt
<1> HIDE DEF routed
<1>2. snapshot.context = c
  OBVIOUS
<1> HIDE DEF snapshot
<1> QED
  BY <1>1, <1>2

(* What ParseMhAit hands to it: a whole sub-table.                         *)
LEMMA MhAitHanded ==
  ASSUME Staging, NEW c \in Contexts, NEW section \in Sections[c], ParseMhAit(c, section)
  PROVE  \/ view' = view
         \/ \E apps : /\ view' = MhAitSnapshot(view, c, section, apps)
                      /\ section.next => OneTable(<< c, section.pid, section.type >>, apps)
<1> DEFINE context == Holding(c, section.pid)
           r == StageSection(context.staged, context.committed, section)
           apps == ApplicationsOf(r.committed[Identity(section)])
<1>1. \/ view' = view
      \/ r.delivered /\ view' = MhAitSnapshot(view, c, section, apps)
  BY DEF ParseMhAit
<1>2. StagedWell(c, context.staged)
  BY HoldingStages DEF StagesWell
<1> HIDE DEF context
<1>3. r.delivered /\ section.next =>
        \E have : /\ r.committed[Identity(section)] = have
                  /\ WholeSet(c, section.pid, section.type, have)
  BY <1>2, StagingStep
<1> HIDE DEF r
<1>4. r.delivered /\ section.next => OneTable(<< c, section.pid, section.type >>, apps)
  BY <1>3 DEF OneTable
<1> QED
  BY <1>1, <1>4

LEMMA MptShows ==
  ASSUME ShowsWhole(view), NEW c \in Contexts, NEW table, ParseMpt(c, table)
  PROVE  ShowsWhole(view)'
<1>1. PICK snapshot : view' = MptSnapshot(view, snapshot)
  BY MptHanded
<1> QED
  BY <1>1, MptKeeps DEF ShowsWhole

LEMMA MhAitShows ==
  ASSUME Staging, ShowsWhole(view), NEW c \in Contexts, NEW section \in Sections[c],
         ParseMhAit(c, section)
  PROVE  ShowsWhole(view)'
<1>1. CASE view' = view
  BY <1>1
<1>2. ASSUME NEW apps, view' = MhAitSnapshot(view, c, section, apps),
             section.next => OneTable(<< c, section.pid, section.type >>, apps)
      PROVE  ShowsWhole(view)'
  <2> DEFINE key == << c, section.pid, section.type >>
  <2>1. ViewFields(view')
    BY <1>2, MhAitKeeps DEF ShowsWhole
  <2>2. view'.aits = view.aits \/ (section.next /\ view'.aits = Put(view.aits, key, apps))
    BY <1>2, MhAitKeeps DEF ShowsWhole
  <2>3. CASE view'.aits = view.aits
    BY <2>1, <2>3 DEF ShowsWhole
  <2>4. CASE section.next /\ view'.aits = Put(view.aits, key, apps)
    <3>1. OneTable(key, apps)
      BY <1>2, <2>4
    <3> HIDE DEF key
    <3>2. \A k \in DOMAIN view'.aits :
            \/ k = key /\ view'.aits[k] = apps
            \/ k \in DOMAIN view.aits /\ view'.aits[k] = view.aits[k]
      BY <2>4 DEF Put, Over
    <3> QED
      BY <2>1, <3>1, <3>2 DEF ShowsWhole
  <2> QED
    BY <2>2, <2>3, <2>4
<1> QED
  BY <1>1, <1>2, MhAitHanded

Inv == Staging /\ ShowsWhole(view)

LEMMA InitInv == Init => Inv
BY EmptyShows DEF Init, Inv, Staging, EmptyFunction

LEMMA StepInv == Inv /\ [Next]_vars => Inv'
<1> SUFFICES ASSUME Inv, [Next]_vars PROVE ShowsWhole(view)'
  BY StepStages DEF Inv
<1> USE DEF Inv
<1>1. CASE UNCHANGED vars
  BY <1>1 DEF vars
<1>2. ASSUME NEW c, NEW pid,
             RefuseSignalling(c, pid) \/ OtherMessage(c, pid) \/ ParseMpu(c, pid)
      PROVE  view' = view
  BY <1>2 DEF RefuseSignalling, OtherMessage, ParseMpu
<1>3. CASE Flush \/ DropContexts
  BY <1>3 DEF Flush, DropContexts
<1>4. ASSUME NEW c, Reset \/ SelectService(c) PROVE view' = EmptyView
  BY <1>4 DEF Reset, SelectService
<1> QED
  BY <1>1, <1>2, <1>3, <1>4, EmptyShows, MptShows, MhAitShows DEF Next

(***************************************************************************)
(* parse_mh_ait delivers a sub-table only when all sections of one version *)
(* are there, and nothing the Demuxer does with snapshots, MPTs and        *)
(* services in between leaves it with another mixture of sections.         *)
(***************************************************************************)
THEOREM SubTablesAreWhole == Spec => []WholeSubTables
<1>1. Inv => WholeSubTables
  BY DEF Inv, ShowsWhole, OneTable, WholeSet, WholeSubTables
<1> QED
  BY <1>1, InitInv, StepInv, PTL DEF Spec

-----------------------------------------------------------------------------
LEMMA MptAlone ==
  ASSUME Inv, OnlySelected, NEW c \in Contexts, NEW table, ParseMpt(c, table)
  PROVE  OnlySelected'
<1>1. PICK snapshot : snapshot.context = c /\ view' = MptSnapshot(view, snapshot)
  BY MptHanded
<1>2. selected' = selected /\ selected \in {NoService, c}
      /\ DOMAIN contexts' = {c} \cup DOMAIN contexts
  BY DEF ParseMpt, Admits, With, Put, Over
<1>3. \A track \in TracksOf(snapshot) : track.context = c
  BY <1>1 DEF TracksOf
<1>4. /\ DOMAIN view'.mpts \subseteq {c} \cup DOMAIN view.mpts
      /\ view'.sink.tracks \subseteq view.sink.tracks \cup TracksOf(snapshot)
      /\ DOMAIN view'.sink.applications \subseteq DOMAIN view.sink.applications
  BY <1>1, MptKeeps DEF Inv, ShowsWhole
<1> QED
  BY <1>2, <1>3, <1>4 DEF OnlySelected

LEMMA MhAitAlone ==
  ASSUME Inv, OnlySelected, NEW c \in Contexts, NEW section \in Sections[c],
         ParseMhAit(c, section)
  PROVE  OnlySelected'
<1>1. selected' = selected /\ selected \in {NoService, c}
      /\ DOMAIN contexts' = {c} \cup DOMAIN contexts
  BY DEF ParseMhAit, Admits, With, Put, Over
<1>2. CASE view' = view
  BY <1>1, <1>2 DEF OnlySelected
<1>3. ASSUME NEW apps, view' = MhAitSnapshot(view, c, section, apps)
      PROVE  OnlySelected'
  <2> DEFINE key == << c, section.pid, section.type >>
  <2>1. /\ view'.mpts = view.mpts
        /\ view'.sink.tracks = view.sink.tracks
        /\ DOMAIN view'.sink.applications
             \subseteq DOMAIN view.sink.applications \cup ApplicationKeys(key, apps)
    BY <1>3, MhAitKeeps DEF Inv, ShowsWhole
  <2>2. \A k \in ApplicationKeys(key, apps) : k[1][1] = c
    BY DEF ApplicationKeys
  <2> HIDE DEF key
  <2> QED
    BY <1>1, <2>1, <2>2 DEF OnlySelected
<1> QED
  BY <1>2, <1>3, MhAitHanded DEF Inv

LEMMA EmptyAlone ==
  ASSUME view' = EmptyView,
         selected' # NoService => DOMAIN contexts' \subseteq {selected'}
  PROVE  OnlySelected'
BY DEF EmptyView, EmptyFunction, OnlySelected

LEMMA StepAlone == Inv /\ OnlySelected /\ [Next]_vars => OnlySelected'
<1> SUFFICES ASSUME Inv, OnlySelected, [Next]_vars PROVE OnlySelected'
  OBVIOUS
<1>1. CASE UNCHANGED vars
  BY <1>1 DEF vars, OnlySelected
<1>2. ASSUME NEW c, NEW pid,
             RefuseSignalling(c, pid) \/ OtherMessage(c, pid) \/ ParseMpu(c, pid)
      PROVE  OnlySelected'
  <2>1. /\ selected' = selected /\ view' = view /\ selected \in {NoService, c}
        /\ DOMAIN contexts' = {c} \cup DOMAIN contexts
    BY <1>2 DEF RefuseSignalling, OtherMessage, ParseMpu, Admits, With, Put, Over
  <2> QED
    BY <2>1 DEF OnlySelected
<1>3. CASE Flush \/ DropContexts
  BY <1>3 DEF Flush, DropContexts, EmptyFunction, OnlySelected
<1>4. CASE Reset
  BY <1>4, EmptyAlone DEF Reset, EmptyFunction
<1>5. ASSUME NEW c, SelectService(c) PROVE OnlySelected'
  BY <1>5, EmptyAlone DEF SelectService, EmptyFunction, OnlySelected
<1> QED
  BY <1>1, <1>2, <1>3, <1>4, <1>5, MptAlone, MhAitAlone DEF Next

(***************************************************************************)
(* With a service selected (select_service, and the check of the context   *)
(* id in parse_compressed) no other service is decoded, and the sink knows *)
(* of no track or application of another; a change of the selection leaves *)
(* nothing of the old one behind.                                          *)
(***************************************************************************)
THEOREM SelectionHolds == Spec => []OnlySelected
<1>1. Init => OnlySelected
  BY DEF Init, OnlySelected
<1> QED
  BY <1>1, InitInv, StepInv, StepAlone, PTL DEF Spec


-----------------------------------------------------------------------------
Full == Inv /\ Backed(view)

LEMMA InitFull == Init => Full
BY InitInv DEF Init, Full, Backed, EmptyView, EmptyFunction

(* A step that does not change which sources are listed.                   *)
SameSources ==
  \A c \in DOMAIN view.mpts \cap DOMAIN view'.mpts : view'.mpts[c] = view.mpts[c]

EndDelisted ==
  \A c \in DOMAIN view.mpts \cap DOMAIN view'.mpts :
    \A pid \in AitPids(view.mpts[c].services) \ AitPids(view'.mpts[c].services) :
      \A key \in DOMAIN view'.applications : << key[1][1], key[1][2] >> # << c, pid >>

LEMMA SameSourcesEnd == SameSources => EndDelisted
BY DEF SameSources, EndDelisted

LEMMA EmptyBacked == Backed(EmptyView)
BY DEF Backed, EmptyView, EmptyFunction

LEMMA MptEnds ==
  ASSUME Full, NEW c \in Contexts, NEW table, ParseMpt(c, table)
  PROVE  Backed(view)' /\ EndDelisted
<1>1. PICK snapshot : snapshot.context = c /\ view' = MptSnapshot(view, snapshot)
  BY MptHanded
<1>2. /\ Backed(view')
      /\ \A k \in DOMAIN view'.applications :
           ~(/\ k[1][1] = c
             /\ \E service \in DroppedServices(view, snapshot) :
                   service.ait = k[1][2] /\ service.ait # NoPid)
      /\ \A d \in DOMAIN view'.mpts :
           view'.mpts[d] = IF d = c THEN snapshot ELSE view.mpts[d]
  BY <1>1, MptKeeps DEF Full, Inv, ShowsWhole
<1>3. ASSUME NEW d \in DOMAIN view.mpts \cap DOMAIN view'.mpts,
             NEW pid \in AitPids(view.mpts[d].services) \ AitPids(view'.mpts[d].services),
             NEW key \in DOMAIN view'.applications
      PROVE  << key[1][1], key[1][2] >> # << d, pid >>
  <2>1. d = c /\ view'.mpts[d] = snapshot
    BY <1>2
  <2> DEFINE old == view.mpts[d].services
  <2>2. PICK i \in DOMAIN old : old[i].ait = pid
    BY DEF AitPids
  <2>3. pid # NoPid
    BY DEF AitPids
  <2>4. old[i] \notin {snapshot.services[j] : j \in DOMAIN snapshot.services}
    BY <2>1, <2>2, <2>3 DEF AitPids
  <2>5. old[i] \in DroppedServices(view, snapshot)
    BY <1>1, <2>1, <2>2, <2>4 DEF DroppedServices
  <2> QED
    BY <1>2, <2>1, <2>2, <2>3, <2>5
<1> QED
  BY <1>2, <1>3 DEF EndDelisted

LEMMA MhAitEnds ==
  ASSUME Full, NEW c \in Contexts, NEW section \in Sections[c], ParseMhAit(c, section)
  PROVE  Backed(view)' /\ EndDelisted
<1>1. CASE view' = view
  BY <1>1, SameSourcesEnd DEF Full, SameSources
<1>2. ASSUME NEW apps, view' = MhAitSnapshot(view, c, section, apps)
      PROVE  Backed(view)' /\ EndDelisted
  <2>1. ViewFields(view) /\ Backed(view)
    BY DEF Full, Inv, ShowsWhole
  <2>2. Backed(view')
    BY <1>2, <2>1, MhAitBacked
  <2> DEFINE key == << c, section.pid, section.type >>
  <2>3. /\ view'.mpts = view.mpts
        /\ view'.sink.tracks = view.sink.tracks
        /\ DOMAIN view'.sink.applications
             \subseteq DOMAIN view.sink.applications \cup ApplicationKeys(key, apps)
    BY <1>2, <2>1, MhAitKeeps
  <2> QED
    BY <2>2, <2>3, SameSourcesEnd DEF SameSources
<1> QED
  BY <1>1, <1>2, MhAitHanded DEF Full, Inv

LEMMA StepFull == Full /\ [Next]_vars => Full' /\ EndDelisted
<1> SUFFICES ASSUME Full, [Next]_vars PROVE Backed(view)' /\ EndDelisted
  BY StepInv DEF Full
<1>1. CASE view' = view
  BY <1>1, SameSourcesEnd DEF Full, SameSources
<1>2. CASE view' = EmptyView
  <2>1. DOMAIN view'.mpts = {}
    BY <1>2 DEF EmptyView, EmptyFunction
  <2> QED
    BY <1>2, <2>1, EmptyBacked DEF EndDelisted
<1>3. ASSUME NEW c, NEW pid,
             RefuseSignalling(c, pid) \/ OtherMessage(c, pid) \/ ParseMpu(c, pid)
      PROVE  view' = view
  BY <1>3 DEF RefuseSignalling, OtherMessage, ParseMpu
<1>4. Flush \/ DropContexts \/ UNCHANGED vars => view' = view
  BY DEF Flush, DropContexts, vars
<1>5. ASSUME NEW c, Reset \/ SelectService(c) PROVE view' = EmptyView
  BY <1>5 DEF Reset, SelectService
<1> QED
  BY <1>1, <1>2, <1>3, <1>4, <1>5, MptEnds, MhAitEnds DEF Next

(***************************************************************************)
(* mpt_snapshot retires every source that the new MPT does not list, and   *)
(* no application outlives the snapshot it came with: what was announced   *)
(* under a source is gone in the step that delists it, however it got      *)
(* there.                                                                  *)
(***************************************************************************)
THEOREM DelistedEnd == Spec => DelistedSourcesEnd
<1>1. Full /\ [Next]_vars => [EndDelisted]_vars
  BY StepFull
<1>2. Full /\ [Next]_vars => Full'
  BY StepFull
<1>3. Spec => [][EndDelisted]_vars
  BY <1>1, <1>2, InitFull, PTL DEF Spec
<1> QED
  BY <1>3 DEF DelistedSourcesEnd, EndDelisted

-----------------------------------------------------------------------------
(* Induction, for a set: the theorems of the library that take a predicate *)
(* cannot be instantiated, but the least number outside a set can be had.  *)
LEMMA SetInduction ==
  ASSUME NEW T, 0 \in T, \A n \in Nat : n \in T => n + 1 \in T
  PROVE  Nat \subseteq T
<1> DEFINE Rest == Nat \ T
<1>1. ASSUME Rest # {} PROVE FALSE
  <2>1. PICK x \in Rest : \A y \in Rest : ~ (<< y, x >> \in OpToRel(<, Nat))
    <3>1. Rest \subseteq Nat
      OBVIOUS
    <3>2. IsWellFoundedOn(OpToRel(<, Nat), Nat)
      BY NatLessThanWellFounded
    <3> QED
      BY <1>1, <3>1, <3>2, WFMin
  <2>2. x \in Nat /\ x # 0 /\ x - 1 \in Nat
    OBVIOUS
  <2>3. x - 1 \in Rest
    <3>1. (x - 1) + 1 = x
      BY <2>2
    <3> QED
      BY <2>2, <3>1
  <2>4. << x - 1, x >> \in OpToRel(<, Nat)
    BY <2>2 DEF OpToRel
  <2> QED
    BY <2>1, <2>3, <2>4
<1> QED
  BY <1>1

(***************************************************************************)
(* A loop: the value before the first step, and after each of N steps.     *)
(* What each step keeps holds after all of them; I[n] is the set of the    *)
(* values allowed after n steps.                                           *)
(***************************************************************************)
IsLoop(f, N, b, step, I) ==
  /\ f = [n \in 0 .. N |-> IF n = 0 THEN b ELSE step[<< f[n - 1], n >>]]
  /\ \A n \in 0 .. N : f[n] \in I[n]

LEMMA LoopKeeps ==
  ASSUME NEW N \in Nat, NEW b, NEW step, NEW I, b \in I[0],
         \A n \in 1 .. N : \A x \in I[n - 1] : step[<< x, n >>] \in I[n]
  PROVE  \E f : IsLoop(f, N, b, step, I)
<1> DEFINE Loop(f, m) ==
      /\ f = [n \in 0 .. m |-> f[n]]
      /\ f[0] = b
      /\ \A n \in 1 .. m : f[n] = step[<< f[n - 1], n >>]
      /\ \A n \in 0 .. m : f[n] \in I[n]
           T == {m \in Nat : m =< N => \E f : Loop(f, m)}
<1>1. 0 \in T
  <2> DEFINE g == [n \in 0 .. 0 |-> b]
  <2>1. Loop(g, 0)
    OBVIOUS
  <2> QED
    BY <2>1
<1>2. ASSUME NEW m \in Nat, m \in T PROVE m + 1 \in T
  <2> SUFFICES ASSUME m + 1 =< N
               PROVE  \E f : Loop(f, m + 1)
    OBVIOUS
  <2>1. PICK f : Loop(f, m)
    BY <1>2
  <2> DEFINE g == [n \in 0 .. (m + 1) |-> IF n = m + 1 THEN step[<< f[m], m + 1 >>] ELSE f[n]]
  <2>2. f[m] \in I[m] /\ m + 1 \in 1 .. N /\ (m + 1) - 1 = m
    BY <2>1
  <2>3. step[<< f[m], m + 1 >>] \in I[m + 1]
    BY <2>2
  <2>4. /\ g = [n \in 0 .. (m + 1) |-> g[n]] /\ g[0] = b
        /\ \A n \in 0 .. (m + 1) : g[n] \in I[n]
    <3>1. g[0] = b
      BY <2>1
    <3>2. ASSUME NEW n \in 0 .. (m + 1) PROVE g[n] \in I[n]
      <4>1. CASE n = m + 1
        BY <2>3, <4>1
      <4>2. CASE n # m + 1
        <5>1. n \in 0 .. m
          BY <4>2
        <5> QED
          BY <2>1, <4>2, <5>1
      <4> QED
        BY <4>1, <4>2
    <3>3. g = [n \in 0 .. (m + 1) |-> g[n]]
      OBVIOUS
    <3> QED
      BY <3>1, <3>2, <3>3
  <2>5. ASSUME NEW n \in 1 .. (m + 1)
        PROVE  g[n] = step[<< g[n - 1], n >>]
    <3>1. n - 1 \in 0 .. (m + 1) /\ n - 1 # m + 1 /\ g[n - 1] = f[n - 1]
      OBVIOUS
    <3>2. CASE n = m + 1
      BY <3>1, <3>2
    <3>3. CASE n # m + 1
      BY <2>1, <3>1, <3>3
    <3> QED
      BY <3>2, <3>3
  <2> HIDE DEF g
  <2> QED
    BY <2>4, <2>5
<1> HIDE DEF T
<1>3. Nat \subseteq T
  BY <1>1, <1>2, SetInduction
<1>4. PICK f : Loop(f, N)
  <2> HIDE DEF Loop
  <2>1. N \in T /\ N =< N
    BY <1>3
  <2> QED
    BY <2>1 DEF T
<1>5. f = [n \in 0 .. N |-> IF n = 0 THEN b ELSE step[<< f[n - 1], n >>]]
  <2>1. f = [n \in 0 .. N |-> f[n]]
    BY <1>4
  <2>2. ASSUME NEW n \in 0 .. N
        PROVE  f[n] = IF n = 0 THEN b ELSE step[<< f[n - 1], n >>]
    <3>1. CASE n = 0
      BY <1>4, <3>1
    <3>2. CASE n # 0
      <4>1. n \in 1 .. N
        BY <3>2
      <4> QED
        BY <1>4, <3>2, <4>1
    <3> QED
      BY <3>1, <3>2
  <2> HIDE DEF Loop
  <2>3. [n \in 0 .. N |-> f[n]]
          = [n \in 0 .. N |-> IF n = 0 THEN b ELSE step[<< f[n - 1], n >>]]
    BY <2>2
  <2> QED
    BY <2>1, <2>3, Zenon
<1> QED
  BY <1>4, <1>5 DEF IsLoop

(* The same of a value that is known to be that of the loop.               *)
LEMMA LoopInvariant ==
  ASSUME NEW N \in Nat, NEW f, NEW I, f[0] \in I[0],
         \A n \in 1 .. N : f[n - 1] \in I[n - 1] => f[n] \in I[n]
  PROVE  \A n \in 0 .. N : f[n] \in I[n]
<1> DEFINE T == {m \in Nat : m =< N => f[m] \in I[m]}
<1>1. 0 \in T
  OBVIOUS
<1>2. ASSUME NEW m \in Nat, m \in T PROVE m + 1 \in T
  <2>1. m + 1 - 1 = m
    OBVIOUS
  <2> QED
    BY <1>2, <2>1
<1> HIDE DEF T
<1>3. Nat \subseteq T
  BY <1>1, <1>2, SetInduction
<1> QED
  BY <1>3 DEF T

-----------------------------------------------------------------------------
(* The parser's side of one context.                                       *)
States    == [asset : Assets, begun : BOOLEAN]
StateMaps == UNION {[P -> States] : P \in SUBSET MediaPids}
Sides     == [active : Nat, tracks : StateMaps, data : StateMaps]
Entries   == [pid : MediaPids, asset : Assets]

LEMMA StateMap ==
  ASSUME NEW f
  PROVE  f \in StateMaps <=> /\ f = [pid \in DOMAIN f |-> f[pid]]
                             /\ DOMAIN f \subseteq MediaPids
                             /\ \A pid \in DOMAIN f : f[pid] \in States
BY DEF StateMaps

LEMMA RoleStatesAre ==
  ASSUME NEW p
  PROVE  RoleStates(p) = ({"tracks"} \X DOMAIN p.tracks) \cup ({"data"} \X DOMAIN p.data)
BY DEF RoleStates, Roles

(* Nothing in both roles, and the counter K above the states there are.    *)
Sound(p, K) ==
  /\ p \in Sides
  /\ DOMAIN p.tracks \cap DOMAIN p.data = {}
  /\ IsFiniteSet(RoleStates(p))
  /\ p.active = K + Cardinality(RoleStates(p))
  /\ p.active <= MaxPacketStates

LEMMA Sided ==
  ASSUME NEW p \in Sides, NEW role \in Roles
  PROVE  /\ p[role] \in StateMaps /\ p[OtherRole(role)] \in StateMaps
         /\ OtherRole(role) \in Roles /\ OtherRole(role) # role
         /\ OtherRole(OtherRole(role)) = role
         /\ p.active \in Nat
BY DEF Sides, Roles, OtherRole

(* q is p with another counter and other states in one role.               *)
Differs(p, q, role, n, states) ==
  /\ q \in Sides /\ q.active = n /\ q[role] = states
  /\ q[OtherRole(role)] = p[OtherRole(role)]

LEMMA SideChanged ==
  ASSUME NEW p \in Sides, NEW role \in Roles, NEW n \in Nat, NEW states \in StateMaps
  PROVE  Differs(p, [p EXCEPT !.active = n, ![role] = states], role, n, states)
<1> DEFINE q == [p EXCEPT !.active = n, ![role] = states]
<1>1. CASE role = "tracks"
  <2>1. q = [p EXCEPT !.active = n, !.tracks = states]
    BY <1>1
  <2> HIDE DEF q
  <2>2. q = [active |-> n, tracks |-> states, data |-> p.data]
    BY <2>1 DEF Sides
  <2>3. Differs(p, q, role, n, states)
    BY <1>1, <2>2 DEF Differs, Sides, OtherRole
  <2> QED
    BY <2>3 DEF q
<1>2. CASE role = "data"
  <2>1. q = [p EXCEPT !.active = n, !.data = states]
    BY <1>2
  <2> HIDE DEF q
  <2>2. q = [active |-> n, tracks |-> p.tracks, data |-> states]
    BY <2>1 DEF Sides
  <2>3. Differs(p, q, role, n, states)
    BY <1>2, <2>2 DEF Differs, Sides, OtherRole
  <2> QED
    BY <2>3 DEF q
<1> QED
  BY <1>1, <1>2 DEF Roles

(* The states of a side by its two roles, whichever comes first.           *)
LEMMA StatesByRole ==
  ASSUME NEW p, NEW role \in Roles
  PROVE  /\ RoleStates(p)
              = ({role} \X DOMAIN p[role]) \cup ({OtherRole(role)} \X DOMAIN p[OtherRole(role)])
         /\ \A pid : << role, pid >> \in RoleStates(p) <=> pid \in DOMAIN p[role]
BY RoleStatesAre DEF Roles, OtherRole

(* A packet id leaves a role.                                              *)
LEMMA VacatedFacts ==
  ASSUME NEW K \in Nat, NEW p, Sound(p, K), NEW role \in Roles, NEW pid
  PROVE  LET q == Vacated(p, role, pid) IN
         /\ Sound(q, K)
         /\ q[OtherRole(role)] = p[OtherRole(role)]
         /\ DOMAIN q[role] = DOMAIN p[role] \ {pid}
         /\ \A x \in DOMAIN q[role] : q[role][x] = p[role][x]
         /\ IF pid \in DOMAIN p[role] THEN q.active = p.active - 1 ELSE q = p
<1> DEFINE q == Vacated(p, role, pid)
           other == OtherRole(role)
           left == Restrict(p[role], DOMAIN p[role] \ {pid})
<1>1. CASE pid \notin DOMAIN p[role]
  <2>1. q = p
    BY <1>1 DEF Vacated
  <2> QED
    BY <1>1, <2>1
<1>2. CASE pid \in DOMAIN p[role]
  <2>1. /\ p \in Sides /\ p[role] \in StateMaps /\ p.active \in Nat
        /\ other \in Roles /\ other # role
    BY Sided DEF Sound
  <2>2. << role, pid >> \in RoleStates(p)
    BY <1>2, StatesByRole
  <2>3. Cardinality(RoleStates(p)) \in Nat /\ Cardinality(RoleStates(p)) # 0
    BY <2>2, FS_CardinalityType, FS_EmptySet DEF Sound
  <2>4. Released(p.active, 1) = p.active - 1 /\ p.active - 1 \in Nat
    BY <2>1, <2>3 DEF Sound, Released
  <2>5. /\ DOMAIN left = DOMAIN p[role] \ {pid}
        /\ \A x \in DOMAIN left : left[x] = p[role][x]
        /\ left = [x \in DOMAIN left |-> left[x]]
    BY DEF Restrict
  <2>6. left \in StateMaps
    <3> HIDE DEF left
    <3>1. /\ DOMAIN p[role] \subseteq MediaPids
          /\ \A x \in DOMAIN p[role] : p[role][x] \in States
      BY <2>1, StateMap
    <3> QED
      BY <2>5, <3>1, StateMap
  <2>7. q = [p EXCEPT !.active = p.active - 1, ![role] = left]
    <3>1. q = [p EXCEPT !.active = Released(p.active, 1), ![role] = left]
      BY <1>2, <2>1 DEF Vacated, Roles
    <3> QED
      BY <2>4, <3>1
  <2> HIDE DEF left, q
  <2>8. /\ q \in Sides /\ q.active = p.active - 1 /\ q[role] = left
        /\ q[other] = p[other]
    <3> DEFINE n == p.active - 1
    <3>1. n \in Nat /\ q = [p EXCEPT !.active = n, ![role] = left]
      BY <2>4, <2>7
    <3> HIDE DEF n
    <3>2. Differs(p, [p EXCEPT !.active = n, ![role] = left], role, n, left)
      BY <2>1, <2>6, <3>1, SideChanged
    <3>3. Differs(p, q, role, n, left)
      BY <3>1, <3>2
    <3> QED
      BY <3>3 DEF n, Differs
  <2>9. RoleStates(q) = RoleStates(p) \ {<< role, pid >>}
    BY <2>1, <2>5, <2>8, StatesByRole
  <2>10. /\ IsFiniteSet(RoleStates(q))
         /\ Cardinality(RoleStates(q)) = Cardinality(RoleStates(p)) - 1
    BY <2>2, <2>9, FS_RemoveElement DEF Sound
  <2>11. DOMAIN q.tracks \cap DOMAIN q.data = {}
    BY <2>1, <2>5, <2>8 DEF Sound, Roles, OtherRole
  <2>12. Sound(q, K)
    BY <2>1, <2>3, <2>8, <2>10, <2>11, MaxPacketStatesAssumption DEF Sound
  <2> QED
    BY <1>2, <2>5, <2>8, <2>12 DEF q
<1> QED
  BY <1>1, <1>2

(* The packet ids decoded in either role.                                  *)
Decoded(p) == DOMAIN p.tracks \cup DOMAIN p.data

LEMMA DecodedByRole ==
  ASSUME NEW p, NEW role \in Roles
  PROVE  Decoded(p) = DOMAIN p[role] \cup DOMAIN p[OtherRole(role)]
BY DEF Decoded, Roles, OtherRole

(* A packet id is in q as in p.                                            *)
Same(p, q, pid) ==
  \A role \in Roles : /\ pid \in DOMAIN q[role] <=> pid \in DOMAIN p[role]
                      /\ pid \in DOMAIN p[role] => q[role][pid] = p[role][pid]

LEMMA SameByRole ==
  ASSUME NEW p, NEW q, NEW pid, NEW role \in Roles,
         \A r \in {role, OtherRole(role)} :
           /\ pid \in DOMAIN q[r] <=> pid \in DOMAIN p[r]
           /\ pid \in DOMAIN p[r] => q[r][pid] = p[r][pid]
  PROVE  Same(p, q, pid)
BY DEF Same, Roles, OtherRole

(* Where an entry was taken, the unit being put together is the old one,   *)
(* if the packet id was in this role.                                      *)
Took(p, q, role, entry) ==
  /\ entry.pid \in DOMAIN p[role] => entry.pid \in DOMAIN q[role]
  /\ entry.pid \in DOMAIN q[role] =>
       /\ q[role][entry.pid].asset = entry.asset
       /\ q[role][entry.pid].begun
            <=> (entry.pid \in DOMAIN p[role] /\ p[role][entry.pid].begun)

Adds(d, states, entry) ==
  /\ d \in StateMaps
  /\ DOMAIN d = DOMAIN states \cup {entry.pid}
  /\ \A pid \in DOMAIN states : pid # entry.pid => d[pid] = states[pid]
  /\ d[entry.pid].asset = entry.asset
  /\ d[entry.pid].begun <=> (entry.pid \in DOMAIN states /\ states[entry.pid].begun)

LEMMA DescribedFacts ==
  ASSUME NEW states \in StateMaps, NEW entry \in Entries
  PROVE  Adds(Described(states, entry), states, entry)
<1> DEFINE d == Described(states, entry)
<1>1. /\ DOMAIN states \subseteq MediaPids
      /\ \A pid \in DOMAIN states : states[pid] \in States
  BY StateMap
<1>2. entry.pid \in MediaPids /\ entry.asset \in Assets
  BY DEF Entries
<1>3. /\ d = [pid \in DOMAIN d |-> d[pid]]
      /\ DOMAIN d = DOMAIN states \cup {entry.pid}
      /\ \A pid \in DOMAIN states : pid # entry.pid => d[pid] = states[pid]
      /\ entry.pid \in DOMAIN states =>
           d[entry.pid] = [states[entry.pid] EXCEPT !.asset = entry.asset]
      /\ entry.pid \notin DOMAIN states => d[entry.pid] = FreshState(entry.asset)
  BY DEF Described
<1> HIDE DEF d
<1>4. CASE entry.pid \in DOMAIN states
  <2>1. states[entry.pid] \in States
    BY <1>1, <1>4
  <2>2. /\ d[entry.pid] \in States
        /\ d[entry.pid].asset = entry.asset
        /\ d[entry.pid].begun <=> states[entry.pid].begun
    BY <1>2, <1>3, <1>4, <2>1 DEF States
  <2>3. d \in StateMaps
    BY <1>1, <1>2, <1>3, <2>2, StateMap
  <2> QED
    BY <1>3, <1>4, <2>2, <2>3 DEF d, Adds
<1>5. CASE entry.pid \notin DOMAIN states
  <2>1. d[entry.pid] = [asset |-> entry.asset, begun |-> FALSE]
    BY <1>3, <1>5 DEF FreshState
  <2>2. /\ d[entry.pid] \in States
        /\ d[entry.pid].asset = entry.asset
        /\ d[entry.pid].begun = FALSE
    BY <1>2, <2>1 DEF States
  <2>3. d \in StateMaps
    BY <1>1, <1>2, <1>3, <2>2, StateMap
  <2> QED
    BY <1>3, <1>5, <2>2, <2>3 DEF d, Adds
<1> QED
  BY <1>4, <1>5

(* One entry of a table.                                                   *)
AfterEntry(p, q, role, entry, K) ==
  /\ Sound(q, K)
  /\ q.active >= p.active
  /\ Decoded(p) \subseteq Decoded(q)
  /\ entry.pid \in Decoded(q) \/ q.active = MaxPacketStates
  /\ DOMAIN q[role] \subseteq DOMAIN p[role] \cup {entry.pid}
  /\ DOMAIN q[OtherRole(role)] \subseteq DOMAIN p[OtherRole(role)]
  /\ \A pid : pid # entry.pid => Same(p, q, pid)
  /\ Took(p, q, role, entry)

LEMMA InstallFacts ==
  ASSUME NEW K \in Nat, NEW p, Sound(p, K), NEW role \in Roles, NEW entry \in Entries
  PROVE  AfterEntry(p, Install(p, role, entry), role, entry, K)
<1> DEFINE q == Install(p, role, entry)
           pid == entry.pid
           other == OtherRole(role)
           v == Vacated(p, other, pid)
           d == Described(v[role], entry)
<1>1. /\ p \in Sides /\ p[role] \in StateMaps /\ p.active \in Nat
      /\ other \in Roles /\ other # role /\ OtherRole(other) = role
      /\ p.active <= MaxPacketStates /\ MaxPacketStates \in Nat
  BY Sided, MaxPacketStatesAssumption DEF Sound
<1>2. DOMAIN p[role] \cap DOMAIN p[other] = {}
  BY DEF Sound, Roles, OtherRole
<1>3. q = IF pid \notin DOMAIN v[role] /\ v.active >= MaxPacketStates THEN v
          ELSE [v EXCEPT !.active = IF pid \in DOMAIN v[role] THEN @ ELSE @ + 1, ![role] = d]
  BY DEF Install
<1>4. /\ Sound(v, K)
      /\ v[OtherRole(other)] = p[OtherRole(other)]
      /\ DOMAIN v[other] = DOMAIN p[other] \ {pid}
      /\ \A x \in DOMAIN v[other] : v[other][x] = p[other][x]
      /\ IF pid \in DOMAIN p[other] THEN v.active = p.active - 1 ELSE v = p
  <2> HIDE DEF other, pid
  <2> QED
    BY <1>1, VacatedFacts
<1> HIDE DEF v
<1>5. /\ v \in Sides /\ v[role] = p[role] /\ v.active \in Nat /\ v.active <= MaxPacketStates
  BY <1>1, <1>4, Sided DEF Sound
<1>6. /\ d \in StateMaps
      /\ DOMAIN d = DOMAIN p[role] \cup {pid}
      /\ \A x \in DOMAIN p[role] : x # pid => d[x] = p[role][x]
      /\ d[pid].asset = entry.asset
      /\ d[pid].begun <=> (pid \in DOMAIN p[role] /\ p[role][pid].begun)
  <2>1. Adds(Described(v[role], entry), v[role], entry)
    BY <1>1, <1>5, DescribedFacts
  <2> HIDE DEF d
  <2>2. Adds(d, p[role], entry)
    BY <1>5, <2>1 DEF d
  <2> QED
    BY <2>2 DEF Adds
<1> HIDE DEF d, q
<1>7. CASE pid \notin DOMAIN p[role] /\ v.active >= MaxPacketStates
  <2>1. q = p /\ p.active = MaxPacketStates
    BY <1>1, <1>3, <1>4, <1>5, <1>7
  <2>2. AfterEntry(p, p, role, entry, K)
    BY <1>1, <1>7, <2>1 DEF AfterEntry, Same, Took
  <2> QED
    BY <2>1, <2>2 DEF q
<1>8. CASE pid \in DOMAIN p[role] \/ ~(v.active >= MaxPacketStates)
  <2> DEFINE n == IF pid \in DOMAIN p[role] THEN v.active ELSE v.active + 1
  <2>1. q = [v EXCEPT !.active = n, ![role] = d]
    BY <1>3, <1>5, <1>8
  <2>2. n \in Nat /\ n <= MaxPacketStates /\ n >= p.active
    BY <1>1, <1>2, <1>4, <1>5, <1>8
  <2> HIDE DEF n
  <2>3. Differs(v, [v EXCEPT !.active = n, ![role] = d], role, n, d)
    BY <1>5, <1>6, <2>2, SideChanged
  <2>4. q \in Sides /\ q.active = n /\ q[role] = d /\ q[other] = v[other]
    BY <2>1, <2>3 DEF Differs
  <2>5. RoleStates(q) = RoleStates(v) \cup {<< role, pid >>}
    BY <1>1, <1>5, <1>6, <2>4, StatesByRole
  <2>6. << role, pid >> \in RoleStates(v) <=> pid \in DOMAIN p[role]
    BY <1>5, StatesByRole
  <2>7. /\ IsFiniteSet(RoleStates(q)) /\ Cardinality(RoleStates(v)) \in Nat
        /\ Cardinality(RoleStates(q)) =
             IF pid \in DOMAIN p[role] THEN Cardinality(RoleStates(v))
             ELSE Cardinality(RoleStates(v)) + 1
    <3> DEFINE S == RoleStates(v)
               e == << role, pid >>
    <3>1. IsFiniteSet(S) /\ Cardinality(S) \in Nat
      BY <1>4, FS_CardinalityType DEF Sound
    <3> HIDE DEF S, e
    <3>2. /\ IsFiniteSet(S \cup {e})
          /\ Cardinality(S \cup {e}) = IF e \in S THEN Cardinality(S) ELSE Cardinality(S) + 1
      BY <3>1, FS_AddElement
    <3> QED
      BY <2>5, <2>6, <3>1, <3>2 DEF S, e
  <2>8. q.active = K + Cardinality(RoleStates(q))
    BY <1>4, <2>4, <2>7 DEF Sound, n
  <2>9. DOMAIN q[role] \cap DOMAIN q[other] = {}
    BY <1>2, <1>4, <1>6, <2>4
  <2>10. DOMAIN q.tracks \cap DOMAIN q.data = {}
    BY <2>9 DEF Roles, OtherRole
  <2>11. Sound(q, K)
    BY <2>2, <2>4, <2>7, <2>8, <2>10 DEF Sound
  <2>12. /\ Decoded(q) = DOMAIN q[role] \cup DOMAIN q[other]
         /\ Decoded(p) = DOMAIN p[role] \cup DOMAIN p[other]
    BY DecodedByRole
  <2>13. Decoded(p) \subseteq Decoded(q) /\ pid \in Decoded(q)
    BY <1>4, <1>6, <2>4, <2>12
  <2>14. ASSUME NEW x, x # pid PROVE Same(p, q, x)
    <3>1. \A r \in {role, other} :
            /\ x \in DOMAIN q[r] <=> x \in DOMAIN p[r]
            /\ x \in DOMAIN p[r] => q[r][x] = p[r][x]
      BY <1>4, <1>6, <2>4, <2>14
    <3> QED
      BY <3>1, SameByRole
  <2>15. Took(p, q, role, entry)
    BY <1>6, <2>4 DEF Took
  <2>16. AfterEntry(p, q, role, entry, K)
    BY <1>4, <1>6, <2>2, <2>4, <2>11, <2>13, <2>14, <2>15 DEF AfterEntry
  <2> QED
    BY <2>16 DEF q
<1> QED
  BY <1>7, <1>8

(* The first n entries of a table.                                         *)
ListedIn(entries, n) == {entries[i].pid : i \in 1 .. n}

Alone(entries, j) ==
  \A i \in DOMAIN entries : entries[i].pid = entries[j].pid => i = j

AfterEntries(p, q, role, entries, K, n) ==
  /\ Sound(q, K)
  /\ q.active >= p.active
  /\ Decoded(p) \subseteq Decoded(q)
  /\ \A i \in 1 .. n : entries[i].pid \in Decoded(q) \/ q.active = MaxPacketStates
  /\ DOMAIN q[role] \subseteq DOMAIN p[role] \cup ListedIn(entries, n)
  /\ DOMAIN q[OtherRole(role)] \subseteq DOMAIN p[OtherRole(role)]
  /\ \A pid : pid \notin ListedIn(entries, n) => Same(p, q, pid)
  /\ \A j \in 1 .. n : Alone(entries, j) => Took(p, q, role, entries[j])

LEMMA SameTransitive ==
  ASSUME NEW p, NEW q, NEW r, NEW pid, Same(p, q, pid), Same(q, r, pid)
  PROVE  Same(p, r, pid)
BY DEF Same

LEMMA TookBefore ==
  ASSUME NEW p, NEW q, NEW r, NEW role \in Roles, NEW entry, Took(p, q, role, entry),
         Same(q, r, entry.pid)
  PROVE  Took(p, r, role, entry)
BY DEF Took, Same

LEMMA TookAfter ==
  ASSUME NEW p, NEW q, NEW r, NEW role \in Roles, NEW entry, Same(p, q, entry.pid),
         Took(q, r, role, entry)
  PROVE  Took(p, r, role, entry)
BY DEF Took, Same

LEMMA NextEntry ==
  ASSUME NEW K \in Nat, NEW role \in Roles, NEW entries \in Seq(Entries), NEW p, NEW q, NEW r,
         p.active \in Nat, NEW n \in 1 .. Len(entries), AfterEntries(p, q, role, entries, K, n - 1),
         AfterEntry(q, r, role, entries[n], K)
  PROVE  AfterEntries(p, r, role, entries, K, n)
<1> DEFINE other == OtherRole(role)
<1>1. ListedIn(entries, n) = ListedIn(entries, n - 1) \cup {entries[n].pid}
  BY DEF ListedIn
<1>2. q.active \in Nat /\ r.active \in Nat /\ r.active <= MaxPacketStates /\ MaxPacketStates \in Nat
      /\ q.active <= MaxPacketStates
  BY MaxPacketStatesAssumption DEF AfterEntries, AfterEntry, Sound, Sides
<1>3. r.active >= q.active /\ q.active >= p.active /\ r.active >= p.active
  BY <1>2 DEF AfterEntries, AfterEntry
<1>4. ASSUME NEW i \in 1 .. n
      PROVE  entries[i].pid \in Decoded(r) \/ r.active = MaxPacketStates
  <2>1. CASE i = n
    BY <2>1 DEF AfterEntry
  <2>2. CASE i # n
    <3>1. i \in 1 .. (n - 1)
      BY <2>2
    <3>2. entries[i].pid \in Decoded(q) \/ q.active = MaxPacketStates
      BY <3>1 DEF AfterEntries
    <3> QED
      BY <1>2, <1>3, <3>2 DEF AfterEntry
  <2> QED
    BY <2>1, <2>2
<1>5. ASSUME NEW pid, pid \notin ListedIn(entries, n) PROVE Same(p, r, pid)
  BY <1>1, <1>5, SameTransitive DEF AfterEntries, AfterEntry
<1>6. ASSUME NEW j \in 1 .. n, Alone(entries, j) PROVE Took(p, r, role, entries[j])
  <2>1. CASE j = n
    <3>1. entries[n].pid \notin ListedIn(entries, n - 1)
      BY <1>6, <2>1 DEF ListedIn, Alone
    <3>2. Same(p, q, entries[n].pid)
      BY <3>1 DEF AfterEntries
    <3>3. Took(q, r, role, entries[n])
      BY DEF AfterEntry
    <3> QED
      BY <2>1, <3>2, <3>3, TookAfter
  <2>2. CASE j # n
    <3>1. j \in 1 .. (n - 1) /\ entries[j].pid # entries[n].pid
      BY <1>6, <2>2 DEF Alone
    <3>2. Took(p, q, role, entries[j])
      BY <1>6, <3>1 DEF AfterEntries
    <3>3. Same(q, r, entries[j].pid)
      BY <3>1 DEF AfterEntry
    <3> QED
      BY <3>2, <3>3, TookBefore
  <2> QED
    BY <2>1, <2>2
<1>7. /\ DOMAIN r[role] \subseteq DOMAIN p[role] \cup ListedIn(entries, n)
      /\ DOMAIN r[other] \subseteq DOMAIN p[other]
      /\ Decoded(p) \subseteq Decoded(r)
      /\ Sound(r, K)
  BY <1>1 DEF AfterEntries, AfterEntry
<1> QED
  BY <1>3, <1>4, <1>5, <1>6, <1>7 DEF AfterEntries

LEMMA InstallAllFacts ==
  ASSUME NEW K \in Nat, NEW role \in Roles, NEW entries \in Seq(Entries), NEW p, Sound(p, K)
  PROVE  AfterEntries(p, InstallAll(p, role, entries), role, entries, K, Len(entries))
<1> DEFINE N == Len(entries)
           Turn(q, n) == Install(q, role, entries[n])
           step == [x \in Sides \X (1 .. N) |-> Turn(x[1], x[2])]
           Loop(f) == f = [n \in 0 .. N |-> IF n = 0 THEN p ELSE Turn(f[n - 1], n)]
           after == CHOOSE f : Loop(f)
           I == [n \in 0 .. N |-> {q \in Sides : AfterEntries(p, q, role, entries, K, n)}]
<1>1. N \in Nat /\ p \in Sides /\ p.active \in Nat
  BY LenProperties DEF Sound, Sides
<1>2. ASSUME NEW n \in 1 .. N, NEW q \in I[n - 1] PROVE Turn(q, n) \in I[n]
  <2>1. n - 1 \in 0 .. N /\ n \in 0 .. N
    BY <1>1
  <2>2. AfterEntries(p, q, role, entries, K, n - 1)
    BY <2>1
  <2>3. entries[n] \in Entries
    BY ElementOfSeq
  <2>4. Sound(q, K)
    BY <2>2 DEF AfterEntries
  <2>5. AfterEntry(q, Turn(q, n), role, entries[n], K)
    BY <2>3, <2>4, InstallFacts
  <2> HIDE DEF Turn
  <2>6. AfterEntries(p, Turn(q, n), role, entries, K, n)
    BY <1>1, <2>2, <2>5, NextEntry
  <2>7. Turn(q, n) \in Sides
    BY <2>6 DEF AfterEntries, Sound
  <2> QED
    BY <2>1, <2>6, <2>7
<1>3. p \in I[0]
  <2>1. AfterEntries(p, p, role, entries, K, 0)
    BY <1>1 DEF AfterEntries, Same, ListedIn
  <2> QED
    BY <1>1, <2>1
<1>4. \A n \in 0 .. N : \A q \in I[n] : q \in Sides /\ AfterEntries(p, q, role, entries, K, n)
  OBVIOUS
<1>5. InstallAll(p, role, entries) = after[N]
  BY DEF InstallAll
<1> HIDE DEF Turn, I, N
<1>6. \A q \in Sides, n \in 1 .. N : step[<< q, n >>] = Turn(q, n)
  OBVIOUS
<1> HIDE DEF step
<1>7. \A n \in 1 .. N : \A q \in I[n - 1] : step[<< q, n >>] \in I[n]
  BY <1>1, <1>2, <1>4, <1>6
<1>8. PICK f : IsLoop(f, N, p, step, I)
  BY <1>1, <1>3, <1>7, LoopKeeps
<1>9. Loop(f)
  <2>1. ASSUME NEW n \in 0 .. N, n # 0 PROVE step[<< f[n - 1], n >>] = Turn(f[n - 1], n)
    <3>1. n - 1 \in 0 .. N /\ n \in 1 .. N
      BY <1>1, <2>1
    <3> QED
      BY <1>4, <1>6, <1>8, <3>1 DEF IsLoop
  <2>2. [n \in 0 .. N |-> IF n = 0 THEN p ELSE step[<< f[n - 1], n >>]]
          = [n \in 0 .. N |-> IF n = 0 THEN p ELSE Turn(f[n - 1], n)]
    BY <2>1
  <2> QED
    BY <1>8, <2>2 DEF IsLoop
<1>10. Loop(after)
  BY <1>9, Zenon
<1> HIDE DEF after
<1>11. /\ after[0] = p
       /\ \A n \in 1 .. N : after[n] = Turn(after[n - 1], n)
  BY <1>1, <1>10
<1>12. \A n \in 0 .. N : after[n] \in I[n]
  <2>1. after[0] \in I[0]
    BY <1>3, <1>11
  <2>2. \A n \in 1 .. N : after[n - 1] \in I[n - 1] => after[n] \in I[n]
    BY <1>2, <1>11
  <2> QED
    BY <1>1, <2>1, <2>2, LoopInvariant
<1>13. after[N] \in I[N] /\ N \in 0 .. N
  BY <1>1, <1>12
<1>14. AfterEntries(p, after[N], role, entries, K, N)
  BY <1>4, <1>13
<1> QED
  BY <1>5, <1>14 DEF N

(* What a table leaves of the states there were.                           *)
Leaves(p, q, table) ==
  \A role \in Roles :
    /\ DOMAIN q[role] = Surviving(p[role], table[role])
    /\ \A pid \in DOMAIN q[role] : q[role][pid] = p[role][pid]

LEMMA RestrictedMap ==
  ASSUME NEW f \in StateMaps, NEW S, S \subseteq DOMAIN f
  PROVE  Restrict(f, S) \in StateMaps
<1> DEFINE g == Restrict(f, S)
<1>1. /\ DOMAIN f \subseteq MediaPids /\ \A x \in DOMAIN f : f[x] \in States
  BY StateMap
<1>2. DOMAIN g = S /\ \A x \in S : g[x] = f[x]
  BY Restricted
<1>3. g = [x \in DOMAIN g |-> g[x]]
  BY DEF Restrict
<1> HIDE DEF g
<1>4. g \in StateMaps
  BY <1>1, <1>2, <1>3, StateMap
<1> QED
  BY <1>4 DEF g

LEMMA RetiredFacts ==
  ASSUME NEW K \in Nat, NEW p, Sound(p, K), NEW table
  PROVE  Sound(Retired(p, table), K) /\ Leaves(p, Retired(p, table), table)
<1> DEFINE T == Restrict(p.tracks, Surviving(p.tracks, table.tracks))
           D == Restrict(p.data, Surviving(p.data, table.data))
           kept == [p EXCEPT !.tracks = T, !.data = D]
           gone == Cardinality(RoleStates(p) \ RoleStates(kept))
           q == Retired(p, table)
<1>1. /\ p \in Sides /\ p.active \in Nat /\ p.tracks \in StateMaps /\ p.data \in StateMaps
      /\ p = [active |-> p.active, tracks |-> p.tracks, data |-> p.data]
  BY DEF Sound, Sides
<1>2. /\ DOMAIN T = Surviving(p.tracks, table.tracks)
      /\ DOMAIN D = Surviving(p.data, table.data)
      /\ \A x \in DOMAIN T : T[x] = p.tracks[x]
      /\ \A x \in DOMAIN D : D[x] = p.data[x]
  BY Restricted
<1>3. DOMAIN T \subseteq DOMAIN p.tracks /\ DOMAIN D \subseteq DOMAIN p.data
  BY <1>2 DEF Surviving
<1>4. T \in StateMaps /\ D \in StateMaps
  BY <1>1, <1>2, <1>3, RestrictedMap
<1>5. q = [kept EXCEPT !.active = Released(kept.active, gone)]
  BY DEF Retired
<1> HIDE DEF T, D, q
<1>6. kept = [active |-> p.active, tracks |-> T, data |-> D]
  <2>1. p \in Sides /\ kept = [p EXCEPT !.tracks = T, !.data = D]
    BY <1>1
  <2> HIDE DEF kept
  <2> QED
    BY <2>1 DEF Sides
<1>7. /\ RoleStates(kept) = ({"tracks"} \X DOMAIN T) \cup ({"data"} \X DOMAIN D)
      /\ RoleStates(p) = ({"tracks"} \X DOMAIN p.tracks) \cup ({"data"} \X DOMAIN p.data)
  BY <1>6, RoleStatesAre
<1>8. RoleStates(kept) \subseteq RoleStates(p)
  BY <1>3, <1>7
<1>9. /\ IsFiniteSet(RoleStates(p)) /\ IsFiniteSet(RoleStates(kept))
      /\ Cardinality(RoleStates(p)) \in Nat /\ Cardinality(RoleStates(kept)) \in Nat
      /\ gone \in Nat /\ gone = Cardinality(RoleStates(p)) - Cardinality(RoleStates(kept))
  <2> DEFINE S == RoleStates(p)
             U == RoleStates(kept)
  <2>1. IsFiniteSet(S) /\ U \subseteq S
    BY <1>8 DEF Sound
  <2> HIDE DEF S, U
  <2>2. IsFiniteSet(U) /\ IsFiniteSet(S \ U)
    BY <2>1, FS_Subset, FS_Difference
  <2>3. S \cap U = U
    BY <2>1
  <2>4. Cardinality(S \ U) = Cardinality(S) - Cardinality(U)
    BY <2>1, <2>3, FS_Difference
  <2>5. Cardinality(S) \in Nat /\ Cardinality(U) \in Nat /\ Cardinality(S \ U) \in Nat
    BY <2>1, <2>2, FS_CardinalityType
  <2> QED
    BY <2>1, <2>2, <2>4, <2>5 DEF S, U
<1> DEFINE n == Released(p.active, gone)
<1>10. n \in Nat /\ n = K + Cardinality(RoleStates(kept)) /\ n <= p.active
  BY <1>1, <1>9 DEF Sound, Released
<1>11. q = [kept EXCEPT !.active = n]
  BY <1>5, <1>6
<1> HIDE DEF gone, n
<1>12. q = [active |-> n, tracks |-> T, data |-> D]
  BY <1>6, <1>11
<1>13. RoleStates(q) = RoleStates(kept)
  BY <1>7, <1>12, RoleStatesAre
<1> HIDE DEF kept
<1>14. Sound(q, K)
  <2>1. q \in Sides /\ q.active = n /\ q.tracks = T /\ q.data = D
    BY <1>4, <1>10, <1>12 DEF Sides
  <2>2. DOMAIN q.tracks \cap DOMAIN q.data = {}
    BY <1>3, <2>1 DEF Sound
  <2>3. n <= MaxPacketStates
    BY <1>1, <1>10, MaxPacketStatesAssumption DEF Sound
  <2> QED
    BY <1>9, <1>10, <1>13, <2>1, <2>2, <2>3 DEF Sound
<1>15. Leaves(p, q, table)
  BY <1>2, <1>12 DEF Leaves, Roles
<1> QED
  BY <1>14, <1>15 DEF q

(***************************************************************************)
(* The unit being put together on a packet id goes on if the asset is the  *)
(* same, and otherwise nothing of it is left.                              *)
(***************************************************************************)
Continues(before, after, pid) ==
  IF pid \in DOMAIN before /\ before[pid].asset = after[pid].asset
  THEN before[pid].begun => after[pid].begun
  ELSE ~after[pid].begun

AfterTable(p, q, table, K) ==
  /\ Sound(q, K)
  /\ DOMAIN q.tracks \subseteq PacketIds(table.tracks)
  /\ DOMAIN q.data \subseteq PacketIds(table.data)
  /\ \/ q.active = MaxPacketStates
     \/ PacketIds(table.tracks) \cup PacketIds(table.data) \subseteq Decoded(q)
  /\ \A role \in Roles : \A pid \in DOMAIN q[role] :
       Once(table, pid) => Continues(p[role], q[role], pid)

LEMMA AllListedIn ==
  ASSUME NEW S, NEW entries \in Seq(S)
  PROVE  /\ PacketIds(entries) = ListedIn(entries, Len(entries))
         /\ DOMAIN entries = 1 .. Len(entries) /\ Len(entries) \in Nat
BY LenProperties DEF PacketIds, ListedIn

LEMMA FirstAlone ==
  ASSUME NEW S, NEW entries \in Seq(S), NEW i \in DOMAIN entries, Alone(entries, i)
  PROVE  FirstOf(entries, entries[i].pid) = entries[i]
<1>1. {j \in DOMAIN entries : entries[j].pid = entries[i].pid} = {i}
  BY DEF Alone
<1>2. DOMAIN entries = 1 .. Len(entries) /\ Len(entries) \in Nat
  BY AllListedIn
<1>3. Min({i}) = i
  BY <1>2 DEF Min
<1> QED
  BY <1>1, <1>3 DEF FirstOf


(***************************************************************************)
(* parse_mpt: what routing promises of the states, the budget and the unit *)
(* on every packet id.                                                     *)
(***************************************************************************)
LEMMA RoutedFacts ==
  ASSUME NEW K \in Nat, NEW p, Sound(p, K), NEW table,
         table.tracks \in Seq(Entries), table.data \in Seq(Entries)
  PROVE  AfterTable(p, Routed(p, table), table, K)
<1> DEFINE a == Retired(p, table)
           b == InstallAll(a, "tracks", table.tracks)
           q == InstallAll(b, "data", table.data)
<1>1. Sound(a, K) /\ Leaves(p, a, table)
  BY RetiredFacts
<1> HIDE DEF a
<1>2. AfterEntries(a, b, "tracks", table.tracks, K, Len(table.tracks))
  BY <1>1, InstallAllFacts DEF Roles
<1> HIDE DEF b
<1>3. AfterEntries(b, q, "data", table.data, K, Len(table.data))
  BY <1>2, InstallAllFacts DEF Roles, AfterEntries
<1>4. q = Routed(p, table)
  BY DEF Routed, a, b
<1> HIDE DEF q
<1>5. /\ PacketIds(table.tracks) = ListedIn(table.tracks, Len(table.tracks))
      /\ DOMAIN table.tracks = 1 .. Len(table.tracks)
      /\ PacketIds(table.data) = ListedIn(table.data, Len(table.data))
      /\ DOMAIN table.data = 1 .. Len(table.data)
  BY AllListedIn
<1>6. /\ DOMAIN a.tracks \subseteq PacketIds(table.tracks)
      /\ DOMAIN a.data \subseteq PacketIds(table.data)
  BY <1>1 DEF Leaves, Roles, Surviving
<1>7. /\ DOMAIN b.tracks \subseteq PacketIds(table.tracks)
      /\ DOMAIN b.data \subseteq PacketIds(table.data)
  BY <1>2, <1>5, <1>6 DEF AfterEntries, OtherRole
<1>8. /\ DOMAIN q.tracks \subseteq PacketIds(table.tracks)
      /\ DOMAIN q.data \subseteq PacketIds(table.data)
  BY <1>3, <1>5, <1>7 DEF AfterEntries, OtherRole
<1>9. \/ q.active = MaxPacketStates
      \/ PacketIds(table.tracks) \cup PacketIds(table.data) \subseteq Decoded(q)
  <2>1. /\ b.active \in Nat /\ q.active \in Nat /\ q.active <= MaxPacketStates
        /\ MaxPacketStates \in Nat /\ q.active >= b.active
    BY <1>2, <1>3, MaxPacketStatesAssumption DEF AfterEntries, Sound, Sides
  <2>2. b.active = MaxPacketStates \/ PacketIds(table.tracks) \subseteq Decoded(q)
    BY <1>2, <1>3 DEF AfterEntries, PacketIds, ListedIn, Decoded
  <2>3. q.active = MaxPacketStates \/ PacketIds(table.data) \subseteq Decoded(q)
    BY <1>3 DEF AfterEntries, PacketIds, ListedIn, Decoded
  <2> QED
    BY <2>1, <2>2, <2>3
<1>10. ASSUME NEW role \in Roles, NEW pid \in DOMAIN q[role], Once(table, pid)
       PROVE  Continues(p[role], q[role], pid)
  <2> DEFINE entries == table[role]
  <2>1. pid \in PacketIds(entries)
    BY <1>8, <1>10 DEF Roles
  <2>2. OtherRole(OtherRole(role)) = role
    BY DEF Roles, OtherRole
  <2>3. PICK i \in DOMAIN entries :
          /\ entries[i].pid = pid /\ Alone(entries, i)
          /\ pid \notin PacketIds(table[OtherRole(role)])
    BY <1>10, <2>1 DEF Once, Alone, Roles, OtherRole
  <2>4. Took(a, q, role, entries[i])
    <3>1. CASE role = "tracks"
      <4>1. Took(a, b, role, entries[i])
        BY <1>2, <1>5, <2>3, <3>1 DEF AfterEntries
      <4>2. Same(b, q, pid)
        BY <1>3, <1>5, <2>3, <3>1 DEF AfterEntries, OtherRole
      <4> QED
        BY <2>3, <4>1, <4>2, TookBefore
    <3>2. CASE role = "data"
      <4>1. Took(b, q, role, entries[i])
        BY <1>3, <1>5, <2>3, <3>2 DEF AfterEntries
      <4>2. Same(a, b, pid)
        BY <1>2, <1>5, <2>3, <3>2 DEF AfterEntries, OtherRole
      <4> QED
        BY <2>3, <4>1, <4>2, TookAfter
    <3> QED
      BY <3>1, <3>2 DEF Roles
  <2>5. entries \in Seq(Entries)
    BY DEF Roles
  <2>6. FirstOf(entries, pid) = entries[i]
    BY <2>3, <2>5, FirstAlone
  <2>7. /\ pid \in DOMAIN a[role]
             <=> pid \in DOMAIN p[role] /\ entries[i].asset = p[role][pid].asset
        /\ pid \in DOMAIN a[role] => a[role][pid] = p[role][pid]
    BY <1>1, <2>1, <2>6 DEF Leaves, Surviving
  <2> HIDE DEF entries
  <2>8. /\ q[role][pid].asset = entries[i].asset
        /\ q[role][pid].begun <=> (pid \in DOMAIN a[role] /\ a[role][pid].begun)
    BY <1>10, <2>3, <2>4 DEF Took
  <2> QED
    BY <2>7, <2>8 DEF Continues
<1>11. Sound(q, K)
  BY <1>3 DEF AfterEntries
<1>12. AfterTable(p, q, table, K)
  BY <1>8, <1>9, <1>10, <1>11 DEF AfterTable
<1> QED
  BY <1>4, <1>12

(* What a snapshot lists: the packet ids of the table that have a state.   *)
Elements(list) == {list[i] : i \in DOMAIN list}

Entry(states, pid) == [pid |-> pid, asset |-> states[pid].asset]

Lists(list, states, pids) ==
  list \in Seq(Entries) /\ Elements(list) = {Entry(states, pid) : pid \in pids \cap DOMAIN states}

LEMMA AppendElements ==
  ASSUME NEW S, NEW list \in Seq(S), NEW x \in S
  PROVE  Append(list, x) \in Seq(S) /\ Elements(Append(list, x)) = Elements(list) \cup {x}
<1>1. /\ Append(list, x) \in Seq(S)
      /\ Len(list) \in Nat /\ Len(Append(list, x)) = Len(list) + 1
      /\ \A i \in 1 .. Len(list) : Append(list, x)[i] = list[i]
      /\ Append(list, x)[Len(list) + 1] = x
  BY AppendProperties, LenProperties
<1>2. DOMAIN list = 1 .. Len(list) /\ DOMAIN Append(list, x) = 1 .. (Len(list) + 1)
  BY <1>1, LenProperties
<1>3. 1 .. (Len(list) + 1) = (1 .. Len(list)) \cup {Len(list) + 1}
  BY <1>1
<1> DEFINE longer == Append(list, x)
<1> HIDE DEF longer
<1>4. Elements(longer) = {longer[i] : i \in (1 .. Len(list)) \cup {Len(list) + 1}}
  BY <1>2, <1>3 DEF Elements, longer
<1>5. {longer[i] : i \in (1 .. Len(list)) \cup {Len(list) + 1}}
        = {list[i] : i \in 1 .. Len(list)} \cup {x}
  BY <1>1 DEF longer
<1> QED
  BY <1>1, <1>2, <1>4, <1>5 DEF Elements, longer

LEMMA InstalledFacts ==
  ASSUME NEW entries \in Seq(Entries), NEW states \in StateMaps
  PROVE  Lists(Installed(states, entries), states, PacketIds(entries))
<1> DEFINE N == Len(entries)
           Turn(l, n) == IF entries[n].pid \notin DOMAIN states THEN l
                         ELSE Append(l, Entry(states, entries[n].pid))
           step == [x \in Seq(Entries) \X (1 .. N) |-> Turn(x[1], x[2])]
           Loop(f) == f = [n \in 0 .. N |-> IF n = 0 THEN << >> ELSE Turn(f[n - 1], n)]
           listed == CHOOSE f : Loop(f)
           I == [n \in 0 .. N |-> {l \in Seq(Entries) : Lists(l, states, ListedIn(entries, n))}]
<1>1. N \in Nat
  BY LenProperties
<1>2. ASSUME NEW n \in 1 .. N, NEW l \in I[n - 1] PROVE Turn(l, n) \in I[n]
  <2>1. n - 1 \in 0 .. N /\ n \in 0 .. N
    BY <1>1
  <2>2. l \in Seq(Entries) /\ Lists(l, states, ListedIn(entries, n - 1))
    BY <2>1
  <2>3. ListedIn(entries, n) = ListedIn(entries, n - 1) \cup {entries[n].pid}
    BY <1>1 DEF ListedIn
  <2>4. CASE entries[n].pid \notin DOMAIN states
    <3>1. Turn(l, n) = l
      BY <2>4
    <3>2. Lists(l, states, ListedIn(entries, n))
      BY <2>2, <2>3, <2>4 DEF Lists
    <3> QED
      BY <2>1, <2>2, <3>1, <3>2
  <2>5. CASE entries[n].pid \in DOMAIN states
    <3> DEFINE x == Entry(states, entries[n].pid)
    <3>1. x \in Entries
      BY <2>5, StateMap DEF Entry, Entries, States
    <3>2. Turn(l, n) = Append(l, x)
      BY <2>5
    <3>3. Append(l, x) \in Seq(Entries) /\ Elements(Append(l, x)) = Elements(l) \cup {x}
      BY <2>2, <3>1, AppendElements
    <3>4. Elements(l) \cup {x}
            = {Entry(states, pid) : pid \in ListedIn(entries, n) \cap DOMAIN states}
      BY <2>2, <2>3, <2>5 DEF Lists
    <3>5. Lists(Append(l, x), states, ListedIn(entries, n))
      BY <3>3, <3>4 DEF Lists
    <3> HIDE DEF x
    <3> QED
      BY <2>1, <3>2, <3>3, <3>5
  <2> QED
    BY <2>4, <2>5
<1>3. << >> \in I[0]
  <2>1. << >> \in Seq(Entries) /\ Elements(<< >>) = {} /\ ListedIn(entries, 0) = {}
    BY EmptySeq DEF Elements, ListedIn
  <2>2. Lists(<< >>, states, ListedIn(entries, 0))
    BY <2>1 DEF Lists
  <2> QED
    BY <1>1, <2>1, <2>2
<1>4. \A n \in 0 .. N : \A l \in I[n] :
        l \in Seq(Entries) /\ Lists(l, states, ListedIn(entries, n))
  OBVIOUS
<1>5. Installed(states, entries) = listed[N]
  BY DEF Installed, Entry
<1> HIDE DEF Turn, I, N
<1>6. \A l \in Seq(Entries), n \in 1 .. N : step[<< l, n >>] = Turn(l, n)
  OBVIOUS
<1> HIDE DEF step
<1>7. \A n \in 1 .. N : \A l \in I[n - 1] : step[<< l, n >>] \in I[n]
  BY <1>1, <1>2, <1>4, <1>6
<1>8. PICK f : IsLoop(f, N, << >>, step, I)
  BY <1>1, <1>3, <1>7, LoopKeeps
<1>9. Loop(f)
  <2>1. ASSUME NEW n \in 0 .. N, n # 0 PROVE step[<< f[n - 1], n >>] = Turn(f[n - 1], n)
    <3>1. n - 1 \in 0 .. N /\ n \in 1 .. N
      BY <1>1, <2>1
    <3> QED
      BY <1>4, <1>6, <1>8, <3>1 DEF IsLoop
  <2>2. [n \in 0 .. N |-> IF n = 0 THEN << >> ELSE step[<< f[n - 1], n >>]]
          = [n \in 0 .. N |-> IF n = 0 THEN << >> ELSE Turn(f[n - 1], n)]
    BY <2>1
  <2> QED
    BY <1>8, <2>2 DEF IsLoop
<1>10. Loop(listed)
  BY <1>9, Zenon
<1> HIDE DEF listed
<1>11. /\ listed[0] = << >>
       /\ \A n \in 1 .. N : listed[n] = Turn(listed[n - 1], n)
  BY <1>1, <1>10
<1>12. \A n \in 0 .. N : listed[n] \in I[n]
  <2>1. listed[0] \in I[0]
    BY <1>3, <1>11
  <2>2. \A n \in 1 .. N : listed[n - 1] \in I[n - 1] => listed[n] \in I[n]
    BY <1>2, <1>11
  <2> QED
    BY <1>1, <2>1, <2>2, LoopInvariant
<1>13. listed[N] \in I[N] /\ N \in 0 .. N
  BY <1>1, <1>12
<1>14. PacketIds(entries) = ListedIn(entries, N)
  BY AllListedIn DEF N
<1>15. Lists(listed[N], states, PacketIds(entries))
  BY <1>4, <1>13, <1>14
<1> QED
  BY <1>5, <1>15

-----------------------------------------------------------------------------
(* The budget.                                                             *)
LEMMA DisjointUnion ==
  ASSUME NEW A, NEW B, A \cap B = {}, IsFiniteSet(A), IsFiniteSet(B)
  PROVE  /\ IsFiniteSet(A \cup B)
         /\ Cardinality(A) \in Nat /\ Cardinality(B) \in Nat
         /\ Cardinality(A \cup B) = Cardinality(A) + Cardinality(B)
<1>1. IsFiniteSet(A \cup B)
      /\ Cardinality(A \cup B) = Cardinality(A) + Cardinality(B) - Cardinality(A \cap B)
  BY FS_Union
<1>2. Cardinality(A \cap B) = 0
  BY FS_EmptySet
<1>3. Cardinality(A) \in Nat /\ Cardinality(B) \in Nat
  BY FS_CardinalityType
<1> QED
  BY <1>1, <1>2, <1>3

LEMMA Tagged ==
  ASSUME NEW x, NEW S, IsFiniteSet(S)
  PROVE  IsFiniteSet({x} \X S) /\ Cardinality({x} \X S) = Cardinality(S)
<1>1. IsFiniteSet({x}) /\ Cardinality({x}) = 1
  BY FS_Singleton
<1>2. Cardinality(S) \in Nat
  BY FS_CardinalityType
<1>3. IsFiniteSet({x} \X S) /\ Cardinality({x} \X S) = Cardinality({x}) * Cardinality(S)
  BY <1>1, FS_Product
<1> QED
  BY <1>1, <1>2, <1>3

(* A finite product with a tag comes from a finite set.                    *)
LEMMA Untagged ==
  ASSUME NEW x, NEW S, IsFiniteSet({x} \X S)
  PROVE  IsFiniteSet(S)
<1> DEFINE f == [s \in {x} \X S |-> s[2]]
<1>1. f \in Surjection({x} \X S, S)
  <2>1. f \in [{x} \X S -> S]
    OBVIOUS
  <2>2. \A s \in S : f[<< x, s >>] = s /\ << x, s >> \in {x} \X S
    OBVIOUS
  <2> QED
    BY <2>1, <2>2 DEF Surjection
<1> QED
  BY <1>1, FS_Surjection

OtherStates(c) ==
  UNION {{d} \X StatesOf(contexts[d]) : d \in DOMAIN contexts \ {c}}

LEMMA NewHoldsNothing == StatesOf(NewContext) = {}
BY RoleStatesAre DEF StatesOf, NewContext, EmptyFunction

LEMMA StatesBefore ==
  ASSUME NEW c
  PROVE  /\ PacketStates = OtherStates(c) \cup ({c} \X StatesOf(Context(c)))
         /\ OtherStates(c) \cap ({c} \X StatesOf(Context(c))) = {}
<1>1. CASE c \in DOMAIN contexts
  BY <1>1 DEF PacketStates, OtherStates, Context
<1>2. CASE c \notin DOMAIN contexts
  BY <1>2, NewHoldsNothing DEF PacketStates, OtherStates, Context
<1> QED
  BY <1>1, <1>2

LEMMA StatesAfter ==
  ASSUME NEW c, NEW new, contexts' = With(c, new)
  PROVE  /\ PacketStates' = OtherStates(c) \cup ({c} \X StatesOf(new))
         /\ OtherStates(c) \cap ({c} \X StatesOf(new)) = {}
<1>1. /\ DOMAIN contexts' = {c} \cup DOMAIN contexts
      /\ contexts'[c] = new
      /\ \A d \in DOMAIN contexts \ {c} : contexts'[d] = contexts[d]
  BY DEF With, Put, Over
<1>2. PacketStates' = UNION {{d} \X StatesOf(contexts'[d]) : d \in DOMAIN contexts'}
  BY DEF PacketStates, StatesOf
<1>3. \A x : x \in PacketStates' <=> x \in OtherStates(c) \cup ({c} \X StatesOf(new))
  <2> SUFFICES ASSUME NEW x
               PROVE  x \in UNION {{d} \X StatesOf(contexts'[d]) : d \in DOMAIN contexts'}
                        <=> x \in OtherStates(c) \cup ({c} \X StatesOf(new))
    BY <1>2
  <2> QED
    BY <1>1 DEF OtherStates
<1>4. OtherStates(c) \cap ({c} \X StatesOf(new)) = {}
  BY DEF OtherStates
<1> QED
  BY <1>3, <1>4

Counted == IsFiniteSet(PacketStates) /\ active = Cardinality(PacketStates)

(* The states of the other contexts, and those of c.                       *)
CountedAt(c) ==
  /\ IsFiniteSet(OtherStates(c)) /\ Cardinality(OtherStates(c)) \in Nat
  /\ IsFiniteSet(StatesOf(Context(c)))
  /\ active = Cardinality(OtherStates(c)) + Cardinality(StatesOf(Context(c)))

LEMMA CountBefore ==
  ASSUME Counted, NEW c
  PROVE  CountedAt(c)
<1> DEFINE A == OtherStates(c)
           S == StatesOf(Context(c))
<1>1. PacketStates = A \cup ({c} \X S) /\ A \cap ({c} \X S) = {}
  BY StatesBefore
<1> HIDE DEF A, S
<1>2. A \subseteq PacketStates /\ {c} \X S \subseteq PacketStates
  BY <1>1
<1>3. IsFiniteSet(A) /\ IsFiniteSet({c} \X S)
  BY <1>2, FS_Subset DEF Counted
<1>4. IsFiniteSet(S)
  BY <1>3, Untagged
<1>5. /\ Cardinality(A) \in Nat
      /\ Cardinality(A \cup ({c} \X S)) = Cardinality(A) + Cardinality({c} \X S)
  BY <1>1, <1>3, DisjointUnion
<1>6. Cardinality({c} \X S) = Cardinality(S)
  BY <1>4, Tagged
<1> QED
  BY <1>1, <1>3, <1>4, <1>5, <1>6 DEF Counted, CountedAt, A, S

LEMMA CountAfter ==
  ASSUME NEW c, NEW new, CountedAt(c), contexts' = With(c, new), IsFiniteSet(StatesOf(new)),
         active' = Cardinality(OtherStates(c)) + Cardinality(StatesOf(new))
  PROVE  Counted'
<1> DEFINE A == OtherStates(c)
           S == StatesOf(new)
<1>1. PacketStates' = A \cup ({c} \X S) /\ A \cap ({c} \X S) = {}
  BY StatesAfter
<1>2. IsFiniteSet(A) /\ IsFiniteSet(S) /\ active' = Cardinality(A) + Cardinality(S)
  BY DEF CountedAt
<1> HIDE DEF A, S
<1>3. IsFiniteSet({c} \X S) /\ Cardinality({c} \X S) = Cardinality(S)
  BY <1>2, Tagged
<1>4. /\ IsFiniteSet(A \cup ({c} \X S))
      /\ Cardinality(A \cup ({c} \X S)) = Cardinality(A) + Cardinality({c} \X S)
  BY <1>1, <1>2, <1>3, DisjointUnion
<1> QED
  BY <1>1, <1>2, <1>3, <1>4 DEF Counted

LEMMA SignallingApart ==
  ASSUME NEW context
  PROVE  /\ ({"signalling"} \X context.signalling) \cap RoleStates(context) = {}
         /\ \A pid : << "signalling", pid >> \in StatesOf(context) <=> pid \in context.signalling
BY RoleStatesAre DEF StatesOf

SplitCount(context) ==
  /\ IsFiniteSet(StatesOf(context)) /\ IsFiniteSet(RoleStates(context))
  /\ Cardinality(context.signalling) \in Nat /\ Cardinality(RoleStates(context)) \in Nat
  /\ Cardinality(StatesOf(context))
       = Cardinality(context.signalling) + Cardinality(RoleStates(context))

LEMMA Joined ==
  ASSUME NEW context, IsFiniteSet(context.signalling), IsFiniteSet(RoleStates(context))
  PROVE  SplitCount(context)
<1> DEFINE A == {"signalling"} \X context.signalling
           B == RoleStates(context)
<1>1. A \cap B = {} /\ StatesOf(context) = A \cup B
  BY SignallingApart DEF StatesOf
<1>2. IsFiniteSet(A) /\ Cardinality(A) = Cardinality(context.signalling) /\ IsFiniteSet(B)
  BY Tagged
<1> HIDE DEF A, B
<1>3. /\ IsFiniteSet(A \cup B)
      /\ Cardinality(A) \in Nat /\ Cardinality(B) \in Nat
      /\ Cardinality(A \cup B) = Cardinality(A) + Cardinality(B)
  BY <1>1, <1>2, DisjointUnion
<1> QED
  BY <1>1, <1>2, <1>3 DEF SplitCount, B

LEMMA Split ==
  ASSUME NEW context, IsFiniteSet(StatesOf(context))
  PROVE  IsFiniteSet(context.signalling) /\ SplitCount(context)
<1> DEFINE A == {"signalling"} \X context.signalling
           B == RoleStates(context)
<1>1. StatesOf(context) = A \cup B
  BY DEF StatesOf
<1> HIDE DEF A, B
<1>2. A \subseteq StatesOf(context) /\ B \subseteq StatesOf(context)
  BY <1>1
<1>3. IsFiniteSet(A) /\ IsFiniteSet(B)
  BY <1>2, FS_Subset
<1>4. IsFiniteSet(context.signalling)
  BY <1>3, Untagged DEF A
<1> QED
  BY <1>3, <1>4, Joined DEF B

(* A context of the parser.                                                *)
Fielded(context) ==
  context = [signalling |-> context.signalling, tracks |-> context.tracks,
             data |-> context.data, mpt |-> context.mpt, staged |-> context.staged,
             committed |-> context.committed]

WellSectioned(c, f) == \A key \in DOMAIN f : f[key] \subseteq Sections[c]

ContextWell(c, context) ==
  /\ Fielded(context)
  /\ context.tracks \in StateMaps /\ context.data \in StateMaps
  /\ DOMAIN context.tracks \cap DOMAIN context.data = {}
  /\ context.mpt \in Tables[c] \cup {NoTable}
  /\ WellSectioned(c, context.staged) /\ WellSectioned(c, context.committed)

LEMMA EmptyMap == EmptyFunction \in StateMaps /\ DOMAIN EmptyFunction = {}
<1>1. DOMAIN EmptyFunction = {} /\ EmptyFunction = [pid \in DOMAIN EmptyFunction |-> EmptyFunction[pid]]
  BY DEF EmptyFunction
<1> QED
  BY <1>1, StateMap

LEMMA NewWell == ASSUME NEW c PROVE ContextWell(c, NewContext)
BY EmptyMap DEF ContextWell, NewContext, Fielded, WellSectioned

ContextsWell == \A c \in DOMAIN contexts : c \in Contexts /\ ContextWell(c, contexts[c])

LEMMA ContextIsWell ==
  ASSUME ContextsWell, NEW c
  PROVE  ContextWell(c, Context(c))
BY NewWell DEF ContextsWell, Context

(* How a step may leave a context: the routing is the same, and so is what *)
(* is being put together, or more of it has come.                          *)
SameRouting(old, new) ==
  /\ new.mpt = old.mpt
  /\ \A role \in Roles :
       /\ DOMAIN new[role] = DOMAIN old[role]
       /\ \A pid \in DOMAIN old[role] : new[role][pid].asset = old[role][pid].asset

GoesOn(old, new) ==
  \A role \in Roles : \A pid \in DOMAIN old[role] :
    old[role][pid].begun => new[role][pid].begun

(* What Holding changes.                                                   *)
HeldWell(c, pid, h) ==
  /\ ContextWell(c, h) /\ SameRouting(Context(c), h) /\ GoesOn(Context(c), h)
  /\ h.tracks = Context(c).tracks /\ h.data = Context(c).data
  /\ h.staged = Context(c).staged /\ h.committed = Context(c).committed
  /\ SplitCount(h) /\ IsFiniteSet(h.signalling)
  /\ ActiveHolding(c, pid) = Cardinality(OtherStates(c)) + Cardinality(StatesOf(h))
  /\ ActiveHolding(c, pid) <= MaxPacketStates

LEMMA HoldingFacts ==
  ASSUME NEW c, NEW pid, CountedAt(c), active <= MaxPacketStates, ContextWell(c, Context(c)),
         CanHold(c, pid)
  PROVE  HeldWell(c, pid, Holding(c, pid))
<1> DEFINE old == Context(c)
           h == Holding(c, pid)
           held == old.signalling \cup {pid}
           e == << "signalling", pid >>
           S == StatesOf(old)
<1>1. h = [old EXCEPT !.signalling = held]
  BY DEF Holding
<1>2. old = [signalling |-> old.signalling, tracks |-> old.tracks, data |-> old.data,
             mpt |-> old.mpt, staged |-> old.staged, committed |-> old.committed]
  BY DEF ContextWell, Fielded
<1> HIDE DEF h, held
<1>3. h = [signalling |-> held, tracks |-> old.tracks, data |-> old.data,
           mpt |-> old.mpt, staged |-> old.staged, committed |-> old.committed]
  <2>1. PICK sig, t, d, m, s, k :
          old = [signalling |-> sig, tracks |-> t, data |-> d, mpt |-> m, staged |-> s,
                 committed |-> k]
    BY <1>2
  <2> QED
    BY <1>1, <2>1
<1>4. ContextWell(c, h)
  BY <1>3 DEF ContextWell, Fielded
<1>5. SameRouting(old, h) /\ GoesOn(old, h)
  BY <1>3 DEF SameRouting, GoesOn, Roles
<1>6. StatesOf(h) = S \cup {e}
  <2>1. RoleStates(h) = RoleStates(old)
    BY <1>3, RoleStatesAre
  <2>2. h.signalling = old.signalling \cup {pid}
    BY <1>3 DEF held
  <2> QED
    BY <2>1, <2>2 DEF StatesOf
<1>7. e \in S <=> pid \in old.signalling
  BY SignallingApart
<1>8. /\ IsFiniteSet(S) /\ active = Cardinality(OtherStates(c)) + Cardinality(S)
      /\ Cardinality(OtherStates(c)) \in Nat
  BY DEF CountedAt
<1> HIDE DEF S, e
<1>9. /\ IsFiniteSet(S \cup {e}) /\ Cardinality(S) \in Nat
      /\ Cardinality(S \cup {e}) = IF e \in S THEN Cardinality(S) ELSE Cardinality(S) + 1
  BY <1>8, FS_AddElement, FS_CardinalityType
<1>10. /\ ActiveHolding(c, pid) = Cardinality(OtherStates(c)) + Cardinality(StatesOf(h))
       /\ ActiveHolding(c, pid) <= MaxPacketStates
  BY <1>6, <1>7, <1>8, <1>9, MaxPacketStatesAssumption DEF ActiveHolding, CanHold
<1>11. SplitCount(h) /\ IsFiniteSet(h.signalling)
  BY <1>6, <1>9, Split
<1> QED
  BY <1>3, <1>4, <1>5, <1>10, <1>11 DEF HeldWell, h

LEMMA StageSectioned ==
  ASSUME NEW c, NEW section \in Sections[c], NEW staged, NEW committed,
         WellSectioned(c, staged), WellSectioned(c, committed)
  PROVE  /\ WellSectioned(c, StageSection(staged, committed, section).staged)
         /\ WellSectioned(c, StageSection(staged, committed, section).committed)
<1> DEFINE key == Identity(section)
           kept == SameVersion(At(staged, key), section)
           have == kept \cup {section}
           without == Restrict(staged, DOMAIN staged \ {key})
           r == StageSection(staged, committed, section)
<1>1. have \subseteq Sections[c]
  BY DEF At, SameVersion, WellSectioned
<1>2. WellSectioned(c, without)
  BY Restricted DEF WellSectioned
<1>3. \/ r = Result(staged, committed, FALSE)
      \/ r = Result(without, committed, FALSE)
      \/ r = Result(Put(without, key, have), committed, FALSE)
      \/ r = Result(without, Put(committed, key, have), At(committed, key) # have)
  BY DEF StageSection
<1> HIDE DEF key, have, without, r
<1>4. ASSUME NEW f, WellSectioned(c, f) PROVE WellSectioned(c, Put(f, key, have))
  BY <1>1, <1>4 DEF WellSectioned, Put, Over
<1>5. /\ WellSectioned(c, Put(without, key, have))
      /\ WellSectioned(c, Put(committed, key, have))
  BY <1>2, <1>4
<1>6. WellSectioned(c, r.staged) /\ WellSectioned(c, r.committed)
  BY <1>2, <1>3, <1>5 DEF Result
<1> QED
  BY <1>6 DEF r

ParserInv ==
  /\ selected \in Contexts \cup {NoService}
  /\ ContextsWell
  /\ IsFiniteSet(DOMAIN contexts) /\ Cardinality(DOMAIN contexts) <= MaxContexts
  /\ Counted /\ active <= MaxPacketStates

(* A step that touches one context, and leaves everything counted.         *)
Moves(c, new) ==
  /\ HasRoom(c)
  /\ contexts' = With(c, new)
  /\ ContextWell(c, new)
  /\ IsFiniteSet(StatesOf(new))
  /\ active' = Cardinality(OtherStates(c)) + Cardinality(StatesOf(new))
  /\ active' <= MaxPacketStates
  /\ selected' = selected

LEMMA MovesKeep ==
  ASSUME ParserInv, NEW c \in Contexts, NEW new, Moves(c, new)
  PROVE  ParserInv'
<1>1. /\ DOMAIN contexts' = DOMAIN contexts \cup {c}
      /\ contexts'[c] = new
      /\ \A d \in DOMAIN contexts \ {c} : contexts'[d] = contexts[d]
  BY DEF Moves, With, Put, Over
<1>2. ContextsWell'
  <2> SUFFICES ASSUME NEW d \in DOMAIN contexts'
               PROVE  d \in Contexts /\ ContextWell(d, contexts'[d])
    BY DEF ContextsWell
  <2>1. CASE d = c
    BY <1>1, <2>1 DEF Moves
  <2>2. CASE d # c
    <3>1. d \in DOMAIN contexts /\ contexts'[d] = contexts[d]
      BY <1>1, <2>2
    <3> QED
      BY <3>1 DEF ParserInv, ContextsWell
  <2> QED
    BY <2>1, <2>2
<1>3. IsFiniteSet(DOMAIN contexts') /\ Cardinality(DOMAIN contexts') <= MaxContexts
  <2> DEFINE S == DOMAIN contexts
  <2>1. /\ IsFiniteSet(S) /\ Cardinality(S) <= MaxContexts
        /\ c \in S \/ Cardinality(S) < MaxContexts
    BY DEF ParserInv, Moves, HasRoom
  <2> HIDE DEF S
  <2>2. /\ IsFiniteSet(S \cup {c}) /\ Cardinality(S) \in Nat
        /\ Cardinality(S \cup {c}) = IF c \in S THEN Cardinality(S) ELSE Cardinality(S) + 1
    BY <2>1, FS_AddElement, FS_CardinalityType
  <2> QED
    BY <1>1, <2>1, <2>2, ContextsAssumption DEF S
<1>4. CountedAt(c)
  BY CountBefore DEF ParserInv
<1>5. Counted'
  BY <1>4, CountAfter DEF Moves
<1> QED
  BY <1>2, <1>3, <1>5 DEF ParserInv, Moves

(* Signalling without an MPT, and media: the routing stays.                *)
Carries(c) ==
  \E new : Moves(c, new) /\ SameRouting(Context(c), new) /\ GoesOn(Context(c), new)

LEMMA BeforeStep ==
  ASSUME ParserInv, NEW c
  PROVE  /\ CountedAt(c) /\ ContextWell(c, Context(c))
         /\ active <= MaxPacketStates /\ SplitCount(Context(c))
<1>1. CountedAt(c)
  BY CountBefore DEF ParserInv
<1> QED
  BY <1>1, ContextIsWell, Split DEF ParserInv, CountedAt

LEMMA RefuseCarries ==
  ASSUME ParserInv, NEW c, NEW pid, RefuseSignalling(c, pid)
  PROVE  Carries(c)
<1>1. Moves(c, Context(c))
  BY BeforeStep DEF RefuseSignalling, Moves, CountedAt
<1>2. SameRouting(Context(c), Context(c)) /\ GoesOn(Context(c), Context(c))
  BY DEF SameRouting, GoesOn
<1> QED
  BY <1>1, <1>2 DEF Carries

LEMMA OtherCarries ==
  ASSUME ParserInv, NEW c, NEW pid, OtherMessage(c, pid)
  PROVE  Carries(c)
<1> DEFINE h == Holding(c, pid)
<1>1. HeldWell(c, pid, h)
  BY BeforeStep, HoldingFacts DEF OtherMessage
<1>2. HasRoom(c) /\ contexts' = With(c, h) /\ active' = ActiveHolding(c, pid) /\ selected' = selected
  BY DEF OtherMessage
<1> HIDE DEF h
<1>3. Moves(c, h)
  BY <1>1, <1>2 DEF HeldWell, SplitCount, Moves
<1> QED
  BY <1>1, <1>3 DEF HeldWell, Carries

LEMMA MhAitCarries ==
  ASSUME ParserInv, NEW c \in Contexts, NEW section \in Sections[c], ParseMhAit(c, section)
  PROVE  Carries(c)
<1> DEFINE h == Holding(c, section.pid)
           result == StageSection(h.staged, h.committed, section)
           new == [h EXCEPT !.staged = result.staged, !.committed = result.committed]
<1>1. HeldWell(c, section.pid, h)
  BY BeforeStep, HoldingFacts DEF ParseMhAit
<1>2. /\ HasRoom(c) /\ active' = ActiveHolding(c, section.pid) /\ selected' = selected
      /\ contexts' = With(c, h) \/ contexts' = With(c, new)
  BY DEF ParseMhAit
<1> HIDE DEF h
<1>3. WellSectioned(c, result.staged) /\ WellSectioned(c, result.committed)
  BY <1>1, StageSectioned DEF HeldWell, ContextWell
<1> HIDE DEF result
<1>4. CASE contexts' = With(c, h)
  <2>1. Moves(c, h)
    BY <1>1, <1>2, <1>4 DEF HeldWell, SplitCount, Moves
  <2> QED
    BY <1>1, <2>1 DEF HeldWell, Carries
<1>5. CASE contexts' = With(c, new)
  <2>1. PICK sig, t, d, m, s, k :
          h = [signalling |-> sig, tracks |-> t, data |-> d, mpt |-> m, staged |-> s,
               committed |-> k]
    BY <1>1 DEF HeldWell, ContextWell, Fielded
  <2>2. new = [signalling |-> sig, tracks |-> t, data |-> d, mpt |-> m,
               staged |-> result.staged, committed |-> result.committed]
    <3>1. new = [h EXCEPT !.staged = result.staged, !.committed = result.committed]
      OBVIOUS
    <3> HIDE DEF new
    <3> QED
      BY <2>1, <3>1
  <2> HIDE DEF new
  <2>3. ContextWell(c, new)
    BY <1>1, <1>3, <2>1, <2>2 DEF HeldWell, ContextWell, Fielded
  <2>4. SameRouting(Context(c), new) /\ GoesOn(Context(c), new)
    BY <1>1, <2>1, <2>2 DEF HeldWell, SameRouting, GoesOn, Roles
  <2>5. StatesOf(new) = StatesOf(h)
    BY <2>1, <2>2, RoleStatesAre DEF StatesOf
  <2>6. Moves(c, new)
    BY <1>1, <1>2, <1>5, <2>3, <2>5 DEF HeldWell, SplitCount, Moves
  <2> QED
    BY <2>4, <2>6 DEF Carries
<1> QED
  BY <1>2, <1>4, <1>5


LEMMA BegunFacts ==
  ASSUME NEW states \in StateMaps, NEW pid \in DOMAIN states
  PROVE  LET begun == [states EXCEPT ![pid].begun = TRUE] IN
         /\ begun \in StateMaps /\ DOMAIN begun = DOMAIN states
         /\ \A x \in DOMAIN states : /\ begun[x].asset = states[x].asset
                                     /\ states[x].begun => begun[x].begun
<1> DEFINE begun == [states EXCEPT ![pid].begun = TRUE]
<1>1. /\ states = [x \in DOMAIN states |-> states[x]]
      /\ DOMAIN states \subseteq MediaPids
      /\ \A x \in DOMAIN states : states[x] \in States
  BY StateMap
<1>2. /\ DOMAIN begun = DOMAIN states
      /\ \A x \in DOMAIN states :
           begun[x] = IF x = pid THEN [states[pid] EXCEPT !.begun = TRUE] ELSE states[x]
      /\ begun = [x \in DOMAIN begun |-> begun[x]]
  BY <1>1
<1> HIDE DEF begun
<1>3. \A x \in DOMAIN states : /\ begun[x] \in States /\ begun[x].asset = states[x].asset
                               /\ states[x].begun => begun[x].begun
  BY <1>1, <1>2 DEF States
<1>4. begun \in StateMaps
  BY <1>1, <1>2, <1>3, StateMap
<1> QED
  BY <1>2, <1>3, <1>4 DEF begun

LEMMA MpuCarries ==
  ASSUME ParserInv, NEW c, NEW pid, ParseMpu(c, pid)
  PROVE  Carries(c)
<1> DEFINE old == Context(c)
           asData  == [old EXCEPT !.data[pid].begun = TRUE]
           asTrack == [old EXCEPT !.tracks[pid].begun = TRUE]
           new == IF pid \in DOMAIN old.data THEN asData
                  ELSE IF pid \in DOMAIN old.tracks THEN asTrack ELSE old
<1>1. /\ HasRoom(c) /\ active' = active /\ selected' = selected
      /\ contexts' = With(c, new)
  BY DEF ParseMpu
<1>2. CountedAt(c) /\ ContextWell(c, old) /\ active <= MaxPacketStates
  BY BeforeStep
<1> HIDE DEF old
<1>3. PICK sig, t, d, m, s, k :
        old = [signalling |-> sig, tracks |-> t, data |-> d, mpt |-> m, staged |-> s,
               committed |-> k]
  BY <1>2 DEF ContextWell, Fielded
<1>4. t \in StateMaps /\ d \in StateMaps /\ t = old.tracks /\ d = old.data
  BY <1>2, <1>3 DEF ContextWell
<1> DEFINE Kept(n) == /\ ContextWell(c, n) /\ SameRouting(old, n) /\ GoesOn(old, n)
                      /\ StatesOf(n) = StatesOf(old)
<1>5. Kept(new)
  <2>1. CASE pid \in DOMAIN old.data
    <3> DEFINE b == [d EXCEPT ![pid].begun = TRUE]
    <3>1. /\ b \in StateMaps /\ DOMAIN b = DOMAIN d
          /\ \A x \in DOMAIN d : b[x].asset = d[x].asset /\ (d[x].begun => b[x].begun)
      BY <1>4, <2>1, BegunFacts
    <3>2. asData = [signalling |-> sig, tracks |-> t, data |-> b, mpt |-> m,
                    staged |-> s, committed |-> k]
      <4>1. asData = [old EXCEPT !.data = [old.data EXCEPT ![pid].begun = TRUE]]
        OBVIOUS
      <4>2. asData = [old EXCEPT !.data = b]
        BY <1>4, <4>1
      <4> HIDE DEF b, asData
      <4> QED
        BY <1>3, <4>2
    <3> HIDE DEF b, asData
    <3>3. new = asData
      BY <2>1
    <3> HIDE DEF new
    <3>4. ContextWell(c, new)
      BY <1>2, <1>3, <3>1, <3>2, <3>3 DEF ContextWell, Fielded
    <3>5. SameRouting(old, new) /\ GoesOn(old, new)
      BY <1>3, <3>1, <3>2, <3>3 DEF SameRouting, GoesOn, Roles
    <3>6. StatesOf(new) = StatesOf(old)
      BY <1>3, <3>1, <3>2, <3>3, RoleStatesAre DEF StatesOf
    <3> QED
      BY <3>4, <3>5, <3>6
  <2>2. CASE pid \notin DOMAIN old.data /\ pid \in DOMAIN old.tracks
    <3> DEFINE b == [t EXCEPT ![pid].begun = TRUE]
    <3>1. /\ b \in StateMaps /\ DOMAIN b = DOMAIN t
          /\ \A x \in DOMAIN t : b[x].asset = t[x].asset /\ (t[x].begun => b[x].begun)
      BY <1>4, <2>2, BegunFacts
    <3>2. asTrack = [signalling |-> sig, tracks |-> b, data |-> d, mpt |-> m,
                     staged |-> s, committed |-> k]
      <4>1. asTrack = [old EXCEPT !.tracks = [old.tracks EXCEPT ![pid].begun = TRUE]]
        OBVIOUS
      <4>2. asTrack = [old EXCEPT !.tracks = b]
        BY <1>4, <4>1
      <4> HIDE DEF b, asTrack
      <4> QED
        BY <1>3, <4>2
    <3> HIDE DEF b, asTrack
    <3>3. new = asTrack
      BY <2>2
    <3> HIDE DEF new
    <3>4. ContextWell(c, new)
      BY <1>2, <1>3, <3>1, <3>2, <3>3 DEF ContextWell, Fielded
    <3>5. SameRouting(old, new) /\ GoesOn(old, new)
      BY <1>3, <3>1, <3>2, <3>3 DEF SameRouting, GoesOn, Roles
    <3>6. StatesOf(new) = StatesOf(old)
      BY <1>3, <3>1, <3>2, <3>3, RoleStatesAre DEF StatesOf
    <3> QED
      BY <3>4, <3>5, <3>6
  <2>3. CASE pid \notin DOMAIN old.data /\ pid \notin DOMAIN old.tracks
    <3>1. new = old
      BY <2>3
    <3> HIDE DEF new
    <3> QED
      BY <1>2, <3>1 DEF SameRouting, GoesOn
  <2> QED
    BY <2>1, <2>2, <2>3
<1> HIDE DEF new
<1>6. Moves(c, new)
  BY <1>1, <1>2, <1>5 DEF Moves, CountedAt, old
<1> QED
  BY <1>5, <1>6 DEF Carries, old

(* What a table makes of its context.                                      *)
Rerouted(c, table, new) ==
  /\ Moves(c, new)
  /\ new.mpt = table
  /\ DOMAIN new.tracks \subseteq PacketIds(table.tracks)
  /\ DOMAIN new.data \subseteq PacketIds(table.data)
  /\ active' = MaxPacketStates \/ AllListed(new)
  /\ \A role \in Roles : \A pid \in DOMAIN new[role] :
       Once(table, pid) => Continues(Context(c)[role], new[role], pid)

(* What the Demuxer is told of it.                                         *)
SnapshotOf(c, table, new) ==
  [context  |-> c, version |-> table.version, services |-> table.services,
   tracks   |-> Installed(new.tracks, table.tracks),
   data     |-> Installed(new.data, table.data)]

LEMMA MptReroutes ==
  ASSUME ParserInv, NEW c \in Contexts, NEW table \in Tables[c], ParseMpt(c, table)
  PROVE  \E new : /\ Rerouted(c, table, new)
                  /\ view' = MptSnapshot(view, SnapshotOf(c, table, new))
<1> DEFINE h == Holding(c, MptPid)
           p == [active |-> ActiveHolding(c, MptPid), tracks |-> h.tracks, data |-> h.data]
           q == Routed(p, table)
           new == [h EXCEPT !.tracks = q.tracks, !.data = q.data, !.mpt = table]
           K == Cardinality(OtherStates(c)) + Cardinality(h.signalling)
<1>1. HeldWell(c, MptPid, h) /\ Cardinality(OtherStates(c)) \in Nat
  BY BeforeStep, HoldingFacts DEF ParseMpt, CountedAt
<1>2. /\ HasRoom(c) /\ contexts' = With(c, new) /\ active' = q.active /\ selected' = selected
      /\ view' = MptSnapshot(view, [context  |-> c, version |-> table.version,
                   services |-> table.services,
                   tracks   |-> Installed(q.tracks, table.tracks),
                   data     |-> Installed(q.data, table.data)])
  BY DEF ParseMpt
<1> HIDE DEF h
<1>3. table.tracks \in Seq(Entries) /\ table.data \in Seq(Entries)
  BY TablesAssumption DEF Entries
<1>4. K \in Nat /\ Sound(p, K)
  <2>1. /\ h.tracks \in StateMaps /\ h.data \in StateMaps
        /\ DOMAIN h.tracks \cap DOMAIN h.data = {}
        /\ SplitCount(h)
        /\ ActiveHolding(c, MptPid) = Cardinality(OtherStates(c)) + Cardinality(StatesOf(h))
        /\ ActiveHolding(c, MptPid) <= MaxPacketStates
    BY <1>1 DEF HeldWell, ContextWell
  <2>2. RoleStates(p) = RoleStates(h)
    BY RoleStatesAre
  <2>3. ActiveHolding(c, MptPid) \in Nat /\ K \in Nat
        /\ ActiveHolding(c, MptPid) = K + Cardinality(RoleStates(p))
    BY <1>1, <2>1, <2>2 DEF SplitCount
  <2> QED
    BY <2>1, <2>2, <2>3 DEF Sound, Sides, SplitCount
<1>5. p.tracks = Context(c).tracks /\ p.data = Context(c).data
  BY <1>1 DEF HeldWell
<1> HIDE DEF p, K
<1>6. AfterTable(p, q, table, K)
  BY <1>3, <1>4, RoutedFacts
<1> HIDE DEF q
<1>7. /\ q \in Sides /\ IsFiniteSet(RoleStates(q)) /\ q.active = K + Cardinality(RoleStates(q))
      /\ q.active <= MaxPacketStates /\ DOMAIN q.tracks \cap DOMAIN q.data = {}
  BY <1>6 DEF AfterTable, Sound
<1>8. PICK sig, t, d, m, s, k :
        h = [signalling |-> sig, tracks |-> t, data |-> d, mpt |-> m, staged |-> s,
             committed |-> k]
  BY <1>1 DEF HeldWell, ContextWell, Fielded
<1>9. new = [h EXCEPT !.tracks = q.tracks, !.data = q.data, !.mpt = table]
  OBVIOUS
<1> HIDE DEF new
<1>10. new = [signalling |-> sig, tracks |-> q.tracks, data |-> q.data, mpt |-> table,
              staged |-> s, committed |-> k]
  BY <1>8, <1>9
<1>11. ContextWell(c, new)
  BY <1>1, <1>7, <1>8, <1>10 DEF HeldWell, ContextWell, Fielded, Sides
<1>12. RoleStates(new) = RoleStates(q) /\ new.signalling = h.signalling
  BY <1>8, <1>10, RoleStatesAre
<1>13. SplitCount(new)
  BY <1>1, <1>7, <1>12, Joined DEF HeldWell
<1>14. Moves(c, new)
  <2>1. Cardinality(StatesOf(new)) = Cardinality(h.signalling) + Cardinality(RoleStates(q))
        /\ Cardinality(h.signalling) \in Nat /\ Cardinality(RoleStates(q)) \in Nat
        /\ IsFiniteSet(StatesOf(new))
    BY <1>12, <1>13 DEF SplitCount
  <2>2. active' = Cardinality(OtherStates(c)) + Cardinality(StatesOf(new))
    BY <1>1, <1>2, <1>7, <2>1 DEF K
  <2> QED
    BY <1>2, <1>7, <1>11, <2>1, <2>2 DEF Moves
<1>15. new.tracks = q.tracks /\ new.data = q.data /\ new.mpt = table
  BY <1>10
<1>16. /\ DOMAIN new.tracks \subseteq PacketIds(table.tracks)
       /\ DOMAIN new.data \subseteq PacketIds(table.data)
  BY <1>6, <1>15 DEF AfterTable
<1>17. active' = MaxPacketStates \/ AllListed(new)
  BY <1>2, <1>6, <1>15, <1>16 DEF AfterTable, AllListed, Decoded
<1>18. \A role \in Roles : \A pid \in DOMAIN new[role] :
         Once(table, pid) => Continues(Context(c)[role], new[role], pid)
  <2>1. \A role \in Roles : new[role] = q[role] /\ p[role] = Context(c)[role]
    BY <1>5, <1>15 DEF Roles
  <2> QED
    BY <1>6, <2>1 DEF AfterTable
<1>19. Rerouted(c, table, new)
  BY <1>14, <1>15, <1>16, <1>17, <1>18 DEF Rerouted
<1>20. view' = MptSnapshot(view, SnapshotOf(c, table, new))
  BY <1>2, <1>15 DEF SnapshotOf
<1> QED
  BY <1>19, <1>20

(***************************************************************************)
(* flush gives exactly the signalling states back.                         *)
(***************************************************************************)
LEMMA EndedFacts ==
  ASSUME NEW states \in StateMaps
  PROVE  /\ Ended(states) \in StateMaps
         /\ DOMAIN Ended(states) = DOMAIN states
         /\ \A pid \in DOMAIN states : Ended(states)[pid].asset = states[pid].asset
<1> DEFINE ended == Ended(states)
<1>1. /\ DOMAIN states \subseteq MediaPids
      /\ \A x \in DOMAIN states : states[x] \in States
  BY StateMap
<1>2. /\ DOMAIN ended = DOMAIN states
      /\ \A x \in DOMAIN states : ended[x] = [states[x] EXCEPT !.begun = FALSE]
      /\ ended = [x \in DOMAIN ended |-> ended[x]]
  BY DEF Ended
<1> HIDE DEF ended
<1>3. \A x \in DOMAIN states : ended[x] \in States /\ ended[x].asset = states[x].asset
  BY <1>1, <1>2 DEF States
<1>4. ended \in StateMaps
  BY <1>1, <1>2, <1>3, StateMap
<1> QED
  BY <1>2, <1>3, <1>4 DEF ended

(* A context after a flush.                                                *)
Flushed(context) ==
  [context EXCEPT !.signalling = {}, !.tracks = Ended(@), !.data = Ended(@)]

FlushedWell(c, old, new) ==
  /\ ContextWell(c, new) /\ SameRouting(old, new) /\ new.signalling = {}
  /\ RoleStates(new) = RoleStates(old)

LEMMA FlushedFacts ==
  ASSUME NEW c, NEW old, ContextWell(c, old)
  PROVE  FlushedWell(c, old, Flushed(old))
<1> DEFINE new == Flushed(old)
           t == Ended(old.tracks)
           d == Ended(old.data)
<1>1. new = [old EXCEPT !.signalling = {}, !.tracks = t, !.data = d]
  BY DEF Flushed
<1>2. /\ t \in StateMaps /\ DOMAIN t = DOMAIN old.tracks
      /\ \A pid \in DOMAIN old.tracks : t[pid].asset = old.tracks[pid].asset
      /\ d \in StateMaps /\ DOMAIN d = DOMAIN old.data
      /\ \A pid \in DOMAIN old.data : d[pid].asset = old.data[pid].asset
  BY EndedFacts DEF ContextWell
<1> HIDE DEF new, t, d
<1>3. new = [signalling |-> {}, tracks |-> t, data |-> d, mpt |-> old.mpt,
             staged |-> old.staged, committed |-> old.committed]
  <2>1. PICK sig, tt, dd, m, s, k :
          old = [signalling |-> sig, tracks |-> tt, data |-> dd, mpt |-> m, staged |-> s,
                 committed |-> k]
    BY DEF ContextWell, Fielded
  <2> QED
    BY <1>1, <2>1
<1>4. ContextWell(c, new)
  BY <1>2, <1>3 DEF ContextWell, Fielded
<1>5. SameRouting(old, new)
  BY <1>2, <1>3 DEF SameRouting, Roles
<1>6. RoleStates(new) = RoleStates(old)
  BY <1>2, <1>3, RoleStatesAre
<1>7. FlushedWell(c, old, new)
  BY <1>3, <1>4, <1>5, <1>6 DEF FlushedWell
<1> QED
  BY <1>7 DEF new

LEMMA FlushedContexts ==
  ASSUME ContextsWell, Flush
  PROVE  /\ DOMAIN contexts' = DOMAIN contexts
         /\ \A c \in DOMAIN contexts : FlushedWell(c, contexts[c], contexts'[c])
<1>1. contexts' = [c \in DOMAIN contexts |-> Flushed(contexts[c])]
  BY DEF Flush, Flushed
<1> QED
  BY <1>1, FlushedFacts DEF ContextsWell

LEMMA FlushKeeps == ParserInv /\ Flush => ParserInv'
<1> SUFFICES ASSUME ParserInv, Flush PROVE ParserInv'
  OBVIOUS
<1>1. /\ DOMAIN contexts' = DOMAIN contexts
      /\ \A c \in DOMAIN contexts : FlushedWell(c, contexts[c], contexts'[c])
  BY FlushedContexts DEF ParserInv
<1>2. ContextsWell'
  BY <1>1 DEF FlushedWell, ContextsWell, ParserInv
<1>3. \A c \in DOMAIN contexts : StatesOf(contexts'[c]) = RoleStates(contexts[c])
  BY <1>1 DEF FlushedWell, StatesOf
<1>4. PacketStates' = UNION {{c} \X RoleStates(contexts[c]) : c \in DOMAIN contexts}
  BY <1>1, <1>3 DEF PacketStates, StatesOf
<1>5. SignallingStates \subseteq PacketStates
  BY DEF SignallingStates, PacketStates, StatesOf
<1>6. PacketStates' = PacketStates \ SignallingStates
  <2>1. ASSUME NEW c, NEW x
        PROVE  /\ x \in StatesOf(contexts[c]) <=>
                    x \in {"signalling"} \X contexts[c].signalling \/ x \in RoleStates(contexts[c])
               /\ ~(x \in {"signalling"} \X contexts[c].signalling /\ x \in RoleStates(contexts[c]))
    BY SignallingApart DEF StatesOf
  <2>2. \A c, x : << c, x >> \in PacketStates
                    <=> c \in DOMAIN contexts /\ x \in StatesOf(contexts[c])
    BY DEF PacketStates
  <2>3. \A c, x : << c, x >> \in SignallingStates
                    <=> c \in DOMAIN contexts /\ x \in {"signalling"} \X contexts[c].signalling
    BY DEF SignallingStates
  <2>4. \A c, x : << c, x >> \in PacketStates'
                    <=> c \in DOMAIN contexts /\ x \in RoleStates(contexts[c])
    BY <1>4
  <2>5. \A c, x : << c, x >> \in PacketStates'
                    <=> << c, x >> \in PacketStates \ SignallingStates
    BY <2>1, <2>2, <2>3, <2>4
  <2>6. \A y : y \in PacketStates' => y = << y[1], y[2] >>
    BY <1>4
  <2>7. \A y : y \in PacketStates => y = << y[1], y[2] >>
    BY DEF PacketStates
  <2> HIDE DEF PacketStates, SignallingStates
  <2> QED
    BY <2>5, <2>6, <2>7
<1>7. Counted'
  <2> DEFINE S == PacketStates
             U == SignallingStates
  <2>1. IsFiniteSet(S) /\ U \subseteq S /\ active = Cardinality(S)
    BY <1>5 DEF ParserInv, Counted
  <2> HIDE DEF S, U
  <2>2. IsFiniteSet(U) /\ IsFiniteSet(S \ U) /\ S \cap U = U
    BY <2>1, FS_Subset, FS_Difference
  <2>3. Cardinality(S \ U) = Cardinality(S) - Cardinality(U)
    BY <2>1, <2>2, FS_Difference
  <2>4. /\ Cardinality(S) \in Nat /\ Cardinality(U) \in Nat /\ Cardinality(S \ U) \in Nat
    BY <2>1, <2>2, FS_CardinalityType
  <2>5. active' = Released(active, Cardinality(U))
    BY DEF Flush, U
  <2>6. active' = Cardinality(S \ U)
    BY <2>1, <2>3, <2>4, <2>5 DEF Released
  <2> QED
    BY <1>6, <2>2, <2>6 DEF Counted, S, U
<1>8. active' <= MaxPacketStates
  <2> DEFINE n == Cardinality(SignallingStates)
  <2>1. active \in Nat /\ n \in Nat
    BY <1>5, FS_Subset, FS_CardinalityType DEF ParserInv, Counted
  <2>2. active' = Released(active, n)
    BY DEF Flush
  <2> HIDE DEF n
  <2>3. active' \in Nat /\ active' <= active
    BY <2>1, <2>2 DEF Released
  <2> QED
    BY <2>1, <2>3, MaxPacketStatesAssumption DEF ParserInv
<1>9. selected' = selected
  BY DEF Flush
<1> QED
  BY <1>1, <1>2, <1>7, <1>8, <1>9 DEF ParserInv

LEMMA NoContexts ==
  ASSUME contexts' = EmptyFunction, active' = 0, selected' \in Contexts \cup {NoService}
  PROVE  ParserInv'
<1>1. DOMAIN contexts' = {}
  BY DEF EmptyFunction
<1>2. PacketStates' = {}
  BY <1>1 DEF PacketStates
<1>3. IsFiniteSet({}) /\ Cardinality({}) = 0
  BY FS_EmptySet
<1> QED
  BY <1>1, <1>2, <1>3, ContextsAssumption, MaxPacketStatesAssumption
  DEF ParserInv, ContextsWell, Counted

LEMMA InitParser == Init => ParserInv
<1> SUFFICES ASSUME Init PROVE ParserInv
  OBVIOUS
<1>1. DOMAIN contexts = {} /\ active = 0 /\ selected = NoService
  BY DEF Init, EmptyFunction
<1>2. PacketStates = {}
  BY <1>1 DEF PacketStates
<1>3. IsFiniteSet({}) /\ Cardinality({}) = 0
  BY FS_EmptySet
<1> QED
  BY <1>1, <1>2, <1>3, ContextsAssumption, MaxPacketStatesAssumption
  DEF ParserInv, ContextsWell, Counted

(***************************************************************************)
(* The steps, by what they do.  What view' is in the first, the lemmas on  *)
(* snapshots need; an MH-AIT may be all that changes.                      *)
(***************************************************************************)
CarryingStep ==
  \E c \in Contexts :
    /\ Carries(c)
    /\ \/ view' = view
       \/ \E section, apps : view' = MhAitSnapshot(view, c, section, apps)

ReroutingStep ==
  \E c \in Contexts : \E table \in Tables[c] : \E new :
    /\ Rerouted(c, table, new)
    /\ view' = MptSnapshot(view, SnapshotOf(c, table, new))

DroppingStep ==
  /\ contexts' = EmptyFunction /\ active' = 0
  /\ selected' \in Contexts \cup {NoService}
  /\ view' \in {view, EmptyView}

ClearingStep == UNCHANGED << selected, contexts, active >> /\ view' = EmptyView

LEMMA Steps ==
  ASSUME ParserInv, Inv, [Next]_vars
  PROVE  \/ CarryingStep \/ ReroutingStep \/ Flush \/ DroppingStep \/ ClearingStep
         \/ UNCHANGED vars
<1>1. ASSUME NEW c \in Contexts, NEW pid, RefuseSignalling(c, pid) \/ OtherMessage(c, pid)
      PROVE  CarryingStep
  <2>1. view' = view
    BY <1>1 DEF RefuseSignalling, OtherMessage
  <2> QED
    BY <1>1, <2>1, RefuseCarries, OtherCarries DEF CarryingStep
<1>2. ASSUME NEW c \in Contexts, NEW pid, ParseMpu(c, pid) PROVE CarryingStep
  <2>1. view' = view
    BY <1>2 DEF ParseMpu
  <2> QED
    BY <1>2, <2>1, MpuCarries DEF CarryingStep
<1>3. ASSUME NEW c \in Contexts, NEW section \in Sections[c], ParseMhAit(c, section)
      PROVE  CarryingStep
  <2>1. Carries(c)
    BY <1>3, MhAitCarries
  <2>2. view' = view \/ \E apps : view' = MhAitSnapshot(view, c, section, apps)
    BY <1>3, MhAitHanded DEF Inv
  <2> QED
    BY <2>1, <2>2 DEF CarryingStep
<1>4. ASSUME NEW c \in Contexts, NEW table \in Tables[c], ParseMpt(c, table)
      PROVE  ReroutingStep
  BY <1>4, MptReroutes DEF ReroutingStep
<1>5. selected \in Contexts \cup {NoService}
  BY DEF ParserInv
<1>6. CASE DropContexts \/ Reset
  BY <1>5, <1>6 DEF DropContexts, Reset, DroppingStep
<1>7. ASSUME NEW c \in Selections, SelectService(c) PROVE DroppingStep \/ ClearingStep
  <2>1. CASE c = selected
    BY <1>7, <2>1 DEF SelectService, ClearingStep
  <2>2. CASE c # selected
    BY <1>7, <2>2, ContextsAssumption DEF SelectService, DroppingStep
  <2> QED
    BY <2>1, <2>2
<1> QED
  BY <1>1, <1>2, <1>3, <1>4, <1>6, <1>7 DEF Next

LEMMA StepParser == ParserInv /\ Inv /\ [Next]_vars => ParserInv'
<1> SUFFICES ASSUME ParserInv, Inv, [Next]_vars PROVE ParserInv'
  OBVIOUS
<1>1. CASE CarryingStep
  BY <1>1, MovesKeep DEF CarryingStep, Carries
<1>2. CASE ReroutingStep
  BY <1>2, MovesKeep DEF ReroutingStep, Rerouted
<1>3. CASE Flush
  BY <1>3, FlushKeeps
<1>4. CASE DroppingStep
  BY <1>4, NoContexts DEF DroppingStep
<1>5. CASE UNCHANGED << selected, contexts, active >>
  BY <1>5 DEF ParserInv, ContextsWell, Counted, PacketStates
<1> QED
  BY <1>1, <1>2, <1>3, <1>4, <1>5, Steps DEF ClearingStep, vars

(***************************************************************************)
(* The tables the Demuxer holds are of contexts there are.                 *)
(***************************************************************************)
Known == DOMAIN view.mpts \subseteq Contexts

LEMMA StepKnown == ParserInv /\ Inv /\ Known /\ [Next]_vars => Known'
<1> SUFFICES ASSUME ParserInv, Inv, Known, [Next]_vars PROVE Known'
  OBVIOUS
<1>1. ViewFields(view)
  BY DEF Inv, ShowsWhole
<1>2. CASE CarryingStep
  <2>1. view' = view \/ \E c, section, apps : view' = MhAitSnapshot(view, c, section, apps)
    BY <1>2 DEF CarryingStep
  <2>2. \A c, section, apps : MhAitSnapshot(view, c, section, apps).mpts = view.mpts
    <3> TAKE c, section, apps
    <3> DEFINE w   == MhAitSnapshot(view, c, section, apps)
               key == << c, section.pid, section.type >>
    <3>1. /\ ViewFields(w)
          /\ w.mpts = view.mpts
          /\ w.sink.tracks = view.sink.tracks
          /\ DOMAIN w.sink.applications
               \subseteq DOMAIN view.sink.applications \cup ApplicationKeys(key, apps)
          /\ w.aits = view.aits \/ (section.next /\ w.aits = Put(view.aits, key, apps))
          /\ Backed(view) => Backed(w)
      BY <1>1, MhAitKeeps, Zenon
    <3> QED
      BY <3>1
  <2>3. view'.mpts = view.mpts
    BY <2>1, <2>2
  <2> QED
    BY <2>3 DEF Known
<1>3. CASE ReroutingStep
  <2>1. PICK c \in Contexts : \E table, new :
          view' = MptSnapshot(view, SnapshotOf(c, table, new))
    BY <1>3 DEF ReroutingStep
  <2>2. PICK snapshot : snapshot.context = c /\ view' = MptSnapshot(view, snapshot)
    BY <2>1 DEF SnapshotOf
  <2>3. DOMAIN view'.mpts \subseteq {c} \cup DOMAIN view.mpts
    BY <1>1, <2>2, MptKeeps
  <2> QED
    BY <2>3 DEF Known
<1>4. CASE view' = view
  BY <1>4 DEF Known
<1>5. CASE view' = EmptyView
  BY <1>5 DEF Known, EmptyView, EmptyFunction
<1> QED
  BY <1>2, <1>3, <1>4, <1>5, Steps DEF Flush, DroppingStep, ClearingStep, vars

LEMMA RangeSectioned ==
  ASSUME NEW c, NEW f, WellSectioned(c, f)
  PROVE  UNION Range(f) \subseteq Sections[c]
BY DEF WellSectioned, Range

(***************************************************************************)
(* The limits hold and the budget is exact: active_packet_states_ is the   *)
(* number of packet states there are, over all contexts, whatever MPTs     *)
(* retire, move and refuse and whatever is flushed or dropped.             *)
(***************************************************************************)
THEOREM TypesKept == Spec => []TypeOK
<1>1. Init => Known
  BY DEF Init, Known, EmptyView, EmptyFunction
<1>2. ASSUME ParserInv, Known PROVE TypeOK
  <2>1. /\ active = Cardinality(PacketStates) /\ IsFiniteSet(PacketStates)
        /\ active <= MaxPacketStates
    BY <1>2 DEF ParserInv, Counted
  <2>2. active \in 0 .. MaxPacketStates
    BY <2>1, FS_CardinalityType, MaxPacketStatesAssumption
  <2>3. ASSUME NEW c \in DOMAIN contexts
        PROVE  /\ c \in Contexts
               /\ contexts[c].mpt \in Tables[c] \cup {NoTable}
               /\ DOMAIN contexts[c].tracks \cup DOMAIN contexts[c].data \subseteq MediaPids
               /\ (UNION Range(contexts[c].staged)) \cup (UNION Range(contexts[c].committed))
                    \subseteq Sections[c]
    <3>1. c \in Contexts /\ ContextWell(c, contexts[c])
      BY <1>2 DEF ParserInv, ContextsWell
    <3>2. DOMAIN contexts[c].tracks \subseteq MediaPids /\ DOMAIN contexts[c].data \subseteq MediaPids
      BY <3>1, StateMap DEF ContextWell
    <3>3. /\ UNION Range(contexts[c].staged) \subseteq Sections[c]
          /\ UNION Range(contexts[c].committed) \subseteq Sections[c]
      BY <3>1, RangeSectioned DEF ContextWell
    <3> QED
      BY <3>1, <3>2, <3>3 DEF ContextWell
  <2> QED
    BY <1>2, <2>1, <2>2, <2>3 DEF TypeOK, ParserInv, Known
<1> QED
  BY <1>1, <1>2, InitInv, InitParser, StepInv, StepParser, StepKnown, PTL DEF Spec

-----------------------------------------------------------------------------
(* What a step makes of a context, given what it makes of the routing.     *)
LEMMA SameRoutingSame ==
  ASSUME NEW old, NEW new, SameRouting(old, new)
  PROVE  Routing(new) = Routing(old)
BY DEF SameRouting, Routing, Roles

LEMMA StaysPut ==
  ASSUME NEW c \in DOMAIN contexts', SameRouting(Context(c), contexts'[c]),
         GoesOn(Context(c), contexts'[c]) \/ contexts'[c].signalling = {}
  PROVE  /\ c \in DOMAIN contexts => UnitsGoOn(c)
         /\ RoomIsUsed(c)
<1>1. Routing(contexts'[c]) = Routing(Context(c))
  BY SameRoutingSame
<1>2. RoomIsUsed(c)
  BY <1>1 DEF RoomIsUsed
<1>3. ASSUME c \in DOMAIN contexts,
             NEW role \in Roles, NEW pid \in DOMAIN contexts'[c][role]
      PROVE  LET before == contexts[c][role]
                 after  == contexts'[c][role]
             IN /\ pid \in DOMAIN before /\ before[pid].asset = after[pid].asset
                /\ before[pid].begun => after[pid].begun \/ contexts'[c].signalling = {}
  <2>1. Context(c) = contexts[c]
    BY <1>3 DEF Context
  <2>2. /\ pid \in DOMAIN contexts[c][role]
        /\ contexts'[c][role][pid].asset = contexts[c][role][pid].asset
    BY <1>3, <2>1 DEF SameRouting
  <2>3. contexts[c][role][pid].begun =>
          contexts'[c][role][pid].begun \/ contexts'[c].signalling = {}
    BY <2>1, <2>2 DEF GoesOn
  <2> QED
    BY <2>2, <2>3
<1>4. c \in DOMAIN contexts => UnitsGoOn(c)
  BY <1>3 DEF UnitsGoOn
<1> QED
  BY <1>2, <1>4

LEMMA Untouched ==
  ASSUME NEW c \in DOMAIN contexts', c \in DOMAIN contexts, contexts'[c] = contexts[c]
  PROVE  UnitsGoOn(c) /\ RoomIsUsed(c)
<1>1. Context(c) = contexts'[c]
  BY DEF Context
<1>2. SameRouting(Context(c), contexts'[c]) /\ GoesOn(Context(c), contexts'[c])
  BY <1>1 DEF SameRouting, GoesOn
<1> QED
  BY <1>2, StaysPut

LEMMA MovedContexts ==
  ASSUME NEW c, NEW new, Moves(c, new)
  PROVE  /\ DOMAIN contexts' = DOMAIN contexts \cup {c}
         /\ contexts'[c] = new
         /\ \A d \in DOMAIN contexts \ {c} : contexts'[d] = contexts[d]
BY DEF Moves, With, Put, Over

LEMMA ReroutedUnits ==
  ASSUME NEW c, NEW table, NEW new, Rerouted(c, table, new)
  PROVE  /\ c \in DOMAIN contexts => UnitsGoOn(c)
         /\ RoomIsUsed(c)
<1>1. contexts'[c] = new
  BY MovedContexts DEF Rerouted
<1>2. RoomIsUsed(c)
  BY <1>1 DEF RoomIsUsed, Rerouted
<1>3. ASSUME c \in DOMAIN contexts PROVE UnitsGoOn(c)
  <2>1. Context(c) = contexts[c]
    BY <1>3 DEF Context
  <2>2. \A role \in Roles : \A pid \in DOMAIN new[role] :
          Once(table, pid) => Continues(contexts[c][role], new[role], pid)
    BY <2>1 DEF Rerouted
  <2>3. new.mpt = table
    BY DEF Rerouted
  <2> QED
    BY <1>1, <2>2, <2>3 DEF UnitsGoOn, Continues
<1> QED
  BY <1>2, <1>3

LEMMA StepUnits == ParserInv /\ Inv /\ [Next]_vars => StepKeepsUnits
<1> SUFFICES ASSUME ParserInv, Inv, [Next]_vars, NEW c \in DOMAIN contexts'
             PROVE  /\ c \in DOMAIN contexts => UnitsGoOn(c)
                    /\ RoomIsUsed(c)
  BY DEF StepKeepsUnits
<1>1. CASE CarryingStep
  <2>1. PICK d \in Contexts : Carries(d)
    BY <1>1 DEF CarryingStep
  <2>2. PICK new : /\ Moves(d, new) /\ SameRouting(Context(d), new)
                   /\ GoesOn(Context(d), new)
    BY <2>1 DEF Carries
  <2>3. CASE c = d
    BY <2>2, <2>3, MovedContexts, StaysPut
  <2>4. CASE c # d
    BY <2>2, <2>4, MovedContexts, Untouched
  <2> QED
    BY <2>3, <2>4
<1>2. CASE ReroutingStep
  <2>1. PICK d \in Contexts : \E table, new : Rerouted(d, table, new)
    BY <1>2 DEF ReroutingStep
  <2>2. PICK table, new : Rerouted(d, table, new)
    BY <2>1
  <2>3. CASE c = d
    BY <2>2, <2>3, ReroutedUnits
  <2>4. CASE c # d
    <3>1. Moves(d, new)
      BY <2>2 DEF Rerouted
    <3> QED
      BY <2>4, <3>1, MovedContexts, Untouched
  <2> QED
    BY <2>3, <2>4
<1>3. CASE Flush
  <2>1. c \in DOMAIN contexts /\ FlushedWell(c, contexts[c], contexts'[c])
    BY <1>3, FlushedContexts DEF ParserInv
  <2>2. Context(c) = contexts[c]
    BY <2>1 DEF Context
  <2> QED
    BY <2>1, <2>2, StaysPut DEF FlushedWell
<1>4. CASE DroppingStep
  BY <1>4 DEF DroppingStep, EmptyFunction
<1>5. CASE UNCHANGED contexts
  BY <1>5, Untouched
<1> QED
  BY <1>1, <1>2, <1>3, <1>4, <1>5, Steps DEF ClearingStep, vars

(***************************************************************************)
(* parse_mpt moves, retires and refuses packet states while units are      *)
(* being put together: a table that repeats a packet id with its asset     *)
(* leaves the unit on it alone, one that gives it another asset or role    *)
(* leaves nothing of the old unit, and no entry is left out while there is *)
(* room.                                                                   *)
(***************************************************************************)
THEOREM UnitsKept == Spec => ReroutingKeepsUnits
<1>1. ParserInv /\ Inv /\ [Next]_vars => [StepKeepsUnits]_vars
  BY StepUnits
<1> QED
  BY <1>1, InitInv, InitParser, StepInv, StepParser, PTL DEF Spec, ReroutingKeepsUnits

-----------------------------------------------------------------------------
(* What the Demuxer holds and what it has told the sink are the same, and  *)
(* the applications are exactly those of the sub-tables.                   *)
Agrees(v) == v.sink.tracks = v.tracks /\ v.sink.applications = v.applications

Exact(v) ==
  \A k : k \in DOMAIN v.applications
           <=> k[1] \in DOMAIN v.aits /\ k \in ApplicationKeys(k[1], v.aits[k[1]])

Told(v) == ViewFields(v) /\ Agrees(v) /\ Exact(v)

(* The tracks held for a context are those of its last snapshot.           *)
TracksHeld(v, c) == {track \in v.tracks : track.context = c}

Snapshots(v) ==
  \A c \in DOMAIN v.mpts : v.mpts[c].context = c /\ TracksHeld(v, c) = TracksOf(v.mpts[c])

LEMMA ExactUnion ==
  ASSUME NEW v, Exact(v)
  PROVE  DOMAIN v.applications
           = UNION {ApplicationKeys(key, v.aits[key]) : key \in DOMAIN v.aits}
<1>1. ASSUME NEW key, NEW apps, NEW k \in ApplicationKeys(key, apps) PROVE k[1] = key
  BY DEF ApplicationKeys
<1>2. ASSUME NEW k \in DOMAIN v.applications
      PROVE  k \in UNION {ApplicationKeys(key, v.aits[key]) : key \in DOMAIN v.aits}
  BY DEF Exact
<1>3. ASSUME NEW key \in DOMAIN v.aits, NEW k \in ApplicationKeys(key, v.aits[key])
      PROVE  k \in DOMAIN v.applications
  BY <1>1, <1>3 DEF Exact
<1> QED
  BY <1>2, <1>3

LEMMA ForgetAgrees ==
  ASSUME NEW v, NEW gone, ViewFields(v), Agrees(v)
  PROVE  Agrees(Forget(v, gone)) /\ Forget(v, gone).tracks = v.tracks
<1>1. PICK mpts, tracks, aits, applications, told, shown :
        v = View(mpts, tracks, aits, applications, told, shown)
  BY DEF ViewFields
<1>2. told = tracks /\ shown = applications
  BY <1>1 DEF Agrees, View
<1> DEFINE held == Restrict(applications, DOMAIN applications \ gone)
<1>3. Forget(v, gone) = View(mpts, tracks, aits, held, tracks, held)
  BY <1>1, <1>2, ForgetIs
<1> HIDE DEF held
<1> QED
  BY <1>1, <1>3 DEF Agrees, View

LEMMA RetireTold ==
  ASSUME NEW v, NEW c, NEW pids, Told(v)
  PROVE  LET w == RetireSources(v, c, pids)
         IN  Told(w) /\ w.mpts = v.mpts /\ w.tracks = v.tracks
<1> DEFINE keys == {key \in DOMAIN v.aits : key[1] = c /\ key[2] \in pids}
           gone == UNION {ApplicationKeys(key, v.aits[key]) : key \in keys}
           kept == Restrict(v.aits, DOMAIN v.aits \ keys)
           f == Forget(v, gone)
           w == RetireSources(v, c, pids)
<1>1. w = [f EXCEPT !.aits = Restrict(@, DOMAIN @ \ keys)]
  BY DEF RetireSources
<1>2. DOMAIN kept = DOMAIN v.aits \ keys /\ \A key \in DOMAIN kept : kept[key] = v.aits[key]
  BY Restricted
<1>3. \A k : k[1] \in DOMAIN v.aits /\ k \in ApplicationKeys(k[1], v.aits[k[1]]) =>
               (k \in gone <=> k[1] \in keys)
  BY DEF ApplicationKeys
<1> HIDE DEF keys, gone
<1>4. /\ ViewFields(f) /\ f.mpts = v.mpts /\ f.aits = v.aits
      /\ DOMAIN f.applications = DOMAIN v.applications \ gone
      /\ Agrees(f) /\ f.tracks = v.tracks
  BY ForgetKeeps, ForgetAgrees DEF Told
<1> HIDE DEF f
<1>5. w = [f EXCEPT !.aits = kept]
  BY <1>1, <1>4
<1> HIDE DEF kept, w
<1>6. /\ ViewFields(w) /\ w.mpts = f.mpts /\ w.aits = kept /\ w.tracks = f.tracks
      /\ w.sink = f.sink /\ w.applications = f.applications
  BY <1>4, <1>5 DEF ViewFields, View
<1>7. Exact(w)
  <2> SUFFICES ASSUME NEW k
               PROVE  k \in DOMAIN v.applications \ gone
                        <=> k[1] \in DOMAIN kept /\ k \in ApplicationKeys(k[1], kept[k[1]])
    BY <1>4, <1>6 DEF Exact
  <2>1. k \in DOMAIN v.applications
          <=> k[1] \in DOMAIN v.aits /\ k \in ApplicationKeys(k[1], v.aits[k[1]])
    BY DEF Told, Exact
  <2> QED
    BY <1>2, <1>3, <2>1
<1>8. Told(w) /\ w.mpts = v.mpts /\ w.tracks = v.tracks
  BY <1>4, <1>6, <1>7 DEF Told, Agrees
<1> QED
  BY <1>8 DEF w

LEMMA CommitTold ==
  ASSUME NEW v, NEW snapshot, Told(v)
  PROVE  LET w == CommitTracks(v, snapshot)
         IN  /\ Told(w) /\ w.mpts = v.mpts
             /\ \A c : TracksHeld(w, c) = IF c = snapshot.context THEN TracksOf(snapshot)
                                          ELSE TracksHeld(v, c)
<1>1. PICK mpts, tracks, aits, applications, told, shown :
        v = View(mpts, tracks, aits, applications, told, shown)
  BY DEF Told, ViewFields
<1>2. told = tracks /\ shown = applications
  BY <1>1 DEF Told, Agrees, View
<1> DEFINE new == TracksOf(snapshot)
           held == {track \in tracks : track.context # snapshot.context} \cup new
           w == CommitTracks(v, snapshot)
<1>3. w = View(mpts, held, aits, applications, (tracks \ (tracks \ held)) \cup (new \ tracks),
               applications)
  BY <1>1, <1>2, CommitIs
<1>4. (tracks \ (tracks \ held)) \cup (new \ tracks) = held
  OBVIOUS
<1>5. w = View(mpts, held, aits, applications, held, applications)
  BY <1>3, <1>4
<1>6. \A track \in new : track.context = snapshot.context
  BY DEF TracksOf
<1>7. \A c : {track \in held : track.context = c}
               = IF c = snapshot.context THEN new ELSE {track \in tracks : track.context = c}
  BY <1>6
<1> HIDE DEF w, held, new
<1>8. /\ w.mpts = v.mpts /\ w.tracks = held /\ v.tracks = tracks
      /\ w.aits = v.aits /\ w.applications = v.applications
      /\ ViewFields(w) /\ Agrees(w)
  BY <1>1, <1>5 DEF View, ViewFields, Agrees
<1>9. Told(w)
  BY <1>8 DEF Told, Exact
<1>10. \A c : TracksHeld(w, c) = IF c = snapshot.context THEN new ELSE TracksHeld(v, c)
  BY <1>7, <1>8 DEF TracksHeld
<1> QED
  BY <1>8, <1>9, <1>10 DEF w, new

LEMMA MptTold ==
  ASSUME NEW v, NEW snapshot, Told(v), Snapshots(v)
  PROVE  LET w == MptSnapshot(v, snapshot)
         IN  Told(w) /\ Snapshots(w)
<1>1. CASE Unchanged(v, snapshot)
  BY <1>1 DEF MptSnapshot
<1>2. CASE ~Unchanged(v, snapshot)
  <2> DEFINE silenced == {service.ait : service \in DroppedServices(v, snapshot)} \ {NoPid}
             u == CommitTracks(v, snapshot)
             x == RetireSources(u, snapshot.context, silenced)
             mpts == Put(x.mpts, snapshot.context, snapshot)
             w == MptSnapshot(v, snapshot)
  <2>1. w = [x EXCEPT !.mpts = mpts]
    BY <1>2 DEF MptSnapshot
  <2> HIDE DEF silenced
  <2>2. /\ Told(u) /\ u.mpts = v.mpts
        /\ \A c : TracksHeld(u, c) = IF c = snapshot.context THEN TracksOf(snapshot)
                                     ELSE TracksHeld(v, c)
    BY CommitTold
  <2> HIDE DEF u
  <2>3. Told(x) /\ x.mpts = u.mpts /\ x.tracks = u.tracks
    BY <2>2, RetireTold
  <2>4. /\ DOMAIN mpts = {snapshot.context} \cup DOMAIN x.mpts
        /\ \A c \in DOMAIN mpts :
             mpts[c] = IF c = snapshot.context THEN snapshot ELSE x.mpts[c]
    BY DEF Put, Over
  <2> HIDE DEF x, mpts, w
  <2>5. /\ ViewFields(w) /\ w.mpts = mpts /\ w.tracks = x.tracks
        /\ w.sink = x.sink /\ w.aits = x.aits /\ w.applications = x.applications
    BY <2>1, <2>3 DEF Told, ViewFields, View
  <2>6. Told(w)
    BY <2>3, <2>5 DEF Told, Agrees, Exact
  <2>7. \A c : TracksHeld(w, c) = TracksHeld(u, c)
    BY <2>3, <2>5 DEF TracksHeld
  <2>8. Snapshots(w)
    BY <2>2, <2>3, <2>4, <2>5, <2>7 DEF Snapshots
  <2> QED
    BY <2>6, <2>8 DEF w
<1> QED
  BY <1>1, <1>2

LEMMA MhAitTold ==
  ASSUME NEW v, NEW c, NEW section, NEW apps, Told(v)
  PROVE  LET w == MhAitSnapshot(v, c, section, apps)
         IN  Told(w) /\ w.mpts = v.mpts /\ w.tracks = v.tracks
<1> DEFINE key == << c, section.pid, section.type >>
           gone == ApplicationKeys(key, At(v.aits, key)) \ ApplicationKeys(key, apps)
           u == Forget(v, gone)
           w == MhAitSnapshot(v, c, section, apps)
<1>1. CASE ~AcceptsMhAit(v, c, section.pid) \/ ~section.next
  BY <1>1 DEF MhAitSnapshot
<1>2. CASE ~(~AcceptsMhAit(v, c, section.pid) \/ ~section.next)
  <2>1. w = Announce(u, key, apps)
    BY <1>2 DEF MhAitSnapshot
  <2>2. \A k, other : k \in ApplicationKeys(key, other) => k[1] = key
    BY DEF ApplicationKeys
  <2>3. key \notin DOMAIN v.aits => At(v.aits, key) = {}
    BY DEF At
  <2>4. key \in DOMAIN v.aits => At(v.aits, key) = v.aits[key]
    BY DEF At
  <2>5. ApplicationKeys(key, {}) = {}
    BY DEF ApplicationKeys
  <2> HIDE DEF key
  <2>6. \A k : k \in DOMAIN v.applications /\ k[1] = key => k \in ApplicationKeys(key, At(v.aits, key))
    BY <2>4 DEF Told, Exact
  <2>7. \A k : k \in gone => k[1] = key
    BY <2>2
  <2>8. \A k : k \in DOMAIN v.applications \ gone /\ k[1] = key => k \in ApplicationKeys(key, apps)
    BY <2>6
  <2> HIDE DEF gone
  <2>9. /\ ViewFields(u) /\ u.mpts = v.mpts /\ u.aits = v.aits
        /\ DOMAIN u.applications = DOMAIN v.applications \ gone
        /\ Agrees(u) /\ u.tracks = v.tracks
    BY ForgetKeeps, ForgetAgrees DEF Told
  <2> HIDE DEF u
  <2>10. PICK mpts, tracks, aits, applications, told, shown :
           u = View(mpts, tracks, aits, applications, told, shown)
    BY <2>9 DEF ViewFields
  <2>11. told = tracks /\ shown = applications /\ mpts = u.mpts /\ tracks = u.tracks
         /\ aits = u.aits /\ applications = u.applications
    BY <2>9, <2>10 DEF Agrees, View
  <2> DEFINE announced == Announced(applications, key, apps)
             held == Over(announced, applications)
             put  == Put(aits, key, apps)
  <2>12. w = View(mpts, tracks, put, held, tracks, held)
    <3>1. Announce(View(mpts, tracks, aits, applications, tracks, applications), key, apps)
            = View(mpts, tracks, put, held, tracks, held)
      BY AnnounceIs
    <3>2. u = View(mpts, tracks, aits, applications, tracks, applications)
      BY <2>10, <2>11
    <3> HIDE DEF w, announced, held, put
    <3> QED
      BY <2>1, <3>1, <3>2
  <2>13. DOMAIN held = DOMAIN applications \cup ApplicationKeys(key, apps)
    BY DEF Announced, Over, Restrict
  <2>14. put[key] = apps /\ DOMAIN put = {key} \cup DOMAIN aits
         /\ \A k \in DOMAIN aits \ {key} : put[k] = aits[k]
    BY DEF Put, Over
  <2> HIDE DEF w, announced, held, put
  <2>15. /\ ViewFields(w) /\ Agrees(w) /\ w.mpts = mpts /\ w.tracks = tracks
         /\ w.aits = put /\ w.applications = held
    BY <2>12 DEF ViewFields, View, Agrees
  <2>16. Exact(w)
    <3> SUFFICES ASSUME NEW k
                 PROVE  k \in DOMAIN held
                          <=> k[1] \in DOMAIN put /\ k \in ApplicationKeys(k[1], put[k[1]])
      BY <2>15 DEF Exact
    <3>1. k \in DOMAIN v.applications
            <=> k[1] \in DOMAIN v.aits /\ k \in ApplicationKeys(k[1], v.aits[k[1]])
      BY DEF Told, Exact
    <3>2. CASE k[1] = key
      BY <2>8, <2>9, <2>11, <2>13, <2>14, <3>2
    <3>3. CASE k[1] # key
      BY <2>2, <2>7, <2>9, <2>11, <2>13, <2>14, <3>1, <3>3
    <3> QED
      BY <3>2, <3>3
  <2> QED
    BY <2>9, <2>11, <2>15, <2>16 DEF Told, w
<1> QED
  BY <1>1, <1>2

-----------------------------------------------------------------------------
(* A snapshot and the context it describes.                                *)
Shows(c, context, snapshot) ==
  /\ TracksOf(snapshot) =
       {[context |-> c, pid |-> pid, asset |-> context.tracks[pid].asset] :
          pid \in DOMAIN context.tracks}
  /\ PacketIds(snapshot.data) = DOMAIN context.data

LEMMA SnapshotShows ==
  ASSUME NEW c, NEW table, NEW new, ContextWell(c, new),
         table.tracks \in Seq(Entries), table.data \in Seq(Entries),
         DOMAIN new.tracks \subseteq PacketIds(table.tracks),
         DOMAIN new.data \subseteq PacketIds(table.data)
  PROVE  Shows(c, new, SnapshotOf(c, table, new))
<1> DEFINE snapshot == SnapshotOf(c, table, new)
           t == Installed(new.tracks, table.tracks)
           d == Installed(new.data, table.data)
<1>1. Lists(t, new.tracks, PacketIds(table.tracks)) /\ Lists(d, new.data, PacketIds(table.data))
  BY InstalledFacts DEF ContextWell
<1>2. snapshot.context = c /\ snapshot.tracks = t /\ snapshot.data = d
  BY DEF SnapshotOf
<1> HIDE DEF t, d, snapshot
<1>3. Elements(t) = {Entry(new.tracks, pid) : pid \in DOMAIN new.tracks}
  BY <1>1 DEF Lists
<1>4. Elements(d) = {Entry(new.data, pid) : pid \in DOMAIN new.data}
  BY <1>1 DEF Lists
<1>5. TracksOf(snapshot) =
        {[context |-> c, pid |-> e.pid, asset |-> e.asset] : e \in Elements(t)}
  BY <1>2 DEF TracksOf, Elements
<1>6. PacketIds(snapshot.data) = {e.pid : e \in Elements(d)}
  BY <1>2 DEF PacketIds, Elements
<1>7. \A states, pid : Entry(states, pid).pid = pid /\ Entry(states, pid).asset = states[pid].asset
  BY DEF Entry
<1>8. TracksOf(snapshot) =
        {[context |-> c, pid |-> pid, asset |-> new.tracks[pid].asset] : pid \in DOMAIN new.tracks}
  BY <1>3, <1>5, <1>7
<1>9. PacketIds(snapshot.data) = DOMAIN new.data
  <2>1. ASSUME NEW pid \in DOMAIN new.data PROVE pid \in PacketIds(snapshot.data)
    <3>1. Entry(new.data, pid) \in Elements(d) /\ Entry(new.data, pid).pid = pid
      BY <1>4, <1>7
    <3> QED
      BY <1>6, <3>1
  <2>2. ASSUME NEW pid \in PacketIds(snapshot.data) PROVE pid \in DOMAIN new.data
    <3>1. PICK e \in Elements(d) : pid = e.pid
      BY <1>6, <2>2
    <3>2. PICK p \in DOMAIN new.data : e = Entry(new.data, p)
      BY <1>4
    <3> QED
      BY <1>7, <3>1, <3>2
  <2> QED
    BY <2>1, <2>2
<1> QED
  BY <1>8, <1>9 DEF Shows, snapshot

LEMMA SameShows ==
  ASSUME NEW c, NEW old, NEW new, NEW snapshot, SameRouting(old, new), Shows(c, old, snapshot)
  PROVE  Shows(c, new, snapshot)
<1>1. /\ DOMAIN new.tracks = DOMAIN old.tracks /\ DOMAIN new.data = DOMAIN old.data
      /\ \A pid \in DOMAIN old.tracks : new.tracks[pid].asset = old.tracks[pid].asset
  BY DEF SameRouting, Roles
<1> QED
  BY <1>1 DEF Shows

(* Parser and Demuxer agree on every context both have an MPT of.          *)
Shown(c) == contexts[c].mpt # NoTable => Shows(c, contexts[c], view.mpts[c])

Matched ==
  /\ Told(view) /\ Snapshots(view)
  /\ \A c \in DOMAIN contexts \cap DOMAIN view.mpts : Shown(c)

LEMMA EmptyTold == Told(EmptyView) /\ Snapshots(EmptyView)
<1>1. DOMAIN EmptyView.aits = {} /\ DOMAIN EmptyView.applications = {}
      /\ DOMAIN EmptyView.mpts = {}
      /\ ViewFields(EmptyView) /\ Agrees(EmptyView)
  BY DEF EmptyView, EmptyFunction, ViewFields, View, Agrees
<1> QED
  BY <1>1 DEF Told, Exact, Snapshots

LEMMA CarryingMatched ==
  ASSUME Matched, CarryingStep
  PROVE  Matched'
<1>1. PICK c \in Contexts :
        /\ Carries(c)
        /\ \/ view' = view
           \/ \E section, apps : view' = MhAitSnapshot(view, c, section, apps)
  BY DEF CarryingStep
<1>2. Told(view') /\ view'.mpts = view.mpts /\ view'.tracks = view.tracks
  BY <1>1, MhAitTold DEF Matched
<1>3. Snapshots(view')
  BY <1>2 DEF Matched, Snapshots, TracksHeld
<1>4. PICK new : Moves(c, new) /\ SameRouting(Context(c), new)
  BY <1>1 DEF Carries
<1>5. /\ DOMAIN contexts' = DOMAIN contexts \cup {c} /\ contexts'[c] = new
      /\ \A d \in DOMAIN contexts \ {c} : contexts'[d] = contexts[d]
  BY <1>4, MovedContexts
<1>6. ASSUME NEW d \in DOMAIN contexts' \cap DOMAIN view.mpts, contexts'[d].mpt # NoTable
      PROVE  Shows(d, contexts'[d], view.mpts[d])
  <2>1. CASE d # c
    <3>1. d \in DOMAIN contexts /\ contexts'[d] = contexts[d]
      BY <1>5, <2>1
    <3> QED
      BY <1>6, <3>1 DEF Matched, Shown
  <2>2. CASE d = c
    <3>1. Context(c).mpt # NoTable
      BY <1>4, <1>5, <1>6, <2>2 DEF SameRouting
    <3>2. c \in DOMAIN contexts /\ Context(c) = contexts[c]
      BY <3>1 DEF Context, NewContext
    <3>3. Shows(c, Context(c), view.mpts[c])
      BY <1>6, <2>2, <3>1, <3>2 DEF Matched, Shown
    <3> QED
      BY <1>4, <1>5, <2>2, <3>3, SameShows
  <2> QED
    BY <2>1, <2>2
<1> QED
  BY <1>2, <1>3, <1>6 DEF Matched, Shown

LEMMA ReroutingMatched ==
  ASSUME Matched, ReroutingStep
  PROVE  Matched'
<1>1. PICK c \in Contexts : \E table \in Tables[c] : \E new :
        /\ Rerouted(c, table, new)
        /\ view' = MptSnapshot(view, SnapshotOf(c, table, new))
  BY DEF ReroutingStep
<1>2. PICK table \in Tables[c] : \E new :
        /\ Rerouted(c, table, new)
        /\ view' = MptSnapshot(view, SnapshotOf(c, table, new))
  BY <1>1
<1>3. PICK new : /\ Rerouted(c, table, new)
                 /\ view' = MptSnapshot(view, SnapshotOf(c, table, new))
  BY <1>2
<1> DEFINE snapshot == SnapshotOf(c, table, new)
<1>4. Told(view') /\ Snapshots(view')
  BY <1>3, MptTold DEF Matched
<1>5. snapshot.context = c
  BY DEF SnapshotOf
<1>6. Shows(c, new, snapshot)
  <2>1. table.tracks \in Seq(Entries) /\ table.data \in Seq(Entries)
    BY TablesAssumption DEF Entries
  <2>2. ContextWell(c, new)
    BY <1>3 DEF Rerouted, Moves
  <2> QED
    BY <1>3, <2>1, <2>2, SnapshotShows DEF Rerouted
<1> HIDE DEF snapshot
<1>7. /\ DOMAIN view'.mpts \subseteq {c} \cup DOMAIN view.mpts
      /\ \A d \in DOMAIN view'.mpts : view'.mpts[d] = IF d = c THEN snapshot ELSE view.mpts[d]
  BY <1>3, <1>5, MptKeeps DEF Matched, Told, snapshot
<1>8. /\ DOMAIN contexts' = DOMAIN contexts \cup {c} /\ contexts'[c] = new
      /\ \A d \in DOMAIN contexts \ {c} : contexts'[d] = contexts[d]
  BY <1>3, MovedContexts DEF Rerouted
<1>9. ASSUME NEW d \in DOMAIN contexts' \cap DOMAIN view'.mpts, contexts'[d].mpt # NoTable
      PROVE  Shows(d, contexts'[d], view'.mpts[d])
  <2>1. CASE d = c
    BY <1>6, <1>7, <1>8, <2>1
  <2>2. CASE d # c
    <3>1. /\ d \in DOMAIN contexts /\ contexts'[d] = contexts[d]
          /\ d \in DOMAIN view.mpts /\ view'.mpts[d] = view.mpts[d]
      BY <1>7, <1>8, <2>2
    <3> QED
      BY <1>9, <3>1 DEF Matched, Shown
  <2> QED
    BY <2>1, <2>2
<1> QED
  BY <1>4, <1>9 DEF Matched, Shown

LEMMA StepMatched == ParserInv /\ Inv /\ Matched /\ [Next]_vars => Matched'
<1> SUFFICES ASSUME ParserInv, Inv, Matched, [Next]_vars PROVE Matched'
  OBVIOUS
<1>1. CASE Flush
  <2>1. /\ view' = view /\ DOMAIN contexts' = DOMAIN contexts
        /\ \A c \in DOMAIN contexts : SameRouting(contexts[c], contexts'[c])
    BY <1>1, FlushedContexts DEF Flush, FlushedWell, ParserInv
  <2>2. ASSUME NEW c \in DOMAIN contexts \cap DOMAIN view.mpts, contexts'[c].mpt # NoTable
        PROVE  Shows(c, contexts'[c], view.mpts[c])
    <3>1. contexts[c].mpt # NoTable
      BY <2>1, <2>2 DEF SameRouting
    <3>2. Shows(c, contexts[c], view.mpts[c])
      BY <3>1 DEF Matched, Shown
    <3> QED
      BY <2>1, <3>2, SameShows
  <2> QED
    BY <2>1, <2>2 DEF Matched, Shown
<1>2. CASE DroppingStep
  <2>1. Told(view') /\ Snapshots(view')
    BY <1>2, EmptyTold DEF DroppingStep, Matched
  <2>2. DOMAIN contexts' = {}
    BY <1>2 DEF DroppingStep, EmptyFunction
  <2> QED
    BY <2>1, <2>2 DEF Matched
<1>3. CASE ClearingStep
  <2>1. view' = EmptyView /\ DOMAIN view'.mpts = {}
    BY <1>3 DEF ClearingStep, EmptyView, EmptyFunction
  <2> QED
    BY <2>1, EmptyTold DEF Matched
<1>4. CASE UNCHANGED vars
  BY <1>4 DEF vars, Matched, Shown
<1> QED
  BY <1>1, <1>2, <1>3, <1>4, CarryingMatched, ReroutingMatched, Steps

(***************************************************************************)
(* The parser and the Demuxer keep the same routing twice, and the sink    *)
(* a third time: what MPTs, MH-AITs, flush, reset, reposition and          *)
(* select_service do to one side, they do to the other, or they clear it.  *)
(***************************************************************************)
THEOREM ViewMatches == Spec => []ViewMatchesRouting
<1>1. Init => Matched
  <2> SUFFICES ASSUME Init PROVE Matched
    OBVIOUS
  <2>1. view = EmptyView /\ DOMAIN view.mpts = {}
    BY DEF Init, EmptyView, EmptyFunction
  <2> QED
    BY <2>1, EmptyTold DEF Matched
<1>2. ASSUME ParserInv, Matched, OnlySelected PROVE ViewMatchesRouting
  <2>1. ASSUME NEW c \in DOMAIN contexts \cap DOMAIN view.mpts, contexts[c].mpt # NoTable
        PROVE  /\ {track \in view.tracks : track.context = c}
                    = {[context |-> c, pid |-> pid, asset |-> contexts[c].tracks[pid].asset] :
                         pid \in DOMAIN contexts[c].tracks}
               /\ PacketIds(view.mpts[c].data) = DOMAIN contexts[c].data
               /\ DOMAIN contexts[c].tracks \cap DOMAIN contexts[c].data = {}
    <3>1. Shows(c, contexts[c], view.mpts[c])
      BY <1>2, <2>1 DEF Matched, Shown
    <3>2. TracksHeld(view, c) = TracksOf(view.mpts[c])
      BY <1>2 DEF Matched, Snapshots
    <3>3. DOMAIN contexts[c].tracks \cap DOMAIN contexts[c].data = {}
      BY <1>2 DEF ParserInv, ContextsWell, ContextWell
    <3> QED
      BY <3>1, <3>2, <3>3 DEF Shows, TracksHeld
  <2>2. /\ view.sink.tracks = view.tracks /\ view.sink.applications = view.applications
        /\ DOMAIN view.applications
             = UNION {ApplicationKeys(key, view.aits[key]) : key \in DOMAIN view.aits}
    BY <1>2, ExactUnion DEF Matched, Told, Agrees
  <2> QED
    BY <1>2, <2>1, <2>2 DEF ViewMatchesRouting
<1>3. Spec => []OnlySelected
  BY SelectionHolds
<1> QED
  BY <1>1, <1>2, <1>3, InitInv, InitParser, StepInv, StepParser, StepMatched, PTL DEF Spec

-----------------------------------------------------------------------------
(* The numbers of packets: arithmetic of the 32-bit sequence number, for   *)
(* any modulus.                                                            *)

(* Division with remainder, as the SMT solver knows it.                    *)
LEMMA Remainder ==
  ASSUME NEW M \in Nat, M > 2, NEW i \in Nat
  PROVE  i = M * (i \div M) + (i % M) /\ i % M \in 0 .. (M - 1) /\ i \div M \in Int
OBVIOUS

(* The only multiple of M strictly between -M and M is 0.                  *)
LEMMA SmallMultiple ==
  ASSUME NEW M \in Nat, M > 2, NEW k \in Int, NEW d \in Int, d = M * k, -M < d, d < M
  PROVE  d = 0
<1>1. CASE k >= 1
  <2>1. M * k >= M
    BY <1>1
  <2> QED
    BY <2>1
<1>2. CASE k =< -1
  <2>1. M * k =< -M
    BY <1>2
  <2> QED
    BY <2>1
<1>3. CASE k = 0
  BY <1>3
<1> QED
  BY <1>1, <1>2, <1>3

(* The remainder is unique.                                                *)
LEMMA RemainderUnique ==
  ASSUME NEW M \in Nat, M > 2, NEW k \in Int, NEW r \in 0 .. (M - 1),
         NEW x \in Nat, x = M * k + r
  PROVE  x % M = r
<1> DEFINE a == x \div M
           s == x % M
<1>1. x = M * a + s /\ a \in Int /\ s \in 0 .. (M - 1)
  BY Remainder
<1> HIDE DEF a, s
<1>2. M * (a - k) = r - s
  BY <1>1
<1>3. a - k \in Int /\ r - s \in Int /\ -M < r - s /\ r - s < M
  BY <1>1
<1>4. r - s = 0
  BY <1>2, <1>3, SmallMultiple
<1> QED
  BY <1>1, <1>4 DEF s

(* Two packets less than a turn apart have the same sequence number only   *)
(* if they are the same packet.                                            *)
LEMMA SameSequence ==
  ASSUME NEW M \in Nat, M > 2, NEW i \in Nat, NEW j \in Nat,
         i % M = j % M, i - j < M, j - i < M
  PROVE  i = j
<1> DEFINE a == i \div M
           b == j \div M
<1>1. i = M * a + (i % M) /\ j = M * b + (j % M) /\ a \in Int /\ b \in Int
  BY Remainder
<1>2. i - j = M * (a - b)
  BY <1>1
<1> HIDE DEF a, b
<1>3. i - j = 0
  BY <1>1, <1>2, SmallMultiple
<1> QED
  BY <1>3

(* last_sequence + 1U is the sequence number of the next packet, also when *)
(* it wraps.                                                               *)
LEMMA Successor ==
  ASSUME NEW M \in Nat, M > 2, NEW j \in Nat
  PROVE  ((j % M) + 1) % M = (j + 1) % M
<1> DEFINE a == j \div M
           s == j % M
<1>1. j = M * a + s /\ a \in Int /\ s \in 0 .. (M - 1)
  BY Remainder
<1> HIDE DEF a, s
<1>2. CASE s = M - 1
  <2>1. j + 1 = M * (a + 1) + 0
    BY <1>1, <1>2
  <2>2. (j + 1) % M = 0
    BY <2>1, <1>1, RemainderUnique
  <2>3. s + 1 = M * 1 + 0
    BY <1>2
  <2>4. (s + 1) % M = 0
    BY <2>3, <1>1, RemainderUnique
  <2> QED
    BY <2>2, <2>4 DEF s
<1>3. CASE s < M - 1
  <2>1. j + 1 = M * a + (s + 1) /\ s + 1 \in 0 .. (M - 1)
    BY <1>1, <1>3
  <2>2. (j + 1) % M = s + 1
    BY <2>1, <1>1, RemainderUnique
  <2>3. s + 1 = M * 0 + (s + 1)
    BY <1>1
  <2>4. (s + 1) % M = s + 1
    BY <2>3, <2>1, <1>1, RemainderUnique
  <2> QED
    BY <2>2, <2>4 DEF s
<1> QED
  BY <1>1, <1>2, <1>3

(* Nor has another packet the number that follows.                         *)
LEMMA NextSequence ==
  ASSUME NEW M \in Nat, M > 2, NEW i \in Nat, NEW j \in Nat,
         i % M = ((j % M) + 1) % M, i - (j + 1) < M, (j + 1) - i < M
  PROVE  i = j + 1
<1>1. ((j % M) + 1) % M = (j + 1) % M
  BY Successor
<1>2. i % M = (j + 1) % M
  BY <1>1
<1>3. j + 1 \in Nat
  OBVIOUS
<1> QED
  BY <1>2, <1>3, SameSequence

-----------------------------------------------------------------------------
(* Messages of one signalling packet id.  A message is whole in one packet *)
(* or its fragments are the packets from its first to its last.            *)
Fragmented(m) == FirstPacket(m) < LastPacket(m)

Heard(m, n) == [j \in 1 .. n |-> << FirstPacket(m) + j - 1, 1 >>]

LEMMA SignallingPacket ==
  ASSUME NEW i \in DOMAIN Stream
  PROVE  /\ i \in Nat /\ i >= 1 /\ i <= Len(Stream) /\ Len(Stream) \in Nat
         /\ Stream[i].aggregation \in BOOLEAN /\ Stream[i].fragmentation \in 0 .. 3
         /\ Stream[i].units \in Seq([message : Message, size : Nat \ {0}])
         /\ Stream[i].aggregation => Stream[i].fragmentation = 0
         /\ ~Stream[i].aggregation => Len(Stream[i].units) = 1
<1>1. Stream \in Seq(Packet)
  BY StreamAssumption
<1>2. i \in Nat /\ i >= 1 /\ i <= Len(Stream) /\ Len(Stream) \in Nat /\ Stream[i] \in Packet
  BY <1>1
<1>3. /\ Stream[i].aggregation => Stream[i].fragmentation = 0
      /\ ~Stream[i].aggregation => Len(Stream[i].units) = 1
  BY StreamAssumption, Zenon
<1> QED
  BY <1>2, <1>3 DEF Packet

LEMMA StreamDomain == DOMAIN Stream = 1 .. Len(Stream) /\ Len(Stream) \in Nat
<1>1. Stream \in Seq(Packet)
  BY StreamAssumption
<1> QED
  BY <1>1, LenProperties

LEMMA UnitFacts ==
  ASSUME NEW i \in DOMAIN Stream, NEW k \in DOMAIN Stream[i].units
  PROVE  /\ k \in Nat /\ k >= 1 /\ k <= Len(Stream[i].units)
         /\ MessageAt(<< i, k >>) = Stream[i].units[k].message
         /\ MessageAt(<< i, k >>) \in Message
         /\ SizeAt(<< i, k >>) \in Nat /\ SizeAt(<< i, k >>) > 0
         /\ i \in Packets(MessageAt(<< i, k >>))
<1>1. Stream[i].units \in Seq([message : Message, size : Nat \ {0}])
  BY SignallingPacket
<1>2. k \in Nat /\ k >= 1 /\ k <= Len(Stream[i].units)
      /\ Stream[i].units[k] \in [message : Message, size : Nat \ {0}]
  <2> DEFINE units == Stream[i].units
  <2>1. units \in Seq([message : Message, size : Nat \ {0}]) /\ k \in DOMAIN units
    BY <1>1
  <2> HIDE DEF units
  <2>2. k \in 1 .. Len(units) /\ Len(units) \in Nat
    BY <2>1, LenProperties
  <2>3. units[k] \in [message : Message, size : Nat \ {0}]
    BY <2>1, <2>2, ElementOfSeq
  <2> QED
    BY <2>2, <2>3 DEF units
<1>3. MessageAt(<< i, k >>) = Stream[i].units[k].message
  BY DEF MessageAt
<1> QED
  BY <1>2, <1>3 DEF SizeAt, Packets, Holds

LEMMA FirstUnit ==
  ASSUME NEW i \in DOMAIN Stream, ~Stream[i].aggregation
  PROVE  /\ DOMAIN Stream[i].units = {1}
         /\ \A m : i \in Packets(m) <=> m = MessageAt(<< i, 1 >>)
<1>1. Stream[i].units \in Seq([message : Message, size : Nat \ {0}]) /\ Len(Stream[i].units) = 1
  BY SignallingPacket
<1>2. DOMAIN Stream[i].units = {1}
  BY <1>1
<1> QED
  BY <1>2 DEF Packets, Holds, MessageAt

LEMMA MessageFacts ==
  ASSUME NEW m \in Message
  PROVE  /\ FirstPacket(m) \in DOMAIN Stream /\ LastPacket(m) \in DOMAIN Stream
         /\ FirstPacket(m) <= LastPacket(m)
         /\ Packets(m) = FirstPacket(m) .. LastPacket(m)
         /\ \A j, k \in DOMAIN Stream[FirstPacket(m)].units :
              /\ Stream[FirstPacket(m)].units[j].message = m
              /\ Stream[FirstPacket(m)].units[k].message = m
              => j = k
         /\ ~Fragmented(m) => Stream[FirstPacket(m)].fragmentation = 0
         /\ Fragmented(m) =>
              /\ Stream[FirstPacket(m)].fragmentation = 1
              /\ Stream[LastPacket(m)].fragmentation = 3
              /\ \A i \in (FirstPacket(m) + 1) .. (LastPacket(m) - 1) :
                   Stream[i].fragmentation = 2
<1>1. PICK f, l \in DOMAIN Stream :
        /\ f <= l /\ Packets(m) = f .. l
        /\ \A j, k \in DOMAIN Stream[f].units :
             Stream[f].units[j].message = m /\ Stream[f].units[k].message = m => j = k
        /\ f = l => Stream[f].fragmentation = 0
        /\ f < l => /\ Stream[f].fragmentation = 1
                    /\ Stream[l].fragmentation = 3
                    /\ \A i \in (f + 1) .. (l - 1) : Stream[i].fragmentation = 2
  BY SenderAssumption, Zenon
<1>2. f \in Nat /\ l \in Nat
  BY StreamDomain
<1>3. FirstPacket(m) = f
  <2> DEFINE First(i) == i \in Packets(m) /\ \A j \in Packets(m) : i <= j
  <2>1. First(f)
    BY <1>1, <1>2
  <2>2. \A i : First(i) => i = f
    BY <1>1, <1>2
  <2>3. FirstPacket(m) = CHOOSE i \in Packets(m) : \A j \in Packets(m) : i <= j
    BY DEF FirstPacket
  <2>4. First(FirstPacket(m))
    BY <2>1, <2>3, Zenon
  <2> QED
    BY <2>2, <2>4
<1>4. LastPacket(m) = l
  <2> DEFINE Final(i) == i \in Packets(m) /\ \A j \in Packets(m) : j <= i
  <2>1. Final(l)
    BY <1>1, <1>2
  <2>2. \A i : Final(i) => i = l
    BY <1>1, <1>2
  <2>3. LastPacket(m) = CHOOSE i \in Packets(m) : \A j \in Packets(m) : j <= i
    BY DEF LastPacket
  <2>4. Final(LastPacket(m))
    BY <2>1, <2>3, Zenon
  <2> QED
    BY <2>2, <2>4
<1>5. Fragmented(m) <=> f < l
  BY <1>3, <1>4 DEF Fragmented
<1>6. ~Fragmented(m) => f = l
  BY <1>1, <1>2, <1>5
<1> QED
  BY <1>1, <1>3, <1>4, <1>5, <1>6, Zenon

(* A fragment is the only unit of its packet.                              *)
LEMMA FragmentIs ==
  ASSUME NEW m \in Message, Fragmented(m), NEW i \in Packets(m)
  PROVE  /\ i \in DOMAIN Stream /\ ~Stream[i].aggregation
         /\ Stream[i].fragmentation \in 1 .. 3
         /\ Stream[i].fragmentation = 1 <=> i = FirstPacket(m)
         /\ Stream[i].fragmentation = 3 <=> i = LastPacket(m)
         /\ MessageAt(<< i, 1 >>) = m
         /\ Place(i, m) = 1
<1> DEFINE f == FirstPacket(m)
           l == LastPacket(m)
<1>1. /\ f \in Nat /\ l \in Nat /\ f < l /\ Packets(m) = f .. l
      /\ Stream[f].fragmentation = 1 /\ Stream[l].fragmentation = 3
      /\ \A j \in (f + 1) .. (l - 1) : Stream[j].fragmentation = 2
  BY MessageFacts, StreamDomain DEF Fragmented
<1>2. i \in DOMAIN Stream
  BY DEF Packets
<1> HIDE DEF f, l
<1>3. i = f \/ i = l \/ i \in (f + 1) .. (l - 1)
  BY <1>1
<1>4. Stream[i].fragmentation \in 1 .. 3 /\ (Stream[i].fragmentation = 1 <=> i = f)
      /\ (Stream[i].fragmentation = 3 <=> i = l)
  BY <1>1, <1>3
<1>5. ~Stream[i].aggregation
  BY <1>2, <1>4, SignallingPacket
<1>6. MessageAt(<< i, 1 >>) = m /\ DOMAIN Stream[i].units = {1}
  BY <1>2, <1>5, FirstUnit
<1>7. Stream[i].units[1].message = m
  BY <1>6 DEF MessageAt
<1>8. Place(i, m) = 1
  BY <1>6, <1>7 DEF Place
<1> QED
  BY <1>2, <1>4, <1>5, <1>6, <1>8 DEF f, l

LEMMA PartsOfFragmented ==
  ASSUME NEW m \in Message, Fragmented(m)
  PROVE  /\ PartsOf[m] = Heard(m, LastPacket(m) + 1 - FirstPacket(m))
         /\ Len(PartsOf[m]) = LastPacket(m) + 1 - FirstPacket(m)
         /\ Len(PartsOf[m]) \in Nat
         /\ \A n \in 1 .. Len(PartsOf[m]) :
              PartsOf[m][n] = << FirstPacket(m) + n - 1, 1 >>
<1> DEFINE f == FirstPacket(m)
           l == LastPacket(m)
           size == l + 1 - f
<1>1. /\ f \in Nat /\ l \in Nat /\ f < l /\ Packets(m) = f .. l
  BY MessageFacts, StreamDomain DEF Fragmented
<1>2. PartsOf[m] = [n \in 1 .. size |-> << f + n - 1, Place(f + n - 1, m) >>]
  BY DEF PartsOf
<1> HIDE DEF f, l
<1>3. \A n \in 1 .. size : f + n - 1 \in Packets(m)
  BY <1>1
<1>4. \A n \in 1 .. size : Place(f + n - 1, m) = 1
  BY <1>3, FragmentIs
<1>5. PartsOf[m] = [n \in 1 .. size |-> << f + n - 1, 1 >>]
  BY <1>2, <1>4
<1>6. size \in Nat
  BY <1>1
<1> HIDE DEF size
<1>7. PartsOf[m] = Heard(m, size)
  BY <1>5 DEF Heard, f
<1>8. Len(PartsOf[m]) = size /\ \A n \in 1 .. size : PartsOf[m][n] = << f + n - 1, 1 >>
  BY <1>5, <1>6
<1> QED
  BY <1>6, <1>7, <1>8 DEF size, f, l

(* A unit that is no fragment is a whole message.                          *)
LEMMA PartsOfUnit ==
  ASSUME NEW i \in DOMAIN Stream, NEW k \in DOMAIN Stream[i].units,
         Stream[i].fragmentation = 0, NEW m, m = MessageAt(<< i, k >>)
  PROVE  /\ ~Fragmented(m) /\ FirstPacket(m) = i /\ LastPacket(m) = i
         /\ PartsOf[m] = << << i, k >> >>
<1>1. m \in Message /\ i \in Packets(m) /\ Stream[i].units[k].message = m
  BY UnitFacts
<1>2. ~Fragmented(m)
  <2>1. Stream[i].fragmentation \notin 1 .. 3
    OBVIOUS
  <2> QED
    BY <1>1, <2>1, FragmentIs, Zenon
<1> DEFINE f == FirstPacket(m)
           l == LastPacket(m)
<1>3. /\ f \in Nat /\ l \in Nat /\ f <= l /\ Packets(m) = f .. l
      /\ \A j, n \in DOMAIN Stream[f].units :
           Stream[f].units[j].message = m /\ Stream[f].units[n].message = m => j = n
  BY <1>1, MessageFacts, StreamDomain
<1>4. ~(f < l)
  BY <1>2 DEF Fragmented
<1> HIDE DEF f, l
<1>5. f = i /\ l = i
  BY <1>1, <1>3, <1>4
<1>6. Place(i, m) = k
  BY <1>1, <1>3, <1>5 DEF Place
<1>7. PartsOf[m] = [n \in 1 .. (l + 1 - f) |-> << f + n - 1, Place(f + n - 1, m) >>]
  BY <1>1, Zenon DEF PartsOf, f, l
<1>8. l + 1 - f = 1 /\ f \in Nat
  BY <1>3, <1>5
<1>9. [n \in 1 .. (l + 1 - f) |-> << f + n - 1, Place(f + n - 1, m) >>] = << << i, k >> >>
  <2> DEFINE part(n) == << f + n - 1, Place(f + n - 1, m) >>
  <2>1. part(1) = << i, k >>
    <3>1. f + 1 - 1 = i
      BY <1>5, <1>8
    <3> QED
      BY <3>1, <1>6
  <2> HIDE DEF part
  <2>2. [n \in 1 .. 1 |-> part(n)] = << part(1) >>
    OBVIOUS
  <2>3. [n \in 1 .. (l + 1 - f) |-> part(n)] = << << i, k >> >>
    BY <1>8, <2>1, <2>2, Zenon
  <2> QED
    BY <2>3 DEF part
<1> QED
  BY <1>2, <1>5, <1>7, <1>9 DEF f, l
-----------------------------------------------------------------------------
(* The bytes of a message, part by part.                                   *)
Sums(m, total) ==
  total = [n \in 0 .. Len(PartsOf[m]) |->
             IF n = 0 THEN 0 ELSE total[n - 1] + SizeAt(PartsOf[m][n])]

Total(m) == CHOOSE total : Sums(m, total)

LEMMA PartFacts ==
  ASSUME NEW m \in Message
  PROVE  /\ Len(PartsOf[m]) \in Nat /\ Len(PartsOf[m]) >= 1
         /\ Len(PartsOf[m]) = LastPacket(m) + 1 - FirstPacket(m)
         /\ \A n \in 1 .. Len(PartsOf[m]) :
              SizeAt(PartsOf[m][n]) \in Nat /\ SizeAt(PartsOf[m][n]) > 0
<1>1. /\ FirstPacket(m) \in Nat /\ LastPacket(m) \in Nat
      /\ FirstPacket(m) \in DOMAIN Stream
      /\ FirstPacket(m) <= LastPacket(m)
      /\ Packets(m) = FirstPacket(m) .. LastPacket(m)
      /\ ~Fragmented(m) => Stream[FirstPacket(m)].fragmentation = 0
  BY MessageFacts, StreamDomain
<1>2. CASE Fragmented(m)
  <2>1. /\ Len(PartsOf[m]) = LastPacket(m) + 1 - FirstPacket(m)
        /\ \A n \in 1 .. Len(PartsOf[m]) :
             PartsOf[m][n] = << FirstPacket(m) + n - 1, 1 >>
    BY <1>2, PartsOfFragmented
  <2>2. ASSUME NEW n \in 1 .. Len(PartsOf[m])
        PROVE  SizeAt(PartsOf[m][n]) \in Nat /\ SizeAt(PartsOf[m][n]) > 0
    <3> DEFINE i == FirstPacket(m) + n - 1
    <3>1. i \in Packets(m)
      BY <1>1, <2>1
    <3> HIDE DEF i
    <3>2. i \in DOMAIN Stream /\ ~Stream[i].aggregation
      BY <1>2, <3>1, FragmentIs
    <3>3. 1 \in DOMAIN Stream[i].units
      BY <3>2, FirstUnit
    <3>4. SizeAt(<< i, 1 >>) \in Nat /\ SizeAt(<< i, 1 >>) > 0
      BY <3>2, <3>3, UnitFacts
    <3>5. PartsOf[m][n] = << i, 1 >>
      BY <2>1 DEF i
    <3> QED
      BY <3>4, <3>5
  <2> QED
    BY <1>1, <2>1, <2>2
<1>3. CASE ~Fragmented(m)
  <2> DEFINE i == FirstPacket(m)
  <2>1. i \in DOMAIN Stream /\ i \in Packets(m) /\ Stream[i].fragmentation = 0
    BY <1>1, <1>3
  <2> HIDE DEF i
  <2>2. PICK k \in DOMAIN Stream[i].units : Stream[i].units[k].message = m
    BY <2>1 DEF Packets, Holds
  <2>3. m = MessageAt(<< i, k >>)
    BY <2>2 DEF MessageAt
  <2>4. PartsOf[m] = << << i, k >> >> /\ FirstPacket(m) = i /\ LastPacket(m) = i
    BY <2>1, <2>2, <2>3, PartsOfUnit
  <2>5. SizeAt(<< i, k >>) \in Nat /\ SizeAt(<< i, k >>) > 0
    BY <2>1, <2>2, UnitFacts
  <2>6. i + 1 - i = 1
    BY <2>1, StreamDomain
  <2>7. Len(PartsOf[m]) = 1 /\ PartsOf[m][1] = << i, k >>
    BY <2>4
  <2>8. \A n \in 1 .. 1 : n = 1
    OBVIOUS
  <2> QED
    BY <2>4, <2>5, <2>6, <2>7, <2>8
<1> QED
  BY <1>2, <1>3

LEMMA TotalFacts ==
  ASSUME NEW m \in Message
  PROVE  /\ Bytes(m) = Total(m)[Len(PartsOf[m])]
         /\ Total(m)[0] = 0
         /\ \A n \in 1 .. Len(PartsOf[m]) :
              Total(m)[n] = Total(m)[n - 1] + SizeAt(PartsOf[m][n])
         /\ \A n \in 0 .. Len(PartsOf[m]) :
              Total(m)[n] \in Nat /\ \A k \in 0 .. n : Total(m)[k] <= Total(m)[n]
<1> DEFINE N == Len(PartsOf[m])
           Size(n) == SizeAt(PartsOf[m][n])
           step == [x \in Nat \X (1 .. N) |-> x[1] + Size(x[2])]
           I == [n \in 0 .. N |-> Nat]
           total == Total(m)
<1>1. N \in Nat /\ \A n \in 1 .. N : Size(n) \in Nat
  BY PartFacts
<1>2. Bytes(m) = total[N]
  BY Zenon DEF Bytes, Total, Sums
<1> HIDE DEF N, Size
<1>3. \A x \in Nat, n \in 1 .. N : step[<< x, n >>] = x + Size(n)
  OBVIOUS
<1> HIDE DEF step
<1>4. 0 \in I[0] /\ \A n \in 1 .. N : \A x \in I[n - 1] : step[<< x, n >>] \in I[n]
  BY <1>1, <1>3
<1>5. PICK f : IsLoop(f, N, 0, step, I)
  BY <1>1, <1>4, LoopKeeps
<1>6. f = [n \in 0 .. N |-> IF n = 0 THEN 0 ELSE f[n - 1] + Size(n)]
  <2>1. ASSUME NEW n \in 0 .. N, n # 0 PROVE step[<< f[n - 1], n >>] = f[n - 1] + Size(n)
    <3>1. n - 1 \in 0 .. N /\ n \in 1 .. N
      BY <1>1, <2>1
    <3>2. f[n - 1] \in Nat
      BY <1>5, <3>1 DEF IsLoop
    <3> QED
      BY <1>3, <3>1, <3>2
  <2>2. [n \in 0 .. N |-> IF n = 0 THEN 0 ELSE step[<< f[n - 1], n >>]]
          = [n \in 0 .. N |-> IF n = 0 THEN 0 ELSE f[n - 1] + Size(n)]
    BY <2>1
  <2> QED
    BY <1>5, <2>2 DEF IsLoop
<1>7. Sums(m, f)
  BY <1>6 DEF Sums, N, Size
<1>8. Sums(m, total)
  BY <1>7, Zenon DEF Total
<1>9. total = [n \in 0 .. N |-> IF n = 0 THEN 0 ELSE total[n - 1] + Size(n)]
  BY <1>8 DEF Sums, N, Size
<1> HIDE DEF total
<1>10. total[0] = 0 /\ \A n \in 1 .. N : total[n] = total[n - 1] + Size(n)
  BY <1>1, <1>9
<1> DEFINE J == [n \in 0 .. N |-> {x \in Nat : \A k \in 0 .. n : total[k] \in Nat /\ total[k] <= x}]
<1>11. total[0] \in J[0]
  BY <1>1, <1>10
<1>12. ASSUME NEW n \in 1 .. N, total[n - 1] \in J[n - 1] PROVE total[n] \in J[n]
  <2>1. n - 1 \in 0 .. N /\ n \in 0 .. N /\ Size(n) \in Nat
    BY <1>1
  <2>2. /\ total[n - 1] \in Nat
        /\ \A k \in 0 .. (n - 1) : total[k] \in Nat /\ total[k] <= total[n - 1]
    BY <1>12, <2>1
  <2>3. total[n] = total[n - 1] + Size(n)
    BY <1>10
  <2>4. total[n] \in Nat /\ total[n - 1] <= total[n]
    BY <2>1, <2>2, <2>3
  <2>5. ASSUME NEW k \in 0 .. n PROVE total[k] \in Nat /\ total[k] <= total[n]
    <3>1. CASE k = n
      BY <2>4, <3>1
    <3>2. CASE k # n
      <4>1. k \in 0 .. (n - 1)
        BY <3>2
      <4> QED
        BY <2>2, <2>4, <4>1
    <3> QED
      BY <3>1, <3>2
  <2> QED
    BY <2>1, <2>4, <2>5
<1>13. \A n \in 0 .. N : total[n] \in J[n]
  <2> HIDE DEF J
  <2> QED
    BY <1>1, <1>11, <1>12, LoopInvariant
<1>14. \A n \in 0 .. N : total[n] \in Nat /\ \A k \in 0 .. n : total[k] <= total[n]
  BY <1>13
<1> QED
  BY <1>2, <1>10, <1>14 DEF N, Size, total

(* What an aggregated packet hands over: units of its own, and each that   *)
(* is long enough to have a message id.                                    *)
UnitsUpTo(i, n) == {<< << i, k >> >> : k \in 1 .. n}

LEMMA UnitAccepted ==
  ASSUME NEW i \in DOMAIN Stream, NEW k \in DOMAIN Stream[i].units,
         Stream[i].fragmentation = 0
  PROVE  /\ SizeAt(<< i, k >>) >= 2 =>
              Accepted(<< << i, k >> >>, SizeAt(<< i, k >>)) = << << << i, k >> >> >>
         /\ SizeAt(<< i, k >>) < 2 =>
              Accepted(<< << i, k >> >>, SizeAt(<< i, k >>)) = << >>
<1> DEFINE m == MessageAt(<< i, k >>)
           size == SizeAt(<< i, k >>)
           parts == << << i, k >> >>
<1>1. m \in Message /\ size \in Nat
  BY UnitFacts
<1>2. PartsOf[m] = parts
  BY PartsOfUnit
<1>3. Declared[m] = size
  <2>1. Declared[m] = Bytes(m)
    BY <1>1 DEF Declared
  <2>2. Len(PartsOf[m]) = 1 /\ PartsOf[m][1] = << i, k >>
    BY <1>2
  <2>3. Bytes(m) = Total(m)[1] /\ Total(m)[0] = 0
        /\ \A n \in 1 .. 1 : Total(m)[n] = Total(m)[n - 1] + SizeAt(PartsOf[m][n])
    BY <1>1, <2>2, TotalFacts
  <2>4. Total(m)[1] = 0 + size
    BY <2>2, <2>3
  <2> QED
    BY <1>1, <2>1, <2>3, <2>4
<1>4. MessageAt(parts[1]) = m /\ Format[m] \in {"pa", "m2", "raw"}
  BY <1>1, FormatAssumption
<1> HIDE DEF m, size
<1>5. Valid(parts, size)
  <2> HIDE DEF parts
  <2>1. Declared[m] <= size /\ Declared[m] = size
    BY <1>1, <1>3
  <2> QED
    BY <1>4, <2>1 DEF Valid
<1> HIDE DEF parts
<1>6. size >= 2 => Accepted(parts, size) = << parts >>
  BY <1>5 DEF Accepted
<1>7. size < 2 => Accepted(parts, size) = << >>
  BY <1>1 DEF Accepted
<1> QED
  BY <1>6, <1>7 DEF parts, size

LEMMA AcceptedUnitsFacts ==
  ASSUME NEW i \in DOMAIN Stream, Stream[i].fragmentation = 0,
         NEW n \in 0 .. Len(Stream[i].units)
  PROVE  /\ AcceptedUnits(i, n) \in Seq(UnitsUpTo(i, n))
         /\ \A k \in 1 .. n : SizeAt(<< i, k >>) >= 2 =>
              \E x \in DOMAIN AcceptedUnits(i, n) : AcceptedUnits(i, n)[x] = << << i, k >> >>
<1> DEFINE S == UnitsUpTo(i, n)
           Given(k) == Accepted(<< << i, k >> >>, SizeAt(<< i, k >>))
           Loop(f) == f = [k \in 0 .. n |-> IF k = 0 THEN << >> ELSE f[k - 1] \o Given(k)]
           accepted == CHOOSE f : Loop(f)
           step == [x \in Seq(S) \X (1 .. n) |-> x[1] \o Given(x[2])]
           Has(s, k) == \E x \in DOMAIN s : s[x] = << << i, k >> >>
           I == [k \in 0 .. n |->
                   {s \in Seq(S) : \A j \in 1 .. k : SizeAt(<< i, j >>) >= 2 => Has(s, j)}]
<1>1. n \in Nat
  OBVIOUS
<1>2. ASSUME NEW k \in 1 .. n
      PROVE  /\ << << i, k >> >> \in S
             /\ SizeAt(<< i, k >>) >= 2 \/ SizeAt(<< i, k >>) < 2
             /\ SizeAt(<< i, k >>) >= 2 => Given(k) = << << << i, k >> >> >>
             /\ ~(SizeAt(<< i, k >>) >= 2) => Given(k) = << >>
  <2>1. k \in DOMAIN Stream[i].units
    <3>1. Stream[i].units \in Seq([message : Message, size : Nat \ {0}])
      BY SignallingPacket
    <3>2. DOMAIN Stream[i].units = 1 .. Len(Stream[i].units) /\ Len(Stream[i].units) \in Nat
      BY <3>1, LenProperties
    <3> QED
      BY <3>2
  <2>2. SizeAt(<< i, k >>) \in Nat
    BY <2>1, UnitFacts
  <2>3. << << i, k >> >> \in S
    BY DEF UnitsUpTo
  <2>4. SizeAt(<< i, k >>) >= 2 \/ SizeAt(<< i, k >>) < 2
    BY <2>2
  <2> QED
    BY <2>1, <2>3, <2>4, UnitAccepted
<1>3. AcceptedUnits(i, n) = accepted[n]
  BY DEF AcceptedUnits
<1> HIDE DEF S, Given
<1>4. ASSUME NEW k \in 1 .. n, NEW s \in I[k - 1] PROVE s \o Given(k) \in I[k]
  <2>1. k - 1 \in 0 .. n /\ k \in 0 .. n
    BY <1>1
  <2>2. s \in Seq(S) /\ \A j \in 1 .. (k - 1) : SizeAt(<< i, j >>) >= 2 => Has(s, j)
    BY <2>1
  <2> DEFINE long == SizeAt(<< i, k >>) >= 2
  <2>3. CASE long
    <3> DEFINE t == s \o Given(k)
    <3>1. Given(k) = << << << i, k >> >> >> /\ << << i, k >> >> \in S
      BY <1>2, <2>3
    <3> DEFINE u == << << i, k >> >>
    <3>2. t = s \o << u >>
      BY <3>1
    <3> HIDE DEF u, t
    <3>3. u \in S
      BY <3>1 DEF u
    <3>4. t \in Seq(S) /\ Len(t) = Len(s) + 1 /\ Len(s) \in Nat
      BY <2>2, <3>2, <3>3
    <3>5. t[Len(s) + 1] = u /\ \A x \in 1 .. Len(s) : t[x] = s[x]
      BY <2>2, <3>2, <3>3
    <3>6. DOMAIN t = 1 .. (Len(s) + 1) /\ DOMAIN s = 1 .. Len(s)
      BY <2>2, <3>4
    <3>7. Has(t, k)
      <4>1. Len(s) + 1 \in DOMAIN t
        BY <3>4, <3>6
      <4> QED
        BY <3>5, <4>1 DEF u
    <3>8. ASSUME NEW j, Has(s, j) PROVE Has(t, j)
      <4>1. PICK x \in DOMAIN s : s[x] = << << i, j >> >>
        BY <3>8
      <4>2. x \in DOMAIN t /\ t[x] = << << i, j >> >>
        BY <3>4, <3>5, <3>6, <4>1
      <4> QED
        BY <4>2
    <3>9. ASSUME NEW j \in 1 .. k, SizeAt(<< i, j >>) >= 2 PROVE Has(t, j)
      <4>1. CASE j = k
        BY <3>7, <4>1
      <4>2. CASE j # k
        <5>1. j \in 1 .. (k - 1)
          BY <4>2
        <5>2. Has(s, j)
          BY <2>2, <3>9, <5>1
        <5> HIDE DEF Has
        <5> QED
          BY <3>8, <5>2
      <4> QED
        BY <4>1, <4>2
    <3> HIDE DEF Has
    <3>10. t \in I[k]
      BY <2>1, <3>4, <3>9
    <3> QED
      BY <3>10 DEF t
  <2>4. CASE ~long
    <3>1. Given(k) = << >>
      BY <1>2, <2>4
    <3>2. s \o Given(k) = s
      BY <2>2, <3>1
    <3>3. ASSUME NEW j \in 1 .. k, SizeAt(<< i, j >>) >= 2 PROVE Has(s, j)
      <4>1. j # k
        BY <2>4, <3>3
      <4>2. j \in 1 .. (k - 1)
        BY <4>1
      <4> HIDE DEF Has
      <4> QED
        BY <2>2, <3>3, <4>2
    <3> HIDE DEF Has
    <3>4. s \in I[k]
      BY <2>1, <2>2, <3>3
    <3> QED
      BY <3>2, <3>4
  <2> QED
    BY <2>3, <2>4
<1>5. << >> \in I[0]
  BY <1>1
<1>6. \A k \in 0 .. n : I[k] \subseteq Seq(S)
  OBVIOUS
<1>7. \A s \in Seq(S), k \in 1 .. n : step[<< s, k >>] = s \o Given(k)
  OBVIOUS
<1> DEFINE Final(s) == s \in Seq(S) /\ \A k \in 1 .. n : SizeAt(<< i, k >>) >= 2 => Has(s, k)
<1>8. \A s \in I[n] : Final(s)
  BY <1>1
<1> HIDE DEF step, I
<1>9. \A k \in 1 .. n : \A s \in I[k - 1] : step[<< s, k >>] \in I[k]
  <2>1. \A k \in 1 .. n : k - 1 \in 0 .. n
    BY <1>1
  <2> QED
    BY <1>4, <1>6, <1>7, <2>1
<1>10. PICK f : IsLoop(f, n, << >>, step, I)
  BY <1>1, <1>5, <1>9, LoopKeeps
<1>11. Loop(f)
  <2>1. ASSUME NEW k \in 0 .. n, k # 0 PROVE step[<< f[k - 1], k >>] = f[k - 1] \o Given(k)
    <3>1. k - 1 \in 0 .. n /\ k \in 1 .. n
      BY <1>1, <2>1
    <3> QED
      BY <1>6, <1>7, <1>10, <3>1 DEF IsLoop
  <2>2. [k \in 0 .. n |-> IF k = 0 THEN << >> ELSE step[<< f[k - 1], k >>]]
          = [k \in 0 .. n |-> IF k = 0 THEN << >> ELSE f[k - 1] \o Given(k)]
    BY <2>1
  <2> QED
    BY <1>10, <2>2 DEF IsLoop
<1>12. Loop(accepted)
  BY <1>11, Zenon
<1> HIDE DEF accepted
<1>13. accepted[0] = << >> /\ \A k \in 1 .. n : accepted[k] = accepted[k - 1] \o Given(k)
  <2> DEFINE Turn(x, k) == x \o Given(k)
  <2>1. accepted = [k \in 0 .. n |-> IF k = 0 THEN << >> ELSE Turn(accepted[k - 1], k)]
    BY <1>12
  <2> HIDE DEF Turn
  <2>2. accepted[0] = << >> /\ \A k \in 1 .. n : accepted[k] = Turn(accepted[k - 1], k)
    BY <1>1, <2>1
  <2> QED
    BY <2>2 DEF Turn
<1>14. \A k \in 0 .. n : accepted[k] \in I[k]
  <2>1. accepted[0] \in I[0]
    BY <1>5, <1>13
  <2>2. \A k \in 1 .. n : accepted[k - 1] \in I[k - 1] => accepted[k] \in I[k]
    BY <1>4, <1>13
  <2> QED
    BY <1>1, <2>1, <2>2, LoopInvariant
<1>15. n \in 0 .. n
  BY <1>1
<1>16. Final(accepted[n])
  BY <1>8, <1>14, <1>15
<1> QED
  BY <1>3, <1>16 DEF S
-----------------------------------------------------------------------------
(* The signalling assembler: what a fragment makes of it.                  *)
AssemblerStates == {"Initial", "Idle", "Collecting", "Skipping"}

Positions == (DOMAIN Stream) \X Nat

SignallingAssemblers ==
  [state : AssemblerStates, last : 0 .. (SequenceModulus - 1),
   data : Seq(Positions), size : 0 .. MaxMessage]

LEMMA EmptiedAssembler ==
  ASSUME NEW a \in SignallingAssemblers, NEW state \in AssemblerStates
  PROVE  /\ Emptied(a, state) \in SignallingAssemblers
         /\ Emptied(a, state).state = state /\ Emptied(a, state).last = a.last
         /\ Emptied(a, state).data = << >> /\ Emptied(a, state).size = 0
<1>1. << >> \in Seq(Positions) /\ 0 \in 0 .. MaxMessage
  BY LimitsAssumption
<1> QED
  BY <1>1 DEF Emptied, Assembler, SignallingAssemblers

LEMMA StateAssembler ==
  ASSUME NEW a \in SignallingAssemblers, NEW state \in AssemblerStates
  PROVE  /\ [a EXCEPT !.state = state] \in SignallingAssemblers
         /\ [a EXCEPT !.state = state].state = state
         /\ [a EXCEPT !.state = state].last = a.last
         /\ [a EXCEPT !.state = state].data = a.data
         /\ [a EXCEPT !.state = state].size = a.size
BY DEF SignallingAssemblers

LEMMA AppendedAssembler ==
  ASSUME NEW a \in SignallingAssemblers, NEW i \in DOMAIN Stream, ~Stream[i].aggregation,
         Fits(a, SizeAt(<< i, 1 >>))
  PROVE  /\ Appended(a, i) \in SignallingAssemblers
         /\ Appended(a, i).state = a.state /\ Appended(a, i).last = a.last
         /\ Appended(a, i).data = Append(a.data, << i, 1 >>)
         /\ Appended(a, i).size = a.size + SizeAt(<< i, 1 >>)
<1>1. SizeAt(<< i, 1 >>) \in Nat
  BY FirstUnit, UnitFacts
<1>2. << i, 1 >> \in Positions
  BY DEF Positions
<1>3. Append(a.data, << i, 1 >>) \in Seq(Positions)
  BY <1>2, AppendProperties DEF SignallingAssemblers
<1>4. a.size + SizeAt(<< i, 1 >>) \in 0 .. MaxMessage
  BY <1>1, LimitsAssumption DEF Fits, SignallingAssemblers
<1> HIDE DEF Positions
<1> QED
  BY <1>3, <1>4 DEF Appended, SignallingAssemblers

(* A fragment that is appended, or makes the assembler give up.            *)
LEMMA CollectFacts ==
  ASSUME NEW a \in SignallingAssemblers, a.state = "Collecting",
         NEW i \in DOMAIN Stream, ~Stream[i].aggregation,
         NEW r, r = Collect(a, i)
  PROVE  /\ r.asm \in SignallingAssemblers /\ r.asm.last = a.last
         /\ r.units = << >>
         /\ IF a.size + SizeAt(<< i, 1 >>) <= MaxMessage
            THEN /\ r.asm.state = "Collecting"
                 /\ r.asm.data = Append(a.data, << i, 1 >>)
                 /\ r.asm.size = a.size + SizeAt(<< i, 1 >>)
            ELSE r.asm.state = "Skipping"
<1>1. SizeAt(<< i, 1 >>) \in Nat /\ a.size \in Nat /\ MaxMessage \in Nat
  BY FirstUnit, UnitFacts, LimitsAssumption DEF SignallingAssemblers
<1>2. Fits(a, SizeAt(<< i, 1 >>)) <=> a.size + SizeAt(<< i, 1 >>) <= MaxMessage
  BY <1>1 DEF Fits
<1>3. "Skipping" \in AssemblerStates
  BY DEF AssemblerStates
<1>4. CASE Fits(a, SizeAt(<< i, 1 >>))
  <2>1. r.asm = Appended(a, i) /\ r.units = << >>
    BY <1>4 DEF Collect, Outcome
  <2> QED
    BY <1>2, <1>4, <2>1, AppendedAssembler
<1>5. CASE ~Fits(a, SizeAt(<< i, 1 >>))
  <2>1. r.asm = Emptied(a, "Skipping") /\ r.units = << >>
    BY <1>5 DEF Collect, Outcome
  <2> QED
    BY <1>2, <1>3, <1>5, <2>1, EmptiedAssembler
<1> QED
  BY <1>4, <1>5

LEMMA CompleteIs ==
  ASSUME NEW b \in SignallingAssemblers, NEW i \in DOMAIN Stream, ~Stream[i].aggregation,
         Stream[i].fragmentation = 0, NEW r, r = ByFragmentation(b, i)
  PROVE  /\ r.asm \in SignallingAssemblers /\ r.asm.last = b.last
         /\ r.asm.state = "Idle"
         /\ r.units = Accepted(<< << i, 1 >> >>, SizeAt(<< i, 1 >>))
<1>1. "Idle" \in AssemblerStates
  BY DEF AssemblerStates
<1>2. r = CompleteMessage(b, i)
  BY DEF ByFragmentation
<1>3. /\ r.asm = Emptied(b, "Idle")
      /\ r.units = Accepted(<< << i, 1 >> >>, SizeAt(<< i, 1 >>))
  BY <1>2 DEF CompleteMessage, Outcome
<1> QED
  BY <1>1, <1>3, EmptiedAssembler

LEMMA FirstIs ==
  ASSUME NEW b \in SignallingAssemblers, NEW i \in DOMAIN Stream, ~Stream[i].aggregation,
         Stream[i].fragmentation = 1, NEW r, r = ByFragmentation(b, i)
  PROVE  /\ r.asm \in SignallingAssemblers /\ r.asm.last = b.last
         /\ r.units = << >>
         /\ IF SizeAt(<< i, 1 >>) <= MaxMessage
            THEN /\ r.asm.state = "Collecting"
                 /\ r.asm.data = << << i, 1 >> >>
                 /\ r.asm.size = SizeAt(<< i, 1 >>)
            ELSE r.asm.state = "Skipping"
<1> DEFINE a == Emptied(b, "Collecting")
<1>1. "Collecting" \in AssemblerStates
  BY DEF AssemblerStates
<1>2. /\ a \in SignallingAssemblers /\ a.state = "Collecting" /\ a.last = b.last
      /\ a.data = << >> /\ a.size = 0
  BY <1>1, EmptiedAssembler
<1>3. r = Collect(a, i)
  BY DEF ByFragmentation, FirstFragment
<1> HIDE DEF a
<1>4. SizeAt(<< i, 1 >>) \in Nat
  BY FirstUnit, UnitFacts
<1>5. Append(<< >>, << i, 1 >>) = << << i, 1 >> >> /\ 0 + SizeAt(<< i, 1 >>) = SizeAt(<< i, 1 >>)
  BY <1>4
<1>6. /\ r.asm \in SignallingAssemblers /\ r.asm.last = a.last
      /\ r.units = << >>
      /\ IF a.size + SizeAt(<< i, 1 >>) <= MaxMessage
         THEN /\ r.asm.state = "Collecting"
              /\ r.asm.data = Append(a.data, << i, 1 >>)
              /\ r.asm.size = a.size + SizeAt(<< i, 1 >>)
         ELSE r.asm.state = "Skipping"
  BY <1>2, <1>3, CollectFacts
<1> QED
  BY <1>2, <1>5, <1>6

LEMMA MiddleIs ==
  ASSUME NEW b \in SignallingAssemblers, NEW i \in DOMAIN Stream, ~Stream[i].aggregation,
         Stream[i].fragmentation = 2, NEW r, r = ByFragmentation(b, i)
  PROVE  /\ r.asm \in SignallingAssemblers /\ r.asm.last = b.last
         /\ r.units = << >>
         /\ IF b.state = "Collecting" /\ b.size + SizeAt(<< i, 1 >>) <= MaxMessage
            THEN /\ r.asm.state = "Collecting"
                 /\ r.asm.data = Append(b.data, << i, 1 >>)
                 /\ r.asm.size = b.size + SizeAt(<< i, 1 >>)
            ELSE r.asm.state = "Skipping"
<1>1. "Skipping" \in AssemblerStates
  BY DEF AssemblerStates
<1>2. r = MiddleFragment(b, i)
  BY DEF ByFragmentation
<1>3. CASE b.state = "Skipping"
  <2>1. r.asm = b /\ r.units = << >>
    BY <1>2, <1>3 DEF MiddleFragment, Outcome
  <2> QED
    BY <1>3, <2>1
<1>4. CASE b.state = "Collecting"
  <2>1. r = Collect(b, i)
    BY <1>2, <1>4 DEF MiddleFragment
  <2> QED
    BY <1>4, <2>1, CollectFacts
<1>5. CASE b.state \notin {"Skipping", "Collecting"}
  <2>1. r.asm = [b EXCEPT !.state = "Skipping"] /\ r.units = << >>
    BY <1>2, <1>5 DEF MiddleFragment, Outcome
  <2> QED
    BY <1>1, <1>5, <2>1, StateAssembler
<1> QED
  BY <1>3, <1>4, <1>5

LEMMA LastIs ==
  ASSUME NEW b \in SignallingAssemblers, NEW i \in DOMAIN Stream, ~Stream[i].aggregation,
         Stream[i].fragmentation = 3, NEW r, r = ByFragmentation(b, i)
  PROVE  /\ r.asm \in SignallingAssemblers /\ r.asm.last = b.last
         /\ r.asm.state # "Collecting"
         /\ r.asm.state = "Initial" => r.units = << >>
         /\ r.units = IF b.state = "Collecting" /\ b.size + SizeAt(<< i, 1 >>) <= MaxMessage
                      THEN Accepted(Append(b.data, << i, 1 >>), b.size + SizeAt(<< i, 1 >>))
                      ELSE << >>
<1>1. "Idle" \in AssemblerStates
  BY DEF AssemblerStates
<1>2. r = LastFragment(b, i)
  BY DEF ByFragmentation
<1>3. CASE b.state = "Skipping"
  <2>1. r.asm = Emptied(b, "Idle") /\ r.units = << >>
    BY <1>2, <1>3 DEF LastFragment, Outcome
  <2> QED
    BY <1>1, <1>3, <2>1, EmptiedAssembler
<1>4. CASE b.state = "Collecting"
  <2>1. /\ r.asm = Emptied(b, "Idle")
        /\ r.units = IF Fits(b, SizeAt(<< i, 1 >>))
                     THEN Accepted(Appended(b, i).data, Appended(b, i).size)
                     ELSE << >>
    BY <1>2, <1>4 DEF LastFragment, Outcome
  <2>2. SizeAt(<< i, 1 >>) \in Nat /\ b.size \in Nat /\ MaxMessage \in Nat
    BY FirstUnit, UnitFacts, LimitsAssumption DEF SignallingAssemblers
  <2>3. Fits(b, SizeAt(<< i, 1 >>)) <=> b.size + SizeAt(<< i, 1 >>) <= MaxMessage
    BY <2>2 DEF Fits
  <2>4. Fits(b, SizeAt(<< i, 1 >>)) =>
          /\ Appended(b, i).data = Append(b.data, << i, 1 >>)
          /\ Appended(b, i).size = b.size + SizeAt(<< i, 1 >>)
    BY AppendedAssembler
  <2>5. r.units = IF b.size + SizeAt(<< i, 1 >>) <= MaxMessage
                  THEN Accepted(Append(b.data, << i, 1 >>), b.size + SizeAt(<< i, 1 >>))
                  ELSE << >>
    <3>1. CASE Fits(b, SizeAt(<< i, 1 >>))
      BY <2>1, <2>3, <2>4, <3>1, Zenon
    <3>2. CASE ~Fits(b, SizeAt(<< i, 1 >>))
      BY <2>1, <2>3, <3>2, Zenon
    <3> QED
      BY <3>1, <3>2, Zenon
  <2>6. r.asm \in SignallingAssemblers /\ r.asm.last = b.last /\ r.asm.state = "Idle"
    BY <1>1, <2>1, EmptiedAssembler
  <2> QED
    BY <1>4, <2>5, <2>6
<1>5. CASE b.state \notin {"Skipping", "Collecting"}
  <2>1. r.asm = b /\ r.units = << >>
    BY <1>2, <1>5 DEF LastFragment, Outcome
  <2> QED
    BY <1>5, <2>1
<1> QED
  BY <1>3, <1>4, <1>5

-----------------------------------------------------------------------------
(* The assembler's sequence number is that of the packet counted last.     *)
InStep ==
  /\ asm \in SignallingAssemblers
  /\ at \in 0 .. Len(Stream) /\ since \in 0 .. Len(Stream)
  /\ refused \in 0 .. MaxRefused
  /\ asm.state # "Initial" => at # 0 /\ asm.last = Sequence(at)

LEMMA SequenceIs ==
  ASSUME NEW i \in Nat
  PROVE  Sequence(i) \in 0 .. (SequenceModulus - 1)
BY Remainder, JumpAssumption DEF Sequence

(* What recording a packet that is no repetition leaves.                   *)
LEMMA RecordedFacts ==
  ASSUME InStep, NEW i \in DOMAIN Stream, Deliverable(i), ~Repeats(i), NEW b, b = Recorded(i)
  PROVE  /\ b \in SignallingAssemblers /\ b.last = Sequence(i)
         /\ \/ b.state = "Skipping"
            \/ /\ b.state = asm.state /\ b.data = asm.data /\ b.size = asm.size
               /\ asm.state # "Initial" => i = at + 1
         /\ asm.state # "Initial" => i # at
         /\ asm.state = "Initial" \/ i = at + 1 =>
              b.state = asm.state /\ b.data = asm.data /\ b.size = asm.size
<1>1. i \in Nat /\ at \in Nat /\ SequenceModulus \in Nat /\ SequenceModulus > 2
      /\ MaxJump \in Nat /\ MaxJump < SequenceModulus - 1
  BY StreamDomain, JumpAssumption DEF InStep
<1>2. Sequence(i) \in 0 .. (SequenceModulus - 1)
  BY <1>1, SequenceIs
<1>3. ASSUME asm.state # "Initial"
      PROVE  Jumps(i) <=> i # at + 1
  <2>1. at # 0 /\ asm.last = at % SequenceModulus
    BY <1>3 DEF InStep, Sequence
  <2>2. i <= at + MaxJump /\ at <= i + MaxJump
    BY <2>1 DEF Deliverable
  <2>3. i % SequenceModulus = ((at % SequenceModulus) + 1) % SequenceModulus => i = at + 1
    <3>1. i - (at + 1) < SequenceModulus /\ (at + 1) - i < SequenceModulus
      BY <1>1, <2>2
    <3> QED
      BY <1>1, <3>1, NextSequence
  <2>4. i = at + 1 => i % SequenceModulus = ((at % SequenceModulus) + 1) % SequenceModulus
    BY <1>1, Successor
  <2> QED
    BY <1>3, <2>1, <2>3, <2>4, Zenon DEF Jumps, Sequence
<1>4. asm.state # "Initial" => i # at
  BY DEF InStep, Repeats
<1>5. CASE Jumps(i)
  <2>1. b = Assembler("Skipping", Sequence(i), << >>, 0)
    BY <1>5 DEF Recorded
  <2>2. << >> \in Seq(Positions) /\ 0 \in 0 .. MaxMessage /\ "Skipping" \in AssemblerStates
    BY LimitsAssumption DEF AssemblerStates
  <2>3. b \in SignallingAssemblers /\ b.last = Sequence(i) /\ b.state = "Skipping"
    BY <1>2, <2>1, <2>2 DEF Assembler, SignallingAssemblers
  <2>4. asm.state # "Initial"
    BY <1>5 DEF Jumps
  <2> QED
    BY <1>3, <1>4, <1>5, <2>3, <2>4
<1>6. CASE ~Jumps(i)
  <2>1. b = [asm EXCEPT !.last = Sequence(i)]
    BY <1>6 DEF Recorded
  <2>2. /\ b \in SignallingAssemblers /\ b.last = Sequence(i)
        /\ b.state = asm.state /\ b.data = asm.data /\ b.size = asm.size
    BY <1>2, <2>1 DEF InStep, SignallingAssemblers
  <2> QED
    BY <1>3, <1>4, <1>6, <2>2
<1> QED
  BY <1>5, <1>6

LEMMA FragmentationIs ==
  ASSUME NEW i \in DOMAIN Stream
  PROVE  Stream[i].fragmentation \in {0, 1, 2, 3}
<1>1. Stream[i].fragmentation \in 0 .. 3
  BY SignallingPacket
<1> QED
  BY <1>1

LEMMA InitInStep == ReassemblyInit => InStep
<1>1. << >> \in Seq(Positions) /\ 0 \in 0 .. MaxMessage /\ "Initial" \in AssemblerStates
      /\ 0 \in 0 .. (SequenceModulus - 1) /\ 0 \in 0 .. MaxRefused /\ 0 \in 0 .. Len(Stream)
  BY LimitsAssumption, JumpAssumption, StreamDomain DEF AssemblerStates
<1> QED
  BY <1>1 DEF ReassemblyInit, InStep, Fresh, Assembler, SignallingAssemblers

(* What a fragment leaves, whichever it is.                                *)
LEMMA FragmentLeaves ==
  ASSUME NEW b \in SignallingAssemblers, NEW i \in DOMAIN Stream, ~Stream[i].aggregation,
         NEW r, r = ByFragmentation(b, i)
  PROVE  r.asm \in SignallingAssemblers /\ r.asm.last = b.last
<1>1. CASE Stream[i].fragmentation = 0
  BY <1>1, CompleteIs, Zenon
<1>2. CASE Stream[i].fragmentation = 1
  BY <1>2, FirstIs, Zenon
<1>3. CASE Stream[i].fragmentation = 2
  BY <1>3, MiddleIs, Zenon
<1>4. CASE Stream[i].fragmentation = 3
  BY <1>4, LastIs, Zenon
<1> QED
  BY <1>1, <1>2, <1>3, <1>4, FragmentationIs

LEMMA ReadCounts ==
  ASSUME InStep, NEW i \in DOMAIN Stream, Read(i)
  PROVE  /\ at' = i /\ since' \in {0, since, i} /\ refused' \in {0, refused + 1}
         /\ refused' = refused + 1 => refused < MaxRefused
BY DEF Read, InStep

(* A packet that is read or refused is counted.                            *)
LEMMA CountedInStep ==
  ASSUME InStep, NEW i \in DOMAIN Stream, asm' \in SignallingAssemblers, asm'.last = Sequence(i),
         at' = i, since' \in {0, since, i}, refused' \in {0, refused + 1},
         refused' = refused + 1 => refused < MaxRefused
  PROVE  InStep'
<1>1. i \in 0 .. Len(Stream) /\ i # 0
  BY StreamDomain
<1>2. since' \in 0 .. Len(Stream) /\ refused' \in 0 .. MaxRefused
  BY <1>1, LimitsAssumption DEF InStep
<1> QED
  BY <1>1, <1>2 DEF InStep, Sequence, SignallingAssemblers, Positions

LEMMA StepInStep == InStep /\ [ReassemblyNext]_reassemblyVars => InStep'
<1> SUFFICES ASSUME InStep, [ReassemblyNext]_reassemblyVars
             PROVE  InStep'
  OBVIOUS
<1>1. ASSUME NEW i \in DOMAIN Stream, Unread(i) PROVE InStep'
  <2>1. asm' = asm /\ at' = at /\ refused' = refused /\ since' = 0
    BY <1>1 DEF Unread
  <2>2. 0 \in 0 .. Len(Stream)
    BY StreamDomain
  <2> QED
    BY <2>1, <2>2 DEF InStep, SignallingAssemblers, Positions, Sequence
<1>2. ASSUME NEW i \in DOMAIN Stream, Repeat(i) PROVE InStep'
  BY <1>2 DEF Repeat, InStep, SignallingAssemblers, Positions, Sequence
<1>3. ASSUME NEW i \in DOMAIN Stream, Unaggregated(i) PROVE InStep'
  <2> DEFINE b == Recorded(i)
             r == ByFragmentation(b, i)
  <2>1. Deliverable(i) /\ ~Repeats(i) /\ ~Stream[i].aggregation /\ asm' = r.asm /\ Read(i)
    BY <1>3 DEF Unaggregated
  <2>2. b \in SignallingAssemblers /\ b.last = Sequence(i)
    BY <2>1, RecordedFacts
  <2> HIDE DEF b
  <2>3. r.asm \in SignallingAssemblers /\ r.asm.last = b.last
    BY <2>1, <2>2, FragmentLeaves
  <2> HIDE DEF r
  <2> QED
    BY <2>1, <2>2, <2>3, ReadCounts, CountedInStep
<1>4. ASSUME NEW i \in DOMAIN Stream, Aggregated(i) PROVE InStep'
  <2> DEFINE b == Recorded(i)
  <2>1. Deliverable(i) /\ ~Repeats(i) /\ asm' = [b EXCEPT !.state = "Idle"] /\ Read(i)
    BY <1>4 DEF Aggregated
  <2>2. b \in SignallingAssemblers /\ b.last = Sequence(i)
    BY <2>1, RecordedFacts
  <2> HIDE DEF b
  <2>3. asm' \in SignallingAssemblers /\ asm'.last = Sequence(i)
    BY <2>1, <2>2, StateAssembler DEF AssemblerStates
  <2> QED
    BY <2>1, <2>3, ReadCounts, CountedInStep
<1>5. ASSUME NEW i \in DOMAIN Stream, NEW n \in 0 .. (Len(Stream[i].units) - 1), RefusePayload(i, n)
      PROVE  InStep'
  <2>1. /\ Deliverable(i) /\ ~Repeats(i) /\ asm' = Recorded(i) /\ at' = i /\ since' = 0
        /\ refused < MaxRefused /\ refused' = refused + 1
    BY <1>5 DEF RefusePayload
  <2>2. asm' \in SignallingAssemblers /\ asm'.last = Sequence(i)
    BY <2>1, RecordedFacts
  <2> QED
    BY <2>1, <2>2, CountedInStep
<1>6. CASE FlushMessages
  <2>1. << >> \in Seq(Positions) /\ 0 \in 0 .. MaxMessage /\ "Initial" \in AssemblerStates
        /\ 0 \in 0 .. (SequenceModulus - 1) /\ 0 \in 0 .. MaxRefused /\ 0 \in 0 .. Len(Stream)
    BY LimitsAssumption, JumpAssumption, StreamDomain DEF AssemblerStates
  <2>2. Fresh \in SignallingAssemblers /\ Fresh.state = "Initial"
    BY <2>1 DEF Fresh, Assembler, SignallingAssemblers
  <2> QED
    BY <1>6, <2>1, <2>2 DEF FlushMessages, InStep, SignallingAssemblers, Positions, Sequence
<1>7. CASE UNCHANGED reassemblyVars
  BY <1>7 DEF reassemblyVars, InStep, SignallingAssemblers, Positions, Sequence
<1> QED
  BY <1>1, <1>2, <1>3, <1>4, <1>5, <1>6, <1>7 DEF ReassemblyNext
-----------------------------------------------------------------------------
(* What is collected of message m once n of its parts have passed: all of  *)
(* them, or fewer bytes than they have.                                    *)
HasParts(data, size, m, n) == data = Heard(m, n) /\ size = Total(m)[n]

Gathered(data, size, m, n) ==
  /\ data # << >> /\ data[1] = << FirstPacket(m), 1 >>
  /\ HasParts(data, size, m, n) \/ size < Total(m)[n]

Reached(m) == at + 1 - FirstPacket(m)

(* Under: packet at is a fragment of m.                                    *)
Under(m) == Fragmented(m) /\ at \in Packets(m)

Gathering ==
  asm.state = "Collecting" =>
    \E m \in Message :
      /\ Under(m) /\ (at = LastPacket(m) => refused >= 1)
      /\ Gathered(asm.data, asm.size, m, Reached(m))

(* The place of a fragment in its message.                                 *)
LEMMA FragmentPlace ==
  ASSUME NEW m \in Message, Fragmented(m), NEW i \in Packets(m)
  PROVE  /\ i \in Nat /\ FirstPacket(m) \in Nat /\ LastPacket(m) \in Nat
         /\ FirstPacket(m) <= i /\ i <= LastPacket(m)
         /\ FirstPacket(m) >= 1
         /\ i + 1 - FirstPacket(m) \in 1 .. Len(PartsOf[m])
         /\ Len(PartsOf[m]) = LastPacket(m) + 1 - FirstPacket(m)
         /\ i # LastPacket(m) => i + 1 \in Packets(m)
         /\ i # FirstPacket(m) => i - 1 \in Packets(m)
<1>1. /\ FirstPacket(m) \in Nat /\ LastPacket(m) \in Nat /\ FirstPacket(m) >= 1
      /\ Packets(m) = FirstPacket(m) .. LastPacket(m)
  BY MessageFacts, StreamDomain
<1>2. Len(PartsOf[m]) = LastPacket(m) + 1 - FirstPacket(m)
  BY PartFacts
<1> QED
  BY <1>1, <1>2

LEMMA NextPart ==
  ASSUME NEW m \in Message, Fragmented(m), NEW i \in Packets(m), i # FirstPacket(m),
         NEW n, n = i - FirstPacket(m)
  PROVE  /\ n \in 1 .. Len(PartsOf[m]) /\ n + 1 \in 1 .. Len(PartsOf[m])
         /\ n + 1 = i + 1 - FirstPacket(m)
         /\ SizeAt(<< i, 1 >>) \in Nat /\ SizeAt(<< i, 1 >>) > 0
         /\ Total(m)[n] \in Nat /\ Total(m)[n + 1] \in Nat
         /\ Total(m)[n + 1] = Total(m)[n] + SizeAt(<< i, 1 >>)
         /\ Append(Heard(m, n), << i, 1 >>) = Heard(m, n + 1)
<1>1. /\ i \in Nat /\ FirstPacket(m) \in Nat /\ FirstPacket(m) <= i
      /\ i + 1 - FirstPacket(m) \in 1 .. Len(PartsOf[m]) /\ Len(PartsOf[m]) \in Nat
  BY FragmentPlace, PartFacts
<1>2. /\ n \in Nat /\ n \in 1 .. Len(PartsOf[m]) /\ n + 1 \in 1 .. Len(PartsOf[m])
      /\ n + 1 = i + 1 - FirstPacket(m) /\ (n + 1) - 1 = n
      /\ n \in 0 .. Len(PartsOf[m]) /\ n + 1 \in 0 .. Len(PartsOf[m])
  BY <1>1
<1>3. PartsOf[m][n + 1] = << i, 1 >>
  <2>1. PartsOf[m][n + 1] = << FirstPacket(m) + (n + 1) - 1, 1 >>
    BY <1>2, PartsOfFragmented
  <2>2. FirstPacket(m) + (n + 1) - 1 = i
    BY <1>1, <1>2
  <2> QED
    BY <2>1, <2>2
<1>4. Total(m)[n + 1] = Total(m)[n] + SizeAt(<< i, 1 >>)
  BY <1>2, <1>3, TotalFacts
<1>5. Total(m)[n] \in Nat /\ Total(m)[n + 1] \in Nat
  BY <1>2, TotalFacts
<1>6. SizeAt(<< i, 1 >>) \in Nat /\ SizeAt(<< i, 1 >>) > 0
  BY <1>2, <1>3, PartFacts
<1>7. Append(Heard(m, n), << i, 1 >>) = Heard(m, n + 1)
  <2> DEFINE f == FirstPacket(m)
             x == << i, 1 >>
             h == [j \in 1 .. n |-> << f + j - 1, 1 >>]
             g == [j \in 1 .. (n + 1) |-> << f + j - 1, 1 >>]
  <2>1. f \in Nat /\ n \in Nat /\ f + (n + 1) - 1 = i
    BY <1>1, <1>2
  <2> HIDE DEF f
  <2>2. h \in Seq(Nat \X Nat) /\ Len(h) = n /\ x \in Nat \X Nat
    <3>1. \A j \in 1 .. n : << f + j - 1, 1 >> \in Nat \X Nat
      BY <2>1
    <3>2. h \in [1 .. n -> Nat \X Nat] /\ DOMAIN h = 1 .. n /\ n \in Nat
      BY <2>1, <3>1
    <3> HIDE DEF h
    <3>3. h \in Seq(Nat \X Nat) /\ Len(h) = n
      BY <3>2, SeqDef, LenProperties
    <3> QED
      BY <1>1, <3>3 DEF x
  <2>3. g \in Seq(Nat \X Nat) /\ Len(g) = n + 1
    BY <2>1
  <2>4. g[n + 1] = x /\ \A j \in 1 .. n : g[j] = h[j]
    BY <2>1
  <2> HIDE DEF g, h, x
  <2>5. Append(h, x) \in Seq(Nat \X Nat) /\ Len(Append(h, x)) = n + 1
    BY <2>1, <2>2
  <2>6. Append(h, x)[n + 1] = x /\ \A j \in 1 .. n : Append(h, x)[j] = h[j]
    BY <2>1, <2>2
  <2>7. \A j \in 1 .. (n + 1) : Append(h, x)[j] = g[j]
    <3>1. \A j \in 1 .. (n + 1) : j = n + 1 \/ j \in 1 .. n
      BY <2>1
    <3> QED
      BY <2>4, <2>6, <3>1, Zenon
  <2>8. Append(h, x) = g
    BY <2>3, <2>5, <2>7, SeqEqual
  <2> QED
    BY <2>8 DEF Heard, f, g, h, x
<1> QED
  BY <1>2, <1>4, <1>5, <1>6, <1>7

LEMMA FirstPart ==
  ASSUME NEW m \in Message, Fragmented(m), NEW i, i = FirstPacket(m)
  PROVE  Total(m)[1] = SizeAt(<< i, 1 >>) /\ Heard(m, 1) = << << i, 1 >> >>
<1>1. i \in Nat /\ i + 1 - 1 = i /\ 1 \in 1 .. Len(PartsOf[m])
  BY MessageFacts, StreamDomain, PartFacts
<1>2. PartsOf[m][1] = << i, 1 >>
  <2>1. PartsOf[m][1] = << i + 1 - 1, 1 >>
    BY <1>1, PartsOfFragmented
  <2> QED
    BY <1>1, <2>1
<1>3. Total(m)[1] = SizeAt(<< i, 1 >>)
  <2>1. Total(m)[1] = Total(m)[1 - 1] + SizeAt(PartsOf[m][1]) /\ Total(m)[0] = 0
    BY <1>1, TotalFacts
  <2>2. SizeAt(PartsOf[m][1]) \in Nat
    BY <1>1, PartFacts
  <2> QED
    BY <1>2, <2>1, <2>2
<1>4. Heard(m, 1) = << << i, 1 >> >>
  <2> DEFINE part(j) == << i + j - 1, 1 >>
  <2>1. part(1) = << i, 1 >>
    BY <1>1
  <2> HIDE DEF part
  <2>2. [j \in 1 .. 1 |-> part(j)] = << part(1) >>
    OBVIOUS
  <2>3. Heard(m, 1) = [j \in 1 .. 1 |-> part(j)]
    BY DEF Heard, part
  <2> QED
    BY <2>1, <2>2, <2>3
<1> QED
  BY <1>3, <1>4

(* A part that is appended, and one that is missed.                        *)
LEMMA GatheredGrows ==
  ASSUME NEW m \in Message, Fragmented(m), NEW i \in Packets(m), i # FirstPacket(m),
         NEW data \in Seq(Positions), NEW size \in Nat,
         Gathered(data, size, m, i - FirstPacket(m))
  PROVE  /\ Gathered(Append(data, << i, 1 >>), size + SizeAt(<< i, 1 >>), m,
                     i + 1 - FirstPacket(m))
         /\ Gathered(data, size, m, i + 1 - FirstPacket(m))
<1> DEFINE n == i - FirstPacket(m)
           x == << i, 1 >>
<1>1. /\ n \in Nat /\ n + 1 = i + 1 - FirstPacket(m)
      /\ SizeAt(x) \in Nat /\ SizeAt(x) > 0
      /\ Total(m)[n] \in Nat /\ Total(m)[n + 1] \in Nat
      /\ Total(m)[n + 1] = Total(m)[n] + SizeAt(x)
      /\ Append(Heard(m, n), x) = Heard(m, n + 1)
  BY NextPart
<1>2. x \in Positions
  BY FragmentIs DEF Positions
<1>3. Gathered(data, size, m, n)
  OBVIOUS
<1> HIDE DEF n, x
<1>4. data # << >> /\ data[1] = << FirstPacket(m), 1 >>
      /\ (HasParts(data, size, m, n) \/ size < Total(m)[n])
  BY <1>3 DEF Gathered
<1>5. Append(data, x) # << >> /\ Append(data, x)[1] = data[1]
  <2>1. Len(data) \in Nat /\ Len(data) # 0
    BY <1>4, EmptySeq, LenProperties
  <2>2. 1 \in 1 .. Len(data)
    BY <2>1
  <2>3. /\ Append(data, x) \in Seq(Positions) /\ Len(Append(data, x)) = Len(data) + 1
        /\ Append(data, x)[1] = data[1]
    BY <1>2, <2>2, AppendProperties
  <2>4. Append(data, x) # << >>
    BY <2>1, <2>3, EmptySeq
  <2> QED
    BY <2>3, <2>4
<1>6. HasParts(data, size, m, n) => HasParts(Append(data, x), size + SizeAt(x), m, n + 1)
  BY <1>1 DEF HasParts
<1>7. size < Total(m)[n] => size + SizeAt(x) < Total(m)[n + 1]
  BY <1>1
<1>8. Gathered(Append(data, x), size + SizeAt(x), m, n + 1)
  BY <1>4, <1>5, <1>6, <1>7 DEF Gathered
<1>9. size < Total(m)[n + 1]
  BY <1>1, <1>4 DEF HasParts
<1>10. Gathered(data, size, m, n + 1)
  BY <1>4, <1>9 DEF Gathered
<1> QED
  BY <1>1, <1>8, <1>10 DEF x

(* A fragment has one message.                                             *)
LEMMA OneMessage ==
  ASSUME NEW m \in Message, Fragmented(m), NEW i \in Packets(m),
         NEW l \in Message, i \in Packets(l)
  PROVE  l = m
<1>1. i \in DOMAIN Stream /\ ~Stream[i].aggregation
  BY FragmentIs
<1>2. m = MessageAt(<< i, 1 >>)
  BY <1>1, FirstUnit, Zenon
<1>3. l = MessageAt(<< i, 1 >>)
  BY <1>1, FirstUnit, Zenon
<1> QED
  BY <1>2, <1>3

(* A fragment is in a message that is fragmented.                          *)
LEMMA MessageOf ==
  ASSUME NEW i \in DOMAIN Stream, Stream[i].fragmentation # 0,
         NEW m, m = MessageAt(<< i, 1 >>)
  PROVE  /\ m \in Message /\ Fragmented(m) /\ i \in Packets(m)
         /\ ~Stream[i].aggregation
<1>1. ~Stream[i].aggregation
  BY SignallingPacket
<1>2. m \in Message /\ i \in Packets(m)
  BY <1>1, FirstUnit, UnitFacts
<1>3. Fragmented(m)
  <2> SUFFICES ASSUME ~Fragmented(m) PROVE FALSE
    OBVIOUS
  <2>1. /\ FirstPacket(m) \in Nat /\ LastPacket(m) \in Nat
        /\ FirstPacket(m) <= LastPacket(m)
        /\ Packets(m) = FirstPacket(m) .. LastPacket(m)
        /\ Stream[FirstPacket(m)].fragmentation = 0
    BY <1>2, MessageFacts, StreamDomain
  <2>2. i = FirstPacket(m)
    BY <1>2, <2>1 DEF Fragmented
  <2> QED
    BY <2>1, <2>2
<1> QED
  BY <1>1, <1>2, <1>3

(* The fragment that follows while a message is being collected is its.    *)
LEMMA NextFragment ==
  ASSUME InStep, Gathering, NEW i \in DOMAIN Stream, Deliverable(i), ~Repeats(i),
         Stream[i].fragmentation \in {2, 3},
         NEW b, b = Recorded(i), b.state = "Collecting"
  PROVE  \E m \in Message :
           /\ Fragmented(m) /\ i \in Packets(m)
           /\ Gathered(Append(b.data, << i, 1 >>), b.size + SizeAt(<< i, 1 >>), m,
                       i + 1 - FirstPacket(m))
<1>1. /\ b.state = asm.state /\ b.data = asm.data /\ b.size = asm.size
      /\ asm.state # "Initial" => i = at + 1
  BY RecordedFacts
<1>2. asm.state = "Collecting" /\ i = at + 1
  BY <1>1
<1>3. PICK m \in Message : Under(m) /\ Gathered(asm.data, asm.size, m, Reached(m))
  BY <1>2 DEF Gathering
<1>4. PICK l : l = MessageAt(<< i, 1 >>)
  OBVIOUS
<1>5. l \in Message /\ Fragmented(l) /\ i \in Packets(l)
  BY <1>4, MessageOf
<1>6. i # FirstPacket(l)
  <2>1. Stream[i].fragmentation # 1
    OBVIOUS
  <2> QED
    BY <1>5, <2>1, FragmentIs, Zenon
<1>7. i - 1 \in Packets(l) /\ i - 1 = at
  <2>1. at \in Nat
    BY DEF InStep
  <2> QED
    BY <1>2, <1>5, <1>6, <2>1, FragmentPlace
<1>8. l = m
  BY <1>3, <1>5, <1>7, OneMessage DEF Under
<1>9. Reached(m) = i - FirstPacket(m)
  <2>1. at \in Nat
    BY DEF InStep
  <2>2. FirstPacket(m) \in Nat
    BY <1>5, <1>8, FragmentPlace
  <2> QED
    BY <1>2, <2>1, <2>2 DEF Reached
<1>10. asm.data \in Seq(Positions) /\ asm.size \in Nat
  BY DEF InStep, SignallingAssemblers
<1>11. Gathered(Append(b.data, << i, 1 >>), b.size + SizeAt(<< i, 1 >>), m,
                i + 1 - FirstPacket(m))
  BY <1>1, <1>3, <1>5, <1>6, <1>8, <1>9, <1>10, GatheredGrows
<1> QED
  BY <1>5, <1>8, <1>11

-----------------------------------------------------------------------------
(* A message whose packets all came since the first of them is collected   *)
(* whole so far.  A packet read before there is a state is the last of a   *)
(* message whose beginning did not come.                                   *)
HeardSince(m) ==
  /\ Under(m) /\ at < LastPacket(m)
  /\ since # 0 /\ since <= FirstPacket(m)
  /\ Total(m)[Reached(m)] <= MaxMessage

Following ==
  /\ \A m \in Message : HeardSince(m) =>
       asm.state = "Collecting" /\ HasParts(asm.data, asm.size, m, Reached(m))
  /\ asm.state = "Initial" /\ at # 0 => refused > 0 \/ Stream[at].fragmentation = 3

LEMMA RunFragment ==
  ASSUME InStep, Following, NEW i \in DOMAIN Stream, Deliverable(i), ~Repeats(i), Read(i),
         NEW m \in Message, Fragmented(m), i \in Packets(m), i # FirstPacket(m),
         since' # 0, since' <= FirstPacket(m),
         Total(m)[i + 1 - FirstPacket(m)] <= MaxMessage,
         NEW b, b = Recorded(i)
  PROVE  /\ b.state = "Collecting"
         /\ HasParts(Append(b.data, << i, 1 >>), b.size + SizeAt(<< i, 1 >>), m,
                     i + 1 - FirstPacket(m))
         /\ b.size + SizeAt(<< i, 1 >>) <= MaxMessage
<1> DEFINE n == i - FirstPacket(m)
<1>1. /\ i \in Nat /\ FirstPacket(m) \in Nat /\ LastPacket(m) \in Nat
      /\ FirstPacket(m) <= i /\ i <= LastPacket(m) /\ i - 1 \in Packets(m)
  BY FragmentPlace
<1>2. since' # i
  BY <1>1
<1>3. i = at + 1 /\ since' = since
  BY <1>2 DEF Read, InOrder
<1>4. at = i - 1 /\ at \in Packets(m) /\ at < LastPacket(m) /\ Reached(m) = n
  <2>1. at \in Nat
    BY DEF InStep
  <2> QED
    BY <1>1, <1>3, <2>1 DEF Reached
<1>5. /\ n + 1 = i + 1 - FirstPacket(m)
      /\ SizeAt(<< i, 1 >>) \in Nat
      /\ Total(m)[n] \in Nat /\ Total(m)[n + 1] \in Nat
      /\ Total(m)[n + 1] = Total(m)[n] + SizeAt(<< i, 1 >>)
      /\ Append(Heard(m, n), << i, 1 >>) = Heard(m, n + 1)
  BY NextPart
<1>6. MaxMessage \in Nat
  BY LimitsAssumption
<1> HIDE DEF n
<1>7. Total(m)[n] <= MaxMessage
  BY <1>5, <1>6
<1>8. HeardSince(m)
  BY <1>3, <1>4, <1>7 DEF HeardSince, Under
<1>9. asm.state = "Collecting" /\ HasParts(asm.data, asm.size, m, n)
  BY <1>4, <1>8 DEF Following
<1>10. b.state = asm.state /\ b.data = asm.data /\ b.size = asm.size
  BY <1>3, RecordedFacts
<1>11. HasParts(Append(b.data, << i, 1 >>), b.size + SizeAt(<< i, 1 >>), m, n + 1)
  BY <1>5, <1>9, <1>10 DEF HasParts
<1>12. b.size + SizeAt(<< i, 1 >>) <= MaxMessage
  BY <1>5, <1>11 DEF HasParts
<1> QED
  BY <1>5, <1>9, <1>10, <1>11, <1>12
-----------------------------------------------------------------------------
(* What is collected is the beginning of one message, short of at most one *)
(* part, as long as no two payloads in a row are refused.                  *)
LEMMA UnaggregatedGathers ==
  ASSUME InStep, Gathering, NEW i \in DOMAIN Stream, Unaggregated(i)
  PROVE  Gathering'
<1> DEFINE b == Recorded(i)
           r == ByFragmentation(b, i)
           size == SizeAt(<< i, 1 >>)
<1>1. /\ Deliverable(i) /\ ~Repeats(i) /\ ~Stream[i].aggregation
      /\ asm' = r.asm /\ at' = i
  BY DEF Unaggregated, Read
<1>2. b \in SignallingAssemblers
  BY <1>1, RecordedFacts
<1> SUFFICES ASSUME asm'.state = "Collecting"
             PROVE  \E m \in Message :
                      /\ Fragmented(m) /\ i \in Packets(m) /\ i # LastPacket(m)
                      /\ Gathered(asm'.data, asm'.size, m, i + 1 - FirstPacket(m))
  BY <1>1 DEF Gathering, Under, Reached
<1> HIDE DEF r
<1>3. Stream[i].fragmentation \in {1, 2}
  <2>1. Stream[i].fragmentation # 0
    BY <1>1, <1>2, CompleteIs DEF r
  <2>2. Stream[i].fragmentation # 3
    BY <1>1, <1>2, LastIs DEF r
  <2> QED
    BY <2>1, <2>2, FragmentationIs
<1>4. CASE Stream[i].fragmentation = 1
  <2>1. PICK m : m = MessageAt(<< i, 1 >>)
    OBVIOUS
  <2>2. m \in Message /\ Fragmented(m) /\ i \in Packets(m)
    BY <1>4, <2>1, MessageOf
  <2>3. i = FirstPacket(m) /\ i # LastPacket(m)
    <3>1. Stream[i].fragmentation # 3
      BY <1>4
    <3> QED
      BY <1>4, <2>2, <3>1, FragmentIs, Zenon
  <2>4. asm'.data = << << i, 1 >> >> /\ asm'.size = size
    BY <1>1, <1>2, <1>4, FirstIs DEF r
  <2>5. i \in Nat /\ i + 1 - FirstPacket(m) = 1 /\ 1 \in 1 .. Len(PartsOf[m])
    BY <2>2, <2>3, FragmentPlace
  <2>6. Total(m)[1] = size /\ Heard(m, 1) = << << i, 1 >> >>
    BY <2>2, <2>3, FirstPart
  <2>8. asm'.data # << >> /\ asm'.data[1] = << FirstPacket(m), 1 >>
    BY <2>3, <2>4
  <2>9. Gathered(asm'.data, asm'.size, m, 1)
    BY <2>4, <2>6, <2>8 DEF Gathered, HasParts
  <2> QED
    BY <2>2, <2>3, <2>5, <2>9
<1>5. CASE Stream[i].fragmentation = 2
  <2>1. /\ b.state = "Collecting"
        /\ asm'.data = Append(b.data, << i, 1 >>)
        /\ asm'.size = b.size + size
    BY <1>1, <1>2, <1>5, MiddleIs DEF r
  <2> HIDE DEF b
  <2>2. PICK m \in Message :
          /\ Fragmented(m) /\ i \in Packets(m)
          /\ Gathered(Append(b.data, << i, 1 >>), b.size + size, m, i + 1 - FirstPacket(m))
    BY <1>1, <1>5, <2>1, NextFragment DEF b
  <2>3. i # LastPacket(m)
    <3>1. Stream[i].fragmentation # 3
      BY <1>5
    <3> QED
      BY <2>2, <3>1, FragmentIs, Zenon
  <2> QED
    BY <2>1, <2>2, <2>3
<1> QED
  BY <1>3, <1>4, <1>5

LEMMA RefusedGathers ==
  ASSUME MaxRefused <= 1, InStep, Gathering,
         NEW i \in DOMAIN Stream, NEW n \in 0 .. (Len(Stream[i].units) - 1), RefusePayload(i, n)
  PROVE  Gathering'
<1> DEFINE b == Recorded(i)
<1>1. /\ Deliverable(i) /\ ~Repeats(i) /\ asm' = b /\ at' = i
      /\ refused < MaxRefused /\ refused' = refused + 1
  BY DEF RefusePayload
<1>2. refused = 0 /\ refused' = 1
  BY <1>1, LimitsAssumption DEF InStep
<1> HIDE DEF b
<1> SUFFICES ASSUME b.state = "Collecting"
             PROVE  \E m \in Message :
                      /\ Fragmented(m) /\ i \in Packets(m)
                      /\ Gathered(b.data, b.size, m, i + 1 - FirstPacket(m))
  BY <1>1, <1>2 DEF Gathering, Under, Reached
<1>3. /\ b.state = asm.state /\ b.data = asm.data /\ b.size = asm.size
      /\ asm.state # "Initial" => i = at + 1
  BY <1>1, RecordedFacts DEF b
<1>4. asm.state = "Collecting" /\ i = at + 1
  BY <1>3
<1>5. PICK m \in Message :
        /\ Under(m) /\ at # LastPacket(m)
        /\ Gathered(asm.data, asm.size, m, Reached(m))
  BY <1>2, <1>4 DEF Gathering
<1>6. Fragmented(m) /\ at \in Packets(m)
  BY <1>5 DEF Under
<1>7. /\ at \in Nat /\ FirstPacket(m) \in Nat /\ FirstPacket(m) <= at
      /\ at + 1 \in Packets(m)
  BY <1>5, <1>6, FragmentPlace
<1>8. i \in Packets(m) /\ i # FirstPacket(m) /\ Reached(m) = i - FirstPacket(m)
  BY <1>4, <1>7 DEF Reached
<1>9. asm.data \in Seq(Positions) /\ asm.size \in Nat
  BY DEF InStep, SignallingAssemblers
<1>10. Gathered(asm.data, asm.size, m, i + 1 - FirstPacket(m))
  BY <1>5, <1>6, <1>8, <1>9, GatheredGrows
<1> QED
  BY <1>3, <1>6, <1>8, <1>10

LEMMA StepGathers ==
  ASSUME MaxRefused <= 1, InStep, Gathering, [ReassemblyNext]_reassemblyVars
  PROVE  Gathering'
<1>1. ASSUME NEW i \in DOMAIN Stream, Unread(i) PROVE Gathering'
  BY <1>1 DEF Unread, Gathering, Under, Reached
<1>2. ASSUME NEW i \in DOMAIN Stream, Repeat(i) PROVE Gathering'
  BY <1>2 DEF Repeat, Gathering, Under, Reached
<1>3. ASSUME NEW i \in DOMAIN Stream, Aggregated(i) PROVE Gathering'
  <2> DEFINE b == Recorded(i)
  <2>1. Deliverable(i) /\ ~Repeats(i) /\ asm' = [b EXCEPT !.state = "Idle"]
    BY <1>3 DEF Aggregated
  <2>2. b \in SignallingAssemblers
    BY <2>1, RecordedFacts
  <2> HIDE DEF b
  <2>3. asm'.state = "Idle"
    BY <2>1, <2>2, StateAssembler DEF AssemblerStates
  <2> QED
    BY <2>3 DEF Gathering
<1>4. CASE FlushMessages
  <2>1. asm'.state = "Initial"
    BY <1>4 DEF FlushMessages, Fresh, Assembler
  <2> QED
    BY <2>1 DEF Gathering
<1>5. CASE UNCHANGED reassemblyVars
  BY <1>5 DEF reassemblyVars, Gathering, Under, Reached
<1> QED
  BY <1>1, <1>2, <1>3, <1>4, <1>5, UnaggregatedGathers, RefusedGathers DEF ReassemblyNext

(* What passes the length check is a whole message.                        *)
WholeOrRaw(units) ==
  \A k \in DOMAIN units :
    Format[MessageAt(units[k][1])] # "raw" => \E m \in Message : units[k] = PartsOf[m]

LEMMA NoTables == WholeOrRaw(<< >>)
BY DEF WholeOrRaw

LEMMA UnitTables ==
  ASSUME NEW i \in DOMAIN Stream, Stream[i].fragmentation = 0,
         NEW n \in 0 .. Len(Stream[i].units)
  PROVE  WholeOrRaw(AcceptedUnits(i, n))
<1> DEFINE units == AcceptedUnits(i, n)
<1>1. units \in Seq(UnitsUpTo(i, n))
  BY AcceptedUnitsFacts
<1> HIDE DEF units
<1>2. ASSUME NEW x \in DOMAIN units PROVE \E m \in Message : units[x] = PartsOf[m]
  <2>1. units[x] \in UnitsUpTo(i, n)
    BY <1>1
  <2>2. PICK k \in 1 .. n : units[x] = << << i, k >> >>
    BY <2>1 DEF UnitsUpTo
  <2>3. k \in DOMAIN Stream[i].units
    <3>1. Stream[i].units \in Seq([message : Message, size : Nat \ {0}])
      BY SignallingPacket
    <3>2. DOMAIN Stream[i].units = 1 .. Len(Stream[i].units) /\ Len(Stream[i].units) \in Nat
      BY <3>1, LenProperties
    <3> QED
      BY <3>2
  <2>4. PartsOf[MessageAt(<< i, k >>)] = << << i, k >> >> /\ MessageAt(<< i, k >>) \in Message
    BY <2>3, PartsOfUnit, UnitFacts
  <2> QED
    BY <2>2, <2>4
<1> QED
  BY <1>2 DEF WholeOrRaw, units

LEMMA LastTables ==
  ASSUME NEW m \in Message, Fragmented(m), NEW parts, NEW size \in Nat,
         Gathered(parts, size, m, Len(PartsOf[m]))
  PROVE  WholeOrRaw(Accepted(parts, size))
<1>1. Len(PartsOf[m]) \in Nat /\ Total(m)[Len(PartsOf[m])] = Declared[m] /\ Declared[m] \in Nat
  <2>1. Len(PartsOf[m]) \in Nat
    BY PartFacts
  <2>2. Total(m)[Len(PartsOf[m])] \in Nat /\ Bytes(m) = Total(m)[Len(PartsOf[m])]
    BY <2>1, TotalFacts
  <2> QED
    BY <2>1, <2>2 DEF Declared
<1>2. MessageAt(parts[1]) = m
  <2>1. FirstPacket(m) \in Packets(m)
    BY MessageFacts, StreamDomain
  <2>2. MessageAt(<< FirstPacket(m), 1 >>) = m
    BY <2>1, FragmentIs
  <2> QED
    BY <2>2 DEF Gathered
<1>3. Format[m] \in {"pa", "m2", "raw"}
  BY FormatAssumption
<1>4. CASE HasParts(parts, size, m, Len(PartsOf[m]))
  <2>1. parts = PartsOf[m]
    BY <1>4, PartsOfFragmented DEF HasParts
  <2>2. WholeOrRaw(<< parts >>)
    BY <2>1 DEF WholeOrRaw
  <2> QED
    BY <2>2, NoTables DEF Accepted
<1>5. CASE size < Declared[m]
  <2>1. CASE Format[m] = "raw"
    <3>1. WholeOrRaw(<< parts >>)
      BY <1>2, <2>1 DEF WholeOrRaw
    <3> QED
      BY <3>1, NoTables DEF Accepted
  <2>2. CASE Format[m] # "raw"
    <3>1. ~(Declared[m] <= size) /\ Declared[m] # size
      BY <1>1, <1>5
    <3>2. ~Valid(parts, size)
      BY <1>2, <1>3, <2>2, <3>1 DEF Valid
    <3> QED
      BY <3>2, NoTables DEF Accepted
  <2> QED
    BY <2>1, <2>2
<1> QED
  BY <1>1, <1>4, <1>5 DEF Gathered

LEMMA UnaggregatedTables ==
  ASSUME InStep, Gathering, NEW i \in DOMAIN Stream, Unaggregated(i)
  PROVE  WholeOrRaw(out')
<1> DEFINE b == Recorded(i)
           r == ByFragmentation(b, i)
           size == SizeAt(<< i, 1 >>)
<1>1. /\ Deliverable(i) /\ ~Repeats(i) /\ ~Stream[i].aggregation /\ out' = r.units
  BY DEF Unaggregated
<1>2. b \in SignallingAssemblers
  BY <1>1, RecordedFacts
<1> HIDE DEF r
<1>3. CASE Stream[i].fragmentation = 0
  <2>1. out' = Accepted(<< << i, 1 >> >>, size)
    BY <1>1, <1>2, <1>3, CompleteIs DEF r
  <2>2. 1 \in DOMAIN Stream[i].units
    BY <1>1, FirstUnit
  <2>3. PartsOf[MessageAt(<< i, 1 >>)] = << << i, 1 >> >> /\ MessageAt(<< i, 1 >>) \in Message
    BY <1>3, <2>2, PartsOfUnit, UnitFacts
  <2>4. WholeOrRaw(<< << << i, 1 >> >> >>)
    BY <2>3 DEF WholeOrRaw
  <2> QED
    BY <2>1, <2>4, NoTables DEF Accepted
<1>4. CASE Stream[i].fragmentation = 1
  <2>1. out' = << >>
    BY <1>1, <1>2, <1>4, FirstIs DEF r
  <2> QED
    BY <2>1, NoTables
<1>5. CASE Stream[i].fragmentation = 2
  <2>1. out' = << >>
    BY <1>1, <1>2, <1>5, MiddleIs DEF r
  <2> QED
    BY <2>1, NoTables
<1>6. CASE Stream[i].fragmentation = 3
  <2> DEFINE parts == Append(b.data, << i, 1 >>)
  <2>1. out' = IF b.state = "Collecting" /\ b.size + size <= MaxMessage
               THEN Accepted(parts, b.size + size) ELSE << >>
    BY <1>1, <1>2, <1>6, LastIs DEF r
  <2>2. CASE b.state = "Collecting"
    <3>1. PICK m \in Message :
            /\ Fragmented(m) /\ i \in Packets(m)
            /\ Gathered(parts, b.size + size, m, i + 1 - FirstPacket(m))
      BY <1>1, <1>6, <2>2, NextFragment
    <3>2. i = LastPacket(m)
      BY <1>6, <3>1, FragmentIs
    <3>3. i + 1 - FirstPacket(m) = Len(PartsOf[m])
      BY <3>1, <3>2, FragmentPlace
    <3>4. b.size + size \in Nat
      BY <1>1, <1>2, FirstUnit, UnitFacts DEF SignallingAssemblers
    <3> HIDE DEF b, size, parts
    <3>5. WholeOrRaw(Accepted(parts, b.size + size))
      BY <3>1, <3>3, <3>4, LastTables
    <3> QED
      BY <2>1, <3>5, NoTables
  <2>3. CASE b.state # "Collecting"
    <3>1. out' = << >>
      BY <2>1, <2>3
    <3> QED
      BY <3>1, NoTables
  <2> QED
    BY <2>2, <2>3
<1> QED
  BY <1>3, <1>4, <1>5, <1>6, FragmentationIs

LEMMA StepTables ==
  ASSUME InStep, Gathering, WholeOrRaw(out), [ReassemblyNext]_reassemblyVars
  PROVE  WholeOrRaw(out')
<1>1. ASSUME NEW i \in DOMAIN Stream, Unread(i) \/ Repeat(i) PROVE WholeOrRaw(out')
  <2>1. out' = << >>
    BY <1>1 DEF Unread, Repeat
  <2> QED
    BY <2>1, NoTables
<1>2. ASSUME NEW i \in DOMAIN Stream, Aggregated(i) PROVE WholeOrRaw(out')
  <2>1. Stream[i].aggregation /\ out' = AcceptedUnits(i, Len(Stream[i].units))
    BY <1>2 DEF Aggregated
  <2>2. Stream[i].fragmentation = 0 /\ Len(Stream[i].units) \in 0 .. Len(Stream[i].units)
    <3>1. Stream[i].units \in Seq([message : Message, size : Nat \ {0}])
      BY SignallingPacket
    <3>2. Len(Stream[i].units) \in Nat
      BY <3>1, LenProperties
    <3> QED
      BY <2>1, <3>2, SignallingPacket
  <2> QED
    BY <2>1, <2>2, UnitTables
<1>3. ASSUME NEW i \in DOMAIN Stream, NEW n \in 0 .. (Len(Stream[i].units) - 1), RefusePayload(i, n)
      PROVE  WholeOrRaw(out')
  <2>1. out' = IF Stream[i].aggregation THEN AcceptedUnits(i, n) ELSE << >>
    BY <1>3 DEF RefusePayload
  <2>2. n \in 0 .. Len(Stream[i].units)
    <3>1. Stream[i].units \in Seq([message : Message, size : Nat \ {0}])
      BY SignallingPacket
    <3>2. Len(Stream[i].units) \in Nat
      BY <3>1, LenProperties
    <3> QED
      BY <3>2
  <2>3. CASE Stream[i].aggregation
    <3>1. Stream[i].fragmentation = 0
      BY <2>3, SignallingPacket
    <3> QED
      BY <2>1, <2>2, <2>3, <3>1, UnitTables
  <2>4. CASE ~Stream[i].aggregation
    BY <2>1, <2>4, NoTables
  <2> QED
    BY <2>3, <2>4
<1>4. CASE FlushMessages
  <2>1. out' = << >>
    BY <1>4 DEF FlushMessages
  <2> QED
    BY <2>1, NoTables
<1>5. CASE UNCHANGED reassemblyVars
  <2>1. out' = out
    BY <1>5 DEF reassemblyVars
  <2> QED
    BY <2>1
<1> QED
  BY <1>1, <1>2, <1>3, <1>4, <1>5, UnaggregatedTables DEF ReassemblyNext

(***************************************************************************)
(* Tables are read from whole messages only (parse_pa_message and the      *)
(* other length checks of accept_signalling_unit), as long as no two       *)
(* payloads in a row are refused.                                          *)
(***************************************************************************)
THEOREM TablesAreWhole ==
  ASSUME MaxRefused <= 1
  PROVE  ReassemblySpec => []WholeTables
<1> DEFINE IInv == InStep /\ Gathering /\ WholeOrRaw(out)
<1>1. ReassemblyInit => IInv
  <2>1. ReassemblyInit => out = << >> /\ asm.state = "Initial"
    BY DEF ReassemblyInit, Fresh, Assembler
  <2> QED
    BY <2>1, InitInStep, NoTables DEF Gathering
<1>2. IInv /\ [ReassemblyNext]_reassemblyVars => IInv'
  <2> SUFFICES ASSUME IInv, [ReassemblyNext]_reassemblyVars PROVE IInv'
    OBVIOUS
  <2>1. InStep' /\ Gathering'
    BY StepInStep, StepGathers
  <2>2. WholeOrRaw(out')
    BY StepTables
  <2>3. WholeOrRaw(out)'
    BY <2>2 DEF WholeOrRaw
  <2> QED
    BY <2>1, <2>3
<1>3. IInv => WholeTables
  <2> SUFFICES ASSUME IInv PROVE WholeTables
    OBVIOUS
  <2>1. ReassemblyTypeOK
    BY DEF InStep, SignallingAssemblers, AssemblerStates, Positions, ReassemblyTypeOK
  <2> QED
    BY <2>1 DEF WholeTables, WholeOrRaw
<1> HIDE DEF IInv
<1> QED
  BY <1>1, <1>2, <1>3, PTL DEF ReassemblySpec
-----------------------------------------------------------------------------
(* Messages are delivered once.                                            *)
LEMMA UnaggregatedFollows ==
  ASSUME InStep, Following, NEW i \in DOMAIN Stream, Unaggregated(i)
  PROVE  Following'
<1> DEFINE b == Recorded(i)
           r == ByFragmentation(b, i)
           size == SizeAt(<< i, 1 >>)
<1>1. /\ Deliverable(i) /\ ~Repeats(i) /\ ~Stream[i].aggregation
      /\ asm' = r.asm /\ Read(i) /\ at' = i
  BY DEF Unaggregated, Read
<1>2. b \in SignallingAssemblers
  BY <1>1, RecordedFacts
<1> HIDE DEF r
<1>3. ASSUME asm'.state = "Initial"
      PROVE  Stream[i].fragmentation = 3
  <2>1. Stream[i].fragmentation # 0
    BY <1>1, <1>2, <1>3, CompleteIs DEF r
  <2>2. Stream[i].fragmentation # 1
    BY <1>1, <1>2, <1>3, FirstIs DEF r
  <2>3. Stream[i].fragmentation # 2
    BY <1>1, <1>2, <1>3, MiddleIs DEF r
  <2> QED
    BY <2>1, <2>2, <2>3, FragmentationIs
<1>4. ASSUME NEW m \in Message, Fragmented(m), i \in Packets(m), i < LastPacket(m),
             since' # 0, since' <= FirstPacket(m),
             Total(m)[i + 1 - FirstPacket(m)] <= MaxMessage
      PROVE  /\ asm'.state = "Collecting"
             /\ HasParts(asm'.data, asm'.size, m, i + 1 - FirstPacket(m))
  <2>1. i \in Nat /\ i # LastPacket(m)
    BY <1>4, FragmentPlace
  <2>2. CASE i = FirstPacket(m)
    <3>1. Stream[i].fragmentation = 1
      BY <1>4, <2>2, FragmentIs
    <3>2. i + 1 - FirstPacket(m) = 1 /\ 1 \in 1 .. Len(PartsOf[m])
      BY <1>4, <2>1, <2>2, FragmentPlace
    <3>3. Total(m)[1] = size /\ Heard(m, 1) = << << i, 1 >> >>
      BY <1>4, <2>2, FirstPart
    <3>4. size <= MaxMessage
      BY <1>4, <3>2, <3>3
    <3>5. asm'.state = "Collecting" /\ asm'.data = << << i, 1 >> >> /\ asm'.size = size
      BY <1>1, <1>2, <3>1, <3>4, FirstIs DEF r
    <3> QED
      BY <3>2, <3>3, <3>5 DEF HasParts
  <2>3. CASE i # FirstPacket(m)
    <3>1. Stream[i].fragmentation = 2
      <4>1. Stream[i].fragmentation # 1 /\ Stream[i].fragmentation # 3
            /\ Stream[i].fragmentation \in 1 .. 3
        BY <1>4, <2>1, <2>3, FragmentIs, Zenon
      <4> QED
        BY <4>1
    <3>2. /\ b.state = "Collecting"
          /\ HasParts(Append(b.data, << i, 1 >>), b.size + size, m, i + 1 - FirstPacket(m))
          /\ b.size + size <= MaxMessage
      BY <1>1, <1>4, <2>3, RunFragment
    <3>3. /\ asm'.state = "Collecting"
          /\ asm'.data = Append(b.data, << i, 1 >>)
          /\ asm'.size = b.size + size
      BY <1>1, <1>2, <3>1, <3>2, MiddleIs DEF r
    <3> QED
      BY <3>2, <3>3
  <2> QED
    BY <2>2, <2>3
<1> QED
  BY <1>1, <1>3, <1>4 DEF Following, HeardSince, Under, Reached

LEMMA StepFollows == InStep /\ Following /\ [ReassemblyNext]_reassemblyVars => Following'
<1> SUFFICES ASSUME InStep, Following, [ReassemblyNext]_reassemblyVars
             PROVE  Following'
  OBVIOUS
<1>1. ASSUME NEW i \in DOMAIN Stream, Unread(i) PROVE Following'
  BY <1>1 DEF Unread, Following, HeardSince
<1>2. ASSUME NEW i \in DOMAIN Stream, Repeat(i) PROVE Following'
  BY <1>2 DEF Repeat, Following, HeardSince, Under, Reached
<1>3. ASSUME NEW i \in DOMAIN Stream, Aggregated(i) PROVE Following'
  <2> DEFINE b == Recorded(i)
  <2>1. /\ Deliverable(i) /\ ~Repeats(i) /\ Stream[i].aggregation
        /\ asm' = [b EXCEPT !.state = "Idle"] /\ at' = i
    BY <1>3 DEF Aggregated, Read
  <2>2. b \in SignallingAssemblers
    BY <2>1, RecordedFacts
  <2> HIDE DEF b
  <2>3. asm'.state = "Idle"
    BY <2>1, <2>2, StateAssembler DEF AssemblerStates
  <2>4. \A m \in Message : ~(Fragmented(m) /\ i \in Packets(m))
    BY <2>1, FragmentIs
  <2> QED
    BY <2>1, <2>3, <2>4 DEF Following, HeardSince, Under
<1>4. ASSUME NEW i \in DOMAIN Stream, NEW n \in 0 .. (Len(Stream[i].units) - 1), RefusePayload(i, n)
      PROVE  Following'
  <2>1. since' = 0 /\ refused' = refused + 1
    BY <1>4 DEF RefusePayload
  <2>2. refused' > 0
    BY <2>1 DEF InStep
  <2> QED
    BY <2>1, <2>2 DEF Following, HeardSince
<1>5. CASE FlushMessages
  BY <1>5 DEF FlushMessages, Following, HeardSince
<1>6. CASE UNCHANGED reassemblyVars
  BY <1>6 DEF reassemblyVars, Following, HeardSince, Under, Reached
<1> QED
  BY <1>1, <1>2, <1>3, <1>4, <1>5, <1>6, UnaggregatedFollows DEF ReassemblyNext

(* A message whose last packet is read with all before it is accepted.     *)
LEMMA WholeAccepted ==
  ASSUME NEW m \in Message, Declared[m] \in 2 .. MaxMessage,
         MessageAt(PartsOf[m][1]) = m
  PROVE  Accepted(PartsOf[m], Declared[m]) = << PartsOf[m] >>
<1>1. Format[m] \in {"pa", "m2", "raw"}
  BY FormatAssumption
<1>2. Declared[m] \in Nat /\ Declared[m] >= 2 /\ Declared[m] <= Declared[m]
  BY LimitsAssumption
<1>3. Valid(PartsOf[m], Declared[m])
  BY <1>1, <1>2 DEF Valid
<1> QED
  BY <1>2, <1>3 DEF Accepted

LEMMA UnaggregatedDelivers ==
  ASSUME InStep, Following, NEW i \in DOMAIN Stream, Unaggregated(i),
         NEW m \in Message, LastPacket(m) = i, since' # 0, since' <= FirstPacket(m),
         Declared[m] \in 2 .. MaxMessage
  PROVE  out' = << PartsOf[m] >>
<1> DEFINE b == Recorded(i)
           r == ByFragmentation(b, i)
           size == SizeAt(<< i, 1 >>)
<1>1. /\ Deliverable(i) /\ ~Repeats(i) /\ ~Stream[i].aggregation
      /\ out' = r.units /\ Read(i)
  BY DEF Unaggregated
<1>2. b \in SignallingAssemblers
  BY <1>1, RecordedFacts
<1>3. i \in Packets(m)
  BY MessageFacts, StreamDomain
<1>4. m = MessageAt(<< i, 1 >>) /\ 1 \in DOMAIN Stream[i].units
  BY <1>1, <1>3, FirstUnit, Zenon
<1> HIDE DEF r
<1>5. CASE Stream[i].fragmentation = 0
  <2>1. out' = Accepted(<< << i, 1 >> >>, size)
    BY <1>1, <1>2, <1>5, CompleteIs DEF r
  <2>2. PartsOf[m] = << << i, 1 >> >>
    BY <1>4, <1>5, PartsOfUnit
  <2>3. Declared[m] = size
    <3>1. Len(PartsOf[m]) = 1 /\ PartsOf[m][1] = << i, 1 >>
      BY <2>2
    <3>2. Bytes(m) = Total(m)[1] /\ Total(m)[0] = 0
          /\ \A n \in 1 .. 1 : Total(m)[n] = Total(m)[n - 1] + SizeAt(PartsOf[m][n])
      BY <3>1, TotalFacts
    <3>3. Total(m)[1] = 0 + size /\ size \in Nat
      BY <1>4, <3>1, <3>2, UnitFacts
    <3> QED
      BY <3>2, <3>3 DEF Declared
  <2>4. MessageAt(PartsOf[m][1]) = m
    BY <1>4, <2>2
  <2> QED
    BY <2>1, <2>2, <2>3, <2>4, WholeAccepted
<1>6. CASE Stream[i].fragmentation # 0
  <2>1. Fragmented(m)
    BY <1>4, <1>6, MessageOf
  <2>2. i # FirstPacket(m) /\ Stream[i].fragmentation = 3
    <3>1. Stream[i].fragmentation = 3
      BY <1>3, <2>1, FragmentIs
    <3>2. Stream[i].fragmentation # 1
      BY <3>1
    <3> QED
      BY <1>3, <2>1, <3>1, <3>2, FragmentIs, Zenon
  <2>3. i + 1 - FirstPacket(m) = Len(PartsOf[m])
    BY <1>3, <2>1, FragmentPlace
  <2>4. Total(m)[Len(PartsOf[m])] = Declared[m]
    BY TotalFacts DEF Declared
  <2>5. Declared[m] <= MaxMessage
    BY LimitsAssumption
  <2>6. /\ b.state = "Collecting"
        /\ HasParts(Append(b.data, << i, 1 >>), b.size + size, m, i + 1 - FirstPacket(m))
        /\ b.size + size <= MaxMessage
    BY <1>1, <1>3, <2>1, <2>2, <2>3, <2>4, <2>5, RunFragment
  <2>7. Append(b.data, << i, 1 >>) = PartsOf[m] /\ b.size + size = Declared[m]
    BY <2>1, <2>3, <2>4, <2>6, PartsOfFragmented DEF HasParts
  <2>8. out' = Accepted(Append(b.data, << i, 1 >>), b.size + size)
    BY <1>1, <1>2, <2>2, <2>6, LastIs DEF r
  <2>9. MessageAt(PartsOf[m][1]) = m
    <3>1. 1 \in 1 .. Len(PartsOf[m])
      BY PartFacts
    <3>2. PartsOf[m][1] = << FirstPacket(m) + 1 - 1, 1 >>
      BY <2>1, <3>1, PartsOfFragmented
    <3>3. FirstPacket(m) + 1 - 1 = FirstPacket(m) /\ FirstPacket(m) \in Packets(m)
      BY MessageFacts, StreamDomain
    <3> QED
      BY <2>1, <3>2, <3>3, FragmentIs
  <2> QED
    BY <2>7, <2>8, <2>9, WholeAccepted
<1> QED
  BY <1>5, <1>6

LEMMA AggregatedDelivers ==
  ASSUME NEW i \in DOMAIN Stream, Aggregated(i),
         NEW m \in Message, LastPacket(m) = i,
         Declared[m] \in 2 .. MaxMessage
  PROVE  \E x \in DOMAIN out' : out'[x] = PartsOf[m]
<1> DEFINE n == Len(Stream[i].units)
<1>1. Stream[i].aggregation /\ out' = AcceptedUnits(i, n)
  BY DEF Aggregated
<1>2. Stream[i].fragmentation = 0 /\ n \in Nat /\ DOMAIN Stream[i].units = 1 .. n
  <2>1. Stream[i].units \in Seq([message : Message, size : Nat \ {0}])
    BY SignallingPacket
  <2>2. n \in Nat /\ DOMAIN Stream[i].units = 1 .. n
    BY <2>1, LenProperties
  <2> QED
    BY <1>1, <2>2, SignallingPacket
<1>3. i \in Packets(m)
  BY MessageFacts, StreamDomain
<1>4. PICK k \in DOMAIN Stream[i].units : Stream[i].units[k].message = m
  BY <1>3 DEF Packets, Holds
<1>5. m = MessageAt(<< i, k >>)
  BY <1>4 DEF MessageAt
<1>6. PartsOf[m] = << << i, k >> >>
  BY <1>2, <1>4, <1>5, PartsOfUnit
<1>7. Declared[m] = SizeAt(<< i, k >>)
  <2>1. Len(PartsOf[m]) = 1 /\ PartsOf[m][1] = << i, k >>
    BY <1>6
  <2>2. Bytes(m) = Total(m)[1] /\ Total(m)[0] = 0
        /\ \A j \in 1 .. 1 : Total(m)[j] = Total(m)[j - 1] + SizeAt(PartsOf[m][j])
    BY <2>1, TotalFacts
  <2>3. Total(m)[1] = 0 + SizeAt(<< i, k >>) /\ SizeAt(<< i, k >>) \in Nat
    BY <1>4, <2>1, <2>2, UnitFacts
  <2> QED
    BY <2>2, <2>3 DEF Declared
<1> HIDE DEF n
<1>8. SizeAt(<< i, k >>) >= 2 /\ k \in 1 .. n /\ n \in 0 .. n
  BY <1>2, <1>7, LimitsAssumption
<1>9. \E x \in DOMAIN AcceptedUnits(i, n) : AcceptedUnits(i, n)[x] = << << i, k >> >>
  BY <1>2, <1>8, AcceptedUnitsFacts DEF n
<1> QED
  BY <1>1, <1>6, <1>9

DeliveredOnce ==
  /\ at' # at => \A m \in Message : Arrived(m)' => Delivers(m)
  /\ at' = at /\ refused = 0 => out' = << >>

LEMMA ArrivedIs ==
  ASSUME NEW m \in Message
  PROVE  PartsOf[m][Len(PartsOf[m])][1] = LastPacket(m) /\ PartsOf[m][1][1] = FirstPacket(m)
<1>1. /\ Len(PartsOf[m]) \in Nat /\ Len(PartsOf[m]) >= 1
      /\ Len(PartsOf[m]) = LastPacket(m) + 1 - FirstPacket(m)
  BY PartFacts
<1>2. /\ FirstPacket(m) \in Nat /\ LastPacket(m) \in Nat
      /\ FirstPacket(m) \in DOMAIN Stream /\ FirstPacket(m) \in Packets(m)
      /\ ~Fragmented(m) => Stream[FirstPacket(m)].fragmentation = 0
  BY MessageFacts, StreamDomain
<1>3. CASE Fragmented(m)
  <2>1. \A n \in 1 .. Len(PartsOf[m]) : PartsOf[m][n] = << FirstPacket(m) + n - 1, 1 >>
    BY <1>3, PartsOfFragmented
  <2>2. 1 \in 1 .. Len(PartsOf[m]) /\ Len(PartsOf[m]) \in 1 .. Len(PartsOf[m])
    BY <1>1
  <2>3. FirstPacket(m) + 1 - 1 = FirstPacket(m)
        /\ FirstPacket(m) + Len(PartsOf[m]) - 1 = LastPacket(m)
    BY <1>1, <1>2
  <2>4. /\ PartsOf[m][1] = << FirstPacket(m) + 1 - 1, 1 >>
        /\ PartsOf[m][Len(PartsOf[m])] = << FirstPacket(m) + Len(PartsOf[m]) - 1, 1 >>
    BY <2>1, <2>2, Zenon
  <2> QED
    BY <2>3, <2>4
<1>4. CASE ~Fragmented(m)
  <2> DEFINE i == FirstPacket(m)
  <2>1. PICK k \in DOMAIN Stream[i].units : Stream[i].units[k].message = m
    BY <1>2 DEF Packets, Holds
  <2>2. m = MessageAt(<< i, k >>)
    BY <2>1 DEF MessageAt
  <2>3. PartsOf[m] = << << i, k >> >> /\ LastPacket(m) = i
    BY <1>2, <1>4, <2>1, <2>2, PartsOfUnit
  <2>4. Len(PartsOf[m]) = 1 /\ PartsOf[m][1] = << i, k >>
    BY <2>3
  <2> QED
    BY <2>3, <2>4
<1> QED
  BY <1>3, <1>4

LEMMA StepDelivers ==
  ASSUME InStep, Following, ReassemblyNext
  PROVE  DeliveredOnce
<1>1. \A m \in Message : Arrived(m)' =>
        /\ LastPacket(m) = at' /\ since' # 0 /\ since' <= FirstPacket(m)
        /\ Declared[m] \in 2 .. MaxMessage
  BY ArrivedIs DEF Arrived
<1>2. ASSUME NEW i \in DOMAIN Stream, Unread(i) \/ Repeat(i) PROVE DeliveredOnce
  BY <1>2 DEF Unread, Repeat, DeliveredOnce
<1>3. ASSUME NEW i \in DOMAIN Stream, at' = i, ~Repeats(i), at' = at, refused = 0
      PROVE  asm.state = "Initial" /\ Stream[i].fragmentation = 3
  <2>1. asm.state = "Initial"
    BY <1>3 DEF InStep, Repeats
  <2>2. i # 0
    BY StreamDomain
  <2> QED
    BY <1>3, <2>1, <2>2 DEF Following
<1>4. ASSUME NEW i \in DOMAIN Stream, Unaggregated(i) PROVE DeliveredOnce
  <2>1. ~Repeats(i) /\ at' = i
    BY <1>4 DEF Unaggregated, Read
  <2>2. ASSUME NEW m \in Message, Arrived(m)' PROVE Delivers(m)
    <3>1. out' = << PartsOf[m] >>
      BY <1>1, <1>4, <2>1, <2>2, UnaggregatedDelivers
    <3>2. 1 \in DOMAIN out' /\ out'[1] = PartsOf[m]
      BY <3>1
    <3> QED
      BY <3>2 DEF Delivers
  <2>3. ASSUME at' = at, refused = 0 PROVE out' = << >>
    <3> DEFINE b == Recorded(i)
               r == ByFragmentation(b, i)
    <3>1. asm.state = "Initial" /\ Stream[i].fragmentation = 3
      BY <1>3, <2>1, <2>3
    <3>2. Deliverable(i) /\ ~Stream[i].aggregation /\ out' = r.units
      BY <1>4 DEF Unaggregated
    <3>3. b \in SignallingAssemblers /\ b.state = "Initial"
      BY <2>1, <3>1, <3>2, RecordedFacts
    <3> HIDE DEF b
    <3>4. r.units = IF b.state = "Collecting" /\ b.size + SizeAt(<< i, 1 >>) <= MaxMessage
                    THEN Accepted(Append(b.data, << i, 1 >>), b.size + SizeAt(<< i, 1 >>))
                    ELSE << >>
      BY <3>1, <3>2, <3>3, LastIs
    <3> HIDE DEF r
    <3> QED
      BY <3>2, <3>3, <3>4
  <2> QED
    BY <2>2, <2>3 DEF DeliveredOnce
<1>5. ASSUME NEW i \in DOMAIN Stream, Aggregated(i) PROVE DeliveredOnce
  <2>1. ~Repeats(i) /\ at' = i /\ Stream[i].aggregation
    BY <1>5 DEF Aggregated, Read
  <2>2. ASSUME NEW m \in Message, Arrived(m)' PROVE Delivers(m)
    BY <1>1, <1>5, <2>1, <2>2, AggregatedDelivers DEF Delivers
  <2>3. ~(at' = at /\ refused = 0)
    <3>1. Stream[i].fragmentation # 3
      BY <2>1, SignallingPacket
    <3> QED
      BY <1>3, <2>1, <3>1
  <2> QED
    BY <2>2, <2>3 DEF DeliveredOnce
<1>6. ASSUME NEW i \in DOMAIN Stream, NEW n \in 0 .. (Len(Stream[i].units) - 1), RefusePayload(i, n)
      PROVE  DeliveredOnce
  <2>1. /\ ~Repeats(i) /\ at' = i /\ since' = 0
        /\ out' = IF Stream[i].aggregation THEN AcceptedUnits(i, n) ELSE << >>
    BY <1>6 DEF RefusePayload
  <2>2. \A m \in Message : ~Arrived(m)'
    BY <1>1, <2>1
  <2>3. ASSUME at' = at, refused = 0 PROVE out' = << >>
    <3>1. Stream[i].fragmentation = 3
      BY <1>3, <2>1, <2>3
    <3>2. ~Stream[i].aggregation
      BY <3>1, SignallingPacket
    <3> QED
      BY <2>1, <3>2
  <2> QED
    BY <2>2, <2>3 DEF DeliveredOnce
<1>7. CASE FlushMessages
  <2>1. since' = 0 /\ out' = << >>
    BY <1>7 DEF FlushMessages
  <2> QED
    BY <1>1, <2>1 DEF DeliveredOnce
<1> QED
  BY <1>2, <1>4, <1>5, <1>6, <1>7 DEF ReassemblyNext

(***************************************************************************)
(* Every message whose packets came in order is accepted with the last of  *)
(* them (parse_signalling and its assembler), whatever was lost, refused   *)
(* or left over before, and a repeated packet delivers nothing.            *)
(***************************************************************************)
THEOREM DeliveriesOnce == ReassemblySpec => MessagesOnce
<1> DEFINE IInv == InStep /\ Following
<1>1. ReassemblyInit => IInv
  <2>1. ReassemblyInit => at = 0 /\ since = 0
    BY DEF ReassemblyInit
  <2> QED
    BY <2>1, InitInStep DEF Following, HeardSince
<1>2. IInv /\ [ReassemblyNext]_reassemblyVars => IInv'
  BY StepInStep, StepFollows
<1>3. IInv /\ [ReassemblyNext]_reassemblyVars => [DeliveredOnce]_reassemblyVars
  BY StepDelivers
<1> HIDE DEF IInv
<1>4. ReassemblySpec => [][DeliveredOnce]_reassemblyVars
  BY <1>1, <1>2, <1>3, PTL DEF ReassemblySpec
<1> QED
  BY <1>4 DEF MessagesOnce, DeliveredOnce
=============================================================================
