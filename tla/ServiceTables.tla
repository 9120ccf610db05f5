---------------------------- MODULE ServiceTables ----------------------------
(***************************************************************************)
(* Which packet ids the parser decodes, and what it has told the sink.     *)
(*                                                                         *)
(* The compressed-IP parser keeps one MMTP parser per context; their       *)
(* signalling, track and data-asset states share one budget.  A complete   *)
(* MPT reroutes packet ids (PacketRoles), a complete MH-AIT names the      *)
(* applications of a service (ApplicationTables); the parser hands both to *)
(* the Demuxer, which compares them with what it holds and announces or    *)
(* withdraws tracks and applications.  flush, reset, reposition, a         *)
(* transport discontinuity and select_service each clear a different part  *)
(* of the two, in between any two packets.                                 *)
(*                                                                         *)
(* A packet carries one whole message or one piece of media; how messages  *)
(* and units are put together is not a subject here.                       *)
(***************************************************************************)
EXTENDS PacketRoles, ApplicationTables

CONSTANTS
  Contexts,      (* compressed-IP context ids                              *)
  MaxContexts,   (* Limits::max_contexts                                   *)
  Tables,        (* per context its MPTs: [version, services, tracks,      *)
                 (* data], services a sequence of [ait, format]            *)
  MptPid,        (* the packet id the MPTs come on                         *)
  Sections,      (* per context the MH-AIT sections that are sent          *)
  MediaPids,     (* packet ids of media and data                           *)
  Assets,        (* assets and their descriptions                          *)
  Selections,    (* what the caller selects: contexts and NoService        *)
  NoService, NoTable, NoPid

ASSUME ContextsAssumption ==
  MaxContexts \in Nat /\ Selections \subseteq Contexts \cup {NoService}

ASSUME TablesAssumption ==
  \A c \in Contexts : \A table \in Tables[c] :
    {table.tracks, table.data} \subseteq Seq([pid : MediaPids, asset : Assets])

ASSUME SectionsAssumption ==
  \A c \in Contexts : \A section \in Sections[c] :
    section.number \in Nat /\ section.last \in Nat /\ section.next \in BOOLEAN

VARIABLES
  selected,   (* selected_service_, of the Demuxer and of the IP parser    *)
  contexts,   (* contexts_: context id -> MMTP parser                      *)
  active,     (* active_packet_states_                                     *)
  view        (* the Demuxer's tables and what its sink knows              *)

vars == << selected, contexts, active, view >>

EmptyFunction == [key \in {} |-> {}]

(* The MMTP parser of a context; mpt is committed_mpt_raw_.                *)
NewContext ==
  [signalling |-> {}, tracks |-> EmptyFunction, data |-> EmptyFunction,
   mpt |-> NoTable, staged |-> EmptyFunction, committed |-> EmptyFunction]

(***************************************************************************)
(* mpts: mpt_snapshots_.  tracks: current_tracks_, by the identity that    *)
(* determines the track id.  aits: mh_ait_snapshots_, applications:        *)
(* applications_, both without the metadata.  sink: the tracks and         *)
(* applications announced to the sink and not withdrawn.                   *)
(***************************************************************************)
EmptyView ==
  [mpts |-> EmptyFunction, tracks |-> {}, aits |-> EmptyFunction,
   applications |-> EmptyFunction,
   sink |-> [tracks |-> {}, applications |-> EmptyFunction]]

Init ==
  /\ selected = NoService
  /\ contexts = EmptyFunction
  /\ active = 0
  /\ view = EmptyView

-----------------------------------------------------------------------------
(* The parser.                                                             *)

Admits(c) == selected \in {NoService, c}

HasRoom(c) == c \in DOMAIN contexts \/ Cardinality(DOMAIN contexts) < MaxContexts

Context(c) == IF c \in DOMAIN contexts THEN contexts[c] ELSE NewContext

With(c, context) == Put(contexts, c, context)

(* The signalling state of a packet id is there or fits.                   *)
CanHold(c, pid) == pid \in Context(c).signalling \/ active < MaxPacketStates

Holding(c, pid) == [Context(c) EXCEPT !.signalling = @ \cup {pid}]

ActiveHolding(c, pid) == IF pid \in Context(c).signalling THEN active ELSE active + 1

AitPids(services) == {services[i].ait : i \in DOMAIN services} \ {NoPid}

(* Before the first MPT every packet id may carry an MH-AIT.               *)
Routes(context, pid) == context.mpt = NoTable \/ pid \in AitPids(context.mpt.services)

-----------------------------------------------------------------------------
(* The Demuxer.                                                            *)

TracksOf(snapshot) ==
  {[context |-> snapshot.context, pid |-> snapshot.tracks[i].pid,
    asset   |-> snapshot.tracks[i].asset] : i \in DOMAIN snapshot.tracks}

Forget(v, applications) ==
  [v EXCEPT !.applications = Restrict(@, DOMAIN @ \ applications),
            !.sink.applications = Restrict(@, DOMAIN @ \ applications)]

ApplicationKeys(key, apps) == {<< key, app.id >> : app \in apps}

(* retire_mh_ait_source, for a set of sources.                             *)
Bug_RetireSources(v, c, pids) ==
  LET keys == {key \in DOMAIN v.aits : key[1] = c /\ key[2] \in pids}
      gone == UNION {ApplicationKeys(key, v.aits[key]) : key \in keys}
  IN [v EXCEPT !.aits = Restrict(@, DOMAIN @ \ keys),
               !.sink.applications = Restrict(@, DOMAIN @ \ gone)]

RetireSources(v, c, pids) ==
  LET keys == {key \in DOMAIN v.aits : key[1] = c /\ key[2] \in pids}
      gone == UNION {ApplicationKeys(key, v.aits[key]) : key \in keys}
  IN [Forget(v, gone) EXCEPT !.aits = Restrict(@, DOMAIN @ \ keys)]

(* The services of the last snapshot that the new one does not repeat.     *)
DroppedServices(v, snapshot) ==
  IF snapshot.context \notin DOMAIN v.mpts THEN {}
  ELSE LET old == v.mpts[snapshot.context].services
       IN {old[i] : i \in DOMAIN old} \
          {snapshot.services[i] : i \in DOMAIN snapshot.services}

Unchanged(v, snapshot) ==
  /\ snapshot.context \in DOMAIN v.mpts
  /\ v.mpts[snapshot.context] = snapshot

CommitTracks(v, snapshot) ==
  LET others == {track \in v.tracks : track.context # snapshot.context}
      new    == TracksOf(snapshot)
      gone   == v.tracks \ (others \cup new)
  IN [v EXCEPT !.tracks = others \cup new,
               !.sink.tracks = (@ \ gone) \cup (new \ v.tracks)]

MptSnapshot(v, snapshot) ==
  IF Unchanged(v, snapshot) THEN v
  ELSE LET silenced == {service.ait : service \in DroppedServices(v, snapshot)} \ {NoPid}
       IN [RetireSources(CommitTracks(v, snapshot), snapshot.context, silenced) EXCEPT
             !.mpts = Put(@, snapshot.context, snapshot)]

AcceptsMhAit(v, c, pid) == c \notin DOMAIN v.mpts \/ pid \in AitPids(v.mpts[c].services)

(* application, for each application of a snapshot: only what is new or    *)
(* differs is announced.                                                   *)
Announce(v, key, apps) ==
  LET named     == [k \in ApplicationKeys(key, apps) |->
                      CHOOSE app \in apps : app.id = k[2]]
      announced == Restrict(named, {k \in DOMAIN named :
                      k \notin DOMAIN v.applications \/ v.applications[k] # named[k]})
  IN [v EXCEPT !.applications = Over(announced, @),
               !.sink.applications = Over(announced, @),
               !.aits = Put(@, key, apps)]

MhAitSnapshot(v, c, section, apps) ==
  LET key  == << c, section.pid, section.type >>
      gone == ApplicationKeys(key, At(v.aits, key)) \ ApplicationKeys(key, apps)
  IN IF ~AcceptsMhAit(v, c, section.pid) \/ ~section.next THEN v
     ELSE Announce(Forget(v, gone), key, apps)

-----------------------------------------------------------------------------
(* A signalling packet for which there is no state left: its context stays.*)
RefuseSignalling(c, pid) ==
  /\ Admits(c) /\ HasRoom(c) /\ ~CanHold(c, pid)
  /\ contexts' = With(c, Context(c))
  /\ UNCHANGED << selected, active, view >>

(* A signalling packet with a message that changes no routing, or a        *)
(* malformed one.                                                          *)
OtherMessage(c, pid) ==
  /\ Admits(c) /\ HasRoom(c) /\ CanHold(c, pid)
  /\ contexts' = With(c, Holding(c, pid))
  /\ active' = ActiveHolding(c, pid)
  /\ UNCHANGED << selected, view >>

ParseMpt(c, table) ==
  /\ Admits(c) /\ HasRoom(c) /\ CanHold(c, MptPid)
  /\ LET context == Holding(c, MptPid)
         routed  == Routed([active |-> ActiveHolding(c, MptPid),
                            tracks |-> context.tracks, data |-> context.data], table)
     IN /\ contexts' = With(c, [context EXCEPT !.tracks = routed.tracks,
                                               !.data = routed.data, !.mpt = table])
        /\ active' = routed.active
        /\ view' = MptSnapshot(view,
             [context  |-> c, version |-> table.version, services |-> table.services,
              tracks   |-> Installed(routed.tracks, table.tracks),
              data     |-> Installed(routed.data, table.data)])
  /\ UNCHANGED selected

ParseMhAit(c, section) ==
  /\ Admits(c) /\ HasRoom(c) /\ CanHold(c, section.pid)
  /\ active' = ActiveHolding(c, section.pid)
  /\ LET context == Holding(c, section.pid)
         result  == StageSection(context.staged, context.committed, section)
     IN IF Routes(context, section.pid)
        THEN /\ contexts' = With(c, [context EXCEPT !.staged = result.staged,
                                                    !.committed = result.committed])
             /\ view' = IF result.delivered
                        THEN MhAitSnapshot(view, c, section,
                               ApplicationsOf(result.committed[Identity(section)]))
                        ELSE view
        ELSE /\ contexts' = With(c, context)
             /\ UNCHANGED view
  /\ UNCHANGED selected

(* A media packet: a data asset is looked up before a track.               *)
ParseMpu(c, pid) ==
  /\ Admits(c) /\ HasRoom(c)
  /\ LET context == Context(c)
     IN contexts' = With(c,
          IF pid \in DOMAIN context.data THEN [context EXCEPT !.data[pid].begun = TRUE]
          ELSE IF pid \in DOMAIN context.tracks THEN [context EXCEPT !.tracks[pid].begun = TRUE]
          ELSE context)
  /\ UNCHANGED << selected, active, view >>

Ended(states) == [pid \in DOMAIN states |-> [states[pid] EXCEPT !.begun = FALSE]]

SignallingStates ==
  UNION {{c} \X ({"signalling"} \X contexts[c].signalling) : c \in DOMAIN contexts}

Bug_Flush ==
  /\ contexts' = [c \in DOMAIN contexts |->
       [contexts[c] EXCEPT !.signalling = {}, !.tracks = Ended(@), !.data = Ended(@)]]
  /\ UNCHANGED << selected, active, view >>

(* Demuxer::flush: the fragments end, the signalling states are given back,*)
(* the routing stays.                                                      *)
Flush ==
  /\ contexts' = [c \in DOMAIN contexts |->
       [contexts[c] EXCEPT !.signalling = {}, !.tracks = Ended(@), !.data = Ended(@)]]
  /\ active' = Released(active, Cardinality(SignallingStates))
  /\ UNCHANGED << selected, view >>

(* Demuxer::reposition, and a transport discontinuity: the contexts are    *)
(* dropped, the Demuxer's tables stay.                                     *)
DropContexts ==
  /\ contexts' = EmptyFunction
  /\ active' = 0
  /\ UNCHANGED << selected, view >>

Reset ==
  /\ contexts' = EmptyFunction
  /\ active' = 0
  /\ view' = EmptyView
  /\ UNCHANGED selected

(* The Demuxer's tables go even if the selection stays as it is; the       *)
(* contexts then stay too.                                                 *)
SelectService(c) ==
  /\ selected' = c
  /\ view' = EmptyView
  /\ IF c = selected THEN UNCHANGED << contexts, active >>
     ELSE contexts' = EmptyFunction /\ active' = 0

Next ==
  \/ \E c \in Contexts :
       \/ \E pid \in {MptPid} \cup {section.pid : section \in Sections[c]} :
            RefuseSignalling(c, pid) \/ OtherMessage(c, pid)
       \/ \E table \in Tables[c] : ParseMpt(c, table)
       \/ \E section \in Sections[c] : ParseMhAit(c, section)
       \/ \E pid \in MediaPids : ParseMpu(c, pid)
  \/ Flush
  \/ DropContexts
  \/ Reset
  \/ \E c \in Selections : SelectService(c)

Spec == Init /\ [][Next]_vars

-----------------------------------------------------------------------------
(* The packet states that count: one per packet id and role of a context.  *)
StatesOf(context) == ({"signalling"} \X context.signalling) \cup RoleStates(context)

PacketStates == UNION {{c} \X StatesOf(contexts[c]) : c \in DOMAIN contexts}

(* Type invariant: every key is a context or packet id that exists, and    *)
(* the limits on contexts and packet states hold; the counter all contexts *)
(* share is exact: whatever tables retire, reroute or refuse, and however  *)
(* contexts come and go, no state leaks and none is given back twice.      *)
TypeOK ==
  /\ selected \in Contexts \cup {NoService}
  /\ DOMAIN contexts \subseteq Contexts
  /\ Cardinality(DOMAIN contexts) <= MaxContexts
  /\ active \in 0 .. MaxPacketStates
  /\ IsFiniteSet(PacketStates) /\ active = Cardinality(PacketStates)
  /\ \A c \in DOMAIN contexts :
       /\ contexts[c].mpt \in Tables[c] \cup {NoTable}
       /\ DOMAIN contexts[c].tracks \cup DOMAIN contexts[c].data \subseteq MediaPids
       /\ (UNION Range(contexts[c].staged)) \cup (UNION Range(contexts[c].committed))
            \subseteq Sections[c]
  /\ DOMAIN view.mpts \subseteq Contexts

(* With a service selected, nothing of another service is decoded, or left *)
(* in what the Demuxer shows.                                              *)
OnlySelected ==
  selected # NoService =>
    /\ DOMAIN contexts \cup DOMAIN view.mpts \subseteq {selected}
    /\ \A track \in view.sink.tracks : track.context = selected
    /\ \A key \in DOMAIN view.sink.applications : key[1][1] = selected

Routing(context) == << context.mpt, DOMAIN context.tracks, DOMAIN context.data >>

AllListed(context) ==
  PacketIds(context.mpt.tracks) \cup PacketIds(context.mpt.data)
    = DOMAIN context.tracks \cup DOMAIN context.data

(* A table names a packet id once.                                         *)
Once(table, pid) ==
  \E role \in Roles : \E i \in DOMAIN table[role] :
    /\ table[role][i].pid = pid
    /\ \A j \in DOMAIN table[role] : table[role][j].pid = pid => j = i
    /\ pid \notin PacketIds(table[OtherRole(role)])

(* The units being put together in context c, and the room its tables used.*)
UnitsGoOn(c) ==
  \A role \in Roles : \A pid \in DOMAIN contexts'[c][role] :
    Once(contexts'[c].mpt, pid) =>
      LET before == contexts[c][role]
          after  == contexts'[c][role]
      IN IF pid \in DOMAIN before /\ before[pid].asset = after[pid].asset
         THEN before[pid].begun => after[pid].begun \/ contexts'[c].signalling = {}
         ELSE ~after[pid].begun

RoomIsUsed(c) ==
  LET after == contexts'[c]
  IN after.mpt # NoTable /\ Routing(after) # Routing(Context(c)) =>
       active' = MaxPacketStates \/ AllListed(after)

StepKeepsUnits ==
  /\ \A c \in DOMAIN contexts \cap DOMAIN contexts' : UnitsGoOn(c)
  /\ \A c \in DOMAIN contexts' : RoomIsUsed(c)

(* An MPT is repeated several times a second: a table that names a packet  *)
(* id once, with the asset it already carries, leaves the unit being put   *)
(* together on it alone, only a flush ends it; and a packet id that takes  *)
(* another asset or another role starts without anything of the old unit.  *)
(* A table may be left incomplete only for want of room: if, after a step  *)
(* that reroutes packet ids, one that is listed has no state, the budget   *)
(* is used up.                                                             *)
ReroutingKeepsUnits == [][StepKeepsUnits]_vars

(* Where parser and Demuxer both know an MPT of a context, the Demuxer     *)
(* shows exactly the tracks and data assets the parser decodes, and no     *)
(* packet id as both, even if a table names it for both; what the sink has *)
(* been told and not been told to forget is what the Demuxer holds, and    *)
(* its applications are those of its MH-AIT snapshots.  With a service     *)
(* selected, both are of this service alone.                               *)
ViewMatchesRouting ==
  /\ OnlySelected
  /\ \A c \in DOMAIN contexts \cap DOMAIN view.mpts : contexts[c].mpt # NoTable =>
       /\ {track \in view.tracks : track.context = c}
            = {[context |-> c, pid |-> pid, asset |-> contexts[c].tracks[pid].asset] :
                 pid \in DOMAIN contexts[c].tracks}
       /\ PacketIds(view.mpts[c].data) = DOMAIN contexts[c].data
       /\ DOMAIN contexts[c].tracks \cap DOMAIN contexts[c].data = {}
  /\ view.sink.tracks = view.tracks
  /\ view.sink.applications = view.applications
  /\ DOMAIN view.applications
       = UNION {ApplicationKeys(key, view.aits[key]) : key \in DOMAIN view.aits}

(* A sub-table the Demuxer holds is one version of it, and the whole of    *)
(* it, in whatever order and mixture the sections of its versions came.    *)
WholeSubTables ==
  \A key \in DOMAIN view.aits :
    \E sections \in SUBSET {s \in Sections[key[1]] : s.pid = key[2] /\ s.type = key[3] /\ s.next} :
      /\ \A s, t \in sections : s.version = t.version /\ s.last = t.last
      /\ \/ \E last \in {s.last : s \in sections} :
                {s.number : s \in sections} = 0 .. last
         \/ {s.number : s \in sections} = {1} /\ key[3] = Html5
      /\ view.aits[key] = ApplicationsOf(sections)

(* A source an MPT no longer lists has no applications left.  It holds     *)
(* because every application shown belongs to a snapshot that is kept.     *)
DelistedSourcesEnd ==
  [][\A c \in DOMAIN view.mpts \cap DOMAIN view'.mpts :
       \A pid \in AitPids(view.mpts[c].services) \ AitPids(view'.mpts[c].services) :
         \A key \in DOMAIN view'.applications : << key[1][1], key[1][2] >> # << c, pid >>]_vars

(* A complete MPT retires what is missing from it (demuxer_tests.cpp:535), *)
(* and the applications of a sub-table end with its next version           *)
(* (types.hpp:642): as long as the MPT lists a source, the applications of *)
(* the sub-table delivered for it last are shown.  parse_mh_ait delivers   *)
(* no repetition of that sub-table, so what is gone here does not return.  *)
ListedSourcesShown ==
  \A c \in DOMAIN contexts \cap DOMAIN view.mpts :
    \A key \in DOMAIN contexts[c].committed :
      /\ contexts[c].mpt # NoTable
      /\ Routes(contexts[c], key[1])
      /\ key[3]
      => At(view.aits, << c, key[1], key[2] >>) = ApplicationsOf(contexts[c].committed[key])
=============================================================================
