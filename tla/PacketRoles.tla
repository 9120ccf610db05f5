----------------------------- MODULE PacketRoles -----------------------------
(***************************************************************************)
(* What a complete MPT does to the packet ids of one compressed-IP         *)
(* context: parse_mpt (from the comment "only a complete MPT is allowed to *)
(* replace packet routing"), install_track, and the budget of packet       *)
(* states all contexts share.  Pure operators.                             *)
(*                                                                         *)
(* A table lists entries [pid, asset], first its tracks, then its data     *)
(* assets; nothing forbids a broadcaster to list a packet id twice.        *)
(* The parser's side of it is a record                                     *)
(*   [active, tracks, data]                                                *)
(* with tracks and data functions from packet ids to states [asset, begun]:*)
(* begun stands for the media assembler, TRUE when it is not a fresh one.  *)
(***************************************************************************)
EXTENDS Naturals, Sequences, FiniteSets, SequencesExt

CONSTANT MaxPacketStates     (* Limits::max_packet_states                  *)

ASSUME MaxPacketStatesAssumption == MaxPacketStates \in Nat

PacketIds(entries) == {entries[i].pid : i \in DOMAIN entries}

(* std::find_if: the entry that comes first.                               *)
FirstOf(entries, pid) ==
  entries[Min({i \in DOMAIN entries : entries[i].pid = pid})]

FreshState(asset) == [asset |-> asset, begun |-> FALSE]

(* release_state_, n times: the counter stops at zero.                     *)
Released(active, n) == IF n < active THEN active - n ELSE 0

(***************************************************************************)
(* The states that outlive a table: the first entry of their packet id     *)
(* still carries the same asset.                                           *)
(***************************************************************************)
Bug_Surviving(states, entries) == {pid \in DOMAIN states : pid \in PacketIds(entries)}

Surviving(states, entries) ==
  {pid \in DOMAIN states :
     /\ pid \in PacketIds(entries)
     /\ FirstOf(entries, pid).asset = states[pid].asset}

Roles == {"tracks", "data"}

(* The packet states of the two roles, each with the role it is kept in.   *)
RoleStates(p) == UNION {{role} \X DOMAIN p[role] : role \in Roles}

Retired(p, table) ==
  LET kept == [p EXCEPT !.tracks = Restrict(@, Surviving(@, table.tracks)),
                        !.data   = Restrict(@, Surviving(@, table.data))]
  IN [kept EXCEPT !.active = Released(@, Cardinality(RoleStates(p) \ RoleStates(kept)))]

(* A packet id may not stay in a role when it takes the other one.         *)
Vacated(p, role, pid) ==
  IF pid \in DOMAIN p[role]
  THEN [p EXCEPT !.active = Released(@, 1), ![role] = Restrict(@, DOMAIN @ \ {pid})]
  ELSE p

OtherRole(role) == IF role = "tracks" THEN "data" ELSE "tracks"

(* A state that is there takes the entry's description.                    *)
Described(states, entry) ==
  [pid \in DOMAIN states \cup {entry.pid} |->
     IF pid # entry.pid THEN states[pid]
     ELSE IF pid \in DOMAIN states THEN [states[pid] EXCEPT !.asset = entry.asset]
     ELSE FreshState(entry.asset)]

(* One entry: a new state needs room in the budget; without room the entry *)
(* is left out.                                                            *)
Install(p, role, entry) ==
  LET q     == Vacated(p, OtherRole(role), entry.pid)
      known == entry.pid \in DOMAIN q[role]
  IN IF ~known /\ q.active >= MaxPacketStates THEN q
     ELSE [q EXCEPT !.active = IF known THEN @ ELSE @ + 1, ![role] = Described(@, entry)]

InstallAll(p, role, entries) ==
  LET after[n \in 0 .. Len(entries)] ==
        IF n = 0 THEN p ELSE Install(after[n - 1], role, entries[n])
  IN after[Len(entries)]

Routed(p, table) ==
  InstallAll(InstallAll(Retired(p, table), "tracks", table.tracks), "data", table.data)

(* The part of a snapshot that lists what was installed, in table order.   *)
Installed(states, entries) ==
  LET listed[n \in 0 .. Len(entries)] ==
        IF n = 0 THEN << >>
        ELSE IF entries[n].pid \notin DOMAIN states THEN listed[n - 1]
        ELSE Append(listed[n - 1], [pid   |-> entries[n].pid,
                                    asset |-> states[entries[n].pid].asset])
  IN listed[Len(entries)]
=============================================================================
