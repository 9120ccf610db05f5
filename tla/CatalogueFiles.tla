--------------------------- MODULE CatalogueFiles ----------------------------
(***************************************************************************)
(* The files of a data carousel: what ApplicationResourceAssembler does    *)
(* with units and catalogues, and what its sink, the resource store,       *)
(* holds.  Every operator takes the assembler's state of one context and   *)
(* returns the next:                                                       *)
(*   nodes, mpus           node_paths_, mpu_maps_ of the active catalogue  *)
(*   items                 item_paths_: <<MPU, item>> -> what its index    *)
(*                         says of the file                                *)
(*   pending, bytes        pending_, pending_bytes_                        *)
(*   published, paths      published_, published_paths_                    *)
(*   superseded, deferred  superseded_mpus_, deferred_item_removals_: what *)
(*                         goes when an MPU's update is complete           *)
(*   applications          applications_, as the sink was told last        *)
(*   store                 ApplicationResourceStore: path -> file          *)
(*   undefined             the item whose entry retry erased while it was  *)
(*                         at it, or Absent: what follows is undefined     *)
(*                                                                         *)
(* A unit is [mpu, item, download, size, inflated, records, content]:      *)
(* records is what parse_index reads in it (Absent if it cannot), inflated *)
(* the size zlib would give (Absent if it fails).                          *)
(***************************************************************************)
EXTENDS CatalogueTables

CONSTANTS
  MaxPendingUnits,  (* Limits::max_application_pending_units               *)
  MaxPendingBytes,  (* Limits::max_application_pending_bytes               *)
  MaxResources,     (* Limits::max_application_resources                   *)
  MaxResource,      (* Limits::max_application_resource                    *)
  GroupSpan         (* MPU sequences per group: 2^16 in the code           *)

NoFiles == [key \in {} |-> Absent]

NoState ==
  [nodes |-> NoFiles, mpus |-> NoFiles, items |-> NoFiles, pending |-> NoFiles,
   bytes |-> 0, published |-> NoFiles, paths |-> NoFiles, superseded |-> NoFiles,
   deferred |-> NoFiles, applications |-> NoFiles, store |-> NoFiles,
   undefined |-> Absent]

Without(f, keys) == Restrict(f, DOMAIN f \ keys)
Over(f, g) == [k \in DOMAIN f \cup DOMAIN g |-> IF k \in DOMAIN f THEN f[k] ELSE g[k]]
With(f, key, value) == Over([k \in {key} |-> value], f)

(* The bytes of pending units, one by one.                                 *)
PendingBytes(pending, keys) ==
  Cardinality(UNION {{key} \X (1 .. pending[key].size) : key \in keys \cap DOMAIN pending})

(***************************************************************************)
(* What the sink is told of an application: whether its entry is there     *)
(* (entry_ready), how many files there are and the state these give.       *)
(***************************************************************************)
Entries(app) ==
  IF SafePath(app.entry) = Escapes THEN {}
  ELSE {SafePath(app.entry)} \cup
       {JoinPath(t.path, app.entry) : t \in {u \in app.transports : ~u.absolute}}

EntryReady(app, shown) == Entries(app) \cap shown # {}

Lifecycle(control, ready) ==
  CASE control = 1 -> IF ready THEN "autostart ready" ELSE "autostart pending"
    [] control = 2 -> "present"
    [] control = 4 -> "killed"
    [] control = 5 -> IF ready THEN "prefetched" ELSE "prefetching"
    [] OTHER -> "unsupported"

StateOf(app, shown) ==
  [application |-> app, ready |-> EntryReady(app, shown), count |-> Cardinality(shown),
   lifecycle |-> Lifecycle(app.control, EntryReady(app, shown))]

Bug_ToldOnce(s) == s

UpdateApplications(s) ==
  [s EXCEPT !.applications =
     [id \in DOMAIN @ |-> StateOf(@[id].application, DOMAIN s.paths)]]

Application(s, app) ==
  [s EXCEPT !.applications = With(@, app.id, StateOf(app, DOMAIN s.paths))]

(* What entryPath of the store may answer: entries of ready applications   *)
(* it has a file for.                                                      *)
ServedEntries(s) ==
  UNION {Entries(s.applications[id].application) \cap DOMAIN s.store :
         id \in {i \in DOMAIN s.applications : s.applications[i].ready}}

(* The path an item is published under, when it is the item shown there.   *)
ShownPath(s, key) ==
  IF key \in DOMAIN s.published
  THEN {p \in {s.published[key].path} \cap DOMAIN s.paths : s.paths[p] = key}
  ELSE {}

Hide(s, paths) ==
  [s EXCEPT !.paths = Without(@, paths), !.store = Without(@, paths)]

(* erase_item_target and erase_mpu_targets.                                *)
EraseItems(s, keys) ==
  [Hide(s, UNION {ShownPath(s, key) : key \in keys}) EXCEPT
     !.items = Without(@, keys),
     !.published = Without(@, keys),
     !.bytes = @ - PendingBytes(s.pending, keys),
     !.pending = Without(@, keys)]

ItemsOf(s, mpus) ==
  {key \in DOMAIN s.items \cup DOMAIN s.published \cup DOMAIN s.pending : key[1] \in mpus}

(***************************************************************************)
(* finish_mpu_update_if_ready: what an MPU replaces goes once every file   *)
(* its index lists is published as listed.                                 *)
(***************************************************************************)
At(f, key) == IF key \in DOMAIN f THEN f[key] ELSE {}

AllPublished(s, mpu) ==
  \A key \in DOMAIN s.items :
    key[1] = mpu =>
      /\ key \in DOMAIN s.published
      /\ s.published[key].path = s.items[key].path
      /\ s.published[key].version = s.items[key].version

Bug_ForgetsDeferred(s, mpu) ==
  IF mpu \in DOMAIN s.superseded /\ AllPublished(s, mpu)
  THEN [EraseItems(s, ItemsOf(s, s.superseded[mpu])) EXCEPT !.superseded = Without(@, {mpu})]
  ELSE s

FinishUpdate(s, mpu) ==
  IF mpu \in DOMAIN s.superseded \cup DOMAIN s.deferred /\ AllPublished(s, mpu)
  THEN [EraseItems(s, ItemsOf(s, At(s.superseded, mpu)) \cup At(s.deferred, mpu)) EXCEPT
          !.superseded = Without(@, {mpu}), !.deferred = Without(@, {mpu})]
  ELSE s

(***************************************************************************)
(* publish: a file goes to the sink unless this version of it is there, or *)
(* it does not fit its index or the limit or cannot be inflated.           *)
(***************************************************************************)
Acceptable(unit, target) ==
  /\ unit.size = target.size
  /\ IF target.compression = Absent THEN unit.size <= MaxResource
     ELSE /\ target.compression = 0
          /\ target.original # Absent
          /\ target.original <= MaxResource
          /\ unit.inflated = target.original

Publish(s, key, unit) ==
  LET map    == s.mpus[key[1]]
      target == s.items[key]
      signature == [transaction |-> map.transaction, download |-> map.download,
                    version |-> target.version, path |-> target.path]
      moved  == ShownPath(s, key) \ {target.path}
      placed == [Hide(s, moved) EXCEPT
                   !.published = With(@, key, signature),
                   !.paths = With(@, target.path, key),
                   !.store = With(@, target.path,
                                  [key |-> key, signature |-> signature,
                                   content |-> unit.content])]
      isNew == key \notin DOMAIN s.published \/ s.published[key] # signature
  IN  IF isNew /\ Acceptable(unit, target)
      THEN UpdateApplications(FinishUpdate(placed, key[1]))
      ELSE s

(***************************************************************************)
(* consume_index: the files an MPU's index lists replace the ones known.   *)
(***************************************************************************)
(* parse_index: every record is there and nothing follows the last one.    *)
Readable(records) == records # Absent

Targets(s, mpu, records) ==
  LET tags == NodeTags(s.mpus[mpu], Len(records))
      path == [i \in DOMAIN records |-> JoinPath(s.nodes[tags[i]], records[i].name)]
      inside == {i \in DOMAIN records : path[i] # Escapes}
  IN  [distinct |-> IsInjective([i \in inside |-> records[i].item]),
       files |-> [key \in {<< mpu, records[i].item >> : i \in inside} |->
          LET i == CHOOSE j \in inside : records[j].item = key[2]
          IN  [path |-> path[i], size |-> records[i].size, version |-> records[i].version,
               compression |-> records[i].compression, original |-> records[i].original]]]

(* The files of an MPU that its new index leaves out.                      *)
Bug_RetiresKnown(known, listed) == known

Retired(known, listed) == known \ listed

ConsumeIndex(s, mpu, records) ==
  LET known   == {key \in DOMAIN s.items : key[1] = mpu}
      targets == Targets(s, mpu, records)
      retired == Retired(known, DOMAIN targets.files)
      listed  == [s EXCEPT
        !.items = Over(targets.files, Without(@, known)),
        !.deferred = IF retired = {} THEN @ ELSE With(@, mpu, At(@, mpu) \cup retired)]
  IN  IF /\ Readable(records)
         /\ Len(records) = Len(NodeTags(s.mpus[mpu], Len(records)))
         /\ Cardinality(DOMAIN s.items \ known) + Len(records) <= MaxResources
         /\ targets.distinct
      THEN UpdateApplications(FinishUpdate(listed, mpu))
      ELSE s

(***************************************************************************)
(* try_consume: whether a unit can be used up, and what it then changes.   *)
(* The nodes of an index are in the catalogue its MPU is in, so the code's *)
(* wait for them never happens.                                            *)
(***************************************************************************)
Consumable(s, key, unit) ==
  /\ key[1] \in DOMAIN s.mpus
  /\ \/ unit.download # s.mpus[key[1]].download
     \/ key[2] = s.mpus[key[1]].index
     \/ key \in DOMAIN s.items

Bug_AnyDownload(s, key, unit) ==
  IF key[2] = s.mpus[key[1]].index THEN ConsumeIndex(s, key[1], unit.records)
  ELSE IF key \in DOMAIN s.items THEN Publish(s, key, unit) ELSE s

Consume(s, key, unit) ==
  IF unit.download # s.mpus[key[1]].download THEN s
  ELSE IF key[2] = s.mpus[key[1]].index THEN ConsumeIndex(s, key[1], unit.records)
  ELSE Publish(s, key, unit)

(***************************************************************************)
(* retry: the pending units in key order, again until a pass uses up none. *)
(* When using a unit up erases its own entry, the iterator that retry goes *)
(* on with is no longer one: the model ends there.                         *)
(***************************************************************************)
Before(a, b) ==
  \/ a[1][1] < b[1][1]
  \/ a[1][1] = b[1][1] /\ a[1][2] < b[1][2]
  \/ a[1] = b[1] /\ a[2] < b[2]

RetryOne(s, key) ==
  LET done == Consume(s, key, s.pending[key])
  IN  IF \/ s.undefined # Absent
         \/ key \notin DOMAIN s.pending \/ ~Consumable(s, key, s.pending[key])
      THEN s
      ELSE IF key \notin DOMAIN done.pending THEN [done EXCEPT !.undefined = key]
      ELSE [done EXCEPT !.bytes = @ - s.pending[key].size,
                        !.pending = Without(@, {key})]

RetryPass(s) ==
  LET keys  == DOMAIN s.pending
      order == CHOOSE f \in [1 .. Cardinality(keys) -> keys] :
                 \A i, j \in DOMAIN f : i < j => Before(f[i], f[j])
      passed[n \in 0 .. Cardinality(keys)] ==
        IF n = 0 THEN s ELSE RetryOne(passed[n - 1], order[n])
  IN  passed[Cardinality(keys)]

Retry(s) ==
  LET passed[n \in 0 .. Cardinality(DOMAIN s.pending)] ==
        IF n = 0 THEN s ELSE RetryPass(passed[n - 1])
  IN  passed[Cardinality(DOMAIN s.pending)]

Least(a, b) == IF a <= b THEN a ELSE b

(* unit: used up at once, or kept pending within the limits and retried.   *)
Bug_ReplacesUncounted(s, unit) ==
  LET key == << unit.mpu, unit.item >>
  IN  IF Consumable(s, key, unit) THEN Consume(s, key, unit)
      ELSE IF \/ Cardinality(DOMAIN s.pending \cup {key}) > MaxPendingUnits
              \/ unit.size > MaxPendingBytes - s.bytes
      THEN s
      ELSE Retry([s EXCEPT !.pending = With(@, key, unit), !.bytes = @ + unit.size])

Unit(s, unit) ==
  LET key == << unit.mpu, unit.item >>
      previous == PendingBytes(s.pending, {key})
  IN  IF Consumable(s, key, unit) THEN Consume(s, key, unit)
      ELSE IF \/ Cardinality(DOMAIN s.pending \cup {key}) > MaxPendingUnits
              \/ unit.size > MaxPendingBytes - Least(s.bytes, MaxPendingBytes) + previous
      THEN s
      ELSE Retry([s EXCEPT !.pending = With(@, key, unit),
                           !.bytes = @ - previous + unit.size])

(***************************************************************************)
(* commit_catalogue: an MPU that is gone is superseded by the first of its *)
(* component and group in the new catalogue, and its files stay until that *)
(* one is complete; without one they go at once.                           *)
(***************************************************************************)
Successors(mpu, mpus) ==
  {key \in DOMAIN mpus : key[1] = mpu[1] /\ key[2] \div GroupSpan = mpu[2] \div GroupSpan}

First(keys) == CHOOSE key \in keys : \A other \in keys : key[2] <= other[2]


CommitCatalogue(s, nodes, mpus) ==
  LET gone == DOMAIN s.mpus \ DOMAIN mpus
      kept == {mpu \in gone : Successors(mpu, mpus) # {}}
      successor == [mpu \in kept |-> First(Successors(mpu, mpus))]
      superseded == [mpu \in DOMAIN s.superseded \cup Range(successor) |->
        At(s.superseded, mpu) \cup {old \in kept : successor[old] = mpu}]
      erased == EraseItems(s, ItemsOf(s, gone \ kept))
  IN  UpdateApplications([erased EXCEPT
        !.superseded = superseded, !.nodes = nodes, !.mpus = mpus])
=============================================================================
