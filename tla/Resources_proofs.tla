--------------------------- MODULE Resources_proofs --------------------------
(***************************************************************************)
(* The resources of broadcast applications, on both sides of the sink.     *)
(*                                                                         *)
(* The monitor of ApplicationResourceStore, for any number of threads,     *)
(* paths and changes: the mutex excludes and no wake-up is lost, a         *)
(* generation names what a path holds, reads between equal generations     *)
(* agree, and waitFor answers with one look at the store.                  *)
(*                                                                         *)
(* The assembler that fills it, for any limits and any arrival order of a  *)
(* sequence of carousels whose tables are whole and do not change under    *)
(* the same version: what waits is counted exactly as long as retry keeps  *)
(* its entry, it does unless a dropped item returns, the catalogue is      *)
(* whole, every file has bytes sent for it under its download, and         *)
(* applications are told what the store holds.                             *)
(***************************************************************************)
EXTENDS ApplicationResources, ResourceStore, FiniteSetTheorems, NaturalsInduction,
        WellFoundedInduction, TLAPS

Threads == Writers \cup Waiters

Steps == Critical \cup {"idle", "locking", "asleep", "woken"}

(* What waitFor asks for, and the part of TypeOK about the mutex.          *)
Asked(w) == key[w] = None <=> pc[w] \in {"idle", "leaving"}

Shapes ==
  /\ generation \in Nat
  /\ key \in [Waiters -> Paths \cup {None}]
  /\ DOMAIN resources \subseteq Paths

Owns(t) == holder = t <=> pc[t] \in Critical

LEMMA TypeParts ==
  TypeOK <=>
    /\ Shapes
    /\ pc \in [Threads -> Steps]
    /\ \A w \in Waiters : Asked(w)
    /\ \A t \in Threads : Owns(t)
BY DEF TypeOK, Threads, Steps, Asked, Owns, Shapes

LEMMA InitMonitor == Init => Monitor
<1> SUFFICES ASSUME Init PROVE Monitor
  OBVIOUS
<1>1. pc \in [Threads -> Steps]
  BY DEF Init, Threads, Steps
<1>2. \A t \in Threads : Owns(t)
  BY ThreadsAssumption DEF Init, Owns, Threads, Critical
<1>3. \A w \in Waiters : Asked(w)
  BY DEF Init, Asked
<1>4. Shapes
  BY DEF Init, Empty, Shapes
<1>5. NoLostWakeup
  BY DEF Init, NoLostWakeup
<1> QED
  BY <1>1, <1>2, <1>3, <1>4, <1>5, TypeParts DEF Monitor

(* One thread moves on, and the mutex is handed over as it has to be.      *)
LEMMA OneMoves ==
  ASSUME TypeOK, NEW t \in Threads, NEW to \in Steps,
         pc' = [pc EXCEPT ![t] = to],
         \/ holder' = holder /\ (pc[t] \in Critical <=> to \in Critical)
         \/ holder = None /\ holder' = t /\ to \in Critical
         \/ holder = t /\ holder' = None /\ to \notin Critical
  PROVE  /\ pc' \in [Threads -> Steps]
         /\ \A s \in Threads : Owns(s)'
         /\ pc'[t] = to
         /\ \A s \in Threads : s # t => pc'[s] = pc[s]
<1>1. pc \in [Threads -> Steps] /\ \A s \in Threads : Owns(s)
  BY TypeParts
<1>2. pc' \in [Threads -> Steps]
  BY <1>1
<1>3. pc'[t] = to /\ \A s \in Threads : s # t => pc'[s] = pc[s]
  BY <1>1
<1>4. ASSUME NEW s \in Threads PROVE Owns(s)'
  <2>1. s # None
    BY ThreadsAssumption DEF Threads
  <2>2. Owns(s) /\ Owns(t)
    BY <1>1
  <2> QED
    BY <2>1, <2>2, <1>3 DEF Owns
<1> QED
  BY <1>2, <1>3, <1>4

(* A thread that takes the mutex changes nothing else.                     *)
LEMMA AcquireMonitor ==
  ASSUME Monitor, NEW t \in Threads, NEW from \in {"idle", "locking", "woken"},
         NEW to \in {"changing", "checking", "last"},
         from = "idle" => t \in Writers,
         Acquire(t, from, to)
  PROVE  Monitor'
<1>1. TypeOK /\ NoLostWakeup
  BY DEF Monitor
<1>2. /\ pc' \in [Threads -> Steps]
      /\ \A s \in Threads : Owns(s)'
      /\ pc'[t] = to
      /\ \A s \in Threads : s # t => pc'[s] = pc[s]
  <2>1. pc' = [pc EXCEPT ![t] = to] /\ holder = None /\ holder' = t
    BY DEF Acquire, Go
  <2>2. to \in Critical /\ to \in Steps
    BY DEF Critical, Steps
  <2> QED
    BY <1>1, <2>1, <2>2, OneMoves
<1>3. pc[t] = from /\ UNCHANGED << store, calls >>
  BY DEF Acquire
<1>4. \A w \in Waiters : Asked(w)'
  <2> TAKE w \in Waiters
  <2>1. Asked(w) /\ key' = key
    BY <1>1, <1>3, TypeParts DEF calls
  <2>2. CASE w = t
    <3>1. from # "idle"
      BY <2>2, ThreadsAssumption
    <3> QED
      BY <2>1, <2>2, <3>1, <1>2, <1>3 DEF Asked
  <2>3. CASE w # t
    BY <2>1, <2>3, <1>2 DEF Asked, Threads
  <2> QED
    BY <2>2, <2>3
<1>5. Shapes'
  BY <1>1, <1>3, TypeParts DEF store, calls, Shapes
<1>6. NoLostWakeup'
  <2> SUFFICES ASSUME NEW w \in Waiters, pc'[w] = "asleep", Present(w)'
               PROVE  \E s \in Writers : pc'[s] = "notifying"
    BY DEF NoLostWakeup
  <2>1. w # t /\ pc[w] = "asleep" /\ Present(w)
    BY <1>2, <1>3 DEF Threads, Present, store, calls
  <2>2. PICK s \in Writers : pc[s] = "notifying"
    BY <2>1, <1>1 DEF NoLostWakeup
  <2> QED
    BY <2>2, <1>2, <1>3 DEF Threads
<1> QED
  BY <1>2, <1>4, <1>5, <1>6 DEF Monitor, TypeOK, Threads, Steps, Asked, Owns, Shapes

(* The writer that owns the mutex changes the store, and is to notify.     *)
LEMMA ChangingMonitor ==
  ASSUME Monitor, NEW t \in Writers, Changing(t),
         DOMAIN resources' \subseteq Paths
  PROVE  Monitor'
<1>1. TypeOK /\ t \in Threads
  BY DEF Monitor, Threads
<1>2. /\ pc' \in [Threads -> Steps]
      /\ \A s \in Threads : Owns(s)'
      /\ pc'[t] = "notifying"
      /\ \A s \in Threads : s # t => pc'[s] = pc[s]
  <2>1. /\ pc' = [pc EXCEPT ![t] = "notifying"] /\ holder' = holder
        /\ pc[t] = "changing"
    BY DEF Changing, Go
  <2>2. "notifying" \in Critical /\ "changing" \in Critical /\ "notifying" \in Steps
    BY DEF Critical, Steps
  <2> QED
    BY <1>1, <2>1, <2>2, OneMoves
<1>3. \A w \in Waiters : Asked(w)'
  <2> TAKE w \in Waiters
  <2>1. Asked(w) /\ key' = key /\ w # t
    BY <1>1, TypeParts, ThreadsAssumption DEF Changing, calls
  <2> QED
    BY <2>1, <1>2 DEF Asked, Threads
<1>4. NoLostWakeup'
  BY <1>2 DEF NoLostWakeup
<1>5. Shapes'
  BY <1>1, TypeParts DEF Changing, calls, Shapes
<1> QED
  BY <1>2, <1>3, <1>4, <1>5 DEF Monitor, TypeOK, Threads, Steps, Asked, Owns, Shapes

LEMMA WriteMonitor ==
  ASSUME Monitor, NEW t \in Writers, Write(t)
  PROVE  Monitor'
<1>1. DOMAIN resources \subseteq Paths
  BY TypeParts DEF Monitor, Shapes
<1>2. Changing(t)
  BY DEF Write, OnApplicationState, OnApplicationResource,
         OnApplicationResourceRemoved, Clear
<1>3. CASE OnApplicationState(t)
  BY <1>1, <1>2, <1>3, ChangingMonitor DEF OnApplicationState
<1>4. CASE OnApplicationResource(t)
  <2>1. PICK path \in Paths : DOMAIN resources' = DOMAIN resources \cup {path}
    BY <1>4 DEF OnApplicationResource
  <2> QED
    BY <2>1, <1>1, <1>2, ChangingMonitor
<1>5. CASE OnApplicationResourceRemoved(t)
  <2>1. PICK path \in Paths : DOMAIN resources' = DOMAIN resources \ {path}
    BY <1>5 DEF OnApplicationResourceRemoved
  <2> QED
    BY <2>1, <1>1, <1>2, ChangingMonitor
<1>6. CASE Clear(t)
  <2>1. DOMAIN resources' = {}
    BY <1>6 DEF Clear, Empty
  <2> QED
    BY <2>1, <1>2, ChangingMonitor
<1> QED
  BY <1>3, <1>4, <1>5, <1>6 DEF Write

(* After the notification nobody is asleep.                                *)
LEMMA NotifyMonitor ==
  ASSUME Monitor, NEW t \in Writers, NotifyAll(t)
  PROVE  Monitor'
<1>1. /\ pc \in [Threads -> Steps]
      /\ \A s \in Threads : Owns(s)
      /\ \A w \in Waiters : Asked(w)
      /\ Shapes
  BY TypeParts DEF Monitor
<1>2. /\ pc[t] = "notifying" /\ t \in Threads
      /\ \A s \in Threads :
           pc'[s] = IF s = t THEN "leaving"
                    ELSE IF pc[s] = "asleep" THEN "woken" ELSE pc[s]
      /\ pc' \in [Threads -> Steps]
      /\ UNCHANGED << holder, resources, generation, key >>
  BY <1>1 DEF NotifyAll, store, calls, Threads, Steps, Critical
<1>3. ASSUME NEW s \in Threads PROVE Owns(s)'
  <2>1. pc'[s] \in Critical <=> pc[s] \in Critical
    BY <1>1, <1>2, <1>3 DEF Critical
  <2> QED
    BY <2>1, <1>1, <1>2, <1>3 DEF Owns
<1>4. ASSUME NEW w \in Waiters PROVE Asked(w)'
  <2>1. w # t /\ w \in Threads
    BY <1>4, ThreadsAssumption DEF Threads
  <2> QED
    BY <2>1, <1>1, <1>2 DEF Asked
<1>5. NoLostWakeup'
  BY <1>2 DEF NoLostWakeup, Threads
<1>6. Shapes'
  BY <1>1, <1>2 DEF Shapes
<1> QED
  BY <1>2, <1>3, <1>4, <1>5, <1>6 DEF Monitor, TypeOK, Threads, Steps, Asked, Owns, Shapes

(* A thread in the mutex leaves it, to be idle or to sleep on a path that  *)
(* has no file; the store stays.                                           *)
LEMMA LeaveMonitor ==
  ASSUME Monitor, NEW t \in Threads, NEW to \in {"idle", "asleep"},
         pc[t] \in {"leaving", "checking"},
         pc[t] = "leaving" <=> to = "idle",
         to = "asleep" => t \in Waiters /\ ~Present(t),
         Go(t, to), holder' = None, UNCHANGED << store, calls >>
  PROVE  Monitor'
<1>1. TypeOK /\ NoLostWakeup
  BY DEF Monitor
<1>2. /\ pc' \in [Threads -> Steps]
      /\ \A s \in Threads : Owns(s)'
      /\ pc'[t] = to
      /\ \A s \in Threads : s # t => pc'[s] = pc[s]
  <2>1. pc' = [pc EXCEPT ![t] = to] /\ holder = t
    BY <1>1, TypeParts DEF Go, Owns, Critical
  <2>2. to \notin Critical /\ to \in Steps
    BY DEF Critical, Steps
  <2> QED
    BY <1>1, <2>1, <2>2, OneMoves
<1>3. \A w \in Waiters : Asked(w)'
  <2> TAKE w \in Waiters
  <2>1. Asked(w) /\ key' = key
    BY <1>1, TypeParts DEF calls
  <2> QED
    BY <2>1, <1>2 DEF Asked, Threads
<1>4. Shapes'
  BY <1>1, TypeParts DEF store, calls, Shapes
<1>5. NoLostWakeup'
  <2> SUFFICES ASSUME NEW w \in Waiters, pc'[w] = "asleep", Present(w)'
               PROVE  \E s \in Writers : pc'[s] = "notifying"
    BY DEF NoLostWakeup
  <2>1. Present(w)
    BY DEF Present, store, calls
  <2>2. w # t /\ pc[w] = "asleep"
    BY <2>1, <1>2 DEF Threads
  <2>3. PICK s \in Writers : pc[s] = "notifying"
    BY <2>1, <2>2, <1>1 DEF NoLostWakeup
  <2> QED
    BY <2>3, <1>2 DEF Threads
<1> QED
  BY <1>2, <1>3, <1>4, <1>5 DEF Monitor, TypeOK, Threads, Steps, Asked, Owns, Shapes

(* A client moves on without the mutex changing hands, and not to sleep.   *)
LEMMA ClientMonitor ==
  ASSUME Monitor, NEW w \in Waiters, NEW to \in Steps \ {"asleep"},
         NEW path \in Paths \cup {None},
         pc[w] \in Critical <=> to \in Critical,
         path = None <=> to \in {"idle", "leaving"},
         Go(w, to), key' = [key EXCEPT ![w] = path],
         UNCHANGED << holder, store >>
  PROVE  Monitor'
<1>1. TypeOK /\ NoLostWakeup /\ w \in Threads /\ Shapes
  BY TypeParts DEF Monitor, Threads
<1>2. /\ pc' \in [Threads -> Steps]
      /\ \A s \in Threads : Owns(s)'
      /\ pc'[w] = to
      /\ \A s \in Threads : s # w => pc'[s] = pc[s]
  BY <1>1, OneMoves DEF Go
<1>3. /\ key' \in [Waiters -> Paths \cup {None}]
      /\ key'[w] = path
      /\ \A v \in Waiters : v # w => key'[v] = key[v]
  BY <1>1 DEF Shapes
<1>4. Shapes'
  BY <1>1, <1>3 DEF Shapes, store
<1>5. ASSUME NEW v \in Waiters PROVE Asked(v)'
  <2>1. Asked(v) /\ v \in Threads
    BY <1>1, TypeParts DEF Threads
  <2> QED
    BY <2>1, <1>2, <1>3 DEF Asked
<1>6. NoLostWakeup'
  <2> SUFFICES ASSUME NEW v \in Waiters, pc'[v] = "asleep", Present(v)'
               PROVE  \E s \in Writers : pc'[s] = "notifying"
    BY DEF NoLostWakeup
  <2>1. v # w /\ pc[v] = "asleep" /\ Present(v)
    BY <1>2, <1>3 DEF Threads, Present, store
  <2>2. PICK s \in Writers : pc[s] = "notifying"
    BY <2>1, <1>1 DEF NoLostWakeup
  <2>3. s # w /\ s \in Threads
    BY ThreadsAssumption DEF Threads
  <2> QED
    BY <2>2, <2>3, <1>2
<1> QED
  BY <1>2, <1>4, <1>5, <1>6 DEF Monitor, TypeOK, Threads, Steps, Asked, Owns, Shapes

(* What the monitor reads stays.                                           *)
LEMMA StutterMonitor ==
  ASSUME Monitor, UNCHANGED << holder, pc, resources, generation, key >>
  PROVE  Monitor'
BY DEF Monitor, TypeOK, NoLostWakeup, Present

LEMMA WaiterMonitor ==
  ASSUME Monitor, NEW w \in Waiters,
         \/ \E n \in Names : Call(w, n) \/ Refuse(w, n)
         \/ DeadlinePasses(w) \/ Lock(w) \/ WaitStep(w) \/ Wake(w) \/ Relock(w) \/ Release(w)
  PROVE  Monitor'
<1>1. /\ Shapes /\ Asked(w) /\ Owns(w) /\ w \in Threads
      /\ pc \in [Threads -> Steps]
  BY TypeParts DEF Monitor, Threads
<1>2. ASSUME NEW n \in Names, Call(w, n) PROVE Monitor'
  <2>1. /\ pc[w] = "idle" /\ Go(w, "locking")
        /\ key' = [key EXCEPT ![w] = Normal[n]] /\ UNCHANGED << holder, store >>
        /\ Normal[n] # None
    BY <1>2 DEF Call, Free
  <2>2. Normal[n] \in Paths
    BY <2>1, NormalAssumption
  <2>3. "locking" \in Steps \ {"asleep"} /\ "locking" \notin Critical /\ "idle" \notin Critical
    BY DEF Steps, Critical
  <2> QED
    BY <2>1, <2>2, <2>3, ClientMonitor
<1>3. ASSUME NEW n \in Names, Refuse(w, n) PROVE Monitor'
  BY <1>3, StutterMonitor DEF Refuse, store
<1>4. CASE DeadlinePasses(w)
  BY <1>4, StutterMonitor DEF DeadlinePasses, store
<1>5. CASE Lock(w)
  BY <1>5, <1>1, AcquireMonitor DEF Lock
<1>6. CASE Relock(w)
  BY <1>6, <1>1, AcquireMonitor DEF Relock
<1>7. CASE Find(w) \/ GiveUp(w)
  <2>1. /\ pc[w] \in {"checking", "last"} /\ Go(w, "leaving")
        /\ key' = [key EXCEPT ![w] = None] /\ UNCHANGED << holder, store >>
    BY <1>7 DEF Find, GiveUp, Return
  <2>2. "leaving" \in Steps \ {"asleep"} /\ {"checking", "last", "leaving"} \subseteq Critical
    BY DEF Steps, Critical
  <2> QED
    BY <2>1, <2>2, ClientMonitor
<1>8. CASE Sleep(w)
  BY <1>8, <1>1, LeaveMonitor DEF Sleep
<1>9. CASE Wake(w)
  <2>1. /\ pc[w] = "asleep" /\ Go(w, "woken")
        /\ UNCHANGED << holder, store, key >>
    BY <1>9 DEF Wake, calls
  <2>2. key' = [key EXCEPT ![w] = key[w]] /\ key[w] \in Paths
    BY <2>1, <1>1 DEF Shapes, Asked
  <2>3. "woken" \in Steps \ {"asleep"} /\ "woken" \notin Critical /\ "asleep" \notin Critical
    BY DEF Steps, Critical
  <2>4. key[w] # None
    BY <2>1, <1>1 DEF Asked
  <2> QED
    BY <2>1, <2>2, <2>3, <2>4, ClientMonitor
<1>10. CASE Release(w)
  BY <1>10, <1>1, LeaveMonitor DEF Release
<1> QED
  BY <1>2, <1>3, <1>4, <1>5, <1>6, <1>7, <1>8, <1>9, <1>10 DEF WaitStep

LEMMA WriterMonitor ==
  ASSUME Monitor, NEW t \in Writers,
         BeginChange(t) \/ Write(t) \/ NotifyAll(t) \/ Release(t)
  PROVE  Monitor'
<1>1. t \in Threads
  BY DEF Threads
<1>2. CASE BeginChange(t)
  BY <1>1, <1>2, AcquireMonitor DEF BeginChange
<1>3. CASE Write(t)
  BY <1>3, WriteMonitor
<1>4. CASE NotifyAll(t)
  BY <1>4, NotifyMonitor
<1>5. CASE Release(t)
  BY <1>1, <1>5, LeaveMonitor DEF Release
<1> QED
  BY <1>2, <1>3, <1>4, <1>5

(***************************************************************************)
(* Any number of threads that store, replace, remove and clear, and that   *)
(* wait with and without a deadline, never get two into the mutex, nor     *)
(* leave one asleep beside the file it waits for (waitFor and the          *)
(* notify_all of every change of ApplicationResourceStore).                *)
(***************************************************************************)
THEOREM MonitorSound == Spec => []Monitor
<1>1. Init => Monitor
  BY InitMonitor
<1>2. Monitor /\ [Next]_vars => Monitor'
  <2> SUFFICES ASSUME Monitor, [Next]_vars PROVE Monitor'
    OBVIOUS
  <2>1. ASSUME NEW t \in Writers,
               BeginChange(t) \/ Write(t) \/ NotifyAll(t) \/ Release(t)
        PROVE  Monitor'
    BY <2>1, WriterMonitor
  <2>2. ASSUME NEW w \in Waiters,
               \/ \E n \in Names : Call(w, n) \/ Refuse(w, n)
               \/ DeadlinePasses(w) \/ Lock(w) \/ WaitStep(w) \/ Wake(w)
               \/ Relock(w) \/ Release(w)
        PROVE  Monitor'
    BY <2>2, WaiterMonitor
  <2>3. ASSUME NEW r \in Readers, ReadStep(r) PROVE Monitor'
    <3>1. UNCHANGED << holder, pc, store, calls >>
      BY <2>3 DEF ReadStep, ReadBefore, ReadList, ReadEntry, ReadFile, ReadAfter,
                  ReadAgain, Read
    <3> QED
      BY <3>1, StutterMonitor DEF store, calls
  <2>4. CASE UNCHANGED vars
    BY <2>4, StutterMonitor DEF vars
  <2> QED
    BY <2>1, <2>2, <2>3, <2>4 DEF Next
<1> QED
  BY <1>1, <1>2, PTL DEF Spec
-----------------------------------------------------------------------------
(***************************************************************************)
(* Snapshots: why it is so.  Every change raises the generation, so what a *)
(* reader has seen is as it saw it for as long as the generation is the    *)
(* one it began with; and a file stored later is numbered later than any   *)
(* it has listed.                                                          *)
(***************************************************************************)
ReadSteps == {"before", "list", "entry", "get", "after", "done"}

Files ==
  UNION {[known -> [content : Contents, generation : Nat]] : known \in SUBSET Paths}

View ==
  [step : ReadSteps, before : Nat, listed : Files, entry : Paths \cup {None},
   file : Contents \cup {None}, after : Nat]

Numbered(listing) == \A p \in DOMAIN listing : listing[p].generation <= generation

AsListed(v) == v.entry # None => v.entry \in DOMAIN v.listed

Seen(v) ==
  /\ v.step \in {"entry", "get", "after"} => v.listed = resources
  /\ v.step \in {"get", "after"} => AsListed(v)
  /\ v.step = "after" /\ v.entry # None => v.file = v.listed[v.entry].content

Snapshots ==
  /\ generation \in Nat
  /\ resources \in Files
  /\ reading \in [Readers -> View]
  /\ Numbered(resources)
  /\ \A r \in Readers :
       /\ reading[r].before <= generation
       /\ Numbered(reading[r].listed)
       /\ reading[r].before = generation => Seen(reading[r])

(* The short calls.                                                        *)
ReadInv == Snapshots /\ GenerationNamesBytes /\ StableReads

LEMMA EmptyIsFiles == Empty \in Files /\ DOMAIN Empty = {}
<1>1. Empty \in [{} -> [content : Contents, generation : Nat]]
  BY DEF Empty
<1>2. {} \in SUBSET Paths
  OBVIOUS
<1> QED
  BY <1>1, <1>2 DEF Files, Empty

LEMMA InitReads == Init => ReadInv
<1> SUFFICES ASSUME Init PROVE ReadInv
  OBVIOUS
<1>1. NotRead \in View
  BY EmptyIsFiles DEF NotRead, View, ReadSteps
<1>2. resources = Empty /\ generation = 0 /\ reading = [r \in Readers |-> NotRead]
  BY DEF Init
<1>3. Numbered(Empty)
  BY EmptyIsFiles DEF Numbered
<1>4. ASSUME NEW r \in Readers
      PROVE  /\ reading[r].before = 0 /\ reading[r].listed = Empty
             /\ reading[r].step = "before"
  BY <1>2 DEF NotRead
<1>5. Snapshots
  BY <1>1, <1>2, <1>3, <1>4, EmptyIsFiles DEF Snapshots, Seen
<1>6. GenerationNamesBytes
  BY <1>4, EmptyIsFiles DEF GenerationNamesBytes
<1>7. StableReads
  BY <1>4 DEF StableReads
<1> QED
  BY <1>5, <1>6, <1>7 DEF ReadInv

(* A change: files it stores have the new generation, the others stay.     *)
LEMMA ChangeReads ==
  ASSUME ReadInv, generation' = generation + 1, reading' = reading,
         resources' \in Files,
         \A p \in DOMAIN resources' :
           \/ resources'[p].generation = generation + 1
           \/ p \in DOMAIN resources /\ resources'[p] = resources[p]
  PROVE  ReadInv'
<1>1. /\ Snapshots /\ GenerationNamesBytes /\ StableReads
      /\ generation \in Nat /\ generation' \in Nat /\ generation < generation'
  BY DEF ReadInv, Snapshots
<1>2. ASSUME NEW listing \in Files, NEW p \in DOMAIN listing
      PROVE  /\ listing[p].generation \in Nat
             /\ listing[p].generation <= generation => listing[p].generation <= generation'
  <2>1. listing[p].generation \in Nat
    BY DEF Files
  <2> QED
    BY <2>1, <1>1
<1>3. ASSUME NEW p \in DOMAIN resources'
      PROVE  resources'[p].generation <= generation'
  <2>1. CASE resources'[p].generation = generation + 1
    BY <2>1, <1>1
  <2>2. CASE p \in DOMAIN resources /\ resources'[p] = resources[p]
    <3>1. resources[p].generation <= generation /\ resources \in Files
      BY <2>2, <1>1 DEF Snapshots, Numbered
    <3> QED
      BY <2>2, <3>1, <1>2
  <2> QED
    BY <2>1, <2>2
<1>4. ASSUME NEW r \in Readers
      PROVE  /\ reading[r].before <= generation' /\ reading[r].before # generation'
             /\ \A p \in DOMAIN reading[r].listed :
                  reading[r].listed[p].generation <= generation'
             /\ reading[r].listed \in Files
  <2>1. /\ reading[r].listed \in Files /\ reading[r].before \in Nat
        /\ reading[r].before <= generation
        /\ \A p \in DOMAIN reading[r].listed :
             reading[r].listed[p].generation <= generation
    BY <1>1 DEF Snapshots, View, Numbered
  <2> QED
    BY <2>1, <1>1, <1>2
<1>5. Snapshots'
  BY <1>1, <1>3, <1>4 DEF Snapshots, Numbered
<1>6. GenerationNamesBytes'
  <2> SUFFICES ASSUME NEW r \in Readers,
                      NEW p \in DOMAIN reading[r].listed \cap DOMAIN resources',
                      reading[r].listed[p].generation = resources'[p].generation
               PROVE  reading[r].listed[p] = resources'[p]
    BY DEF GenerationNamesBytes
  <2>1. reading[r].listed[p].generation \in Nat
    BY <1>4 DEF Files
  <2>2. reading[r].listed[p].generation <= generation
    BY <1>1 DEF Snapshots, Numbered
  <2>3. p \in DOMAIN resources /\ resources'[p] = resources[p]
    BY <2>1, <2>2, <1>1
  <2> QED
    BY <2>3, <1>1 DEF GenerationNamesBytes
<1>7. StableReads'
  BY <1>1 DEF StableReads
<1> QED
  BY <1>5, <1>6, <1>7 DEF ReadInv

LEMMA WriteReads ==
  ASSUME ReadInv, NEW t \in Writers, Write(t)
  PROVE  ReadInv'
<1>1. generation' = generation + 1 /\ reading' = reading
  BY DEF Write, Changing, OnApplicationState, OnApplicationResource,
         OnApplicationResourceRemoved, Clear
<1>2. resources \in Files /\ generation \in Nat
  BY DEF ReadInv, Snapshots
<1>3. PICK known \in SUBSET Paths :
        resources \in [known -> [content : Contents, generation : Nat]]
  BY <1>2 DEF Files
<1>4. CASE OnApplicationState(t)
  BY <1>1, <1>2, <1>4, ChangeReads DEF OnApplicationState
<1>5. CASE OnApplicationResource(t)
  <2>1. PICK path \in Paths, content \in Contents :
          resources' = [p \in known \cup {path} |->
                          IF p = path
                          THEN [content |-> content, generation |-> generation + 1]
                          ELSE resources[p]]
    BY <1>1, <1>3, <1>5 DEF OnApplicationResource
  <2>2. resources' \in [known \cup {path} -> [content : Contents, generation : Nat]]
    BY <2>1, <1>2, <1>3
  <2>3. resources' \in Files
    BY <2>2 DEF Files
  <2>4. ASSUME NEW p \in DOMAIN resources'
        PROVE  \/ resources'[p].generation = generation + 1
               \/ p \in DOMAIN resources /\ resources'[p] = resources[p]
    BY <2>1, <1>3
  <2> QED
    BY <2>3, <2>4, <1>1, ChangeReads
<1>6. CASE OnApplicationResourceRemoved(t)
  <2>1. PICK path \in Paths :
          resources' = [p \in known \ {path} |-> resources[p]]
    BY <1>3, <1>6 DEF OnApplicationResourceRemoved
  <2>2. resources' \in [known \ {path} -> [content : Contents, generation : Nat]]
    BY <2>1, <1>3
  <2>3. resources' \in Files
    BY <2>2 DEF Files
  <2>4. ASSUME NEW p \in DOMAIN resources'
        PROVE  p \in DOMAIN resources /\ resources'[p] = resources[p]
    BY <2>1, <1>3
  <2> QED
    BY <2>3, <2>4, <1>1, ChangeReads
<1>7. CASE Clear(t)
  <2>1. resources' = Empty
    BY <1>7 DEF Clear
  <2> QED
    BY <2>1, <1>1, EmptyIsFiles, ChangeReads
<1> QED
  BY <1>4, <1>5, <1>6, <1>7 DEF Write

(* One call of a reader: what it adds to the view is what the store shows. *)
LEMMA ViewReads ==
  ASSUME ReadInv, NEW r \in Readers, NEW v \in View,
         reading' = [reading EXCEPT ![r] = v],
         UNCHANGED << resources, generation >>,
         v.before <= generation, Numbered(v.listed),
         v.before = generation => Seen(v),
         \A p \in DOMAIN v.listed \cap DOMAIN resources :
           v.listed[p].generation = resources[p].generation => v.listed[p] = resources[p],
         v.step = "done" /\ v.before = v.after /\ v.entry # None =>
           v.entry \in DOMAIN v.listed /\ v.file = v.listed[v.entry].content
  PROVE  ReadInv'
<1>1. Snapshots /\ GenerationNamesBytes /\ StableReads
  BY DEF ReadInv
<1>2. /\ reading' \in [Readers -> View]
      /\ reading'[r] = v
      /\ \A s \in Readers : s # r => reading'[s] = reading[s]
  BY <1>1 DEF Snapshots
<1>3. Snapshots'
  <2>1. ASSUME NEW s \in Readers
        PROVE  /\ reading'[s].before <= generation
               /\ Numbered(reading'[s].listed)
               /\ reading'[s].before = generation => Seen(reading'[s])
    <3>1. CASE s = r
      BY <3>1, <1>2
    <3>2. CASE s # r
      BY <3>2, <1>1, <1>2 DEF Snapshots
    <3> QED
      BY <3>1, <3>2
  <2> QED
    BY <2>1, <1>1, <1>2 DEF Snapshots, Numbered, Seen
<1>4. GenerationNamesBytes'
  <2>1. ASSUME NEW s \in Readers,
               NEW p \in DOMAIN reading'[s].listed \cap DOMAIN resources,
               reading'[s].listed[p].generation = resources[p].generation
        PROVE  reading'[s].listed[p] = resources[p]
    <3>1. CASE s = r
      BY <3>1, <2>1, <1>2
    <3>2. CASE s # r
      BY <3>2, <2>1, <1>1, <1>2 DEF GenerationNamesBytes
    <3> QED
      BY <3>1, <3>2
  <2> QED
    BY <2>1 DEF GenerationNamesBytes
<1>5. StableReads'
  <2>1. ASSUME NEW s \in Readers, reading'[s].step = "done",
               reading'[s].before = reading'[s].after, reading'[s].entry # None
        PROVE  /\ reading'[s].entry \in DOMAIN reading'[s].listed
               /\ reading'[s].file = reading'[s].listed[reading'[s].entry].content
    <3>1. CASE s = r
      BY <3>1, <2>1, <1>2
    <3>2. CASE s # r
      BY <3>2, <2>1, <1>1, <1>2 DEF StableReads
    <3> QED
      BY <3>1, <3>2
  <2> QED
    BY <2>1 DEF StableReads
<1> QED
  BY <1>3, <1>4, <1>5 DEF ReadInv

LEMMA ReaderReads ==
  ASSUME ReadInv, NEW r \in Readers, ReadStep(r)
  PROVE  ReadInv'
<1> DEFINE old == reading[r]
<1>1. Snapshots /\ GenerationNamesBytes /\ StableReads
  BY DEF ReadInv
<1>2. /\ old \in View /\ generation \in Nat /\ resources \in Files
      /\ reading \in [Readers -> View]
      /\ Numbered(resources) /\ Numbered(old.listed)
      /\ old.before <= generation
      /\ old.before = generation => Seen(old)
  BY <1>1 DEF Snapshots
<1>3. UNCHANGED << resources, generation >>
  BY DEF ReadStep, ReadBefore, ReadList, ReadEntry, ReadFile, ReadAfter, ReadAgain,
         Read, store
<1>4. \A p \in DOMAIN old.listed \cap DOMAIN resources :
        old.listed[p].generation = resources[p].generation => old.listed[p] = resources[p]
  BY <1>1 DEF GenerationNamesBytes
<1>5. NotRead \in View /\ Numbered(Empty)
  BY EmptyIsFiles DEF NotRead, View, ReadSteps, Numbered
<1>6. CASE ReadBefore(r) \/ ReadAgain(r)
  <2>1. PICK v \in View :
          /\ reading' = [reading EXCEPT ![r] = v]
          /\ v.before \in {0, generation} /\ v.listed = Empty
          /\ v.step \in {"before", "list"}
    <3>1. CASE ReadBefore(r)
      <4> DEFINE v == [NotRead EXCEPT !.before = generation, !.step = "list"]
      <4>1. v \in View /\ v.before = generation /\ v.listed = Empty /\ v.step = "list"
        BY <1>2, EmptyIsFiles DEF NotRead, View, ReadSteps
      <4>2. reading' = [reading EXCEPT ![r] = v]
        BY <3>1 DEF ReadBefore, Read, NotRead
      <4> QED
        BY <4>1, <4>2
    <3>2. CASE ReadAgain(r)
      <4> DEFINE v == [NotRead EXCEPT !.step = "before"]
      <4>1. v \in View /\ v.before = 0 /\ v.listed = Empty /\ v.step = "before"
        BY <1>2, EmptyIsFiles DEF NotRead, View, ReadSteps
      <4>2. reading' = [reading EXCEPT ![r] = v]
        BY <3>2 DEF ReadAgain, Read
      <4> QED
        BY <4>1, <4>2
    <3> QED
      BY <1>6, <3>1, <3>2
  <2>2. Seen(v)
    BY <2>1 DEF Seen
  <2>3. v.before <= generation
    BY <2>1, <1>2
  <2> QED
    BY <2>1, <2>2, <2>3, <1>3, <1>5, EmptyIsFiles, ViewReads
<1>7. CASE ReadList(r)
  <2> DEFINE v == [old EXCEPT !.listed = resources, !.step = "entry"]
  <2>1. /\ v \in View /\ v.before = old.before /\ v.listed = resources
        /\ v.step = "entry"
    BY <1>2 DEF View, ReadSteps
  <2>2. reading' = [reading EXCEPT ![r] = v]
    BY <1>7, <1>2 DEF ReadList, Read, View
  <2>3. Seen(v)
    BY <2>1 DEF Seen
  <2> HIDE DEF v
  <2> QED
    BY <2>1, <2>2, <2>3, <1>2, <1>3, ViewReads
<1>8. CASE ReadEntry(r)
  <2>1. PICK entry \in IF EntryPaths = {} THEN {None} ELSE EntryPaths :
          /\ old.step = "entry"
          /\ reading' = [reading EXCEPT ![r] = [old EXCEPT !.entry = entry, !.step = "get"]]
    BY <1>8, <1>2 DEF ReadEntry, Read, View
  <2>2. entry = None \/ entry \in DOMAIN resources
    BY <2>1 DEF EntryPaths
  <2>3. entry \in Paths \cup {None}
    BY <2>2, <1>2 DEF Files
  <2> DEFINE v == [old EXCEPT !.entry = entry, !.step = "get"]
  <2>4. /\ v \in View /\ v.before = old.before /\ v.listed = old.listed
        /\ v.step = "get" /\ v.entry = entry
    BY <2>3, <1>2 DEF View, ReadSteps
  <2>5. v.before = generation => Seen(v)
    BY <2>1, <2>2, <2>4, <1>2 DEF Seen, AsListed
  <2>6. reading' = [reading EXCEPT ![r] = v]
    BY <2>1
  <2> HIDE DEF v
  <2> QED
    BY <2>4, <2>5, <2>6, <1>2, <1>3, <1>4, ViewReads
<1>9. CASE ReadFile(r)
  <2> DEFINE v == [old EXCEPT !.file = Get(old.entry), !.step = "after"]
  <2>1. Get(old.entry) \in Contents \cup {None}
    BY <1>2 DEF Get, Files
  <2>2. /\ v \in View /\ v.before = old.before /\ v.listed = old.listed
        /\ v.step = "after" /\ v.entry = old.entry /\ v.file = Get(old.entry)
    BY <2>1, <1>2 DEF View, ReadSteps
  <2>3. old.step = "get" /\ reading' = [reading EXCEPT ![r] = v]
    BY <1>9, <1>2 DEF ReadFile, Read, View
  <2>4. v.before = generation => Seen(v)
    BY <2>2, <2>3, <1>2 DEF Seen, AsListed, Get
  <2> HIDE DEF v
  <2> QED
    BY <2>2, <2>3, <2>4, <1>2, <1>3, <1>4, ViewReads
<1>10. CASE ReadAfter(r)
  <2> DEFINE v == [old EXCEPT !.after = generation, !.step = "done"]
  <2>1. /\ v \in View /\ v.before = old.before /\ v.listed = old.listed
        /\ v.step = "done" /\ v.entry = old.entry /\ v.file = old.file
        /\ v.after = generation
    BY <1>2 DEF View, ReadSteps
  <2>2. old.step = "after" /\ reading' = [reading EXCEPT ![r] = v]
    BY <1>10, <1>2 DEF ReadAfter, Read, View
  <2>3. Seen(v)
    BY <2>1 DEF Seen
  <2>4. v.before = v.after /\ v.entry # None =>
          v.entry \in DOMAIN v.listed /\ v.file = v.listed[v.entry].content
    BY <2>1, <2>2, <1>2 DEF Seen, AsListed
  <2> HIDE DEF v
  <2> QED
    BY <2>1, <2>2, <2>3, <2>4, <1>2, <1>3, <1>4, ViewReads
<1> QED
  BY <1>6, <1>7, <1>8, <1>9, <1>10 DEF ReadStep

LEMMA QuietReads ==
  ASSUME ReadInv, UNCHANGED << resources, generation, reading >>
  PROVE  ReadInv'
BY DEF ReadInv, Snapshots, GenerationNamesBytes, StableReads, Seen, Numbered

LEMMA NextReads == ReadInv /\ [Next]_vars => ReadInv'
<1> SUFFICES ASSUME ReadInv, [Next]_vars PROVE ReadInv'
  OBVIOUS
<1>1. ASSUME NEW t \in Writers,
             BeginChange(t) \/ Write(t) \/ NotifyAll(t) \/ Release(t)
      PROVE  ReadInv'
  <2>1. CASE Write(t)
    BY <2>1, WriteReads
  <2>2. CASE BeginChange(t) \/ NotifyAll(t) \/ Release(t)
    BY <2>2, QuietReads DEF BeginChange, Acquire, NotifyAll, Release, store
  <2> QED
    BY <1>1, <2>1, <2>2
<1>2. ASSUME NEW w \in Waiters,
             \/ \E n \in Names : Call(w, n) \/ Refuse(w, n)
             \/ DeadlinePasses(w) \/ Lock(w) \/ WaitStep(w) \/ Wake(w)
             \/ Relock(w) \/ Release(w)
      PROVE  ReadInv'
  <2>1. UNCHANGED << store, reading >>
    BY <1>2 DEF Call, Refuse, DeadlinePasses, Lock, Relock, Acquire, WaitStep, Find,
                Sleep, GiveUp, Return, Wake, Release
  <2> QED
    BY <2>1, QuietReads DEF store
<1>3. ASSUME NEW r \in Readers, ReadStep(r) PROVE ReadInv'
  BY <1>3, ReaderReads
<1>4. CASE UNCHANGED vars
  BY <1>4, QuietReads DEF vars
<1> QED
  BY <1>1, <1>2, <1>3, <1>4 DEF Next

(***************************************************************************)
(* What a client caches by path and generation is never other bytes than   *)
(* the store's: no change of ApplicationResourceStore, clear included,     *)
(* gives a generation out twice.                                           *)
(***************************************************************************)
THEOREM GenerationsName == Spec => []GenerationNamesBytes
<1>1. Init => ReadInv
  BY InitReads
<1>2. ReadInv /\ [Next]_vars => ReadInv'
  BY NextReads
<1>3. ReadInv => GenerationNamesBytes
  BY DEF ReadInv
<1> QED
  BY <1>1, <1>2, <1>3, PTL DEF Spec

(***************************************************************************)
(* Calls between which generation() stays the same have seen one store:    *)
(* every change bumps it in the critical section it is made in.            *)
(***************************************************************************)
THEOREM ReadsStable == Spec => []StableReads
<1>1. Init => ReadInv
  BY InitReads
<1>2. ReadInv /\ [Next]_vars => ReadInv'
  BY NextReads
<1>3. ReadInv => StableReads
  BY DEF ReadInv
<1> QED
  BY <1>1, <1>2, <1>3, PTL DEF Spec

-----------------------------------------------------------------------------
(***************************************************************************)
(* Refinement: waitFor locks, sleeps and wakes as often as it likes, and   *)
(* is one look at the store.                                               *)
(***************************************************************************)
Held(listing) == [p \in DOMAIN listing |-> listing[p].content]

LEMMA FilesHeld ==
  ASSUME NEW listing \in Files
  PROVE  \E known \in SUBSET Paths : Held(listing) \in [known -> Contents]
<1>1. PICK known \in SUBSET Paths : listing \in [known -> [content : Contents, generation : Nat]]
  BY DEF Files
<1>2. Held(listing) \in [known -> Contents]
  BY <1>1 DEF Held
<1> QED
  BY <1>2

LEMMA ChangeLooks ==
  ASSUME resources' \in Files, UNCHANGED << key, answer >>
  PROVE  Abstract!Next
<1>1. \E known \in SUBSET Paths : Held(resources') \in [known -> Contents]
  BY FilesHeld
<1> QED
  BY <1>1 DEF Abstract!Next, Abstract!Change, Held

LEMMA ReturnLooks ==
  ASSUME TypeOK, NEW w \in Waiters, pc[w] \in {"checking", "last"}, NEW value,
         value = IF Present(w) THEN resources[key[w]].content ELSE None,
         Return(w, value)
  PROVE  Abstract!Next
<1>1. key[w] # None
  BY TypeParts DEF Asked
<1>2. value = Abstract!Found(w)
  BY DEF Abstract!Found, Present
<1>3. Abstract!Answer(w)
  BY <1>1, <1>2 DEF Return, store, Abstract!Answer
<1> QED
  BY <1>3 DEF Abstract!Next

LEMMA StepLooks ==
  ASSUME TypeOK, ReadInv, ReadInv', [Next]_vars
  PROVE  [Abstract!Next]_(Abstract!vars)
<1> DEFINE Looks == [Abstract!Next]_(Abstract!vars)
<1>1. ASSUME UNCHANGED << resources, key, answer >> PROVE Looks
  BY <1>1 DEF Abstract!vars
<1>2. ASSUME NEW t \in Writers, BeginChange(t) \/ Write(t) \/ NotifyAll(t) \/ Release(t)
      PROVE  Looks
  <2>1. UNCHANGED << key, answer >>
    BY <1>2 DEF BeginChange, Acquire, Write, OnApplicationState, OnApplicationResource,
                OnApplicationResourceRemoved, Clear, Changing, NotifyAll, Release, calls
  <2>2. resources' \in Files
    BY DEF ReadInv, Snapshots
  <2> QED
    BY <2>1, <2>2, ChangeLooks
<1>3. ASSUME NEW w \in Waiters, NEW n \in Names, Call(w, n) PROVE Abstract!Next
  <2>1. key[w] = None
    BY <1>3, TypeParts DEF Asked, Call, Free
  <2>2. Normal[n] \in Paths
    BY <1>3, NormalAssumption DEF Call
  <2>3. Abstract!Ask(w)
    BY <1>3, <2>1, <2>2 DEF Call, store, Abstract!Ask
  <2> QED
    BY <2>3 DEF Abstract!Next
<1>4. ASSUME NEW w \in Waiters, NEW n \in Names, Refuse(w, n) PROVE Abstract!Next
  <2>1. key[w] = None
    BY <1>4, TypeParts DEF Asked, Refuse, Free
  <2>2. Abstract!Refuse(w)
    BY <1>4, <2>1 DEF Refuse, store, Abstract!Refuse
  <2> QED
    BY <2>2 DEF Abstract!Next
<1>5. ASSUME NEW w \in Waiters, Find(w) \/ GiveUp(w) PROVE Abstract!Next
  BY <1>5, ReturnLooks DEF Find, GiveUp
<1>6. ASSUME NEW w \in Waiters,
             DeadlinePasses(w) \/ Lock(w) \/ Sleep(w) \/ Wake(w) \/ Relock(w) \/ Release(w)
      PROVE  Looks
  BY <1>1, <1>6 DEF DeadlinePasses, Lock, Sleep, Wake, Relock, Release, Acquire, store, calls
<1>7. ASSUME NEW r \in Readers, ReadStep(r) PROVE Looks
  BY <1>1, <1>7 DEF ReadStep, ReadBefore, ReadList, ReadEntry, ReadFile, ReadAfter,
                    ReadAgain, Read, store, calls
<1>8. CASE UNCHANGED vars
  BY <1>1, <1>8 DEF vars
<1> QED
  BY <1>2, <1>3, <1>4, <1>5, <1>6, <1>7, <1>8 DEF Next, WaitStep

(***************************************************************************)
(* waitFor is answered with what is in the store under its path at one     *)
(* moment of the call, None only if nothing is there at that moment: the   *)
(* safety part of Refinement, without its fairness.                        *)
(***************************************************************************)
THEOREM OneLook == Spec => Abstract!Init /\ [][Abstract!Next]_(Abstract!vars)
<1>1. Init => Abstract!Init
  BY DEF Init, Abstract!Init, Empty
<1>2. TypeOK /\ ReadInv /\ ReadInv' /\ [Next]_vars => [Abstract!Next]_(Abstract!vars)
  BY StepLooks
<1>3. Spec => []TypeOK
  <2>1. Monitor => TypeOK
    BY DEF Monitor
  <2> QED
    BY <2>1, MonitorSound, PTL
<1>4. Spec => []ReadInv
  BY InitReads, NextReads, PTL DEF Spec
<1> QED
  BY <1>1, <1>2, <1>3, <1>4, PTL DEF Spec

-----------------------------------------------------------------------------
(***************************************************************************)
(* The invariant of the assembler.  n and m are the carousels the active   *)
(* DDMT and DAMT are of (0 if there are none), c the one on the air.       *)
(***************************************************************************)
FieldNames ==
  {"nodes", "mpus", "items", "pending", "bytes", "published", "paths", "superseded",
   "deferred", "applications", "store", "undefined"}

Fields(s) == DOMAIN s = FieldNames

NodesAt(n) == IF n = 0 THEN NoFiles ELSE NodesOf(SectionsOf(Carousels[n], "ddmt"))
MpusAt(n)  == IF n = 0 THEN NoFiles ELSE Mpus(n)

KeyOf(unit) == << unit.mpu, unit.item >>

(* What waits was sent, and is counted exactly.                            *)
Waiting(s, c) ==
  /\ IsFiniteSet(DOMAIN s.pending)
  /\ \A k \in DOMAIN s.pending :
       \E m \in 1 .. c : s.pending[k] \in Carousels[m].units /\ k = KeyOf(s.pending[k])
  /\ s.bytes = PendingBytes(s.pending, DOMAIN s.pending)
  /\ s.bytes <= MaxPendingBytes
  /\ Cardinality(DOMAIN s.pending) <= MaxPendingUnits

(* What indexes that came up to carousel c say of item d under the DAMT of *)
(* carousel m: they list it, under a path and a version, or leave it out.  *)
IndexesBy(m, c) == UNION {Indexes[n][m][a] : n \in 1 .. c, a \in 1 .. c}

ListedAs(d, path, version, m, c) ==
  \E index \in IndexesBy(m, c) :
    [key |-> d, path |-> path, version |-> version] \in index.listed

ListedBy(d, m, c) == \E index \in IndexesBy(m, c) : Lists(index, d)

LeftOutBy(d, m, c) == \E index \in IndexesBy(m, c) : index.mpu = d[1] /\ ~Lists(index, d)

(* Item d was listed and then left out, no later than under DAMT m.        *)
Dropped(d, m, c) ==
  \E l \in 1 .. m : \E o \in l .. m : ListedBy(d, l, c) /\ LeftOutBy(d, o, c)

(* And it is listed again, or has become the index.                        *)
Returns(d, c) ==
  \E m \in 1 .. c :
    /\ Dropped(d, m, c)
    /\ ListedBy(d, m, c) \/ (d[1] \in DOMAIN Mpus(m) /\ d[2] = Mpus(m)[d[1]].index)

(* The items known are those of an index of the active DAMT or an earlier  *)
(* one; what waits for its removal was dropped no later.                   *)
ItemsListed(s, m, c) ==
  /\ IsFiniteSet(DOMAIN s.items) /\ Cardinality(DOMAIN s.items) <= MaxResources
  /\ \A k \in DOMAIN s.items : \E o \in 1 .. m :
       /\ ListedAs(k, s.items[k].path, s.items[k].version, o, c)
       /\ \A d \in At(s.deferred, k[1]) : Dropped(d, o, c)

RemovalsDue(s, m, c) ==
  /\ \A mpu \in DOMAIN s.deferred : \A d \in s.deferred[mpu] : d[1] = mpu /\ Dropped(d, m, c)
  /\ \A mpu \in DOMAIN s.superseded : mpu \notin s.superseded[mpu]

(* BytesNotOlder, of the file under one path.                              *)
SentAs(f, p, c) ==
  \E m \in 1 .. c :
    /\ f.key[1] \in DOMAIN Mpus(m)
    /\ f.signature.transaction = Mpus(m)[f.key[1]].transaction
    /\ f.signature.download = Mpus(m)[f.key[1]].download
    /\ \E b \in 1 .. c : \E u \in Carousels[b].units :
         KeyOf(u) = f.key /\ u.content = f.content /\ u.download = f.signature.download
    /\ \E o \in 1 .. m : ListedAs(f.key, p, f.signature.version, o, c)

Stored(s, c) ==
  /\ DOMAIN s.store = DOMAIN s.paths
  /\ \A p \in DOMAIN s.store : SentAs(s.store[p], p, c)

(* What retry erased while it was at it.                                   *)
Spoiled(s, c) == s.undefined # Absent => Returns(s.undefined, c)

Told(s) ==
  \A id \in DOMAIN s.applications :
    s.applications[id] = StateOf(s.applications[id].application, DOMAIN s.paths)

Catalogued(n, m) ==
  m # 0 => /\ n # 0
           /\ ValidCatalogue(SectionsOf(Carousels[n], "ddmt"), SectionsOf(Carousels[m], "damt"))

Sound(s, n, m, c) ==
  /\ Fields(s)
  /\ s.nodes = NodesAt(n) /\ s.mpus = MpusAt(m) /\ Catalogued(n, m)
  /\ Waiting(s, c)
  /\ ItemsListed(s, m, c)
  /\ RemovalsDue(s, m, c)
  /\ Stored(s, c)
  /\ Spoiled(s, c)

(* A table being collected: sections of one version, sent since carousel a *)
(* and up to carousel c.                                                   *)
Collected(set, kind, id, a, c) ==
  \/ set = NoSections
  \/ /\ set.version # Absent /\ set.last \in Nat
     /\ set.sections = [number \in 0 .. set.last |-> set.sections[number]]
     /\ \A number \in 0 .. set.last :
          \/ set.sections[number] = Absent
          \/ \E m \in a .. c :
               /\ set.sections[number] \in Sent(m, kind)
               /\ Id(set.sections[number]) = id
               /\ set.sections[number].version = set.version
               /\ set.sections[number].last = set.last
               /\ set.sections[number].number = number

CandidatesFrom(h) ==
  \A id \in DOMAIN candidates :
    /\ DOMAIN candidates[id] = Kinds
    /\ \A kind \in Kinds :
         Collected(candidates[id][kind], kind, id, IF h = 0 THEN 1 ELSE h, carousel)

TableOf(set, kind, id, n) ==
  /\ Complete(set) /\ set.sections = SectionsOf(Carousels[n], kind)
  /\ \A t \in Sent(n, kind) : Id(t) = id

ActiveAt(n, m) ==
  IF m = 0 THEN active = Absent /\ n = 0
  ELSE /\ n # 0
       /\ TableOf(active.ddmt, "ddmt", << active.source, active.session >>, n)
       /\ TableOf(active.damt, "damt", << active.source, active.session >>, m)
       /\ ValidCatalogue(active.ddmt.sections, active.damt.sections)

OnTheAir == carousel \in DOMAIN Carousels /\ interruptions \in 0 .. MaxInterruptions

Kept(s, n, m, c) == Sound(s, n, m, c) /\ Told(s)

(* Candidates are collected since the carousel h at the earliest.          *)
InvAt(n, m, h) ==
  /\ n \in 0 .. h /\ m \in 0 .. h
  /\ ActiveAt(n, m) /\ CandidatesFrom(h) /\ Kept(files, n, m, carousel)

AssemblerInv == OnTheAir /\ \E h \in 0 .. carousel : \E n, m \in 0 .. h : InvAt(n, m, h)
-----------------------------------------------------------------------------
(* Functions with some keys taken away, and with one put in.               *)
LEMMA WithoutFacts ==
  ASSUME NEW f, NEW keys
  PROVE  /\ DOMAIN Without(f, keys) = DOMAIN f \ keys
         /\ \A k \in DOMAIN f \ keys : Without(f, keys)[k] = f[k]
BY DEF Without, Restrict

LEMMA WithFacts ==
  ASSUME NEW f, NEW k, NEW value
  PROVE  /\ DOMAIN With(f, k, value) = DOMAIN f \cup {k}
         /\ With(f, k, value)[k] = value
         /\ \A other \in DOMAIN f \ {k} : With(f, k, value)[other] = f[other]
BY DEF With, Over

LEMMA OverFacts ==
  ASSUME NEW f, NEW g
  PROVE  /\ DOMAIN Over(f, g) = DOMAIN f \cup DOMAIN g
         /\ \A k \in DOMAIN f : Over(f, g)[k] = f[k]
         /\ \A k \in DOMAIN g \ DOMAIN f : Over(f, g)[k] = g[k]
BY DEF Over

LEMMA NoFilesFacts == DOMAIN NoFiles = {}
BY DEF NoFiles

-----------------------------------------------------------------------------
(* The bytes of pending units.                                             *)
Octets(pending, keys) ==
  UNION {{k} \X (1 .. pending[k].size) : k \in keys \cap DOMAIN pending}

Sized(pending) ==
  IsFiniteSet(DOMAIN pending) /\ \A k \in DOMAIN pending : pending[k].size \in Nat

LEMMA UpToSize ==
  \A n \in Nat : IsFiniteSet(1 .. n) /\ Cardinality(1 .. n) = n
<1> TAKE n \in Nat
<1>1. CASE n = 0
  BY <1>1, FS_EmptySet
<1>2. CASE n > 0
  BY <1>2, FS_Interval
<1> QED
  BY <1>1, <1>2

LEMMA OctetsFinite ==
  ASSUME NEW pending, Sized(pending), NEW keys
  PROVE  /\ IsFiniteSet(Octets(pending, keys))
         /\ PendingBytes(pending, keys) = Cardinality(Octets(pending, keys))
         /\ PendingBytes(pending, keys) \in Nat
<1> DEFINE D == keys \cap DOMAIN pending
           Rows == {{k} \X (1 .. pending[k].size) : k \in D}
           row == [k \in D |-> {k} \X (1 .. pending[k].size)]
<1>1. IsFiniteSet(D)
  BY FS_Subset DEF Sized
<1>2. IsFiniteSet(Rows)
  <2>1. Rows = {row[k] : k \in D}
    OBVIOUS
  <2>2. row \in Surjection(D, Rows)
    BY DEF Surjection
  <2> HIDE DEF row, Rows, D
  <2> QED
    BY <1>1, <2>2, FS_Surjection
<1>3. ASSUME NEW T \in Rows PROVE IsFiniteSet(T)
  <2>1. PICK k \in D : T = {k} \X (1 .. pending[k].size)
    OBVIOUS
  <2>2. IsFiniteSet({k}) /\ IsFiniteSet(1 .. pending[k].size)
    BY UpToSize, FS_Singleton DEF Sized
  <2> QED
    BY <2>1, <2>2, FS_Product
<1>4. IsFiniteSet(Octets(pending, keys))
  <2>1. Octets(pending, keys) = UNION Rows
    BY DEF Octets
  <2> HIDE DEF Rows
  <2> QED
    BY <1>2, <1>3, <2>1, FS_UNION
<1>5. PendingBytes(pending, keys) = Cardinality(Octets(pending, keys))
  BY DEF PendingBytes, Octets
<1> QED
  BY <1>4, <1>5, FS_CardinalityType

(* Taking keys away takes their bytes away.                                *)
LEMMA BytesWithout ==
  ASSUME NEW pending, Sized(pending), NEW keys
  PROVE  /\ Sized(Without(pending, keys))
         /\ PendingBytes(Without(pending, keys), DOMAIN Without(pending, keys))
              = PendingBytes(pending, DOMAIN pending) - PendingBytes(pending, keys)
<1> DEFINE rest == Without(pending, keys)
           A == Octets(pending, keys)
           B == Octets(rest, DOMAIN rest)
           C == Octets(pending, DOMAIN pending)
<1>1. DOMAIN rest = DOMAIN pending \ keys /\ \A k \in DOMAIN rest : rest[k] = pending[k]
  BY DEF Without, Restrict
<1>2. Sized(rest)
  BY <1>1, FS_Subset DEF Sized
<1>3. /\ IsFiniteSet(A) /\ PendingBytes(pending, keys) = Cardinality(A)
      /\ IsFiniteSet(B) /\ PendingBytes(rest, DOMAIN rest) = Cardinality(B)
      /\ PendingBytes(pending, DOMAIN pending) = Cardinality(C)
  BY <1>2, OctetsFinite
<1>4. C = A \cup B /\ A \cap B = {}
  <2> HIDE DEF rest
  <2>1. ASSUME NEW x \in C PROVE x \in A \cup B
    BY <1>1 DEF Octets
  <2>2. ASSUME NEW x \in A \cup B PROVE x \in C
    BY <1>1 DEF Octets
  <2>3. ASSUME NEW x \in A, x \in B PROVE FALSE
    BY <1>1, <2>3 DEF Octets
  <2> QED
    BY <2>1, <2>2, <2>3
<1>5. Cardinality(C) = Cardinality(A) + Cardinality(B)
  <2>1. Cardinality(A \cap B) = 0
    BY <1>4, FS_EmptySet
  <2>2. /\ IsFiniteSet(A \cup B)
        /\ Cardinality(A \cup B) = Cardinality(A) + Cardinality(B) - Cardinality(A \cap B)
    <3> HIDE DEF A, B, C
    <3> QED
      BY <1>3, FS_Union
  <2>3. Cardinality(A) \in Nat /\ Cardinality(B) \in Nat
    BY <1>3, FS_CardinalityType
  <2> HIDE DEF A, B, C
  <2> QED
    BY <1>4, <2>1, <2>2, <2>3
<1>6. Cardinality(A) \in Nat /\ Cardinality(B) \in Nat
  BY <1>3, FS_CardinalityType
<1> HIDE DEF A, B, C, rest
<1> QED
  BY <1>2, <1>3, <1>5, <1>6 DEF rest

(* One unit has its size, and one that is not there has none.              *)
LEMMA BytesOfOne ==
  ASSUME NEW pending, Sized(pending), NEW k
  PROVE  PendingBytes(pending, {k}) = IF k \in DOMAIN pending THEN pending[k].size ELSE 0
<1>1. PendingBytes(pending, {k}) = Cardinality(Octets(pending, {k}))
  BY OctetsFinite
<1>2. CASE k \in DOMAIN pending
  <2>1. Octets(pending, {k}) = {k} \X (1 .. pending[k].size)
    BY <1>2 DEF Octets
  <2>2. /\ IsFiniteSet({k}) /\ Cardinality({k}) = 1
        /\ IsFiniteSet(1 .. pending[k].size)
        /\ Cardinality(1 .. pending[k].size) = pending[k].size
        /\ pending[k].size \in Nat
    BY <1>2, UpToSize, FS_Singleton DEF Sized
  <2>3. Cardinality({k} \X (1 .. pending[k].size)) = 1 * pending[k].size
    BY <2>2, FS_Product
  <2> QED
    <3> DEFINE z == pending[k].size
    <3>1. z \in Nat /\ Cardinality({k} \X (1 .. z)) = 1 * z
      BY <2>2, <2>3
    <3>2. PendingBytes(pending, {k}) = Cardinality({k} \X (1 .. z))
      BY <1>1, <2>1
    <3> HIDE DEF z
    <3>3. PendingBytes(pending, {k}) = z
      BY <3>1, <3>2
    <3> QED
      BY <1>2, <3>3 DEF z
<1>3. CASE k \notin DOMAIN pending
  <2>1. Octets(pending, {k}) = {}
    BY <1>3 DEF Octets
  <2> QED
    BY <1>1, <1>3, <2>1, FS_EmptySet
<1> QED
  BY <1>2, <1>3

(* A unit put in counts instead of the one it replaces.                    *)
LEMMA BytesWith ==
  ASSUME NEW pending, Sized(pending), NEW k, NEW unit, unit.size \in Nat
  PROVE  /\ Sized(With(pending, k, unit))
         /\ PendingBytes(With(pending, k, unit), DOMAIN With(pending, k, unit))
              = PendingBytes(pending, DOMAIN pending) - PendingBytes(pending, {k}) + unit.size
<1> DEFINE more == With(pending, k, unit)
           rest == Without(pending, {k})
<1>1. /\ DOMAIN more = DOMAIN pending \cup {k} /\ more[k] = unit
      /\ \A other \in DOMAIN pending \ {k} : more[other] = pending[other]
  BY DEF With, Over
<1>2. IsFiniteSet(DOMAIN more)
  BY <1>1, FS_AddElement DEF Sized
<1>3. \A other \in DOMAIN more : more[other].size \in Nat
  <2> HIDE DEF more
  <2> QED
    BY <1>1 DEF Sized
<1>4. Sized(more)
  BY <1>2, <1>3 DEF Sized
<1>5. Without(more, {k}) = rest
  <2> HIDE DEF more
  <2> QED
    BY <1>1 DEF Without, Restrict
<1> DEFINE total == PendingBytes(more, DOMAIN more)
           left == PendingBytes(rest, DOMAIN rest)
<1>6. left = total - PendingBytes(more, {k})
  BY <1>4, <1>5, BytesWithout
<1>7. left = PendingBytes(pending, DOMAIN pending) - PendingBytes(pending, {k})
  BY BytesWithout
<1>8. PendingBytes(more, {k}) = unit.size
  <2> HIDE DEF more
  <2> QED
    BY <1>1, <1>4, BytesOfOne
<1>9. total \in Nat
  BY <1>4, OctetsFinite
<1> HIDE DEF total, left, more
<1> QED
  BY <1>4, <1>6, <1>7, <1>8, <1>9 DEF total, more
-----------------------------------------------------------------------------
(* Whatever is only waiting has a size.                                    *)
LEMMA WaitingSized ==
  ASSUME NEW c \in DOMAIN Carousels, NEW s, Waiting(s, c)
  PROVE  Sized(s.pending)
<1>1. ASSUME NEW k \in DOMAIN s.pending PROVE s.pending[k].size \in Nat
  <2>1. PICK m \in 1 .. c : s.pending[k] \in Carousels[m].units
    BY DEF Waiting
  <2>2. m \in DOMAIN Carousels
    BY CarouselsAssumption
  <2> QED
    BY <2>1, <2>2, UnitsAssumption
<1> QED
  BY <1>1 DEF Waiting, Sized

(* Taking pending units away, and what they count.                         *)
LEMMA LessWaits ==
  ASSUME NEW c \in DOMAIN Carousels, NEW s, Waiting(s, c), NEW keys, NEW t,
         t.pending = Without(s.pending, keys),
         t.bytes = s.bytes - PendingBytes(s.pending, keys)
  PROVE  Waiting(t, c)
<1>1. Sized(s.pending)
  BY WaitingSized
<1>2. /\ Sized(t.pending)
      /\ PendingBytes(t.pending, DOMAIN t.pending)
           = PendingBytes(s.pending, DOMAIN s.pending) - PendingBytes(s.pending, keys)
  BY <1>1, BytesWithout
<1>3. DOMAIN t.pending = DOMAIN s.pending \ keys
  BY WithoutFacts
<1>4. \A k \in DOMAIN t.pending : t.pending[k] = s.pending[k]
  BY DEF Without, Restrict
<1>5. /\ IsFiniteSet(DOMAIN t.pending)
      /\ Cardinality(DOMAIN t.pending) <= Cardinality(DOMAIN s.pending)
      /\ Cardinality(DOMAIN t.pending) \in Nat /\ Cardinality(DOMAIN s.pending) \in Nat
  BY <1>1, <1>3, FS_Subset, FS_CardinalityType DEF Sized
<1>6. /\ PendingBytes(s.pending, keys) \in Nat
      /\ PendingBytes(s.pending, DOMAIN s.pending) \in Nat
  BY <1>1, OctetsFinite
<1>7. s.bytes = PendingBytes(s.pending, DOMAIN s.pending) /\ s.bytes <= MaxPendingBytes
  BY DEF Waiting
<1>8. t.bytes = PendingBytes(t.pending, DOMAIN t.pending)
  BY <1>2, <1>7
<1>9. t.bytes <= MaxPendingBytes
  <2> DEFINE u == PendingBytes(s.pending, keys)
             v == PendingBytes(s.pending, DOMAIN s.pending)
  <2>1. u \in Nat /\ v \in Nat /\ v <= MaxPendingBytes /\ t.bytes = v - u
    BY <1>6, <1>7
  <2> HIDE DEF u, v
  <2> QED
    BY <2>1, CarouselsAssumption
<1>10. Cardinality(DOMAIN t.pending) <= MaxPendingUnits
  BY <1>5, CarouselsAssumption DEF Waiting
<1>11. \A k \in DOMAIN t.pending :
         \E m \in 1 .. c : t.pending[k] \in Carousels[m].units /\ k = KeyOf(t.pending[k])
  BY <1>3, <1>4 DEF Waiting
<1> QED
  BY <1>5, <1>8, <1>9, <1>10, <1>11 DEF Waiting

(* Taking files away leaves the others as they were sent.                  *)
LEMMA LessStored ==
  ASSUME NEW c, NEW s, Stored(s, c), NEW gone, NEW t,
         t.paths = Without(s.paths, gone), t.store = Without(s.store, gone)
  PROVE  Stored(t, c)
<1>1. DOMAIN t.paths = DOMAIN s.paths \ gone /\ DOMAIN t.store = DOMAIN s.store \ gone
  BY WithoutFacts
<1>2. \A p \in DOMAIN s.store \ gone : t.store[p] = s.store[p]
  BY DEF Without, Restrict
<1> QED
  BY <1>1, <1>2 DEF Stored

LEMMA LessListed ==
  ASSUME NEW m, NEW c, NEW s, ItemsListed(s, m, c), NEW keys, NEW t,
         t.items = Without(s.items, keys), t.deferred = s.deferred
  PROVE  ItemsListed(t, m, c)
<1>1. DOMAIN t.items = DOMAIN s.items \ keys
  BY WithoutFacts
<1>2. \A k \in DOMAIN t.items : t.items[k] = s.items[k]
  BY DEF Without, Restrict
<1>3. /\ IsFiniteSet(DOMAIN t.items)
      /\ Cardinality(DOMAIN t.items) <= Cardinality(DOMAIN s.items)
      /\ Cardinality(DOMAIN t.items) \in Nat /\ Cardinality(DOMAIN s.items) \in Nat
  BY <1>1, FS_Subset, FS_CardinalityType DEF ItemsListed
<1>4. Cardinality(DOMAIN t.items) <= MaxResources
  BY <1>3, CarouselsAssumption DEF ItemsListed
<1> QED
  BY <1>1, <1>2, <1>3, <1>4 DEF ItemsListed

(* erase_item_target and erase_mpu_targets keep what holds of the state.   *)
LEMMA EraseKeeps ==
  ASSUME NEW c \in DOMAIN Carousels, NEW n, NEW m, NEW s, Sound(s, n, m, c), NEW keys
  PROVE  Sound(EraseItems(s, keys), n, m, c)
<1> DEFINE e == EraseItems(s, keys)
           gone == UNION {ShownPath(s, k) : k \in keys}
<1>1. /\ Fields(e)
      /\ e.nodes = s.nodes /\ e.mpus = s.mpus /\ e.undefined = s.undefined
      /\ e.items = Without(s.items, keys)
      /\ e.pending = Without(s.pending, keys)
      /\ e.bytes = s.bytes - PendingBytes(s.pending, keys)
      /\ e.superseded = s.superseded /\ e.deferred = s.deferred
      /\ e.paths = Without(s.paths, gone) /\ e.store = Without(s.store, gone)
  BY DEF Sound, Fields, FieldNames, Hide, EraseItems
<1> HIDE DEF e, gone
<1>2. Waiting(e, c)
  BY <1>1, LessWaits DEF Sound
<1>3. ItemsListed(e, m, c)
  BY <1>1, LessListed DEF Sound
<1>4. RemovalsDue(e, m, c)
  BY <1>1 DEF Sound, RemovalsDue
<1>5. Stored(e, c)
  BY <1>1, LessStored DEF Sound
<1>6. Spoiled(e, c)
  BY <1>1 DEF Sound, Spoiled
<1> QED
  BY <1>1, <1>2, <1>3, <1>4, <1>5, <1>6 DEF Sound, e
-----------------------------------------------------------------------------
(* What the indexes say, and that it stays said.                           *)
LEMMA IndexAt ==
  ASSUME NEW n \in DOMAIN Carousels, NEW m \in DOMAIN Carousels, NEW a \in DOMAIN Carousels,
         ValidCatalogue(SectionsOf(Carousels[n], "ddmt"), SectionsOf(Carousels[m], "damt")),
         NEW u \in IndexUnits(m, a)
  PROVE  [mpu |-> u.mpu, listed |-> FilesListed(n, m, u)] \in Indexes[n][m][a]
<1> DEFINE All(x, y, z) ==
      IF ValidCatalogue(SectionsOf(Carousels[x], "ddmt"), SectionsOf(Carousels[y], "damt"))
      THEN {[mpu |-> v.mpu, listed |-> FilesListed(x, y, v)] : v \in IndexUnits(y, z)}
      ELSE {}
<1>1. Indexes = [x \in DOMAIN Carousels |-> [y \in DOMAIN Carousels |->
                    [z \in DOMAIN Carousels |-> All(x, y, z)]]]
  BY DEF Indexes
<1>2. [mpu |-> u.mpu, listed |-> FilesListed(n, m, u)] \in All(n, m, a)
  OBVIOUS
<1> HIDE DEF All
<1> QED
  BY <1>1, <1>2

LEMMA IndexedBy ==
  ASSUME NEW m, NEW c
  PROVE  \A index : index \in IndexesBy(m, c) <=>
           \E n, a \in 1 .. c : index \in Indexes[n][m][a]
BY DEF IndexesBy

LEMMA IndexesLater ==
  ASSUME NEW m, NEW c \in Nat, NEW e \in Nat, c <= e
  PROVE  IndexesBy(m, c) \subseteq IndexesBy(m, e)
<1>1. 1 .. c \subseteq 1 .. e
  OBVIOUS
<1> QED
  BY <1>1, IndexedBy

LEMMA ListedIsKey ==
  ASSUME NEW d, NEW path, NEW version, NEW m, NEW c, ListedAs(d, path, version, m, c)
  PROVE  ListedBy(d, m, c)
<1>1. PICK index \in IndexesBy(m, c) :
        [key |-> d, path |-> path, version |-> version] \in index.listed
  BY DEF ListedAs
<1>2. [key |-> d, path |-> path, version |-> version].key = d
  OBVIOUS
<1> QED
  BY <1>1, <1>2 DEF ListedBy, Lists

LEMMA DroppedLater ==
  ASSUME NEW m \in Nat, NEW o \in Nat, m <= o, NEW c \in Nat, NEW e \in Nat, c <= e,
         NEW d, Dropped(d, m, c)
  PROVE  Dropped(d, o, e)
<1>1. PICK l \in 1 .. m : \E x \in l .. m : ListedBy(d, l, c) /\ LeftOutBy(d, x, c)
  BY DEF Dropped
<1>2. PICK x \in l .. m : ListedBy(d, l, c) /\ LeftOutBy(d, x, c)
  BY <1>1
<1>3. l \in 1 .. o /\ x \in l .. o
  OBVIOUS
<1>4. ListedBy(d, l, e) /\ LeftOutBy(d, x, e)
  BY <1>2, IndexesLater DEF ListedBy, LeftOutBy
<1> QED
  BY <1>3, <1>4 DEF Dropped

LEMMA ListedLater ==
  ASSUME NEW m, NEW c \in Nat, NEW e \in Nat, c <= e,
         NEW d, NEW path, NEW version, ListedAs(d, path, version, m, c)
  PROVE  ListedAs(d, path, version, m, e)
BY IndexesLater DEF ListedAs

LEMMA ReturnsLater ==
  ASSUME NEW c \in Nat, NEW e \in Nat, c <= e, NEW d, Returns(d, c)
  PROVE  Returns(d, e)
<1>1. PICK m \in 1 .. c :
        /\ Dropped(d, m, c)
        /\ ListedBy(d, m, c) \/ (d[1] \in DOMAIN Mpus(m) /\ d[2] = Mpus(m)[d[1]].index)
  BY DEF Returns
<1>2. m \in 1 .. e /\ m \in Nat /\ m <= m
  OBVIOUS
<1>3. Dropped(d, m, e)
  BY <1>1, <1>2, DroppedLater
<1>4. ListedBy(d, m, c) => ListedBy(d, m, e)
  BY IndexesLater DEF ListedBy
<1> QED
  BY <1>1, <1>2, <1>3, <1>4 DEF Returns
-----------------------------------------------------------------------------
(* A unit that is being used up is taken away with what its MPU's update   *)
(* replaces only if its item was dropped and has returned.                 *)
Replaces(s, mpu) == ItemsOf(s, At(s.superseded, mpu)) \cup At(s.deferred, mpu)

LEMMA CatalogueNumbers ==
  ASSUME NEW c \in DOMAIN Carousels, NEW n \in 0 .. c, NEW m \in 0 .. c,
         NEW s, Sound(s, n, m, c), NEW mpu \in DOMAIN s.mpus
  PROVE  /\ n \in 1 .. c /\ m \in 1 .. c
         /\ n \in DOMAIN Carousels /\ m \in DOMAIN Carousels
         /\ s.nodes = NodesOf(SectionsOf(Carousels[n], "ddmt")) /\ s.mpus = Mpus(m)
         /\ ValidCatalogue(SectionsOf(Carousels[n], "ddmt"), SectionsOf(Carousels[m], "damt"))
<1>1. m # 0
  BY DEF Sound, MpusAt, NoFiles
<1>2. /\ n # 0
      /\ ValidCatalogue(SectionsOf(Carousels[n], "ddmt"), SectionsOf(Carousels[m], "damt"))
  BY <1>1 DEF Sound, Catalogued
<1>3. s.nodes = NodesOf(SectionsOf(Carousels[n], "ddmt")) /\ s.mpus = Mpus(m)
  BY <1>1, <1>2 DEF Sound, NodesAt, MpusAt
<1>4. n \in 1 .. c /\ m \in 1 .. c /\ n \in DOMAIN Carousels /\ m \in DOMAIN Carousels
  BY <1>1, <1>2, CarouselsAssumption
<1> QED
  BY <1>2, <1>3, <1>4

LEMMA NotRemoved ==
  ASSUME NEW c \in DOMAIN Carousels, NEW n \in 0 .. c, NEW m \in 0 .. c,
         NEW s, Sound(s, n, m, c),
         NEW mpu \in DOMAIN s.mpus, NEW k, k[1] = mpu,
         k \in DOMAIN s.items \/ k[2] = s.mpus[mpu].index,
         k \in Replaces(s, mpu)
  PROVE  Returns(k, c)
<1>1. m \in 1 .. c /\ s.mpus = Mpus(m) /\ c \in Nat
  BY CatalogueNumbers, CarouselsAssumption
<1>2. k \notin ItemsOf(s, At(s.superseded, mpu))
  BY DEF ItemsOf, At, Sound, RemovalsDue
<1>3. k \in At(s.deferred, mpu)
  BY <1>2 DEF Replaces
<1>4. Dropped(k, m, c)
  BY <1>3 DEF At, Sound, RemovalsDue
<1>5. CASE k \in DOMAIN s.items
  <2>1. PICK o \in 1 .. m :
          /\ ListedAs(k, s.items[k].path, s.items[k].version, o, c)
          /\ \A d \in At(s.deferred, k[1]) : Dropped(d, o, c)
    BY <1>5 DEF Sound, ItemsListed
  <2>2. ListedBy(k, o, c) /\ Dropped(k, o, c)
    BY <1>3, <2>1, ListedIsKey
  <2>3. o \in 1 .. c
    BY <1>1
  <2> QED
    BY <2>2, <2>3 DEF Returns
<1>6. CASE k[2] = s.mpus[mpu].index
  BY <1>1, <1>4, <1>6 DEF Returns
<1> QED
  BY <1>5, <1>6

(* finish_mpu_update_if_ready keeps what holds of the state, and leaves    *)
(* every unit waiting that is not replaced.                                *)
LessPending(s, t) ==
  /\ DOMAIN t.pending \subseteq DOMAIN s.pending
  /\ \A k \in DOMAIN t.pending : t.pending[k] = s.pending[k]

LEMMA FinishKeeps ==
  ASSUME NEW c \in DOMAIN Carousels, NEW n, NEW m, NEW s, Sound(s, n, m, c), NEW mpu
  PROVE  /\ Sound(FinishUpdate(s, mpu), n, m, c)
         /\ FinishUpdate(s, mpu).applications = s.applications
         /\ DOMAIN s.pending \ Replaces(s, mpu) \subseteq DOMAIN FinishUpdate(s, mpu).pending
         /\ LessPending(s, FinishUpdate(s, mpu))
<1> DEFINE keys == Replaces(s, mpu)
           e == EraseItems(s, keys)
           t == [e EXCEPT !.superseded = Without(@, {mpu}), !.deferred = Without(@, {mpu})]
<1>1. Sound(e, n, m, c)
  BY EraseKeeps
<1>2. Fields(e) /\ e.superseded = s.superseded /\ e.deferred = s.deferred
      /\ e.pending = Without(s.pending, keys) /\ e.applications = s.applications
  BY DEF Sound, Fields, FieldNames, Hide, EraseItems
<1> HIDE DEF e
<1>3. /\ Fields(t)
      /\ t.nodes = e.nodes /\ t.mpus = e.mpus /\ t.items = e.items /\ t.pending = e.pending
      /\ t.bytes = e.bytes /\ t.paths = e.paths /\ t.store = e.store
      /\ t.applications = e.applications /\ t.undefined = e.undefined
      /\ t.superseded = Without(e.superseded, {mpu}) /\ t.deferred = Without(e.deferred, {mpu})
  BY <1>2 DEF Fields, FieldNames
<1> HIDE DEF t
<1>4. /\ DOMAIN t.superseded \subseteq DOMAIN e.superseded
      /\ \A x \in DOMAIN t.superseded : t.superseded[x] = e.superseded[x]
      /\ DOMAIN t.deferred \subseteq DOMAIN e.deferred
      /\ \A x \in DOMAIN t.deferred : t.deferred[x] = e.deferred[x]
  BY <1>3 DEF Without, Restrict
<1>5. RemovalsDue(t, m, c)
  BY <1>1, <1>4 DEF Sound, RemovalsDue
<1>6. \A x : At(t.deferred, x) \subseteq At(e.deferred, x)
  BY <1>4 DEF At
<1>7. ItemsListed(t, m, c)
  BY <1>1, <1>3, <1>6 DEF Sound, ItemsListed
<1>8. Waiting(t, c) /\ Stored(t, c) /\ Spoiled(t, c)
  BY <1>1, <1>3 DEF Sound, Waiting, Stored, Spoiled
<1>9. Sound(t, n, m, c)
  BY <1>1, <1>3, <1>5, <1>7, <1>8 DEF Sound
<1>10. DOMAIN s.pending \ keys \subseteq DOMAIN t.pending /\ LessPending(s, t)
  BY <1>2, <1>3 DEF Without, Restrict, LessPending
<1>11. FinishUpdate(s, mpu) = t \/ FinishUpdate(s, mpu) = s
  BY DEF FinishUpdate, t, e, Replaces
<1>12. t.applications = s.applications
  BY <1>2, <1>3
<1> QED
  BY <1>9, <1>10, <1>11, <1>12 DEF LessPending

(* UpdateApplications tells the sink of every application what is shown.   *)
LEMMA UpdateKeeps ==
  ASSUME NEW c, NEW n, NEW m, NEW s, Sound(s, n, m, c)
  PROVE  /\ Sound(UpdateApplications(s), n, m, c)
         /\ Told(UpdateApplications(s))
         /\ UpdateApplications(s).pending = s.pending
<1> DEFINE u == UpdateApplications(s)
<1>1. /\ Fields(u)
      /\ u.nodes = s.nodes /\ u.mpus = s.mpus /\ u.items = s.items /\ u.pending = s.pending
      /\ u.bytes = s.bytes /\ u.paths = s.paths /\ u.store = s.store
      /\ u.superseded = s.superseded /\ u.deferred = s.deferred /\ u.undefined = s.undefined
      /\ u.applications = [id \in DOMAIN s.applications |->
                             StateOf(s.applications[id].application, DOMAIN s.paths)]
  BY DEF Sound, Fields, FieldNames, UpdateApplications
<1> HIDE DEF u
<1>2. Sound(u, n, m, c)
  BY <1>1 DEF Sound, Waiting, ItemsListed, RemovalsDue, Stored, Spoiled
<1>3. ASSUME NEW id \in DOMAIN u.applications
      PROVE  u.applications[id] = StateOf(u.applications[id].application, DOMAIN u.paths)
  <2>1. id \in DOMAIN s.applications
    BY <1>1
  <2> DEFINE app == s.applications[id].application
             there == DOMAIN s.paths
  <2>2. u.applications[id] = StateOf(app, there)
    BY <1>1, <2>1, Zenon
  <2>3. StateOf(app, there).application = app
    BY DEF StateOf
  <2> HIDE DEF app, there
  <2>4. u.applications[id].application = app
    BY <2>2, <2>3, Zenon
  <2>5. DOMAIN u.paths = there
    BY <1>1 DEF there
  <2> QED
    BY <2>2, <2>4, <2>5, Zenon
<1>4. Told(u)
  BY <1>3, Zenon DEF Told
<1> QED
  BY <1>1, <1>2, <1>4 DEF u

-----------------------------------------------------------------------------
(* A unit that is used up stays where it waits, but for one that returns.  *)
Uses(s, t, k, c) ==
  /\ LessPending(s, t)
  /\ k \in DOMAIN s.pending \ DOMAIN t.pending => Returns(k, c)

LEMMA PublishKeeps ==
  ASSUME NEW c \in DOMAIN Carousels, NEW n \in 0 .. c, NEW m \in 0 .. c,
         NEW s, Sound(s, n, m, c),
         NEW a \in 1 .. c, NEW unit \in Carousels[a].units, NEW k, k = KeyOf(unit),
         k \in DOMAIN s.items, k[1] \in DOMAIN s.mpus, unit.download = s.mpus[k[1]].download
  PROVE  /\ Sound(Publish(s, k, unit), n, m, c)
         /\ Told(s) => Told(Publish(s, k, unit))
         /\ Uses(s, Publish(s, k, unit), k, c)
<1> DEFINE map    == s.mpus[k[1]]
           target == s.items[k]
           signature == [transaction |-> map.transaction, download |-> map.download,
                         version |-> target.version, path |-> target.path]
           moved  == ShownPath(s, k) \ {target.path}
           h      == Hide(s, moved)
           file   == [key |-> k, signature |-> signature, content |-> unit.content]
           placed == [h EXCEPT
                        !.published = With(@, k, signature),
                        !.paths = With(@, target.path, k),
                        !.store = With(@, target.path, file)]
           finished == FinishUpdate(placed, k[1])
<1>1. /\ Fields(h)
      /\ h.nodes = s.nodes /\ h.mpus = s.mpus /\ h.items = s.items /\ h.pending = s.pending
      /\ h.bytes = s.bytes /\ h.superseded = s.superseded /\ h.deferred = s.deferred
      /\ h.undefined = s.undefined
      /\ h.paths = Without(s.paths, moved) /\ h.store = Without(s.store, moved)
  BY DEF Sound, Fields, FieldNames, Hide
<1> HIDE DEF h, moved, file
<1>2. /\ Fields(placed)
      /\ placed.nodes = s.nodes /\ placed.mpus = s.mpus /\ placed.items = s.items
      /\ placed.pending = s.pending /\ placed.bytes = s.bytes
      /\ placed.superseded = s.superseded /\ placed.deferred = s.deferred
      /\ placed.undefined = s.undefined
      /\ placed.paths = With(h.paths, target.path, k)
      /\ placed.store = With(h.store, target.path, file)
  BY <1>1 DEF Fields, FieldNames
<1> HIDE DEF placed
<1>3. Stored(h, c)
  BY <1>1, LessStored DEF Sound
<1>4. SentAs(file, target.path, c)
  <2>1. m \in 1 .. c /\ map = Mpus(m)[k[1]] /\ k[1] \in DOMAIN Mpus(m)
    BY CatalogueNumbers
  <2>2. PICK o \in 1 .. m : ListedAs(k, target.path, target.version, o, c)
    BY DEF Sound, ItemsListed
  <2>3. /\ file.key = k /\ file.content = unit.content
        /\ file.signature.transaction = map.transaction
        /\ file.signature.download = map.download
        /\ file.signature.version = target.version
    BY DEF file
  <2>4. unit.download = map.download
    OBVIOUS
  <2> HIDE DEF map, target
  <2>5. \E b \in 1 .. c : \E u \in Carousels[b].units :
          KeyOf(u) = file.key /\ u.content = file.content /\ u.download = file.signature.download
    BY <2>3, <2>4
  <2> QED
    BY <2>1, <2>2, <2>3, <2>5 DEF SentAs
<1>5. Stored(placed, c)
  <2>1. /\ DOMAIN placed.store = DOMAIN h.store \cup {target.path}
        /\ placed.store[target.path] = file
        /\ \A p \in DOMAIN h.store \ {target.path} : placed.store[p] = h.store[p]
    BY <1>2 DEF With, Over
  <2>2. DOMAIN placed.paths = DOMAIN h.paths \cup {target.path}
    BY <1>2 DEF With, Over
  <2> QED
    BY <1>3, <1>4, <2>1, <2>2 DEF Stored
<1>6. Sound(placed, n, m, c)
  BY <1>2, <1>5 DEF Sound, Waiting, ItemsListed, RemovalsDue, Spoiled
<1>7. /\ Sound(finished, n, m, c) /\ LessPending(placed, finished)
      /\ DOMAIN placed.pending \ Replaces(placed, k[1]) \subseteq DOMAIN finished.pending
  BY <1>6, FinishKeeps
<1>8. k \in Replaces(placed, k[1]) => Returns(k, c)
  BY <1>2, <1>6, NotRemoved
<1>9. LessPending(s, finished) /\ (k \in DOMAIN s.pending \ DOMAIN finished.pending => Returns(k, c))
  BY <1>2, <1>7, <1>8 DEF LessPending
<1> HIDE DEF finished
<1>10. /\ Sound(UpdateApplications(finished), n, m, c) /\ Told(UpdateApplications(finished))
       /\ UpdateApplications(finished).pending = finished.pending
  BY <1>7, UpdateKeeps
<1>11. Publish(s, k, unit) = UpdateApplications(finished) \/ Publish(s, k, unit) = s
  BY Zenon DEF Publish, finished, placed, h, moved, file
<1> QED
  BY <1>9, <1>10, <1>11 DEF Uses, LessPending
-----------------------------------------------------------------------------
(* The files an index lists are its carousel's for the MPU, and all of     *)
(* them.                                                                   *)
TargetPath(s, mpu, records, i) ==
  JoinPath(s.nodes[NodeTags(s.mpus[mpu], Len(records))[i]], records[i].name)

LEMMA TargetsAre ==
  ASSUME NEW s, NEW mpu, NEW records
  PROVE  LET targets == Targets(s, mpu, records).files
         IN  /\ \A k \in DOMAIN targets : \E i \in DOMAIN records :
                  /\ k = << mpu, records[i].item >>
                  /\ TargetPath(s, mpu, records, i) # Escapes
                  /\ targets[k].path = TargetPath(s, mpu, records, i)
                  /\ targets[k].version = records[i].version
             /\ \A i \in DOMAIN records :
                  TargetPath(s, mpu, records, i) # Escapes
                    => << mpu, records[i].item >> \in DOMAIN targets
<1> DEFINE path == [i \in DOMAIN records |-> TargetPath(s, mpu, records, i)]
           inside == {i \in DOMAIN records : path[i] # Escapes}
           chosen(k) == CHOOSE j \in inside : records[j].item = k[2]
           target(i) ==
             [path |-> path[i], size |-> records[i].size, version |-> records[i].version,
              compression |-> records[i].compression, original |-> records[i].original]
           targets == [k \in {<< mpu, records[i].item >> : i \in inside} |-> target(chosen(k))]
<1>1. Targets(s, mpu, records).files = targets
  BY DEF Targets, TargetPath
<1>2. \A i \in inside : i \in DOMAIN records /\ path[i] = TargetPath(s, mpu, records, i)
        /\ path[i] # Escapes
  OBVIOUS
<1>3. \A i \in DOMAIN records : TargetPath(s, mpu, records, i) # Escapes => i \in inside
  OBVIOUS
<1>4. \A i \in inside :
        target(i).path = path[i] /\ target(i).version = records[i].version
  OBVIOUS
<1>5. DOMAIN targets = {<< mpu, records[i].item >> : i \in inside}
      /\ \A k \in DOMAIN targets : targets[k] = target(chosen(k))
  OBVIOUS
<1> HIDE DEF path, inside, target, targets
<1>6. ASSUME NEW k \in DOMAIN targets
      PROVE  \E i \in DOMAIN records :
                /\ k = << mpu, records[i].item >>
                /\ TargetPath(s, mpu, records, i) # Escapes
                /\ targets[k].path = TargetPath(s, mpu, records, i)
                /\ targets[k].version = records[i].version
  <2>1. PICK j \in inside : k = << mpu, records[j].item >>
    BY <1>5
  <2>2. records[j].item = k[2]
    BY <2>1
  <2>3. chosen(k) \in inside /\ records[chosen(k)].item = k[2]
    BY <2>2
  <2>4. k = << mpu, records[chosen(k)].item >>
    BY <2>1, <2>3
  <2>5. targets[k].path = TargetPath(s, mpu, records, chosen(k))
        /\ targets[k].version = records[chosen(k)].version
        /\ chosen(k) \in DOMAIN records
        /\ TargetPath(s, mpu, records, chosen(k)) # Escapes
    <3> DEFINE i == chosen(k)
    <3>1. i \in inside /\ targets[k] = target(i)
      BY <1>5, <2>3
    <3> HIDE DEF i
    <3>2. /\ targets[k].path = TargetPath(s, mpu, records, i)
          /\ targets[k].version = records[i].version
          /\ i \in DOMAIN records
          /\ TargetPath(s, mpu, records, i) # Escapes
      BY <1>2, <1>4, <3>1
    <3> QED
      BY <3>2 DEF i
  <2> HIDE DEF chosen
  <2> QED
    BY <2>4, <2>5
<1>7. \A i \in DOMAIN records :
        TargetPath(s, mpu, records, i) # Escapes => << mpu, records[i].item >> \in DOMAIN targets
  BY <1>3, <1>5
<1> QED
  BY <1>1, <1>6, <1>7

(* No more files than records.                                             *)
LEMMA TargetsFew ==
  ASSUME NEW keys, NEW f, NEW number \in Nat,
         \A k \in keys : \E i \in 1 .. number : k = f[i]
  PROVE  IsFiniteSet(keys) /\ Cardinality(keys) <= number
<1> DEFINE used == {i \in 1 .. number : f[i] \in keys}
           g == [i \in used |-> f[i]]
<1>1. IsFiniteSet(1 .. number) /\ Cardinality(1 .. number) = number
  BY UpToSize
<1>2. used \subseteq 1 .. number
  OBVIOUS
<1>3. IsFiniteSet(used) /\ Cardinality(used) <= Cardinality(1 .. number)
  <2> HIDE DEF used
  <2> QED
    BY <1>1, <1>2, FS_Subset
<1>4. g \in Surjection(used, keys)
  BY DEF Surjection
<1> HIDE DEF g, used
<1>5. IsFiniteSet(keys) /\ Cardinality(keys) <= Cardinality(used)
  BY <1>3, <1>4, FS_Surjection
<1>6. Cardinality(keys) \in Nat /\ Cardinality(used) \in Nat
  BY <1>3, <1>5, FS_CardinalityType
<1> QED
  BY <1>1, <1>3, <1>5, <1>6

(* They are what the indexes say of the unit under the active catalogue.   *)
LEMMA TargetsListed ==
  ASSUME NEW c \in DOMAIN Carousels, NEW n \in 0 .. c, NEW m \in 0 .. c,
         NEW s, Sound(s, n, m, c), NEW a \in 1 .. c, NEW unit \in Carousels[a].units,
         unit.mpu \in DOMAIN s.mpus, unit.item = s.mpus[unit.mpu].index,
         unit.download = s.mpus[unit.mpu].download, unit.records # Absent,
         Len(unit.records) = Len(NodeTags(s.mpus[unit.mpu], Len(unit.records)))
  PROVE  LET targets == Targets(s, unit.mpu, unit.records).files
         IN  /\ \A k \in DOMAIN targets :
                  k[1] = unit.mpu /\ ListedAs(k, targets[k].path, targets[k].version, m, c)
             /\ \A k : k[1] = unit.mpu /\ k \notin DOMAIN targets => LeftOutBy(k, m, c)
<1> DEFINE mpu == unit.mpu
           records == unit.records
           targets == Targets(s, mpu, records).files
           files_ == FilesListed(n, m, unit)
           index == [mpu |-> mpu, listed |-> files_]
           path(i) == TargetPath(s, mpu, records, i)
           record(i) == [key |-> << mpu, records[i].item >>, path |-> path(i),
                         version |-> records[i].version]
<1>1. /\ n \in DOMAIN Carousels /\ m \in DOMAIN Carousels /\ n \in 1 .. c /\ m \in 1 .. c
      /\ s.nodes = NodesOf(SectionsOf(Carousels[n], "ddmt")) /\ s.mpus = Mpus(m)
      /\ ValidCatalogue(SectionsOf(Carousels[n], "ddmt"), SectionsOf(Carousels[m], "damt"))
  BY CatalogueNumbers
<1>2. unit \in IndexUnits(m, a)
  BY <1>1 DEF IndexUnits
<1>3. index \in IndexesBy(m, c)
  <2>1. a \in DOMAIN Carousels
    BY CarouselsAssumption
  <2>2. index \in Indexes[n][m][a]
    BY <1>1, <1>2, <2>1, IndexAt
  <2> HIDE DEF index
  <2> QED
    BY <1>1, <2>2, IndexedBy
<1>4. files_ = {record(i) : i \in {j \in DOMAIN records : path(j) # Escapes}}
  <2> DEFINE nodes == NodesOf(SectionsOf(Carousels[n], "ddmt"))
             tags  == NodeTags(Mpus(m)[mpu], Len(records))
             way   == [i \in DOMAIN records |-> JoinPath(nodes[tags[i]], records[i].name)]
  <2>1. files_ = {[key |-> << mpu, records[i].item >>, path |-> way[i],
                   version |-> records[i].version] : i \in {j \in DOMAIN records : way[j] # Escapes}}
    BY DEF FilesListed
  <2>2. \A i \in DOMAIN records : way[i] = path(i)
    BY <1>1 DEF TargetPath
  <2> HIDE DEF way, path, files_
  <2> QED
    BY <2>1, <2>2
<1>5. /\ \A k \in DOMAIN targets : \E i \in DOMAIN records :
            /\ k = << mpu, records[i].item >>
            /\ TargetPath(s, mpu, records, i) # Escapes
            /\ targets[k].path = TargetPath(s, mpu, records, i)
            /\ targets[k].version = records[i].version
      /\ \A i \in DOMAIN records :
            TargetPath(s, mpu, records, i) # Escapes => << mpu, records[i].item >> \in DOMAIN targets
  BY TargetsAre
<1>6. index.listed = files_ /\ index.mpu = mpu
  OBVIOUS
<1> HIDE DEF index, files_
<1>7. ASSUME NEW k \in DOMAIN targets
      PROVE  k[1] = unit.mpu /\ ListedAs(k, targets[k].path, targets[k].version, m, c)
  <2>1. PICK i \in DOMAIN records :
            /\ k = << mpu, records[i].item >>
            /\ path(i) # Escapes
            /\ targets[k].path = path(i)
            /\ targets[k].version = records[i].version
    BY <1>5
  <2> HIDE DEF path, targets
  <2>2. record(i) \in files_
    BY <1>4, <2>1
  <2>3. record(i) = [key |-> k, path |-> targets[k].path, version |-> targets[k].version]
    BY <2>1
  <2> QED
    BY <1>3, <1>6, <2>1, <2>2, <2>3 DEF ListedAs
<1>8. ASSUME NEW k, k[1] = mpu, k \notin DOMAIN targets
      PROVE  LeftOutBy(k, m, c)
  <2>1. ASSUME NEW file \in files_, file.key = k PROVE FALSE
    <3> HIDE DEF path, targets
    <3>1. PICK i \in DOMAIN records : path(i) # Escapes /\ file = record(i)
      BY <1>4
    <3>2. k = << mpu, records[i].item >>
      BY <2>1, <3>1
    <3> QED
      BY <1>5, <1>8, <3>1, <3>2 DEF path
  <2> QED
    BY <1>3, <1>6, <1>8, <2>1 DEF LeftOutBy, Lists
<1> QED
  BY <1>7, <1>8

LEMMA IndexKeeps ==
  ASSUME NEW c \in DOMAIN Carousels, NEW n \in 0 .. c, NEW m \in 0 .. c,
         NEW s, Sound(s, n, m, c), NEW a \in 1 .. c, NEW unit \in Carousels[a].units,
         NEW k, k = KeyOf(unit), unit.mpu \in DOMAIN s.mpus,
         unit.item = s.mpus[unit.mpu].index, unit.download = s.mpus[unit.mpu].download
  PROVE  /\ Sound(ConsumeIndex(s, unit.mpu, unit.records), n, m, c)
         /\ Told(s) => Told(ConsumeIndex(s, unit.mpu, unit.records))
         /\ Uses(s, ConsumeIndex(s, unit.mpu, unit.records), k, c)
<1> DEFINE mpu     == unit.mpu
           records == unit.records
           known   == {x \in DOMAIN s.items : x[1] = mpu}
           targets   == Targets(s, mpu, records).files
           retired == Retired(known, DOMAIN targets)
           listed  == [s EXCEPT
             !.items = Over(targets, Without(@, known)),
             !.deferred = IF retired = {} THEN @ ELSE With(@, mpu, At(@, mpu) \cup retired)]
           finished == FinishUpdate(listed, mpu)
           t == ConsumeIndex(s, mpu, records)
           accepted == /\ Readable(records)
                       /\ Len(records) = Len(NodeTags(s.mpus[mpu], Len(records)))
                       /\ Cardinality(DOMAIN s.items \ known) + Len(records) <= MaxResources
                       /\ Targets(s, mpu, records).distinct
<1>1. /\ m \in 1 .. c /\ s.mpus = Mpus(m) /\ c \in Nat
      /\ a \in DOMAIN Carousels
  BY CatalogueNumbers, CarouselsAssumption
<1>2. t = IF accepted THEN UpdateApplications(finished) ELSE s
  BY Zenon DEF ConsumeIndex
<1>3. CASE ~accepted
  <2>1. t = s
    BY <1>2, <1>3
  <2> QED
    BY <2>1 DEF Uses, LessPending
<1>4. CASE accepted
  <2>1. /\ \A x \in DOMAIN targets :
             x[1] = mpu /\ ListedAs(x, targets[x].path, targets[x].version, m, c)
        /\ \A x : x[1] = mpu /\ x \notin DOMAIN targets => LeftOutBy(x, m, c)
    BY <1>4, TargetsListed DEF Readable
  <2>2. /\ Fields(listed)
        /\ listed.nodes = s.nodes /\ listed.mpus = s.mpus /\ listed.pending = s.pending
        /\ listed.bytes = s.bytes /\ listed.paths = s.paths /\ listed.store = s.store
        /\ listed.superseded = s.superseded /\ listed.undefined = s.undefined
        /\ listed.items = Over(targets, Without(s.items, known))
        /\ listed.deferred = IF retired = {} THEN s.deferred
                             ELSE With(s.deferred, mpu, At(s.deferred, mpu) \cup retired)
    <3> HIDE DEF targets, known, retired
    <3> QED
      BY DEF Sound, Fields, FieldNames
  <2>3. /\ DOMAIN listed.items = DOMAIN targets \cup (DOMAIN s.items \ known)
        /\ \A x \in DOMAIN targets : listed.items[x] = targets[x]
        /\ \A x \in (DOMAIN s.items \ known) \ DOMAIN targets : listed.items[x] = s.items[x]
    <3> HIDE DEF targets, known, retired, listed
    <3> QED
      BY <2>2 DEF Over, Without, Restrict
  <2>4. \A d \in retired : d[1] = mpu /\ Dropped(d, m, c)
    <3> SUFFICES ASSUME NEW d \in retired PROVE d[1] = mpu /\ Dropped(d, m, c)
      OBVIOUS
    <3>1. d \in DOMAIN s.items /\ d[1] = mpu /\ d \notin DOMAIN targets
      BY DEF Retired
    <3> HIDE DEF retired, targets
    <3>2. PICK o \in 1 .. m : ListedAs(d, s.items[d].path, s.items[d].version, o, c)
      BY <3>1 DEF Sound, ItemsListed
    <3>3. ListedBy(d, o, c) /\ LeftOutBy(d, m, c)
      BY <2>1, <3>1, <3>2, ListedIsKey
    <3>4. m \in o .. m
      BY <1>1
    <3> QED
      BY <3>1, <3>3, <3>4 DEF Dropped
  <2>5. \A x : \/ At(listed.deferred, x) = At(s.deferred, x)
               \/ x = mpu /\ At(listed.deferred, x) = At(s.deferred, x) \cup retired
    <3> HIDE DEF targets, known, retired, listed
    <3> QED
      BY <2>2 DEF At, With, Over
  <2>6. RemovalsDue(listed, m, c)
    <3>1. \A x : \A d \in At(s.deferred, x) : d[1] = x /\ Dropped(d, m, c)
      BY DEF Sound, RemovalsDue, At
    <3>2. \A x : \A d \in At(listed.deferred, x) : d[1] = x /\ Dropped(d, m, c)
      <4> HIDE DEF listed, retired
      <4> QED
        BY <2>4, <2>5, <3>1
    <3> HIDE DEF listed, retired
    <3> QED
      BY <2>2, <3>2 DEF Sound, RemovalsDue, At
  <2>7. \A x \in DOMAIN listed.items : \E o \in 1 .. m :
          /\ ListedAs(x, listed.items[x].path, listed.items[x].version, o, c)
          /\ \A d \in At(listed.deferred, x[1]) : Dropped(d, o, c)
    <3> SUFFICES ASSUME NEW x \in DOMAIN listed.items
                 PROVE  \E o \in 1 .. m :
                          /\ ListedAs(x, listed.items[x].path, listed.items[x].version, o, c)
                          /\ \A d \in At(listed.deferred, x[1]) : Dropped(d, o, c)
      OBVIOUS
    <3>1. CASE x \in DOMAIN targets
      <4> HIDE DEF listed, targets, retired
      <4>1. ListedAs(x, listed.items[x].path, listed.items[x].version, m, c)
        BY <2>1, <2>3, <3>1
      <4>2. \A d \in At(listed.deferred, x[1]) : Dropped(d, m, c)
        BY <2>6 DEF RemovalsDue, At
      <4>3. m \in 1 .. m
        BY <1>1
      <4> QED
        BY <4>1, <4>2, <4>3
    <3>2. CASE x \notin DOMAIN targets
      <4>1. x \in DOMAIN s.items /\ x[1] # mpu
        BY <2>3, <3>2
      <4> HIDE DEF listed, targets, retired
      <4>2. listed.items[x] = s.items[x]
        BY <2>3, <3>2
      <4>3. At(listed.deferred, x[1]) = At(s.deferred, x[1])
        BY <2>5, <4>1
      <4> QED
        BY <4>1, <4>2, <4>3 DEF Sound, ItemsListed
    <3> QED
      BY <3>1, <3>2
  <2>8. IsFiniteSet(DOMAIN listed.items) /\ Cardinality(DOMAIN listed.items) <= MaxResources
    <3> DEFINE f == [i \in 1 .. Len(records) |-> << mpu, records[i].item >>]
               rest == DOMAIN s.items \ known
    <3>1. Len(records) \in Nat /\ DOMAIN records = 1 .. Len(records)
      BY <1>1, <1>4, UnitsAssumption DEF Readable
    <3>2. \A x \in DOMAIN targets : \E i \in DOMAIN records : x = << mpu, records[i].item >>
      BY TargetsAre
    <3>3. \A x \in DOMAIN targets : \E i \in 1 .. Len(records) : x = f[i]
      BY <3>1, <3>2
    <3>4. IsFiniteSet(DOMAIN targets) /\ Cardinality(DOMAIN targets) <= Len(records)
      <4> HIDE DEF targets, f, records
      <4> QED
        BY <3>1, <3>3, TargetsFew
    <3>5. IsFiniteSet(rest)
      BY FS_Subset DEF Sound, ItemsListed
    <3>6. DOMAIN listed.items = DOMAIN targets \cup rest
      BY <2>3
    <3> DEFINE F == DOMAIN targets
    <3>7. /\ IsFiniteSet(F \cup rest)
          /\ Cardinality(F \cup rest) = Cardinality(F) + Cardinality(rest) - Cardinality(F \cap rest)
      <4> HIDE DEF targets, rest, F
      <4>1. IsFiniteSet(F)
        BY <3>4 DEF F
      <4> QED
        BY <3>5, <4>1, FS_Union
    <3>8. Cardinality(F) \in Nat /\ Cardinality(rest) \in Nat /\ Cardinality(F \cap rest) \in Nat
      <4>1. IsFiniteSet(F \cap rest)
        BY <3>4, FS_Subset
      <4> HIDE DEF targets, rest
      <4> QED
        BY <3>4, <3>5, <4>1, FS_CardinalityType
    <3>9. Cardinality(rest) + Len(records) <= MaxResources
      BY <1>4
    <3> HIDE DEF targets, rest, listed, records
    <3> QED
      BY <3>1, <3>4, <3>6, <3>7, <3>8, <3>9, CarouselsAssumption
  <2> HIDE DEF listed, targets, retired, known
  <2>9. ItemsListed(listed, m, c)
    BY <2>7, <2>8 DEF ItemsListed
  <2>10. Sound(listed, n, m, c)
    BY <2>2, <2>6, <2>9 DEF Sound, Waiting, Stored, Spoiled
  <2>11. /\ Sound(finished, n, m, c) /\ LessPending(listed, finished)
         /\ DOMAIN listed.pending \ Replaces(listed, mpu) \subseteq DOMAIN finished.pending
    BY <2>10, FinishKeeps
  <2>12. k \in Replaces(listed, mpu) => Returns(k, c)
    <3>1. mpu \in DOMAIN listed.mpus /\ k[2] = listed.mpus[mpu].index /\ k[1] = mpu
      BY <2>2 DEF KeyOf
    <3> QED
      BY <2>10, <3>1, NotRemoved
  <2>13. /\ LessPending(s, finished)
         /\ k \in DOMAIN s.pending \ DOMAIN finished.pending => Returns(k, c)
    BY <2>2, <2>11, <2>12 DEF LessPending
  <2> HIDE DEF finished
  <2>14. /\ Sound(UpdateApplications(finished), n, m, c) /\ Told(UpdateApplications(finished))
         /\ UpdateApplications(finished).pending = finished.pending
    BY <2>11, UpdateKeeps
  <2>15. t = UpdateApplications(finished)
    BY <1>2, <1>4
  <2> QED
    BY <2>13, <2>14, <2>15 DEF Uses, LessPending
<1> QED
  BY <1>3, <1>4

(* try_consume keeps what holds of the state, whichever way the unit goes. *)
LEMMA ConsumeKeeps ==
  ASSUME NEW c \in DOMAIN Carousels, NEW n \in 0 .. c, NEW m \in 0 .. c,
         NEW s, Sound(s, n, m, c),
         NEW a \in 1 .. c, NEW unit \in Carousels[a].units, NEW k, k = KeyOf(unit),
         Consumable(s, k, unit)
  PROVE  /\ Sound(Consume(s, k, unit), n, m, c)
         /\ Told(s) => Told(Consume(s, k, unit))
         /\ Uses(s, Consume(s, k, unit), k, c)
<1>1. k[1] = unit.mpu /\ k[2] = unit.item /\ k[1] \in DOMAIN s.mpus
  BY DEF KeyOf, Consumable
<1>2. CASE unit.download # s.mpus[k[1]].download
  <2>1. Consume(s, k, unit) = s
    BY <1>2 DEF Consume
  <2> QED
    BY <2>1 DEF Uses, LessPending
<1>3. CASE unit.download = s.mpus[k[1]].download
  <2>1. CASE k[2] = s.mpus[k[1]].index
    <3>1. Consume(s, k, unit) = ConsumeIndex(s, unit.mpu, unit.records)
      BY <1>1, <1>3, <2>1 DEF Consume
    <3> QED
      BY <1>1, <1>3, <2>1, <3>1, IndexKeeps
  <2>2. CASE k[2] # s.mpus[k[1]].index
    <3>1. Consume(s, k, unit) = Publish(s, k, unit)
      BY <1>3, <2>2 DEF Consume
    <3>2. k \in DOMAIN s.items
      BY <1>3, <2>2 DEF Consumable
    <3> QED
      BY <1>1, <1>3, <3>1, <3>2, PublishKeeps
  <2> QED
    BY <2>1, <2>2
<1> QED
  BY <1>2, <1>3
-----------------------------------------------------------------------------
(* retry keeps what holds of the state: one unit, one pass, all passes.    *)
LEMMA RetryOneKeeps ==
  ASSUME NEW c \in DOMAIN Carousels, NEW n \in 0 .. c, NEW m \in 0 .. c,
         NEW s, Kept(s, n, m, c), NEW k
  PROVE  Kept(RetryOne(s, k), n, m, c)
<1> DEFINE unit == s.pending[k]
           done == Consume(s, k, unit)
           t == [done EXCEPT !.bytes = @ - unit.size, !.pending = Without(@, {k})]
           u == [done EXCEPT !.undefined = k]
           left == \/ s.undefined # Absent
                   \/ k \notin DOMAIN s.pending \/ ~Consumable(s, k, unit)
<1>1. RetryOne(s, k) = IF left THEN s ELSE IF k \notin DOMAIN done.pending THEN u ELSE t
  BY Zenon DEF RetryOne
<1>2. CASE left
  <2>1. RetryOne(s, k) = s
    BY <1>1, <1>2
  <2> QED
    BY <2>1
<1>3. CASE ~left
  <2>1. k \in DOMAIN s.pending /\ Consumable(s, k, unit)
    BY <1>3
  <2>2. PICK a \in 1 .. c : unit \in Carousels[a].units /\ k = KeyOf(unit)
    BY <2>1 DEF Kept, Sound, Waiting
  <2>3. Sound(done, n, m, c) /\ (Told(s) => Told(done)) /\ Uses(s, done, k, c)
    BY <2>1, <2>2, ConsumeKeeps DEF Kept
  <2>4. RetryOne(s, k) = IF k \notin DOMAIN done.pending THEN u ELSE t
    BY <1>1, <1>3
  <2> HIDE DEF done, left
  <2>5. CASE k \in DOMAIN done.pending
    <3>1. done.pending[k] = unit
      BY <2>3, <2>5 DEF Uses, LessPending
    <3>2. PendingBytes(done.pending, {k}) = unit.size
      BY <2>3, <2>5, <3>1, WaitingSized, BytesOfOne DEF Sound
    <3> HIDE DEF unit
    <3>3. /\ Fields(t)
          /\ t.nodes = done.nodes /\ t.mpus = done.mpus /\ t.items = done.items
          /\ t.paths = done.paths /\ t.store = done.store
          /\ t.superseded = done.superseded /\ t.deferred = done.deferred
          /\ t.applications = done.applications /\ t.undefined = done.undefined
          /\ t.pending = Without(done.pending, {k}) /\ t.bytes = done.bytes - unit.size
      BY <2>3 DEF Sound, Fields, FieldNames
    <3>4. RetryOne(s, k) = t
      BY <2>4, <2>5
    <3> HIDE DEF t
    <3>5. Waiting(t, c)
      BY <2>3, <3>2, <3>3, LessWaits DEF Sound
    <3>6. Sound(t, n, m, c)
      BY <2>3, <3>3, <3>5 DEF Sound, ItemsListed, RemovalsDue, Stored, Spoiled
    <3>7. Told(t)
      BY <2>3, <3>3 DEF Kept, Told
    <3> QED
      BY <3>4, <3>6, <3>7 DEF Kept
  <2>6. CASE k \notin DOMAIN done.pending
    <3>1. Returns(k, c)
      BY <2>1, <2>3, <2>6 DEF Uses
    <3>2. /\ Fields(u)
          /\ u.nodes = done.nodes /\ u.mpus = done.mpus /\ u.items = done.items
          /\ u.paths = done.paths /\ u.store = done.store
          /\ u.superseded = done.superseded /\ u.deferred = done.deferred
          /\ u.applications = done.applications /\ u.undefined = k
          /\ u.pending = done.pending /\ u.bytes = done.bytes
      BY <2>3 DEF Sound, Fields, FieldNames
    <3>3. RetryOne(s, k) = u
      BY <2>4, <2>6
    <3> HIDE DEF u
    <3>4. Sound(u, n, m, c)
      BY <2>3, <3>1, <3>2 DEF Sound, Waiting, ItemsListed, RemovalsDue, Stored, Spoiled
    <3>5. Told(u)
      BY <2>3, <3>2 DEF Kept, Told
    <3> QED
      BY <3>3, <3>4, <3>5 DEF Kept
  <2> QED
    BY <2>5, <2>6
<1> QED
  BY <1>2, <1>3

(* Induction: the least number outside a set can be had.                   *)
LEMMA NumberInduction ==
  ASSUME NEW T, 0 \in T, \A n \in Nat : n \in T => n + 1 \in T
  PROVE  Nat \subseteq T
<1> DEFINE Rest == Nat \ T
<1>1. ASSUME Rest # {} PROVE FALSE
  <2>1. PICK x \in Rest : \A y \in Rest : ~ (<< y, x >> \in OpToRel(<, Nat))
    <3>1. Rest \subseteq Nat
      OBVIOUS
    <3>2. IsWellFoundedOn(OpToRel(<, Nat), Nat)
      BY NatLessThanWellFounded
    <3> QED
      BY <1>1, <3>1, <3>2, WFMin
  <2>2. x \in Nat /\ x # 0 /\ x - 1 \in Nat
    OBVIOUS
  <2>3. x - 1 \in Rest
    <3>1. (x - 1) + 1 = x
      BY <2>2
    <3> QED
      BY <2>2, <3>1
  <2>4. << x - 1, x >> \in OpToRel(<, Nat)
    BY <2>2 DEF OpToRel
  <2> QED
    BY <2>1, <2>3, <2>4
<1> QED
  BY <1>1

(* The units of a pass in their order, one after the other.                *)
Passing(f, s, order, N) ==
  f = [n \in 0 .. N |-> IF n = 0 THEN s ELSE RetryOne(f[n - 1], order[n])]

LEMMA PassingExists ==
  ASSUME NEW s, NEW order, NEW N \in Nat
  PROVE  \E f : Passing(f, s, order, N)
<1> DEFINE T == {m \in Nat : \E f : Passing(f, s, order, m)}
<1>1. 0 \in T
  <2> DEFINE g == [n \in 0 .. 0 |-> s]
  <2>1. g = [n \in 0 .. 0 |-> IF n = 0 THEN s ELSE RetryOne(g[n - 1], order[n])]
    OBVIOUS
  <2> HIDE DEF g
  <2>2. Passing(g, s, order, 0)
    BY <2>1 DEF Passing
  <2> QED
    BY <2>2
<1>2. ASSUME NEW m \in Nat, m \in T PROVE m + 1 \in T
  <2>1. PICK f : Passing(f, s, order, m)
    BY <1>2
  <2> DEFINE g == [n \in 0 .. (m + 1) |->
                     IF n = m + 1 THEN RetryOne(f[m], order[n]) ELSE f[n]]
  <2>2. \A n \in 0 .. m : f[n] = IF n = 0 THEN s ELSE RetryOne(f[n - 1], order[n])
    BY <2>1 DEF Passing
  <2>3. \A n \in 0 .. (m + 1) : g[n] = IF n = m + 1 THEN RetryOne(f[m], order[n]) ELSE f[n]
    OBVIOUS
  <2>4. g = [n \in 0 .. (m + 1) |-> g[n]]
    OBVIOUS
  <2> HIDE DEF g
  <2>5. ASSUME NEW n \in 0 .. (m + 1)
        PROVE  g[n] = IF n = 0 THEN s ELSE RetryOne(g[n - 1], order[n])
    <3>1. CASE n = m + 1
      <4>1. g[n] = RetryOne(f[m], order[n]) /\ g[m] = f[m] /\ n - 1 = m /\ n # 0
        BY <2>3, <3>1
      <4> QED
        BY <4>1
    <3>2. CASE n # m + 1
      <4>1. n \in 0 .. m /\ g[n] = f[n]
        BY <2>3, <3>2
      <4>2. n # 0 => n - 1 \in 0 .. m /\ n - 1 # m + 1 /\ g[n - 1] = f[n - 1]
        BY <2>3, <4>1
      <4> QED
        BY <2>2, <4>1, <4>2
    <3> QED
      BY <3>1, <3>2
  <2>6. g = [n \in 0 .. (m + 1) |-> IF n = 0 THEN s ELSE RetryOne(g[n - 1], order[n])]
    BY <2>4, <2>5
  <2>7. Passing(g, s, order, m + 1)
    BY <2>6 DEF Passing
  <2> QED
    BY <2>7
<1> HIDE DEF T
<1>3. Nat \subseteq T
  BY <1>1, <1>2, NumberInduction
<1> QED
  BY <1>3 DEF T

LEMMA RetryPassKeeps ==
  ASSUME NEW c \in DOMAIN Carousels, NEW n \in 0 .. c, NEW m \in 0 .. c, NEW s,
         Kept(s, n, m, c)
  PROVE  Kept(RetryPass(s), n, m, c)
<1> DEFINE keys  == DOMAIN s.pending
           N == Cardinality(keys)
           order == CHOOSE f \in [1 .. N -> keys] : \A i, j \in DOMAIN f : i < j => Before(f[i], f[j])
           passed == CHOOSE f : f = [i \in 0 .. N |->
                       IF i = 0 THEN s ELSE RetryOne(f[i - 1], order[i])]
<1>1. RetryPass(s) = passed[N]
  BY Zenon DEF RetryPass
<1>2. N \in Nat
  BY FS_CardinalityType DEF Kept, Sound, Waiting
<1> HIDE DEF N, order
<1>3. passed = [i \in 0 .. N |-> IF i = 0 THEN s ELSE RetryOne(passed[i - 1], order[i])]
  <2>1. PICK g : Passing(g, s, order, N)
    BY <1>2, PassingExists
  <2>2. g = [i \in 0 .. N |-> IF i = 0 THEN s ELSE RetryOne(g[i - 1], order[i])]
    BY <2>1, Zenon DEF Passing
  <2> QED
    BY <2>2, Zenon
<1>4. \A i \in 0 .. N : passed[i] = IF i = 0 THEN s ELSE RetryOne(passed[i - 1], order[i])
  BY <1>3
<1> HIDE DEF passed
<1> DEFINE T == {i \in Nat : i <= N => Kept(passed[i], n, m, c)}
<1>5. 0 \in T
  BY <1>2, <1>4
<1>6. ASSUME NEW i \in Nat, i \in T PROVE i + 1 \in T
  <2> SUFFICES ASSUME i + 1 <= N PROVE Kept(passed[i + 1], n, m, c)
    OBVIOUS
  <2>1. Kept(passed[i], n, m, c)
    BY <1>2, <1>6
  <2>2. i + 1 \in 0 .. N /\ i + 1 # 0 /\ (i + 1) - 1 = i
    BY <1>2
  <2>3. passed[i + 1] = RetryOne(passed[i], order[i + 1])
    BY <1>4, <2>2
  <2> QED
    BY <2>1, <2>3, RetryOneKeeps
<1> HIDE DEF T
<1>7. Nat \subseteq T
  BY <1>5, <1>6, NumberInduction
<1> QED
  BY <1>1, <1>2, <1>7 DEF T

(* The passes of retry.                                                    *)
Passes(f, s, N) == f = [n \in 0 .. N |-> IF n = 0 THEN s ELSE RetryPass(f[n - 1])]

LEMMA PassesExist ==
  ASSUME NEW s, NEW N \in Nat
  PROVE  \E f : Passes(f, s, N)
<1> DEFINE T == {m \in Nat : \E f : Passes(f, s, m)}
<1>1. 0 \in T
  <2> DEFINE g == [n \in 0 .. 0 |-> s]
  <2>1. g = [n \in 0 .. 0 |-> IF n = 0 THEN s ELSE RetryPass(g[n - 1])]
    OBVIOUS
  <2> HIDE DEF g
  <2>2. Passes(g, s, 0)
    BY <2>1 DEF Passes
  <2> QED
    BY <2>2
<1>2. ASSUME NEW m \in Nat, m \in T PROVE m + 1 \in T
  <2>1. PICK f : Passes(f, s, m)
    BY <1>2
  <2> DEFINE g == [n \in 0 .. (m + 1) |-> IF n = m + 1 THEN RetryPass(f[m]) ELSE f[n]]
  <2>2. \A n \in 0 .. m : f[n] = IF n = 0 THEN s ELSE RetryPass(f[n - 1])
    BY <2>1 DEF Passes
  <2>3. \A n \in 0 .. (m + 1) : g[n] = IF n = m + 1 THEN RetryPass(f[m]) ELSE f[n]
    OBVIOUS
  <2>4. g = [n \in 0 .. (m + 1) |-> g[n]]
    OBVIOUS
  <2> HIDE DEF g
  <2>5. ASSUME NEW n \in 0 .. (m + 1)
        PROVE  g[n] = IF n = 0 THEN s ELSE RetryPass(g[n - 1])
    <3>1. CASE n = m + 1
      <4>1. g[n] = RetryPass(f[m]) /\ g[m] = f[m] /\ n - 1 = m /\ n # 0
        BY <2>3, <3>1
      <4> QED
        BY <4>1
    <3>2. CASE n # m + 1
      <4>1. n \in 0 .. m /\ g[n] = f[n]
        BY <2>3, <3>2
      <4>2. n # 0 => n - 1 \in 0 .. m /\ n - 1 # m + 1 /\ g[n - 1] = f[n - 1]
        BY <2>3, <4>1
      <4> QED
        BY <2>2, <4>1, <4>2
    <3> QED
      BY <3>1, <3>2
  <2>6. g = [n \in 0 .. (m + 1) |-> IF n = 0 THEN s ELSE RetryPass(g[n - 1])]
    BY <2>4, <2>5
  <2>7. Passes(g, s, m + 1)
    BY <2>6 DEF Passes
  <2> QED
    BY <2>7
<1> HIDE DEF T
<1>3. Nat \subseteq T
  BY <1>1, <1>2, NumberInduction
<1> QED
  BY <1>3 DEF T

LEMMA RetryKeeps ==
  ASSUME NEW c \in DOMAIN Carousels, NEW n \in 0 .. c, NEW m \in 0 .. c, NEW s,
         Kept(s, n, m, c)
  PROVE  Kept(Retry(s), n, m, c)
<1> DEFINE N == Cardinality(DOMAIN s.pending)
           passed == CHOOSE f : f = [i \in 0 .. N |-> IF i = 0 THEN s ELSE RetryPass(f[i - 1])]
<1>1. Retry(s) = passed[N]
  BY Zenon DEF Retry
<1>2. N \in Nat
  BY FS_CardinalityType DEF Kept, Sound, Waiting
<1> HIDE DEF N
<1>3. passed = [i \in 0 .. N |-> IF i = 0 THEN s ELSE RetryPass(passed[i - 1])]
  BY <1>2, PassesExist, Zenon DEF Passes
<1>4. \A i \in 0 .. N : passed[i] = IF i = 0 THEN s ELSE RetryPass(passed[i - 1])
  BY <1>3
<1> HIDE DEF passed
<1> DEFINE T == {i \in Nat : i <= N => Kept(passed[i], n, m, c)}
<1>5. 0 \in T
  BY <1>2, <1>4
<1>6. ASSUME NEW i \in Nat, i \in T PROVE i + 1 \in T
  <2> SUFFICES ASSUME i + 1 <= N PROVE Kept(passed[i + 1], n, m, c)
    OBVIOUS
  <2>1. Kept(passed[i], n, m, c)
    BY <1>2, <1>6
  <2>2. i + 1 \in 0 .. N /\ i + 1 # 0 /\ (i + 1) - 1 = i
    BY <1>2
  <2>3. passed[i + 1] = RetryPass(passed[i])
    BY <1>4, <2>2
  <2> QED
    BY <2>1, <2>3, RetryPassKeeps
<1> HIDE DEF T
<1>7. Nat \subseteq T
  BY <1>5, <1>6, NumberInduction
<1> QED
  BY <1>1, <1>2, <1>7 DEF T
-----------------------------------------------------------------------------
(* A unit that arrives keeps what holds of the state: it is used up, left  *)
(* out, or waits within the limits.                                        *)
LEMMA UnitKeeps ==
  ASSUME NEW c \in DOMAIN Carousels, NEW n \in 0 .. c, NEW m \in 0 .. c, NEW s,
         Kept(s, n, m, c), NEW unit \in Carousels[c].units
  PROVE  Kept(Unit(s, unit), n, m, c)
<1> DEFINE k == << unit.mpu, unit.item >>
           previous == PendingBytes(s.pending, {k})
           t == [s EXCEPT !.pending = With(@, k, unit), !.bytes = @ - previous + unit.size]
           refused == \/ Cardinality(DOMAIN s.pending \cup {k}) > MaxPendingUnits
                      \/ unit.size > MaxPendingBytes - Least(s.bytes, MaxPendingBytes) + previous
<1>1. k = KeyOf(unit) /\ c \in 1 .. c /\ unit.size \in Nat
  <2>1. c \in 1 .. c
    BY CarouselsAssumption
  <2>2. unit.size \in Nat
    BY UnitsAssumption
  <2> QED
    BY <2>1, <2>2 DEF KeyOf
<1>2. CASE Consumable(s, k, unit)
  <2>1. Unit(s, unit) = Consume(s, k, unit)
    BY <1>2, Zenon DEF Unit
  <2> HIDE DEF k
  <2> QED
    BY <1>1, <1>2, <2>1, ConsumeKeeps DEF Kept
<1>3. CASE ~Consumable(s, k, unit) /\ refused
  <2>1. Unit(s, unit) = s
    BY <1>3, Zenon DEF Unit
  <2> QED
    BY <2>1
<1>4. CASE ~Consumable(s, k, unit) /\ ~refused
  <2>1. Unit(s, unit) = Retry(t)
    BY <1>4, Zenon DEF Unit
  <2>2. Waiting(s, c) /\ Sized(s.pending)
    BY WaitingSized DEF Kept, Sound
  <2>3. /\ Fields(t)
        /\ t.nodes = s.nodes /\ t.mpus = s.mpus /\ t.items = s.items
        /\ t.paths = s.paths /\ t.store = s.store
        /\ t.superseded = s.superseded /\ t.deferred = s.deferred
        /\ t.applications = s.applications /\ t.undefined = s.undefined
        /\ t.pending = With(s.pending, k, unit) /\ t.bytes = s.bytes - previous + unit.size
    <3> HIDE DEF k, previous
    <3> QED
      BY DEF Kept, Sound, Fields, FieldNames
  <2> HIDE DEF k, t
  <2>4. /\ Sized(t.pending)
        /\ PendingBytes(t.pending, DOMAIN t.pending)
             = PendingBytes(s.pending, DOMAIN s.pending) - previous + unit.size
    BY <1>1, <2>2, <2>3, BytesWith
  <2>5. /\ DOMAIN t.pending = DOMAIN s.pending \cup {k} /\ t.pending[k] = unit
        /\ \A other \in DOMAIN s.pending \ {k} : t.pending[other] = s.pending[other]
    BY <2>3 DEF With, Over
  <2>6. \A x \in DOMAIN t.pending :
          \E a \in 1 .. c : t.pending[x] \in Carousels[a].units /\ x = KeyOf(t.pending[x])
    BY <1>1, <2>2, <2>5 DEF Waiting
  <2>7. t.bytes = PendingBytes(t.pending, DOMAIN t.pending)
    BY <2>2, <2>3, <2>4 DEF Waiting
  <2>8. t.bytes <= MaxPendingBytes
    <3>1. previous \in Nat /\ PendingBytes(s.pending, DOMAIN s.pending) \in Nat
      BY <2>2, OctetsFinite
    <3>2. s.bytes \in Nat /\ s.bytes <= MaxPendingBytes
      BY <2>2, <3>1 DEF Waiting
    <3>3. Least(s.bytes, MaxPendingBytes) = s.bytes
      BY <3>2 DEF Least
    <3>4. ~(unit.size > MaxPendingBytes - s.bytes + previous)
      BY <1>4, <3>3
    <3> HIDE DEF previous
    <3> QED
      BY <1>1, <2>3, <3>1, <3>2, <3>4, CarouselsAssumption
  <2>9. Cardinality(DOMAIN t.pending) <= MaxPendingUnits /\ IsFiniteSet(DOMAIN t.pending)
    <3>1. IsFiniteSet(DOMAIN t.pending) /\ Cardinality(DOMAIN t.pending) \in Nat
      BY <2>4, FS_CardinalityType DEF Sized
    <3> QED
      BY <1>4, <2>5, <3>1, CarouselsAssumption
  <2>10. Waiting(t, c)
    BY <2>6, <2>7, <2>8, <2>9 DEF Waiting
  <2>11. Kept(t, n, m, c)
    BY <2>3, <2>10 DEF Kept, Sound, ItemsListed, RemovalsDue, Stored, Spoiled, Told
  <2> QED
    BY <2>1, <2>11, RetryKeeps
<1> QED
  BY <1>2, <1>3, <1>4

(* So does an application, of which the sink is told what is shown.        *)
LEMMA ApplicationKeeps ==
  ASSUME NEW c, NEW n, NEW m, NEW s, Kept(s, n, m, c), NEW app
  PROVE  Kept(Application(s, app), n, m, c)
<1> DEFINE told == With(s.applications, app.id, StateOf(app, DOMAIN s.paths))
           t == Application(s, app)
<1>1. /\ Fields(t)
      /\ t.nodes = s.nodes /\ t.mpus = s.mpus /\ t.items = s.items /\ t.pending = s.pending
      /\ t.bytes = s.bytes /\ t.paths = s.paths /\ t.store = s.store
      /\ t.superseded = s.superseded /\ t.deferred = s.deferred
      /\ t.applications = told /\ t.undefined = s.undefined
  <2> HIDE DEF told
  <2>1. t = [s EXCEPT !.applications = told]
    BY DEF Application, told
  <2> QED
    BY <2>1 DEF Kept, Sound, Fields, FieldNames
<1> HIDE DEF t
<1>2. /\ DOMAIN told = DOMAIN s.applications \cup {app.id}
      /\ told[app.id] = StateOf(app, DOMAIN s.paths)
      /\ \A id \in DOMAIN s.applications \ {app.id} : told[id] = s.applications[id]
  BY DEF With, Over
<1>3. StateOf(app, DOMAIN s.paths).application = app
  BY DEF StateOf
<1> HIDE DEF told
<1>4. Told(t)
  BY <1>1, <1>2, <1>3 DEF Kept, Told
<1>5. Sound(t, n, m, c)
  BY <1>1 DEF Kept, Sound, Waiting, ItemsListed, RemovalsDue, Stored, Spoiled
<1> QED
  BY <1>4, <1>5, <1>1 DEF Kept, t

(* Nothing waits after a reposition.                                       *)
LEMMA NothingWaits ==
  ASSUME NEW c \in DOMAIN Carousels, NEW s, s.pending = NoFiles, s.bytes = 0
  PROVE  Waiting(s, c)
<1>1. DOMAIN s.pending = {}
  BY NoFilesFacts
<1>2. IsFiniteSet({}) /\ Cardinality({}) = 0
  BY FS_EmptySet
<1>3. PendingBytes(s.pending, DOMAIN s.pending) = 0
  <2>1. Octets(s.pending, DOMAIN s.pending) = {}
    BY <1>1 DEF Octets
  <2> QED
    BY <1>2, <2>1 DEF PendingBytes, Octets
<1> QED
  BY <1>1, <1>2, <1>3, CarouselsAssumption DEF Waiting

LEMMA RepositionKeeps ==
  ASSUME NEW c \in DOMAIN Carousels, NEW n, NEW m, NEW s, Kept(s, n, m, c)
  PROVE  Kept([s EXCEPT !.pending = NoFiles, !.bytes = 0], n, m, c)
<1> DEFINE t == [s EXCEPT !.pending = NoFiles, !.bytes = 0]
<1>1. /\ Fields(t)
      /\ t.nodes = s.nodes /\ t.mpus = s.mpus /\ t.items = s.items
      /\ t.paths = s.paths /\ t.store = s.store
      /\ t.superseded = s.superseded /\ t.deferred = s.deferred
      /\ t.applications = s.applications /\ t.undefined = s.undefined
      /\ t.pending = NoFiles /\ t.bytes = 0
  BY DEF Kept, Sound, Fields, FieldNames
<1> HIDE DEF t
<1>2. Waiting(t, c)
  BY <1>1, NothingWaits
<1> QED
  BY <1>1, <1>2 DEF Kept, Sound, ItemsListed, RemovalsDue, Stored, Spoiled, Told, t

LEMMA NoStateSound ==
  ASSUME NEW c \in DOMAIN Carousels
  PROVE  Kept(NoState, 0, 0, c)
<1>1. /\ Fields(NoState)
      /\ NoState.nodes = NoFiles /\ NoState.mpus = NoFiles /\ NoState.items = NoFiles
      /\ NoState.paths = NoFiles /\ NoState.store = NoFiles
      /\ NoState.superseded = NoFiles /\ NoState.deferred = NoFiles
      /\ NoState.applications = NoFiles /\ NoState.undefined = Absent
      /\ NoState.pending = NoFiles /\ NoState.bytes = 0
  BY DEF NoState, Fields, FieldNames
<1>2. Waiting(NoState, c)
  BY <1>1, NothingWaits
<1>3. IsFiniteSet({}) /\ Cardinality({}) = 0
  BY FS_EmptySet
<1>4. ItemsListed(NoState, 0, c)
  BY <1>1, <1>3, NoFilesFacts, CarouselsAssumption DEF ItemsListed
<1>5. RemovalsDue(NoState, 0, c) /\ Stored(NoState, c) /\ Told(NoState) /\ Spoiled(NoState, c)
  BY <1>1, NoFilesFacts DEF RemovalsDue, Stored, Told, Spoiled
<1> QED
  BY <1>1, <1>2, <1>4, <1>5 DEF Kept, Sound, NodesAt, MpusAt, Catalogued

(* What was sent by now was sent by the next carousel.                     *)
LEMMA SentLater ==
  ASSUME NEW c \in Nat, NEW f, NEW p, SentAs(f, p, c)
  PROVE  SentAs(f, p, c + 1)
<1>1. PICK m \in 1 .. c :
        /\ f.key[1] \in DOMAIN Mpus(m)
        /\ f.signature.transaction = Mpus(m)[f.key[1]].transaction
        /\ f.signature.download = Mpus(m)[f.key[1]].download
        /\ \E b \in 1 .. c : \E u \in Carousels[b].units :
             KeyOf(u) = f.key /\ u.content = f.content /\ u.download = f.signature.download
        /\ \E o \in 1 .. m : ListedAs(f.key, p, f.signature.version, o, c)
  BY DEF SentAs
<1>2. 1 .. c \subseteq 1 .. (c + 1)
  OBVIOUS
<1>3. \E o \in 1 .. m : ListedAs(f.key, p, f.signature.version, o, c + 1)
  BY <1>1, ListedLater
<1>4. \E b \in 1 .. (c + 1) : \E u \in Carousels[b].units :
        KeyOf(u) = f.key /\ u.content = f.content /\ u.download = f.signature.download
  BY <1>1, <1>2
<1>5. m \in 1 .. (c + 1)
  BY <1>2
<1> QED
  BY <1>1, <1>3, <1>4, <1>5 DEF SentAs

LEMMA LaterKeeps ==
  ASSUME NEW c \in DOMAIN Carousels, c + 1 \in DOMAIN Carousels, NEW n \in 0 .. c, NEW m \in 0 .. c,
         NEW s, Kept(s, n, m, c)
  PROVE  Kept(s, n, m, c + 1)
<1>1. c \in Nat /\ c + 1 \in Nat /\ c <= c + 1 /\ 1 .. c \subseteq 1 .. (c + 1) /\ m \in Nat
  BY CarouselsAssumption
<1>2. Waiting(s, c + 1)
  BY <1>1 DEF Kept, Sound, Waiting
<1>3. Stored(s, c + 1)
  BY <1>1, SentLater DEF Kept, Sound, Stored
<1>4. \A o \in 1 .. m : \A d : Dropped(d, o, c) => Dropped(d, o, c + 1)
  BY <1>1, DroppedLater
<1>5. \A d : Dropped(d, m, c) => Dropped(d, m, c + 1)
  BY <1>1, DroppedLater
<1>6. RemovalsDue(s, m, c + 1)
  BY <1>5 DEF Kept, Sound, RemovalsDue
<1>7. \A o \in 1 .. m : \A d, path, version :
        ListedAs(d, path, version, o, c) => ListedAs(d, path, version, o, c + 1)
  BY <1>1, ListedLater
<1>8. ItemsListed(s, m, c + 1)
  <2>1. ASSUME NEW k \in DOMAIN s.items
        PROVE  \E o \in 1 .. m :
                 /\ ListedAs(k, s.items[k].path, s.items[k].version, o, c + 1)
                 /\ \A d \in At(s.deferred, k[1]) : Dropped(d, o, c + 1)
    <3>1. PICK o \in 1 .. m :
                 /\ ListedAs(k, s.items[k].path, s.items[k].version, o, c)
                 /\ \A d \in At(s.deferred, k[1]) : Dropped(d, o, c)
      BY DEF Kept, Sound, ItemsListed
    <3> QED
      BY <1>4, <1>7, <3>1
  <2> QED
    BY <2>1 DEF Kept, Sound, ItemsListed
<1>9. Spoiled(s, c + 1)
  BY <1>1, ReturnsLater DEF Kept, Sound, Spoiled
<1> QED
  BY <1>2, <1>3, <1>6, <1>8, <1>9 DEF Kept, Sound
-----------------------------------------------------------------------------
(* The successor of an MPU is in the new catalogue.                        *)
LEMMA LeastNumber ==
  ASSUME NEW S, S \subseteq Nat, S # {}
  PROVE  \E x \in S : \A y \in S : x <= y
<1>1. PICK x \in S : \A y \in S : ~ (<< y, x >> \in OpToRel(<, Nat))
  <2>1. IsWellFoundedOn(OpToRel(<, Nat), Nat)
    BY NatLessThanWellFounded
  <2> QED
    BY <2>1, WFMin
<1>2. ASSUME NEW y \in S PROVE x <= y
  <2>1. x \in Nat /\ y \in Nat
    OBVIOUS
  <2>2. ASSUME y < x PROVE FALSE
    <3>1. << y, x >> \in OpToRel(<, Nat)
      BY <2>1, <2>2 DEF OpToRel
    <3> QED
      BY <1>1, <3>1
  <2> QED
    BY <2>1, <2>2
<1> QED
  BY <1>2

LEMMA FirstFacts ==
  ASSUME NEW keys, keys # {}, \A k \in keys : k[2] \in Nat
  PROVE  First(keys) \in keys
<1> DEFINE S == {k[2] : k \in keys}
<1>1. S \subseteq Nat /\ S # {}
  OBVIOUS
<1>2. PICK x \in S : \A y \in S : x <= y
  <2> HIDE DEF S
  <2> QED
    BY <1>1, LeastNumber
<1>3. PICK k \in keys : x = k[2]
  OBVIOUS
<1>4. \A other \in keys : k[2] <= other[2]
  BY <1>2, <1>3
<1> QED
  BY <1>4 DEF First

(* commit_catalogue takes the state to the new catalogue's carousels.      *)
LEMMA CommitKeeps ==
  ASSUME NEW c \in DOMAIN Carousels, NEW n \in 0 .. c, NEW m \in 0 .. c,
         NEW o \in 1 .. c, NEW later \in 1 .. c, m <= later, Catalogued(o, later),
         NEW s, Sound(s, n, m, c)
  PROVE  LET t == CommitCatalogue(s, NodesAt(o), MpusAt(later))
         IN  Kept(t, o, later, c)
<1> DEFINE nodes == NodesAt(o)
           mpus == MpusAt(later)
           gone == DOMAIN s.mpus \ DOMAIN mpus
           kept == {mpu \in gone : Successors(mpu, mpus) # {}}
           successor == [mpu \in kept |-> First(Successors(mpu, mpus))]
           superseded == [mpu \in DOMAIN s.superseded \cup Range(successor) |->
             At(s.superseded, mpu) \cup {old \in kept : successor[old] = mpu}]
           erased == EraseItems(s, ItemsOf(s, gone \ kept))
           placed == [erased EXCEPT !.superseded = superseded, !.nodes = nodes, !.mpus = mpus]
<1>1. CommitCatalogue(s, nodes, mpus) = UpdateApplications(placed)
  BY Zenon DEF CommitCatalogue
<1>2. /\ later \in DOMAIN Carousels /\ mpus = Mpus(later) /\ m \in Nat /\ later \in Nat
      /\ c \in Nat /\ c <= c
  BY CarouselsAssumption DEF MpusAt
<1>3. Sound(erased, n, m, c)
  BY EraseKeeps
<1>4. erased.superseded = s.superseded
  BY DEF Sound, Fields, FieldNames, EraseItems, Hide
<1> HIDE DEF erased
<1>5. \A mpu \in DOMAIN superseded : mpu \notin superseded[mpu]
  <2> SUFFICES ASSUME NEW mpu \in DOMAIN superseded, mpu \in superseded[mpu]
               PROVE  FALSE
    OBVIOUS
  <2>1. superseded[mpu] = At(s.superseded, mpu) \cup {old \in kept : successor[old] = mpu}
    OBVIOUS
  <2>2. mpu \notin At(s.superseded, mpu)
    BY DEF Sound, RemovalsDue, At
  <2>3. mpu \in kept /\ successor[mpu] = mpu
    <3> HIDE DEF superseded, successor, kept
    <3> QED
      BY <2>1, <2>2
  <2>4. Successors(mpu, mpus) # {} /\ First(Successors(mpu, mpus)) = mpu
        /\ mpu \notin DOMAIN mpus
    BY <2>3
  <2>5. \A k \in Successors(mpu, mpus) : k \in DOMAIN mpus /\ k[2] \in Nat
    BY <1>2, SequencesAssumption DEF Successors
  <2> HIDE DEF mpus
  <2> QED
    BY <2>4, <2>5, FirstFacts
<1> HIDE DEF superseded, nodes, mpus
<1>6. /\ Fields(placed)
      /\ placed.nodes = nodes /\ placed.mpus = mpus /\ placed.items = erased.items
      /\ placed.pending = erased.pending /\ placed.bytes = erased.bytes
      /\ placed.paths = erased.paths /\ placed.store = erased.store
      /\ placed.superseded = superseded /\ placed.deferred = erased.deferred
      /\ placed.undefined = erased.undefined
  BY <1>3 DEF Sound, Fields, FieldNames
<1> HIDE DEF placed
<1>7. \A d : Dropped(d, m, c) => Dropped(d, later, c)
  BY <1>2, DroppedLater
<1>8. RemovalsDue(placed, later, c)
  BY <1>3, <1>5, <1>6, <1>7 DEF Sound, RemovalsDue
<1>9. ItemsListed(placed, later, c)
  <2>1. 1 .. m \subseteq 1 .. later
    BY <1>2
  <2> QED
    BY <1>3, <1>6, <2>1 DEF Sound, ItemsListed
<1>10. Sound(placed, o, later, c)
  BY <1>3, <1>6, <1>8, <1>9 DEF Sound, Waiting, Stored, Spoiled, nodes, mpus
<1>11. Sound(UpdateApplications(placed), o, later, c) /\ Told(UpdateApplications(placed))
  BY <1>10, UpdateKeeps
<1> QED
  BY <1>1, <1>11 DEF Kept, nodes, mpus
-----------------------------------------------------------------------------
(* A section joins the ones of its version, or starts afresh.              *)
LEMMA AddKeeps ==
  ASSUME NEW c \in DOMAIN Carousels, NEW a \in 1 .. c, NEW kind \in Kinds, NEW set,
         NEW table \in Sent(c, kind), NEW id, Id(table) = id, Collected(set, kind, id, a, c)
  PROVE  Collected(AddSection(set, table), kind, id, a, c)
<1> DEFINE same == set.version = table.version /\ set.last = table.last
           held == IF same THEN set.sections ELSE [number \in 0 .. table.last |-> Absent]
           new == AddSection(set, table)
           Good(x, number) ==
             \/ x = Absent
             \/ \E m \in a .. c :
                  /\ x \in Sent(m, kind) /\ Id(x) = id /\ x.version = table.version
                  /\ x.last = table.last /\ x.number = number
<1>1. table.last \in Nat /\ table.version # Absent /\ table.number \in 0 .. table.last
  <2>1. table.last \in Nat
    BY TablesAssumption
  <2>2. table.version # Absent
    BY TablesAssumption DEF Kinds
  <2>3. {u.number : u \in Sent(c, kind)} = 0 .. table.last
    BY TablesAssumption
  <2> QED
    BY <2>1, <2>2, <2>3
<1>2. /\ held = [number \in 0 .. table.last |-> held[number]]
      /\ \A number \in 0 .. table.last : Good(held[number], number)
  <2>1. CASE same
    <3>1. set # NoSections
      BY <1>1, <2>1 DEF NoSections
    <3> QED
      BY <2>1, <3>1 DEF Collected
  <2>2. CASE ~same
    BY <2>2
  <2> QED
    BY <2>1, <2>2
<1>3. c \in a .. c
  BY CarouselsAssumption
<1>4. Good(table, table.number)
  BY <1>3
<1> DEFINE sections == [held EXCEPT ![table.number] = table]
<1>5. new = [version |-> table.version, last |-> table.last, sections |-> sections]
  <2>1. ~(table.number > table.last)
    BY <1>1
  <2> QED
    BY <2>1, Zenon DEF AddSection
<1> HIDE DEF held, Good
<1>6. /\ sections = [number \in 0 .. table.last |-> sections[number]]
      /\ \A number \in 0 .. table.last : Good(sections[number], number)
  BY <1>1, <1>2, <1>4
<1> HIDE DEF sections
<1>7. new.version = table.version /\ new.last = table.last /\ new.sections = sections
  BY <1>5
<1> HIDE DEF new
<1>8. Collected(new, kind, id, a, c)
  BY <1>1, <1>6, <1>7 DEF Collected, Good
<1> QED
  BY <1>8 DEF new

LEMMA AddComplete ==
  ASSUME NEW c \in DOMAIN Carousels, NEW a \in 1 .. c, NEW kind \in Kinds, NEW set, NEW id,
         Collected(set, kind, id, a, c), Complete(set)
  PROVE  \E m \in a .. c : TableOf(set, kind, id, m)
<1>1. /\ set.version # Absent /\ set.last \in Nat
      /\ set.sections = [number \in 0 .. set.last |-> set.sections[number]]
      /\ \A number \in 0 .. set.last : set.sections[number] # Absent
      /\ \A number \in 0 .. set.last : \E m \in a .. c :
           /\ set.sections[number] \in Sent(m, kind)
           /\ Id(set.sections[number]) = id
           /\ set.sections[number].version = set.version
           /\ set.sections[number].last = set.last
           /\ set.sections[number].number = number
  <2>1. set # NoSections
    BY DEF Complete, NoSections
  <2>2. /\ set.version # Absent /\ set.last \in Nat
        /\ set.sections = [number \in 0 .. set.last |-> set.sections[number]]
    BY <2>1 DEF Collected
  <2>3. \A number \in 0 .. set.last : set.sections[number] # Absent
    BY <2>2 DEF Complete, Range
  <2> QED
    BY <2>1, <2>2, <2>3 DEF Collected
<1>2. 0 \in 0 .. set.last
  BY <1>1
<1> DEFINE t == set.sections[0]
<1>3. PICK m \in a .. c : t \in Sent(m, kind) /\ Id(t) = id /\ t.version = set.version
                          /\ t.last = set.last
  BY <1>1, <1>2
<1>4. m \in DOMAIN Carousels /\ a .. c \subseteq DOMAIN Carousels
  BY CarouselsAssumption
<1>5. ASSUME NEW number \in 0 .. set.last
      PROVE  set.sections[number] \in Sent(m, kind) /\ set.sections[number].number = number
  <2> DEFINE u == set.sections[number]
  <2>1. PICK k \in a .. c : u \in Sent(k, kind) /\ Id(u) = id /\ u.version = set.version
                            /\ u.number = number
    BY <1>1
  <2> HIDE DEF u, t
  <2>2. k \in DOMAIN Carousels
    BY <1>4
  <2>3. Sent(k, kind) = Sent(m, kind)
    BY <1>3, <1>4, <2>1, <2>2, VersionsAssumption
  <2>4. u \in Sent(m, kind) /\ u.number = number
    BY <2>1, <2>3
  <2> QED
    BY <2>4 DEF u
<1>6. {u.number : u \in Sent(m, kind)} = 0 .. set.last
  <2> HIDE DEF t
  <2> QED
    BY <1>3, <1>4, TablesAssumption
<1>7. \A u, v \in Sent(m, kind) : u.number = v.number => u = v
  BY <1>4, TablesAssumption
<1> DEFINE sections == SectionsOf(Carousels[m], kind)
<1>8. sections = [number \in {u.number : u \in Sent(m, kind)} |->
                    CHOOSE u \in Sent(m, kind) : u.number = number]
  BY DEF SectionsOf, Sent
<1>9. \A number \in 0 .. set.last :
        (CHOOSE u \in Sent(m, kind) : u.number = number) = set.sections[number]
  <2> SUFFICES ASSUME NEW number \in 0 .. set.last
               PROVE (CHOOSE u \in Sent(m, kind) : u.number = number) = set.sections[number]
    OBVIOUS
  <2> DEFINE u == CHOOSE v \in Sent(m, kind) : v.number = number
  <2>1. u \in Sent(m, kind) /\ u.number = number
    BY <1>5
  <2> HIDE DEF u
  <2>2. u = set.sections[number]
    BY <1>5, <1>7, <2>1
  <2> QED
    BY <2>2 DEF u
<1>10. sections = [number \in 0 .. set.last |-> set.sections[number]]
  BY <1>6, <1>8, <1>9
<1>11. \A u \in Sent(m, kind) : Id(u) = id
  <2>1. kind = "ddmt" \/ kind = "damt"
    BY DEF Kinds
  <2>2. \A u, v \in Sent(m, "ddmt") \cup Sent(m, "damt") : Id(u) = Id(v)
    BY <1>4, TablesAssumption
  <2> QED
    BY <1>3, <2>1, <2>2
<1>12. TableOf(set, kind, id, m)
  BY <1>1, <1>10, <1>11 DEF TableOf
<1> QED
  BY <1>12
-----------------------------------------------------------------------------
(* The collecting section's candidate is collected as well.                *)
Since(h) == IF h = 0 THEN 1 ELSE h

LEMMA CandidateCollected ==
  ASSUME NEW h \in 0 .. carousel, carousel \in DOMAIN Carousels, CandidatesFrom(h),
         NEW table \in OnAir.tables, ~table.next
  PROVE  /\ DOMAIN Candidate(table) = Kinds
         /\ \A kind \in Kinds :
              Collected(Candidate(table)[kind], kind, Id(table), Since(h), carousel)
<1> DEFINE id == Id(table)
           none == [ddmt |-> NoSections, damt |-> NoSections]
           held == IF id \in DOMAIN candidates THEN candidates[id] ELSE none
           new == AddSection(held[table.kind], table)
           a == Since(h)
<1>1. table.kind \in Kinds /\ table \in Sent(carousel, table.kind)
  BY TablesAssumption DEF OnAir, Sent
<1>2. a \in 1 .. carousel
  BY CarouselsAssumption DEF Since
<1>3. /\ DOMAIN held = Kinds
      /\ \A kind \in Kinds : Collected(held[kind], kind, id, a, carousel)
  <2>1. CASE id \in DOMAIN candidates
    BY <2>1 DEF CandidatesFrom, Since
  <2>2. CASE id \notin DOMAIN candidates
    <3>1. held = none
      BY <2>2
    <3>2. DOMAIN none = Kinds /\ none["ddmt"] = NoSections /\ none["damt"] = NoSections
      BY DEF Kinds
    <3>3. \A kind \in Kinds : none[kind] = NoSections
      BY <3>2 DEF Kinds
    <3> HIDE DEF none
    <3> QED
      BY <3>1, <3>2, <3>3 DEF Collected
  <2> QED
    BY <2>1, <2>2
<1>4. Candidate(table) = [held EXCEPT ![table.kind] = new]
  BY DEF Candidate
<1> HIDE DEF held, a
<1>5. Collected(new, table.kind, id, a, carousel)
  BY <1>1, <1>2, <1>3, AddKeeps
<1> HIDE DEF new
<1>6. /\ DOMAIN Candidate(table) = Kinds
      /\ \A kind \in Kinds :
           Candidate(table)[kind] = IF kind = table.kind THEN new ELSE held[kind]
  BY <1>1, <1>3, <1>4
<1> QED
  BY <1>3, <1>5, <1>6 DEF a

(* The two tables a catalogue is committed from are each of a carousel no  *)
(* earlier than the active catalogue's, and of the section's session.      *)
LEMMA CommitFrom ==
  ASSUME carousel \in DOMAIN Carousels, NEW h \in 0 .. carousel,
         NEW n \in 0 .. h, NEW m \in 0 .. h, ActiveAt(n, m),
         NEW candidate, NEW id,
         \A kind \in Kinds : Collected(candidate[kind], kind, id, Since(h), carousel),
         Commits(id, candidate)
  PROVE  /\ \E o \in 1 .. carousel :
              n <= o /\ TableOf(Chosen(id, candidate, "ddmt"), "ddmt", id, o)
         /\ \E o \in 1 .. carousel :
              m <= o /\ TableOf(Chosen(id, candidate, "damt"), "damt", id, o)
<1>1. /\ Since(h) \in 1 .. carousel /\ h <= Since(h) /\ carousel \in Nat
      /\ n <= Since(h) /\ m <= Since(h)
  BY CarouselsAssumption DEF Since
<1>2. ASSUME NEW kind \in Kinds, Complete(candidate[kind])
      PROVE  \E o \in Since(h) .. carousel : TableOf(Chosen(id, candidate, kind), kind, id, o)
  <2>1. Chosen(id, candidate, kind) = candidate[kind]
    BY <1>2 DEF Chosen
  <2> QED
    BY <1>1, <1>2, <2>1, AddComplete
<1>3. ASSUME NEW kind \in Kinds, ~Complete(candidate[kind])
      PROVE  IsActive(id) /\ Chosen(id, candidate, kind) = active[kind]
  <2>1. Complete(Chosen(id, candidate, kind))
    BY DEF Commits, Kinds
  <2>2. ~Complete(NoSections)
    BY DEF Complete, NoSections
  <2> QED
    BY <1>3, <2>1, <2>2 DEF Chosen
<1>4. ASSUME IsActive(id)
      PROVE  /\ n \in 1 .. carousel /\ m \in 1 .. carousel
             /\ TableOf(active.ddmt, "ddmt", id, n) /\ TableOf(active.damt, "damt", id, m)
  <2>1. m # 0
    BY <1>4 DEF IsActive, ActiveAt
  <2> QED
    BY <1>1, <1>4, <2>1 DEF IsActive, ActiveAt
<1>5. "ddmt" \in Kinds /\ "damt" \in Kinds
  BY DEF Kinds
<1>6. \E o \in 1 .. carousel : n <= o /\ TableOf(Chosen(id, candidate, "ddmt"), "ddmt", id, o)
  <2>1. CASE Complete(candidate["ddmt"])
    <3>1. PICK o \in Since(h) .. carousel : TableOf(Chosen(id, candidate, "ddmt"), "ddmt", id, o)
      BY <1>2, <1>5, <2>1
    <3>2. o \in 1 .. carousel /\ n <= o
      BY <1>1
    <3> QED
      BY <3>1, <3>2
  <2>2. CASE ~Complete(candidate["ddmt"])
    <3>1. Chosen(id, candidate, "ddmt") = active.ddmt /\ IsActive(id)
      BY <1>3, <1>5, <2>2
    <3>2. n <= n
      BY <1>1
    <3> QED
      BY <1>4, <3>1, <3>2
  <2> QED
    BY <2>1, <2>2
<1>7. \E o \in 1 .. carousel : m <= o /\ TableOf(Chosen(id, candidate, "damt"), "damt", id, o)
  <2>1. CASE Complete(candidate["damt"])
    <3>1. PICK o \in Since(h) .. carousel : TableOf(Chosen(id, candidate, "damt"), "damt", id, o)
      BY <1>2, <1>5, <2>1
    <3>2. o \in 1 .. carousel /\ m <= o
      BY <1>1
    <3> QED
      BY <3>1, <3>2
  <2>2. CASE ~Complete(candidate["damt"])
    <3>1. Chosen(id, candidate, "damt") = active.damt /\ IsActive(id)
      BY <1>3, <1>5, <2>2
    <3>2. m <= m
      BY <1>1
    <3> QED
      BY <1>4, <3>1, <3>2
  <2> QED
    BY <2>1, <2>2
<1> QED
  BY <1>6, <1>7

(* A step of the assembler keeps the invariant.                            *)
LEMMA CollectStep ==
  ASSUME OnTheAir, NEW h \in 0 .. carousel, NEW n \in 0 .. h, NEW m \in 0 .. h, InvAt(n, m, h),
         NEW table \in OnAir.tables, ~table.next,
         Collect(table), UNCHANGED << carousel, interruptions >>
  PROVE  \E later \in 0 .. carousel : \E o, q \in 0 .. later : InvAt(o, q, later)'
<1> DEFINE id == Id(table)
           candidate == Candidate(table)
           ddmt == Chosen(id, candidate, "ddmt")
           damt == Chosen(id, candidate, "damt")
<1>1. /\ carousel \in DOMAIN Carousels /\ carousel \in Nat
      /\ n \in 0 .. carousel /\ m \in 0 .. carousel
  BY CarouselsAssumption DEF OnTheAir
<1>2. /\ DOMAIN candidate = Kinds
      /\ \A kind \in Kinds : Collected(candidate[kind], kind, id, Since(h), carousel)
  BY <1>1, CandidateCollected DEF InvAt
<1>3. CASE Commits(id, candidate)
  <2>1. /\ active' = [source |-> id[1], session |-> id[2], ddmt |-> ddmt, damt |-> damt]
        /\ files' = Retry(CommitCatalogue(files, NodesOf(ddmt.sections), MpusOf(damt.sections)))
        /\ candidates' = NoFiles
    BY <1>3, Zenon DEF Collect
  <2>2. /\ \E o \in 1 .. carousel : n <= o /\ TableOf(ddmt, "ddmt", id, o)
        /\ \E o \in 1 .. carousel : m <= o /\ TableOf(damt, "damt", id, o)
    BY <1>1, <1>2, <1>3, CommitFrom DEF InvAt
  <2>3. PICK o \in 1 .. carousel : n <= o /\ TableOf(ddmt, "ddmt", id, o)
    BY <2>2
  <2>4. PICK q \in 1 .. carousel : m <= q /\ TableOf(damt, "damt", id, q)
    BY <2>2
  <2>5. o # 0 /\ q # 0 /\ o \in 0 .. carousel /\ q \in 0 .. carousel
    BY <1>1
  <2>6. NodesOf(ddmt.sections) = NodesAt(o) /\ MpusOf(damt.sections) = MpusAt(q)
    BY <2>3, <2>4, <2>5 DEF TableOf, NodesAt, MpusAt, Mpus
  <2>7. ValidCatalogue(ddmt.sections, damt.sections)
    BY <1>3 DEF Commits
  <2>8. << id[1], id[2] >> = id
    BY DEF Id
  <2> HIDE DEF id, candidate, ddmt, damt
  <2>9. /\ active'.source = id[1] /\ active'.session = id[2]
        /\ active'.ddmt = ddmt /\ active'.damt = damt
    BY <2>1
  <2>10. ActiveAt(o, q)'
    BY <2>3, <2>4, <2>5, <2>7, <2>8, <2>9 DEF ActiveAt
  <2>11. Catalogued(o, q)
    BY <2>3, <2>4, <2>5, <2>7 DEF Catalogued, TableOf
  <2>12. Kept(CommitCatalogue(files, NodesAt(o), MpusAt(q)), o, q, carousel)
    BY <1>1, <2>3, <2>4, <2>11, CommitKeeps DEF InvAt, Kept
  <2>13. Kept(files', o, q, carousel)
    BY <1>1, <2>1, <2>5, <2>6, <2>12, RetryKeeps
  <2>14. CandidatesFrom(carousel)'
    BY <2>1, NoFilesFacts DEF CandidatesFrom
  <2>15. InvAt(o, q, carousel)'
    BY <2>5, <2>10, <2>13, <2>14 DEF InvAt
  <2> QED
    BY <1>1, <2>5, <2>15
<1>4. CASE ~Commits(id, candidate)
  <2>1. /\ candidates' = With(candidates, id, candidate)
        /\ UNCHANGED << active, files >>
    BY <1>4, Zenon DEF Collect
  <2>2. /\ DOMAIN candidates' = DOMAIN candidates \cup {id} /\ candidates'[id] = candidate
        /\ \A other \in DOMAIN candidates \ {id} : candidates'[other] = candidates[other]
    <3> HIDE DEF id, candidate
    <3> QED
      BY <2>1 DEF With, Over
  <2> HIDE DEF id, candidate
  <2>3. CandidatesFrom(h)'
    BY <1>2, <2>2 DEF InvAt, CandidatesFrom, Since
  <2>4. ActiveAt(n, m)'
    BY <2>1 DEF InvAt, ActiveAt
  <2>5. Kept(files', n, m, carousel)
    BY <2>1 DEF InvAt
  <2>6. InvAt(n, m, h)'
    BY <2>3, <2>4, <2>5 DEF InvAt
  <2> QED
    BY <2>6
<1> QED
  BY <1>3, <1>4

LEMMA CandidatesLater ==
  ASSUME carousel + 1 \in DOMAIN Carousels, OnTheAir, NEW h \in 0 .. carousel, CandidatesFrom(h),
         carousel' = carousel + 1, UNCHANGED candidates
  PROVE  CandidatesFrom(h)'
<1>1. Since(h) .. carousel \subseteq Since(h) .. (carousel + 1)
  BY CarouselsAssumption DEF Since, OnTheAir
<1>2. \A set, kind, id : Collected(set, kind, id, Since(h), carousel)
                           => Collected(set, kind, id, Since(h), carousel + 1)
  BY <1>1 DEF Collected
<1> QED
  BY <1>2 DEF CandidatesFrom, Since

LEMMA AssemblerInvInit == AssemblerInit => AssemblerInv
<1> SUFFICES ASSUME AssemblerInit PROVE AssemblerInv
  OBVIOUS
<1>1. carousel \in DOMAIN Carousels /\ 0 \in 0 .. carousel /\ 0 \in 0 .. 0 /\ OnTheAir
  BY CarouselsAssumption DEF AssemblerInit, OnTheAir
<1>2. Kept(files, 0, 0, carousel)
  BY <1>1, NoStateSound DEF AssemblerInit
<1>3. ActiveAt(0, 0) /\ CandidatesFrom(0)
  BY NoFilesFacts DEF AssemblerInit, ActiveAt, CandidatesFrom
<1>4. InvAt(0, 0, 0)
  BY <1>1, <1>2, <1>3 DEF InvAt
<1> QED
  BY <1>1, <1>4 DEF AssemblerInv

LEMMA AssemblerInvStep == AssemblerInv /\ [AssemblerNext]_assemblerVars => AssemblerInv'
<1> SUFFICES ASSUME AssemblerInv, [AssemblerNext]_assemblerVars PROVE AssemblerInv'
  OBVIOUS
<1>1. PICK h \in 0 .. carousel : \E x, y \in 0 .. h : InvAt(x, y, h)
  BY DEF AssemblerInv
<1>2. PICK n \in 0 .. h, m \in 0 .. h : InvAt(n, m, h)
  BY <1>1
<1>3. /\ OnTheAir /\ carousel \in DOMAIN Carousels /\ carousel \in Nat
      /\ n \in 0 .. carousel /\ m \in 0 .. carousel
  BY CarouselsAssumption DEF AssemblerInv, OnTheAir
<1>4. Kept(files, n, m, carousel)
  BY <1>2 DEF InvAt
<1>5. ASSUME UNCHANGED << active, candidates, carousel, interruptions >>,
             Kept(files', n, m, carousel)
      PROVE  AssemblerInv'
  <2>1. InvAt(n, m, h)'
    BY <1>2, <1>5 DEF InvAt, ActiveAt, CandidatesFrom
  <2>2. OnTheAir'
    BY <1>3, <1>5 DEF OnTheAir
  <2> QED
    BY <1>5, <2>1, <2>2 DEF AssemblerInv
<1>6. CASE UNCHANGED assemblerVars
  <2>1. UNCHANGED << files, active, candidates, carousel, interruptions >>
    BY <1>6 DEF assemblerVars
  <2> QED
    BY <1>4, <1>5, <2>1
<1>7. ASSUME NEW table \in OnAir.tables, TableArrives(table)
      PROVE  AssemblerInv'
  <2>1. UNCHANGED << carousel, interruptions >>
    BY <1>7 DEF TableArrives
  <2>2. \/ UNCHANGED << files, active, candidates >>
        \/ ~table.next /\ Collect(table)
    BY <1>7 DEF TableArrives, assembler
  <2>3. CASE UNCHANGED << files, active, candidates >>
    BY <1>4, <1>5, <2>1, <2>3
  <2>4. CASE ~table.next /\ Collect(table)
    <3>1. \E later \in 0 .. carousel : \E o, q \in 0 .. later : InvAt(o, q, later)'
      BY <1>2, <1>3, <1>7, <2>1, <2>4, CollectStep
    <3>2. OnTheAir'
      BY <1>3, <2>1 DEF OnTheAir
    <3> QED
      BY <2>1, <3>1, <3>2 DEF AssemblerInv
  <2> QED
    BY <2>2, <2>3, <2>4
<1>8. ASSUME NEW unit \in OnAir.units, UnitArrives(unit)
      PROVE  AssemblerInv'
  <2>1. files' = Unit(files, unit) /\ UNCHANGED << active, candidates, carousel, interruptions >>
    BY <1>8 DEF UnitArrives
  <2>2. Kept(files', n, m, carousel)
    BY <1>3, <1>4, <1>8, <2>1, UnitKeeps DEF OnAir
  <2> QED
    BY <1>5, <2>1, <2>2
<1>9. ASSUME NEW app \in OnAir.applications, ApplicationArrives(app)
      PROVE  AssemblerInv'
  <2>1. files' = Application(files, app)
        /\ UNCHANGED << active, candidates, carousel, interruptions >>
    BY <1>9 DEF ApplicationArrives
  <2>2. Kept(files', n, m, carousel)
    BY <1>4, <2>1, ApplicationKeeps
  <2> QED
    BY <1>5, <2>1, <2>2
<1>10. CASE Reposition
  <2>1. /\ files' = [files EXCEPT !.pending = NoFiles, !.bytes = 0]
        /\ candidates' = NoFiles /\ UNCHANGED << active, carousel >>
        /\ interruptions < MaxInterruptions /\ interruptions' = interruptions + 1
    BY <1>10 DEF Reposition
  <2>2. Kept(files', n, m, carousel)
    BY <1>3, <1>4, <2>1, RepositionKeeps
  <2>3. InvAt(n, m, h)'
    BY <1>2, <2>1, <2>2, NoFilesFacts DEF InvAt, ActiveAt, CandidatesFrom
  <2>4. OnTheAir'
    BY <1>3, <2>1, CarouselsAssumption DEF OnTheAir
  <2> QED
    BY <2>1, <2>3, <2>4 DEF AssemblerInv
<1>11. CASE Reset
  <2>1. /\ files' = NoState /\ active' = Absent /\ candidates' = NoFiles
        /\ UNCHANGED carousel
        /\ interruptions < MaxInterruptions /\ interruptions' = interruptions + 1
    BY <1>11 DEF Reset
  <2>2. Kept(files', 0, 0, carousel)
    BY <1>3, <2>1, NoStateSound
  <2>3. InvAt(0, 0, 0)'
    BY <2>1, <2>2, NoFilesFacts DEF InvAt, ActiveAt, CandidatesFrom
  <2>4. OnTheAir'
    BY <1>3, <2>1, CarouselsAssumption DEF OnTheAir
  <2>5. 0 \in 0 .. carousel /\ 0 \in 0 .. 0
    BY <1>3
  <2> QED
    BY <2>1, <2>3, <2>4, <2>5 DEF AssemblerInv
<1>12. CASE NextCarousel
  <2>1. /\ carousel' = carousel + 1 /\ carousel < Len(Carousels)
        /\ UNCHANGED << files, active, candidates, interruptions >>
    BY <1>12 DEF NextCarousel
  <2>2. carousel + 1 \in DOMAIN Carousels
    BY <1>3, <2>1, CarouselsAssumption
  <2>3. Kept(files', n, m, carousel')
    BY <1>3, <1>4, <2>1, <2>2, LaterKeeps
  <2>4. CandidatesFrom(h)'
    BY <1>2, <1>3, <2>1, <2>2, CandidatesLater DEF InvAt
  <2>5. ActiveAt(n, m)'
    BY <1>2, <2>1 DEF InvAt, ActiveAt
  <2>6. OnTheAir' /\ h \in 0 .. carousel'
    BY <1>3, <2>1, <2>2 DEF OnTheAir
  <2>7. InvAt(n, m, h)'
    BY <1>2, <2>3, <2>4, <2>5 DEF InvAt
  <2> QED
    BY <2>6, <2>7 DEF AssemblerInv
<1> QED
  BY <1>6, <1>7, <1>8, <1>9, <1>10, <1>11, <1>12 DEF AssemblerNext

(* The assembler keeps its invariant, whatever changes from carousel to    *)
(* carousel and whatever the limits.                                       *)
THEOREM AssemblerInvariant == AssemblerSpec => []AssemblerInv
BY AssemblerInvInit, AssemblerInvStep, PTL DEF AssemblerSpec

(* AssemblerTypeOK: as long as the behaviour is defined, pending_bytes_ is *)
(* the sum of the pending units' sizes, and no limit is passed, whichever  *)
(* way units come, wait and leave.                                         *)
THEOREM PendingCounted == AssemblerSpec => []AssemblerTypeOK
<1>1. AssemblerInv => AssemblerTypeOK
  <2> SUFFICES ASSUME AssemblerInv PROVE AssemblerTypeOK
    OBVIOUS
  <2>1. PICK h \in 0 .. carousel : \E x, y \in 0 .. h : InvAt(x, y, h)
    BY DEF AssemblerInv
  <2>2. PICK n \in 0 .. h, m \in 0 .. h : InvAt(n, m, h)
    BY <2>1
  <2>3. active # Absent => Complete(active.ddmt) /\ Complete(active.damt)
    BY <2>2 DEF InvAt, ActiveAt, TableOf
  <2> QED
    BY <2>2, <2>3 DEF AssemblerInv, OnTheAir, AssemblerTypeOK, InvAt, Kept, Sound, Waiting, ItemsListed
<1> QED
  BY <1>1, AssemblerInvariant, PTL

(* CatalogueWhole: the active catalogue is one directory table and one     *)
(* management table as they were broadcast, of the session it names.       *)
THEOREM CatalogueIsWhole == AssemblerSpec => []CatalogueWhole
<1>1. AssemblerInv => CatalogueWhole
  <2> SUFFICES ASSUME AssemblerInv, active # Absent PROVE CatalogueWhole
    BY DEF CatalogueWhole
  <2>1. PICK h \in 0 .. carousel : \E x, y \in 0 .. h : InvAt(x, y, h)
    BY DEF AssemblerInv
  <2>2. PICK n \in 0 .. h, m \in 0 .. h : InvAt(n, m, h)
    BY <2>1
  <2>3. n # 0 /\ m # 0
    BY <2>2 DEF InvAt, ActiveAt
  <2>4. n \in 1 .. carousel /\ m \in 1 .. carousel
    BY <2>3, CarouselsAssumption DEF AssemblerInv, OnTheAir
  <2>5. /\ active.ddmt.sections = SectionsOf(Carousels[n], "ddmt")
        /\ active.damt.sections = SectionsOf(Carousels[m], "damt")
        /\ \A t \in Sent(n, "ddmt") \cup Sent(m, "damt") :
             Id(t) = << active.source, active.session >>
        /\ ValidCatalogue(active.ddmt.sections, active.damt.sections)
    BY <2>2, <2>3 DEF InvAt, ActiveAt, TableOf
  <2>6. files.nodes = NodesOf(SectionsOf(Carousels[n], "ddmt"))
        /\ files.mpus = MpusOf(SectionsOf(Carousels[m], "damt"))
    BY <2>2, <2>3 DEF InvAt, Kept, Sound, NodesAt, MpusAt, Mpus
  <2> QED
    BY <2>4, <2>5, <2>6 DEF CatalogueWhole
<1> QED
  BY <1>1, AssemblerInvariant, PTL

(* BytesNotOlder: the bytes of a file in the store were sent for its item  *)
(* under its download id, and its path and version were listed no later    *)
(* than under the management table that gives that id.                     *)
THEOREM FilesAsSent == AssemblerSpec => []BytesNotOlder
<1>1. AssemblerInv => BytesNotOlder
  <2> SUFFICES ASSUME AssemblerInv, NEW f \in Shown
               PROVE  \E k \in 1 .. carousel :
                 LET key_ == f.file.key
                     signature == f.file.signature
                 IN  /\ key_[1] \in DOMAIN Mpus(k)
                     /\ signature.transaction = Mpus(k)[key_[1]].transaction
                     /\ signature.download = Mpus(k)[key_[1]].download
                     /\ \E b \in 1 .. carousel : \E u \in Carousels[b].units :
                          /\ << u.mpu, u.item >> = key_ /\ u.content = f.file.content
                          /\ u.download = signature.download
                     /\ \E m \in 1 .. k : \E n, a \in 1 .. carousel :
                          \E index \in Indexes[n][m][a] :
                            [key |-> key_, path |-> f.path, version |-> signature.version]
                              \in index.listed
    BY DEF BytesNotOlder
  <2>1. PICK h \in 0 .. carousel : \E x, y \in 0 .. h : InvAt(x, y, h)
    BY DEF AssemblerInv
  <2>2. PICK p \in DOMAIN files.store : f = [path |-> p, file |-> files.store[p]]
    BY DEF Shown
  <2>3. SentAs(files.store[p], p, carousel)
    BY <2>1 DEF InvAt, Kept, Sound, Stored
  <2>4. f.path = p /\ f.file = files.store[p]
    BY <2>2
  <2>5. \A d, path, version, m : ListedAs(d, path, version, m, carousel) =>
          \E n, a \in 1 .. carousel : \E index \in Indexes[n][m][a] :
            [key |-> d, path |-> path, version |-> version] \in index.listed
    BY IndexedBy DEF ListedAs
  <2>6. PICK k \in 1 .. carousel :
          /\ f.file.key[1] \in DOMAIN Mpus(k)
          /\ f.file.signature.transaction = Mpus(k)[f.file.key[1]].transaction
          /\ f.file.signature.download = Mpus(k)[f.file.key[1]].download
          /\ \E b \in 1 .. carousel : \E u \in Carousels[b].units :
               KeyOf(u) = f.file.key /\ u.content = f.file.content
               /\ u.download = f.file.signature.download
          /\ \E o \in 1 .. k : ListedAs(f.file.key, f.path, f.file.signature.version, o, carousel)
    BY <2>3, <2>4 DEF SentAs
  <2>7. \E o \in 1 .. k : \E n, a \in 1 .. carousel : \E index \in Indexes[n][o][a] :
          [key |-> f.file.key, path |-> f.path, version |-> f.file.signature.version]
            \in index.listed
    BY <2>5, <2>6
  <2> QED
    BY <2>6, <2>7 DEF KeyOf
<1> QED
  BY <1>1, AssemblerInvariant, PTL

(* RetryKeepsItsEntry: retry erases the entry it is iterating over only if *)
(* an item that was listed and left out is listed again, or has become the *)
(* index.                                                                  *)
THEOREM EntryKept == AssemblerSpec => []RetryKeepsItsEntry
<1>1. AssemblerInv => RetryKeepsItsEntry
  <2> SUFFICES ASSUME AssemblerInv, ~Defined PROVE Relisted(files.undefined)
    BY DEF RetryKeepsItsEntry
  <2> DEFINE d == files.undefined
  <2>1. PICK h \in 0 .. carousel : \E x, y \in 0 .. h : InvAt(x, y, h)
    BY DEF AssemblerInv
  <2>2. Returns(d, carousel)
    BY <2>1 DEF InvAt, Kept, Sound, Spoiled, Defined
  <2>3. PICK n \in 1 .. carousel :
          /\ Dropped(d, n, carousel)
          /\ ListedBy(d, n, carousel) \/ (d[1] \in DOMAIN Mpus(n) /\ d[2] = Mpus(n)[d[1]].index)
    BY <2>2 DEF Returns
  <2>4. PICK l \in 1 .. n : \E o \in l .. n : ListedBy(d, l, carousel) /\ LeftOutBy(d, o, carousel)
    BY <2>3 DEF Dropped
  <2>5. PICK o \in l .. n : ListedBy(d, l, carousel) /\ LeftOutBy(d, o, carousel)
    BY <2>4
  <2>6. /\ l \in 1 .. carousel /\ o \in 1 .. carousel /\ l <= o /\ o <= n
    BY CarouselsAssumption DEF AssemblerInv, OnTheAir
  <2>7. \A m : IndexesBy(m, carousel) = IndexesUnder(m)
    BY DEF IndexesBy, IndexesUnder
  <2>8. /\ \A m : ListedBy(d, m, carousel) => ListedUnder(d, m)
        /\ \A m : LeftOutBy(d, m, carousel) => LeftOutUnder(d, m)
    BY <2>7 DEF ListedBy, LeftOutBy, ListedUnder, LeftOutUnder
  <2> HIDE DEF d
  <2>9. Relisted(d)
    BY <2>3, <2>5, <2>6, <2>8 DEF Relisted
  <2> QED
    BY <2>9 DEF d
<1> QED
  BY <1>1, AssemblerInvariant, PTL

(* EntryServed: what an application was told last agrees with the store.   *)
THEOREM EntriesServed == AssemblerSpec => []EntryServed
<1>1. AssemblerInv => EntryServed
  <2> SUFFICES ASSUME AssemblerInv, NEW id \in DOMAIN files.applications
               PROVE  LET told == files.applications[id]
                          entries == Entries(told.application)
                      IN  /\ told.ready <=> entries \cap ServedEntries(files) # {}
                          /\ entries \cap DOMAIN files.store \subseteq ServedEntries(files)
                          /\ told.count = Cardinality(DOMAIN files.store)
    BY DEF EntryServed
  <2> DEFINE told == files.applications[id]
             shown == DOMAIN files.store
             entries == Entries(told.application)
  <2>1. Told(files) /\ DOMAIN files.store = DOMAIN files.paths
    BY DEF AssemblerInv, InvAt, Kept, Sound, Stored
  <2>2. \A x \in DOMAIN files.applications :
          files.applications[x] = StateOf(files.applications[x].application, shown)
    BY <2>1 DEF Told
  <2>3. \A app : StateOf(app, shown).ready = EntryReady(app, shown)
                 /\ StateOf(app, shown).count = Cardinality(shown)
    BY DEF StateOf
  <2>4. \A x \in DOMAIN files.applications :
          /\ files.applications[x].ready = (Entries(files.applications[x].application) \cap shown # {})
          /\ files.applications[x].count = Cardinality(shown)
    BY <2>2, <2>3 DEF EntryReady
  <2>5. told.ready => entries \cap shown \subseteq ServedEntries(files)
    BY DEF ServedEntries
  <2>6. ServedEntries(files) \subseteq shown
    BY DEF ServedEntries
  <2>7. told.ready = (entries \cap shown # {}) /\ told.count = Cardinality(shown)
    BY <2>4
  <2> HIDE DEF told, entries, shown
  <2>8. (told.ready <=> entries \cap ServedEntries(files) # {})
        /\ entries \cap shown \subseteq ServedEntries(files)
    BY <2>5, <2>6, <2>7
  <2> QED
    BY <2>7, <2>8 DEF told, entries, shown
<1> QED
  BY <1>1, AssemblerInvariant, PTL
=============================================================================
