---------------------------- MODULE ResourceStore ----------------------------
(***************************************************************************)
(* ApplicationResourceStore: the files and application states the          *)
(* assembler publishes, shared by threads.  Writers (the thread that feeds *)
(* the demuxer, or one that clears the store) change it under the mutex    *)
(* and notify the condition variable before they unlock it.  Clients (the  *)
(* threads of an HTTP adapter) call waitFor, whose predicate is checked    *)
(* under the mutex before each sleep and after each wake-up; a sleep ends  *)
(* by a notification, by the deadline or for no reason.  Some of them also *)
(* make the short calls, one lock each: between two anything may happen.   *)
(***************************************************************************)
EXTENDS Naturals, Sequences

CONSTANTS
  Writers,     (* threads that change the store                            *)
  Waiters,     (* client threads                                           *)
  Readers,     (* those of them that also make the short calls             *)
  Paths,       (* the paths of files                                       *)
  Names,       (* what a caller of waitFor may ask for                     *)
  Normal,      (* safe_path: name -> its path, or None                     *)
  Contents,    (* the bytes of files                                       *)
  Apps,        (* applications                                             *)
  Candidates,  (* app -> its entry path and the ones under its transport   *)
               (* URLs, in the order entryPath tries them                  *)
  MaxChanges,  (* bound on the changes of the store                        *)
  None

ASSUME NormalAssumption == Normal \in [Names -> Paths \cup {None}]
ASSUME CandidatesAssumption == Candidates \in [Apps -> Seq(Paths)]
ASSUME MaxChangesAssumption == MaxChanges \in Nat
ASSUME ThreadsAssumption ==
  /\ Writers \cap Waiters = {}
  /\ Readers \subseteq Waiters
  /\ None \notin Writers \cup Waiters
ASSUME NoneAssumption == None \notin Contents \cup Paths

VARIABLES
  holder,     (* the thread that owns the mutex, or None                   *)
  pc,         (* where a writer or waiter is                               *)
  resources,  (* path -> [content, generation]                             *)
  states,     (* application -> its entry_ready                            *)
  generation, (* changes so far                                            *)
  key,        (* the path of a waiter's call                               *)
  late,       (* its deadline has passed                                   *)
  answer,     (* what its latest call returned                             *)
  reading     (* a reader's calls so far: [step, before, listed, entry,    *)
              (* file, after]                                              *)

vars ==
  << holder, pc, resources, states, generation, key, late, answer, reading >>

store == << resources, states, generation >>
calls == << key, late, answer >>

Empty == [x \in {} |-> None]

NotRead ==
  [step |-> "before", before |-> 0, listed |-> Empty, entry |-> None,
   file |-> None, after |-> 0]

Init ==
  /\ holder = None
  /\ pc = [t \in Writers \cup Waiters |-> "idle"]
  /\ resources = Empty
  /\ states = Empty
  /\ generation = 0
  /\ key = [w \in Waiters |-> None]
  /\ late = [w \in Waiters |-> FALSE]
  /\ answer = [w \in Waiters |-> None]
  /\ reading = [r \in Readers |-> NotRead]
-----------------------------------------------------------------------------
Go(t, step) == pc' = [pc EXCEPT ![t] = step]

Acquire(t, from, to) ==
  /\ pc[t] = from
  /\ holder = None
  /\ holder' = t
  /\ Go(t, to)
  /\ UNCHANGED << store, calls, reading >>

Release(t) ==
  /\ pc[t] = "leaving"
  /\ holder' = None
  /\ Go(t, "idle")
  /\ UNCHANGED << store, calls, reading >>

(* A writer locks the mutex.                                               *)
BeginChange(t) == generation < MaxChanges /\ Acquire(t, "idle", "changing")

Changing(t) ==
  /\ pc[t] = "changing"
  /\ Go(t, "notifying")
  /\ generation' = generation + 1
  /\ UNCHANGED << holder, calls, reading >>

OnApplicationState(t) ==
  /\ Changing(t)
  /\ \E app \in Apps, ready \in BOOLEAN :
       states' = [a \in DOMAIN states \cup {app} |-> IF a = app THEN ready ELSE states[a]]
  /\ UNCHANGED resources

OnApplicationResource(t) ==
  /\ Changing(t)
  /\ \E path \in Paths, content \in Contents :
       resources' = [p \in DOMAIN resources \cup {path} |->
                       IF p = path THEN [content |-> content, generation |-> generation']
                       ELSE resources[p]]
  /\ UNCHANGED states

Bug_OnApplicationResourceRemoved(t) ==
  /\ pc[t] = "changing"
  /\ Go(t, "notifying")
  /\ \E path \in Paths :
       resources' = [p \in DOMAIN resources \ {path} |-> resources[p]]
  /\ UNCHANGED << holder, calls, reading, generation, states >>

OnApplicationResourceRemoved(t) ==
  /\ Changing(t)
  /\ \E path \in Paths :
       resources' = [p \in DOMAIN resources \ {path} |-> resources[p]]
  /\ UNCHANGED states

Bug_Clear(t) ==
  /\ pc[t] = "changing"
  /\ Go(t, "notifying")
  /\ generation' = 0
  /\ resources' = Empty
  /\ states' = Empty
  /\ UNCHANGED << holder, calls, reading >>

Clear(t) ==
  /\ Changing(t)
  /\ resources' = Empty
  /\ states' = Empty

NotifyAll(t) ==
  /\ pc[t] = "notifying"
  /\ pc' = [s \in DOMAIN pc |->
              IF s = t THEN "leaving"
              ELSE IF pc[s] = "asleep" THEN "woken" ELSE pc[s]]
  /\ UNCHANGED << holder, store, calls, reading >>
-----------------------------------------------------------------------------
(* waitFor.                                                                *)
Present(w) == key[w] \in DOMAIN resources

Free(w) == pc[w] = "idle" /\ (w \in Readers => reading[w] = NotRead)

Call(w, n) ==
  /\ Free(w)
  /\ Normal[n] # None
  /\ Go(w, "locking")
  /\ key' = [key EXCEPT ![w] = Normal[n]]
  /\ answer' = [answer EXCEPT ![w] = None]
  /\ UNCHANGED << holder, store, late, reading >>

(* A name that safe_path refuses.                                          *)
Refuse(w, n) ==
  /\ Free(w)
  /\ Normal[n] = None
  /\ answer' = [answer EXCEPT ![w] = None]
  /\ UNCHANGED << holder, pc, store, key, late, reading >>

DeadlinePasses(w) ==
  /\ key[w] # None
  /\ late' = [late EXCEPT ![w] = TRUE]
  /\ UNCHANGED << holder, pc, store, key, answer, reading >>

Lock(w) == Acquire(w, "locking", "checking")

Return(w, value) ==
  /\ answer' = [answer EXCEPT ![w] = value]
  /\ key' = [key EXCEPT ![w] = None]
  /\ late' = [late EXCEPT ![w] = FALSE]
  /\ Go(w, "leaving")
  /\ UNCHANGED << holder, store, reading >>

Find(w) ==
  /\ pc[w] \in {"checking", "last"}
  /\ Present(w)
  /\ Return(w, resources[key[w]].content)

Bug_Sleep(w) ==
  /\ \/ pc[w] = "checking" /\ ~Present(w) /\ holder' = None /\ Go(w, "locking")
     \/ pc[w] = "locking" /\ Go(w, "asleep") /\ UNCHANGED holder
  /\ UNCHANGED << store, calls, reading >>

(* Nothing there: the mutex is released and the thread asleep in one step. *)
Sleep(w) ==
  /\ pc[w] = "checking"
  /\ ~Present(w)
  /\ holder' = None
  /\ Go(w, "asleep")
  /\ UNCHANGED << store, calls, reading >>

(* The deadline, or a spurious wake-up.                                    *)
Wake(w) ==
  /\ pc[w] = "asleep"
  /\ Go(w, "woken")
  /\ UNCHANGED << holder, store, calls, reading >>

(* wait_until locks again and tells whether the deadline has passed.       *)
Relock(w) == Acquire(w, "woken", IF late[w] THEN "last" ELSE "checking")

Bug_GiveUp(w) == pc[w] = "last" /\ Return(w, None)

GiveUp(w) ==
  /\ pc[w] = "last"
  /\ ~Present(w)
  /\ Return(w, None)
-----------------------------------------------------------------------------
(* The short calls: generation, list, entryPath and get.                   *)
Read(r, step, next, view) ==
  /\ pc[r] = "idle"
  /\ reading[r].step = step
  /\ holder = None
  /\ reading' = [reading EXCEPT ![r] = [view EXCEPT !.step = next]]
  /\ UNCHANGED << holder, pc, store, calls >>

(* What entryPath may return, in whatever order it visits the states: the  *)
(* first candidate of a ready application that has a file.                 *)
EntryPaths ==
  {p \in DOMAIN resources :
     \E a \in DOMAIN states : \E i \in DOMAIN Candidates[a] :
       /\ states[a]
       /\ Candidates[a][i] = p
       /\ \A j \in 1 .. (i - 1) : Candidates[a][j] \notin DOMAIN resources}

Get(path) == IF path \in DOMAIN resources THEN resources[path].content ELSE None

ReadBefore(r) ==
  Read(r, "before", "list", [NotRead EXCEPT !.before = generation])

ReadList(r) ==
  Read(r, "list", "entry", [reading[r] EXCEPT !.listed = resources])

ReadEntry(r) ==
  \E entry \in IF EntryPaths = {} THEN {None} ELSE EntryPaths :
    Read(r, "entry", "get", [reading[r] EXCEPT !.entry = entry])

ReadFile(r) ==
  Read(r, "get", "after", [reading[r] EXCEPT !.file = Get(reading[r].entry)])

ReadAfter(r) ==
  Read(r, "after", "done", [reading[r] EXCEPT !.after = generation])

ReadAgain(r) == Read(r, "done", "before", NotRead)
-----------------------------------------------------------------------------
Write(t) ==
  \/ OnApplicationState(t)
  \/ OnApplicationResource(t)
  \/ OnApplicationResourceRemoved(t)
  \/ Clear(t)

WaitStep(w) == Find(w) \/ Sleep(w) \/ GiveUp(w)

ReadStep(r) ==
  \/ ReadBefore(r) \/ ReadList(r) \/ ReadEntry(r)
  \/ ReadFile(r) \/ ReadAfter(r) \/ ReadAgain(r)

Next ==
  \/ \E t \in Writers : BeginChange(t) \/ Write(t) \/ NotifyAll(t) \/ Release(t)
  \/ \E w \in Waiters :
       \/ \E n \in Names : Call(w, n) \/ Refuse(w, n)
       \/ DeadlinePasses(w) \/ Lock(w) \/ WaitStep(w) \/ Wake(w) \/ Relock(w) \/ Release(w)
  \/ \E r \in Readers : ReadStep(r)

(* A thread that owns the mutex runs on, and one that wants it gets it in  *)
(* the end; deadlines pass, and a sleep ends after them.                   *)
Fairness ==
  /\ \A t \in Writers : WF_vars(Write(t) \/ NotifyAll(t) \/ Release(t))
  /\ \A w \in Waiters :
       /\ WF_vars((DeadlinePasses(w) /\ ~late[w]) \/ (late[w] /\ Wake(w)))
       /\ WF_vars(WaitStep(w) \/ Release(w))
       /\ SF_vars(Lock(w) \/ Relock(w))

Spec == Init /\ [][Next]_vars /\ Fairness
-----------------------------------------------------------------------------
Critical == {"changing", "notifying", "checking", "last", "leaving"}

(***************************************************************************)
(* TypeOK: shapes, and the mutex: a thread is in a critical section        *)
(* exactly while it owns the mutex.                                        *)
(***************************************************************************)
TypeOK ==
  /\ generation \in Nat
  /\ pc \in [Writers \cup Waiters ->
               Critical \cup {"idle", "locking", "asleep", "woken"}]
  /\ key \in [Waiters -> Paths \cup {None}]
  /\ \A w \in Waiters : key[w] = None <=> pc[w] \in {"idle", "leaving"}
  /\ \A t \in Writers \cup Waiters : holder = t <=> pc[t] \in Critical
  /\ DOMAIN resources \subseteq Paths

(***************************************************************************)
(* NoLostWakeup: a thread asleep in waitFor while its file is in the store *)
(* is about to be woken: the writer that put the file there still owns the *)
(* mutex and has not yet notified.  Without it a request would be served   *)
(* only at its deadline.                                                   *)
(***************************************************************************)
NoLostWakeup ==
  \A w \in Waiters :
    pc[w] = "asleep" /\ Present(w) => \E t \in Writers : pc[t] = "notifying"

(***************************************************************************)
(* Monitor: the lock and the condition variable are used as they have to   *)
(* be, by every thread: the mutex excludes, and no wake-up is lost.        *)
(***************************************************************************)
Monitor == TypeOK /\ NoLostWakeup

(***************************************************************************)
(* GenerationNamesBytes: a path and the generation list once gave for it   *)
(* never name other bytes than those listed with it, also after the file   *)
(* was replaced, removed and stored again, or the store cleared: a cache   *)
(* keyed by them is never wrong.                                           *)
(***************************************************************************)
GenerationNamesBytes ==
  \A r \in Readers :
    LET listed == reading[r].listed
    IN  \A p \in DOMAIN listed \cap DOMAIN resources :
          listed[p].generation = resources[p].generation => listed[p] = resources[p]

(***************************************************************************)
(* StableReads: a caller that finds the same generation before and after   *)
(* its calls has seen one state of the store: the entry it was given is    *)
(* listed and its file is the one listed.                                  *)
(***************************************************************************)
StableReads ==
  \A r \in Readers :
    LET v == reading[r]
    IN  v.step = "done" /\ v.before = v.after /\ v.entry # None =>
          /\ v.entry \in DOMAIN v.listed
          /\ v.file = v.listed[v.entry].content

(***************************************************************************)
(* Refinement: waitFor as a whole is one look at the store, and every call *)
(* returns (BlockingLookup).                                               *)
(***************************************************************************)
Abstract ==
  INSTANCE BlockingLookup WITH
    Callers <- Waiters,
    held <- [p \in DOMAIN resources |-> resources[p].content],
    asked <- key

Refinement == Abstract!Spec
=============================================================================
