--------------------------- MODULE BlockingLookup ----------------------------
(***************************************************************************)
(* What ApplicationResourceStore::waitFor promises its callers, however    *)
(* the store's lock and condition variable are used: a call is answered,   *)
(* and as one indivisible look at the store: with what is there under the  *)
(* path, or with None if nothing is.                                       *)
(***************************************************************************)
CONSTANTS
  Callers,   (* the threads that call waitFor                              *)
  Paths,
  Contents,
  None

VARIABLES
  held,      (* path -> content, for the paths that have a file            *)
  asked,     (* the path a caller waits for, None without a call           *)
  answer     (* what its latest call returned                              *)

vars == << held, asked, answer >>

Init ==
  /\ held = [p \in {} |-> None]
  /\ asked = [c \in Callers |-> None]
  /\ answer = [c \in Callers |-> None]

Change ==
  /\ \E known \in SUBSET Paths : held' \in [known -> Contents]
  /\ UNCHANGED << asked, answer >>

Ask(c) ==
  /\ asked[c] = None
  /\ \E p \in Paths : asked' = [asked EXCEPT ![c] = p]
  /\ answer' = [answer EXCEPT ![c] = None]
  /\ UNCHANGED held

(* A name that is no path is refused at once.                              *)
Refuse(c) ==
  /\ asked[c] = None
  /\ answer' = [answer EXCEPT ![c] = None]
  /\ UNCHANGED << held, asked >>

Found(c) == IF asked[c] \in DOMAIN held THEN held[asked[c]] ELSE None

Answer(c) ==
  /\ asked[c] # None
  /\ answer' = [answer EXCEPT ![c] = Found(c)]
  /\ asked' = [asked EXCEPT ![c] = None]
  /\ UNCHANGED held

Next == Change \/ \E c \in Callers : Ask(c) \/ Refuse(c) \/ Answer(c)

Spec == Init /\ [][Next]_vars /\ \A c \in Callers : WF_vars(Answer(c))
=============================================================================
