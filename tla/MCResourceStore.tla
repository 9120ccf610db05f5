---- MODULE MCResourceStore ----
(* Two files; callers wait for one of them, by a name that has to be       *)
(* normalised or one that escapes; the application's entry may be either.  *)
EXTENDS ResourceStore

MCNormal == [n \in Names |-> IF n = "./a" THEN "a" ELSE None]
MCCandidates == [app \in Apps |-> << "b", "a" >>]
====
