-------------------------- MODULE ApplicationTables --------------------------
(***************************************************************************)
(* How the MMTP parser puts the sections of an MH-AIT together             *)
(* (parse_mh_ait): a staging area per sub-table, and the sub-table         *)
(* delivered last, by which a repetition is recognised.  Pure operators.   *)
(*                                                                         *)
(* A section: [pid, type, next, version, number, last, apps], apps a set   *)
(* of applications [id, code].  Its raw bytes are the section itself.      *)
(* staged and committed are functions from identities to sets of sections; *)
(* a staging entry without sections is the same as none.                   *)
(***************************************************************************)
EXTENDS Naturals, FiniteSets, Functions

Html5 == 17     (* application_type 0x0011                                 *)

Identity(section) == << section.pid, section.type, section.next >>

Over(new, old) ==
  [key \in DOMAIN new \cup DOMAIN old |-> IF key \in DOMAIN new THEN new[key] ELSE old[key]]

Put(function, key, value) == Over([k \in {key} |-> value], function)

At(function, key) == IF key \in DOMAIN function THEN function[key] ELSE {}

(* Sections of another version, or another last number, are dropped.       *)
Bug_SameVersion(have, section) == have

SameVersion(have, section) ==
  IF \E other \in have : other.version # section.version \/ other.last # section.last
  THEN {} ELSE have

Conflicts(have, section) ==
  \E other \in have : other.number = section.number /\ other # section

(* ARIB-HTML5 sub-tables consist of the one section 1 of 1.                *)
Complete(have, section) ==
  \/ section.type = Html5 /\ section.number = 1 /\ section.last = 1
  \/ Cardinality(have) = section.last + 1

ApplicationsOf(sections) == UNION {section.apps : section \in sections}

(***************************************************************************)
(* What one section does to the staging area, to the sub-table committed   *)
(* and whether it is delivered.                                            *)
(***************************************************************************)
Result(staged, committed, delivered) ==
  [staged |-> staged, committed |-> committed, delivered |-> delivered]

StageSection(staged, committed, section) ==
  LET key  == Identity(section)
      kept == SameVersion(At(staged, key), section)
      have == kept \cup {section}
      without == Restrict(staged, DOMAIN staged \ {key})
  IN IF section.number > section.last THEN Result(staged, committed, FALSE)
     ELSE IF Conflicts(kept, section) THEN Result(without, committed, FALSE)
     ELSE IF ~Complete(have, section)
       THEN Result(Put(without, key, have), committed, FALSE)
     ELSE Result(without, Put(committed, key, have), At(committed, key) # have)
=============================================================================
