------------------------- MODULE MfuAssembler_proofs -------------------------
(***************************************************************************)
(* Facts that the proofs about the users of MfuAssembler share: arithmetic *)
(* of the 32-bit packet sequence number, for any modulus; induction over   *)
(* the natural numbers, for loops written as recursive functions; and what *)
(* one piece does to an assembler.                                         *)
(***************************************************************************)
EXTENDS MfuAssembler, Integers, SequenceTheorems, WellFoundedInduction, TLAPS

(* Division with remainder, as the SMT solver knows it.                    *)
LEMMA Remainder ==
  ASSUME NEW M \in Nat, M > 2, NEW i \in Nat
  PROVE  i = M * (i \div M) + (i % M) /\ i % M \in 0 .. (M - 1) /\ i \div M \in Int
OBVIOUS

(* The only multiple of M strictly between -M and M is 0.                  *)
LEMMA SmallMultiple ==
  ASSUME NEW M \in Nat, M > 2, NEW k \in Int, NEW d \in Int, d = M * k, -M < d, d < M
  PROVE  d = 0
<1>1. CASE k >= 1
  <2>1. M * k >= M
    BY <1>1
  <2> QED
    BY <2>1
<1>2. CASE k =< -1
  <2>1. M * k =< -M
    BY <1>2
  <2> QED
    BY <2>1
<1>3. CASE k = 0
  BY <1>3
<1> QED
  BY <1>1, <1>2, <1>3

(* The remainder is unique.                                                *)
LEMMA RemainderUnique ==
  ASSUME NEW M \in Nat, M > 2, NEW k \in Int, NEW r \in 0 .. (M - 1),
         NEW x \in Nat, x = M * k + r
  PROVE  x % M = r
<1> DEFINE a == x \div M
           s == x % M
<1>1. x = M * a + s /\ a \in Int /\ s \in 0 .. (M - 1)
  BY Remainder
<1> HIDE DEF a, s
<1>2. M * (a - k) = r - s
  BY <1>1
<1>3. a - k \in Int /\ r - s \in Int /\ -M < r - s /\ r - s < M
  BY <1>1
<1>4. r - s = 0
  BY <1>2, <1>3, SmallMultiple
<1> QED
  BY <1>1, <1>4 DEF s

(* Two packets less than a turn apart have the same sequence number only   *)
(* if they are the same packet.                                            *)
LEMMA SameSequence ==
  ASSUME NEW M \in Nat, M > 2, NEW i \in Nat, NEW j \in Nat,
         i % M = j % M, i - j < M, j - i < M
  PROVE  i = j
<1> DEFINE a == i \div M
           b == j \div M
<1>1. i = M * a + (i % M) /\ j = M * b + (j % M) /\ a \in Int /\ b \in Int
  BY Remainder
<1>2. i - j = M * (a - b)
  BY <1>1
<1> HIDE DEF a, b
<1>3. i - j = 0
  BY <1>1, <1>2, SmallMultiple
<1> QED
  BY <1>3

(* last_sequence + 1U is the sequence number of the next packet, also when *)
(* it wraps.                                                               *)
LEMMA Successor ==
  ASSUME NEW M \in Nat, M > 2, NEW j \in Nat
  PROVE  ((j % M) + 1) % M = (j + 1) % M
<1> DEFINE a == j \div M
           s == j % M
<1>1. j = M * a + s /\ a \in Int /\ s \in 0 .. (M - 1)
  BY Remainder
<1> HIDE DEF a, s
<1>2. CASE s = M - 1
  <2>1. j + 1 = M * (a + 1) + 0
    BY <1>1, <1>2
  <2>2. (j + 1) % M = 0
    BY <2>1, <1>1, RemainderUnique
  <2>3. s + 1 = M * 1 + 0
    BY <1>2
  <2>4. (s + 1) % M = 0
    BY <2>3, <1>1, RemainderUnique
  <2> QED
    BY <2>2, <2>4 DEF s
<1>3. CASE s < M - 1
  <2>1. j + 1 = M * a + (s + 1) /\ s + 1 \in 0 .. (M - 1)
    BY <1>1, <1>3
  <2>2. (j + 1) % M = s + 1
    BY <2>1, <1>1, RemainderUnique
  <2>3. s + 1 = M * 0 + (s + 1)
    BY <1>1
  <2>4. (s + 1) % M = s + 1
    BY <2>3, <2>1, <1>1, RemainderUnique
  <2> QED
    BY <2>2, <2>4 DEF s
<1> QED
  BY <1>1, <1>2, <1>3

(* Nor has another packet the number that follows.                         *)
LEMMA NextSequence ==
  ASSUME NEW M \in Nat, M > 2, NEW i \in Nat, NEW j \in Nat,
         i % M = ((j % M) + 1) % M, i - (j + 1) < M, (j + 1) - i < M
  PROVE  i = j + 1
<1>1. ((j % M) + 1) % M = (j + 1) % M
  BY Successor
<1>2. i % M = (j + 1) % M
  BY <1>1
<1>3. j + 1 \in Nat
  OBVIOUS
<1> QED
  BY <1>2, <1>3, SameSequence

-----------------------------------------------------------------------------
(* Induction, for a set: the theorems of the library that take a predicate *)
(* cannot be instantiated, but the least number outside a set can be had.  *)
LEMMA SetInduction ==
  ASSUME NEW T, 0 \in T, \A n \in Nat : n \in T => n + 1 \in T
  PROVE  Nat \subseteq T
<1> DEFINE Rest == Nat \ T
<1>1. ASSUME Rest # {} PROVE FALSE
  <2>1. PICK x \in Rest : \A y \in Rest : ~ (<< y, x >> \in OpToRel(<, Nat))
    <3>1. Rest \subseteq Nat
      OBVIOUS
    <3>2. IsWellFoundedOn(OpToRel(<, Nat), Nat)
      BY NatLessThanWellFounded
    <3> QED
      BY <1>1, <3>1, <3>2, WFMin
  <2>2. x \in Nat /\ x # 0 /\ x - 1 \in Nat
    OBVIOUS
  <2>3. x - 1 \in Rest
    <3>1. (x - 1) + 1 = x
      BY <2>2
    <3> QED
      BY <2>2, <3>1
  <2>4. << x - 1, x >> \in OpToRel(<, Nat)
    BY <2>2 DEF OpToRel
  <2> QED
    BY <2>1, <2>3, <2>4
<1> QED
  BY <1>1

(* What each step of a loop keeps holds after all of them.  I[n] is the    *)
(* set of the states allowed after n steps.                                *)
LEMMA LoopInvariant ==
  ASSUME NEW N \in Nat, NEW f, NEW I, f[0] \in I[0],
         \A n \in 1 .. N : f[n - 1] \in I[n - 1] => f[n] \in I[n]
  PROVE  \A n \in 0 .. N : f[n] \in I[n]
<1> DEFINE T == {m \in Nat : m =< N => f[m] \in I[m]}
<1>1. 0 \in T
  OBVIOUS
<1>2. ASSUME NEW m \in Nat, m \in T PROVE m + 1 \in T
  <2>1. m + 1 - 1 = m
    OBVIOUS
  <2> QED
    BY <1>2, <2>1
<1> HIDE DEF T
<1>3. Nat \subseteq T
  BY <1>1, <1>2, SetInduction
<1> QED
  BY <1>3 DEF T

(* A loop of N steps over states in S has a value.                         *)
IsLoop(f, N, b, step) ==
  f = [n \in 0 .. N |-> IF n = 0 THEN b ELSE step[<< f[n - 1], n >>]]

LEMMA LoopExists ==
  ASSUME NEW S, NEW b \in S, NEW N \in Nat, NEW step \in [S \X (1 .. N) -> S]
  PROVE  \E f \in [0 .. N -> S] : IsLoop(f, N, b, step)
<1> DEFINE Loop(f, m) ==
      /\ f \in [0 .. m -> S]
      /\ f[0] = b
      /\ \A n \in 1 .. m : f[n] = step[<< f[n - 1], n >>]
           T == {m \in Nat : m =< N => \E f : Loop(f, m)}
<1>1. 0 \in T
  <2> DEFINE g == [n \in 0 .. 0 |-> b]
  <2>1. Loop(g, 0)
    OBVIOUS
  <2> QED
    BY <2>1
<1>2. ASSUME NEW m \in Nat, m \in T PROVE m + 1 \in T
  <2> SUFFICES ASSUME m + 1 =< N
               PROVE  \E f : Loop(f, m + 1)
    OBVIOUS
  <2>1. PICK f : Loop(f, m)
    BY <1>2
  <2> DEFINE g == [n \in 0 .. (m + 1) |-> IF n = m + 1 THEN step[<< f[m], m + 1 >>] ELSE f[n]]
  <2>2. f[m] \in S /\ m + 1 \in 1 .. N
    BY <2>1
  <2>3. step[<< f[m], m + 1 >>] \in S
    BY <2>2
  <2>4. g \in [0 .. (m + 1) -> S] /\ g[0] = b
    BY <2>1, <2>3
  <2>5. ASSUME NEW n \in 1 .. (m + 1)
        PROVE  g[n] = step[<< g[n - 1], n >>]
    <3>1. n - 1 \in 0 .. (m + 1) /\ n - 1 # m + 1 /\ g[n - 1] = f[n - 1]
      OBVIOUS
    <3>2. CASE n = m + 1
      BY <3>1, <3>2
    <3>3. CASE n # m + 1
      BY <2>1, <3>1, <3>3
    <3> QED
      BY <3>2, <3>3
  <2> HIDE DEF g
  <2> QED
    BY <2>4, <2>5
<1> HIDE DEF T
<1>3. Nat \subseteq T
  BY <1>1, <1>2, SetInduction
<1>4. PICK f : Loop(f, N)
  <2> HIDE DEF Loop
  <2>1. N \in T /\ N =< N
    BY <1>3
  <2> QED
    BY <2>1 DEF T
<1>5. f = [n \in 0 .. N |-> IF n = 0 THEN b ELSE step[<< f[n - 1], n >>]]
  <2>1. f = [n \in 0 .. N |-> f[n]]
    BY <1>4
  <2>2. \A n \in 0 .. N : f[n] = IF n = 0 THEN b ELSE step[<< f[n - 1], n >>]
    BY <1>4
  <2> QED
    BY <2>1, <2>2
<1> QED
  BY <1>4, <1>5 DEF IsLoop

-----------------------------------------------------------------------------
(* The three fields of an outcome.                                         *)
LEMMA OutcomeFields ==
  ASSUME NEW x, NEW lost, NEW unit
  PROVE  /\ Outcome(x, lost, unit).asm = x
         /\ Outcome(x, lost, unit).lost = lost
         /\ Outcome(x, lost, unit).unit = unit
BY DEF Outcome

(* The outcome of a piece from the outcome of its fragmentation case.      *)
LEMMA PieceFields ==
  ASSUME NEW a, NEW p, NEW x, NEW lost, NEW unit,
         ByFragmentation(Sequenced(a, p), p) = Outcome(x, lost, unit)
  PROVE  /\ ConsumePiece(a, p).asm = x
         /\ ConsumePiece(a, p).lost = (lost \/ Jumped(a, p))
         /\ ConsumePiece(a, p).unit = unit
<1> DEFINE o == Outcome(x, lost, unit)
           mark == lost \/ Jumped(a, p)
<1>1. o.asm = x /\ o.lost = lost /\ o.unit = unit
  BY OutcomeFields
<1>2. ConsumePiece(a, p) = Outcome(o.asm, o.lost \/ Jumped(a, p), o.unit)
  BY Zenon DEF ConsumePiece
<1>3. ConsumePiece(a, p) = Outcome(x, mark, unit)
  <2> HIDE DEF o
  <2> QED
    BY <1>1, <1>2, Zenon
<1>4. mark = (lost \/ Jumped(a, p))
  OBVIOUS
<1> HIDE DEF mark
<1>5. /\ ConsumePiece(a, p).asm = x
      /\ ConsumePiece(a, p).lost = mark
      /\ ConsumePiece(a, p).unit = unit
  BY <1>3, OutcomeFields
<1> QED
  BY <1>4, <1>5, Zenon

(* An assembler that dropped or finished its unit is empty.                *)
LEMMA EmptiedFacts ==
  ASSUME NEW Parts, NEW Tags, NEW b \in Assemblers(Parts, Tags), NEW state \in FragmentState
  PROVE  /\ Emptied(b, state) \in Assemblers(Parts, Tags)
         /\ Emptied(b, state).state = state
         /\ Emptied(b, state).last = b.last
         /\ Emptied(b, state).data = << >>
         /\ Emptied(b, state).size = 0
<1>1. << >> \in Seq(Parts) /\ 0 \in 0 .. MaxAccessUnit
  BY MaxAccessUnitAssumption
<1> QED
  BY <1>1 DEF Emptied, Assembler, Assemblers

(* A fragment that fits leaves the assembler within the limit.             *)
LEMMA AppendedFacts ==
  ASSUME NEW Parts, NEW Tags, NEW b \in Assemblers(Parts, Tags), NEW p, p.part \in Parts, p.size \in Nat, Fits(b, p)
  PROVE  /\ Appended(b, p) \in Assemblers(Parts, Tags)
         /\ Appended(b, p).state = b.state
         /\ Appended(b, p).last = b.last
         /\ Appended(b, p).tag = b.tag
         /\ Appended(b, p).data = Append(b.data, p.part)
<1>1. Append(b.data, p.part) \in Seq(Parts)
  BY AppendProperties DEF Assemblers
<1>2. b.size + p.size \in 0 .. MaxAccessUnit
  BY MaxAccessUnitAssumption DEF Fits, Assemblers
<1> QED
  BY <1>1, <1>2 DEF Appended, Assembler, Assemblers

(* The assembler a first fragment starts from.                             *)
LEMMA BegunFacts ==
  ASSUME NEW Parts, NEW Tags, NEW b \in Assemblers(Parts, Tags), NEW p, p.tag \in Tags
  PROVE  /\ Begun(b, p) \in Assemblers(Parts, Tags)
         /\ Begun(b, p).state = "Collecting"
         /\ Begun(b, p).last = b.last
         /\ Begun(b, p).tag = p.tag
         /\ Begun(b, p).data = << >>
<1>1. << >> \in Seq(Parts) /\ 0 \in 0 .. MaxAccessUnit
  BY MaxAccessUnitAssumption
<1> QED
  BY <1>1 DEF Begun, Assembler, Assemblers, FragmentState

(***************************************************************************)
(* The four things a piece can do to an assembler a, r being the outcome:  *)
(* complete a unit, be collected, make the assembler drop what it has (and *)
(* say so), or be skipped.                                                 *)
(***************************************************************************)
Completes(a, p, r) ==
  /\ r.asm.state = "Idle" /\ r.asm.data = << >>
  /\ \/ p.frag = 0 /\ r.unit = << p.part >> /\ (r.lost \/ a.state # "Collecting")
     \/ /\ p.frag = 3 /\ ~Jumped(a, p)
        /\ a.state = "Collecting" /\ a.tag = p.tag
        /\ r.unit = Append(a.data, p.part)

Collects(a, p, r) ==
  /\ r.unit = << >>
  /\ r.asm.state = "Collecting" /\ r.asm.tag = p.tag
  /\ \/ p.frag = 1 /\ r.asm.data = << p.part >>
     \/ /\ p.frag = 2 /\ ~Jumped(a, p)
        /\ a.state = "Collecting" /\ a.tag = p.tag
        /\ r.asm.data = Append(a.data, p.part)

Drops(r) ==
  r.unit = << >> /\ r.asm.data = << >> /\ r.asm.state \in {"Idle", "Skipping"} /\ r.lost

PassesOver(a, r) ==
  /\ r.unit = << >> /\ r.asm.data = << >> /\ r.asm.state \in {"Idle", "Skipping"}
  /\ a.state = "Skipping"

(* What checking and recording the sequence number leaves.                 *)
LEMMA SequencedOutcome ==
  ASSUME NEW Parts, NEW Tags, NEW a \in Assemblers(Parts, Tags), NEW p,
         p.seq \in 0 .. (SequenceModulus - 1)
  PROVE  /\ Sequenced(a, p) \in Assemblers(Parts, Tags)
         /\ Sequenced(a, p).last = p.seq
         /\ Sequenced(a, p).tag = a.tag
         /\ Jumped(a, p) =>
              Sequenced(a, p).state = "Skipping" /\ Sequenced(a, p).data = << >>
         /\ ~Jumped(a, p) =>
              Sequenced(a, p).state = a.state /\ Sequenced(a, p).data = a.data
<1>1. << >> \in Seq(Parts) /\ 0 \in 0 .. MaxAccessUnit /\ "Skipping" \in FragmentState
  BY MaxAccessUnitAssumption DEF FragmentState
<1>2. CASE Jumped(a, p)
  <2>1. Sequenced(a, p) = Assembler("Skipping", p.seq, a.tag, << >>, 0)
    BY <1>2 DEF Sequenced
  <2> QED
    BY <1>1, <1>2, <2>1 DEF Assembler, Assemblers
<1>3. CASE ~Jumped(a, p)
  <2>1. Sequenced(a, p) = Assembler(a.state, p.seq, a.tag, a.data, a.size)
    BY <1>3 DEF Sequenced
  <2> QED
    BY <1>3, <2>1 DEF Assembler, Assemblers
<1> QED
  BY <1>2, <1>3

LEMMA PieceOutcome ==
  ASSUME NEW Parts, NEW Tags, NEW a \in Assemblers(Parts, Tags), NEW p, NEW r,
         p.seq \in 0 .. (SequenceModulus - 1), p.tag \in Tags, p.frag \in Fragmentation,
         p.part \in Parts, p.size \in Nat,
         a.state # "Collecting" => a.data = << >>,
         r = ConsumePiece(a, p)
  PROVE  /\ r.asm \in Assemblers(Parts, Tags) /\ r.asm.last = p.seq
         /\ r.lost \in BOOLEAN
         /\ Jumped(a, p) => r.lost
         /\ Completes(a, p, r) \/ Collects(a, p, r) \/ Drops(r) \/ PassesOver(a, r)
<1> DEFINE b == Sequenced(a, p)
           j == Jumped(a, p)
<1>1. /\ b \in Assemblers(Parts, Tags) /\ b.last = p.seq /\ b.tag = a.tag
      /\ j => b.state = "Skipping" /\ b.data = << >>
      /\ ~j => b.state = a.state /\ b.data = a.data
  BY SequencedOutcome
<1>2. j \in BOOLEAN
  BY DEF Jumped
<1>3. ASSUME NEW x, NEW lost \in BOOLEAN, NEW unit,
             ByFragmentation(b, p) = Outcome(x, lost, unit)
      PROVE  r.asm = x /\ r.lost = (lost \/ j) /\ r.lost \in BOOLEAN /\ r.unit = unit
  BY <1>2, <1>3, PieceFields
<1>4. {"Idle", "Skipping", "Collecting"} \subseteq FragmentState
  BY DEF FragmentState
<1>5. p.frag \in {0, 1, 2, 3}
  BY DEF Fragmentation
<1> HIDE DEF b, j
<1>6. CASE p.frag = 0
  <2> DEFINE x == Emptied(b, "Idle")
             lost == b.state = "Collecting"
  <2>1. ByFragmentation(b, p) = Outcome(x, lost, << p.part >>)
    BY <1>6 DEF ByFragmentation, CompletePiece
  <2>2. x \in Assemblers(Parts, Tags) /\ x.state = "Idle" /\ x.last = b.last /\ x.data = << >>
    BY <1>1, <1>4, EmptiedFacts
  <2>3. lost \in BOOLEAN /\ (lost <=> b.state = "Collecting")
    OBVIOUS
  <2> HIDE DEF x, lost
  <2>4. r.asm = x /\ r.lost = (lost \/ j) /\ r.lost \in BOOLEAN /\ r.unit = << p.part >>
    BY <1>3, <2>1, <2>3
  <2>5. r.lost \/ a.state # "Collecting"
    BY <1>1, <2>3, <2>4
  <2>6. Completes(a, p, r)
    BY <1>6, <2>2, <2>4, <2>5 DEF Completes
  <2> QED
    BY <1>1, <2>2, <2>4, <2>6 DEF j
<1>7. CASE p.frag = 1
  <2>1. ByFragmentation(b, p) = FirstPiece(b, p)
    BY <1>7 DEF ByFragmentation
  <2> DEFINE c == Begun(b, p)
  <2>2. /\ c \in Assemblers(Parts, Tags) /\ c.state = "Collecting" /\ c.last = b.last
        /\ c.tag = p.tag /\ c.data = << >>
    BY <1>1, BegunFacts
  <2> HIDE DEF c
  <2>3. CASE Fits(c, p)
    <3> DEFINE x == Appended(c, p)
    <3>1. /\ x \in Assemblers(Parts, Tags) /\ x.state = "Collecting" /\ x.last = b.last
          /\ x.tag = p.tag /\ x.data = Append(<< >>, p.part)
      BY <2>2, <2>3, AppendedFacts
    <3> HIDE DEF x
    <3>2. ByFragmentation(b, p) = Outcome(x, FALSE, << >>)
      BY <2>1, <2>3 DEF FirstPiece, c, x
    <3>3. r.asm = x /\ r.lost = (FALSE \/ j) /\ r.lost \in BOOLEAN /\ r.unit = << >>
      BY <1>3, <3>2
    <3>4. Collects(a, p, r)
      BY <1>7, <3>1, <3>3 DEF Collects
    <3> QED
      BY <1>1, <3>1, <3>3, <3>4 DEF j
  <2>4. CASE ~Fits(c, p)
    <3> DEFINE x == Emptied(c, "Skipping")
    <3>1. /\ x \in Assemblers(Parts, Tags) /\ x.state = "Skipping" /\ x.last = b.last
          /\ x.data = << >>
      BY <1>4, <2>2, EmptiedFacts
    <3> HIDE DEF x
    <3>2. ByFragmentation(b, p) = Outcome(x, TRUE, << >>)
      BY <2>1, <2>4 DEF FirstPiece, c, x
    <3>3. r.asm = x /\ r.lost = (TRUE \/ j) /\ r.lost \in BOOLEAN /\ r.unit = << >>
      BY <1>3, <3>2
    <3>4. Drops(r)
      BY <3>1, <3>3 DEF Drops
    <3> QED
      BY <1>1, <3>1, <3>3, <3>4
  <2> QED
    BY <2>3, <2>4
<1>8. ASSUME p.frag = 2 \/ p.frag = 3, Continues(b, p), b.state # "Skipping"
      PROVE  ~j /\ a.state = "Collecting" /\ a.tag = p.tag /\ b.state = "Collecting"
             /\ b.data = a.data
  BY <1>1, <1>8 DEF Continues
<1>9. CASE p.frag = 2
  <2>1. ByFragmentation(b, p) = MiddlePiece(b, p)
    BY <1>9 DEF ByFragmentation
  <2>2. CASE b.state = "Skipping"
    <3>1. ByFragmentation(b, p) = Outcome(b, FALSE, << >>)
      BY <2>1, <2>2 DEF MiddlePiece
    <3>2. r.asm = b /\ r.lost = (FALSE \/ j) /\ r.lost \in BOOLEAN /\ r.unit = << >>
      BY <1>3, <3>1
    <3>3. b.data = << >>
      BY <1>1, <2>2
    <3>4. Drops(r) \/ PassesOver(a, r)
      BY <1>1, <2>2, <3>2, <3>3 DEF Drops, PassesOver
    <3> QED
      BY <1>1, <3>2, <3>4 DEF j
  <2>3. CASE b.state # "Skipping" /\ Continues(b, p) /\ Fits(b, p)
    <3> DEFINE x == Appended(b, p)
    <3>1. ~j /\ a.state = "Collecting" /\ a.tag = p.tag /\ b.state = "Collecting"
          /\ b.data = a.data
      BY <1>8, <1>9, <2>3
    <3>2. /\ x \in Assemblers(Parts, Tags) /\ x.state = "Collecting" /\ x.last = b.last
          /\ x.tag = b.tag /\ x.data = Append(a.data, p.part)
      BY <1>1, <2>3, <3>1, AppendedFacts
    <3> HIDE DEF x
    <3>3. ByFragmentation(b, p) = Outcome(x, FALSE, << >>)
      BY <2>1, <2>3 DEF MiddlePiece, x
    <3>4. r.asm = x /\ r.lost = (FALSE \/ j) /\ r.lost \in BOOLEAN /\ r.unit = << >>
      BY <1>3, <3>3
    <3>5. Collects(a, p, r)
      BY <1>1, <1>9, <3>1, <3>2, <3>4 DEF Collects, j
    <3> QED
      BY <1>1, <3>2, <3>4, <3>5 DEF j
  <2>4. CASE b.state # "Skipping" /\ ~(Continues(b, p) /\ Fits(b, p))
    <3> DEFINE x == Emptied(b, "Skipping")
    <3>1. /\ x \in Assemblers(Parts, Tags) /\ x.state = "Skipping" /\ x.last = b.last
          /\ x.data = << >>
      BY <1>1, <1>4, EmptiedFacts
    <3> HIDE DEF x
    <3>2. ByFragmentation(b, p) = Outcome(x, TRUE, << >>)
      BY <2>1, <2>4 DEF MiddlePiece, x
    <3>3. r.asm = x /\ r.lost = (TRUE \/ j) /\ r.lost \in BOOLEAN /\ r.unit = << >>
      BY <1>3, <3>2
    <3>4. Drops(r)
      BY <3>1, <3>3 DEF Drops
    <3> QED
      BY <1>1, <3>1, <3>3, <3>4
  <2> QED
    BY <2>2, <2>3, <2>4
<1>10. CASE p.frag = 3
  <2>1. ByFragmentation(b, p) = LastPiece(b, p)
    BY <1>10 DEF ByFragmentation
  <2> DEFINE x == Emptied(b, "Idle")
  <2>2. /\ x \in Assemblers(Parts, Tags) /\ x.state = "Idle" /\ x.last = b.last
        /\ x.data = << >>
    BY <1>1, <1>4, EmptiedFacts
  <2>3. CASE b.state = "Skipping"
    <3>1. ByFragmentation(b, p) = Outcome(x, FALSE, << >>)
      BY <2>1, <2>3 DEF LastPiece
    <3> HIDE DEF x
    <3>2. r.asm = x /\ r.lost = (FALSE \/ j) /\ r.lost \in BOOLEAN /\ r.unit = << >>
      BY <1>3, <3>1
    <3>3. Drops(r) \/ PassesOver(a, r)
      BY <1>1, <2>2, <2>3, <3>2 DEF Drops, PassesOver
    <3> QED
      BY <1>1, <2>2, <3>2, <3>3 DEF j
  <2>4. CASE b.state # "Skipping" /\ Continues(b, p) /\ Fits(b, p)
    <3> DEFINE u == Appended(b, p).data
    <3>1. ~j /\ a.state = "Collecting" /\ a.tag = p.tag /\ b.state = "Collecting"
          /\ b.data = a.data
      BY <1>8, <1>10, <2>4
    <3>2. u = Append(a.data, p.part)
      BY <1>1, <2>4, <3>1, AppendedFacts
    <3>3. ByFragmentation(b, p) = Outcome(x, FALSE, u)
      BY <2>1, <2>4 DEF LastPiece
    <3> HIDE DEF x, u
    <3>4. r.asm = x /\ r.lost = (FALSE \/ j) /\ r.lost \in BOOLEAN /\ r.unit = u
      BY <1>3, <3>3
    <3>5. Completes(a, p, r)
      BY <1>10, <2>2, <3>1, <3>2, <3>4 DEF Completes, j
    <3> QED
      BY <1>1, <2>2, <3>4, <3>5 DEF j
  <2>5. CASE b.state # "Skipping" /\ ~(Continues(b, p) /\ Fits(b, p))
    <3>1. ByFragmentation(b, p) = Outcome(x, TRUE, << >>)
      BY <2>1, <2>5 DEF LastPiece
    <3> HIDE DEF x
    <3>2. r.asm = x /\ r.lost = (TRUE \/ j) /\ r.lost \in BOOLEAN /\ r.unit = << >>
      BY <1>3, <3>1
    <3>3. Drops(r)
      BY <2>2, <3>2 DEF Drops
    <3> QED
      BY <1>1, <2>2, <3>2, <3>3
  <2> QED
    BY <2>3, <2>4, <2>5
<1> QED
  BY <1>5, <1>6, <1>7, <1>9, <1>10
===============================================================================
