--------------------------- MODULE Stores_proofs ---------------------------
(***************************************************************************)
(* Proofs about the knowledge base, the lemma bank and the index of        *)
(* dialogs for any writers, attempts, processes, files and bounds.         *)
(***************************************************************************)
EXTENDS Stores, FiniteSetTheorems, WellFoundedInduction, TLAPS

storeVars == <<knowledgeVars, bankVars, indexVars>>

-----------------------------------------------------------------------------
(* Recursion.                                                               *)

\* A set of numbers that is not empty has a least one: the form in which the proofs
\* use induction.
LEMMA LeastNumber ==
  ASSUME NEW S, S \subseteq Nat, S # {}
  PROVE  \E m \in S : \A n \in S : m <= n
  <1>1. PICK m \in S : \A n \in S : <<n, m>> \notin OpToRel(<, Nat)
    BY WFMin, NatLessThanWellFounded, Zenon
  <1>2. \A n \in S : n \in Nat /\ ~(n < m)
    BY <1>1, Zenon DEF OpToRel
  <1>3. \A n \in S : m <= n
    BY <1>2
  <1> QED
    BY <1>3

\* f starts at base and takes a step from each number to the next.
Computes(f, N, base, step) ==
  f = [n \in 0..N |-> IF n = 0 THEN base ELSE step[n][f[n - 1]]]

\* A function defined by recursion on 0..N exists.
LEMMA RecursionExists ==
  ASSUME NEW N \in Nat, NEW V, NEW base \in V, NEW step, \A n \in 1..N : step[n] \in [V -> V]
  PROVE  \E f \in [0..N -> V] : Computes(f, N, base, step)
  <1> DEFINE Rec(f, k) == Computes(f, k, base, step)
             Bad == {k \in 0..N : ~\E f \in [0..k -> V] : Rec(f, k)}
  <1> SUFFICES ASSUME Bad # {} PROVE FALSE
    <2>1. ASSUME Bad = {} PROVE \E f \in [0..N -> V] : Rec(f, N)
      <3>1. N \in 0..N /\ N \notin Bad
        BY <2>1
      <3> HIDE DEF Rec
      <3> QED
        BY <3>1
    <2> QED
      BY <2>1
  <1> USE DEF Computes
  <1>1. PICK m \in Bad : \A k \in Bad : m <= k
    <2>1. Bad \subseteq Nat
      OBVIOUS
    <2> HIDE DEF Bad
    <2> QED
      BY <2>1, LeastNumber
  <1>2. m \in 0..N /\ ~\E f \in [0..m -> V] : Rec(f, m)
    OBVIOUS
  <1>3. m # 0
    <2> SUFFICES ASSUME m = 0 PROVE FALSE
      OBVIOUS
    <2> DEFINE g == [n \in 0..0 |-> base]
    <2>1. g \in [0..0 -> V] /\ \A n \in 0..0 : n = 0
      OBVIOUS
    <2>2. g = [n \in 0..0 |-> IF n = 0 THEN base ELSE step[n][g[n - 1]]]
      BY <2>1
    <2> HIDE DEF g
    <2> QED
      BY <1>2, <2>1, <2>2
  <1>4. m - 1 \in 0..N /\ m - 1 \notin Bad
    <2>1. m - 1 \in 0..N /\ ~(m <= m - 1)
      BY <1>2, <1>3
    <2> HIDE DEF Bad
    <2> QED
      BY <1>1, <2>1
  <1>5. PICK f \in [0..(m - 1) -> V] : Rec(f, m - 1)
    BY <1>4
  <1> DEFINE last == step[m][f[m - 1]]
             g == [n \in 0..m |-> IF n = m THEN last ELSE f[n]]
  <1>6. last \in V
    BY <1>2, <1>3, <1>4
  <1>7. g \in [0..m -> V]
    <2> HIDE DEF last
    <2> QED
      BY <1>2, <1>6
  <1>8. \A n \in 0..m : g[n] = IF n = 0 THEN base ELSE step[n][g[n - 1]]
    <2> TAKE n \in 0..m
    <2>1. n # 0 => g[n - 1] = f[n - 1]
      BY <1>2
    <2>2. CASE n = m
      BY <1>3, <2>1, <2>2
    <2>3. CASE n # m
      <3>1. n \in 0..(m - 1)
        BY <1>2, <2>3
      <3>2. f[n] = IF n = 0 THEN base ELSE step[n][f[n - 1]]
        BY <1>5, <3>1
      <3> QED
        BY <2>1, <2>3, <3>2
    <2> QED
      BY <2>2, <2>3
  <1>9. Rec(g, m)
    <2> HIDE DEF last
    <2>1. g = [n \in 0..m |-> g[n]]
      OBVIOUS
    <2> HIDE DEF g
    <2> QED
      BY <1>8, <2>1
  <1> HIDE DEF g, Rec
  <1> QED
    BY <1>2, <1>7, <1>9

\* What is computed by recursion from one value of V to the next is in V.
LEMMA RecursionStays ==
  ASSUME NEW N \in Nat, NEW V, NEW f, f[0] \in V,
         \A n \in 1..N : f[n - 1] \in V => f[n] \in V
  PROVE  \A n \in 0..N : f[n] \in V
  <1> DEFINE Bad == {n \in 0..N : f[n] \notin V}
  <1> SUFFICES ASSUME Bad # {} PROVE FALSE
    OBVIOUS
  <1>1. PICK m \in Bad : \A n \in Bad : m <= n
    <2>1. Bad \subseteq Nat
      OBVIOUS
    <2> HIDE DEF Bad
    <2> QED
      BY <2>1, LeastNumber
  <1>2. m \in 1..N /\ f[m] \notin V
    BY <1>1
  <1>3. m - 1 \in 0..N /\ m - 1 \notin Bad
    <2>1. m - 1 \in 0..N /\ ~(m <= m - 1)
      BY <1>2
    <2> HIDE DEF Bad
    <2> QED
      BY <1>1, <2>1
  <1>4. f[m - 1] \in V
    BY <1>3
  <1> QED
    BY <1>2, <1>4

\* Sequences of operations laid end to end are one.
FlattenOf(seqs) ==
  CHOOSE flatten : flatten = [i \in 1..Len(seqs) |->
    IF i = 1 THEN seqs[i] ELSE flatten[i - 1] \o seqs[i]]

LEMMA FlattenStays ==
  ASSUME NEW S, NEW seqs \in Seq(Seq(S))
  PROVE  FlattenSeq(seqs) \in Seq(S)
  <1> DEFINE K == Len(seqs)
             V == Seq(S)
             step == [n \in 1..K |-> [x \in V |-> IF n = 1 THEN seqs[1] ELSE x \o seqs[n]]]
  <1>0. K \in Nat /\ <<>> \in V /\ \A n \in 1..K : seqs[n] \in V
    OBVIOUS
  <1>1. CASE K = 0
    <2>1. FlattenSeq(seqs) = seqs
      BY <1>1 DEF FlattenSeq
    <2>2. seqs = <<>>
      BY <1>1
    <2> QED
      BY <1>0, <2>1, <2>2
  <1>2. CASE K # 0
    <2>1. \A n \in 1..K : step[n] \in [V -> V]
      <3> TAKE n \in 1..K
      <3>1. seqs[1] \in V /\ seqs[n] \in V /\ \A x \in V : x \o seqs[n] \in V
        BY <1>0, <1>2
      <3> HIDE DEF V
      <3> QED
        BY <3>1
    <2> HIDE DEF K
    <2>2. PICK f \in [0..K -> V] : Computes(f, K, <<>>, step)
      <3> HIDE DEF step, V
      <3> QED
        BY <1>0, <2>1, RecursionExists
    <2> DEFINE g == [i \in 1..K |-> f[i]]
    <2>3. \A i \in 1..K : f[i] = IF i = 1 THEN seqs[i] ELSE f[i - 1] \o seqs[i]
      <3> TAKE i \in 1..K
      <3>1. i \in 0..K /\ i # 0 /\ i - 1 \in 0..K
        BY <1>0
      <3>2. f[i] = step[i][f[i - 1]] /\ f[i - 1] \in V
        <4> HIDE DEF step, V
        <4> QED
          BY <2>2, <3>1 DEF Computes
      <3> HIDE DEF V
      <3> QED
        BY <3>1, <3>2
    <2>4. \A i \in 1..K : g[i] = IF i = 1 THEN seqs[i] ELSE g[i - 1] \o seqs[i]
      <3> TAKE i \in 1..K
      <3>1. g[i] = f[i] /\ (i # 1 => g[i - 1] = f[i - 1])
        BY <1>0
      <3> HIDE DEF g
      <3> QED
        BY <2>3, <3>1, Zenon
    <2>5. g = [i \in 1..K |-> IF i = 1 THEN seqs[i] ELSE g[i - 1] \o seqs[i]]
      <3>1. g = [i \in 1..K |-> g[i]]
        OBVIOUS
      <3> HIDE DEF g
      <3> QED
        BY <2>4, <3>1
    <2> DEFINE k == FlattenOf(seqs)
    <2>6. k = [i \in 1..K |-> IF i = 1 THEN seqs[i] ELSE k[i - 1] \o seqs[i]]
      <3> HIDE DEF g
      <3>1. \E flatten : flatten = [i \in 1..K |->
                                      IF i = 1 THEN seqs[i] ELSE flatten[i - 1] \o seqs[i]]
        BY <2>5
      <3> QED
        BY <3>1 DEF FlattenOf, K
    <2>7. FlattenSeq(seqs) = k[K]
      BY <1>2 DEF FlattenSeq, FlattenOf, K
    <2> HIDE DEF k
    <2>8. \A i \in 1..K : k[i] = IF i = 1 THEN seqs[i] ELSE k[i - 1] \o seqs[i]
      BY <2>6, Zenon
    <2> DEFINE h == [n \in 0..K |-> IF n = 0 THEN <<>> ELSE k[n]]
    <2>9. h[0] = <<>> /\ \A n \in 1..K : h[n] = k[n] /\ (n # 1 => h[n - 1] = k[n - 1])
      BY <1>0
    <2> HIDE DEF h
    <2>10. \A n \in 1..K : h[n - 1] \in V => h[n] \in V
      <3> SUFFICES ASSUME NEW n \in 1..K, h[n - 1] \in V PROVE h[n] \in V
        OBVIOUS
      <3>1. CASE n = 1
        <4>1. h[n] = seqs[n]
          BY <2>8, <2>9, <3>1, Zenon
        <4> HIDE DEF V
        <4> QED
          BY <1>0, <4>1
      <3>2. CASE n # 1
        <4>1. h[n] = h[n - 1] \o seqs[n]
          BY <2>8, <2>9, <3>2, Zenon
        <4>2. h[n - 1] \o seqs[n] \in V
          BY <1>0
        <4> QED
          BY <4>1, <4>2
      <3> QED
        BY <3>1, <3>2
    <2>11. \A n \in 0..K : h[n] \in V
      <3> HIDE DEF V
      <3> QED
        BY <1>0, <2>9, <2>10, RecursionStays
    <2>12. K \in 0..K /\ h[K] = k[K]
      BY <1>0, <1>2, <2>9
    <2> QED
      BY <2>7, <2>11, <2>12
  <1> QED
    BY <1>1, <1>2

-----------------------------------------------------------------------------
(* The knowledge base: the counts of a tactic.                              *)

TacticRow == [id : Nat \ {0}, good : Nat, bad : Nat, decay : 0..Top]
Told == [good : Nat, bad : Nat]

\* Rows have numbers of their own.
TacticTypes ==
  /\ DOMAIN plan = Writers /\ DOMAIN read = Writers
  /\ ids \in Nat
  /\ tactics \in [Keys -> {NoRow} \cup TacticRow]
  /\ \A k \in Keys : tactics[k] # NoRow => tactics[k].id <= ids
  /\ told \in [Keys -> Told]

\* A writer without a plan has read nothing.
ReadsInPlan == \A w \in Writers : plan[w] = <<>> => read[w] = Unread

\* The operation in whose course writer w has read a row of a tactic.
HasRead(w, k) ==
  /\ plan[w] # <<>> /\ read[w] # Unread /\ read[w] # NoRow
  /\ Head(plan[w]).do \in {"tactic", "reinforce"} /\ Head(plan[w]).key = k

\* What was read is a row that was made before; while that row is there, it was told as
\* much as was read.
ReadsOld ==
  \A w \in Writers, k \in Keys : HasRead(w, k) =>
    /\ read[w] \in TacticRow /\ read[w].id <= ids
    /\ tactics[k].id = read[w].id => /\ read[w].good <= told[k].good
                                     /\ read[w].bad <= told[k].bad

TacticInv == TacticTypes /\ ReadsInPlan /\ ReadsOld /\ CountsBounded

LEMMA TacticInit == KnowledgeInit => TacticInv
  BY DEF KnowledgeInit, TacticInv, TacticTypes, ReadsInPlan, ReadsOld, HasRead,
         CountsBounded, NoRow, Told

\* A row is not the absence of one.
LEMMA RowIsRow == \A row \in TacticRow : row # NoRow /\ row # Unread /\ row.id > 0
  BY DEF TacticRow, NoRow, Unread

\* A step that leaves the rows of the tactics alone, and takes no new row into account.
LEMMA TacticsAlone ==
  ASSUME TacticInv, DOMAIN plan' = Writers, DOMAIN read' = Writers,
         UNCHANGED <<tactics, ids, told, raced>>,
         \A w \in Writers : plan'[w] = <<>> => read'[w] = Unread,
         \A w \in Writers : \/ read'[w] = Unread
                            \/ /\ plan[w] # <<>> /\ Head(plan'[w]) = Head(plan[w])
                               /\ read'[w] = read[w]
  PROVE  TacticInv'
  <1>1. TacticTypes' /\ ReadsInPlan' /\ CountsBounded'
    BY DEF TacticInv, TacticTypes, ReadsInPlan, CountsBounded
  <1>2. ReadsOld'
    <2> SUFFICES ASSUME NEW w \in Writers, NEW k \in Keys, HasRead(w, k)'
                 PROVE  /\ read'[w] \in TacticRow /\ read'[w].id <= ids
                        /\ tactics[k].id = read'[w].id => /\ read'[w].good <= told[k].good
                                                          /\ read'[w].bad <= told[k].bad
      BY DEF ReadsOld
    <2>1. HasRead(w, k) /\ read'[w] = read[w]
      BY DEF HasRead
    <2> QED
      BY <2>1 DEF TacticInv, ReadsOld
  <1> QED
    BY <1>1, <1>2 DEF TacticInv

LEMMA SelectKeeps == ASSUME TacticInv, NEW w \in Writers, Select(w) PROVE TacticInv'
  <1>1. TacticTypes' /\ ReadsInPlan' /\ CountsBounded'
    BY DEF TacticInv, TacticTypes, ReadsInPlan, CountsBounded, Select, database
  <1>2. ReadsOld'
    <2> SUFFICES ASSUME NEW v \in Writers, NEW k \in Keys, HasRead(v, k)'
                 PROVE  /\ read'[v] \in TacticRow /\ read'[v].id <= ids
                        /\ tactics[k].id = read'[v].id => /\ read'[v].good <= told[k].good
                                                          /\ read'[v].bad <= told[k].bad
      BY DEF ReadsOld, Select, database
    <2>1. CASE v = w
      <3>1. Head(plan[w]).do \in {"tactic", "reinforce"} /\ Head(plan[w]).key = k
        BY <2>1 DEF HasRead, Select
      <3>2. Stored(Head(plan[w])) = tactics[k]
        BY <3>1 DEF Stored
      <3>3. read'[w] = tactics[k]
        BY <3>2 DEF Select, TacticInv, TacticTypes
      <3>4. tactics[k] # NoRow
        BY <2>1, <3>3 DEF HasRead
      <3>5. tactics[k] \in TacticRow /\ tactics[k].id <= ids
        BY <3>4 DEF TacticInv, TacticTypes
      <3>6. tactics[k].good <= told[k].good /\ tactics[k].bad <= told[k].bad
        BY <3>4 DEF TacticInv, CountsBounded
      <3> QED
        BY <2>1, <3>3, <3>5, <3>6
    <2>2. CASE v # w
      <3>1. HasRead(v, k) /\ read'[v] = read[v]
        BY <2>2 DEF HasRead, Select, TacticInv, TacticTypes
      <3> QED
        BY <3>1 DEF TacticInv, ReadsOld
    <2> QED
      BY <2>1, <2>2
  <1> QED
    BY <1>1, <1>2 DEF TacticInv

\* The writer w is done with an operation; what the others have read is as old as before
\* if rows only change in their counts, and what was told only grows.
LEMMA RowsChange ==
  ASSUME TacticInv, NEW w \in Writers, Done(w), TacticTypes', ids' >= ids,
         \A k \in Keys : tactics'[k].id \in {0, tactics[k].id} =>
             tactics'[k] = NoRow \/ (told'[k].good >= told[k].good
                                     /\ told'[k].bad >= told[k].bad),
         \A k \in Keys : tactics'[k].id \in {0, tactics[k].id} \/ tactics'[k].id > ids
  PROVE  ReadsInPlan' /\ ReadsOld'
  <1>1. ReadsInPlan'
    BY DEF Done, TacticInv, TacticTypes, ReadsInPlan
  <1>2. ReadsOld'
    <2> SUFFICES ASSUME NEW v \in Writers, NEW k \in Keys, HasRead(v, k)'
                 PROVE  /\ read'[v] \in TacticRow /\ read'[v].id <= ids'
                        /\ tactics'[k].id = read'[v].id => /\ read'[v].good <= told'[k].good
                                                           /\ read'[v].bad <= told'[k].bad
      BY DEF ReadsOld
    <2>1. v # w
      BY DEF HasRead, Done, TacticInv, TacticTypes
    <2>2. HasRead(v, k) /\ read'[v] = read[v]
      BY <2>1 DEF HasRead, Done, TacticInv, TacticTypes
    <2>3. /\ read[v] \in TacticRow /\ read[v].id <= ids
          /\ tactics[k].id = read[v].id => /\ read[v].good <= told[k].good
                                           /\ read[v].bad <= told[k].bad
      BY <2>2 DEF TacticInv, ReadsOld
    <2>4. told[k] \in Told /\ told'[k] \in Told /\ ids \in Nat /\ ids' \in Nat
      BY DEF TacticInv, TacticTypes
    <2>5. read[v].id \in Nat \ {0} /\ read[v].good \in Nat /\ read[v].bad \in Nat
      BY <2>3 DEF TacticRow
    <2>6. ASSUME tactics'[k].id = read[v].id
          PROVE  read[v].good <= told'[k].good /\ read[v].bad <= told'[k].bad
      <3>1. tactics'[k].id \notin {0} /\ ~(tactics'[k].id > ids)
        BY <2>6, <2>3, <2>4, <2>5
      <3>2. tactics'[k].id = tactics[k].id /\ tactics'[k] # NoRow
        BY <3>1 DEF NoRow
      <3>3. told'[k].good >= told[k].good /\ told'[k].bad >= told[k].bad
        BY <3>2
      <3> QED
        BY <2>3, <2>4, <2>5, <2>6, <3>2, <3>3 DEF Told
    <2> QED
      BY <2>2, <2>3, <2>4, <2>5, <2>6
  <1> QED
    BY <1>1, <1>2

LEMMA UpsertKeeps == ASSUME TacticInv, NEW w \in Writers, UpsertTactic(w) PROVE TacticInv'
  <1> DEFINE key == Head(plan[w]).key
             good == One(Head(plan[w]).ok)
             row == read[w]
             written(id, g, b) == [id |-> id, good |-> g, bad |-> b, decay |-> Fresh]
  <1>1. Done(w) /\ Ready(w, "tactic")
    BY DEF UpsertTactic
  <1>2. good \in {0, 1} /\ Fresh \in 0..Top
    BY KnowledgeAssumption DEF One
  <1>3. DOMAIN plan' = Writers /\ DOMAIN read' = Writers
    BY <1>1 DEF Done, TacticInv, TacticTypes
  <1>4. row # Unread /\ plan[w] # <<>> /\ Head(plan[w]).do = "tactic"
    BY <1>1 DEF Ready, Doing
  <1>5. CASE /\ row # NoRow /\ RowStays(key, row) /\ UNCHANGED ids
             /\ tactics' = [tactics EXCEPT
                  ![key] = written(@.id, row.good + good, row.bad + 1 - good)]
             /\ told' = [told EXCEPT ![key] = [good |-> @.good + good, bad |-> @.bad + 1 - good]]
             /\ raced' = IF <<tactics[key].good, tactics[key].bad>> # <<row.good, row.bad>>
                         THEN raced \cup {key} ELSE raced
    <2>1. ASSUME NEW k \in Keys, k # key
          PROVE  tactics'[k] = tactics[k] /\ told'[k] = told[k] /\ (k \in raced' <=> k \in raced)
      BY <1>5, <2>1 DEF TacticInv, TacticTypes
    <2>2. ASSUME NEW k \in Keys, k = key
          PROVE  /\ row \in TacticRow /\ tactics[k] \in TacticRow
                 /\ tactics[k].id = row.id /\ tactics[k].id <= ids
                 /\ row.good <= told[k].good /\ row.bad <= told[k].bad
                 /\ tactics'[k] = written(row.id, row.good + good, row.bad + 1 - good)
                 /\ told'[k] = [good |-> told[k].good + good, bad |-> told[k].bad + 1 - good]
      <3>1. HasRead(w, k)
        BY <1>4, <1>5, <2>2 DEF HasRead
      <3>2. row \in TacticRow /\ tactics[k].id = row.id
        BY <1>5, <2>2, <3>1 DEF TacticInv, ReadsOld, RowStays
      <3>3. tactics[k] # NoRow
        BY <3>2 DEF TacticRow, NoRow
      <3> QED
        BY <1>5, <2>2, <3>1, <3>2, <3>3 DEF TacticInv, TacticTypes, ReadsOld
    <2>3. ASSUME NEW k \in Keys
          PROVE  /\ tactics'[k] \in {NoRow} \cup TacticRow
                 /\ tactics'[k] # NoRow => tactics'[k].id <= ids'
                 /\ told'[k] \in Told /\ tactics'[k].id = tactics[k].id
                 /\ told'[k].good >= told[k].good /\ told'[k].bad >= told[k].bad
      <3>0. told[k] \in Told
        BY DEF TacticInv, TacticTypes
      <3>1. CASE k = key
        BY <1>2, <1>5, <2>2, <3>0, <3>1 DEF TacticRow, Told
      <3>2. CASE k # key
        BY <1>5, <2>1, <3>0, <3>2 DEF TacticInv, TacticTypes, Told
      <3> QED
        BY <3>1, <3>2
    <2>4. TacticTypes'
      <3>1. tactics' \in [Keys -> {NoRow} \cup TacticRow]
        BY <1>5, <2>3 DEF TacticInv, TacticTypes
      <3>2. told' \in [Keys -> Told]
        BY <1>5, <2>3 DEF TacticInv, TacticTypes
      <3> QED
        BY <1>3, <1>5, <2>3, <3>1, <3>2 DEF TacticInv, TacticTypes
    <2>5. ReadsInPlan' /\ ReadsOld'
      <3>1. ids' >= ids
        BY <1>5 DEF TacticInv, TacticTypes
      <3> QED
        BY <1>1, <2>3, <2>4, <3>1, RowsChange
    <2>6. ASSUME NEW k \in Keys, tactics'[k] # NoRow
          PROVE  /\ tactics'[k].good <= told'[k].good /\ tactics'[k].bad <= told'[k].bad
                 /\ k \notin raced' => /\ tactics'[k].good = told'[k].good
                                       /\ tactics'[k].bad = told'[k].bad
      <3>0. told[k] \in Told
        BY DEF TacticInv, TacticTypes
      <3>1. CASE k = key
        <4>0. /\ tactics'[k] = written(row.id, row.good + good, row.bad + 1 - good)
              /\ told'[k] = [good |-> told[k].good + good, bad |-> told[k].bad + 1 - good]
              /\ row \in TacticRow /\ tactics[k] \in TacticRow
              /\ row.good <= told[k].good /\ row.bad <= told[k].bad
          BY <2>2, <3>1
        <4>1. tactics'[k].good = row.good + good /\ tactics'[k].bad = row.bad + 1 - good
          BY <4>0
        <4>2. told'[k].good = told[k].good + good /\ told'[k].bad = told[k].bad + 1 - good
          BY <4>0
        <4>3. /\ row.good \in Nat /\ row.bad \in Nat
              /\ told[k].good \in Nat /\ told[k].bad \in Nat
          BY <3>0, <4>0 DEF TacticRow, Told
        <4>4. k \notin raced' => /\ k \notin raced
                                 /\ tactics[k].good = row.good /\ tactics[k].bad = row.bad
          BY <1>5, <3>1
        <4>5. tactics[k] # NoRow
          BY <4>0, RowIsRow
        <4>6. k \notin raced => tactics[k].good = told[k].good /\ tactics[k].bad = told[k].bad
          BY <4>5 DEF TacticInv, CountsBounded
        <4> QED
          BY <1>2, <4>0, <4>1, <4>2, <4>3, <4>4, <4>6
      <3>2. CASE k # key
        BY <2>1, <2>6, <3>2 DEF TacticInv, CountsBounded
      <3> QED
        BY <3>1, <3>2
    <2> QED
      BY <2>4, <2>5, <2>6 DEF TacticInv, CountsBounded
  <1>6. CASE UNCHANGED <<tactics, ids, told, raced>>
    <2>1. TacticTypes' /\ CountsBounded'
      BY <1>3, <1>6 DEF TacticInv, TacticTypes, CountsBounded
    <2>2. ids' >= ids /\ \A k \in Keys : told[k].good \in Nat /\ told[k].bad \in Nat
      BY <1>6 DEF TacticInv, TacticTypes, Told
    <2>3. ReadsInPlan' /\ ReadsOld'
      BY <1>1, <1>6, <2>1, <2>2, RowsChange
    <2> QED
      BY <2>1, <2>3 DEF TacticInv
  <1>7. CASE /\ row = NoRow /\ tactics[key] = NoRow /\ ids' = ids + 1
             /\ tactics' = [tactics EXCEPT ![key] = written(ids', good, 1 - good)]
             /\ told' = [told EXCEPT ![key] = [good |-> good, bad |-> 1 - good]]
             /\ raced' = raced \ {key}
    <2>0. ids \in Nat /\ ids' \in Nat
      BY <1>7 DEF TacticInv, TacticTypes
    <2>1. ASSUME NEW k \in Keys, k # key
          PROVE  tactics'[k] = tactics[k] /\ told'[k] = told[k] /\ (k \in raced' <=> k \in raced)
      BY <1>7, <2>1 DEF TacticInv, TacticTypes
    <2>2. ASSUME NEW k \in Keys, k = key
          PROVE  /\ tactics'[k] = written(ids + 1, good, 1 - good)
                 /\ told'[k] = [good |-> good, bad |-> 1 - good]
      BY <1>7, <2>2 DEF TacticInv, TacticTypes
    <2>3. ASSUME NEW k \in Keys
          PROVE  /\ tactics'[k] \in {NoRow} \cup TacticRow
                 /\ tactics'[k] # NoRow => tactics'[k].id <= ids'
                 /\ told'[k] \in Told
                 /\ \/ tactics'[k].id > ids
                    \/ tactics'[k] = tactics[k] /\ told'[k] = told[k]
      <3>1. CASE k = key
        BY <1>2, <1>7, <2>0, <2>2, <3>1 DEF TacticRow, Told
      <3>2. CASE k # key
        BY <1>7, <2>0, <2>1, <3>2 DEF TacticInv, TacticTypes, TacticRow
      <3> QED
        BY <3>1, <3>2
    <2>4. TacticTypes'
      <3>1. tactics' \in [Keys -> {NoRow} \cup TacticRow]
        BY <1>7, <2>3 DEF TacticInv, TacticTypes
      <3>2. told' \in [Keys -> Told]
        BY <1>7, <2>3 DEF TacticInv, TacticTypes
      <3> QED
        BY <1>3, <2>0, <2>3, <3>1, <3>2 DEF TacticInv, TacticTypes
    <2>5. ReadsInPlan' /\ ReadsOld'
      <3>1. ids' >= ids
        BY <1>7, <2>0
      <3>2. ASSUME NEW k \in Keys, tactics'[k].id \in {0, tactics[k].id}
            PROVE  tactics'[k] = NoRow \/ (told'[k].good >= told[k].good
                                           /\ told'[k].bad >= told[k].bad)
        <4>1. told[k] \in Told /\ tactics[k] \in {NoRow} \cup TacticRow
          BY DEF TacticInv, TacticTypes
        <4>2. CASE tactics'[k] = tactics[k] /\ told'[k] = told[k]
          BY <4>1, <4>2 DEF Told
        <4>3. CASE tactics'[k].id > ids
          <5>1. tactics'[k].id = tactics[k].id /\ tactics[k] # NoRow
            BY <2>0, <3>2, <4>3 DEF NoRow
          <5> QED
            BY <2>0, <4>1, <4>3, <5>1 DEF TacticInv, TacticTypes, TacticRow
        <4> QED
          BY <2>3, <4>2, <4>3
      <3>3. \A k \in Keys : tactics'[k].id \in {0, tactics[k].id} \/ tactics'[k].id > ids
        BY <2>3
      <3> QED
        BY <1>1, <2>4, <3>1, <3>2, <3>3, RowsChange
    <2>6. ASSUME NEW k \in Keys, tactics'[k] # NoRow
          PROVE  /\ tactics'[k].good <= told'[k].good /\ tactics'[k].bad <= told'[k].bad
                 /\ k \notin raced' => /\ tactics'[k].good = told'[k].good
                                       /\ tactics'[k].bad = told'[k].bad
      <3>1. CASE k = key
        BY <1>2, <2>2, <3>1
      <3>2. CASE k # key
        BY <2>1, <2>6, <3>2 DEF TacticInv, CountsBounded
      <3> QED
        BY <3>1, <3>2
    <2> QED
      BY <2>4, <2>5, <2>6 DEF TacticInv, CountsBounded
  <1> QED
    BY <1>5, <1>6, <1>7 DEF UpsertTactic

LEMMA ReinforceKeeps == ASSUME TacticInv, NEW w \in Writers, Reinforce(w) PROVE TacticInv'
  <1> DEFINE key == Head(plan[w]).key
             row == read[w]
  <1>1. Done(w) /\ Ready(w, "reinforce") /\ UNCHANGED <<ids, told, raced>>
    BY DEF Reinforce
  <1>2. DOMAIN plan' = Writers /\ DOMAIN read' = Writers
    BY <1>1 DEF Done, TacticInv, TacticTypes
  <1>3. ASSUME NEW k \in Keys
        PROVE  \/ tactics'[k] = tactics[k]
               \/ /\ tactics[k] \in TacticRow /\ tactics'[k] \in TacticRow
                  /\ tactics'[k].id = tactics[k].id
                  /\ tactics'[k].good = tactics[k].good /\ tactics'[k].bad = tactics[k].bad
    <2>1. CASE k = key /\ row # NoRow /\ tactics[key].id = row.id
      <3>1. HasRead(w, k)
        BY <1>1, <2>1 DEF HasRead, Ready, Doing
      <3>2. row \in TacticRow /\ tactics[k] \in TacticRow
        <4>1. row \in TacticRow
          BY <3>1 DEF TacticInv, ReadsOld
        <4>2. tactics[k] # NoRow
          BY <2>1, <4>1 DEF TacticRow, NoRow
        <4> QED
          BY <4>1, <4>2 DEF TacticInv, TacticTypes
      <3> DEFINE level == row.decay + (IF Head(plan[w]).up THEN 1 ELSE -1)
                 capped == IF level > Top THEN Top ELSE IF level < 0 THEN 0 ELSE level
      <3>3. capped \in 0..Top
        <4>1. Top \in Nat
          BY KnowledgeAssumption
        <4>2. row.decay \in 0..Top
          BY <3>2 DEF TacticRow
        <4>3. level \in Int
          BY <4>1, <4>2
        <4> HIDE DEF level
        <4> QED
          BY <4>1, <4>3
      <3>4. tactics'[k] = [tactics[k] EXCEPT !.decay = capped]
        BY <2>1 DEF Reinforce, TacticInv, TacticTypes
      <3> HIDE DEF capped
      <3> QED
        BY <3>2, <3>3, <3>4 DEF TacticRow
    <2>2. CASE ~(k = key /\ row # NoRow /\ tactics[key].id = row.id)
      BY <2>2 DEF Reinforce, TacticInv, TacticTypes
    <2> QED
      BY <2>1, <2>2
  <1>4. TacticTypes'
    <2>1. DOMAIN tactics' = Keys
      BY DEF Reinforce, TacticInv, TacticTypes
    <2>2. tactics' = [k \in Keys |-> tactics'[k]]
      <3>1. CASE row # NoRow /\ tactics[key].id = row.id
        BY <3>1 DEF Reinforce, TacticInv, TacticTypes
      <3>2. CASE ~(row # NoRow /\ tactics[key].id = row.id)
        BY <3>2 DEF Reinforce, TacticInv, TacticTypes
      <3> QED
        BY <3>1, <3>2
    <2>3. tactics' \in [Keys -> {NoRow} \cup TacticRow]
      BY <1>3, <2>2 DEF TacticInv, TacticTypes
    <2>4. \A k \in Keys : tactics'[k] # NoRow => tactics'[k].id <= ids'
      BY <1>1, <1>3, RowIsRow DEF TacticInv, TacticTypes
    <2> QED
      BY <1>1, <1>2, <2>3, <2>4 DEF TacticInv, TacticTypes
  <1>5. ReadsInPlan' /\ ReadsOld'
    <2>1. \A k \in Keys : tactics'[k].id = tactics[k].id
      BY <1>3
    <2>2. ids' >= ids
      BY <1>1 DEF TacticInv, TacticTypes
    <2>3. \A k \in Keys : told'[k].good >= told[k].good /\ told'[k].bad >= told[k].bad
      BY <1>1 DEF TacticInv, TacticTypes, Told
    <2> QED
      BY <1>1, <1>4, <2>1, <2>2, <2>3, RowsChange
  <1>6. CountsBounded'
    BY <1>1, <1>3, RowIsRow DEF TacticInv, CountsBounded
  <1> QED
    BY <1>4, <1>5, <1>6 DEF TacticInv

\* decay_all and gc_stale lower a row or remove it.
LEMMA UpkeepKeeps == ASSUME TacticInv, DecayAll \/ GcStale PROVE TacticInv'
  <1>1. UNCHANGED <<plan, read, ids, told, raced>>
    BY DEF DecayAll, GcStale
  <1>2. ASSUME NEW k \in Keys
        PROVE  \/ tactics'[k] = tactics[k] \/ tactics'[k] = NoRow
               \/ /\ tactics[k] \in TacticRow /\ tactics'[k] \in TacticRow
                  /\ tactics'[k].id = tactics[k].id
                  /\ tactics'[k].good = tactics[k].good /\ tactics'[k].bad = tactics[k].bad
    <2>1. CASE DecayAll
      <3>1. \/ tactics'[k] = tactics[k]
            \/ /\ tactics[k] # NoRow /\ tactics[k].decay > 0
               /\ tactics'[k] = [tactics[k] EXCEPT !.decay = @ - 1]
        BY <2>1 DEF DecayAll, Lower
      <3> QED
        <4>1. Top \in Nat
          BY KnowledgeAssumption
        <4> QED
          BY <3>1, <4>1 DEF TacticInv, TacticTypes, TacticRow
    <2>2. CASE GcStale
      BY <2>2 DEF GcStale
    <2> QED
      BY <2>1, <2>2
  <1>3. TacticTypes'
    <2>1. tactics' = [k \in Keys |-> tactics'[k]]
      BY DEF DecayAll, GcStale
    <2>2. tactics' \in [Keys -> {NoRow} \cup TacticRow]
      BY <1>2, <2>1 DEF TacticInv, TacticTypes
    <2>3. \A k \in Keys : tactics'[k] # NoRow => tactics'[k].id <= ids'
      BY <1>1, <1>2, RowIsRow DEF TacticInv, TacticTypes
    <2> QED
      BY <1>1, <2>2, <2>3 DEF TacticInv, TacticTypes
  <1>4. ReadsInPlan'
    BY <1>1 DEF TacticInv, ReadsInPlan
  <1>5. ReadsOld'
    <2> SUFFICES ASSUME NEW w \in Writers, NEW k \in Keys, HasRead(w, k)
                 PROVE  /\ read[w] \in TacticRow /\ read[w].id <= ids
                        /\ tactics'[k].id = read[w].id => /\ read[w].good <= told[k].good
                                                          /\ read[w].bad <= told[k].bad
      BY <1>1 DEF ReadsOld, HasRead
    <2>1. /\ read[w] \in TacticRow /\ read[w].id <= ids
          /\ tactics[k].id = read[w].id => /\ read[w].good <= told[k].good
                                           /\ read[w].bad <= told[k].bad
      BY DEF TacticInv, ReadsOld
    <2>2. read[w].id > 0 /\ NoRow.id = 0
      BY <2>1, RowIsRow DEF NoRow
    <2> QED
      BY <1>2, <2>1, <2>2
  <1>6. CountsBounded'
    BY <1>1, <1>2, RowIsRow DEF TacticInv, CountsBounded
  <1> QED
    BY <1>3, <1>4, <1>5, <1>6 DEF TacticInv

LEMMA OneHead == \A x : <<x>> # <<>> /\ Head(<<x>>) = x
  OBVIOUS

LEMMA KnowledgeKeeps == ASSUME TacticInv, KnowledgeNext PROVE TacticInv'
  <1> USE DEF database
  <1>0. /\ DOMAIN plan = Writers /\ DOMAIN read = Writers
        /\ \A w \in Writers : plan[w] = <<>> => read[w] = Unread
    BY DEF TacticInv, TacticTypes, ReadsInPlan
  <1>1. ASSUME NEW w \in Writers, NEW p, Begin(w, p) PROVE TacticInv'
    <2>1. DOMAIN plan' = Writers /\ UNCHANGED <<read, tactics, ids, told, raced>>
      BY <1>0, <1>1 DEF Begin
    <2>2. plan' = [plan EXCEPT ![w] = p] /\ plan[w] = <<>>
      BY <1>1 DEF Begin
    <2>3. \A v \in Writers : /\ read'[v] = read[v]
                             /\ plan[v] = <<>> => read'[v] = Unread
                             /\ plan[v] # <<>> => plan'[v] = plan[v]
      BY <1>0, <2>1, <2>2
    <2> QED
      BY <1>0, <2>1, <2>3, TacticsAlone
  <1>2. ASSUME NEW w \in Writers, Select(w) PROVE TacticInv'
    BY <1>2, SelectKeeps
  <1>3. ASSUME NEW w \in Writers, Fails(w) \/ Crashes(w) PROVE TacticInv'
    <2>1. DOMAIN plan' = Writers /\ DOMAIN read' = Writers /\ UNCHANGED <<tactics, ids, told, raced>>
      BY <1>0, <1>3 DEF Fails, Crashes
    <2>2. \A v \in Writers : \/ read'[v] = Unread
                             \/ plan'[v] = plan[v] /\ read'[v] = read[v]
      BY <1>0, <1>3 DEF Fails, Crashes
    <2> QED
      BY <1>0, <2>1, <2>2, TacticsAlone
  <1>4. ASSUME NEW w \in Writers, Cancelled(w) PROVE TacticInv'
    <2>1. DOMAIN plan' = Writers /\ UNCHANGED <<read, tactics, ids, told, raced>>
      BY <1>0, <1>4 DEF Cancelled
    <2>2. plan' = [plan EXCEPT ![w] = <<Head(@)>>] /\ plan[w] # <<>>
      BY <1>4 DEF Cancelled
    <2>3. \A v \in Writers : \/ plan'[v] = plan[v]
                             \/ /\ plan[v] # <<>> /\ plan'[v] # <<>>
                                /\ Head(plan'[v]) = Head(plan[v])
      <3>1. \A v \in Writers : \/ plan'[v] = plan[v]
                               \/ plan[v] # <<>> /\ plan'[v] = <<Head(plan[v])>>
        BY <1>0, <2>2
      <3> QED
        BY <3>1, OneHead
    <2> QED
      BY <1>0, <2>1, <2>3, TacticsAlone
  <1>5. ASSUME NEW w \in Writers, RecordTrace(w) \/ UpsertError(w) \/ AddLemma(w) PROVE TacticInv'
    <2>1. Done(w) /\ UNCHANGED <<tactics, ids, told, raced>>
      BY <1>5 DEF RecordTrace, UpsertError, AddLemma
    <2>2. DOMAIN plan' = Writers /\ DOMAIN read' = Writers
      BY <1>0, <2>1 DEF Done
    <2>3. \A v \in Writers : \/ read'[v] = Unread
                             \/ plan'[v] = plan[v] /\ read'[v] = read[v]
      BY <1>0, <2>1 DEF Done
    <2> QED
      BY <1>0, <2>1, <2>2, <2>3, TacticsAlone
  <1>6. ASSUME NEW w \in Writers, Ingest(w) PROVE TacticInv'
    BY <1>1, <1>6 DEF Ingest
  <1>7. ASSUME NEW w \in Writers, NEW k \in Keys, NEW up \in BOOLEAN, Reward(w, k, up)
        PROVE  TacticInv'
    BY <1>1, <1>7 DEF Reward
  <1>8. ASSUME NEW c \in Contexts, DeleteContext(c) PROVE TacticInv'
    <2>1. UNCHANGED <<plan, read, tactics, ids, told, raced>>
      BY <1>8 DEF DeleteContext
    <2> QED
      BY <1>0, <2>1, TacticsAlone
  <1> QED
    BY <1>2, <1>3, <1>4, <1>5, <1>6, <1>7, <1>8, UpsertKeeps, ReinforceKeeps, UpkeepKeeps
       DEF KnowledgeNext

-----------------------------------------------------------------------------
(* The knowledge base: the citations of a lemma.                            *)

\* A lemma that was made: its row stays.
Made(row) == /\ {"id", "cited", "decay", "stale"} \subseteq DOMAIN row
             /\ row.id = 1 /\ row.cited \in Nat

LemmaTypes ==
  /\ DOMAIN plan = Writers /\ DOMAIN read = Writers
  /\ DOMAIN lemmas = Lemmas /\ added \in [Lemmas -> Nat]
  /\ \A l \in Lemmas : lemmas[l] = NoRow \/ Made(lemmas[l])

\* Who has read the row of a lemma will find one.
ReadsMade ==
  \A w \in Writers, l \in Lemmas :
    /\ plan[w] # <<>> /\ read[w] # Unread /\ read[w] # NoRow
    /\ Head(plan[w]).do = "lemma" /\ Head(plan[w]).lemma = l
    => lemmas[l] # NoRow

LemmaInv == LemmaTypes /\ ReadsInPlan /\ ReadsMade /\ CitationsExact

LEMMA LemmaInit == KnowledgeInit => LemmaInv
  BY DEF KnowledgeInit, LemmaInv, LemmaTypes, ReadsInPlan, ReadsMade, CitationsExact

LEMMA MadeIsRow == \A row : Made(row) => row # NoRow
  BY DEF Made, NoRow

\* The row of lemma l keeps its citations.
Keeps(l) == \/ lemmas'[l] = lemmas[l]
            \/ /\ Made(lemmas[l]) /\ Made(lemmas'[l])
               /\ lemmas'[l].cited = lemmas[l].cited

\* A step that removes no lemma and counts none.
LEMMA LemmasStay ==
  ASSUME LemmaInv, DOMAIN plan' = Writers, DOMAIN read' = Writers, DOMAIN lemmas' = Lemmas,
         UNCHANGED added,
         \A l \in Lemmas : Keeps(l),
         \A w \in Writers : plan'[w] = <<>> => read'[w] = Unread,
         \A w \in Writers : \/ read'[w] = Unread
                            \/ /\ plan[w] # <<>> /\ Head(plan'[w]) = Head(plan[w])
                               /\ read'[w] = read[w]
  PROVE  LemmaInv'
  <1>1. LemmaTypes'
    BY DEF LemmaInv, LemmaTypes, Keeps
  <1>2. \A l \in Lemmas : lemmas'[l] = NoRow <=> lemmas[l] = NoRow
    BY MadeIsRow DEF Keeps
  <1>3. ReadsInPlan' /\ ReadsMade'
    BY <1>2 DEF LemmaInv, ReadsInPlan, ReadsMade
  <1>4. CitationsExact'
    BY <1>2 DEF LemmaInv, CitationsExact, Keeps
  <1> QED
    BY <1>1, <1>3, <1>4 DEF LemmaInv

\* A step that leaves the lemmas alone.
LEMMA LemmasAlone ==
  ASSUME LemmaInv, DOMAIN plan' = Writers, DOMAIN read' = Writers,
         UNCHANGED <<lemmas, added>>,
         \A w \in Writers : plan'[w] = <<>> => read'[w] = Unread,
         \A w \in Writers : \/ read'[w] = Unread
                            \/ /\ plan[w] # <<>> /\ Head(plan'[w]) = Head(plan[w])
                               /\ read'[w] = read[w]
  PROVE  LemmaInv'
  <1>1. DOMAIN lemmas' = Lemmas /\ \A l \in Lemmas : Keeps(l)
    BY DEF LemmaInv, LemmaTypes, Keeps
  <1> QED
    BY <1>1, LemmasStay

LEMMA AddLemmaKeeps == ASSUME LemmaInv, NEW w \in Writers, AddLemma(w) PROVE LemmaInv'
  <1> DEFINE l == Head(plan[w]).lemma
             row == lemmas[l]
  <1>1. Done(w) /\ plan[w] # <<>> /\ read[w] # Unread /\ Head(plan[w]).do = "lemma"
    BY DEF AddLemma, Ready, Doing
  <1>2. DOMAIN plan' = Writers /\ DOMAIN read' = Writers /\ DOMAIN lemmas' = Lemmas
    BY <1>1 DEF Done, LemmaInv, LemmaTypes, AddLemma
  <1>3. ASSUME NEW k \in Lemmas, k # l PROVE lemmas'[k] = lemmas[k] /\ added'[k] = added[k]
    BY <1>3 DEF AddLemma, LemmaInv, LemmaTypes
  <1>4. ASSUME l \in Lemmas
        PROVE  /\ Made(lemmas'[l]) /\ added'[l] = added[l] + 1
               /\ lemmas'[l].cited = added'[l] - 1
    <2>1. added'[l] = added[l] + 1 /\ added[l] \in Nat
      BY <1>4 DEF AddLemma, LemmaInv, LemmaTypes
    <2>2. CASE read[w] = NoRow
      <3>1. row = NoRow
        BY <2>2 DEF AddLemma
      <3>2. lemmas'[l] = [id |-> 1, cited |-> 0, decay |-> Fresh, stale |-> FALSE,
                          from |-> source[w]]
        BY <1>4, <2>2 DEF AddLemma, LemmaInv, LemmaTypes
      <3>3. added[l] = 0
        BY <1>4, <3>1 DEF LemmaInv, CitationsExact
      <3> QED
        BY <2>1, <3>2, <3>3 DEF Made
    <2>3. CASE read[w] # NoRow
      <3>1. row # NoRow
        BY <1>1, <1>4, <2>3 DEF LemmaInv, ReadsMade
      <3>2. Made(row) /\ row.cited = added[l] - 1
        BY <1>4, <3>1 DEF LemmaInv, LemmaTypes, CitationsExact
      <3>3. lemmas'[l] = [row EXCEPT !.cited = row.cited + 1, !.decay = Fresh]
        BY <1>4, <2>3 DEF AddLemma, LemmaInv, LemmaTypes, Cited
      <3> QED
        BY <2>1, <3>2, <3>3 DEF Made
    <2> QED
      BY <2>2, <2>3
  <1>5. LemmaTypes'
    <2>1. added' \in [Lemmas -> Nat]
      <3>1. added' = [added EXCEPT ![l] = @ + 1] /\ added \in [Lemmas -> Nat]
        BY DEF AddLemma, LemmaInv, LemmaTypes
      <3>2. \A k \in Lemmas : added[k] \in Nat /\ added[k] + 1 \in Nat
        BY <3>1
      <3> HIDE DEF l
      <3> QED
        BY <3>1, <3>2
    <2>2. \A k \in Lemmas : lemmas'[k] = NoRow \/ Made(lemmas'[k])
      BY <1>3, <1>4 DEF LemmaInv, LemmaTypes
    <2> QED
      BY <1>2, <2>1, <2>2 DEF LemmaTypes
  <1>6. ReadsInPlan'
    BY <1>1 DEF Done, LemmaInv, LemmaTypes, ReadsInPlan
  <1>7. ReadsMade'
    <2>1. \A k \in Lemmas : lemmas[k] # NoRow => lemmas'[k] # NoRow
      BY <1>3, <1>4, MadeIsRow
    <2>2. \A v \in Writers : \/ read'[v] = Unread
                             \/ plan'[v] = plan[v] /\ read'[v] = read[v]
      <3>1. DOMAIN plan = Writers /\ DOMAIN read = Writers
        BY DEF LemmaInv, LemmaTypes
      <3> QED
        BY <1>1, <3>1 DEF Done
    <2> QED
      BY <2>1, <2>2 DEF LemmaInv, ReadsMade
  <1>8. CitationsExact'
    BY <1>3, <1>4, MadeIsRow DEF LemmaInv, CitationsExact
  <1> QED
    BY <1>5, <1>6, <1>7, <1>8 DEF LemmaInv

LEMMA SelectLemma == ASSUME LemmaInv, NEW w \in Writers, Select(w) PROVE LemmaInv'
  <1>1. LemmaTypes' /\ ReadsInPlan' /\ CitationsExact'
    BY DEF LemmaInv, LemmaTypes, ReadsInPlan, CitationsExact, Select, database
  <1>2. ReadsMade'
    <2> SUFFICES ASSUME NEW v \in Writers, NEW l \in Lemmas,
                        plan[v] # <<>>, read'[v] # Unread, read'[v] # NoRow,
                        Head(plan[v]).do = "lemma", Head(plan[v]).lemma = l
                 PROVE  lemmas[l] # NoRow
      BY DEF ReadsMade, Select, database
    <2>1. CASE v = w
      <3>1. Stored(Head(plan[w])) = lemmas[l]
        BY <2>1 DEF Stored
      <3> QED
        BY <2>1, <3>1 DEF Select, LemmaInv, LemmaTypes
    <2>2. CASE v # w
      <3>1. read'[v] = read[v]
        BY <2>2 DEF Select, LemmaInv, LemmaTypes
      <3> QED
        BY <3>1 DEF LemmaInv, ReadsMade
    <2> QED
      BY <2>1, <2>2
  <1> QED
    BY <1>1, <1>2 DEF LemmaInv

LEMMA KnowledgeKeepsLemmas == ASSUME LemmaInv, KnowledgeNext PROVE LemmaInv'
  <1> USE DEF database
  <1>0. /\ DOMAIN plan = Writers /\ DOMAIN read = Writers /\ DOMAIN lemmas = Lemmas
        /\ \A w \in Writers : plan[w] = <<>> => read[w] = Unread
    BY DEF LemmaInv, LemmaTypes, ReadsInPlan
  <1>1. ASSUME NEW w \in Writers, NEW p, Begin(w, p) PROVE LemmaInv'
    <2>1. DOMAIN plan' = Writers /\ UNCHANGED <<read, lemmas, added>>
      BY <1>0, <1>1 DEF Begin
    <2>2. plan' = [plan EXCEPT ![w] = p] /\ plan[w] = <<>>
      BY <1>1 DEF Begin
    <2>3. \A v \in Writers : /\ read'[v] = read[v]
                             /\ plan[v] = <<>> => read'[v] = Unread
                             /\ plan[v] # <<>> => plan'[v] = plan[v]
      BY <1>0, <2>1, <2>2
    <2> QED
      BY <1>0, <2>1, <2>3, LemmasAlone
  <1>2. ASSUME NEW w \in Writers, Select(w) PROVE LemmaInv'
    BY <1>2, SelectLemma
  <1>3. ASSUME NEW w \in Writers, Fails(w) \/ Crashes(w) PROVE LemmaInv'
    <2>1. DOMAIN plan' = Writers /\ DOMAIN read' = Writers /\ UNCHANGED <<lemmas, added>>
      BY <1>0, <1>3 DEF Fails, Crashes
    <2>2. \A v \in Writers : \/ read'[v] = Unread
                             \/ plan'[v] = plan[v] /\ read'[v] = read[v]
      BY <1>0, <1>3 DEF Fails, Crashes
    <2> QED
      BY <1>0, <2>1, <2>2, LemmasAlone
  <1>4. ASSUME NEW w \in Writers, Cancelled(w) PROVE LemmaInv'
    <2>1. DOMAIN plan' = Writers /\ UNCHANGED <<read, lemmas, added>>
      BY <1>0, <1>4 DEF Cancelled
    <2>2. plan' = [plan EXCEPT ![w] = <<Head(@)>>] /\ plan[w] # <<>>
      BY <1>4 DEF Cancelled
    <2>3. \A v \in Writers : \/ plan'[v] = plan[v]
                             \/ /\ plan[v] # <<>> /\ plan'[v] # <<>>
                                /\ Head(plan'[v]) = Head(plan[v])
      <3>1. \A v \in Writers : \/ plan'[v] = plan[v]
                               \/ plan[v] # <<>> /\ plan'[v] = <<Head(plan[v])>>
        BY <1>0, <2>2
      <3> QED
        BY <3>1, OneHead
    <2> QED
      BY <1>0, <2>1, <2>3, LemmasAlone
  <1>5. ASSUME NEW w \in Writers,
               RecordTrace(w) \/ UpsertError(w) \/ UpsertTactic(w) \/ Reinforce(w)
        PROVE  LemmaInv'
    <2>1. Done(w) /\ UNCHANGED <<lemmas, added>>
      BY <1>5 DEF RecordTrace, UpsertError, UpsertTactic, Reinforce
    <2>2. DOMAIN plan' = Writers /\ DOMAIN read' = Writers
      BY <1>0, <2>1 DEF Done
    <2>3. \A v \in Writers : \/ read'[v] = Unread
                             \/ plan'[v] = plan[v] /\ read'[v] = read[v]
      BY <1>0, <2>1 DEF Done
    <2> QED
      BY <1>0, <2>1, <2>2, <2>3, LemmasAlone
  <1>6. ASSUME NEW w \in Writers, Ingest(w) PROVE LemmaInv'
    BY <1>1, <1>6 DEF Ingest
  <1>7. ASSUME NEW w \in Writers, NEW k \in Keys, NEW up \in BOOLEAN, Reward(w, k, up)
        PROVE  LemmaInv'
    BY <1>1, <1>7 DEF Reward
  <1>8. ASSUME DecayAll \/ GcStale PROVE LemmaInv'
    <2>1. UNCHANGED <<plan, read, added>> /\ DOMAIN lemmas' = Lemmas
      BY <1>8 DEF DecayAll, GcStale
    <2>2. ASSUME NEW l \in Lemmas PROVE Keeps(l)
      <3>1. lemmas[l] = NoRow \/ Made(lemmas[l])
        BY DEF LemmaInv, LemmaTypes
      <3>2. \/ lemmas'[l] = lemmas[l]
            \/ /\ lemmas[l] # NoRow
               /\ \/ lemmas'[l] = [lemmas[l] EXCEPT !.decay = @ - 1]
                  \/ lemmas'[l] = [lemmas[l] EXCEPT !.stale = TRUE]
        BY <1>8 DEF DecayAll, GcStale, Lower
      <3> QED
        BY <3>1, <3>2 DEF Made, Keeps
    <2> QED
      BY <1>0, <2>1, <2>2, LemmasStay
  <1>9. ASSUME NEW c \in Contexts, DeleteContext(c) PROVE LemmaInv'
    <2>1. UNCHANGED <<plan, read, lemmas, added>>
      BY <1>9 DEF DeleteContext
    <2>2. \A w \in Writers : \/ read[w] = Unread
                             \/ plan[w] # <<>>
      BY <1>0
    <2> QED
      BY <1>0, <2>1, <2>2, LemmasAlone
  <1> QED
    BY <1>2, <1>3, <1>4, <1>5, <1>6, <1>7, <1>8, <1>9, AddLemmaKeeps DEF KnowledgeNext

-----------------------------------------------------------------------------
(* The knowledge base: the trace of a lemma.                                *)

Step == [key : Keys, env : BOOLEAN, error : BOOLEAN, have : Lemmas \cup {NoLemma}]

\* The operations that need no trace, and those that follow the trace of a.
Plain == {op \in Operation : op.do \in {"tactic", "error", "reinforce"}}
Part(a) == {op \in Operation : /\ op.do # "trace"
                               /\ op.do = "lemma" => Proves(a, op.lemma)}

\* What writer w has to do rests on nothing, on a trace it will record first, or on the
\* one it has recorded.
PlanSound(p, s, recorded) ==
  \/ p \in Seq(Plain)
  \/ \E a \in Attempts : \E rest \in Seq(Part(a)) : p = <<TraceOf(a)>> \o rest
  \/ s \in 1..Len(recorded) /\ p \in Seq(Part(recorded[s]))

\* The rows of lemmas, with marks in B; a change of one, and a new one.
RowsOver(B) == [id : {1}, cited : Nat, decay : 0..Top, stale : B, from : Nat \ {0}]
LemmaRow == RowsOver(BOOLEAN)

Changed(row, c, d) == [row EXCEPT !.cited = c, !.decay = d]
Decayed(row, d) == [row EXCEPT !.decay = d]
Marked(row, b) == [row EXCEPT !.stale = b]

RowFacts(row, B) ==
  /\ \A c \in Nat, d \in 0..Top : /\ Changed(row, c, d) \in RowsOver(B)
                                  /\ Changed(row, c, d).from = row.from
                                  /\ Decayed(row, d) \in RowsOver(B)
                                  /\ Decayed(row, d).from = row.from
  /\ \A b \in B : Marked(row, b) \in RowsOver(B) /\ Marked(row, b).from = row.from
  /\ row.cited \in Nat /\ row.decay \in 0..Top /\ row.from \in Nat \ {0} /\ row.stale \in B

TraceTypes ==
  /\ DOMAIN plan = Writers /\ DOMAIN read = Writers /\ plan = [w \in Writers |-> plan[w]]
  /\ traces \in Seq(Attempts)
  /\ source \in [Writers -> Nat] /\ \A w \in Writers : source[w] <= Len(traces)
  /\ errors \in [Keys -> Nat] /\ ops \in 0..MaxOps /\ upkeep \in 0..MaxUpkeep
  /\ lemmas \in [Lemmas -> {NoRow} \cup LemmaRow] /\ contexts \subseteq Contexts

LemmasTraced ==
  \A l \in Lemmas : lemmas[l] # NoRow =>
    /\ lemmas[l].from \in 1..Len(traces)
    /\ Proves(traces[lemmas[l].from], l)

PlansSound == \A w \in Writers : PlanSound(plan[w], source[w], traces)

ErrorsRead ==
  \A w \in Writers : plan[w] # <<>> /\ read[w] # Unread /\ Head(plan[w]).do = "error"
                       => read[w].frequency \in Nat

TraceInv == TraceTypes /\ LemmasTraced /\ PlansSound /\ ErrorsRead

LEMMA ChangedRows == \A B : \A row \in RowsOver(B) : RowFacts(row, B)
  BY DEF RowsOver, RowFacts, Changed, Decayed, Marked

LEMMA LemmaRows == \A row \in LemmaRow : RowFacts(row, BOOLEAN)
  BY ChangedRows, Zenon DEF LemmaRow

LEMMA NewRow ==
  ASSUME NEW d \in 0..Top, NEW f \in Nat \ {0}
  PROVE  [id |-> 1, cited |-> 0, decay |-> d, stale |-> FALSE, from |-> f] \in LemmaRow
  <1>1. \A B : \A b \in B :
          [id |-> 1, cited |-> 0, decay |-> d, stale |-> b, from |-> f] \in RowsOver(B)
    BY DEF RowsOver
  <1>2. FALSE \in BOOLEAN
    BY Zenon
  <1> QED
    BY <1>1, <1>2, Zenon DEF LemmaRow
-----------------------------------------------------------------------------
(* Plans.                                                                   *)

LEMMA Singleton == ASSUME NEW S, NEW x \in S PROVE <<x>> \in Seq(S) /\ <<>> \in Seq(S)
  OBVIOUS

LEMMA PlainIsPart == ASSUME NEW a PROVE Plain \subseteq Part(a)
  BY DEF Plain, Part

LEMMA Singles ==
  ASSUME NEW s \in Step, NEW safe \in BOOLEAN
  PROVE  TacticOf(s, safe) \in Plain /\ ErrorOf(s) \in Plain
  <1>1. s.key \in Keys /\ Ok(s) \in BOOLEAN
    BY Zenon DEF Step, Ok
  <1>2. TacticOf(s, safe) \in [do : {"tactic"}, key : Keys, ok : BOOLEAN, safe : BOOLEAN]
    BY <1>1, Zenon DEF TacticOf
  <1>3. ErrorOf(s) \in [do : {"error"}, key : Keys, safe : {FALSE}]
    BY <1>1, Zenon DEF ErrorOf
  <1>4. TacticOf(s, safe).do = "tactic" /\ ErrorOf(s).do = "error"
    BY Zenon DEF TacticOf, ErrorOf
  <1>5. TacticOf(s, safe) \in Operation /\ ErrorOf(s) \in Operation
    BY <1>2, <1>3, Zenon DEF Operation
  <1> QED
    BY <1>4, <1>5, Zenon DEF Plain

LEMMA StepPlanPlain == ASSUME NEW s \in Step PROVE StepPlan(s) \in Seq(Plain)
  <1>1. TacticOf(s, FALSE) \in Plain /\ ErrorOf(s) \in Plain
    BY Singles
  <1>2. <<TacticOf(s, FALSE)>> \in Seq(Plain) /\ <<ErrorOf(s)>> \in Seq(Plain)
        /\ <<>> \in Seq(Plain)
    BY <1>1, Singleton, Zenon
  <1>3. (IF s.error THEN <<ErrorOf(s)>> ELSE <<>>) \in Seq(Plain)
    BY <1>2, Zenon
  <1>4. \A p, q \in Seq(Plain) : p \o q \in Seq(Plain)
    OBVIOUS
  <1> QED
    BY <1>2, <1>3, <1>4, Zenon DEF StepPlan

LEMMA AttemptTyped ==
  ASSUME NEW a \in Attempts
  PROVE  a.steps \in Seq(Step) /\ Len(a.steps) \in Nat
         /\ \A i \in 1..Len(a.steps) : a.steps[i] \in Step
  <1>1. a.steps \in Seq(Step)
    BY KnowledgeAssumption DEF Step
  <1> QED
    BY <1>1

LEMMA DepositPlain == ASSUME NEW a \in Attempts PROVE DepositPlan(a) \in Seq(Plain)
  <1> DEFINE part(i) == IF Ok(a.steps[i]) THEN <<TacticOf(a.steps[i], TRUE)>> ELSE <<>>
  <1>1. \A i \in 1..Len(a.steps) : part(i) \in Seq(Plain)
    BY AttemptTyped, Singles, Singleton, Zenon
  <1> HIDE DEF part
  <1>2. [i \in 1..Len(a.steps) |-> part(i)] \in Seq(Seq(Plain))
    BY <1>1, AttemptTyped
  <1>3. FlattenSeq([i \in 1..Len(a.steps) |-> part(i)]) \in Seq(Plain)
    BY <1>2, FlattenStays
  <1> QED
    BY <1>3, Zenon DEF DepositPlan, part

LEMMA FixPlain == ASSUME NEW a \in Attempts PROVE FixPlan(a) \in Seq(Plain)
  <1> DEFINE part(i) == IF /\ a.steps[i].error /\ Ok(a.steps[i + 1])
                           /\ Goal[a.steps[i].key] = Goal[a.steps[i + 1].key]
                        THEN <<ErrorOf(a.steps[i])>> ELSE <<>>
  <1>1. \A i \in 1..(Len(a.steps) - 1) : part(i) \in Seq(Plain)
    <2> TAKE i \in 1..(Len(a.steps) - 1)
    <2>1. i \in 1..Len(a.steps)
      BY AttemptTyped
    <2>2. ErrorOf(a.steps[i]) \in Plain
      BY <2>1, AttemptTyped, Singles
    <2> QED
      BY <2>2, Singleton, Zenon
  <1> HIDE DEF part
  <1>2. [i \in 1..(Len(a.steps) - 1) |-> part(i)] \in Seq(Seq(Plain))
    <2> DEFINE n == IF Len(a.steps) = 0 THEN 0 ELSE Len(a.steps) - 1
    <2>1. n \in Nat /\ 1..(Len(a.steps) - 1) = 1..n
      BY AttemptTyped
    <2> HIDE DEF n
    <2>2. [i \in 1..n |-> part(i)] \in Seq(Seq(Plain))
      BY <1>1, <2>1
    <2> QED
      BY <2>1, <2>2
  <1>3. FlattenSeq([i \in 1..(Len(a.steps) - 1) |-> part(i)]) \in Seq(Plain)
    BY <1>2, FlattenStays
  <1> QED
    BY <1>3, Zenon DEF FixPlan, part

LEMMA StepsPlain ==
  ASSUME NEW a \in Attempts
  PROVE  FlattenSeq([i \in 1..Len(a.steps) |-> StepPlan(a.steps[i])]) \in Seq(Plain)
  <1> DEFINE part(i) == StepPlan(a.steps[i])
  <1>1. \A i \in 1..Len(a.steps) : part(i) \in Seq(Plain)
    BY AttemptTyped, StepPlanPlain
  <1> HIDE DEF part
  <1>2. [i \in 1..Len(a.steps) |-> part(i)] \in Seq(Seq(Plain))
    BY <1>1, AttemptTyped
  <1>3. FlattenSeq([i \in 1..Len(a.steps) |-> part(i)]) \in Seq(Plain)
    BY <1>2, FlattenStays
  <1> QED
    BY <1>3, Zenon DEF part

\* The lemmas of an attempt are proved by it.
LEMMA LemmasArePart == ASSUME NEW a \in Attempts PROVE LemmaPlan(a) \in Seq(Part(a))
  <1> DEFINE part(i) == IF a.steps[i].env /\ a.steps[i].have # NoLemma
                        THEN <<LemmaOf(a.steps[i])>> ELSE <<>>
  <1>1. CASE a.success
    <2>1. \A i \in 1..Len(a.steps) : part(i) \in Seq(Part(a))
      <3> TAKE i \in 1..Len(a.steps)
      <3>1. CASE a.steps[i].env /\ a.steps[i].have # NoLemma
        <4> DEFINE s == a.steps[i]
                   op == LemmaOf(s)
        <4>1. s \in Step
          BY AttemptTyped
        <4>2. s.have \in Lemmas
          BY <3>1, <4>1 DEF Step
        <4>3. op \in [do : {"lemma"}, lemma : Lemmas, safe : {TRUE}]
          BY <4>2, Zenon DEF LemmaOf
        <4>4. op.do = "lemma" /\ op.lemma = s.have /\ "lemma" # "trace"
          BY DEF LemmaOf
        <4>5. Proves(a, op.lemma)
          BY <1>1, <3>1, <4>4, Zenon DEF Proves
        <4>6. op \in Part(a)
          <5>1. op \in Operation
            BY <4>3, Zenon DEF Operation
          <5> HIDE DEF op
          <5> QED
            BY <4>4, <4>5, <5>1, Zenon DEF Part
        <4> QED
          BY <3>1, <4>6, Singleton, Zenon
      <3>2. CASE ~(a.steps[i].env /\ a.steps[i].have # NoLemma)
        <4>1. <<>> \in Seq(Part(a))
          OBVIOUS
        <4>2. part(i) = <<>>
          BY <3>2, Zenon
        <4> HIDE DEF part
        <4> QED
          BY <4>1, <4>2, Zenon
      <3> QED
        BY <3>1, <3>2
    <2> HIDE DEF part
    <2>2. [i \in 1..Len(a.steps) |-> part(i)] \in Seq(Seq(Part(a)))
      BY <2>1, AttemptTyped
    <2>3. FlattenSeq([i \in 1..Len(a.steps) |-> part(i)]) \in Seq(Part(a))
      BY <2>2, FlattenStays
    <2> QED
      BY <1>1, <2>3, Zenon DEF LemmaPlan, part
  <1>2. CASE ~a.success
    BY <1>2 DEF LemmaPlan
  <1> QED
    BY <1>1, <1>2

LEMMA ProofPlanSound ==
  ASSUME NEW a \in Attempts
  PROVE  \E rest \in Seq(Part(a)) : ProofPlan(a) = <<TraceOf(a)>> \o rest
  <1> DEFINE steps == FlattenSeq([i \in 1..Len(a.steps) |-> StepPlan(a.steps[i])])
  <1>1. \A p \in Seq(Plain) : p \in Seq(Part(a))
    BY PlainIsPart
  <1>2. steps \in Seq(Part(a)) /\ LemmaPlan(a) \in Seq(Part(a)) /\ FixPlan(a) \in Seq(Part(a))
    BY <1>1, StepsPlain, LemmasArePart, FixPlain
  <1> HIDE DEF steps
  <1>3. TraceOf(a) \in Operation
    BY Zenon DEF TraceOf, Operation
  <1>4. \A x \in Operation : \A p, q, r \in Seq(Part(a)) :
          <<x>> \o p \o q \o r = <<x>> \o (p \o q \o r) /\ p \o q \o r \in Seq(Part(a))
    <2> SUFFICES ASSUME NEW x \in Operation, NEW p \in Seq(Part(a)), NEW q \in Seq(Part(a)),
                        NEW r \in Seq(Part(a))
                 PROVE  /\ <<x>> \o p \o q \o r = <<x>> \o (p \o q \o r)
                        /\ p \o q \o r \in Seq(Part(a))
      OBVIOUS
    <2>0. Part(a) \subseteq Operation
      BY DEF Part
    <2>1. /\ <<x>> \in Seq(Operation) /\ p \in Seq(Operation) /\ q \in Seq(Operation)
          /\ r \in Seq(Operation) /\ p \o q \in Seq(Part(a)) /\ p \o q \o r \in Seq(Part(a))
      BY <2>0
    <2>2. \A u, v, z \in Seq(Operation) : (u \o v) \o z = u \o (v \o z)
      OBVIOUS
    <2>3. p \o q \in Seq(Operation)
      BY <2>1
    <2>4. (<<x>> \o p) \o q = <<x>> \o (p \o q)
      BY ONLY <2>1, <2>2, Zenon
    <2>5. (<<x>> \o (p \o q)) \o r = <<x>> \o ((p \o q) \o r)
      BY ONLY <2>1, <2>2, <2>3, Zenon
    <2> QED
      BY ONLY <2>1, <2>4, <2>5, Zenon
  <1>5. ProofPlan(a) = <<TraceOf(a)>> \o steps \o LemmaPlan(a) \o FixPlan(a)
    BY Zenon DEF ProofPlan, steps
  <1>6. /\ <<TraceOf(a)>> \o steps \o LemmaPlan(a) \o FixPlan(a)
             = <<TraceOf(a)>> \o (steps \o LemmaPlan(a) \o FixPlan(a))
        /\ steps \o LemmaPlan(a) \o FixPlan(a) \in Seq(Part(a))
    BY ONLY <1>2, <1>3, <1>4, Zenon
  <1> QED
    BY ONLY <1>5, <1>6, Zenon

\* What is left of a plan is sound.
LEMMA ShorterSound ==
  ASSUME NEW p, NEW s, NEW recorded, PlanSound(p, s, recorded), NEW q,
         \/ q = <<>>
         \/ p # <<>> /\ q = <<Head(p)>>
         \/ p # <<>> /\ Head(p).do # "trace" /\ q = Tail(p)
  PROVE  PlanSound(q, s, recorded)
  <1>1. \A S : \A u \in Seq(S) :
          <<>> \in Seq(S) /\ (u # <<>> => <<Head(u)>> \in Seq(S) /\ Tail(u) \in Seq(S))
    OBVIOUS
  <1>2. CASE p \in Seq(Plain)
    BY <1>1, <1>2 DEF PlanSound
  <1>3. CASE s \in 1..Len(recorded) /\ p \in Seq(Part(recorded[s]))
    BY <1>1, <1>3 DEF PlanSound
  <1>4. ASSUME NEW a \in Attempts, NEW rest \in Seq(Part(a)), p = <<TraceOf(a)>> \o rest
        PROVE  PlanSound(q, s, recorded)
    <2>1. Head(p) = TraceOf(a)
      <3>1. \A x : Head(<<x>> \o rest) = x
        OBVIOUS
      <3> QED
        BY <1>4, <3>1
    <2>2. Head(p).do = "trace"
      BY <2>1 DEF TraceOf
    <2>3. CASE q = <<>>
      BY <2>3 DEF PlanSound
    <2>4. CASE q = <<Head(p)>>
      <3>1. <<>> \in Seq(Part(a)) /\ \A x : <<x>> \o <<>> = <<x>>
        OBVIOUS
      <3>2. q = <<TraceOf(a)>> \o <<>>
        BY <2>1, <2>4, <3>1
      <3> QED
        BY <3>1, <3>2, Zenon DEF PlanSound
    <2> QED
      BY <2>2, <2>3, <2>4
  <1> QED
    BY <1>2, <1>3, <1>4 DEF PlanSound

\* More traces change nothing.
LEMMA LaterSound ==
  ASSUME NEW p, NEW s, NEW recorded \in Seq(Attempts), NEW a, PlanSound(p, s, recorded)
  PROVE  PlanSound(p, s, Append(recorded, a))
  <1>1. /\ Len(Append(recorded, a)) = Len(recorded) + 1 /\ Len(recorded) \in Nat
        /\ \A i \in 1..Len(recorded) : Append(recorded, a)[i] = recorded[i]
    OBVIOUS
  <1> DEFINE later == Append(recorded, a)
  <1> HIDE DEF later
  <1>2. s \in 1..Len(recorded) => s \in 1..Len(later) /\ later[s] = recorded[s]
    BY <1>1 DEF later
  <1>3. PlanSound(p, s, later)
    BY <1>2, Zenon DEF PlanSound
  <1> QED
    BY <1>3 DEF later

LEMMA PlanTyped ==
  ASSUME NEW p, NEW s, NEW recorded, PlanSound(p, s, recorded)
  PROVE  p \in Seq(Operation)
  <1>1. Plain \subseteq Operation /\ \A a : Part(a) \subseteq Operation
    BY DEF Plain, Part
  <1>2. \A S : S \subseteq Operation => \A u \in Seq(S) : u \in Seq(Operation)
    OBVIOUS
  <1>3. ASSUME NEW a \in Attempts, NEW rest \in Seq(Part(a)), p = <<TraceOf(a)>> \o rest
        PROVE  p \in Seq(Operation)
    <2>1. TraceOf(a) \in Operation
      BY Zenon DEF TraceOf, Operation
    <2>2. <<TraceOf(a)>> \in Seq(Operation) /\ rest \in Seq(Operation)
      BY <1>1, <1>2, <2>1, Singleton
    <2> QED
      BY ONLY <1>3, <2>2
  <1> QED
    BY <1>1, <1>2, <1>3 DEF PlanSound

-----------------------------------------------------------------------------
(* The steps of the knowledge base.                                         *)

LEMMA TraceInit == KnowledgeInit => TraceInv
  <1> SUFFICES ASSUME KnowledgeInit PROVE TraceInv
    OBVIOUS
  <1>1. <<>> \in Seq(Attempts) /\ <<>> \in Seq(Plain) /\ Len(<<>>) = 0
    OBVIOUS
  <1>2. 0 \in 0..MaxOps /\ 0 \in 0..MaxUpkeep
    BY KnowledgeAssumption
  <1>3. TraceTypes
    BY <1>1, <1>2 DEF KnowledgeInit, TraceTypes
  <1>4. LemmasTraced
    BY DEF KnowledgeInit, LemmasTraced
  <1>5. PlansSound
    BY <1>1 DEF KnowledgeInit, PlansSound, PlanSound
  <1>6. ErrorsRead
    BY DEF KnowledgeInit, ErrorsRead
  <1> QED
    BY <1>3, <1>4, <1>5, <1>6 DEF TraceInv

\* What writer w has to do is no more than before.
Shorter(w) ==
  \/ plan'[w] = plan[w] \/ plan'[w] = <<>>
  \/ plan[w] # <<>> /\ plan'[w] = <<Head(plan[w])>>
  \/ plan[w] # <<>> /\ Head(plan[w]).do # "trace" /\ plan'[w] = Tail(plan[w])

\* What writer w has read, it had read for the same operation.
NothingRead(w) ==
  \/ read'[w] = Unread
  \/ /\ read'[w] = read[w] /\ Head(plan'[w]) = Head(plan[w])
     /\ plan[w] = <<>> => plan'[w] = <<>>

\* A step that records no trace and begins nothing.
LEMMA TracesStay ==
  ASSUME TraceInv, TraceTypes', LemmasTraced', UNCHANGED <<source, traces>>,
         \A w \in Writers : Shorter(w) /\ NothingRead(w)
  PROVE  TraceInv'
  <1>1. PlansSound'
    <2> SUFFICES ASSUME NEW w \in Writers PROVE PlanSound(plan'[w], source[w], traces)
      BY DEF PlansSound
    <2>1. PlanSound(plan[w], source[w], traces)
      BY DEF TraceInv, PlansSound
    <2>2. Shorter(w)
      OBVIOUS
    <2> QED
      BY <2>1, <2>2, ShorterSound, Zenon DEF Shorter
  <1>2. ErrorsRead'
    BY DEF ErrorsRead, TraceInv, NothingRead
  <1> QED
    BY <1>1, <1>2 DEF TraceInv

\* An operation is done.
LEMMA DoneShorter ==
  ASSUME TraceTypes, NEW w \in Writers, Done(w), plan[w] # <<>>, Head(plan[w]).do # "trace"
  PROVE  /\ DOMAIN plan' = Writers /\ DOMAIN read' = Writers
         /\ plan' = [v \in Writers |-> plan'[v]]
         /\ \A v \in Writers : Shorter(v) /\ NothingRead(v)
  <1>1. /\ plan' = [plan EXCEPT ![w] = Tail(@)] /\ read' = [read EXCEPT ![w] = Unread]
        /\ DOMAIN plan = Writers /\ DOMAIN read = Writers
    BY DEF Done, TraceTypes
  <1>2. /\ DOMAIN plan' = Writers /\ DOMAIN read' = Writers
        /\ plan' = [v \in Writers |-> plan'[v]]
    BY <1>1
  <1>3. plan'[w] = Tail(plan[w]) /\ read'[w] = Unread
    BY <1>1
  <1>4. \A v \in Writers : v # w => plan'[v] = plan[v] /\ read'[v] = read[v]
    BY <1>1
  <1>5. ASSUME NEW v \in Writers PROVE Shorter(v) /\ NothingRead(v)
    <2>1. CASE v = w
      BY <1>3, <2>1 DEF Shorter, NothingRead
    <2>2. CASE v # w
      BY <1>4, <2>2 DEF Shorter, NothingRead
    <2> QED
      BY <2>1, <2>2
  <1> QED
    BY <1>2, <1>5

LEMMA BeginTraced ==
  ASSUME TraceInv, ReadsInPlan, NEW w \in Writers, NEW p, Begin(w, p),
         \/ p \in Seq(Plain) \/ \E a \in Attempts : p = ProofPlan(a)
  PROVE  TraceInv'
  <1>1. /\ plan' = [plan EXCEPT ![w] = p] /\ source' = [source EXCEPT ![w] = 0]
        /\ plan[w] = <<>> /\ ops < MaxOps /\ ops' = ops + 1
        /\ UNCHANGED <<read, upkeep, errors, lemmas, traces, contexts>>
    BY DEF Begin, database
  <1>2. /\ DOMAIN plan = Writers /\ traces \in Seq(Attempts) /\ source \in [Writers -> Nat]
        /\ ops \in 0..MaxOps /\ Len(traces) \in Nat
    BY DEF TraceInv, TraceTypes
  <1>3. /\ plan'[w] = p /\ source'[w] = 0
        /\ \A v \in Writers : v # w => plan'[v] = plan[v] /\ source'[v] = source[v]
    BY <1>1, <1>2
  <1>4. TraceTypes'
    <2>1. ops' \in 0..MaxOps
      BY <1>1, <1>2, KnowledgeAssumption
    <2>2. source' \in [Writers -> Nat] /\ \A v \in Writers : source'[v] <= Len(traces)
      BY <1>1, <1>2, <1>3 DEF TraceInv, TraceTypes
    <2> QED
      BY <1>1, <2>1, <2>2 DEF TraceInv, TraceTypes
  <1>5. LemmasTraced'
    BY <1>1 DEF TraceInv, LemmasTraced
  <1>6. PlanSound(p, 0, traces)
    <2>1. ASSUME NEW a \in Attempts, p = ProofPlan(a) PROVE PlanSound(p, 0, traces)
      <3>1. \E rest \in Seq(Part(a)) : p = <<TraceOf(a)>> \o rest
        BY <2>1, ProofPlanSound
      <3> QED
        BY <3>1, Zenon DEF PlanSound
    <2> QED
      BY <2>1 DEF PlanSound
  <1>7. PlansSound'
    BY <1>1, <1>3, <1>6 DEF TraceInv, PlansSound
  <1>8. ErrorsRead'
    BY <1>1, <1>3 DEF TraceInv, ErrorsRead, ReadsInPlan
  <1> QED
    BY <1>4, <1>5, <1>7, <1>8 DEF TraceInv

LEMMA IngestTraced ==
  ASSUME TraceInv, ReadsInPlan, NEW w \in Writers, Ingest(w)
  PROVE  TraceInv'
  <1>1. PICK a \in Attempts : \/ \E i \in 1..Len(a.steps) : Begin(w, StepPlan(a.steps[i]))
                              \/ Begin(w, ProofPlan(a)) \/ Begin(w, DepositPlan(a))
    BY DEF Ingest
  <1>2. \A i \in 1..Len(a.steps) : StepPlan(a.steps[i]) \in Seq(Plain)
    BY AttemptTyped, StepPlanPlain
  <1>3. DepositPlan(a) \in Seq(Plain)
    BY DepositPlain
  <1> QED
    BY <1>1, <1>2, <1>3, BeginTraced

LEMMA RewardTraced ==
  ASSUME TraceInv, ReadsInPlan, NEW w \in Writers, NEW k \in Keys, NEW up \in BOOLEAN,
         Reward(w, k, up)
  PROVE  TraceInv'
  <1> DEFINE op == [do |-> "reinforce", key |-> k, up |-> up, safe |-> FALSE]
  <1>1. op \in [do : {"reinforce"}, key : Keys, up : BOOLEAN, safe : {FALSE}]
    BY Zenon
  <1>2. op.do = "reinforce"
    BY Zenon
  <1>3. Begin(w, <<op>>)
    BY DEF Reward
  <1> HIDE DEF op
  <1>4. op \in Plain
    BY <1>1, <1>2, Zenon DEF Plain, Operation
  <1>5. <<op>> \in Seq(Plain)
    BY <1>4
  <1> QED
    BY <1>3, <1>5, BeginTraced

LEMMA SelectTraced ==
  ASSUME TraceInv, NEW w \in Writers, Select(w)
  PROVE  TraceInv'
  <1>1. /\ read' = [read EXCEPT ![w] = Stored(Head(plan[w]))] /\ plan[w] # <<>>
        /\ UNCHANGED <<plan, source, ops, upkeep, errors, lemmas, traces, contexts>>
    BY DEF Select, database
  <1>2. TraceTypes' /\ LemmasTraced' /\ PlansSound'
    BY <1>1 DEF TraceInv, TraceTypes, LemmasTraced, PlansSound
  <1>3. ErrorsRead'
    <2> SUFFICES ASSUME NEW v \in Writers, plan[v] # <<>>, read'[v] # Unread,
                        Head(plan[v]).do = "error"
                 PROVE  read'[v].frequency \in Nat
      BY <1>1 DEF ErrorsRead
    <2>1. CASE v = w
      <3> DEFINE op == Head(plan[w])
      <3>1. plan[w] \in Seq(Operation)
        BY PlanTyped DEF TraceInv, PlansSound
      <3>2. op \in Operation
        BY <1>1, <3>1
      <3>3. op.do = "error"
        BY <2>1
      <3> HIDE DEF op
      <3>4. op.key \in Keys
        BY <3>2, <3>3 DEF Operation
      <3>5. Stored(op) = [id |-> 0, frequency |-> errors[op.key]]
        BY <3>3 DEF Stored
      <3>6. errors[op.key] \in Nat
        BY <3>4 DEF TraceInv, TraceTypes
      <3>7. read'[w] = Stored(op)
        BY <1>1 DEF TraceInv, TraceTypes, op
      <3> QED
        BY <2>1, <3>5, <3>6, <3>7
    <2>2. CASE v # w
      <3>1. read'[v] = read[v]
        BY <1>1, <2>2 DEF TraceInv, TraceTypes
      <3> QED
        BY <3>1 DEF TraceInv, ErrorsRead
    <2> QED
      BY <2>1, <2>2
  <1> QED
    BY <1>2, <1>3 DEF TraceInv

\* An operation that neither fails nor goes on.
LEMMA CutTraced ==
  ASSUME TraceInv, ReadsInPlan, NEW w \in Writers, Fails(w) \/ Crashes(w) \/ Cancelled(w)
  PROVE  TraceInv'
  <1>1. DOMAIN plan = Writers /\ DOMAIN read = Writers
    BY DEF TraceInv, TraceTypes
  <1>2. UNCHANGED <<source, ops, upkeep, errors, lemmas, traces, contexts>>
    BY DEF Fails, Crashes, Cancelled, database
  <1>3. \A v \in Writers : v # w => plan'[v] = plan[v] /\ read'[v] = read[v]
    BY <1>1 DEF Fails, Crashes, Cancelled
  <1>4. /\ DOMAIN plan' = Writers /\ DOMAIN read' = Writers
        /\ plan' = [v \in Writers |-> plan'[v]]
    BY <1>1 DEF Fails, Crashes, Cancelled
  <1>5. Shorter(w) /\ NothingRead(w)
    <2>1. CASE Fails(w)
      <3>1. read'[w] = Unread /\ plan[w] # <<>>
            /\ plan'[w] = IF Head(plan[w]).safe THEN Tail(plan[w]) ELSE <<>>
        BY <1>1, <2>1 DEF Fails
      <3>2. plan[w] \in Seq(Operation)
        BY PlanTyped DEF TraceInv, PlansSound
      <3> DEFINE op == Head(plan[w])
      <3>3. op \in Operation
        BY <3>1, <3>2
      <3>4. op.safe => op.do # "trace"
        <4> HIDE DEF op
        <4>1. op.do = "trace" => op \in [do : {"trace"}, attempt : Attempts, safe : {FALSE}]
          BY <3>3 DEF Operation
        <4>2. op \in [do : {"trace"}, attempt : Attempts, safe : {FALSE}] => op.safe = FALSE
          BY Zenon
        <4> QED
          BY <4>1, <4>2, Zenon
      <3>5. \/ plan'[w] = <<>>
            \/ op.do # "trace" /\ plan'[w] = Tail(plan[w])
        BY <3>1, <3>4, Zenon
      <3> QED
        BY <3>1, <3>5 DEF Shorter, NothingRead
    <2>2. CASE Crashes(w)
      BY <1>1, <2>2 DEF Crashes, Shorter, NothingRead
    <2>3. CASE Cancelled(w)
      <3>1. plan[w] # <<>>
        <4>1. Len(plan[w]) > 1 /\ Len(<<>>) = 0
          BY <2>3 DEF Cancelled
        <4> QED
          BY <4>1
      <3>2. plan'[w] = <<Head(plan[w])>> /\ read' = read
        BY <1>1, <2>3 DEF Cancelled
      <3> QED
        BY <3>1, <3>2, OneHead DEF Shorter, NothingRead
    <2> QED
      BY <2>1, <2>2, <2>3
  <1>6. \A v \in Writers : Shorter(v) /\ NothingRead(v)
    BY <1>3, <1>5 DEF Shorter, NothingRead
  <1>7. TraceTypes' /\ LemmasTraced'
    BY <1>2, <1>4 DEF TraceInv, TraceTypes, LemmasTraced
  <1> QED
    BY <1>2, <1>6, <1>7, TracesStay

\* The operations of tactics and errors.
LEMMA TacticTraced ==
  ASSUME TraceInv, NEW w \in Writers, UpsertTactic(w) \/ UpsertError(w) \/ Reinforce(w)
  PROVE  TraceInv'
  <1>1. /\ Done(w) /\ plan[w] # <<>> /\ Head(plan[w]).do # "trace"
        /\ UNCHANGED <<source, ops, upkeep, lemmas, traces, contexts>>
    BY DEF UpsertTactic, UpsertError, Reinforce, Ready, Doing
  <1>2. errors' \in [Keys -> Nat]
    <2>1. CASE UpsertTactic(w) \/ Reinforce(w)
      BY <2>1 DEF UpsertTactic, Reinforce, TraceInv, TraceTypes
    <2>2. CASE UpsertError(w)
      <3>1. read[w].frequency \in Nat
        BY <2>2 DEF UpsertError, Ready, Doing, TraceInv, ErrorsRead
      <3>2. errors' = [errors EXCEPT ![Head(plan[w]).key] = read[w].frequency + 1]
        BY <2>2 DEF UpsertError
      <3>3. errors \in [Keys -> Nat] /\ read[w].frequency + 1 \in Nat
        BY <3>1 DEF TraceInv, TraceTypes
      <3> QED
        BY ONLY <3>2, <3>3
    <2> QED
      BY <2>1, <2>2
  <1>3. TraceTypes
    BY DEF TraceInv
  <1>4. /\ DOMAIN plan' = Writers /\ DOMAIN read' = Writers
        /\ plan' = [v \in Writers |-> plan'[v]]
        /\ \A v \in Writers : Shorter(v) /\ NothingRead(v)
    BY <1>1, <1>3, DoneShorter
  <1>5. TraceTypes' /\ LemmasTraced'
    BY <1>1, <1>2, <1>4 DEF TraceInv, TraceTypes, LemmasTraced
  <1> QED
    BY <1>1, <1>4, <1>5, TracesStay

\* A lemma comes after the trace it was proved in.
LEMMA AddTraced ==
  ASSUME TraceInv, ReadsMade, NEW w \in Writers, AddLemma(w)
  PROVE  TraceInv'
  <1> DEFINE op == Head(plan[w])
             l == op.lemma
  <1>1. /\ Done(w) /\ plan[w] # <<>> /\ op.do = "lemma"
        /\ UNCHANGED <<source, ops, upkeep, errors, traces, contexts>>
    BY DEF AddLemma, Ready, Doing
  <1>2. TraceTypes
    BY DEF TraceInv
  <1>3. op.do # "trace"
    BY <1>1
  <1>4. /\ DOMAIN plan' = Writers /\ DOMAIN read' = Writers
        /\ plan' = [v \in Writers |-> plan'[v]]
        /\ \A v \in Writers : Shorter(v) /\ NothingRead(v)
    BY <1>1, <1>2, <1>3, DoneShorter
  <1>5. source[w] \in 1..Len(traces) /\ Proves(traces[source[w]], l)
    <2>1. PlanSound(plan[w], source[w], traces)
      BY DEF TraceInv, PlansSound
    <2>2. plan[w] \notin Seq(Plain)
      <3>1. plan[w] \in Seq(Plain) => op \in Plain
        BY <1>1
      <3> HIDE DEF op
      <3> QED
        BY <1>1, <3>1 DEF Plain
    <2>3. ASSUME NEW a \in Attempts, NEW rest \in Seq(Part(a)), plan[w] = <<TraceOf(a)>> \o rest
          PROVE  FALSE
      <3>1. \A x : Head(<<x>> \o rest) = x
        OBVIOUS
      <3>2. op = TraceOf(a)
        BY <2>3, <3>1
      <3> QED
        BY <1>3, <3>2 DEF TraceOf
    <2>4. source[w] \in 1..Len(traces) /\ plan[w] \in Seq(Part(traces[source[w]]))
      BY <2>1, <2>2, <2>3, Zenon DEF PlanSound
    <2>5. op \in Part(traces[source[w]])
      BY <1>1, <2>4
    <2> HIDE DEF op
    <2> QED
      BY <1>1, <2>4, <2>5, Zenon DEF Part
  <1>6. l \in Lemmas
    <2>1. plan[w] \in Seq(Operation)
      BY PlanTyped DEF TraceInv, PlansSound
    <2>2. op \in Operation
      BY <1>1, <2>1
    <2> HIDE DEF op
    <2> QED
      BY <1>1, <2>2 DEF Operation
  <1> DEFINE new == IF read[w] # NoRow
                    THEN [lemmas[l] EXCEPT !.cited = Cited(l, read[w]), !.decay = Fresh]
                    ELSE [id |-> 1, cited |-> 0, decay |-> Fresh, stale |-> FALSE,
                          from |-> source[w]]
  <1>7. lemmas' = [lemmas EXCEPT ![l] = new] /\ lemmas \in [Lemmas -> {NoRow} \cup LemmaRow]
    BY <1>6, <1>2 DEF AddLemma, TraceTypes
  <1>8. Fresh \in 0..Top /\ Len(traces) \in Nat
    BY <1>2, KnowledgeAssumption DEF TraceTypes
  <1>9. /\ new \in LemmaRow
        /\ new.from \in 1..Len(traces) /\ Proves(traces[new.from], l)
    <2>1. CASE read[w] = NoRow
      <3>1. new = [id |-> 1, cited |-> 0, decay |-> Fresh, stale |-> FALSE, from |-> source[w]]
        BY <2>1
      <3>2. source[w] \in Nat \ {0}
        BY <1>5, <1>8
      <3>3. new.from = source[w]
        BY <3>1
      <3>4. new \in LemmaRow
        BY <1>8, <3>1, <3>2, NewRow, Zenon
      <3> HIDE DEF new, l
      <3> QED
        BY <1>5, <3>3, <3>4
    <2>2. CASE read[w] # NoRow
      <3>1. lemmas[l] # NoRow
        BY <1>1, <1>6, <2>2 DEF ReadsMade, AddLemma, Ready
      <3>2. lemmas[l] \in LemmaRow
        BY <1>6, <1>7, <3>1
      <3>3. new = Changed(lemmas[l], lemmas[l].cited + 1, Fresh)
        BY <2>2 DEF Cited, Changed
      <3>4. new \in LemmaRow /\ new.from = lemmas[l].from
        <4> HIDE DEF new, l
        <4>1. RowFacts(lemmas[l], BOOLEAN)
          BY <3>2, LemmaRows
        <4>2. lemmas[l].cited + 1 \in Nat
          BY <4>1 DEF RowFacts
        <4> QED
          BY <1>8, <3>3, <4>1, <4>2, Zenon DEF RowFacts, LemmaRow
      <3> HIDE DEF new, l
      <3> QED
        BY <1>6, <3>1, <3>4 DEF TraceInv, LemmasTraced
    <2> QED
      BY <2>1, <2>2
  <1> HIDE DEF new, l
  <1>10. TraceTypes'
    <2>1. lemmas' \in [Lemmas -> {NoRow} \cup LemmaRow]
      BY <1>6, <1>7, <1>9
    <2> QED
      BY <1>1, <1>2, <1>4, <2>1 DEF TraceTypes
  <1>11. LemmasTraced'
    <2>1. \A k \in Lemmas : lemmas'[k] = IF k = l THEN new ELSE lemmas[k]
      BY <1>6, <1>7
    <2> QED
      BY <1>1, <1>9, <2>1 DEF TraceInv, LemmasTraced
  <1> QED
    BY <1>1, <1>4, <1>10, <1>11, TracesStay

LEMMA RecordTraced ==
  ASSUME TraceInv, NEW w \in Writers, RecordTrace(w)
  PROVE  TraceInv'
  <1> DEFINE attempt == Head(plan[w]).attempt
  <1>1. /\ Done(w) /\ plan[w] # <<>> /\ Head(plan[w]).do = "trace"
        /\ traces' = Append(traces, attempt)
        /\ source' = [source EXCEPT ![w] = Len(traces')]
        /\ UNCHANGED <<ops, upkeep, errors, lemmas, contexts>>
    BY DEF RecordTrace, Ready, Doing
  <1>2. /\ DOMAIN plan = Writers /\ DOMAIN read = Writers /\ traces \in Seq(Attempts)
        /\ source \in [Writers -> Nat]
    BY DEF TraceInv, TraceTypes
  <1>3. PICK a \in Attempts : \E rest \in Seq(Part(a)) : plan[w] = <<TraceOf(a)>> \o rest
    <2>1. PlanSound(plan[w], source[w], traces)
      BY DEF TraceInv, PlansSound
    <2>2. ASSUME NEW S, plan[w] \in Seq(S) PROVE Head(plan[w]) \in S
      BY <1>1, <2>2
    <2>3. plan[w] \notin Seq(Plain)
      <3>1. Head(plan[w]) \notin Plain
        BY <1>1 DEF Plain
      <3> QED
        BY <2>2, <3>1
    <2>4. \A b : plan[w] \notin Seq(Part(b))
      <3> TAKE b
      <3>1. Head(plan[w]) \notin Part(b)
        BY <1>1 DEF Part
      <3> QED
        BY <2>2, <3>1
    <2> QED
      BY <2>1, <2>3, <2>4, Zenon DEF PlanSound
  <1>4. PICK rest \in Seq(Part(a)) : plan[w] = <<TraceOf(a)>> \o rest
    BY <1>3
  <1>5. attempt = a /\ Tail(plan[w]) = rest
    <2>1. \A x : Head(<<x>> \o rest) = x /\ Tail(<<x>> \o rest) = rest
      OBVIOUS
    <2>2. Head(plan[w]) = TraceOf(a) /\ Tail(plan[w]) = rest
      BY ONLY <1>4, <2>1, Zenon
    <2>3. TraceOf(a).attempt = a
      BY DEF TraceOf
    <2> QED
      BY <2>2, <2>3
  <1> HIDE DEF attempt
  <1>6. /\ traces' \in Seq(Attempts) /\ Len(traces') = Len(traces) + 1 /\ Len(traces) \in Nat
        /\ traces'[Len(traces')] = a
        /\ \A i \in 1..Len(traces) : traces'[i] = traces[i]
    <2>1. traces' = Append(traces, a)
      BY <1>1, <1>5
    <2> QED
      BY ONLY <1>2, <2>1, a \in Attempts
  <1>7. /\ plan'[w] = rest /\ source'[w] = Len(traces') /\ read'[w] = Unread
        /\ \A v \in Writers : v # w => /\ plan'[v] = plan[v] /\ source'[v] = source[v]
                                       /\ read'[v] = read[v]
        /\ DOMAIN plan' = Writers /\ DOMAIN read' = Writers
        /\ plan' = [v \in Writers |-> plan'[v]]
    BY <1>1, <1>2, <1>5 DEF Done
  <1>8. TraceTypes'
    <2>1. source' \in [Writers -> Nat]
      BY <1>1, <1>2, <1>6
    <2>2. \A v \in Writers : source'[v] <= Len(traces')
      BY <1>2, <1>6, <1>7 DEF TraceInv, TraceTypes
    <2> QED
      BY <1>1, <1>6, <1>7, <2>1, <2>2 DEF TraceInv, TraceTypes
  <1>9. LemmasTraced'
    <2> SUFFICES ASSUME NEW l \in Lemmas, lemmas[l] # NoRow
                 PROVE  lemmas[l].from \in 1..Len(traces') /\ Proves(traces'[lemmas[l].from], l)
      BY <1>1 DEF LemmasTraced
    <2>1. lemmas[l].from \in 1..Len(traces) /\ Proves(traces[lemmas[l].from], l)
      BY DEF TraceInv, LemmasTraced
    <2>2. 1..Len(traces) \subseteq 1..Len(traces')
      BY <1>6
    <2> QED
      BY <1>6, <2>1, <2>2
  <1>10. PlansSound'
    <2> SUFFICES ASSUME NEW v \in Writers PROVE PlanSound(plan'[v], source'[v], traces')
      BY DEF PlansSound
    <2>1. CASE v = w
      <3>1. /\ Len(traces') \in 1..Len(traces') /\ plan'[v] = rest /\ source'[v] = Len(traces')
            /\ traces'[Len(traces')] = a
        BY <1>6, <1>7, <2>1
      <3> QED
        BY <3>1, rest \in Seq(Part(a)), Zenon DEF PlanSound
    <2>2. CASE v # w
      <3>1. PlanSound(plan[v], source[v], Append(traces, a))
        <4>1. PlanSound(plan[v], source[v], traces)
          BY DEF TraceInv, PlansSound
        <4> QED
          BY <1>2, <4>1, LaterSound
      <3> QED
        BY <1>1, <1>5, <1>7, <2>2, <3>1, Zenon
    <2> QED
      BY <2>1, <2>2
  <1>11. ErrorsRead'
    <2> SUFFICES ASSUME NEW v \in Writers, plan'[v] # <<>>, read'[v] # Unread,
                        Head(plan'[v]).do = "error"
                 PROVE  read'[v].frequency \in Nat
      BY DEF ErrorsRead
    <2>1. v # w
      BY <1>7
    <2> QED
      BY <1>7, <2>1 DEF TraceInv, ErrorsRead
  <1> QED
    BY <1>8, <1>9, <1>10, <1>11 DEF TraceInv

LEMMA UpkeepTraced ==
  ASSUME TraceInv, DecayAll \/ GcStale
  PROVE  TraceInv'
  <1>1. UNCHANGED <<plan, read, source, ops, errors, traces, contexts>> /\ upkeep' = upkeep + 1
        /\ upkeep < MaxUpkeep
    BY DEF DecayAll, GcStale
  <1>2. ASSUME NEW l \in Lemmas
        PROVE  /\ lemmas'[l] \in {NoRow} \cup LemmaRow
               /\ lemmas'[l] # NoRow => lemmas[l] # NoRow /\ lemmas'[l].from = lemmas[l].from
    <2>1. lemmas[l] = NoRow \/ lemmas[l] \in LemmaRow
      BY DEF TraceInv, TraceTypes
    <2>2. \/ lemmas'[l] = lemmas[l]
          \/ /\ lemmas[l] # NoRow
             /\ \/ lemmas[l].decay > 0 /\ lemmas'[l] = Decayed(lemmas[l], lemmas[l].decay - 1)
                \/ lemmas'[l] = Marked(lemmas[l], TRUE)
      BY DEF DecayAll, GcStale, Lower, Decayed, Marked
    <2>3. Top \in Nat /\ TRUE \in BOOLEAN
      BY KnowledgeAssumption, Zenon
    <2>4. lemmas[l] # NoRow => RowFacts(lemmas[l], BOOLEAN)
      BY <2>1, LemmaRows
    <2>5. lemmas[l] # NoRow /\ lemmas[l].decay > 0 => lemmas[l].decay - 1 \in 0..Top
      <3>1. lemmas[l] # NoRow => lemmas[l].decay \in 0..Top
        BY <2>4, Zenon DEF RowFacts
      <3> QED
        BY <2>3, <3>1
    <2>6. lemmas[l] # NoRow =>
            \A d \in 0..Top : /\ Decayed(lemmas[l], d) \in LemmaRow
                              /\ Decayed(lemmas[l], d).from = lemmas[l].from
      BY <2>4, KnowledgeAssumption, Zenon DEF RowFacts, LemmaRow
    <2>7. lemmas[l] # NoRow => /\ Marked(lemmas[l], TRUE) \in LemmaRow
                               /\ Marked(lemmas[l], TRUE).from = lemmas[l].from
      BY <2>3, <2>4, Zenon DEF RowFacts, LemmaRow
    <2> QED
      BY <2>1, <2>2, <2>5, <2>6, <2>7, Zenon
  <1>3. lemmas' = [l \in Lemmas |-> lemmas'[l]]
    BY DEF DecayAll, GcStale
  <1>4. TraceTypes'
    <2>1. upkeep' \in 0..MaxUpkeep
      BY <1>1, KnowledgeAssumption DEF TraceInv, TraceTypes
    <2>2. lemmas' \in [Lemmas -> {NoRow} \cup LemmaRow]
      BY <1>2, <1>3
    <2> QED
      BY <1>1, <2>1, <2>2 DEF TraceInv, TraceTypes
  <1>5. LemmasTraced'
    BY <1>1, <1>2 DEF TraceInv, LemmasTraced
  <1>6. \A w \in Writers : Shorter(w) /\ NothingRead(w)
    BY <1>1 DEF Shorter, NothingRead
  <1> QED
    BY <1>1, <1>4, <1>5, <1>6, TracesStay

LEMMA DeleteTraced ==
  ASSUME TraceInv, NEW c \in Contexts, DeleteContext(c)
  PROVE  TraceInv'
  <1>1. UNCHANGED <<plan, read, source, ops, errors, lemmas, traces>> /\ upkeep' = upkeep + 1
        /\ upkeep < MaxUpkeep /\ contexts' = contexts \ {c}
    BY DEF DeleteContext
  <1>2. TraceTypes'
    <2>1. upkeep' \in 0..MaxUpkeep
      BY <1>1, KnowledgeAssumption DEF TraceInv, TraceTypes
    <2> QED
      BY <1>1, <2>1 DEF TraceInv, TraceTypes
  <1>3. LemmasTraced'
    BY <1>1 DEF TraceInv, LemmasTraced
  <1>4. \A w \in Writers : Shorter(w) /\ NothingRead(w)
    BY <1>1 DEF Shorter, NothingRead
  <1> QED
    BY <1>1, <1>2, <1>3, <1>4, TracesStay

LEMMA KnowledgeTraced ==
  ASSUME TraceInv, ReadsInPlan, ReadsMade, KnowledgeNext
  PROVE  TraceInv'
  BY IngestTraced, RewardTraced, SelectTraced, CutTraced, TacticTraced, AddTraced,
     RecordTraced, UpkeepTraced, DeleteTraced DEF KnowledgeNext

LEMMA TraceStays == ASSUME TraceInv, UNCHANGED knowledgeVars PROVE TraceInv'
  <1>1. UNCHANGED <<plan, read, source, ops, upkeep, errors, lemmas, traces, contexts>>
    BY DEF knowledgeVars, database
  <1> QED
    BY <1>1 DEF TraceInv, TraceTypes, LemmasTraced, PlansSound, ErrorsRead

\* A state of the invariant is well-typed, and its lemmas are traced.
LEMMA LemmasHaveTraces == TraceInv /\ TacticTypes => LemmaHasTrace
  <1> SUFFICES ASSUME TraceInv, TacticTypes PROVE LemmaHasTrace
    OBVIOUS
  <1>1. plan \in [Writers -> Seq(Operation)]
    <2>1. \A w \in Writers : plan[w] \in Seq(Operation)
      BY PlanTyped DEF TraceInv, PlansSound
    <2> QED
      BY <2>1 DEF TraceInv, TraceTypes
  <1>2. \A w \in Writers : source[w] \in 0..Len(traces)
    BY DEF TraceInv, TraceTypes
  <1>3. \A k \in Keys : tactics[k] # NoRow =>
          /\ tactics[k].id \in 1..ids /\ tactics[k].decay \in 0..Top
          /\ tactics[k].good \in Nat /\ tactics[k].bad \in Nat
    BY DEF TacticTypes, TacticRow
  <1>4. \A l \in Lemmas : lemmas[l] # NoRow =>
          lemmas[l].cited \in Nat /\ lemmas[l].decay \in 0..Top /\ lemmas[l].stale \in BOOLEAN
    <2> SUFFICES ASSUME NEW l \in Lemmas, lemmas[l] # NoRow PROVE RowFacts(lemmas[l], BOOLEAN)
      BY Zenon DEF RowFacts
    <2>1. lemmas[l] \in LemmaRow
      BY DEF TraceInv, TraceTypes
    <2> QED
      BY <2>1, LemmaRows
  <1>5. \A i \in 1..Len(traces) : traces[i] \in Attempts
    BY DEF TraceInv, TraceTypes
  <1>6. /\ errors \in [Keys -> Nat] /\ ops \in 0..MaxOps /\ upkeep \in 0..MaxUpkeep
        /\ contexts \subseteq Contexts
    BY DEF TraceInv, TraceTypes
  <1>7. KnowledgeTypeOK
    BY ONLY <1>1, <1>2, <1>3, <1>4, <1>5, <1>6, Zenon DEF KnowledgeTypeOK
  <1>8. LemmasTraced
    BY DEF TraceInv
  <1> QED
    BY <1>7, <1>8, Zenon DEF LemmaHasTrace, LemmasTraced

-----------------------------------------------------------------------------
(* The lemma bank.                                                          *)

\* The statements in the file.
Filed == {bank[i] : i \in 1..Len(bank)}

BankTypes ==
  /\ bank \in Seq(Statements)
  /\ open \subseteq Processes /\ known \in [Processes -> SUBSET Statements]
  /\ adding \in [Adders -> SUBSET Statements]
  /\ pending \in [Processes -> Seq(Statements)]
  /\ \A a \in Adders : adding[a] = {} \/ \E s \in Statements : adding[a] = {s}
  /\ \A a \in Adders : adding[a] # {} => ProcessOf[a] \in open

\* A process knows what is in the file, and nothing else, but for what another process
\* added while both had it open and what a failed commit left in the transaction.
KnowsFile ==
  \A p \in Processes : /\ known[p] \subseteq Filed
                       /\ p \in open => Filed \subseteq known[p] \cup exposed

\* A statement that a thread is about to insert is new, and no other thread's.
AddsNew ==
  \A a \in Adders : \A s \in adding[a] : s \notin exposed =>
    s \notin Filed /\ \A b \in Adders : s \in adding[b] => a = b

\* A statement has one row.
OneRow == \A i, j \in 1..Len(bank) : bank[i] = bank[j] /\ bank[i] \notin exposed => i = j

\* What a failed commit has left may be added again.
PendingExposed ==
  \A p \in Processes : \A i \in 1..Len(pending[p]) : pending[p][i] \in exposed

BankInv == BankTypes /\ KnowsFile /\ AddsNew /\ OneRow /\ PendingExposed

LEMMA BankBegins == BankInit => BankInv
  BY BankAssumption DEF BankInit, BankInv, BankTypes, KnowsFile, AddsNew, OneRow, Filed,
                         PendingExposed

LEMMA OpenKeeps == ASSUME BankInv, NEW p \in Processes, Open(p) PROVE BankInv'
  <1>1. Filed' = Filed /\ known' = [known EXCEPT ![p] = Filed] /\ UNCHANGED <<bank, adding, exposed, pending>>
    BY DEF Open, Loaded, Filed
  <1>2. Filed \subseteq Statements
    BY DEF Filed, BankInv, BankTypes
  <1>3. BankTypes'
    BY <1>1, <1>2 DEF Open, BankInv, BankTypes
  <1>4. KnowsFile'
    BY <1>1 DEF Open, BankInv, BankTypes, KnowsFile
  <1>5. AddsNew' /\ OneRow' /\ PendingExposed'
    BY <1>1 DEF BankInv, AddsNew, OneRow, PendingExposed
  <1> QED
    BY <1>3, <1>4, <1>5 DEF BankInv

LEMMA CloseKeeps == ASSUME BankInv, NEW p \in Processes, Close(p) PROVE BankInv'
  <1>1. Filed' = Filed /\ UNCHANGED <<bank, exposed>>
    BY DEF Close, Filed
  <1>2. BankTypes'
    <2>1. pending' \in [Processes -> Seq(Statements)]
      <3>1. pending' = [pending EXCEPT ![p] = <<>>] /\ pending \in [Processes -> Seq(Statements)]
        BY DEF Close, BankInv, BankTypes
      <3>2. <<>> \in Seq(Statements)
        OBVIOUS
      <3> QED
        BY <3>1, <3>2, Zenon
    <2> QED
      BY <1>1, <2>1 DEF Close, BankInv, BankTypes
  <1>3. KnowsFile'
    BY <1>1 DEF Close, BankInv, BankTypes, KnowsFile
  <1>4. \A a \in Adders : adding'[a] \subseteq adding[a]
    BY DEF Close, BankInv, BankTypes
  <1>5. AddsNew' /\ OneRow'
    BY <1>1, <1>4 DEF BankInv, AddsNew, OneRow
  <1>6. PendingExposed'
    <2> SUFFICES ASSUME NEW q \in Processes, NEW i \in 1..Len(pending'[q])
                 PROVE  pending'[q][i] \in exposed
      BY <1>1 DEF PendingExposed
    <2>1. pending' = [pending EXCEPT ![p] = <<>>] /\ pending \in [Processes -> Seq(Statements)]
      BY DEF Close, BankInv, BankTypes
    <2>2. q # p /\ pending'[q] = pending[q]
      BY <2>1
    <2> QED
      BY <2>2 DEF BankInv, PendingExposed
  <1> QED
    BY <1>2, <1>3, <1>5, <1>6 DEF BankInv

LEMMA CheckKeeps ==
  ASSUME BankInv, NEW a \in Adders, NEW s \in Statements, Check(a, s) PROVE BankInv'
  <1>1. Filed' = Filed /\ UNCHANGED <<bank, open, known, pending>>
    BY DEF Check, Filed
  <1>2. adding' = [adding EXCEPT ![a] = {s}] /\ adding[a] = {} /\ ProcessOf[a] \in open
    BY DEF Check
  <1>3. exposed \subseteq exposed'
    BY DEF Check
  <1>4. BankTypes'
    BY <1>1, <1>2 DEF BankInv, BankTypes
  <1>5. KnowsFile' /\ OneRow' /\ PendingExposed'
    BY <1>1, <1>3 DEF BankInv, KnowsFile, OneRow, PendingExposed
  <1>6. AddsNew'
    <2> SUFFICES ASSUME NEW b \in Adders, NEW x \in adding'[b], x \notin exposed'
                 PROVE  /\ x \notin Filed
                        /\ \A c \in Adders : x \in adding'[c] => b = c
      BY <1>1 DEF AddsNew
    <2>0. adding \in [Adders -> SUBSET Statements]
      BY DEF BankInv, BankTypes
    <2>1. CASE x = s
      <3>1. s \notin Filed
        <4>1. ProcessOf[a] \in Processes
          BY BankAssumption
        <4> QED
          BY <1>2, <1>3, <2>1, <4>1 DEF Check, BankInv, KnowsFile
      <3>2. \A c \in Adders : s \notin adding[c]
        BY <2>1 DEF Check
      <3> QED
        BY <1>2, <2>0, <2>1, <3>1, <3>2
    <2>2. CASE x # s
      <3>1. \A c \in Adders : x \in adding'[c] => x \in adding[c]
        BY <1>2, <2>0, <2>2
      <3> QED
        BY <1>3, <3>1 DEF BankInv, AddsNew
    <2> QED
      BY <2>1, <2>2
  <1> QED
    BY <1>4, <1>5, <1>6 DEF BankInv

\* Rows that may be added twice follow those of the file.
LEMMA MoreRows ==
  ASSUME BankInv, NEW r \in Seq(Statements), \A i \in 1..Len(r) : r[i] \in exposed
  PROVE  LET more == bank \o r IN
         /\ more \in Seq(Statements) /\ Len(more) = Len(bank) + Len(r)
         /\ Len(bank) \in Nat /\ Len(r) \in Nat
         /\ \A i \in 1..Len(bank) : more[i] = bank[i]
         /\ \A i \in 1..Len(more) : i \notin 1..Len(bank) => more[i] \in exposed
  <1> DEFINE more == bank \o r
  <1>1. bank \in Seq(Statements)
    BY DEF BankInv, BankTypes
  <1>2. /\ more \in Seq(Statements) /\ Len(more) = Len(bank) + Len(r)
        /\ Len(bank) \in Nat /\ Len(r) \in Nat
        /\ \A i \in 1..Len(bank) : more[i] = bank[i]
    BY <1>1
  <1>3. \A i \in 1..Len(more) : i \notin 1..Len(bank) =>
          more[i] = r[i - Len(bank)] /\ i - Len(bank) \in 1..Len(r)
    BY <1>1
  <1> QED
    BY <1>2, <1>3

LEMMA InsertKeeps == ASSUME BankInv, NEW a \in Adders, Insert(a) PROVE BankInv'
  <1> DEFINE p == ProcessOf[a]
             more == bank \o pending[p]
  <1>0. PICK s \in Statements :
          /\ adding[a] = {s} /\ bank' = Append(more, s)
          /\ known' = [known EXCEPT ![p] = @ \cup {s}]
          /\ exposed' = IF open # {p} THEN exposed \cup {s} ELSE exposed
    <2>1. PICK s \in adding[a] :
            /\ bank' = Append(more, s)
            /\ known' = [known EXCEPT ![p] = @ \cup {s}]
            /\ exposed' = IF open # {p} THEN exposed \cup {s} ELSE exposed
      BY DEF Insert
    <2>2. PICK t \in Statements : adding[a] = {t}
      BY <2>1 DEF BankInv, BankTypes
    <2> QED
      BY <2>1, <2>2
  <1>1. /\ adding[a] = {s} /\ known' = [known EXCEPT ![p] = @ \cup {s}]
        /\ exposed' = IF open # {p} THEN exposed \cup {s} ELSE exposed
    BY <1>0
  <1>2. /\ adding' = [adding EXCEPT ![a] = {}] /\ UNCHANGED open
        /\ pending' = [pending EXCEPT ![p] = <<>>]
    BY DEF Insert
  <1>5. p \in open /\ p \in Processes /\ exposed \subseteq exposed'
    BY <1>1, BankAssumption DEF BankInv, BankTypes
  <1>3. /\ bank \in Seq(Statements) /\ bank' \in Seq(Statements)
        /\ Len(bank) \in Nat /\ Len(bank') = Len(bank) + Len(pending[p]) + 1
        /\ Len(pending[p]) \in Nat
        /\ bank'[Len(bank')] = s
        /\ \A i \in 1..Len(bank) : bank'[i] = bank[i]
        /\ \A i \in 1..Len(bank') :
             i \notin 1..Len(bank) /\ i # Len(bank') => bank'[i] \in exposed
    <2>1. pending[p] \in Seq(Statements) /\ \A i \in 1..Len(pending[p]) : pending[p][i] \in exposed
      BY <1>5 DEF BankInv, BankTypes, PendingExposed
    <2>2. /\ more \in Seq(Statements) /\ Len(more) = Len(bank) + Len(pending[p])
          /\ Len(bank) \in Nat /\ Len(pending[p]) \in Nat
          /\ \A i \in 1..Len(bank) : more[i] = bank[i]
          /\ \A i \in 1..Len(more) : i \notin 1..Len(bank) => more[i] \in exposed
      BY <2>1, MoreRows
    <2> HIDE DEF more
    <2>3. /\ bank' \in Seq(Statements) /\ Len(bank') = Len(more) + 1 /\ bank'[Len(bank')] = s
          /\ \A i \in 1..Len(more) : bank'[i] = more[i]
      <3>1. bank' = Append(more, s) /\ s \in Statements
        BY <1>0
      <3> QED
        BY ONLY <2>2, <3>1
    <2>4. bank \in Seq(Statements)
      BY DEF BankInv, BankTypes
    <2> QED
      BY <2>2, <2>3, <2>4
  <1>4. Filed \subseteq Filed' /\ s \in Filed' /\ \A x \in Filed' : x \in Filed \/ x = s \/ x \in exposed
    <2>1. 1..Len(bank) \subseteq 1..Len(bank') /\ Len(bank') \in 1..Len(bank')
      BY <1>3
    <2>2. ASSUME NEW i \in 1..Len(bank')
          PROVE  bank'[i] \in Filed \/ bank'[i] = s \/ bank'[i] \in exposed
      BY <1>3, <2>2 DEF Filed
    <2>3. Filed' = {bank'[i] : i \in 1..Len(bank')}
      BY DEF Filed
    <2> QED
      BY <1>3, <2>1, <2>2, <2>3 DEF Filed
  <1>6. BankTypes'
    <2>2. known' \in [Processes -> SUBSET Statements]
      BY <1>1 DEF BankInv, BankTypes
    <2>3. adding' \in [Adders -> SUBSET Statements]
      BY <1>2 DEF BankInv, BankTypes
    <2>4. pending' \in [Processes -> Seq(Statements)]
      <3>1. pending \in [Processes -> Seq(Statements)]
        BY DEF BankInv, BankTypes
      <3>2. <<>> \in Seq(Statements)
        OBVIOUS
      <3> QED
        BY <1>2, <3>1, <3>2, Zenon
    <2> QED
      BY <1>2, <1>3, <2>2, <2>3, <2>4 DEF BankInv, BankTypes
  <1>7. KnowsFile'
    <2> SUFFICES ASSUME NEW q \in Processes
                 PROVE  /\ known'[q] \subseteq Filed'
                        /\ q \in open => Filed' \subseteq known'[q] \cup exposed'
      BY <1>2 DEF KnowsFile
    <2>1. /\ known[q] \subseteq Filed
          /\ q \in open => Filed \subseteq known[q] \cup exposed
      BY DEF BankInv, KnowsFile
    <2>2. CASE q = p
      <3>1. known'[q] = known[q] \cup {s}
        BY <1>1, <2>2 DEF BankInv, BankTypes
      <3> QED
        BY <1>4, <1>5, <2>1, <3>1
    <2>3. CASE q # p
      <3>1. known'[q] = known[q]
        BY <1>1, <2>3 DEF BankInv, BankTypes
      <3>2. q \in open => s \in exposed'
        BY <1>1, <1>5, <2>3
      <3> QED
        BY <1>4, <1>5, <2>1, <3>1, <3>2
    <2> QED
      BY <2>2, <2>3
  <1>8. AddsNew'
    <2> SUFFICES ASSUME NEW b \in Adders, NEW x \in adding'[b], x \notin exposed'
                 PROVE  /\ x \notin Filed'
                        /\ \A c \in Adders : x \in adding'[c] => b = c
      BY DEF AddsNew
    <2>1. \A c \in Adders : adding'[c] \subseteq adding[c]
      BY <1>2 DEF BankInv, BankTypes
    <2>2. b # a /\ x \in adding[b] /\ x \notin exposed
      BY <1>2, <1>5, <2>1 DEF BankInv, BankTypes
    <2>3. /\ x \notin Filed
          /\ \A c \in Adders : x \in adding[c] => b = c
      BY <2>2 DEF BankInv, AddsNew
    <2> QED
      BY <1>1, <1>4, <2>1, <2>2, <2>3
  <1>9. OneRow'
    <2> SUFFICES ASSUME NEW i \in 1..Len(bank'), NEW j \in 1..Len(bank'),
                        bank'[i] = bank'[j], bank'[i] \notin exposed'
                 PROVE  i = j
      BY DEF OneRow
    <2>0. /\ i \in 1..Len(bank) \/ i = Len(bank')
          /\ j \in 1..Len(bank) \/ j = Len(bank')
      BY <1>3, <1>5
    <2>1. s \notin exposed => s \notin Filed
      BY <1>1 DEF BankInv, AddsNew
    <2>2. CASE i \in 1..Len(bank) /\ j \in 1..Len(bank)
      BY <1>3, <1>5, <2>2 DEF BankInv, OneRow
    <2>3. CASE i \in 1..Len(bank) /\ j = Len(bank')
      BY <1>3, <1>5, <2>1, <2>3 DEF Filed
    <2>4. CASE i = Len(bank') /\ j \in 1..Len(bank)
      BY <1>3, <1>5, <2>1, <2>4 DEF Filed
    <2> QED
      BY <2>0, <2>2, <2>3, <2>4
  <1>10. PendingExposed'
    <2> SUFFICES ASSUME NEW q \in Processes, NEW i \in 1..Len(pending'[q])
                 PROVE  pending'[q][i] \in exposed'
      BY DEF PendingExposed
    <2>1. q # p /\ pending'[q] = pending[q]
      BY <1>2 DEF BankInv, BankTypes
    <2> QED
      BY <1>5, <2>1 DEF BankInv, PendingExposed
  <1> QED
    BY <1>6, <1>7, <1>8, <1>9, <1>10 DEF BankInv

\* A commit of what an earlier one left.
LEMMA CommitKeeps == ASSUME BankInv, NEW p \in Processes, Commit(p) PROVE BankInv'
  <1> DEFINE r == pending[p]
  <1>1. /\ bank' = bank \o r /\ pending' = [pending EXCEPT ![p] = <<>>]
        /\ UNCHANGED <<open, known, adding, exposed>>
    BY DEF Commit
  <1>2. r \in Seq(Statements) /\ \A i \in 1..Len(r) : r[i] \in exposed
    BY DEF BankInv, BankTypes, PendingExposed
  <1>3. /\ bank' \in Seq(Statements) /\ Len(bank') = Len(bank) + Len(r)
        /\ Len(bank) \in Nat /\ Len(r) \in Nat
        /\ \A i \in 1..Len(bank) : bank'[i] = bank[i]
        /\ \A i \in 1..Len(bank') : i \notin 1..Len(bank) => bank'[i] \in exposed
    <2> HIDE DEF r
    <2> QED
      BY <1>1, <1>2, MoreRows
  <1>4. Filed \subseteq Filed' /\ \A x \in Filed' : x \in Filed \/ x \in exposed
    <2>1. 1..Len(bank) \subseteq 1..Len(bank')
      BY <1>3
    <2>2. ASSUME NEW i \in 1..Len(bank') PROVE bank'[i] \in Filed \/ bank'[i] \in exposed
      BY <1>3, <2>2 DEF Filed
    <2>3. Filed' = {bank'[i] : i \in 1..Len(bank')}
      BY DEF Filed
    <2> QED
      BY <1>3, <2>1, <2>2, <2>3 DEF Filed
  <1>5. BankTypes'
    <2>2. pending' \in [Processes -> Seq(Statements)]
      BY <1>1 DEF BankInv, BankTypes
    <2> QED
      BY <1>1, <1>3, <2>2 DEF BankInv, BankTypes
  <1>6. KnowsFile' /\ AddsNew'
    BY <1>1, <1>4 DEF BankInv, KnowsFile, AddsNew
  <1>7. OneRow'
    <2> SUFFICES ASSUME NEW i \in 1..Len(bank'), NEW j \in 1..Len(bank'),
                        bank'[i] = bank'[j], bank'[i] \notin exposed
                 PROVE  i = j
      BY <1>1 DEF OneRow
    <2>1. i \in 1..Len(bank) /\ j \in 1..Len(bank)
      BY <1>3
    <2> QED
      BY <1>3, <2>1 DEF BankInv, OneRow
  <1>8. \A q \in Processes : pending'[q] = IF q = p THEN <<>> ELSE pending[q]
    BY <1>1 DEF BankInv, BankTypes
  <1>9. PendingExposed'
    <2> SUFFICES ASSUME NEW q \in Processes, NEW i \in 1..Len(pending'[q])
                 PROVE  pending'[q][i] \in exposed
      BY <1>1 DEF PendingExposed
    <2>1. q # p /\ pending'[q] = pending[q]
      BY <1>8
    <2> QED
      BY <2>1 DEF BankInv, PendingExposed
  <1> QED
    BY <1>5, <1>6, <1>7, <1>9 DEF BankInv

LEMMA InsertFailsKeeps == ASSUME BankInv, NEW a \in Adders, InsertFails(a) PROVE BankInv'
  <1>1. /\ Filed' = Filed /\ UNCHANGED <<bank, open, known, exposed, pending>>
        /\ adding' = [adding EXCEPT ![a] = {}]
    BY DEF InsertFails, Filed
  <1>2. \A b \in Adders : adding'[b] \subseteq adding[b]
    BY <1>1 DEF BankInv, BankTypes
  <1>3. BankTypes'
    BY <1>1 DEF BankInv, BankTypes
  <1>4. KnowsFile' /\ AddsNew' /\ OneRow' /\ PendingExposed'
    BY <1>1, <1>2 DEF BankInv, KnowsFile, AddsNew, OneRow, PendingExposed
  <1> QED
    BY <1>3, <1>4 DEF BankInv

LEMMA CommitFailsKeeps == ASSUME BankInv, NEW a \in Adders, CommitFails(a) PROVE BankInv'
  <1> DEFINE p == ProcessOf[a]
  <1>1. PICK s \in Statements :
          /\ pending' = [pending EXCEPT ![p] = Append(@, s)]
          /\ exposed' = exposed \cup {s}
    BY DEF CommitFails, BankInv, BankTypes
  <1>2. /\ Filed' = Filed /\ UNCHANGED <<bank, open, known>> /\ exposed \subseteq exposed'
        /\ adding' = [adding EXCEPT ![a] = {}]
    BY <1>1 DEF CommitFails, Filed
  <1>3. \A b \in Adders : adding'[b] \subseteq adding[b]
    BY <1>2 DEF BankInv, BankTypes
  <1>4. p \in Processes /\ pending \in [Processes -> Seq(Statements)]
    BY BankAssumption DEF BankInv, BankTypes
  <1>5. pending' \in [Processes -> Seq(Statements)]
    <2>1. Append(pending[p], s) \in Seq(Statements)
      BY <1>4
    <2> QED
      BY <1>1, <1>4, <2>1
  <1>6. BankTypes'
    BY <1>2, <1>5 DEF BankInv, BankTypes
  <1>7. KnowsFile' /\ AddsNew' /\ OneRow'
    BY <1>2, <1>3 DEF BankInv, KnowsFile, AddsNew, OneRow
  <1>8. PendingExposed'
    <2> SUFFICES ASSUME NEW q \in Processes, NEW i \in 1..Len(pending'[q])
                 PROVE  pending'[q][i] \in exposed'
      BY DEF PendingExposed
    <2>1. CASE q = p
      <3>1. pending'[q] = Append(pending[p], s) /\ pending[p] \in Seq(Statements)
        BY <1>1, <1>4, <2>1
      <3>2. \/ i \in 1..Len(pending[p]) /\ pending'[q][i] = pending[p][i]
            \/ pending'[q][i] = s
        BY <3>1
      <3> QED
        BY <1>1, <1>4, <3>2 DEF BankInv, PendingExposed
    <2>2. CASE q # p
      <3>1. pending'[q] = pending[q]
        BY <1>1, <1>4, <2>2
      <3> QED
        BY <1>2, <3>1 DEF BankInv, PendingExposed
    <2> QED
      BY <2>1, <2>2
  <1> QED
    BY <1>6, <1>7, <1>8 DEF BankInv

LEMMA BankKeeps == ASSUME BankInv, BankNext PROVE BankInv'
  BY OpenKeeps, CloseKeeps, CheckKeeps, InsertKeeps, InsertFailsKeeps, CommitFailsKeeps,
     CommitKeeps DEF BankNext

\* The invariant says what the run checks.
LEMMA BankTwins == BankInv => NoTwins
  <1> SUFFICES ASSUME BankInv PROVE NoTwins
    OBVIOUS
  <1>1. BankTypeOK
    <2>1. \A i \in 1..Len(bank) : bank[i] \in Statements
      BY DEF BankInv, BankTypes
    <2>2. \A a \in Adders : Cardinality(adding[a]) <= 1
      <3> SUFFICES ASSUME NEW a \in Adders PROVE Cardinality(adding[a]) <= 1
        OBVIOUS
      <3>1. CASE adding[a] = {}
        <4>1. Cardinality(adding[a]) = 0
          BY <3>1, FS_EmptySet
        <4> QED
          BY <4>1
      <3>2. ASSUME NEW s \in Statements, adding[a] = {s} PROVE Cardinality(adding[a]) <= 1
        <4>1. Cardinality(adding[a]) = 1
          BY <3>2, FS_Singleton
        <4> QED
          BY <4>1
      <3> QED
        BY <3>1, <3>2 DEF BankInv, BankTypes
    <2> QED
      BY <2>1, <2>2 DEF BankTypeOK, BankInv, BankTypes
  <1>2. ASSUME NEW s \in Statements, s \notin exposed PROVE ~(Cardinality(Rows(s)) > 1)
    <2>1. Rows(s) = {} \/ \E i \in Rows(s) : Rows(s) = {i}
      BY <1>2 DEF Rows, BankInv, OneRow
    <2> QED
      BY <2>1, FS_EmptySet, FS_Singleton
  <1>3. \A p \in Processes : known[p] \subseteq {bank[i] : i \in 1..Len(bank)}
    BY DEF BankInv, KnowsFile, Filed
  <1> QED
    BY <1>1, <1>2, <1>3 DEF NoTwins

-----------------------------------------------------------------------------
(* The index of past dialogs.                                               *)

AmongOf(seq, wanted) ==
  CHOOSE taken : taken = [n \in 0..Len(seq) |->
    IF n = 0 THEN <<>>
    ELSE IF seq[n] \in wanted THEN Append(taken[n - 1], seq[n]) ELSE taken[n - 1]]

LEMMA AmongTyped ==
  ASSUME NEW seq, Len(seq) \in Nat, NEW wanted
  PROVE  Among(seq, wanted) \in Seq(wanted)
  <1> DEFINE K == Len(seq)
             V == Seq(wanted)
             step == [n \in 1..K |->
                       [x \in V |-> IF seq[n] \in wanted THEN Append(x, seq[n]) ELSE x]]
  <1>1. K \in Nat /\ <<>> \in V
    OBVIOUS
  <1>2. \A n \in 1..K : step[n] \in [V -> V]
    OBVIOUS
  <1> HIDE DEF K
  <1>3. PICK f \in [0..K -> V] : Computes(f, K, <<>>, step)
    <2> HIDE DEF step, V
    <2> QED
      BY <1>1, <1>2, RecursionExists
  <1>4. \A n \in 0..K : n # 0 =>
          step[n][f[n - 1]] = IF seq[n] \in wanted THEN Append(f[n - 1], seq[n]) ELSE f[n - 1]
    <2> TAKE n \in 0..K
    <2> HAVE n # 0
    <2>1. n \in 1..K /\ n - 1 \in 0..K
      BY <1>1
    <2>2. f[n - 1] \in V
      BY <2>1
    <2> HIDE DEF V
    <2> QED
      BY <2>1, <2>2
  <1>5. f = [n \in 0..K |->
              IF n = 0 THEN <<>>
              ELSE IF seq[n] \in wanted THEN Append(f[n - 1], seq[n]) ELSE f[n - 1]]
    <2> HIDE DEF step, V
    <2> QED
      BY <1>3, <1>4 DEF Computes
  <1> DEFINE k == AmongOf(seq, wanted)
  <1>6. k = [n \in 0..K |->
              IF n = 0 THEN <<>>
              ELSE IF seq[n] \in wanted THEN Append(k[n - 1], seq[n]) ELSE k[n - 1]]
    <2>1. \E taken : taken = [n \in 0..K |->
              IF n = 0 THEN <<>>
              ELSE IF seq[n] \in wanted THEN Append(taken[n - 1], seq[n]) ELSE taken[n - 1]]
      BY <1>5
    <2> QED
      BY <2>1 DEF AmongOf, K
  <1>7. Among(seq, wanted) = k[K]
    BY DEF Among, AmongOf, K
  <1> HIDE DEF k
  <1>8. k[0] = <<>> /\ \A n \in 1..K :
          k[n] = IF seq[n] \in wanted THEN Append(k[n - 1], seq[n]) ELSE k[n - 1]
    <2>1. \A n \in 0..K : k[n] = IF n = 0 THEN <<>>
              ELSE IF seq[n] \in wanted THEN Append(k[n - 1], seq[n]) ELSE k[n - 1]
      BY <1>6, Zenon
    <2>2. 0 \in 0..K /\ \A n \in 1..K : n \in 0..K /\ n # 0
      BY <1>1
    <2> QED
      BY <2>1, <2>2, Zenon
  <1>9. \A n \in 1..K : k[n - 1] \in V => k[n] \in V
    <2> TAKE n \in 1..K
    <2> HAVE k[n - 1] \in V
    <2>1. seq[n] \in wanted => Append(k[n - 1], seq[n]) \in V
      OBVIOUS
    <2>2. CASE seq[n] \in wanted
      <3>1. k[n] = Append(k[n - 1], seq[n])
        BY <1>8, <2>2, Zenon
      <3> QED
        BY <2>1, <2>2, <3>1, Zenon
    <2>3. CASE seq[n] \notin wanted
      BY <1>8, <2>3, Zenon
    <2> QED
      BY <2>2, <2>3
  <1>10. \A n \in 0..K : k[n] \in V
    <2> HIDE DEF V
    <2> QED
      BY <1>1, <1>8, <1>9, RecursionStays
  <1> QED
    BY <1>1, <1>7, <1>10

\* One row for each theorem and source.
OneRowEach(table) == \A i, j \in 1..Len(table) : Key(table[i]) = Key(table[j]) => i = j
Tables == {table \in Seq(Entry) : OneRowEach(table)}

LEMMA UpsertedTable ==
  ASSUME NEW table \in Tables, NEW e \in Entry
  PROVE  Upserted(table, e) \in Tables
  <1> DEFINE K == Len(table)
             same(i) == Key(table[i]) = Key(e)
             u == Upserted(table, e)
  <1>1. /\ table \in Seq(Entry) /\ K \in Nat /\ \A i \in 1..K : table[i] \in Entry
        /\ \A i, j \in 1..K : Key(table[i]) = Key(table[j]) => i = j
    BY DEF Tables, OneRowEach
  <1>2. CASE \E i \in 1..K : same(i)
    <2>1. u = [i \in 1..K |-> IF same(i) THEN e ELSE table[i]]
      BY <1>2 DEF Upserted
    <2>2. /\ Len(u) = K
          /\ \A i \in 1..K : u[i] \in Entry /\ u[i] = IF same(i) THEN e ELSE table[i]
      BY <1>1, <2>1
    <2>3. u \in Seq(Entry)
      BY <1>1, <2>1, <2>2
    <2>4. \A i \in 1..K : Key(u[i]) = Key(table[i])
      BY <2>2
    <2> HIDE DEF u
    <2> QED
      BY <1>1, <2>2, <2>3, <2>4 DEF Tables, OneRowEach, u
  <1>3. CASE ~\E i \in 1..K : same(i)
    <2>1. u = Append(table, e)
      BY <1>3 DEF Upserted
    <2>2. /\ u \in Seq(Entry) /\ Len(u) = K + 1 /\ u[K + 1] = e
          /\ \A i \in 1..K : u[i] = table[i]
      BY <1>1, <2>1
    <2>3. \A i \in 1..(K + 1) : i = K + 1 \/ i \in 1..K
      BY <1>1
    <2> HIDE DEF u
    <2>4. OneRowEach(u)
      <3> SUFFICES ASSUME NEW i \in 1..(K + 1), NEW j \in 1..(K + 1), Key(u[i]) = Key(u[j])
                   PROVE  i = j
        BY <2>2 DEF OneRowEach
      <3> QED
        BY <1>1, <1>3, <2>2, <2>3
    <2> QED
      BY <2>2, <2>4 DEF Tables, u
  <1> QED
    BY <1>2, <1>3

WrittenOf(table) ==
  CHOOSE after : after = [n \in 0..Len(entries) |->
    IF n = 0 THEN table ELSE Upserted(after[n - 1], entries[n])]

LEMMA WrittenTable ==
  ASSUME entries \in Seq(Entry), NEW table \in Tables
  PROVE  Written(table) \in Tables
  <1> DEFINE K == Len(entries)
             step == [n \in 1..K |-> [x \in Tables |-> Upserted(x, entries[n])]]
  <1>1. K \in Nat /\ \A n \in 1..K : entries[n] \in Entry
    OBVIOUS
  <1> HIDE DEF K
  <1>2. \A n \in 1..K : step[n] \in [Tables -> Tables]
    BY <1>1, UpsertedTable
  <1>3. PICK f \in [0..K -> Tables] : Computes(f, K, table, step)
    <2> HIDE DEF step
    <2> QED
      BY <1>1, <1>2, RecursionExists
  <1>4. \A n \in 0..K : n # 0 => step[n][f[n - 1]] = Upserted(f[n - 1], entries[n])
    <2> TAKE n \in 0..K
    <2> HAVE n # 0
    <2>1. n \in 1..K /\ n - 1 \in 0..K
      BY <1>1
    <2>2. f[n - 1] \in Tables
      BY <2>1
    <2> QED
      BY <2>1, <2>2
  <1>5. f = [n \in 0..K |-> IF n = 0 THEN table ELSE Upserted(f[n - 1], entries[n])]
    <2> HIDE DEF step
    <2> QED
      BY <1>3, <1>4 DEF Computes
  <1> DEFINE k == WrittenOf(table)
  <1>6. k = [n \in 0..K |-> IF n = 0 THEN table ELSE Upserted(k[n - 1], entries[n])]
    <2>1. \E after : after = [n \in 0..K |->
                                IF n = 0 THEN table ELSE Upserted(after[n - 1], entries[n])]
      BY <1>5
    <2> QED
      BY <2>1 DEF WrittenOf, K
  <1>7. Written(table) = k[K]
    BY DEF Written, WrittenOf, K
  <1> HIDE DEF k
  <1>8. k[0] = table /\ \A n \in 1..K : k[n] = Upserted(k[n - 1], entries[n])
    <2>1. \A n \in 0..K : k[n] = IF n = 0 THEN table ELSE Upserted(k[n - 1], entries[n])
      BY <1>6, Zenon
    <2>2. 0 \in 0..K /\ \A n \in 1..K : n \in 0..K /\ n # 0
      BY <1>1
    <2> QED
      BY <2>1, <2>2, Zenon
  <1>9. \A n \in 1..K : k[n - 1] \in Tables => k[n] \in Tables
    BY <1>1, <1>8, UpsertedTable
  <1>10. \A n \in 0..K : k[n] \in Tables
    BY <1>1, <1>8, <1>9, RecursionStays
  <1> QED
    BY <1>1, <1>7, <1>10

\* Unless it is out of date, the retriever was built over the candidates there are.
BuiltOver == ~dirty /\ docs # <<>> => docs = Candidates(built)
NamesRight == \A m \in shown : m.mixed \/ m.named = m.scored

IndexInv == IndexTypeOK /\ BuiltOver /\ NamesRight /\ OneRowEach(rows)

LEMMA CandidatesTyped ==
  ASSUME entries \in Seq(Entry), NEW solvedOnly \in BOOLEAN
  PROVE  Candidates(solvedOnly) \in Seq(Entry)
  <1>1. Len(entries) \in Nat
    OBVIOUS
  <1>2. Among(entries, Solved) \in Seq(Solved)
    BY <1>1, AmongTyped
  <1>3. Among(entries, Solved) \in Seq(Entry)
    BY <1>2 DEF Solved
  <1> QED
    BY <1>3 DEF Candidates

LEMMA ReadableTyped ==
  ASSUME NEW sources, sources \in Seq(ToSet(sources))
  PROVE  Readable(sources) \in Seq(Entry)
  <1>1. Len([i \in 1..Len(sources) |-> past[sources[i]]]) \in Nat
    OBVIOUS
  <1> QED
    BY <1>1, AmongTyped DEF Readable

\* The entries grow.
LEMMA AppendedKeeps ==
  ASSUME IndexInv, NEW new \in Seq(Entry), Appended(new), shown' = {},
         UNCHANGED <<past, docs, rows, built>>
  PROVE  IndexInv'
  <1>1. entries' \in Seq(Entry) /\ Len(entries') <= MaxEntries
    <2>1. entries \in Seq(Entry) /\ Len(entries) + Len(new) <= MaxEntries
          /\ entries' = entries \o new
      BY DEF IndexInv, IndexTypeOK, Appended
    <2> QED
      BY ONLY <2>1, new \in Seq(Entry)
  <1>2. dirty' \in BOOLEAN
    BY DEF Appended
  <1>3. IndexTypeOK'
    BY <1>1, <1>2 DEF IndexInv, IndexTypeOK
  <1>4. CASE new = <<>>
    <2>1. entries' = entries
      <3>1. entries \in Seq(Entry) /\ entries' = entries \o <<>>
        BY <1>4 DEF IndexInv, IndexTypeOK, Appended
      <3> QED
        BY ONLY <3>1
    <2>2. dirty' <=> dirty
      BY <1>4 DEF Appended
    <2>3. BuiltOver'
      BY <2>1, <2>2 DEF IndexInv, BuiltOver, Candidates
    <2> QED
      BY <1>3, <2>3 DEF IndexInv, NamesRight
  <1>5. CASE new # <<>>
    <2>1. dirty'
      BY <1>5 DEF Appended
    <2> QED
      BY <1>3, <2>1 DEF IndexInv, NamesRight, BuiltOver
  <1> QED
    BY <1>4, <1>5

LEMMA FindKeeps ==
  ASSUME IndexInv, NEW solvedOnly \in BOOLEAN, FindSimilar(solvedOnly)
  PROVE  IndexInv'
  <1> DEFINE found == Candidates(solvedOnly)
  <1>1. /\ RebuildIfNeeded(solvedOnly) /\ dirty' = FALSE /\ UNCHANGED <<past, entries, rows>>
        /\ shown' = {[scored |-> docs', named |-> found, mixed |-> built' # solvedOnly]}
    BY DEF FindSimilar
  <1>2. found \in Seq(Entry)
    BY CandidatesTyped DEF IndexInv, IndexTypeOK
  <1>3. Candidates(solvedOnly)' = found
    BY <1>1 DEF Candidates
  <1>4. docs' = Candidates(built') /\ built' \in BOOLEAN /\ docs' \in Seq(Entry)
    <2>1. CASE dirty \/ docs = <<>>
      BY <1>1, <1>2, <2>1 DEF RebuildIfNeeded
    <2>2. CASE ~(dirty \/ docs = <<>>)
      BY <1>1, <2>2 DEF RebuildIfNeeded, IndexInv, IndexTypeOK, BuiltOver
    <2> QED
      BY <2>1, <2>2
  <1>5. NamesRight'
    <2>1. built' # solvedOnly \/ found = docs'
      <3>1. built' = solvedOnly => Candidates(built') = found
        BY Zenon
      <3> QED
        BY <1>4, <3>1, Zenon
    <2> DEFINE query == [scored |-> docs', named |-> found, mixed |-> built' # solvedOnly]
    <2>2. /\ query.mixed = (built' # solvedOnly) /\ query.named = found
          /\ query.scored = docs'
      BY Zenon
    <2>3. shown' = {query}
      BY <1>1, Zenon
    <2> HIDE DEF query, found
    <2>4. query.mixed \/ query.named = query.scored
      BY <2>1, <2>2, Zenon
    <2> QED
      BY <2>3, <2>4, Zenon DEF NamesRight
  <1>6. BuiltOver'
    <2>1. Candidates(built)' = Candidates(built')
      BY <1>1 DEF Candidates
    <2> QED
      BY <1>4, <2>1 DEF BuiltOver
  <1> QED
    BY <1>1, <1>4, <1>5, <1>6 DEF IndexInv, IndexTypeOK

LEMMA IndexKeeps == ASSUME IndexInv, IndexNext PROVE IndexInv'
  <1>1. CASE Recorded
    <2>1. PICK s \in DOMAIN past, th \in Theorems, ok \in BOOLEAN :
            past' = [past EXCEPT ![s] = [theorem |-> th, solved |-> ok, source |-> s]]
      BY <1>1 DEF Recorded
    <2>2. [theorem |-> th, solved |-> ok, source |-> s] \in Entry
      BY DEF IndexInv, IndexTypeOK, Entry
    <2>3. past' \in [ToSet(Files) \cup ToSet(DbRows) -> Entry \cup {NoDialog}]
      BY <2>1, <2>2 DEF IndexInv, IndexTypeOK
    <2>4. shown' = {} /\ UNCHANGED <<entries, dirty, docs, rows, built>>
      BY <1>1 DEF Recorded
    <2>5. BuiltOver'
      BY <2>4 DEF IndexInv, BuiltOver, Candidates
    <2> QED
      BY <2>3, <2>4, <2>5 DEF IndexInv, IndexTypeOK, NamesRight
  <1>2. CASE AddDialog
    <2>1. PICK th \in Theorems, ok \in BOOLEAN :
            Appended(<<[theorem |-> th, solved |-> ok, source |-> Memory]>>)
      BY <1>2 DEF AddDialog
    <2>2. <<[theorem |-> th, solved |-> ok, source |-> Memory]>> \in Seq(Entry)
      <3>1. [theorem |-> th, solved |-> ok, source |-> Memory] \in Entry
        BY DEF Entry
      <3> QED
        BY ONLY <3>1
    <2>3. shown' = {} /\ UNCHANGED <<past, docs, rows, built>>
      BY <1>2 DEF AddDialog
    <2> QED
      BY <2>1, <2>2, <2>3, AppendedKeeps
  <1>3. CASE IndexFromDirectory
    <2>1. Readable(Files) \in Seq(Entry)
      BY ReadableTyped, IndexAssumption
    <2> QED
      BY <1>3, <2>1, AppendedKeeps DEF IndexFromDirectory
  <1>4. CASE IndexFromProofContextStore
    <2>1. Readable(DbRows) \in Seq(Entry)
      BY ReadableTyped, IndexAssumption
    <2> QED
      BY <1>4, <2>1, AppendedKeeps DEF IndexFromProofContextStore
  <1>5. CASE LoadFromSqlite
    <2>1. rows \in Seq(Entry)
      BY DEF IndexInv, IndexTypeOK
    <2> QED
      BY <1>5, <2>1, AppendedKeeps DEF LoadFromSqlite
  <1>6. CASE Clear
    <2>1. entries' = <<>> /\ dirty' = FALSE /\ docs' = <<>> /\ shown' = {}
          /\ UNCHANGED <<past, rows, built>>
      BY <1>6 DEF Clear
    <2>2. <<>> \in Seq(Entry) /\ Len(<<>>) <= MaxEntries
      BY IndexAssumption
    <2> QED
      BY <2>1, <2>2 DEF IndexInv, IndexTypeOK, BuiltOver, NamesRight
  <1>7. CASE ReplaceFromSqlite
    <2>1. /\ Len(rows) <= MaxEntries /\ entries' = rows /\ dirty' \in BOOLEAN /\ docs' = <<>>
          /\ shown' = {} /\ UNCHANGED <<past, rows, built>>
      BY <1>7 DEF ReplaceFromSqlite
    <2>2. <<>> \in Seq(Entry)
      OBVIOUS
    <2> QED
      BY <2>1, <2>2 DEF IndexInv, IndexTypeOK, BuiltOver, NamesRight
  <1>8. CASE Persist
    <2>1. PICK replace \in BOOLEAN : rows' = Written(IF replace THEN <<>> ELSE rows)
      BY <1>8 DEF Persist
    <2>2. shown' = {} /\ UNCHANGED <<past, entries, dirty, docs, built>>
      BY <1>8 DEF Persist
    <2>3. rows \in Tables /\ <<>> \in Tables
      BY DEF IndexInv, IndexTypeOK, Tables, OneRowEach
    <2>4. rows' \in Tables
      <3>1. (IF replace THEN <<>> ELSE rows) \in Tables
        BY <2>3
      <3>2. entries \in Seq(Entry)
        BY DEF IndexInv, IndexTypeOK
      <3> QED
        BY <2>1, <3>1, <3>2, WrittenTable
    <2>5. rows' \in Seq(Entry) /\ OneRowEach(rows')
      BY <2>4 DEF Tables
    <2>6. BuiltOver'
      BY <2>2 DEF IndexInv, BuiltOver, Candidates
    <2> QED
      BY <2>2, <2>5, <2>6 DEF IndexInv, IndexTypeOK, NamesRight
  <1> QED
    BY <1>1, <1>2, <1>3, <1>4, <1>5, <1>6, <1>7, <1>8, FindKeeps DEF IndexNext

LEMMA IndexBegins == IndexInit => IndexInv
  <1> SUFFICES ASSUME IndexInit PROVE IndexInv
    OBVIOUS
  <1>1. <<>> \in Seq(Entry) /\ Len(<<>>) = 0 /\ 0 <= MaxEntries
    BY IndexAssumption
  <1>2. past \in [ToSet(Files) \cup ToSet(DbRows) -> Entry \cup {NoDialog}]
    BY DEF IndexInit
  <1>3. /\ entries = <<>> /\ dirty = FALSE /\ docs = <<>> /\ rows = <<>> /\ built = TRUE
        /\ shown = {}
    BY DEF IndexInit
  <1>4. IndexTypeOK
    BY ONLY <1>1, <1>2, <1>3 DEF IndexTypeOK
  <1>5. BuiltOver /\ NamesRight /\ OneRowEach(rows)
    BY ONLY <1>1, <1>3 DEF BuiltOver, NamesRight, OneRowEach
  <1> QED
    BY <1>4, <1>5 DEF IndexInv

LEMMA IndexStays == ASSUME IndexInv, UNCHANGED indexVars PROVE IndexInv'
  BY DEF indexVars, IndexInv, IndexTypeOK, BuiltOver, NamesRight, OneRowEach, Candidates

LEMMA DialogsAre == IndexInv => DialogsSound
  BY DEF IndexInv, NamesRight, OneRowEach, DialogsSound

-----------------------------------------------------------------------------
(* The stores together.                                                     *)

IInv == TacticInv /\ LemmaInv /\ TraceInv /\ BankInv /\ IndexInv

LEMMA InitHolds == Init => IInv
  BY TacticInit, LemmaInit, TraceInit, BankBegins, IndexBegins DEF Init, IInv

\* What belongs to the knowledge base, and to the bank, depends on their variables only.
LEMMA KnowledgeStays == ASSUME TacticInv, LemmaInv, UNCHANGED knowledgeVars
                        PROVE  TacticInv' /\ LemmaInv'
  <1>1. UNCHANGED <<plan, read, ids, tactics, told, raced, lemmas, added>>
    BY DEF knowledgeVars, database
  <1>2. /\ DOMAIN plan = Writers /\ DOMAIN read = Writers
        /\ \A w \in Writers : plan[w] = <<>> => read[w] = Unread
    BY DEF TacticInv, TacticTypes, ReadsInPlan
  <1>3. \A w \in Writers : \/ read'[w] = Unread
                           \/ /\ plan[w] # <<>> /\ Head(plan'[w]) = Head(plan[w])
                              /\ read'[w] = read[w]
    BY <1>1, <1>2
  <1> QED
    BY <1>1, <1>2, <1>3, TacticsAlone, LemmasAlone

LEMMA BankStays == ASSUME BankInv, UNCHANGED bankVars PROVE BankInv'
<1>1. UNCHANGED <<bank, open, known, pending, adding, exposed>>
  BY DEF bankVars
<1>2. Filed' = Filed
  BY <1>1 DEF Filed
<1>3. BankTypes'
  BY <1>1 DEF BankInv, BankTypes
<1>4. KnowsFile' /\ AddsNew'
  BY <1>1, <1>2 DEF BankInv, KnowsFile, AddsNew
<1>5. OneRow' /\ PendingExposed'
  BY <1>1 DEF BankInv, OneRow, PendingExposed
<1>6. QED
  BY <1>3, <1>4, <1>5 DEF BankInv

LEMMA StepHolds == IInv /\ [Next]_storeVars => IInv'
  <1> SUFFICES ASSUME IInv, [Next]_storeVars PROVE IInv'
    OBVIOUS
  <1>0. TacticInv /\ LemmaInv /\ TraceInv /\ BankInv /\ IndexInv
    BY DEF IInv
  <1>1. CASE KnowledgeNext /\ UNCHANGED <<bankVars, indexVars>>
    <2>1. TacticInv' /\ LemmaInv'
      BY <1>0, <1>1, KnowledgeKeeps, KnowledgeKeepsLemmas
    <2>2. TraceInv'
      BY <1>0, <1>1, KnowledgeTraced DEF TacticInv, LemmaInv
    <2>3. BankInv' /\ IndexInv'
      BY <1>0, <1>1, BankStays, IndexStays
    <2> QED
      BY <2>1, <2>2, <2>3 DEF IInv
  <1>2. CASE UNCHANGED knowledgeVars /\ (BankNext \/ UNCHANGED bankVars)
                                     /\ (IndexNext \/ UNCHANGED indexVars)
    <2>1. TacticInv' /\ LemmaInv' /\ TraceInv'
      BY <1>0, <1>2, KnowledgeStays, TraceStays
    <2>2. BankInv'
      BY <1>0, <1>2, BankKeeps, BankStays
    <2>3. IndexInv'
      BY <1>0, <1>2, IndexKeeps, IndexStays
    <2> QED
      BY <2>1, <2>2, <2>3 DEF IInv
  <1> QED
    BY <1>1, <1>2 DEF Next, storeVars

\* The invariant holds in every state.
THEOREM Inductive == Spec => []IInv
  BY InitHolds, StepHolds, PTL DEF Spec, storeVars

\* A tactic is credited with what was recorded of it, up to the writes of one who had
\* read an older row, and every citation of a lemma is counted, however the writers
\* overlap, are cancelled or crash (knowledge/store.py, _upsert_te_sync and
\* _add_lemma_sync).
THEOREM CountsHold == Spec => []CountsAgree
  <1>1. IInv => CountsAgree
    BY DEF IInv, TacticInv, LemmaInv, CountsAgree
  <1> QED
    BY <1>1, Inductive, PTL

\* A lemma names the trace that was recorded of a successful attempt with a have-step for
\* it, wherever its writer fails, is cancelled or crashes, and whatever contexts are
\* deleted (knowledge/writer.py, ingest_proof_result; proof_context_store.py, delete).
THEOREM LemmasAreTraced == Spec => []LemmaHasTrace
  <1>1. IInv => LemmaHasTrace
    BY LemmasHaveTraces DEF IInv, TacticInv
  <1> QED
    BY <1>1, Inductive, PTL

\* The bank keeps no two rows of a statement, unless two threads or processes added it
\* at once or a commit of it failed (prover/lemma_bank/persistent_bank.py, add).
THEOREM BankHolds == Spec => []NoTwins
  <1>1. IInv => NoTwins
    BY BankTwins DEF IInv
  <1> QED
    BY <1>1, Inductive, PTL

\* A query takes each name for the dialog that was scored under it, and the table keeps
\* one row for each theorem and source (knowledge/dialog_index.py, find_similar and
\* persist_to_sqlite).
THEOREM DialogsHold == Spec => []DialogsSound
  <1>1. IInv => DialogsSound
    BY DialogsAre DEF IInv
  <1> QED
    BY <1>1, Inductive, PTL
=============================================================================
