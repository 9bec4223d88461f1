-------------------------- MODULE LeanPool_proofs --------------------------
(***************************************************************************)
(* Proofs about Verification, for any tasks, sessions, proofs and          *)
(* subscribers; about Evaluation, for any problems, samples and codes; and *)
(* about LeanPool, for any set of callers and any bounds.                  *)
(***************************************************************************)
EXTENDS LeanPool, Verification, Evaluation, FiniteSetTheorems, WellFoundedInduction, TLAPS

-----------------------------------------------------------------------------
(* Verification: least and greatest numbers, and recursion.                 *)

\* A set of numbers that is not empty has a least one: the form in which the proofs
\* use induction.
LEMMA LeastNumber ==
  ASSUME NEW S, S \subseteq Nat, S # {}
  PROVE  \E m \in S : \A n \in S : m <= n
  <1>1. PICK m \in S : \A n \in S : <<n, m>> \notin OpToRel(<, Nat)
    BY WFMin, NatLessThanWellFounded, Zenon
  <1>2. \A n \in S : n \in Nat /\ ~(n < m)
    BY <1>1, Zenon DEF OpToRel
  <1>3. \A n \in S : m <= n
    BY <1>2
  <1> QED
    BY <1>3

\* Likewise a greatest one, when it is bounded.
LEMMA GreatestNumber ==
  ASSUME NEW N \in Nat, NEW S, S \subseteq 0..N, S # {}
  PROVE  \E m \in S : \A n \in S : n <= m
  <1> DEFINE T == {N - n : n \in S}
  <1>1. T \subseteq Nat /\ T # {}
    <2>1. \A n \in S : n \in 0..N /\ N - n \in Nat
      OBVIOUS
    <2> QED
      BY <2>1
  <1>2. PICK t \in T : \A k \in T : t <= k
    <2> HIDE DEF T
    <2> QED
      BY <1>1, LeastNumber
  <1>3. PICK m \in S : t = N - m
    OBVIOUS
  <1>4. \A n \in S : n <= m
    <2> TAKE n \in S
    <2>1. N - m <= N - n
      BY <1>2, <1>3
    <2>2. n \in 0..N /\ m \in 0..N
      OBVIOUS
    <2> QED
      BY <2>1, <2>2
  <1> QED
    BY <1>4

\* f starts at base and takes a step from each number to the next.
Computes(f, N, base, step) ==
  f = [n \in 0..N |-> IF n = 0 THEN base ELSE step[n][f[n - 1]]]

\* A function defined by recursion on 0..N exists.
LEMMA RecursionExists ==
  ASSUME NEW N \in Nat, NEW V, NEW base \in V, NEW step, \A n \in 1..N : step[n] \in [V -> V]
  PROVE  \E f \in [0..N -> V] : Computes(f, N, base, step)
  <1> DEFINE Rec(f, k) == Computes(f, k, base, step)
             Bad == {k \in 0..N : ~\E f \in [0..k -> V] : Rec(f, k)}
  <1> SUFFICES ASSUME Bad # {} PROVE FALSE
    <2>1. ASSUME Bad = {} PROVE \E f \in [0..N -> V] : Rec(f, N)
      <3>1. N \in 0..N /\ N \notin Bad
        BY <2>1
      <3> HIDE DEF Rec
      <3> QED
        BY <3>1
    <2> QED
      BY <2>1
  <1> USE DEF Computes
  <1>1. PICK m \in Bad : \A k \in Bad : m <= k
    <2>1. Bad \subseteq Nat
      OBVIOUS
    <2> HIDE DEF Bad
    <2> QED
      BY <2>1, LeastNumber
  <1>2. m \in 0..N /\ ~\E f \in [0..m -> V] : Rec(f, m)
    OBVIOUS
  <1>3. m # 0
    <2> SUFFICES ASSUME m = 0 PROVE FALSE
      OBVIOUS
    <2> DEFINE g == [n \in 0..0 |-> base]
    <2>1. g \in [0..0 -> V] /\ \A n \in 0..0 : n = 0
      OBVIOUS
    <2>2. g = [n \in 0..0 |-> IF n = 0 THEN base ELSE step[n][g[n - 1]]]
      BY <2>1
    <2> HIDE DEF g
    <2> QED
      BY <1>2, <2>1, <2>2
  <1>4. m - 1 \in 0..N /\ m - 1 \notin Bad
    <2>1. m - 1 \in 0..N /\ ~(m <= m - 1)
      BY <1>2, <1>3
    <2> HIDE DEF Bad
    <2> QED
      BY <1>1, <2>1
  <1>5. PICK f \in [0..(m - 1) -> V] : Rec(f, m - 1)
    BY <1>4
  <1> DEFINE last == step[m][f[m - 1]]
             g == [n \in 0..m |-> IF n = m THEN last ELSE f[n]]
  <1>6. last \in V
    BY <1>2, <1>3, <1>4
  <1>7. g \in [0..m -> V]
    <2> HIDE DEF last
    <2> QED
      BY <1>2, <1>6
  <1>8. \A n \in 0..m : g[n] = IF n = 0 THEN base ELSE step[n][g[n - 1]]
    <2> TAKE n \in 0..m
    <2>1. n # 0 => g[n - 1] = f[n - 1]
      BY <1>2
    <2>2. CASE n = m
      BY <1>3, <2>1, <2>2
    <2>3. CASE n # m
      <3>1. n \in 0..(m - 1)
        BY <1>2, <2>3
      <3>2. f[n] = IF n = 0 THEN base ELSE step[n][f[n - 1]]
        BY <1>5, <3>1
      <3> QED
        BY <2>1, <2>3, <3>2
    <2> QED
      BY <2>2, <2>3
  <1>9. Rec(g, m)
    <2> HIDE DEF last
    <2>1. g = [n \in 0..m |-> g[n]]
      OBVIOUS
    <2> HIDE DEF g
    <2> QED
      BY <1>8, <2>1
  <1> HIDE DEF g, Rec
  <1> QED
    BY <1>2, <1>7, <1>9

-----------------------------------------------------------------------------
(* Sequences of messages.                                                   *)

Messages == [topic : Topics, at : Nat]

LEMMA LastOfSequence ==
  ASSUME NEW E, NEW s \in Seq(E), NEW n \in Nat
  PROVE  /\ LastOf(s, n) \in Seq(E)
         /\ Len(LastOf(s, n)) = IF Len(s) <= n THEN Len(s) ELSE n
         /\ Len(LastOf(s, n)) \in Nat /\ Len(LastOf(s, n)) <= n /\ Len(LastOf(s, n)) <= Len(s)
         /\ \A i \in 1..Len(LastOf(s, n)) :
              LastOf(s, n)[i] = s[Len(s) - Len(LastOf(s, n)) + i]
  <1>0. Len(s) \in Nat
    OBVIOUS
  <1>1. CASE Len(s) <= n
    BY <1>0, <1>1 DEF LastOf
  <1>2. CASE ~(Len(s) <= n)
    <2> DEFINE k == SubSeq(s, Len(s) - n + 1, Len(s))
    <2>1. LastOf(s, n) = k
      BY <1>2 DEF LastOf
    <2>2. /\ k \in Seq(E) /\ Len(k) = n
          /\ \A i \in 1..n : k[i] = s[Len(s) - n + 1 + i - 1]
      BY <1>0, <1>2
    <2> HIDE DEF k
    <2>3. \A i \in 1..n : k[i] = s[Len(s) - n + i]
      <3> TAKE i \in 1..n
      <3>1. Len(s) - n + 1 + i - 1 = Len(s) - n + i
        BY <1>0
      <3> QED
        BY <2>2, <3>1
    <2> QED
      BY <1>2, <2>1, <2>2, <2>3
  <1> QED
    BY <1>1, <1>2

LastPart(l, s, n, E) ==
  /\ l \in Seq(E) /\ Len(s) \in Nat /\ Len(l) \in Nat /\ Len(l) <= n /\ Len(l) <= Len(s)
  /\ \A i \in 1..Len(l) : l[i] = s[Len(s) - Len(l) + i]

LEMMA LastOfEnds ==
  ASSUME NEW E, NEW s \in Seq(E), NEW n \in Nat, NEW l, l = LastOf(s, n)
  PROVE  LastPart(l, s, n, E)
  BY LastOfSequence DEF LastPart

LEMMA LastOfAt ==
  ASSUME NEW E, NEW s \in Seq(E), NEW n \in Nat, NEW l, l = LastOf(s, n)
  PROVE  /\ l \in Seq(E) /\ Len(s) \in Nat /\ Len(l) \in Nat /\ Len(l) <= n /\ Len(l) <= Len(s)
         /\ \A i \in 1..Len(l) : l[i] = s[Len(s) - Len(l) + i]
  BY LastOfSequence

\* f is the end of r.
EndOf(f, r) ==
  /\ Len(f) <= Len(r)
  /\ \A i \in 1..Len(f) : f[i] = r[Len(r) - Len(f) + i]

LEMMA EndAppended ==
  ASSUME NEW E, NEW f \in Seq(E), NEW r \in Seq(E), EndOf(f, r), NEW m \in E,
         NEW a \in Nat, NEW b \in Nat, a <= b
  PROVE  EndOf(LastOf(Append(f, m), a), LastOf(Append(r, m), b))
  <1> DEFINE fm == Append(f, m)
             rm == Append(r, m)
             g == LastOf(fm, a)
             s == LastOf(rm, b)
  <1>1. /\ fm \in Seq(E) /\ rm \in Seq(E) /\ Len(f) \in Nat /\ Len(r) \in Nat
        /\ Len(fm) = Len(f) + 1 /\ Len(rm) = Len(r) + 1
    OBVIOUS
  <1>2. \A i \in 1..Len(fm) : fm[i] = rm[Len(rm) - Len(fm) + i]
    <2> TAKE i \in 1..Len(fm)
    <2>1. CASE i = Len(fm)
      BY <1>1, <2>1
    <2>2. CASE i # Len(fm)
      <3>1. i \in 1..Len(f) /\ fm[i] = f[i]
        BY <1>1, <2>2
      <3>2. Len(r) - Len(f) + i \in 1..Len(r)
        BY <1>1, <3>1 DEF EndOf
      <3>3. rm[Len(rm) - Len(fm) + i] = r[Len(r) - Len(f) + i]
        BY <1>1, <3>2
      <3> QED
        BY <3>1, <3>3 DEF EndOf
    <2> QED
      BY <2>1, <2>2
  <1> HIDE DEF fm, rm
  <1>3. /\ Len(g) = IF Len(fm) <= a THEN Len(fm) ELSE a
        /\ \A i \in 1..Len(g) : g[i] = fm[Len(fm) - Len(g) + i]
        /\ Len(s) = IF Len(rm) <= b THEN Len(rm) ELSE b
        /\ \A i \in 1..Len(s) : s[i] = rm[Len(rm) - Len(s) + i]
    BY <1>1, LastOfSequence
  <1> HIDE DEF g, s
  <1>4. Len(g) <= Len(s) /\ Len(g) \in Nat /\ Len(s) \in Nat
    BY <1>1, <1>3 DEF EndOf
  <1>5. ASSUME NEW i \in 1..Len(g)
        PROVE  g[i] = s[Len(s) - Len(g) + i]
    <2>1. g[i] = fm[Len(fm) - Len(g) + i] /\ Len(fm) - Len(g) + i \in 1..Len(fm)
      <3>1. Len(g) <= Len(fm) /\ Len(fm) \in Nat
        BY <1>1, <1>3
      <3>2. Len(fm) - Len(g) + i \in 1..Len(fm)
        BY <1>4, <3>1
      <3>3. g[i] = fm[Len(fm) - Len(g) + i]
        BY <1>3
      <3> QED
        BY <3>2, <3>3
    <2>2. fm[Len(fm) - Len(g) + i] = rm[Len(rm) - Len(fm) + (Len(fm) - Len(g) + i)]
      BY <1>2, <2>1
    <2>3. Len(rm) - Len(fm) + (Len(fm) - Len(g) + i) = Len(rm) - Len(g) + i
      BY <1>1, <1>4
    <2>4. Len(s) - Len(g) + i \in 1..Len(s)
      BY <1>4
    <2>5. s[Len(s) - Len(g) + i] = rm[Len(rm) - Len(s) + (Len(s) - Len(g) + i)]
      BY <1>3, <2>4
    <2>6. Len(rm) - Len(s) + (Len(s) - Len(g) + i) = Len(rm) - Len(g) + i
      BY <1>1, <1>4
    <2> QED
      BY <2>1, <2>2, <2>3, <2>5, <2>6
  <1> QED
    BY <1>4, <1>5 DEF EndOf, g, s, fm, rm

\* What publish() drops of the fingerprints.
LEMMA ExpiredPrefix ==
  ASSUME NEW s \in Seq(Messages)
  PROVE  /\ Expired(s) \in 0..Len(s)
         /\ \A i \in 1..Expired(s) : ~InWindow(s[i])
  <1> DEFINE stops == {n \in 0..Len(s) : n = Len(s) \/ InWindow(s[n + 1])}
  <1>1. Len(s) \in Nat /\ stops \subseteq Nat /\ stops # {}
    OBVIOUS
  <1>2. PICK n \in stops : \A k \in stops : n <= k
    <2> HIDE DEF stops
    <2> QED
      BY <1>1, LeastNumber
  <1>3. \A i \in 1..n : ~InWindow(s[i])
    <2> SUFFICES ASSUME NEW i \in 1..n, InWindow(s[i]) PROVE FALSE
      OBVIOUS
    <2>1. i - 1 \in 0..Len(s) /\ s[(i - 1) + 1] = s[i]
      BY <1>1
    <2>2. i - 1 \in stops
      BY <2>1
    <2> QED
      BY <1>2, <2>2
  <1>4. \E k \in 0..Len(s) : /\ \A i \in 1..k : ~InWindow(s[i])
                             /\ k = Len(s) \/ InWindow(s[k + 1])
    BY <1>3
  <1> QED
    BY <1>4 DEF Expired

Kept(s) == SubSeq(s, Expired(s) + 1, Len(s))

LEMMA KeptSequence ==
  ASSUME NEW s \in Seq(Messages)
  PROVE  /\ Kept(s) \in Seq(Messages) /\ EndOf(Kept(s), s)
         /\ \A m \in In(s) : InWindow(m) => m \in In(Kept(s))
  <1>1. Expired(s) \in 0..Len(s) /\ Len(s) \in Nat
    BY ExpiredPrefix
  <1> DEFINE e == Expired(s)
             k == Kept(s)
  <1>2. /\ k \in Seq(Messages) /\ Len(k) = Len(s) - e
        /\ \A i \in 1..Len(k) : k[i] = s[e + i]
    BY <1>1 DEF Kept
  <1>3. EndOf(k, s)
    BY <1>1, <1>2 DEF EndOf
  <1>4. ASSUME NEW m \in In(s), InWindow(m)
        PROVE  m \in In(k)
    <2>1. PICK i \in 1..Len(s) : m = s[i]
      BY DEF In
    <2>2. i \notin 1..e
      BY <1>4, <2>1, ExpiredPrefix
    <2>3. i - e \in 1..Len(k) /\ k[i - e] = s[i]
      BY <1>1, <1>2, <2>1, <2>2
    <2> QED
      BY <2>1, <2>3 DEF In
  <1> QED
    BY <1>2, <1>3, <1>4

LEMMA EndMembers ==
  ASSUME NEW E, NEW f \in Seq(E), NEW r \in Seq(E), EndOf(f, r)
  PROVE  In(f) \subseteq In(r)
  <1> SUFFICES ASSUME NEW i \in 1..Len(f) PROVE f[i] \in In(r)
    BY DEF In
  <1>1. Len(r) - Len(f) + i \in 1..Len(r)
    BY DEF EndOf
  <1> QED
    BY <1>1 DEF EndOf, In

LEMMA EndTransitive ==
  ASSUME NEW E, NEW f \in Seq(E), NEW g \in Seq(E), NEW r \in Seq(E),
         EndOf(f, g), EndOf(g, r)
  PROVE  EndOf(f, r)
  <1>1. Len(f) \in Nat /\ Len(g) \in Nat /\ Len(r) \in Nat /\ Len(f) <= Len(g) /\ Len(g) <= Len(r)
    BY DEF EndOf
  <1>2. ASSUME NEW i \in 1..Len(f) PROVE f[i] = r[Len(r) - Len(f) + i]
    <2>1. Len(g) - Len(f) + i \in 1..Len(g)
      BY <1>1
    <2>2. g[Len(g) - Len(f) + i] = r[Len(r) - Len(g) + (Len(g) - Len(f) + i)]
      BY <2>1 DEF EndOf
    <2>3. Len(r) - Len(g) + (Len(g) - Len(f) + i) = Len(r) - Len(f) + i
      BY <1>1
    <2> QED
      BY <2>2, <2>3 DEF EndOf
  <1> QED
    BY <1>1, <1>2 DEF EndOf

-----------------------------------------------------------------------------
(* The bus.                                                                 *)

BusTypes ==
  /\ now \in Nat /\ now <= MaxTime
  /\ recent \in Seq(Messages) /\ fresh \in Seq(Messages)
  /\ DOMAIN queues \subseteq Members /\ queues \in [DOMAIN queues -> Seq(Messages)]
  /\ Len(recent) <= MaxHistory /\ Len(fresh) <= MaxFresh
  /\ \A d \in DOMAIN queues : Len(queues[d]) <= MaxQueue
  /\ crowded \in BOOLEAN

\* The sequence s holds no message from the future, none that is in the window without
\* its fingerprint, and no two equal ones within a window.
Known(s, f, t) ==
  /\ \A i \in 1..Len(s) : s[i].at <= t
  /\ \A i \in 1..Len(s) : t - s[i].at <= Window => s[i] \in In(f)
Apart(s) ==
  \A i, j \in 1..Len(s) :
    i < j /\ Fingerprint[s[i].topic] = Fingerprint[s[j].topic] => s[j].at - s[i].at > Window

\* The fingerprints are the newest messages of the history; unless one was dropped for
\* want of room, they hold every message of the history and the queues that is inside
\* the window.
BusInv ==
  /\ BusTypes
  /\ EndOf(fresh, recent)
  /\ \A i \in 1..Len(recent) : recent[i].at <= now
  /\ ~crowded => /\ Known(recent, fresh, now) /\ Apart(recent)
                 /\ \A d \in DOMAIN queues : Known(queues[d], fresh, now) /\ Apart(queues[d])

\* A message that is published keeps a sequence's messages known and apart.
LEMMA PushKeeps ==
  ASSUME BusTypes, NEW q \in Seq(Messages), Known(q, fresh, now), Apart(q),
         NEW topic \in Topics, NEW n \in Nat,
         ~Repeats(topic, Kept(fresh)),
         NEW f, f = Append(Kept(fresh), Message(topic))
  PROVE  LET s == LastOf(Append(q, Message(topic)), n)
         IN Known(s, f, now) /\ Apart(s)
  <1> DEFINE m == Message(topic)
             qm == Append(q, m)
             s == LastOf(qm, n)
  <1>0. now \in Nat /\ Window \in Nat /\ fresh \in Seq(Messages)
    BY BusAssumption DEF BusTypes
  <1>1. m \in Messages /\ m.topic = topic /\ m.at = now
    BY <1>0 DEF Message, Messages
  <1> HIDE DEF m
  <1>2. /\ qm \in Seq(Messages) /\ Len(q) \in Nat /\ Len(qm) = Len(q) + 1 /\ qm[Len(qm)] = m
        /\ \A i \in 1..Len(q) : qm[i] = q[i]
    BY <1>1
  <1>3. /\ Kept(fresh) \in Seq(Messages)
        /\ \A x \in In(fresh) : InWindow(x) => x \in In(Kept(fresh))
    BY <1>0, KeptSequence
  <1>4. In(f) = In(Kept(fresh)) \cup {m}
    <2> DEFINE k == Kept(fresh)
    <2>1. f = Append(k, m) /\ k \in Seq(Messages)
      BY <1>3 DEF m
    <2> HIDE DEF k
    <2>2. Len(f) = Len(k) + 1 /\ Len(k) \in Nat /\ f[Len(k) + 1] = m
          /\ \A i \in 1..Len(k) : f[i] = k[i]
      BY <1>1, <2>1
    <2>3. 1..Len(f) = (1..Len(k)) \cup {Len(k) + 1}
      BY <2>2
    <2> QED
      BY <2>2, <2>3 DEF In, k
  <1>5. \A i \in 1..Len(q) :
          /\ q[i].at \in Nat /\ q[i].at <= now
          /\ now - q[i].at <= Window => q[i] \in In(Kept(fresh)) /\ Fingerprint[q[i].topic] # Fingerprint[topic]
    <2> TAKE i \in 1..Len(q)
    <2>1. q[i] \in Messages
      OBVIOUS
    <2>2. q[i].at \in Nat /\ q[i].at <= now
      BY <2>1 DEF Messages, Known
    <2>3. ASSUME now - q[i].at <= Window PROVE q[i] \in In(Kept(fresh))
      BY <1>3, <2>3 DEF Known, InWindow
    <2>4. q[i] \in In(Kept(fresh)) => Fingerprint[q[i].topic] # Fingerprint[topic]
      BY Zenon DEF Repeats
    <2> QED
      BY <2>2, <2>3, <2>4
  <1>6. Known(qm, f, now)
    <2> SUFFICES ASSUME NEW i \in 1..Len(qm)
                 PROVE  qm[i].at <= now /\ (now - qm[i].at <= Window => qm[i] \in In(f))
      BY DEF Known
    <2>1. CASE i = Len(qm)
      BY <1>0, <1>1, <1>2, <1>4, <2>1
    <2>2. CASE i # Len(qm)
      <3>1. i \in 1..Len(q) /\ qm[i] = q[i]
        BY <1>2, <2>2
      <3> QED
        BY <1>4, <1>5, <3>1
    <2> QED
      BY <2>1, <2>2
  <1>7. Apart(qm)
    <2> SUFFICES ASSUME NEW i \in 1..Len(qm), NEW j \in 1..Len(qm), i < j,
                        Fingerprint[qm[i].topic] = Fingerprint[qm[j].topic]
                 PROVE  qm[j].at - qm[i].at > Window
      BY DEF Apart
    <2>1. i \in 1..Len(q) /\ qm[i] = q[i]
      BY <1>2
    <2>2. CASE j = Len(qm)
      <3>1. Fingerprint[q[i].topic] = Fingerprint[topic] /\ qm[j].at = now
        BY <1>1, <1>2, <2>1, <2>2
      <3>2. ~(now - q[i].at <= Window)
        BY <1>5, <2>1, <3>1
      <3> QED
        BY <1>0, <1>5, <2>1, <3>1, <3>2
    <2>3. CASE j # Len(qm)
      <3>1. j \in 1..Len(q)
        BY <1>2, <2>3
      <3>2. qm[j] = q[j]
        BY <1>2, <3>1
      <3> QED
        BY <2>1, <3>1, <3>2 DEF Apart
    <2> QED
      BY <2>2, <2>3
  <1> HIDE DEF qm, s
  <1>8. /\ Len(s) \in Nat /\ Len(s) <= Len(qm) /\ Len(qm) \in Nat
        /\ \A i \in 1..Len(s) : s[i] = qm[Len(qm) - Len(s) + i]
    <2>1. s = LastOf(qm, n) /\ qm \in Seq(Messages) /\ n \in Nat
      BY <1>2 DEF s
    <2>2. LastPart(s, qm, n, Messages)
      BY ONLY <2>1, LastOfEnds, Zenon
    <2> QED
      BY <2>2, Zenon DEF LastPart
  <1>9. \A i \in 1..Len(s) : Len(qm) - Len(s) + i \in 1..Len(qm)
    BY <1>8
  <1>10. Known(s, f, now)
    BY <1>6, <1>8, <1>9 DEF Known
  <1>11. Apart(s)
    <2> SUFFICES ASSUME NEW i \in 1..Len(s), NEW j \in 1..Len(s), i < j,
                        Fingerprint[s[i].topic] = Fingerprint[s[j].topic]
                 PROVE  s[j].at - s[i].at > Window
      BY DEF Apart
    <2> DEFINE x == Len(qm) - Len(s) + i
               y == Len(qm) - Len(s) + j
    <2>1. x \in 1..Len(qm) /\ y \in 1..Len(qm) /\ x < y
      BY <1>8, <1>9
    <2>2. s[i] = qm[x] /\ s[j] = qm[y]
      BY <1>8
    <2> HIDE DEF x, y
    <2> QED
      BY <1>7, <2>1, <2>2 DEF Apart
  <1> QED
    BY <1>10, <1>11 DEF s, qm, m

\* What is no longer in the window needs no fingerprint.
LEMMA DropKeeps ==
  ASSUME BusTypes, NEW q \in Seq(Messages), Known(q, fresh, now)
  PROVE  Known(q, Kept(fresh), now)
  <1>1. \A x \in In(fresh) : InWindow(x) => x \in In(Kept(fresh))
    BY KeptSequence DEF BusTypes
  <1> QED
    BY <1>1 DEF Known, InWindow

LEMMA BusConstants ==
  /\ MaxHistory \in Nat /\ MaxFresh \in Nat /\ MaxQueue \in Nat
  /\ MaxHistory >= 1 /\ MaxFresh >= 1 /\ MaxQueue >= 1 /\ MaxFresh <= MaxHistory
  /\ Window \in Nat /\ Ttl \in Nat /\ MaxTime \in Nat /\ Window <= Ttl
  /\ MaxMessages \in Nat /\ MaxChars \in Nat
  BY BusAssumption

LEMMA PublishStep ==
  ASSUME BusInv, NEW topic \in Topics, NEW source, Publish(topic, source), now' = now
  PROVE  BusInv'
  <1> DEFINE kept == Kept(fresh)
             m == Message(topic)
  <1>t. /\ BusTypes /\ now \in Nat /\ m \in Messages /\ m.at = now
        /\ fresh \in Seq(Messages) /\ recent \in Seq(Messages)
    BY DEF BusInv, BusTypes, Message, Messages
  <1>k. kept \in Seq(Messages) /\ EndOf(kept, fresh) /\ EndOf(kept, recent)
    BY <1>t, KeptSequence, EndTransitive DEF BusInv
  <1>l. Len(kept) \in Nat /\ Len(kept) <= Len(fresh) /\ Len(kept) <= MaxFresh
    BY <1>t, <1>k, BusConstants DEF EndOf, BusTypes
  <1>1. CASE Repeats(topic, kept)
    <2>1. fresh' = kept /\ UNCHANGED <<recent, queues, crowded>>
      BY <1>1 DEF Publish, Kept
    <2> HIDE DEF kept
    <2>2. BusTypes'
      BY <1>k, <1>l, <1>t, <2>1 DEF BusTypes
    <2>3. ASSUME ~crowded'
          PROVE  /\ Known(recent, kept, now) /\ Apart(recent)
                 /\ \A d \in DOMAIN queues : Known(queues[d], kept, now) /\ Apart(queues[d])
      BY <1>t, <2>1, <2>3, DropKeeps DEF BusInv, BusTypes, kept
    <2> QED
      BY <1>k, <2>1, <2>2, <2>3 DEF BusInv
  <1>2. CASE ~Repeats(topic, kept)
    <2>1. /\ fresh' = LastOf(Append(kept, m), MaxFresh)
          /\ crowded' = (crowded \/ Len(kept) = MaxFresh)
          /\ recent' = LastOf(Append(recent, m), MaxHistory)
          /\ queues' = [d \in DOMAIN queues |->
                          IF d = source THEN queues[d]
                          ELSE LastOf(Append(queues[d], m), MaxQueue)]
      BY <1>2 DEF Publish, Kept
    <2> HIDE DEF kept, m
    <2>q. \A d \in DOMAIN queues : queues[d] \in Seq(Messages)
      BY <1>t DEF BusTypes
    <2>2. /\ fresh' \in Seq(Messages) /\ Len(fresh') <= MaxFresh
          /\ recent' \in Seq(Messages) /\ Len(recent') <= MaxHistory
      <3>1. Append(kept, m) \in Seq(Messages) /\ Append(recent, m) \in Seq(Messages)
        BY <1>t, <1>k
      <3> QED
        BY <2>1, <3>1, LastOfSequence, BusConstants
    <2>3. ASSUME NEW d \in DOMAIN queues'
          PROVE  queues'[d] \in Seq(Messages) /\ Len(queues'[d]) <= MaxQueue
      <3>1. d \in DOMAIN queues /\ Append(queues[d], m) \in Seq(Messages)
        BY <1>t, <2>1, <2>q
      <3>2. \/ queues'[d] = queues[d]
            \/ queues'[d] = LastOf(Append(queues[d], m), MaxQueue)
        BY <2>1, <3>1
      <3>3. /\ LastOf(Append(queues[d], m), MaxQueue) \in Seq(Messages)
            /\ Len(LastOf(Append(queues[d], m), MaxQueue)) <= MaxQueue
        BY <3>1, LastOfSequence, BusConstants
      <3> QED
        BY <1>t, <2>q, <3>1, <3>2, <3>3 DEF BusTypes
    <2>4. BusTypes'
      <3>1. DOMAIN queues' = DOMAIN queues /\ crowded' \in BOOLEAN
        BY <2>1
      <3>2. queues' \in [DOMAIN queues' -> Seq(Messages)]
        BY <2>1, <2>3
      <3> QED
        BY <1>t, <2>2, <2>3, <3>1, <3>2 DEF BusTypes
    <2>5. EndOf(fresh', recent')
      BY <1>t, <1>k, <2>1, EndAppended, BusConstants
    <2>6. \A i \in 1..Len(recent') : recent'[i].at <= now
      <3> DEFINE r == Append(recent, m)
      <3>1. /\ r \in Seq(Messages) /\ Len(recent) \in Nat /\ Len(r) = Len(recent) + 1
            /\ r[Len(r)] = m /\ \A i \in 1..Len(recent) : r[i] = recent[i]
        BY <1>t
      <3>2. \A i \in 1..Len(r) : r[i].at <= now
        BY <1>t, <3>1 DEF BusInv
      <3> HIDE DEF r
      <3>3. /\ Len(recent') \in Nat /\ Len(recent') <= Len(r) /\ Len(r) \in Nat
            /\ \A i \in 1..Len(recent') : recent'[i] = r[Len(r) - Len(recent') + i]
        <4>1. recent' = LastOf(r, MaxHistory)
          BY <2>1 DEF r
        <4>2. r \in Seq(Messages) /\ MaxHistory \in Nat
          BY <3>1, BusConstants
        <4> QED
          BY <4>1, <4>2, LastOfAt
      <3>4. \A i \in 1..Len(recent') : Len(r) - Len(recent') + i \in 1..Len(r)
        BY <3>3
      <3> QED
        BY <3>2, <3>3, <3>4
    <2>7. ASSUME ~crowded'
          PROVE  /\ Known(recent', fresh', now) /\ Apart(recent')
                 /\ \A d \in DOMAIN queues' : Known(queues'[d], fresh', now) /\ Apart(queues'[d])
      <3>1. ~crowded /\ Len(kept) # MaxFresh
        BY <2>1, <2>7
      <3>2. fresh' = Append(kept, m)
        <4>1. Append(kept, m) \in Seq(Messages) /\ Len(Append(kept, m)) = Len(kept) + 1
          BY <1>t, <1>k
        <4>2. Len(Append(kept, m)) <= MaxFresh
          BY <1>l, <3>1, <4>1, BusConstants
        <4> QED
          BY <2>1, <4>2 DEF LastOf
      <3>3. ASSUME NEW q \in Seq(Messages), Known(q, fresh, now), Apart(q), NEW n \in Nat
            PROVE  /\ Known(LastOf(Append(q, m), n), fresh', now)
                   /\ Apart(LastOf(Append(q, m), n))
        BY <1>t, <1>2, <3>2, <3>3, PushKeeps DEF kept, m
      <3>4. Known(recent', fresh', now) /\ Apart(recent')
        BY <1>t, <2>1, <3>1, <3>3, BusConstants DEF BusInv
      <3>5. ASSUME NEW d \in DOMAIN queues'
            PROVE  Known(queues'[d], fresh', now) /\ Apart(queues'[d])
        <4>1. d \in DOMAIN queues /\ queues[d] \in Seq(Messages)
              /\ Known(queues[d], fresh, now) /\ Apart(queues[d])
          BY <2>1, <2>q, <3>1 DEF BusInv
        <4>2. CASE d = source
          <5>1. queues'[d] = queues[d]
            BY <2>1, <4>1, <4>2
          <5>2. Known(queues[d], kept, now)
            BY <1>t, <4>1, DropKeeps DEF kept
          <5>3. In(kept) \subseteq In(fresh')
            <6>1. /\ Len(fresh') = Len(kept) + 1
                  /\ \A i \in 1..Len(kept) : fresh'[i] = kept[i] /\ i \in 1..Len(fresh')
              BY <1>t, <1>k, <1>l, <3>2
            <6> QED
              BY <6>1 DEF In
          <5> QED
            BY <4>1, <5>1, <5>2, <5>3 DEF Known
        <4>3. CASE d # source
          <5>1. queues'[d] = LastOf(Append(queues[d], m), MaxQueue)
            BY <2>1, <4>1, <4>3
          <5> QED
            BY <3>3, <4>1, <5>1, BusConstants
        <4> QED
          BY <4>2, <4>3
      <3> QED
        BY <3>4, <3>5
    <2> QED
      BY <2>4, <2>5, <2>6, <2>7 DEF BusInv
  <1> QED
    BY <1>1, <1>2

LEMMA EmptyQueue == <<>> \in Seq(Messages) /\ Len(<<>>) = 0 /\ \A f, t : Known(<<>>, f, t) /\ Apart(<<>>)
  BY DEF Known, Apart

\* Subscribing, unsubscribing and rendering empty or drop queues.
LEMMA QueuesStep ==
  ASSUME BusInv, UNCHANGED <<now, recent, fresh, crowded>>,
         NEW D, D \subseteq Members, NEW q, queues' = q, q = [d \in D |-> q[d]],
         \A d \in D : q[d] = <<>> \/ (d \in DOMAIN queues /\ q[d] = queues[d])
  PROVE  BusInv'
  <1>t. /\ BusTypes /\ MaxQueue \in Nat /\ DOMAIN q = D
        /\ \A d \in DOMAIN queues : queues[d] \in Seq(Messages) /\ Len(queues[d]) <= MaxQueue
    BY BusConstants DEF BusInv, BusTypes
  <1>1. ASSUME NEW d \in D
        PROVE  /\ q[d] \in Seq(Messages) /\ Len(q[d]) <= MaxQueue
               /\ ~crowded => Known(q[d], fresh, now) /\ Apart(q[d])
    <2>1. CASE q[d] = <<>>
      BY <1>t, <2>1, EmptyQueue
    <2>2. CASE d \in DOMAIN queues /\ q[d] = queues[d]
      BY <1>t, <2>2 DEF BusInv
    <2> QED
      BY <2>1, <2>2
  <1>2. q \in [DOMAIN q -> Seq(Messages)]
    BY <1>t, <1>1
  <1>3. BusTypes'
    BY <1>t, <1>1, <1>2 DEF BusTypes
  <1> QED
    BY <1>t, <1>1, <1>3 DEF BusInv

LEMMA TickStep ==
  ASSUME BusInv, Tick
  PROVE  BusInv'
  <1>t. /\ BusTypes /\ now \in Nat /\ Window \in Nat /\ MaxTime \in Nat /\ now' = now + 1
        /\ now < MaxTime /\ UNCHANGED <<recent, fresh, queues, crowded>>
    BY BusConstants DEF BusInv, BusTypes, Tick
  <1>1. ASSUME NEW q \in Seq(Messages), Known(q, fresh, now)
        PROVE  Known(q, fresh, now + 1)
    <2>1. ASSUME NEW i \in 1..Len(q)
          PROVE  /\ q[i].at <= now + 1
                 /\ (now + 1) - q[i].at <= Window => q[i] \in In(fresh)
      <3>1. q[i] \in Messages
        OBVIOUS
      <3>2. q[i].at \in Nat
        BY <3>1 DEF Messages
      <3>3. q[i].at <= now /\ (now - q[i].at <= Window => q[i] \in In(fresh))
        BY <1>1 DEF Known
      <3> QED
        BY <1>t, <3>2, <3>3
    <2> QED
      BY ONLY <2>1 DEF Known
  <1>2. \A i \in 1..Len(recent) : recent[i].at <= now + 1
    <2> TAKE i \in 1..Len(recent)
    <2>1. recent[i] \in Messages
      BY <1>t DEF BusTypes
    <2>2. recent[i].at \in Nat /\ recent[i].at <= now
      BY <2>1 DEF Messages, BusInv
    <2> QED
      BY <1>t, <2>2
  <1>3. BusTypes'
    BY <1>t DEF BusTypes
  <1>4. ~crowded => /\ Known(recent, fresh, now + 1)
                    /\ \A d \in DOMAIN queues : Known(queues[d], fresh, now + 1)
    BY <1>t, <1>1 DEF BusInv, BusTypes
  <1> QED
    BY <1>t, <1>2, <1>3, <1>4 DEF BusInv

LEMMA ClearStep ==
  ASSUME BusInv, Clear
  PROVE  BusInv'
  <1>1. /\ recent' = <<>> /\ fresh' = <<>> /\ queues' = [d \in DOMAIN queues |-> <<>>]
        /\ UNCHANGED <<now, crowded>> /\ BusTypes
    BY DEF Clear, BusInv
  <1>2. /\ recent' \in Seq(Messages) /\ fresh' \in Seq(Messages)
        /\ Len(recent') = 0 /\ Len(fresh') = 0
    BY <1>1, EmptyQueue
  <1>3. /\ DOMAIN queues' = DOMAIN queues /\ queues' \in [DOMAIN queues' -> Seq(Messages)]
        /\ \A d \in DOMAIN queues' : queues'[d] = <<>> /\ Len(queues'[d]) = 0
    BY <1>1, EmptyQueue
  <1>4. BusTypes'
    BY <1>1, <1>2, <1>3, BusConstants DEF BusTypes
  <1>5. EndOf(fresh', recent') /\ \A i \in 1..Len(recent') : recent'[i].at <= now
    BY <1>2 DEF EndOf
  <1>6. /\ Known(recent', fresh', now) /\ Apart(recent')
        /\ \A d \in DOMAIN queues' : Known(queues'[d], fresh', now) /\ Apart(queues'[d])
    BY <1>1, <1>3, EmptyQueue
  <1> QED
    BY <1>1, <1>4, <1>5, <1>6 DEF BusInv

LEMMA BusStep == BusInv /\ BusNext => BusInv'
  <1> SUFFICES ASSUME BusInv, BusNext PROVE BusInv'
    OBVIOUS
  <1>t. DOMAIN queues \subseteq Members
    BY DEF BusInv, BusTypes
  <1>1. ASSUME NEW d \in Members, Subscribe(d) PROVE BusInv'
    <2> DEFINE D == DOMAIN queues \cup {d}
               q == [e \in D |-> IF e = d THEN <<>> ELSE queues[e]]
    <2>1. queues' = q /\ UNCHANGED <<now, recent, fresh, crowded>>
      BY <1>1 DEF Subscribe
    <2>2. \A e \in D : q[e] = <<>> \/ (e \in DOMAIN queues /\ q[e] = queues[e])
      OBVIOUS
    <2>3. D \subseteq Members /\ q = [e \in D |-> q[e]]
      BY <1>t
    <2> HIDE DEF D, q
    <2> QED
      BY <2>1, <2>2, <2>3, QueuesStep
  <1>2. ASSUME NEW d \in Members, Unsubscribe(d) PROVE BusInv'
    <2> DEFINE D == DOMAIN queues \ {d}
               q == [e \in D |-> queues[e]]
    <2>1. queues' = q /\ UNCHANGED <<now, recent, fresh, crowded>>
      BY <1>2 DEF Unsubscribe
    <2>2. \A e \in D : q[e] = <<>> \/ (e \in DOMAIN queues /\ q[e] = queues[e])
      OBVIOUS
    <2>3. D \subseteq Members /\ q = [e \in D |-> q[e]]
      BY <1>t
    <2> HIDE DEF D, q
    <2> QED
      BY <2>1, <2>2, <2>3, QueuesStep
  <1>3. ASSUME NEW d \in Members, Render(d) PROVE BusInv'
    <2> DEFINE D == DOMAIN queues
               q == [queues EXCEPT ![d] = <<>>]
    <2>1. queues' = q /\ UNCHANGED <<now, recent, fresh, crowded>>
      BY <1>3 DEF Render
    <2>2. \A e \in D : q[e] = <<>> \/ (e \in DOMAIN queues /\ q[e] = queues[e])
      OBVIOUS
    <2>3. D \subseteq Members /\ q = [e \in D |-> q[e]]
      BY <1>t
    <2> HIDE DEF D, q
    <2> QED
      BY <2>1, <2>2, <2>3, QueuesStep
  <1>4. ASSUME NEW d \in Senders, NEW topic \in Shareable, Share(d, topic) PROVE BusInv'
    BY <1>4, PublishStep, BusAssumption DEF Share
  <1> QED
    BY <1>1, <1>2, <1>3, <1>4, ClearStep, TickStep DEF BusNext

-----------------------------------------------------------------------------
(* The verdicts.                                                            *)

Calls == [at : {"check", "answered", "compile"}, proof : Proofs, full : BOOLEAN,
          version : Nat, ok : BOOLEAN, since : Nat]
Entries == [key : Nat \X Proofs, ok : BOOLEAN, since : Nat]

\* A call's verdict, and an entry of the cache, are from no version before the one they
\* are for.
CallSound(c) == /\ c.version <= version
                /\ c.at # "check" => c.since >= c.version
EntrySound(e) == e.since >= e.key[1]

CacheSound(c) ==
  /\ c \in Seq(Entries)
  /\ \A i \in 1..Len(c) : EntrySound(c[i])
  /\ \A i, j \in 1..Len(c) : c[i].key = c[j].key => i = j

VerdictInv ==
  /\ task \in [Tasks -> {Idle} \cup Calls]
  /\ \A t \in Tasks : task[t] # Idle => CallSound(task[t])
  /\ CacheSound(cache) /\ Len(cache) <= CacheSize
  /\ version \in Nat /\ shares \in Nat /\ shares <= MaxShares
  /\ version <= shares /\ (sharing.on => version < shares)
  /\ lemmas \in [Sessions -> SUBSET (1..shares)]
  /\ sharing \in [on : BOOLEAN, open : SUBSET Sessions, taken : BOOLEAN]
  /\ sharing.open # {} => sharing.on

LEMMA CallParts ==
  ASSUME NEW c \in Calls
  PROVE  /\ c.at \in {"check", "answered", "compile"} /\ c.proof \in Proofs
         /\ c.full \in BOOLEAN /\ c.version \in Nat /\ c.since \in Nat
         /\ c # Idle
  <1>1. c.at # Idle.at
    BY DEF Calls, Idle
  <1> QED
    BY <1>1, Zenon DEF Calls


LEMMA Joined ==
  ASSUME NEW E, NEW a \in Seq(E), NEW b \in Seq(E), NEW c, c = a \o b
  PROVE  /\ c \in Seq(E) /\ Len(c) = Len(a) + Len(b)
         /\ \A i \in 1..Len(c) : c[i] = IF i <= Len(a) THEN a[i] ELSE b[i - Len(a)]
  OBVIOUS

LEMMA WithoutKey ==
  ASSUME VerdictInv, NEW key
  PROVE  LET rest == Without(key)
         IN /\ CacheSound(rest) /\ Len(rest) <= Len(cache)
            /\ Cached(key) => Len(rest) < Len(cache)
            /\ \A i \in 1..Len(rest) : rest[i].key # key
  <1>t. /\ cache \in Seq(Entries) /\ Len(cache) \in Nat
        /\ \A i \in 1..Len(cache) : EntrySound(cache[i])
        /\ \A i, j \in 1..Len(cache) : cache[i].key = cache[j].key => i = j
    BY DEF VerdictInv, CacheSound
  <1>1. CASE ~Cached(key)
    BY <1>t, <1>1 DEF Without, Cached, CacheSound
  <1>2. CASE Cached(key)
    <2> DEFINE p == PlaceOf(key)
               rest == Without(key)
    <2>1. p \in 1..Len(cache) /\ cache[p].key = key
      BY <1>2 DEF Cached, PlaceOf
    <2>2. rest = SubSeq(cache, 1, p - 1) \o SubSeq(cache, p + 1, Len(cache))
      BY <1>2 DEF Without, RemoveAt
    <2> HIDE DEF p
    <2>3. /\ rest \in Seq(Entries) /\ Len(rest) = Len(cache) - 1
          /\ \A i \in 1..Len(rest) : rest[i] = cache[IF i < p THEN i ELSE i + 1]
      <3> DEFINE a == SubSeq(cache, 1, p - 1)
                 b == SubSeq(cache, p + 1, Len(cache))
      <3>1. /\ a \in Seq(Entries) /\ Len(a) = p - 1 /\ \A i \in 1..Len(a) : a[i] = cache[i]
        BY <1>t, <2>1
      <3>2. /\ b \in Seq(Entries) /\ Len(b) = Len(cache) - p
            /\ \A i \in 1..Len(b) : b[i] = cache[p + i]
        BY <1>t, <2>1
      <3>3. rest = a \o b
        BY <2>2
      <3> HIDE DEF a, b, rest
      <3>4. /\ rest \in Seq(Entries) /\ Len(rest) = Len(a) + Len(b)
            /\ \A i \in 1..Len(rest) : rest[i] = IF i <= Len(a) THEN a[i] ELSE b[i - Len(a)]
        <4>1. a \in Seq(Entries) /\ b \in Seq(Entries)
          BY <3>1, <3>2
        <4> QED
          BY ONLY <3>3, <4>1, Joined
      <3>5. ASSUME NEW i \in 1..Len(rest) PROVE rest[i] = cache[IF i < p THEN i ELSE i + 1]
        <4>1. CASE i < p
          BY <1>t, <2>1, <3>1, <3>4, <4>1
        <4>2. CASE ~(i < p)
          <5>1. i - Len(a) \in 1..Len(b) /\ p + (i - Len(a)) = i + 1 /\ ~(i <= Len(a))
            BY <1>t, <2>1, <3>1, <3>2, <3>4, <4>2
          <5>2. rest[i] = b[i - Len(a)] /\ b[i - Len(a)] = cache[p + (i - Len(a))]
            BY <3>2, <3>4, <5>1
          <5> QED
            BY <4>2, <5>1, <5>2
        <4> QED
          BY <4>1, <4>2
      <3> QED
        BY <1>t, <2>1, <3>1, <3>2, <3>4, <3>5
    <2> HIDE DEF rest
    <2>4. ASSUME NEW i \in 1..Len(rest)
          PROVE  /\ (IF i < p THEN i ELSE i + 1) \in 1..Len(cache)
                 /\ (IF i < p THEN i ELSE i + 1) # p
      BY <1>t, <2>1, <2>3
    <2>5. \A i \in 1..Len(rest) : EntrySound(rest[i]) /\ rest[i].key # key
      BY <1>t, <2>1, <2>3, <2>4
    <2>6. ASSUME NEW i \in 1..Len(rest), NEW j \in 1..Len(rest), rest[i].key = rest[j].key
          PROVE  i = j
      <3>1. (IF i < p THEN i ELSE i + 1) = (IF j < p THEN j ELSE j + 1)
        BY <1>t, <2>3, <2>4, <2>6
      <3> QED
        BY <1>t, <2>1, <2>3, <3>1
    <2> QED
      BY <1>t, <2>3, <2>5, <2>6 DEF rest, CacheSound
  <1> QED
    BY <1>1, <1>2

\* An entry is added at the end of the cache, from which its key was taken.
LEMMA NewestSound ==
  ASSUME NEW c, CacheSound(c), NEW e \in Entries, EntrySound(e),
         \A i \in 1..Len(c) : c[i].key # e.key, NEW n \in Nat
  PROVE  /\ CacheSound(Append(c, e)) /\ Len(Append(c, e)) = Len(c) + 1
         /\ CacheSound(LastOf(Append(c, e), n)) /\ Len(LastOf(Append(c, e), n)) <= n
  <1> DEFINE ce == Append(c, e)
             l == LastOf(ce, n)
  <1>1. /\ ce \in Seq(Entries) /\ Len(c) \in Nat /\ Len(ce) = Len(c) + 1 /\ ce[Len(ce)] = e
        /\ \A i \in 1..Len(c) : ce[i] = c[i]
    BY DEF CacheSound
  <1> HIDE DEF ce
  <1>2. ASSUME NEW i \in 1..Len(ce) PROVE i = Len(ce) \/ i \in 1..Len(c)
    BY <1>1
  <1>3. CacheSound(ce)
    <2>1. \A i \in 1..Len(ce) : EntrySound(ce[i])
      BY <1>1, <1>2 DEF CacheSound
    <2>2. \A i, j \in 1..Len(ce) : ce[i].key = ce[j].key => i = j
      BY <1>1, <1>2 DEF CacheSound
    <2> QED
      BY <1>1, <2>1, <2>2 DEF CacheSound
  <1>4. /\ l \in Seq(Entries) /\ Len(ce) \in Nat /\ Len(l) \in Nat /\ Len(l) <= n
        /\ Len(l) <= Len(ce) /\ \A i \in 1..Len(l) : l[i] = ce[Len(ce) - Len(l) + i]
    <2>1. l = LastOf(ce, n)
      OBVIOUS
    <2> QED
      BY ONLY <1>1, <2>1, n \in Nat, LastOfAt
  <1> HIDE DEF l
  <1>5. \A i \in 1..Len(l) : Len(ce) - Len(l) + i \in 1..Len(ce)
    BY <1>4
  <1>6. CacheSound(l)
    <2>1. \A i \in 1..Len(l) : EntrySound(l[i])
      BY <1>3, <1>4, <1>5 DEF CacheSound
    <2>2. ASSUME NEW i \in 1..Len(l), NEW j \in 1..Len(l), l[i].key = l[j].key
          PROVE  i = j
      <3>1. Len(ce) - Len(l) + i = Len(ce) - Len(l) + j
        BY <1>3, <1>4, <1>5, <2>2 DEF CacheSound
      <3> QED
        BY <1>4, <3>1
    <2> QED
      BY <1>4, <2>1, <2>2 DEF CacheSound
  <1> QED
    BY <1>1, <1>3, <1>4, <1>6 DEF l, ce

LEMMA PutSound ==
  ASSUME VerdictInv, NEW p \in Proofs, NEW v \in Nat, v <= version, NEW ok \in BOOLEAN
  PROVE  CacheSound(Put(Key(p, v), ok)) /\ Len(Put(Key(p, v), ok)) <= CacheSize
  <1> DEFINE rest == Without(Key(p, v))
             e == [key |-> Key(p, v), ok |-> ok, since |-> version]
  <1>1. version \in Nat /\ CacheSize \in Nat
    BY VerificationAssumption DEF VerdictInv
  <1>2. e \in Entries /\ EntrySound(e) /\ e.key = Key(p, v)
    BY <1>1 DEF Entries, EntrySound, Key
  <1>3. CacheSound(rest) /\ \A i \in 1..Len(rest) : rest[i].key # e.key
    BY WithoutKey
  <1>4. Put(Key(p, v), ok) = LastOf(Append(rest, e), CacheSize)
    BY DEF Put
  <1> HIDE DEF rest, e
  <1> QED
    BY <1>1, <1>2, <1>3, <1>4, NewestSound

LEMMA HitSound ==
  ASSUME VerdictInv, NEW p \in Proofs, Cached(Key(p, version))
  PROVE  LET c == Append(Without(Key(p, version)), EntryOf(Key(p, version)))
         IN /\ CacheSound(c) /\ Len(c) <= CacheSize
            /\ EntryOf(Key(p, version)) \in Entries
            /\ EntryOf(Key(p, version)).since >= version
  <1> DEFINE key == Key(p, version)
             e == EntryOf(key)
             rest == Without(key)
  <1>1. /\ PlaceOf(key) \in 1..Len(cache) /\ e.key = key
        /\ e = cache[PlaceOf(key)]
    BY DEF Cached, PlaceOf, EntryOf
  <1>2. e \in Entries /\ EntrySound(e)
    BY <1>1 DEF VerdictInv, CacheSound
  <1>3. key[1] = version
    BY DEF Key
  <1>4. e.since >= version
    BY <1>1, <1>2, <1>3 DEF EntrySound
  <1>5. /\ CacheSound(rest) /\ Len(rest) < Len(cache)
        /\ \A i \in 1..Len(rest) : rest[i].key # e.key
    BY <1>1, WithoutKey
  <1> HIDE DEF rest, e, key
  <1>6. CacheSound(Append(rest, e)) /\ Len(Append(rest, e)) = Len(rest) + 1
    BY <1>2, <1>5, NewestSound, 0 \in Nat
  <1>7. Len(rest) \in Nat /\ Len(cache) \in Nat /\ CacheSize \in Nat /\ Len(cache) <= CacheSize
    BY <1>5, VerificationAssumption DEF CacheSound, VerdictInv
  <1> QED
    BY <1>2, <1>4, <1>5, <1>6, <1>7 DEF rest, e, key

LEMMA BusConstantTopics == Avoid \in Topics /\ Verified \in Topics /\ Certified \in Topics
  BY VerificationAssumption

\* A call moves on, or ends.
LEMMA CallStep ==
  ASSUME VerdictInv, NEW t \in Tasks, NEW c, c = Idle \/ (c \in Calls /\ CallSound(c)),
         task' = [task EXCEPT ![t] = c], UNCHANGED <<version, lemmas, sharing, shares>>,
         CacheSound(cache'), Len(cache') <= CacheSize
  PROVE  VerdictInv'
  <1>1. task' \in [Tasks -> {Idle} \cup Calls]
    BY DEF VerdictInv
  <1>2. ASSUME NEW u \in Tasks, task'[u] # Idle PROVE CallSound(task'[u])
    BY <1>2 DEF VerdictInv
  <1>3. ASSUME NEW u \in Tasks, task'[u] # Idle PROVE CallSound(task[u])'
    BY <1>2, <1>3 DEF CallSound
  <1>4. CacheSound(cache)'
    BY DEF CacheSound, EntrySound
  <1> QED
    BY <1>1, <1>3, <1>4 DEF VerdictInv

LEMMA TaskCall ==
  ASSUME VerdictInv, NEW t \in Tasks, task[t].at \in {"check", "answered", "compile"}
  PROVE  task[t] \in Calls /\ CallSound(task[t])
  <1>1. task[t] # Idle
    BY DEF Idle
  <1> QED
    BY <1>1 DEF VerdictInv

LEMMA SubmitVerdict ==
  ASSUME VerdictInv, NEW t \in Tasks, NEW p \in Proofs, NEW full \in BOOLEAN,
         Submit(t, p, full)
  PROVE  VerdictInv'
  <1> DEFINE key == Key(p, version)
             hit == [at |-> "answered", proof |-> p, full |-> full, version |-> version,
                     ok |-> EntryOf(key).ok, since |-> EntryOf(key).since]
             miss == [at |-> "check", proof |-> p, full |-> full, version |-> version,
                      ok |-> FALSE, since |-> 0]
  <1>1. UNCHANGED <<version, lemmas, sharing, shares>> /\ version \in Nat
    BY DEF Submit, VerdictInv
  <1>2. CASE p \in Filtered
    <2>1. UNCHANGED <<task, cache>>
      BY <1>2 DEF Submit
    <2> QED
      BY <1>1, <2>1 DEF VerdictInv, CallSound, CacheSound, EntrySound
  <1>3. CASE p \notin Filtered /\ Cached(key)
    <2>1. task' = [task EXCEPT ![t] = hit] /\ cache' = Append(Without(key), EntryOf(key))
      BY <1>3 DEF Submit
    <2>2. /\ CacheSound(cache') /\ Len(cache') <= CacheSize
          /\ EntryOf(key) \in Entries /\ EntryOf(key).since >= version
      BY <1>3, <2>1, HitSound
    <2>3. EntryOf(key).since \in Nat /\ EntryOf(key).ok \in BOOLEAN
      BY <2>2 DEF Entries
    <2>4. hit \in Calls /\ CallSound(hit)
      <3>1. hit \in Calls
        BY <1>1, <2>3, Zenon DEF Calls
      <3>2. hit.version = version /\ hit.since = EntryOf(key).since
        OBVIOUS
      <3> HIDE DEF hit, key
      <3> QED
        BY <1>1, <2>2, <3>1, <3>2 DEF CallSound
    <2> HIDE DEF hit, key
    <2> QED
      BY <1>1, <2>1, <2>2, <2>4, CallStep
  <1>4. CASE p \notin Filtered /\ ~Cached(key)
    <2>1. task' = [task EXCEPT ![t] = miss] /\ cache' = cache
      BY <1>4 DEF Submit
    <2>2. miss \in Calls /\ CallSound(miss)
      BY <1>1 DEF Calls, CallSound
    <2>3. CacheSound(cache') /\ Len(cache') <= CacheSize
      BY <2>1 DEF VerdictInv
    <2> HIDE DEF miss
    <2> QED
      BY <1>1, <2>1, <2>2, <2>3, CallStep
  <1> QED
    BY <1>2, <1>3, <1>4

LEMMA AcceptsBoolean == ASSUME NEW s, NEW p PROVE Accepts(s, p) \in BOOLEAN
  BY Zenon DEF Accepts

\* What Check and CheckTimesOut leave of a call.
LEMMA AnsweredSound ==
  ASSUME NEW c \in Calls, c.version <= version, version \in Nat, NEW ok \in BOOLEAN
  PROVE  LET a == [c EXCEPT !.at = "answered", !.ok = ok, !.since = version]
         IN a \in Calls /\ CallSound(a)
  <1> DEFINE a == [c EXCEPT !.at = "answered", !.ok = ok, !.since = version]
  <1>1. a \in Calls
    BY DEF Calls
  <1>2. a.version = c.version /\ a.since = version
    BY DEF Calls
  <1> HIDE DEF a
  <1>3. c.version \in Nat
    BY CallParts
  <1>4. CallSound(a)
    BY <1>2, <1>3 DEF CallSound
  <1> QED
    BY <1>1, <1>4 DEF a

LEMMA CheckVerdict ==
  ASSUME VerdictInv, NEW t \in Tasks, NEW s \in Sessions, Check(t, s)
  PROVE  VerdictInv'
  <1>1. task[t] \in Calls /\ CallSound(task[t]) /\ version \in Nat
    BY TaskCall DEF Check, VerdictInv
  <1>2. /\ task[t].version \in Nat /\ task[t].version <= version /\ task[t].proof \in Proofs
    BY <1>1, CallParts DEF CallSound
  <1>3. PICK ok \in {FALSE, Accepts(s, task[t].proof)} :
          /\ cache' = Put(Key(task[t].proof, task[t].version), ok)
          /\ task' = [task EXCEPT ![t] = [@ EXCEPT !.at = "answered", !.ok = ok,
                                                  !.since = version]]
    BY DEF Check
  <1>4. ok \in BOOLEAN
    BY <1>3, AcceptsBoolean, Zenon
  <1> DEFINE a == [task[t] EXCEPT !.at = "answered", !.ok = ok, !.since = version]
  <1>5. a \in Calls /\ CallSound(a)
    BY <1>1, <1>2, <1>4, AnsweredSound
  <1>6. task' = [task EXCEPT ![t] = a]
    BY <1>3 DEF VerdictInv
  <1>7. CacheSound(cache') /\ Len(cache') <= CacheSize
    BY <1>2, <1>3, <1>4, PutSound
  <1>8. UNCHANGED <<version, lemmas, sharing, shares>>
    BY DEF Check
  <1> HIDE DEF a
  <1> QED
    BY <1>5, <1>6, <1>7, <1>8, CallStep

LEMMA CheckTimesOutVerdict ==
  ASSUME VerdictInv, NEW t \in Tasks, CheckTimesOut(t)
  PROVE  VerdictInv'
  <1>1. task[t] \in Calls /\ CallSound(task[t]) /\ version \in Nat
    BY TaskCall DEF CheckTimesOut, VerdictInv
  <1> DEFINE a == [task[t] EXCEPT !.at = "answered", !.since = version]
  <1>2. task[t].version \in Nat /\ task[t].version <= version
    BY <1>1, CallParts DEF CallSound
  <1>3. a \in Calls /\ CallSound(a)
    <2>1. a \in Calls
      BY <1>1 DEF Calls
    <2>2. a.version = task[t].version /\ a.since = version
      BY <1>1 DEF Calls
    <2> HIDE DEF a
    <2> QED
      BY <1>1, <1>2, <2>1, <2>2 DEF CallSound
  <1>4. task' = [task EXCEPT ![t] = a] /\ UNCHANGED <<cache, version, lemmas, sharing, shares>>
    BY DEF CheckTimesOut, VerdictInv
  <1>5. CacheSound(cache') /\ Len(cache') <= CacheSize
    BY <1>4 DEF VerdictInv
  <1> HIDE DEF a
  <1> QED
    BY <1>3, <1>4, <1>5, CallStep

LEMMA AnswerVerdict ==
  ASSUME VerdictInv, NEW t \in Tasks, Answer(t)
  PROVE  VerdictInv'
  <1>1. task[t] \in Calls /\ CallSound(task[t]) /\ task[t].at = "answered"
    BY TaskCall DEF Answer
  <1> DEFINE a == [task[t] EXCEPT !.at = "compile"]
  <1>2. a \in Calls /\ CallSound(a)
    <2>1. a \in Calls
      BY <1>1 DEF Calls
    <2>2. a.version = task[t].version /\ a.since = task[t].since
      BY <1>1 DEF Calls
    <2> HIDE DEF a
    <2> QED
      BY <1>1, <2>1, <2>2 DEF CallSound
  <1>3. /\ UNCHANGED <<cache, version, lemmas, sharing, shares>>
        /\ task' = [task EXCEPT ![t] = a] \/ task' = [task EXCEPT ![t] = Idle]
    BY DEF Answer, VerdictInv
  <1>4. CacheSound(cache') /\ Len(cache') <= CacheSize
    BY <1>3 DEF VerdictInv
  <1> HIDE DEF a
  <1> QED
    BY <1>2, <1>3, <1>4, CallStep

LEMMA CompileVerdict ==
  ASSUME VerdictInv, NEW t \in Tasks, Compile(t)
  PROVE  VerdictInv'
  <1>1. /\ task' = [task EXCEPT ![t] = Idle]
        /\ UNCHANGED <<cache, version, lemmas, sharing, shares>>
    BY DEF Compile
  <1>2. CacheSound(cache') /\ Len(cache') <= CacheSize
    BY <1>1 DEF VerdictInv
  <1> QED
    BY <1>1, <1>2, CallStep

\* The steps of share_lemma.
LEMMA ShareVerdict ==
  ASSUME VerdictInv,
         ShareLemma \/ ShareEnds \/ \E s \in Sessions : Inject(s)
  PROVE  VerdictInv'
  <1>t. /\ version \in Nat /\ shares \in Nat /\ MaxShares \in Nat /\ version <= shares
        /\ shares <= MaxShares
        /\ sharing \in [on : BOOLEAN, open : SUBSET Sessions, taken : BOOLEAN]
        /\ lemmas \in [Sessions -> SUBSET (1..shares)]
    BY VerificationAssumption DEF VerdictInv
  <1>u. UNCHANGED <<task, cache>>
    BY DEF ShareLemma, ShareEnds, Inject
  <1>c. CacheSound(cache)' /\ Len(cache') <= CacheSize
    BY <1>u DEF VerdictInv, CacheSound, EntrySound
  <1>1. CASE ShareLemma
    <2>1. /\ shares' = shares + 1 /\ shares < MaxShares /\ UNCHANGED <<version, lemmas>>
          /\ sharing' = [on |-> TRUE, open |-> Sessions, taken |-> FALSE]
      BY <1>1 DEF ShareLemma
    <2>2. lemmas' \in [Sessions -> SUBSET (1..shares')]
      <3>1. 1..shares \subseteq 1..shares'
        BY <1>t, <2>1
      <3> QED
        BY <1>t, <2>1, <3>1
    <2>3. sharing' \in [on : BOOLEAN, open : SUBSET Sessions, taken : BOOLEAN]
      BY <2>1
    <2>4. \A t \in Tasks : task[t] # Idle => CallSound(task[t])'
      BY <1>u, <2>1 DEF VerdictInv, CallSound
    <2> QED
      BY <1>t, <1>u, <1>c, <2>1, <2>2, <2>3, <2>4 DEF VerdictInv
  <1>2. CASE ShareEnds
    <2>1. /\ sharing.on /\ sharing.open = {} /\ UNCHANGED <<lemmas, shares>>
          /\ version' = IF sharing.taken THEN version + 1 ELSE version
          /\ sharing' = [sharing EXCEPT !.on = FALSE, !.taken = FALSE]
      BY <1>2 DEF ShareEnds
    <2>2. version < shares
      BY <2>1 DEF VerdictInv
    <2>3. version' \in Nat /\ version' <= shares /\ version <= version'
      BY <1>t, <2>1, <2>2
    <2>4. /\ sharing' \in [on : BOOLEAN, open : SUBSET Sessions, taken : BOOLEAN]
          /\ sharing'.on = FALSE /\ sharing'.open = {}
      BY <1>t, <2>1
    <2>5. ASSUME NEW t \in Tasks, task[t] # Idle PROVE CallSound(task[t])'
      <3>1. task[t] \in Calls /\ CallSound(task[t])
        BY <2>5 DEF VerdictInv
      <3>2. task[t].version \in Nat
        BY <3>1, CallParts
      <3> QED
        BY <1>t, <1>u, <2>3, <3>1, <3>2 DEF CallSound
    <2> QED
      BY <1>t, <1>u, <1>c, <2>1, <2>3, <2>4, <2>5 DEF VerdictInv
  <1>3. ASSUME NEW s \in Sessions, Inject(s) PROVE VerdictInv'
    <2>1. PICK taken \in BOOLEAN :
            /\ sharing' = [sharing EXCEPT !.open = @ \ {s}, !.taken = @ \/ taken]
            /\ lemmas' = IF taken THEN [lemmas EXCEPT ![s] = @ \cup {shares}] ELSE lemmas
      BY <1>3 DEF Inject
    <2>2. sharing.on /\ version < shares /\ UNCHANGED <<version, shares>>
      BY <1>3 DEF Inject, VerdictInv
    <2>3. lemmas' \in [Sessions -> SUBSET (1..shares')]
      BY <1>t, <2>1, <2>2
    <2>4. /\ sharing' \in [on : BOOLEAN, open : SUBSET Sessions, taken : BOOLEAN]
          /\ sharing'.on
      <3>1. sharing.taken \in BOOLEAN /\ sharing.open \subseteq Sessions /\ sharing.on \in BOOLEAN
        BY <1>t
      <3>2. (sharing.taken \/ taken) \in BOOLEAN
        BY Zenon
      <3>3. sharing' = [sharing EXCEPT !.open = sharing.open \ {s}, !.taken = (sharing.taken \/ taken)]
        BY <2>1, <1>t
      <3> DEFINE x == (sharing.taken \/ taken)
      <3> HIDE DEF x
      <3>4. x \in BOOLEAN
        BY <3>2 DEF x
      <3>5. sharing' = [sharing EXCEPT !.open = sharing.open \ {s}, !.taken = x]
        BY <3>3 DEF x
      <3> QED
        BY <1>t, <2>2, <3>1, <3>4, <3>5
    <2>5. \A t \in Tasks : task[t] # Idle => CallSound(task[t])'
      BY <1>u, <2>2 DEF VerdictInv, CallSound
    <2> QED
      BY <1>t, <1>u, <1>c, <2>2, <2>3, <2>4, <2>5 DEF VerdictInv
  <1> QED
    BY <1>1, <1>2, <1>3

LEMMA VerdictInit == VerificationInit => VerdictInv /\ BusInv
  <1> SUFFICES ASSUME VerificationInit PROVE VerdictInv /\ BusInv
    OBVIOUS
  <1>1. VerdictInv
    <2>1. CacheSound(cache) /\ Len(cache) = 0
      BY DEF VerificationInit, CacheSound
    <2>2. /\ task \in [Tasks -> {Idle} \cup Calls] /\ \A t \in Tasks : task[t] = Idle
          /\ lemmas \in [Sessions -> SUBSET (1..shares)]
      BY DEF VerificationInit
    <2>3. /\ version = 0 /\ shares = 0 /\ ~sharing.on /\ sharing.open = {}
          /\ sharing \in [on : BOOLEAN, open : SUBSET Sessions, taken : BOOLEAN]
      BY DEF VerificationInit
    <2>4. CacheSize \in Nat /\ MaxShares \in Nat
      BY VerificationAssumption
    <2>5. \A t \in Tasks : task[t] # Idle => CallSound(task[t])
      BY <2>2
    <2>6. Len(cache) <= CacheSize
      BY <2>1, <2>4
    <2>7. version \in Nat /\ shares \in Nat /\ shares <= MaxShares /\ version <= shares
      BY <2>3, <2>4
    <2>8. (sharing.on => version < shares) /\ (sharing.open # {} => sharing.on)
      BY <2>3
    <2> QED
      BY ONLY <2>1, <2>2, <2>3, <2>5, <2>6, <2>7, <2>8 DEF VerdictInv
  <1>2. BusTypes
    <2>1. /\ now = 0 /\ recent = <<>> /\ fresh = <<>> /\ crowded = FALSE
      BY DEF VerificationInit, BusInit
    <2>2. DOMAIN queues = {} /\ queues \in [DOMAIN queues -> Seq(Messages)]
      BY DEF VerificationInit, BusInit
    <2>3. recent \in Seq(Messages) /\ fresh \in Seq(Messages) /\ Len(recent) = 0 /\ Len(fresh) = 0
      BY <2>1, EmptyQueue
    <2>4. now \in Nat /\ now <= MaxTime
      BY <2>1, BusConstants
    <2>6. crowded \in BOOLEAN
      BY <2>1, Zenon
    <2>5. Len(recent) <= MaxHistory /\ Len(fresh) <= MaxFresh
      BY <2>3, BusConstants
    <2> QED
      BY ONLY <2>2, <2>3, <2>4, <2>5, <2>6 DEF BusTypes
  <1>3. BusInv
    BY <1>2, EmptyQueue DEF VerificationInit, BusInit, BusInv, EndOf
  <1> QED
    BY <1>1, <1>3

VerificationInv == BusInv /\ VerdictInv

LEMMA BusStays == BusInv /\ UNCHANGED busVars => BusInv'
  BY DEF BusInv, BusTypes, busVars, EndOf, Known, Apart, In

LEMMA VerdictStays == VerdictInv /\ UNCHANGED verVars => VerdictInv'
  BY DEF VerdictInv, verVars, CallSound, CacheSound, EntrySound

LEMMA VerificationStep ==
  VerificationInv /\ [VerificationNext]_verificationVars => VerificationInv'
  <1> SUFFICES ASSUME VerificationInv, [VerificationNext]_verificationVars
               PROVE  VerificationInv'
    OBVIOUS
  <1> USE DEF VerificationInv
  <1>1. CASE UNCHANGED verificationVars
    BY <1>1, BusStays, VerdictStays DEF verificationVars
  <1>2. CASE Bus
    BY <1>2, BusStep, VerdictStays DEF Bus
  <1>3. CASE ShareLemma \/ ShareEnds \/ \E s \in Sessions : Inject(s)
    <2>1. UNCHANGED busVars
      BY <1>3 DEF ShareLemma, ShareEnds, Inject
    <2> QED
      BY <1>3, <2>1, ShareVerdict, BusStays
  <1>4. ASSUME NEW t \in Tasks, NEW p \in Proofs, NEW full \in BOOLEAN, Submit(t, p, full)
        PROVE  VerificationInv'
    <2>1. (Publish(Avoid, t) /\ now' = now) \/ UNCHANGED busVars
      BY <1>4 DEF Submit, busVars
    <2> QED
      BY <1>4, <2>1, SubmitVerdict, PublishStep, BusStays, BusConstantTopics
  <1>5. ASSUME NEW t \in Tasks, NEW s \in Sessions, Check(t, s)
        PROVE  VerificationInv'
    BY <1>5, CheckVerdict, BusStays DEF Check
  <1>6. ASSUME NEW t \in Tasks, CheckTimesOut(t) PROVE VerificationInv'
    BY <1>6, CheckTimesOutVerdict, BusStays DEF CheckTimesOut
  <1>7. ASSUME NEW t \in Tasks, Answer(t) PROVE VerificationInv'
    <2>1. (Publish(Verified, t) /\ now' = now) \/ UNCHANGED busVars
      BY <1>7 DEF Answer, busVars
    <2> QED
      BY <1>7, <2>1, AnswerVerdict, PublishStep, BusStays, BusConstantTopics
  <1>8. ASSUME NEW t \in Tasks, Compile(t) PROVE VerificationInv'
    <2>1. (Publish(Certified, t) /\ now' = now) \/ UNCHANGED busVars
      BY <1>8 DEF Compile, busVars
    <2> QED
      BY <1>8, <2>1, CompileVerdict, PublishStep, BusStays, BusConstantTopics
  <1> QED
    BY <1>1, <1>2, <1>3, <1>4, <1>5, <1>6, <1>7, <1>8 DEF VerificationNext

LEMMA VerificationHolds == VerificationSpec => []VerificationInv
  BY VerdictInit, VerificationStep, PTL DEF VerificationSpec, VerificationInv

LEMMA InMessages ==
  ASSUME NEW s \in Seq(Messages), NEW m \in In(s)
  PROVE  m \in Messages /\ \E i \in 1..Len(s) : m = s[i]
  BY DEF In

\* verify_complete never answers with a verdict from before the last share_lemma that was
\* over when the call began, whoever asked for it and whatever was shared meanwhile; and
\* the state keeps its types.
THEOREM VerdictsCurrent == VerificationSpec => []VerdictCurrent
  <1>1. VerificationInv => VerdictCurrent
    <2> SUFFICES ASSUME VerificationInv PROVE VerdictCurrent
      OBVIOUS
    <2>1. BusTypeOK
      <3>1. \A m \in In(recent) \cup In(fresh) : m \in Messages /\ m.at <= now
        <4>1. \A m \in In(recent) : m \in Messages /\ m.at <= now
          BY InMessages DEF VerificationInv, BusInv, BusTypes
        <4>2. In(fresh) \subseteq In(recent)
          BY EndMembers DEF VerificationInv, BusInv, BusTypes
        <4> QED
          BY <4>1, <4>2
      <3>2. \A m \in In(recent) \cup In(fresh) : m.topic \in Topics /\ m.at \in 0..now
        BY <3>1 DEF Messages, VerificationInv, BusInv, BusTypes
      <3> QED
        BY <3>2, BusConstants DEF VerificationInv, BusInv, BusTypes, BusTypeOK
    <2>2. ASSUME NEW t \in Tasks
          PROVE  /\ task[t].at \in {"idle", "check", "answered", "compile"}
                 /\ task[t] # Idle => /\ task[t].proof \in Proofs /\ task[t].full \in BOOLEAN
                                      /\ task[t].version \in 0..version
                 /\ task[t].at \in {"answered", "compile"} => task[t].since >= task[t].version
      <3>1. CASE task[t] = Idle
        BY <3>1 DEF Idle
      <3>2. CASE task[t] # Idle
        <4>1. task[t] \in Calls /\ CallSound(task[t]) /\ version \in Nat
          BY <3>2 DEF VerificationInv, VerdictInv
        <4> QED
          BY <4>1, CallParts DEF CallSound
      <3> QED
        BY <3>1, <3>2
    <2>3. /\ Len(cache) <= CacheSize
          /\ \A i, j \in 1..Len(cache) : cache[i].key = cache[j].key => i = j
          /\ version \in 0..shares /\ shares \in 0..MaxShares
          /\ lemmas \in [Sessions -> SUBSET (1..shares)]
          /\ sharing.open \subseteq Sessions /\ sharing.taken \in BOOLEAN
      BY VerificationAssumption DEF VerificationInv, VerdictInv, CacheSound
    <2> QED
      BY <2>1, <2>2, <2>3 DEF VerdictCurrent, VerificationTypeOK
  <1> QED
    BY <1>1, VerificationHolds, PTL

\* Whenever a message would be suppressed, one with its fingerprint is in the history,
\* alive and no older than the window: the fingerprints are the newest messages of the
\* history, at every time and after every loss.
THEOREM PostedIsVisible == VerificationSpec => []PostedVisible
  <1>1. VerificationInv => PostedVisible
    <2> SUFFICES ASSUME VerificationInv, NEW topic \in Topics, NEW f \in In(fresh), InWindow(f),
                        Fingerprint[f.topic] = Fingerprint[topic]
                 PROVE  \E m \in In(recent) :
                          Fingerprint[m.topic] = Fingerprint[topic] /\ Alive(m) /\ InWindow(m)
      BY DEF PostedVisible
    <2>1. f \in In(recent) /\ f \in Messages /\ now \in Nat
      BY EndMembers, InMessages DEF VerificationInv, BusInv, BusTypes
    <2>2. Alive(f)
      BY <2>1, BusConstants DEF InWindow, Alive, Messages
    <2> QED
      BY <2>1, <2>2
  <1> QED
    BY <1>1, VerificationHolds, PTL

\* As long as no fingerprint was dropped for want of room, no messages with the same
\* fingerprint are in the history or a queue within a window of each other.
THEOREM NewsOnce == VerificationSpec => []NoRepeats
  <1>1. VerificationInv => NoRepeats
    BY DEF VerificationInv, BusInv, Apart, NoRepeats
  <1> QED
    BY <1>1, VerificationHolds, PTL

-----------------------------------------------------------------------------
(* What a rendering shows.                                                  *)

\* What is computed by recursion from one value of V to the next is in V.
LEMMA RecursionStays ==
  ASSUME NEW N \in Nat, NEW V, NEW f, f[0] \in V,
         \A n \in 1..N : f[n - 1] \in V => f[n] \in V
  PROVE  \A n \in 0..N : f[n] \in V
  <1> DEFINE Bad == {n \in 0..N : f[n] \notin V}
  <1> SUFFICES ASSUME Bad # {} PROVE FALSE
    OBVIOUS
  <1>1. PICK m \in Bad : \A n \in Bad : m <= n
    <2>1. Bad \subseteq Nat
      OBVIOUS
    <2> HIDE DEF Bad
    <2> QED
      BY <2>1, LeastNumber
  <1>2. m \in 1..N /\ f[m] \notin V
    BY <1>1
  <1>3. m - 1 \in 0..N /\ m - 1 \notin Bad
    <2>1. m - 1 \in 0..N /\ ~(m <= m - 1)
      BY <1>2
    <2> HIDE DEF Bad
    <2> QED
      BY <1>1, <2>1
  <1>4. f[m - 1] \in V
    BY <1>3
  <1> QED
    BY <1>2, <1>4

AliveUpTo(s) ==
  CHOOSE f : f = [n \in 0..Len(s) |->
                    IF n = 0 THEN <<>>
                    ELSE IF Alive(s[n]) THEN Append(f[n - 1], s[n]) ELSE f[n - 1]]

LEMMA UnexpiredMessages ==
  ASSUME NEW s \in Seq(Messages)
  PROVE  Unexpired(s) \in Seq(Messages)
  <1> DEFINE N == Len(s)
             V == Seq(Messages)
             step == [n \in 1..N |-> [q \in V |-> IF Alive(s[n]) THEN Append(q, s[n]) ELSE q]]
  <1>1. N \in Nat /\ \A n \in 1..N : s[n] \in Messages
    OBVIOUS
  <1>2. <<>> \in V /\ \A n \in 1..N : step[n] \in [V -> V]
    <2>1. \A n \in 1..N, q \in V : (IF Alive(s[n]) THEN Append(q, s[n]) ELSE q) \in V
      BY <1>1
    <2>2. \A n \in 1..N : [q \in V |-> IF Alive(s[n]) THEN Append(q, s[n]) ELSE q] \in [V -> V]
      <3> HIDE DEF V
      <3> QED
        BY <2>1
    <2> QED
      BY <2>2
  <1>3. PICK f \in [0..N -> V] : Computes(f, N, <<>>, step)
    <2> HIDE DEF N, V, step
    <2> QED
      BY <1>1, <1>2, RecursionExists
  <1>4. f = [n \in 0..N |-> IF n = 0 THEN <<>>
                           ELSE IF Alive(s[n]) THEN Append(f[n - 1], s[n]) ELSE f[n - 1]]
    <2>1. ASSUME NEW n \in 0..N, n # 0
          PROVE  step[n][f[n - 1]] = IF Alive(s[n]) THEN Append(f[n - 1], s[n]) ELSE f[n - 1]
      <3>1. n \in 1..N /\ n - 1 \in 0..N
        BY <1>1, <2>1
      <3>2. f[n - 1] \in V
        BY <3>1
      <3> HIDE DEF V, N
      <3> QED
        BY <3>1, <3>2
    <2> HIDE DEF step, V, N
    <2> QED
      BY <1>3, <2>1 DEF Computes
  <1>5. \E g : g = [n \in 0..Len(s) |->
                      IF n = 0 THEN <<>>
                      ELSE IF Alive(s[n]) THEN Append(g[n - 1], s[n]) ELSE g[n - 1]]
    BY <1>4
  <1> DEFINE A == AliveUpTo(s)
  <1>6. A = [n \in 0..Len(s) |->
               IF n = 0 THEN <<>>
               ELSE IF Alive(s[n]) THEN Append(A[n - 1], s[n]) ELSE A[n - 1]]
    BY <1>5 DEF AliveUpTo
  <1> HIDE DEF A
  <1>7. \A n \in 0..Len(s) : A[n] = IF n = 0 THEN <<>>
                                    ELSE IF Alive(s[n]) THEN Append(A[n - 1], s[n]) ELSE A[n - 1]
    BY <1>6, Zenon
  <1>8. A[0] \in V
    <2>1. 0 \in 0..Len(s)
      BY <1>1
    <2>2. A[0] = <<>>
      BY <1>7, <2>1
    <2> QED
      BY <1>2, <2>2
  <1>9. ASSUME NEW n \in 1..N, A[n - 1] \in V PROVE A[n] \in V
    <2>1. n \in 0..Len(s) /\ n # 0 /\ s[n] \in Messages
      BY <1>1
    <2>2. A[n] = Append(A[n - 1], s[n]) \/ A[n] = A[n - 1]
      BY <1>7, <2>1, Zenon
    <2>3. \A q \in Seq(Messages) : Append(q, s[n]) \in Seq(Messages)
      BY <2>1
    <2>4. Append(A[n - 1], s[n]) \in V
      BY ONLY <1>9, <2>3, Zenon
    <2> QED
      BY <1>9, <2>2, <2>4, Zenon
  <1>10. \A n \in 0..N : A[n] \in V
    <2> HIDE DEF N, V
    <2> QED
      BY <1>1, <1>8, <1>9, RecursionStays
  <1>11. Unexpired(s) = A[Len(s)]
    BY DEF Unexpired, A, AliveUpTo
  <1> QED
    BY <1>1, <1>10, <1>11

\* The place of message j when s is ordered by priority.
Before(s, i, j) == \/ Priority[s[i].topic] < Priority[s[j].topic]
                   \/ Priority[s[i].topic] = Priority[s[j].topic] /\ i < j
Earlier(s, j) == {i \in 1..Len(s) : Before(s, i, j)}
Rank(s, j) == 1 + Cardinality(Earlier(s, j))

LEMMA PlacesFinite ==
  ASSUME NEW s \in Seq(Messages)
  PROVE  IsFiniteSet(1..Len(s)) /\ Cardinality(1..Len(s)) = Len(s) /\ Len(s) \in Nat
  <1> DEFINE n == Len(s)
  <1>1. n \in Nat /\ n \in Int /\ 1 \in Int
    OBVIOUS
  <1> HIDE DEF n
  <1>2. IsFiniteSet(1..n) /\ Cardinality(1..n) = IF 1 > n THEN 0 ELSE n - 1 + 1
    BY <1>1, FS_Interval
  <1> QED
    BY <1>1, <1>2 DEF n

LEMMA EarlierSmaller ==
  ASSUME NEW s \in Seq(Messages), NEW i \in 1..Len(s), NEW j \in 1..Len(s), Before(s, i, j)
  PROVE  Rank(s, i) < Rank(s, j) /\ Rank(s, j) \in 1..Len(s)
  <1>0. \A k \in 1..Len(s) : Priority[s[k].topic] \in Nat
    <2> TAKE k \in 1..Len(s)
    <2>1. s[k] \in Messages
      OBVIOUS
    <2>2. s[k].topic \in Topics
      BY <2>1 DEF Messages
    <2> QED
      BY <2>2, BusAssumption
  <1>1. IsFiniteSet(1..Len(s)) /\ Cardinality(1..Len(s)) = Len(s) /\ Len(s) \in Nat
    BY PlacesFinite
  <1>2. Earlier(s, i) \subseteq Earlier(s, j)
    BY <1>0 DEF Earlier, Before
  <1>3. i \in Earlier(s, j) /\ i \notin Earlier(s, i)
    BY <1>0 DEF Earlier, Before
  <1>4. j \notin Earlier(s, j) /\ Earlier(s, j) \subseteq 1..Len(s)
    BY <1>0 DEF Earlier, Before
  <1>5. /\ IsFiniteSet(Earlier(s, j)) /\ Cardinality(Earlier(s, j)) <= Len(s)
        /\ Cardinality(Earlier(s, j)) # Len(s)
    BY <1>1, <1>4, FS_Subset
  <1>6. /\ IsFiniteSet(Earlier(s, i)) /\ Cardinality(Earlier(s, i)) <= Cardinality(Earlier(s, j))
        /\ Cardinality(Earlier(s, i)) # Cardinality(Earlier(s, j))
    BY <1>2, <1>3, <1>5, FS_Subset
  <1>7. Cardinality(Earlier(s, i)) \in Nat /\ Cardinality(Earlier(s, j)) \in Nat
    BY <1>5, <1>6, FS_CardinalityType
  <1> QED
    BY <1>1, <1>5, <1>6, <1>7 DEF Rank

LEMMA RankPlace ==
  ASSUME NEW s \in Seq(Messages), NEW j \in 1..Len(s)
  PROVE  Rank(s, j) \in 1..Len(s)
  <1>0. Priority[s[j].topic] \in Nat
    <2>1. s[j] \in Messages
      OBVIOUS
    <2>2. s[j].topic \in Topics
      BY <2>1 DEF Messages
    <2> QED
      BY <2>2, BusAssumption
  <1>1. IsFiniteSet(1..Len(s)) /\ Cardinality(1..Len(s)) = Len(s) /\ Len(s) \in Nat
    BY PlacesFinite
  <1>2. j \notin Earlier(s, j) /\ Earlier(s, j) \subseteq 1..Len(s)
    BY <1>0 DEF Earlier, Before
  <1>3. /\ IsFiniteSet(Earlier(s, j)) /\ Cardinality(Earlier(s, j)) <= Len(s)
        /\ Cardinality(Earlier(s, j)) # Len(s)
    BY <1>1, <1>2, FS_Subset
  <1>4. Cardinality(Earlier(s, j)) \in Nat
    BY <1>3, FS_CardinalityType
  <1> QED
    BY <1>1, <1>3, <1>4 DEF Rank

\* Every place is taken.
LEMMA RankTaken ==
  ASSUME NEW s \in Seq(Messages), NEW k \in 1..Len(s)
  PROVE  \E j \in 1..Len(s) : Rank(s, j) = k
  <1> DEFINE S == 1..Len(s)
             f == [j \in S |-> Rank(s, j)]
  <1>1. IsFiniteSet(S)
    BY FS_Interval
  <1>2. f \in [S -> S]
    BY RankPlace
  <1>3. ASSUME NEW i \in S, NEW j \in S, i # j PROVE Rank(s, i) # Rank(s, j)
    <2>0. \A x \in 1..Len(s) : Priority[s[x].topic] \in Nat
      <3> TAKE x \in 1..Len(s)
      <3>1. s[x] \in Messages
        OBVIOUS
      <3>2. s[x].topic \in Topics
        BY <3>1 DEF Messages
      <3> QED
        BY <3>2, BusAssumption
    <2>1. Before(s, i, j) \/ Before(s, j, i)
      BY <1>3, <2>0 DEF Before
    <2>2. Rank(s, i) < Rank(s, j) \/ Rank(s, j) < Rank(s, i)
      BY <2>1, EarlierSmaller
    <2>3. Rank(s, i) \in Nat /\ Rank(s, j) \in Nat
      BY RankPlace
    <2> QED
      BY <2>2, <2>3
  <1>4. f \in Injection(S, S)
    <2>1. \A i, j \in S : f[i] = f[j] => i = j
      BY <1>3
    <2> HIDE DEF f, S
    <2> QED
      BY <1>2, <2>1 DEF Injection, IsInjective
  <1>5. f \in Surjection(S, S)
    <2> HIDE DEF f, S
    <2> QED
      BY <1>1, <1>4, FS_Injection
  <1>6. \E j \in S : f[j] = k
    <2> HIDE DEF f
    <2> QED
      BY <1>5 DEF Surjection
  <1> QED
    BY <1>6

LEMMA SortedByPriority ==
  ASSUME NEW s \in Seq(Messages)
  PROVE  LET p == ByPriority(s)
         IN /\ p \in Seq(Messages) /\ Len(p) = Len(s)
            /\ \A k, l \in 1..Len(p) :
                 k <= l => Priority[p[k].topic] <= Priority[p[l].topic]
  <1> DEFINE p == ByPriority(s)
             placed(k) == CHOOSE j \in 1..Len(s) : Rank(s, j) = k
  <1>0. \A x \in 1..Len(s) : Priority[s[x].topic] \in Nat
    <2> TAKE x \in 1..Len(s)
    <2>1. s[x] \in Messages
      OBVIOUS
    <2>2. s[x].topic \in Topics
      BY <2>1 DEF Messages
    <2> QED
      BY <2>2, BusAssumption
  <1>1. p = [k \in 1..Len(s) |-> s[placed(k)]]
    BY DEF ByPriority, Rank, Earlier, Before
  <1>2. \A k \in 1..Len(s) : placed(k) \in 1..Len(s) /\ Rank(s, placed(k)) = k
    BY RankTaken
  <1> HIDE DEF placed
  <1>3. \A k \in 1..Len(s) : s[placed(k)] \in Messages
    BY <1>2
  <1>4. p \in Seq(Messages) /\ Len(p) = Len(s) /\ \A k \in 1..Len(s) : p[k] = s[placed(k)]
    BY <1>1, <1>3
  <1> HIDE DEF p
  <1>5. ASSUME NEW k \in 1..Len(s), NEW l \in 1..Len(s), k <= l
        PROVE  Priority[s[placed(k)].topic] <= Priority[s[placed(l)].topic]
    <2>1. SUFFICES ASSUME Priority[s[placed(l)].topic] < Priority[s[placed(k)].topic] PROVE FALSE
      BY <1>0, <1>2
    <2>2. Before(s, placed(l), placed(k))
      BY <2>1 DEF Before
    <2>3. Rank(s, placed(l)) < Rank(s, placed(k))
      BY <1>2, <2>2, EarlierSmaller
    <2> QED
      BY <1>2, <1>5, <2>3
  <1> QED
    BY <1>4, <1>5 DEF p

CharsOf(s) ==
  CHOOSE f : f = [n \in 0..Len(s) |-> IF n = 0 THEN 0 ELSE f[n - 1] + Size[s[n].topic]]

LEMMA FittingIn ==
  ASSUME NEW s \in Seq(Messages)
  PROVE  Fitting(s) \in 0..Len(s)
  <1> DEFINE N == Len(s)
             size == [n \in 1..N |-> Size[s[n].topic]]
             step == [n \in 1..N |-> [c \in Nat |-> c + size[n]]]
  <1>1. N \in Nat /\ \A n \in 1..N : size[n] \in Nat /\ size[n] = Size[s[n].topic]
    <2>1. ASSUME NEW n \in 1..N PROVE Size[s[n].topic] \in Nat
      <3>1. s[n] \in Messages
        OBVIOUS
      <3>2. s[n].topic \in Topics
        BY <3>1 DEF Messages
      <3> QED
        BY <3>2, BusAssumption
    <2> QED
      BY <2>1
  <1> HIDE DEF size
  <1>2. \A n \in 1..N : step[n] \in [Nat -> Nat]
    <2>1. \A n \in 1..N : [c \in Nat |-> c + size[n]] \in [Nat -> Nat]
      BY <1>1
    <2> QED
      BY <2>1
  <1>3. PICK f \in [0..N -> Nat] : Computes(f, N, 0, step)
    <2> HIDE DEF N, step
    <2>1. 0 \in Nat
      OBVIOUS
    <2> QED
      BY <1>1, <1>2, <2>1, RecursionExists
  <1>4. f = [n \in 0..N |-> IF n = 0 THEN 0 ELSE f[n - 1] + Size[s[n].topic]]
    <2>1. ASSUME NEW n \in 0..N, n # 0
          PROVE  step[n][f[n - 1]] = f[n - 1] + Size[s[n].topic]
      <3>1. n \in 1..N /\ n - 1 \in 0..N
        BY <1>1, <2>1
      <3>2. f[n - 1] \in Nat
        BY <3>1
      <3> QED
        BY <1>1, <3>1, <3>2
    <2> HIDE DEF step, N
    <2> QED
      BY <1>3, <2>1 DEF Computes
  <1>5. \E g : g = [n \in 0..Len(s) |-> IF n = 0 THEN 0 ELSE g[n - 1] + Size[s[n].topic]]
    BY <1>4
  <1> DEFINE C == CharsOf(s)
  <1>6. C = [n \in 0..Len(s) |-> IF n = 0 THEN 0 ELSE C[n - 1] + Size[s[n].topic]]
    BY <1>5 DEF CharsOf
  <1> HIDE DEF C
  <1>7. \A n \in 0..Len(s) : C[n] = IF n = 0 THEN 0 ELSE C[n - 1] + Size[s[n].topic]
    BY <1>6, Zenon
  <1> DEFINE fits == {n \in 0..Len(s) : n <= MaxMessages /\ C[n] <= MaxChars}
  <1>8. 0 \in fits /\ fits \subseteq 0..N
    BY <1>1, <1>7, BusConstants
  <1>9. \E n \in fits : \A k \in fits : k <= n
    <2> HIDE DEF fits, N
    <2> QED
      BY <1>1, <1>8, GreatestNumber
  <1>10. Fitting(s) = CHOOSE n \in fits : \A k \in fits : k <= n
    BY DEF Fitting, C, CharsOf
  <1> HIDE DEF fits
  <1>11. Fitting(s) \in fits
    BY <1>9, <1>10
  <1> QED
    BY <1>8, <1>11

\* The best messages are shown: from the end of the queue, in the order of their
\* priorities, only a beginning is rendered and the rest is lost.
THEOREM BestShown == VerificationSpec => []LosesTheLast
  <1>1. VerificationInv => LosesTheLast
    <2> SUFFICES ASSUME VerificationInv, NEW d \in DOMAIN queues,
                        NEW m \in In(Missed(d)), NEW n \in In(Shown(d))
                 PROVE  Priority[n.topic] <= Priority[m.topic]
      BY DEF LosesTheLast
    <2> DEFINE s == Unexpired(queues[d])
               p == Drained(d)
               f == Fitting(p)
    <2>1. s \in Seq(Messages)
      BY UnexpiredMessages DEF VerificationInv, BusInv, BusTypes
    <2>2. p = ByPriority(s)
      BY DEF Drained
    <2>3. /\ p \in Seq(Messages)
          /\ \A k, l \in 1..Len(p) : k <= l => Priority[p[k].topic] <= Priority[p[l].topic]
      <3> HIDE DEF s, p
      <3> QED
        BY <2>1, <2>2, SortedByPriority
    <2>4. f \in 0..Len(p) /\ Len(p) \in Nat
      <3> HIDE DEF p
      <3> QED
        BY <2>3, FittingIn
    <2>5. m \in In(SubSeq(p, f + 1, Len(p))) /\ n \in In(SubSeq(p, 1, f))
      BY DEF Missed, Shown
    <2> HIDE DEF p, f
    <2>6. PICK l \in 1..Len(p) : m = p[l] /\ l > f
      <3> DEFINE q == SubSeq(p, f + 1, Len(p))
      <3>1. Len(q) = Len(p) - f /\ \A i \in 1..Len(q) : q[i] = p[f + i]
        BY <2>3, <2>4
      <3> HIDE DEF q
      <3>2. PICK i \in 1..Len(q) : m = q[i]
        BY <2>5 DEF In, q
      <3>3. f + i \in 1..Len(p) /\ f + i > f /\ m = p[f + i]
        BY <2>4, <3>1, <3>2
      <3> QED
        BY <3>3
    <2>7. PICK k \in 1..Len(p) : n = p[k] /\ k <= f
      <3> DEFINE q == SubSeq(p, 1, f)
      <3>1. Len(q) = f /\ \A i \in 1..Len(q) : q[i] = p[i]
        BY <2>3, <2>4
      <3> HIDE DEF q
      <3>2. PICK i \in 1..Len(q) : n = q[i]
        BY <2>5 DEF In, q
      <3>3. i \in 1..Len(p) /\ i <= f /\ n = p[i]
        BY <2>4, <3>1, <3>2
      <3> QED
        BY <3>3
    <2>8. k <= l
      BY <2>4, <2>6, <2>7
    <2> QED
      BY <2>3, <2>6, <2>7, <2>8
  <1> QED
    BY <1>1, VerificationHolds, PTL

-----------------------------------------------------------------------------
(* Falling products and k-subsets.                                          *)

\* Induction up to N, over a set.
LEMMA UpTo ==
  ASSUME NEW N \in Nat, NEW S, 0 \in S, \A n \in 1..N : n - 1 \in S => n \in S
  PROVE  \A n \in 0..N : n \in S
  <1> DEFINE f == [n \in 0..N |-> n]
  <1>1. f[0] \in S /\ \A n \in 1..N : f[n - 1] \in S => f[n] \in S
    OBVIOUS
  <1>2. \A n \in 0..N : f[n] \in S
    <2> HIDE DEF f
    <2> QED
      BY <1>1, RecursionStays
  <1> QED
    BY <1>2

ProductOf(n, k) ==
  CHOOSE f : f = [i \in 0..k |-> IF i = 0 THEN 1 ELSE f[i - 1] * (n - (i - 1))]

LEMMA ProductRule ==
  ASSUME NEW n \in Int, NEW k \in Nat
  PROVE  /\ Falling(n, k) = ProductOf(n, k)[k]
         /\ ProductOf(n, k)[0] = 1
         /\ \A i \in 0..k : ProductOf(n, k)[i] \in Int
         /\ \A i \in 1..k : ProductOf(n, k)[i] = ProductOf(n, k)[i - 1] * (n - (i - 1))
  <1> DEFINE step == [i \in 1..k |-> [c \in Int |-> c * (n - (i - 1))]]
  <1>1. \A i \in 1..k : step[i] \in [Int -> Int]
    <2>1. \A i \in 1..k : [c \in Int |-> c * (n - (i - 1))] \in [Int -> Int]
      <3> TAKE i \in 1..k
      <3> DEFINE x == n - (i - 1)
      <3>1. x \in Int
        OBVIOUS
      <3> HIDE DEF x
      <3>2. \A c \in Int : c * x \in Int
        BY <3>1
      <3>3. [c \in Int |-> c * x] \in [Int -> Int]
        BY <3>2
      <3> QED
        BY <3>3 DEF x
    <2> QED
      BY <2>1
  <1>2. PICK f \in [0..k -> Int] : Computes(f, k, 1, step)
    <2>1. 1 \in Int
      OBVIOUS
    <2> HIDE DEF step
    <2> QED
      BY <1>1, <2>1, RecursionExists
  <1>3. f = [i \in 0..k |-> IF i = 0 THEN 1 ELSE f[i - 1] * (n - (i - 1))]
    <2>1. ASSUME NEW i \in 0..k, i # 0
          PROVE  step[i][f[i - 1]] = f[i - 1] * (n - (i - 1))
      <3>1. i \in 1..k /\ i - 1 \in 0..k
        BY <2>1
      <3>2. f[i - 1] \in Int
        BY <3>1
      <3> QED
        BY <3>1, <3>2
    <2> HIDE DEF step
    <2> QED
      BY <1>2, <2>1 DEF Computes
  <1>4. \E g : g = [i \in 0..k |-> IF i = 0 THEN 1 ELSE g[i - 1] * (n - (i - 1))]
    BY <1>3
  <1> DEFINE P == ProductOf(n, k)
  <1>5. P = [i \in 0..k |-> IF i = 0 THEN 1 ELSE P[i - 1] * (n - (i - 1))]
    BY <1>4 DEF ProductOf
  <1>6. Falling(n, k) = P[k]
    BY DEF Falling, ProductOf
  <1> HIDE DEF P
  <1>7. \A i \in 0..k : P[i] = IF i = 0 THEN 1 ELSE P[i - 1] * (n - (i - 1))
    BY <1>5, Zenon
  <1>8. P[0] = 1
    BY <1>7
  <1>9. \A i \in 1..k : P[i] = P[i - 1] * (n - (i - 1))
    <2> TAKE i \in 1..k
    <2>1. i \in 0..k /\ i # 0
      OBVIOUS
    <2> QED
      BY <1>7, <2>1, Zenon
  <1>10. \A i \in 0..k : P[i] \in Int
    <2>1. ASSUME NEW i \in 1..k, P[i - 1] \in Int PROVE P[i] \in Int
      <3>1. n - (i - 1) \in Int
        OBVIOUS
      <3>2. P[i] = P[i - 1] * (n - (i - 1))
        BY <1>9
      <3> DEFINE x == n - (i - 1)
                 y == P[i - 1]
      <3> HIDE DEF x, y
      <3>3. x \in Int /\ y \in Int /\ P[i] = y * x
        BY <2>1, <3>1, <3>2 DEF x, y
      <3> QED
        BY ONLY <3>3
    <2>2. P[0] \in Int
      BY <1>8
    <2> QED
      BY <2>1, <2>2, RecursionStays
  <1> QED
    BY <1>6, <1>8, <1>9, <1>10 DEF P

LEMMA FallingRule ==
  ASSUME NEW n \in Int, NEW k \in Nat
  PROVE  /\ Falling(n, k) \in Int /\ Falling(n, 0) = 1
         /\ Falling(n, k + 1) = Falling(n, k) * (n - k)
  <1>1. Falling(n, k) \in Int /\ Falling(n, 0) = 1
    <2>1. k \in 0..k /\ 0 \in Nat
      OBVIOUS
    <2>2. Falling(n, k) = ProductOf(n, k)[k] /\ ProductOf(n, k)[k] \in Int
      BY <2>1, ProductRule
    <2>3. Falling(n, 0) = ProductOf(n, 0)[0] /\ ProductOf(n, 0)[0] = 1
      BY <2>1, ProductRule
    <2> QED
      BY <2>2, <2>3
  <1> DEFINE P == ProductOf(n, k)
             Q == ProductOf(n, k + 1)
  <1>2. /\ P[0] = 1 /\ \A i \in 1..k : P[i] = P[i - 1] * (n - (i - 1))
    BY ProductRule
  <1>3. /\ Q[0] = 1 /\ \A i \in 1..(k + 1) : Q[i] = Q[i - 1] * (n - (i - 1))
    BY ProductRule
  <1>4. Falling(n, k) = P[k] /\ Falling(n, k + 1) = Q[k + 1]
    BY ProductRule
  <1> DEFINE D == {i \in 0..k : P[i] = Q[i]}
  <1> HIDE DEF P, Q
  <1>5. \A i \in 0..k : i \in D
    <2>1. 0 \in D
      BY <1>2, <1>3
    <2>2. ASSUME NEW i \in 1..k, i - 1 \in D PROVE i \in D
      <3>1. i - 1 \in 0..k /\ i \in 0..k /\ i \in 1..(k + 1)
        OBVIOUS
      <3>2. P[i - 1] = Q[i - 1]
        BY <2>2, <3>1
      <3>3. P[i] = Q[i]
        BY <1>2, <1>3, <3>1, <3>2
      <3> QED
        BY <3>1, <3>3
    <2> HIDE DEF D
    <2> QED
      BY <2>1, <2>2, UpTo
  <1>6. P[k] = Q[k]
    BY <1>5
  <1>7. Q[k + 1] = Q[k] * (n - k)
    <2>1. k + 1 \in 1..(k + 1) /\ (k + 1) - 1 = k
      OBVIOUS
    <2> QED
      BY <1>3, <2>1
  <1> QED
    BY <1>1, <1>4, <1>6, <1>7

\* (n + 1) * n * ... , with one factor more.
LEMMA FallingUp ==
  ASSUME NEW n \in Int, NEW k \in Nat
  PROVE  Falling(n + 1, k + 1) = (n + 1) * Falling(n, k)
  <1> DEFINE Good(i) == Falling(n + 1, i + 1) = (n + 1) * Falling(n, i)
             D == {i \in 0..k : Good(i)}
  <1>1. 0 \in D
    <2>1. Falling(n + 1, 0) = 1 /\ Falling(n, 0) = 1 /\ 0 \in Nat /\ n + 1 \in Int
      BY FallingRule
    <2>2. Falling(n + 1, 0 + 1) = Falling(n + 1, 0) * (n + 1 - 0)
      BY <2>1, FallingRule
    <2>3. Falling(n + 1, 0 + 1) = (n + 1) * Falling(n, 0)
      BY <2>1, <2>2
    <2> QED
      BY <2>3
  <1>2. ASSUME NEW i \in 1..k, i - 1 \in D PROVE i \in D
    <2> DEFINE j == i - 1
    <2>1. j \in Nat /\ j \in 0..k /\ i = j + 1 /\ n + 1 \in Int /\ j + 1 \in Nat /\ i \in 0..k
      OBVIOUS
    <2>2. Falling(n + 1, j + 1) = (n + 1) * Falling(n, j)
      BY <1>2, <2>1
    <2> HIDE DEF j
    <2> DEFINE a == Falling(n, j)
    <2>3. a \in Int /\ Falling(n, j + 1) = a * (n - j)
      BY <2>1, FallingRule
    <2>4. Falling(n + 1, (j + 1) + 1) = Falling(n + 1, j + 1) * (n + 1 - (j + 1))
      BY <2>1, FallingRule
    <2> HIDE DEF a
    <2>5. Falling(n + 1, j + 1) = (n + 1) * a
      BY <2>2 DEF a
    <2>6. ((n + 1) * a) * (n + 1 - (j + 1)) = (n + 1) * (a * (n - j))
      BY <2>1, <2>3
    <2>7. Falling(n + 1, (j + 1) + 1) = (n + 1) * Falling(n, j + 1)
      BY <2>3, <2>4, <2>5, <2>6
    <2>8. Good(i)
      BY <2>1, <2>7
    <2> QED
      BY <2>1, <2>8
  <1>3. \A i \in 0..k : i \in D
    <2> HIDE DEF D
    <2> QED
      BY <1>1, <1>2, UpTo
  <1>4. k \in D
    BY <1>3
  <1> QED
    BY <1>4

\* There is no product of factors falling from 0.
LEMMA FallingZero ==
  ASSUME NEW k \in Nat
  PROVE  Falling(0, k + 1) = 0
  <1>1. Falling(-1 + 1, k + 1) = (-1 + 1) * Falling(-1, k) /\ Falling(-1, k) \in Int
    BY FallingUp, FallingRule
  <1>2. -1 + 1 = 0
    OBVIOUS
  <1> QED
    BY <1>1, <1>2

LEMMA SubsetsFinite ==
  ASSUME NEW S, IsFiniteSet(S), NEW k
  PROVE  IsFiniteSet(kSubset(k, S)) /\ Cardinality(kSubset(k, S)) \in Nat
  <1>1. IsFiniteSet(SUBSET S)
    BY FS_SUBSET
  <1>2. kSubset(k, S) \in SUBSET (SUBSET S)
    BY DEF kSubset
  <1>3. IsFiniteSet(kSubset(k, S))
    BY <1>1, <1>2, FS_Subset
  <1> QED
    BY <1>3, FS_CardinalityType

LEMMA NoElements ==
  ASSUME NEW S, IsFiniteSet(S)
  PROVE  Cardinality(kSubset(0, S)) = 1
  <1>1. kSubset(0, S) = {{}}
    <2>1. ASSUME NEW u \in SUBSET S PROVE Cardinality(u) = 0 <=> u = {}
      BY FS_Subset, FS_EmptySet
    <2> QED
      BY <2>1 DEF kSubset
  <1> QED
    BY <1>1, FS_Singleton

\* Pascal's rule: a subset contains the new element, or not.
LEMMA PascalRule ==
  ASSUME NEW T, IsFiniteSet(T), NEW x, x \notin T, NEW k \in Nat
  PROVE  Cardinality(kSubset(k + 1, T \cup {x}))
           = Cardinality(kSubset(k + 1, T)) + Cardinality(kSubset(k, T))
  <1> DEFINE without == kSubset(k + 1, T)
             lower == kSubset(k, T)
             f == [u \in lower |-> u \cup {x}]
             with == {f[u] : u \in lower}
  <1>1. /\ IsFiniteSet(lower) /\ IsFiniteSet(without)
        /\ Cardinality(lower) \in Nat /\ Cardinality(without) \in Nat
    BY SubsetsFinite
  <1>2. \A u \in lower : u \subseteq T /\ IsFiniteSet(u) /\ Cardinality(u) = k
    BY FS_Subset DEF kSubset
  <1>3. f \in Bijection(lower, with)
    <2>1. f \in [lower -> with]
      OBVIOUS
    <2>2. ASSUME NEW u \in lower, NEW v \in lower, f[u] = f[v] PROVE u = v
      BY <1>2, <2>2
    <2>3. \A w \in with : \E u \in lower : f[u] = w
      OBVIOUS
    <2> HIDE DEF f, with, lower
    <2> QED
      BY <2>1, <2>2, <2>3 DEF Bijection, Injection, Surjection, IsInjective
  <1>4. IsFiniteSet(with) /\ Cardinality(with) = Cardinality(lower)
    <2> HIDE DEF f, with, lower
    <2> QED
      BY <1>1, <1>3, FS_Bijection DEF ExistsBijection
  <1>5. kSubset(k + 1, T \cup {x}) = without \cup with
    <2>1. ASSUME NEW u \in kSubset(k + 1, T \cup {x}) PROVE u \in without \cup with
      <3>1. u \subseteq T \cup {x} /\ Cardinality(u) = k + 1 /\ IsFiniteSet(u)
        BY FS_AddElement, FS_Subset DEF kSubset
      <3>2. CASE x \notin u
        BY <3>1, <3>2 DEF kSubset
      <3>3. CASE x \in u
        <4>1. u \ {x} \subseteq T /\ Cardinality(u \ {x}) = k
          <5>1. Cardinality(u \ {x}) = Cardinality(u) - 1
            BY <3>1, <3>3, FS_RemoveElement
          <5> QED
            BY <3>1, <5>1
        <4>2. u \ {x} \in lower /\ u = (u \ {x}) \cup {x}
          BY <3>3, <4>1 DEF kSubset
        <4> QED
          BY <4>2
      <3> QED
        BY <3>2, <3>3
    <2>2. ASSUME NEW u \in without PROVE u \in kSubset(k + 1, T \cup {x})
      BY DEF kSubset
    <2>3. ASSUME NEW u \in lower PROVE f[u] \in kSubset(k + 1, T \cup {x})
      <3>1. u \subseteq T /\ IsFiniteSet(u) /\ Cardinality(u) = k /\ x \notin u
        BY <1>2
      <3>2. Cardinality(u \cup {x}) = k + 1
        BY <3>1, FS_AddElement
      <3> QED
        BY <3>1, <3>2 DEF kSubset
    <2> HIDE DEF without, lower, f
    <2> QED
      BY <2>1, <2>2, <2>3
  <1>6. without \cap with = {}
    BY DEF kSubset
  <1>7. Cardinality(without \cup with) = Cardinality(without) + Cardinality(with)
    <2> HIDE DEF without, with
    <2>1. Cardinality(without \cup with)
            = Cardinality(without) + Cardinality(with) - Cardinality(without \cap with)
      BY <1>1, <1>4, FS_Union
    <2>2. Cardinality(without \cap with) = 0
      BY <1>6, FS_EmptySet
    <2> HIDE DEF lower
    <2> QED
      BY <1>1, <1>4, <2>1, <2>2
  <1> QED
    BY <1>4, <1>5, <1>7

\* How many subsets of k elements a finite set has.
LEMMA SubsetsCounted ==
  ASSUME NEW S, IsFiniteSet(S)
  PROVE  \A k \in Nat : Cardinality(kSubset(k, S)) * Falling(k, k) = Falling(Cardinality(S), k)
  <1> DEFINE Right(T) == \A k \in Nat : Cardinality(kSubset(k, T)) * Falling(k, k)
                                          = Falling(Cardinality(T), k)
             Bad == {n \in Nat : \E T \in SUBSET S : Cardinality(T) = n /\ ~Right(T)}
  <1>f. \A T \in SUBSET S : IsFiniteSet(T) /\ Cardinality(T) \in Nat
    BY FS_Subset, FS_CardinalityType
  <1> SUFFICES ASSUME ~Right(S) PROVE FALSE
    OBVIOUS
  <1>1. PICK n \in Bad : \A m \in Bad : n <= m
    <2>1. Cardinality(S) \in Bad
      <3> HIDE DEF Right
      <3> QED
        BY <1>f
    <2>2. Bad \subseteq Nat
      OBVIOUS
    <2> HIDE DEF Bad
    <2> QED
      BY <2>1, <2>2, LeastNumber
  <1>2. PICK T \in SUBSET S : Cardinality(T) = n /\ ~Right(T)
    <2> HIDE DEF Right
    <2> QED
      OBVIOUS
  <1>3. IsFiniteSet(T) /\ n \in Nat
    BY <1>f, <1>2
  <1>0. Cardinality(kSubset(0, T)) * Falling(0, 0) = Falling(n, 0)
    <2>1. Falling(0, 0) = 1 /\ Falling(n, 0) = 1
      BY <1>3, FallingRule, 0 \in Nat, 0 \in Int
    <2> QED
      BY <1>3, <2>1, NoElements
  <1>4. ASSUME NEW k \in Nat
        PROVE  Cardinality(kSubset(k + 1, T)) * Falling(k + 1, k + 1) = Falling(n, k + 1)
    <2>1. CASE T = {}
      <3>1. n = 0
        BY <1>2, <2>1, FS_EmptySet
      <3>2. kSubset(k + 1, T) = {}
        <4>1. SUBSET T = {{}} /\ Cardinality({}) = 0 /\ k + 1 # 0
          BY <2>1, FS_EmptySet
        <4> QED
          BY <4>1 DEF kSubset
      <3>3. Cardinality(kSubset(k + 1, T)) = 0 /\ Falling(k + 1, k + 1) \in Int
        <4>1. k + 1 \in Nat /\ k + 1 \in Int
          OBVIOUS
        <4>2. Falling(k + 1, k + 1) \in Int
          BY <4>1, FallingRule
        <4> QED
          BY <3>2, <4>2, FS_EmptySet
      <3> QED
        BY <3>1, <3>3, FallingZero
    <2>2. CASE T # {}
      <3>1. PICK x \in T : TRUE
        BY <2>2
      <3> DEFINE U == T \ {x}
                 m == n - 1
      <3>2. U \in SUBSET S /\ IsFiniteSet(U) /\ x \notin U /\ U \cup {x} = T /\ Cardinality(U) = m
        BY <1>2, <1>3, <3>1, FS_RemoveElement
      <3>3. m \in Nat /\ n = m + 1 /\ m \notin Bad
        <4>1. m \in Nat
          BY <3>2, FS_CardinalityType
        <4>2. n = m + 1 /\ ~(n <= m)
          BY <1>3
        <4> HIDE DEF Bad
        <4> QED
          BY <1>1, <4>1, <4>2
      <3>4. Right(U)
        <4> HIDE DEF Right
        <4> QED
          BY <3>2, <3>3
      <3> HIDE DEF U, m, Bad
      <3> DEFINE a == Cardinality(kSubset(k + 1, U))
                 b == Cardinality(kSubset(k, U))
                 F == Falling(k, k)
                 H == Falling(m, k)
      <3>5. Cardinality(kSubset(k + 1, T)) = a + b /\ a \in Nat /\ b \in Nat
        BY <3>2, PascalRule, SubsetsFinite
      <3>6. F \in Int /\ H \in Int /\ Falling(k + 1, k + 1) = (k + 1) * F
        <4>1. k \in Int /\ m \in Int
          BY <3>3
        <4>2. F \in Int /\ Falling(k + 1, k + 1) = (k + 1) * F
          BY <4>1, FallingRule, FallingUp
        <4>3. H \in Int
          BY <4>1, FallingRule
        <4> QED
          BY <4>2, <4>3
      <3>7. a * Falling(k + 1, k + 1) = Falling(m, k + 1) /\ b * F = H
        BY <3>2, <3>4
      <3>8. Falling(m, k + 1) = H * (m - k) /\ Falling(m + 1, k + 1) = (m + 1) * H
        <4>1. m \in Int
          BY <3>3
        <4>2. Falling(m, k + 1) = H * (m - k)
          BY <4>1, FallingRule
        <4>3. Falling(m + 1, k + 1) = (m + 1) * H
          BY <4>1, FallingUp
        <4> QED
          BY <4>2, <4>3
      <3> HIDE DEF a, b, F, H
      <3>9. a * ((k + 1) * F) = H * (m - k)
        BY <3>6, <3>7, <3>8
      <3>10. (a + b) * ((k + 1) * F) = a * ((k + 1) * F) + (k + 1) * (b * F)
        BY <3>5, <3>6
      <3>11. H * (m - k) + (k + 1) * H = (m + 1) * H
        BY <3>3, <3>6
      <3>12. (a + b) * ((k + 1) * F) = (m + 1) * H
        BY <3>7, <3>9, <3>10, <3>11
      <3> QED
        BY <3>3, <3>5, <3>6, <3>8, <3>12
    <2> QED
      BY <2>1, <2>2
  <1>5. Right(T)
    <2> SUFFICES ASSUME NEW k \in Nat
                 PROVE  Cardinality(kSubset(k, T)) * Falling(k, k) = Falling(n, k)
      BY <1>2
    <2>1. CASE k = 0
      BY <1>0, <2>1
    <2>2. CASE k # 0
      <3>1. k - 1 \in Nat /\ (k - 1) + 1 = k
        BY <2>2
      <3> DEFINE j == k - 1
      <3>2. j \in Nat /\ j + 1 = k
        BY <3>1
      <3> HIDE DEF j
      <3>3. Cardinality(kSubset(j + 1, T)) * Falling(j + 1, j + 1) = Falling(n, j + 1)
        BY <1>4, <3>2
      <3> QED
        BY <3>2, <3>3
    <2> QED
      BY <2>1, <2>2
  <1> HIDE DEF Right
  <1> QED
    BY <1>2, <1>5

-----------------------------------------------------------------------------
(* The evaluation.                                                          *)

Verdicts == {"yes", "no", "none"}
DialogSpace == [code : Codes \cup {None}, checked : Verdicts, called : BOOLEAN,
                accepted : Seq(Codes)]

\* What the runner accepted as a whole is a proof, what it rejected is dropped, and what
\* it accepted is the first of what lean_verify accepted, if that accepted anything.
DialogSound(d) ==
  /\ d \in DialogSpace
  /\ d.checked = "yes" => /\ d.code \in Proving
                          /\ Len(d.accepted) > 0 => d.accepted[1] = d.code
  /\ d.checked = "no" => d.code = None

\* The dialogs of one problem.
DialogSeq(ds) == ds \in Seq(DialogSpace) /\ \A i \in 1..Len(ds) : DialogSound(ds[i])

EvaluationInv ==
  /\ phase \in {"down", "running", "done"} /\ mode \in {"real", "skip"}
  /\ existing \subseteq DOMAIN disk /\ at \in 1..(NProblems + 1) /\ runs \in 0..MaxRuns
  /\ tried \in 0..MaxSamples /\ DialogSeq(results) /\ Len(results) <= tried
  /\ phase = "down" => at = 1
  /\ DOMAIN disk \subseteq Problems /\ DOMAIN solvedBy = DOMAIN disk
  /\ \A p \in DOMAIN disk : /\ DialogSound(disk[p])
                            /\ solvedBy[p] = {} => ~Success(disk[p])
  /\ DOMAIN traces = 1..(at - 1) /\ Len(traces) = at - 1
  /\ \A i \in 1..(at - 1) :
       \/ i \in existing /\ traces[i] = DialogToTrace(i, disk[i])
       \/ i \notin existing /\ \E ds : /\ DialogSeq(ds) /\ Len(ds) <= MaxSamples
                                      /\ traces[i] = ProveSingle(i, ds)

LEMMA EvaluationConstants ==
  /\ NProblems \in Nat /\ MaxSamples \in Nat /\ MaxRuns \in Nat /\ MaxAccepted \in Nat
  /\ Ks \subseteq 1..MaxSamples
  /\ None \notin Codes /\ Proving \subseteq Codes /\ Partly \subseteq Codes
  /\ Recognised \subseteq Codes
  BY EvaluationAssumption

\* The code with which a loop ends is the first that lean_verify accepted.
LEMMA EndsAreSound ==
  ASSUME NEW e \in Ends
  PROVE  /\ e.code \in Codes \cup {None} /\ e.called \in BOOLEAN /\ e.accepted \in Seq(Codes)
         /\ Len(e.accepted) > 0 => e.accepted[1] = e.code
  <1>1. CASE e \in [code : Codes \cup {None}, called : BOOLEAN, accepted : {<<>>}]
    <2>1. e.code \in Codes \cup {None} /\ e.called \in BOOLEAN /\ e.accepted = <<>>
      BY <1>1
    <2>2. <<>> \in Seq(Codes) /\ Len(<<>>) = 0
      OBVIOUS
    <2> QED
      BY <2>1, <2>2
  <1>2. CASE e \in {[code |-> cs[1], called |-> TRUE, accepted |-> cs] :
                     cs \in SeqOf(Partly, MaxAccepted) \ {<<>>}}
    <2>1. PICK cs \in SeqOf(Partly, MaxAccepted) \ {<<>>} :
            e = [code |-> cs[1], called |-> TRUE, accepted |-> cs]
      BY <1>2
    <2>2. PICK m \in 0..MaxAccepted : cs \in [1..m -> Partly]
      BY <2>1 DEF SeqOf
    <2>3. cs \in Seq(Codes) /\ cs # <<>>
      BY <2>1, <2>2, EvaluationConstants
    <2>4. cs[1] \in Codes
      BY <2>3
    <2>5. e.code = cs[1] /\ e.called = TRUE /\ e.accepted = cs
      BY <2>1
    <2> QED
      BY <2>3, <2>4, <2>5
  <1>3. \/ e \in [code : Codes \cup {None}, called : BOOLEAN, accepted : {<<>>}]
        \/ e \in {[code |-> cs[1], called |-> TRUE, accepted |-> cs] :
                   cs \in SeqOf(Partly, MaxAccepted) \ {<<>>}}
    <2>1. CASE mode = "skip"
      BY <2>1 DEF Ends
    <2>2. CASE mode # "skip"
      BY <2>2, Zenon DEF Ends
    <2> QED
      BY <2>1, <2>2
  <1> QED
    BY <1>1, <1>2, <1>3

LEMMA DialogsAreSound ==
  ASSUME NEW d \in Dialogs
  PROVE  DialogSound(d)
  <1> DEFINE D(e) == {[code |-> ProofLeft(e.code, v), checked |-> v, called |-> e.called,
                       accepted |-> e.accepted] : v \in AutoVerify(e.code)}
             W == Ends
  <1>1. d \in UNION {D(e) : e \in W}
    BY DEF Dialogs
  <1>2. PICK e \in W : d \in D(e)
    <2> HIDE DEF D, W
    <2> QED
      BY <1>1
  <1>3. PICK v \in AutoVerify(e.code) :
               d = [code |-> ProofLeft(e.code, v), checked |-> v, called |-> e.called,
                    accepted |-> e.accepted]
    BY <1>2
  <1>4. /\ e.code \in Codes \cup {None} /\ e.called \in BOOLEAN /\ e.accepted \in Seq(Codes)
        /\ Len(e.accepted) > 0 => e.accepted[1] = e.code
    BY EndsAreSound
  <1>5. /\ v \in Verdicts /\ ProofLeft(e.code, v) \in Codes \cup {None}
        /\ v = "yes" => e.code \in Proving /\ ProofLeft(e.code, v) = e.code
        /\ v = "no" => ProofLeft(e.code, v) = None
    BY <1>3, <1>4 DEF AutoVerify, ProofLeft, Verdicts
  <1>6. /\ d.code = ProofLeft(e.code, v) /\ d.checked = v /\ d.accepted = e.accepted
        /\ d \in DialogSpace
    BY <1>3, <1>4, <1>5 DEF DialogSpace
  <1> QED
    BY <1>4, <1>5, <1>6 DEF DialogSound

LEMMA NoResultSound == DialogSound(NoResult) /\ ~Success(NoResult)
  BY DEF DialogSound, DialogSpace, NoResult, Success, Verdicts

\* The greatest of the numbers of the successes is one of them.
LEMMA LastCorrect ==
  ASSUME NEW ds, DialogSeq(ds), Correct(ds) # {}
  PROVE  /\ Max(Correct(ds)) \in 1..Len(ds) /\ Success(ds[Max(Correct(ds))])
  <1>1. Len(ds) \in Nat /\ Correct(ds) \subseteq 0..Len(ds)
    BY DEF DialogSeq, Correct
  <1>2. \E m \in Correct(ds) : \A n \in Correct(ds) : n <= m
    BY <1>1, GreatestNumber
  <1>3. \E m \in Correct(ds) : \A n \in Correct(ds) : m >= n
    BY <1>1, <1>2
  <1>4. Max(Correct(ds)) \in Correct(ds)
    BY <1>3 DEF Max
  <1> QED
    BY <1>4 DEF Correct

LEMMA SavedSound ==
  ASSUME NEW ds, DialogSeq(ds)
  PROVE  /\ DialogSound(ResultForDialog(ds))
         /\ Correct(ds) = {} => ~Success(ResultForDialog(ds))
  <1>1. CASE Correct(ds) # {}
    BY <1>1, LastCorrect DEF ResultForDialog, DialogSeq
  <1>2. CASE Correct(ds) = {} /\ ds = <<>>
    BY <1>2, NoResultSound DEF ResultForDialog
  <1>3. CASE Correct(ds) = {} /\ ds # <<>>
    <2>1. Len(ds) \in 1..Len(ds)
      BY <1>3 DEF DialogSeq
    <2>2. ResultForDialog(ds) = ds[Len(ds)]
      BY <1>3 DEF ResultForDialog, Last
    <2> QED
      BY <1>3, <2>1, <2>2 DEF DialogSeq, Correct
  <1> QED
    BY <1>1, <1>2, <1>3

LEMMA EvaluationStarts == EvaluationInit => EvaluationInv
  BY EvaluationConstants DEF EvaluationInit, EvaluationInv, DialogSeq

\* One more trace.
LEMMA TraceAppended ==
  ASSUME EvaluationInv, NEW t, traces' = Append(traces, t)
  PROVE  /\ DOMAIN traces' = 1..at /\ Len(traces') = at /\ traces'[at] = t
         /\ \A i \in 1..(at - 1) : traces'[i] = traces[i]
  <1>1. at \in Nat /\ at >= 1 /\ Len(traces) = at - 1 /\ DOMAIN traces = 1..(at - 1)
    BY EvaluationConstants DEF EvaluationInv
  <1> QED
    BY <1>1

LEMMA EvaluationSteps ==
  EvaluationInv /\ [EvaluationNext]_evaluationVars => EvaluationInv'
  <1> SUFFICES ASSUME EvaluationInv, [EvaluationNext]_evaluationVars PROVE EvaluationInv'
    OBVIOUS
  <1>c. NProblems \in Nat /\ MaxSamples \in Nat /\ MaxRuns \in Nat
    BY EvaluationConstants
  <1>1. CASE UNCHANGED evaluationVars
    BY <1>1 DEF EvaluationInv, evaluationVars, memory, DialogSeq
  <1>2. CASE Start
    <2>1. at = 1 /\ 1..(at - 1) = {}
      BY <1>2 DEF Start, EvaluationInv
    <2> QED
      BY <1>2, <1>c, <2>1 DEF Start, EvaluationInv, DialogSeq
  <1>3. CASE Stop
    BY <1>3, <1>c DEF Stop, EvaluationInv, DialogSeq
  <1>4. CASE TakeExisting
    <2>1. /\ at \in existing /\ at' = at + 1 /\ phase = "running" /\ at <= NProblems
          /\ traces' = Append(traces, DialogToTrace(at, disk[at]))
          /\ UNCHANGED <<phase, mode, existing, tried, results, disk, runs, solvedBy>>
      BY <1>4 DEF TakeExisting, InProblem
    <2>2. /\ DOMAIN traces' = 1..at /\ Len(traces') = at
          /\ traces'[at] = DialogToTrace(at, disk[at])
          /\ \A i \in 1..(at - 1) : traces'[i] = traces[i]
      BY <2>1, TraceAppended
    <2>3. at \in 1..(NProblems + 1) /\ at' \in 1..(NProblems + 1) /\ at' - 1 = at
      BY <1>c, <2>1 DEF EvaluationInv
    <2>4. \A i \in 1..at : i = at \/ i \in 1..(at - 1)
      BY <2>3
    <2>5. \A i \in 1..at :
            \/ i \in existing /\ traces'[i] = DialogToTrace(i, disk[i])
            \/ i \notin existing /\ \E ds : /\ DialogSeq(ds) /\ Len(ds) <= MaxSamples
                                           /\ traces'[i] = ProveSingle(i, ds)
      BY <2>1, <2>2, <2>4 DEF EvaluationInv
    <2> QED
      BY <2>1, <2>2, <2>3, <2>5 DEF EvaluationInv
  <1>5. CASE Sample
    <2>1. PICK d \in Dialogs : results' = Append(results, d)
      BY <1>5 DEF Sample
    <2>2. /\ tried < MaxSamples /\ tried' = tried + 1
          /\ UNCHANGED <<phase, mode, existing, at, traces, disk, runs, solvedBy>>
      BY <1>5 DEF Sample
    <2>3. DialogSound(d) /\ d \in DialogSpace
      BY DialogsAreSound DEF DialogSound
    <2>4. DialogSeq(results)' /\ Len(results') = Len(results) + 1 /\ Len(results) \in Nat
      <3>1. results \in Seq(DialogSpace) /\ \A i \in 1..Len(results) : DialogSound(results[i])
        BY DEF EvaluationInv, DialogSeq
      <3>2. /\ results' \in Seq(DialogSpace) /\ Len(results) \in Nat
            /\ Len(results') = Len(results) + 1 /\ results'[Len(results) + 1] = d
            /\ \A i \in 1..Len(results) : results'[i] = results[i]
        BY <2>1, <2>3, <3>1
      <3>3. \A i \in 1..Len(results') : i = Len(results) + 1 \/ i \in 1..Len(results)
        BY <3>2
      <3>4. \A i \in 1..Len(results') : DialogSound(results'[i])
        BY <2>3, <3>1, <3>2, <3>3
      <3> QED
        BY <3>2, <3>4 DEF DialogSeq
    <2>5. tried' \in 0..MaxSamples /\ Len(results') <= tried'
      BY <1>c, <2>2, <2>4 DEF EvaluationInv
    <2> QED
      BY <2>2, <2>4, <2>5 DEF EvaluationInv
  <1>6. CASE SampleFails
    <2>1. /\ tried < MaxSamples /\ tried' = tried + 1
          /\ UNCHANGED <<phase, mode, existing, at, results, traces, disk, runs, solvedBy>>
      BY <1>6 DEF SampleFails
    <2>2. tried' \in 0..MaxSamples /\ Len(results) <= tried'
      BY <1>c, <2>1 DEF EvaluationInv, DialogSeq
    <2> QED
      BY <2>1, <2>2 DEF EvaluationInv, DialogSeq
  <1>7. CASE SaveTraceDialog
    <2>1. /\ at \notin existing /\ at' = at + 1 /\ phase = "running" /\ at <= NProblems
          /\ disk' = Written(disk, at, ResultForDialog(results))
          /\ solvedBy' = Written(solvedBy, at, Correct(results))
          /\ traces' = Append(traces, ProveSingle(at, results))
          /\ tried' = 0 /\ results' = <<>>
          /\ UNCHANGED <<phase, mode, existing, runs>>
      BY <1>7 DEF SaveTraceDialog, InProblem
    <2>2. /\ DOMAIN traces' = 1..at /\ Len(traces') = at
          /\ traces'[at] = ProveSingle(at, results)
          /\ \A i \in 1..(at - 1) : traces'[i] = traces[i]
      BY <2>1, TraceAppended
    <2>3. at \in 1..(NProblems + 1) /\ at' \in 1..(NProblems + 1) /\ at' - 1 = at
          /\ at \in Problems
      BY <1>c, <2>1 DEF EvaluationInv, Problems
    <2>4. \A i \in 1..at : i = at \/ (i \in 1..(at - 1) /\ i # at)
      BY <2>3
    <2>5. /\ DOMAIN disk' = DOMAIN disk \cup {at} /\ DOMAIN solvedBy' = DOMAIN disk'
          /\ disk'[at] = ResultForDialog(results) /\ solvedBy'[at] = Correct(results)
          /\ \A p \in DOMAIN disk : p # at => disk'[p] = disk[p] /\ solvedBy'[p] = solvedBy[p]
      BY <2>1 DEF Written, EvaluationInv
    <2>6. DialogSeq(results) /\ Len(results) <= MaxSamples
      BY <1>c DEF EvaluationInv, DialogSeq
    <2>7. \A i \in 1..at :
            \/ i \in existing /\ traces'[i] = DialogToTrace(i, disk'[i])
            \/ i \notin existing /\ \E ds : /\ DialogSeq(ds) /\ Len(ds) <= MaxSamples
                                           /\ traces'[i] = ProveSingle(i, ds)
      <3> SUFFICES ASSUME NEW i \in 1..at
                   PROVE  \/ i \in existing /\ traces'[i] = DialogToTrace(i, disk'[i])
                          \/ /\ i \notin existing
                             /\ \E ds : /\ DialogSeq(ds) /\ Len(ds) <= MaxSamples
                                        /\ traces'[i] = ProveSingle(i, ds)
        OBVIOUS
      <3>1. CASE i = at
        BY <2>1, <2>2, <2>6, <3>1
      <3>2. CASE i \in 1..(at - 1) /\ i # at
        <4>1. traces'[i] = traces[i]
          BY <2>2, <3>2
        <4>2. i \in existing => i \in DOMAIN disk /\ disk'[i] = disk[i]
          BY <2>5, <3>2 DEF EvaluationInv
        <4> QED
          BY <3>2, <4>1, <4>2 DEF EvaluationInv
      <3> QED
        BY <2>4, <3>1, <3>2
    <2>8. \A p \in DOMAIN disk' : /\ DialogSound(disk'[p])
                                  /\ solvedBy'[p] = {} => ~Success(disk'[p])
      BY <2>5, <2>6, SavedSound DEF EvaluationInv
    <2>9. DialogSeq(results)' /\ Len(results') = 0
      BY <2>1 DEF DialogSeq
    <2> QED
      BY <1>c, <2>1, <2>2, <2>3, <2>5, <2>7, <2>8, <2>9 DEF EvaluationInv
  <1>8. CASE WriteMetrics
    BY <1>8 DEF WriteMetrics, EvaluationInv, DialogSeq
  <1> QED
    BY <1>1, <1>2, <1>3, <1>4, <1>5, <1>6, <1>7, <1>8 DEF EvaluationNext

LEMMA EvaluationHolds == EvaluationSpec => []EvaluationInv
  BY EvaluationStarts, EvaluationSteps, PTL DEF EvaluationSpec

\* What a trace says of a problem.
LEMMA FreshTrace ==
  ASSUME NEW ds, DialogSeq(ds), NEW p, NEW t, t = ProveSingle(p, ds)
  PROVE  /\ ~t.resumed /\ t.problem = p /\ t.attempts = Len(ds) /\ t.correct = Correct(ds)
         /\ t.solved => \/ t.code \in Proving
                        \/ t.dialog.checked = "none"
  <1>1. /\ ~t.resumed /\ t.problem = p /\ t.attempts = Len(ds) /\ t.correct = Correct(ds)
        /\ t.solved <=> Correct(ds) # {}
    BY DEF ProveSingle
  <1>2. ASSUME t.solved PROVE t.code \in Proving \/ t.dialog.checked = "none"
    <2> DEFINE d == ds[Max(Correct(ds))]
    <2>1. Correct(ds) # {}
      BY <1>1, <1>2
    <2>2. DialogSound(d) /\ Success(d)
      BY <2>1, LastCorrect DEF DialogSeq
    <2>3. t.code = d.code /\ t.dialog = d
      BY <2>1 DEF ProveSingle, ResultForDialog
    <2> HIDE DEF d
    <2>4. d.checked \in Verdicts
      BY <2>2 DEF DialogSound, DialogSpace
    <2> QED
      BY <2>2, <2>3, <2>4 DEF DialogSound, Success, Verdicts
  <1> QED
    BY <1>1, <1>2

\* What SolvedIsProved says of one trace.
SolvedFairly(t) ==
  \/ t.code \in Proving
  \/ t.dialog.checked = "none"
  \/ t.dialog.checked = "no" /\ t.code \in ToSet(t.dialog.accepted)
  \/ /\ t.resumed /\ t.dialog.accepted[1] \notin Recognised
     /\ t.code \in ToSet(Tail(t.dialog.accepted))

\* The code recovered from a dialog is an accepted one, and the first if it is recognised.
LEMMA RecoveredCode ==
  ASSUME NEW d, DialogSound(d), VerifiedProof(d)
  PROVE  /\ Recovered(d) \in ToSet(d.accepted) /\ Recovered(d) \in Recognised
         /\ Len(d.accepted) > 0
         /\ Recovered(d) = d.accepted[1] \/ Recovered(d) \in ToSet(Tail(d.accepted))
         /\ d.accepted[1] \in Recognised => Recovered(d) = d.accepted[1]
  <1> DEFINE a == d.accepted
             I == {i \in DOMAIN a : a[i] \in Recognised}
  <1>1. a \in Seq(Codes) /\ DOMAIN a = 1..Len(a) /\ Len(a) \in Nat
    BY DEF DialogSound, DialogSpace
  <1>2. I # {} /\ I \subseteq Nat
    BY <1>1 DEF VerifiedProof, ToSet
  <1>3. \E m \in I : \A n \in I : m <= n
    <2> HIDE DEF I
    <2> QED
      BY <1>2, LeastNumber
  <1> DEFINE m == Min(I)
  <1>4. m \in I /\ \A n \in I : m <= n
    BY <1>3 DEF Min
  <1>5. Recovered(d) = a[m]
    BY DEF Recovered
  <1> HIDE DEF m
  <1>6. m \in 1..Len(a) /\ a[m] \in Recognised /\ (a[1] \in Recognised => m = 1)
    BY <1>1, <1>4
  <1> HIDE DEF a, I
  <1>7. a[m] \in ToSet(a) /\ Len(a) > 0
    BY <1>1, <1>6 DEF ToSet
  <1>8. m # 1 => a[m] \in ToSet(Tail(a))
    <2> SUFFICES ASSUME m # 1 PROVE a[m] \in ToSet(Tail(a))
      OBVIOUS
    <2>1. m - 1 \in 1..(Len(a) - 1) /\ a # <<>>
      BY <1>1, <1>6
    <2>2. Tail(a) \in Seq(Codes) /\ Len(Tail(a)) = Len(a) - 1 /\ Tail(a)[m - 1] = a[m]
      BY <1>1, <1>6, <2>1
    <2>3. DOMAIN Tail(a) = 1..(Len(a) - 1)
      BY <2>2
    <2> QED
      BY <2>1, <2>2, <2>3 DEF ToSet
  <1> QED
    BY <1>5, <1>6, <1>7, <1>8 DEF a

LEMMA ResumedTrace ==
  ASSUME NEW d, DialogSound(d), NEW p, NEW t, t = DialogToTrace(p, d)
  PROVE  /\ t.resumed /\ t.problem = p /\ (t.solved <=> DialogSolved(d))
         /\ t.solved => SolvedFairly(t)
  <1>1. /\ t.resumed /\ t.problem = p /\ t.dialog = d /\ (t.solved <=> DialogSolved(d))
    BY DEF DialogToTrace
  <1>2. d.checked \in Verdicts
    BY DEF DialogSound, DialogSpace
  <1>3. ASSUME t.solved
        PROVE  \/ t.code \in Proving
               \/ d.checked = "none"
               \/ d.checked = "no" /\ t.code \in ToSet(d.accepted)
               \/ d.accepted[1] \notin Recognised /\ t.code \in ToSet(Tail(d.accepted))
    <2>1. CASE VerifiedProof(d)
      <3>1. t.code = Recovered(d)
        BY <2>1 DEF DialogToTrace
      <3>2. CASE d.checked = "yes"
        <4>1. d.code \in Proving /\ (Len(d.accepted) > 0 => d.accepted[1] = d.code)
          BY <3>2 DEF DialogSound
        <4> QED
          BY <2>1, <3>1, <4>1, RecoveredCode
      <3> QED
        BY <1>2, <2>1, <3>1, <3>2, RecoveredCode DEF Verdicts
    <2>2. CASE ~VerifiedProof(d)
      <3>1. t.code = d.code
        BY <1>1, <1>3, <2>2 DEF DialogToTrace
      <3>2. AutoVerifiedProof(d) \/ ResultProof(d)
        BY <1>1, <1>3, <2>2 DEF DialogSolved
      <3> QED
        BY <1>2, <3>1, <3>2 DEF DialogSound, AutoVerifiedProof, ResultProof, Success, Verdicts
    <2> QED
      BY <2>1, <2>2
  <1> QED
    BY <1>1, <1>3 DEF SolvedFairly

LEMMA TracePlaces == EvaluationInv => \A i \in 1..Len(traces) : i \in 1..(at - 1)
  BY DEF EvaluationInv

\* The types; and metrics marked "lean4" count as solved only what is proved, with the
\* named exceptions, for any problems, samples, codes and interruptions.
THEOREM MetricsProved == EvaluationSpec => []SolvedIsProved
  <1>1. EvaluationInv => SolvedIsProved
    <2> SUFFICES ASSUME EvaluationInv PROVE SolvedIsProved
      OBVIOUS
    <2>1. EvaluationTypeOK
      BY DEF EvaluationInv, EvaluationTypeOK
    <2>2. ASSUME NEW i \in 1..Len(traces), traces[i].solved
          PROVE  SolvedFairly(traces[i])
      <3>1. i \in 1..(at - 1)
        BY TracePlaces
      <3>2. CASE i \in existing /\ traces[i] = DialogToTrace(i, disk[i])
        <4>1. DialogSound(disk[i])
          BY <3>2 DEF EvaluationInv
        <4> QED
          BY <2>2, <3>2, <4>1, ResumedTrace
      <3>3. CASE \E ds : DialogSeq(ds) /\ Len(ds) <= MaxSamples /\ traces[i] = ProveSingle(i, ds)
        BY <2>2, <3>3, FreshTrace DEF SolvedFairly
      <3> QED
        BY <3>1, <3>2, <3>3 DEF EvaluationInv
    <2> QED
      BY <2>1, <2>2 DEF SolvedIsProved, SolvedFairly
  <1> QED
    BY <1>1, EvaluationHolds, PTL

\* A resumed evaluation keeps the verdicts of the dialogs that were saved, for any
\* problems, samples and interruptions.
THEOREM VerdictsKept == EvaluationSpec => []ResumeKeepsVerdict
  <1>1. EvaluationInv => ResumeKeepsVerdict
    <2> SUFFICES ASSUME EvaluationInv, NEW i \in 1..Len(traces)
                 PROVE  /\ traces[i].problem = i
                        /\ traces[i].resumed =>
                             /\ solvedBy[i] # {} /\ AutoVerifiedProof(disk[i]) => traces[i].solved
                             /\ traces[i].solved => solvedBy[i] # {} \/ disk[i].accepted # <<>>
      BY DEF ResumeKeepsVerdict
    <2>1. i \in 1..(at - 1)
      BY TracePlaces
    <2>2. CASE i \in existing /\ traces[i] = DialogToTrace(i, disk[i])
      <3>1. DialogSound(disk[i]) /\ (solvedBy[i] = {} => ~Success(disk[i]))
        BY <2>2 DEF EvaluationInv
      <3>2. traces[i].problem = i /\ (traces[i].solved <=> DialogSolved(disk[i]))
        BY <2>2, <3>1, ResumedTrace
      <3>3. AutoVerifiedProof(disk[i]) => DialogSolved(disk[i])
        BY DEF DialogSolved
      <3>4. ASSUME DialogSolved(disk[i]), disk[i].accepted = <<>> PROVE solvedBy[i] # {}
        <4>1. ~VerifiedProof(disk[i])
          BY <3>4 DEF VerifiedProof, ToSet
        <4>2. disk[i].code \in Recognised
          BY <3>4, <4>1 DEF DialogSolved, AutoVerifiedProof, ResultProof
        <4>3. Success(disk[i])
          BY <4>2, EvaluationConstants DEF Success
        <4> QED
          BY <3>1, <4>3
      <3> QED
        BY <3>2, <3>3, <3>4
    <2>3. CASE \E ds : DialogSeq(ds) /\ Len(ds) <= MaxSamples /\ traces[i] = ProveSingle(i, ds)
      BY <2>3, FreshTrace
    <2> QED
      BY <2>1, <2>2, <2>3 DEF EvaluationInv
  <1> QED
    BY <1>1, EvaluationHolds, PTL

\* pass_at_k computes the share of the choices of k samples with a correct one, for any
\* numbers of samples, correct ones and k.
THEOREM PassAtKExact == EvaluationSpec => []PassAtKUnbiased
  <1>1. EvaluationInv => PassAtKUnbiased
    <2> SUFFICES ASSUME EvaluationInv, NEW i \in 1..Len(traces), NEW k \in Ks,
                        ~traces[i].resumed, traces[i].attempts > 0
                 PROVE  LET t == traces[i]
                            choices == kSubset(Min({k, t.attempts}), 1..t.attempts)
                            missed == {s \in choices : s \cap t.correct = {}}
                        IN PassAtK(t, k).misses * Cardinality(choices)
                             = Cardinality(missed) * PassAtK(t, k).of
      BY DEF PassAtKUnbiased
    <2>1. PICK ds : DialogSeq(ds) /\ Len(ds) <= MaxSamples /\ traces[i] = ProveSingle(i, ds)
      <3>1. i \in 1..(at - 1)
        BY TracePlaces
      <3>2. i \in existing => DialogSound(disk[i])
        BY DEF EvaluationInv
      <3> QED
        BY <3>1, <3>2, ResumedTrace DEF EvaluationInv
    <2> DEFINE t == traces[i]
               n == t.attempts
               C == t.correct
               c == Cardinality(C)
               j == Min({k, n})
               choices == kSubset(j, 1..n)
               missed == {s \in choices : s \cap C = {}}
    <2>2. n = Len(ds) /\ C = Correct(ds) /\ n \in Nat /\ n > 0 /\ C \subseteq 1..n
      <3>1. n = Len(ds) /\ C = Correct(ds)
        BY <2>1, FreshTrace
      <3> QED
        BY <2>1, <3>1 DEF DialogSeq, Correct
    <2>3. k \in Nat /\ k > 0
      BY EvaluationConstants
    <2> HIDE DEF C, n
    <2>4. j \in 1..n
      <3>1. \E x \in {k, n} : \A y \in {k, n} : x <= y
        BY <2>2, <2>3
      <3>2. j \in {k, n} /\ \A y \in {k, n} : j <= y
        BY <3>1 DEF Min
      <3> QED
        BY <2>2, <2>3, <3>2
    <2>5. Max({1, n}) = n
      <3>1. \E x \in {1, n} : \A y \in {1, n} : x >= y
        BY <2>2
      <3>2. Max({1, n}) \in {1, n} /\ \A y \in {1, n} : Max({1, n}) >= y
        BY <3>1 DEF Max
      <3> QED
        BY <2>2, <3>2
    <2>6. PassAtK(t, k) = MissRatio(n, c, j)
      BY <2>5 DEF PassAtK, CorrectCount, n, C
    <2>7. /\ IsFiniteSet(1..n) /\ Cardinality(1..n) = n /\ IsFiniteSet(C) /\ c \in Nat /\ c <= n
          /\ IsFiniteSet((1..n) \ C) /\ Cardinality((1..n) \ C) = n - c
      <3>1. IsFiniteSet(1..n) /\ Cardinality(1..n) = n
        <4> DEFINE m == n
        <4>1. 1 \in Int /\ m \in Int /\ ~(1 > m) /\ m - 1 + 1 = m
          BY <2>2
        <4> HIDE DEF m
        <4>2. IsFiniteSet(1..m) /\ Cardinality(1..m) = IF 1 > m THEN 0 ELSE m - 1 + 1
          BY ONLY <4>1, FS_Interval
        <4> QED
          BY <4>1, <4>2 DEF m
      <3>2. IsFiniteSet(C) /\ c \in Nat /\ c <= n
        BY <2>2, <3>1, FS_Subset, FS_CardinalityType
      <3>3. (1..n) \cap C = C
        BY <2>2
      <3>4. IsFiniteSet((1..n) \ C) /\ Cardinality((1..n) \ C) = n - c
        BY <3>1, <3>3, FS_Difference
      <3> QED
        BY <3>1, <3>2, <3>4
    <2>8. missed = kSubset(j, (1..n) \ C)
      <3> HIDE DEF j
      <3> QED
        BY DEF kSubset
    <2> HIDE DEF t, c, j, missed
    <2> DEFINE K == Falling(j, j)
               a == Cardinality(choices)
               b == Cardinality(missed)
    <2>9. /\ a * K = Falling(n, j) /\ b * K = Falling(n - c, j)
          /\ a \in Nat /\ b \in Nat /\ K \in Int /\ j \in Nat
      <3>1. j \in Nat /\ j \in Int
        BY <2>4
      <3>2. K \in Int
        BY <3>1, FallingRule
      <3>3. a * K = Falling(n, j) /\ a \in Nat
        BY <2>7, <3>1, SubsetsCounted, SubsetsFinite
      <3>4. b * K = Falling(n - c, j) /\ b \in Nat
        BY <2>7, <2>8, <3>1, SubsetsCounted, SubsetsFinite
      <3> QED
        BY <3>1, <3>2, <3>3, <3>4
    <2>10. CASE n - c < j
      <3>1. b = 0
        <4>1. ASSUME NEW s \in kSubset(j, (1..n) \ C) PROVE FALSE
          <5>1. s \in SUBSET ((1..n) \ C) /\ Cardinality(s) = j
            BY DEF kSubset
          <5>2. Cardinality(s) <= n - c
            <6>1. Cardinality(s) <= Cardinality((1..n) \ C)
              BY <2>7, <5>1, FS_Subset
            <6> QED
              BY <2>7, <6>1
          <5> QED
            BY <2>2, <2>7, <2>9, <2>10, <5>1, <5>2
        <4>2. missed = {}
          BY <2>8, <4>1
        <4> QED
          BY <4>2, FS_EmptySet
      <3>2. MissRatio(n, c, j) = [misses |-> 0, of |-> 1]
        BY <2>10 DEF MissRatio
      <3> HIDE DEF a, b, choices
      <3>3. 0 * a = b * 1
        BY <2>9, <3>1
      <3> QED
        BY <2>6, <3>2, <3>3 DEF a, b, choices, missed, j, n, C, t
    <2>11. CASE ~(n - c < j)
      <3>1. MissRatio(n, c, j) = [misses |-> Falling(n - c, j), of |-> Falling(n, j)]
        BY <2>11 DEF MissRatio
      <3> HIDE DEF a, b, K, choices
      <3>2. (b * K) * a = b * (a * K)
        BY <2>9
      <3>3. Falling(n - c, j) * a = b * Falling(n, j)
        BY <2>9, <3>2
      <3>4. PassAtK(t, k).misses = Falling(n - c, j) /\ PassAtK(t, k).of = Falling(n, j)
        BY <2>6, <3>1
      <3>5. PassAtK(t, k).misses * a = b * PassAtK(t, k).of
        BY <3>3, <3>4
      <3> QED
        BY <3>5 DEF a, b, choices, missed, j, n, C, t
    <2> QED
      BY <2>10, <2>11
  <1> QED
    BY <1>1, EvaluationHolds, PTL

-----------------------------------------------------------------------------
(* LeanPool.                                                                *)

\* A session that is not constructed yet has no flags and is in no list; what a task
\* handles under a lock is in nobody's use, not alive, and handled by it alone; and no
\* session is listed twice.
HolderInv ==
  /\ \A s \in Ids : s > created => ~busy[s] /\ ~overflow[s] /\ ~alive[s] /\ s \notin Listed
  /\ \A c \in Callers : pc[c] \notin {"idle", "waiting", "toAdd", "toRemove"}
                          => use[c] \in Ids /\ use[c] <= created
  /\ \A h \in handles : h.session \in Ids /\ h.session <= created
  /\ \A c \in Callers : pc[c] \in Holders => ~busy[use[c]] /\ ~alive[use[c]]
  /\ \A c, d \in Callers : pc[c] \in Holders /\ pc[d] \in Holders /\ c # d => use[c] # use[d]
  /\ \A c \in Callers : pc[c] \in {"starting", "adding"} => ~overflow[use[c]] /\ use[c] \notin Listed
  /\ IsInjective(sessions)

\* The position a task is about to pop is that of the session it has closed, unless an
\* entry left the list meanwhile.
PlaceInv ==
  ~crossed => \A c \in Callers : pc[c] = "removing" =>
                index[c] \in 1..Len(sessions) /\ sessions[index[c]] = use[c]

IInv ==
  /\ TypeOK
  /\ OneHolder
  /\ OneUserPerSession
  /\ BusyAccounted
  /\ OverflowTemporary
  /\ HolderInv
  /\ PlaceInv

USE DEF Ids, Places, Holders
USE PoolSizeAssumption, BoundsAssumption

NoStateType == NoState \in ProofStates

LEMMA NoStateTyped == NoStateType
BY DEF NoStateType, NoState, ProofStates

-----------------------------------------------------------------------------
(* The list of sessions.                                                    *)

LEMMA OneMore ==
  ASSUME NEW S, NEW s \in Seq(S), NEW x \in S
  PROVE  /\ Append(s, x) \in Seq(S) /\ Len(Append(s, x)) = Len(s) + 1 /\ Len(s) \in Nat
         /\ \A i \in 1..Len(s) : Append(s, x)[i] = s[i]
         /\ ToSet(Append(s, x)) = ToSet(s) \cup {x}
         /\ IsInjective(s) /\ x \notin ToSet(s) => IsInjective(Append(s, x))
<1>1. /\ Append(s, x) \in Seq(S) /\ Len(Append(s, x)) = Len(s) + 1 /\ Len(s) \in Nat
      /\ \A i \in 1..Len(s) : Append(s, x)[i] = s[i]
      /\ Append(s, x)[Len(s) + 1] = x
  OBVIOUS
<1> DEFINE t == Append(s, x)
<1>2. DOMAIN t = 1..(Len(s) + 1) /\ DOMAIN s = 1..Len(s)
  OBVIOUS
<1> HIDE DEF t
<1>3. ToSet(t) = ToSet(s) \cup {x}
  BY <1>1, <1>2 DEF ToSet, t
<1>4. ASSUME IsInjective(s), x \notin ToSet(s) PROVE IsInjective(t)
  <2>1. \A i \in 1..Len(s) : s[i] # x
    BY <1>2, <1>4 DEF ToSet
  <2>2. /\ Len(s) \in Nat /\ t[Len(s) + 1] = x /\ \A i \in 1..Len(s) : t[i] = s[i]
        /\ DOMAIN t = 1..(Len(s) + 1) /\ DOMAIN s = 1..Len(s)
    BY <1>1, <1>2 DEF t
  <2>3. \A i \in 1..(Len(s) + 1) : i \in 1..Len(s) \/ i = Len(s) + 1
    BY <2>2
  <2>4. \A i, j \in 1..(Len(s) + 1) : t[i] = t[j] => i = j
    BY <1>4, <2>1, <2>2, <2>3 DEF IsInjective
  <2> QED
    BY <2>2, <2>4 DEF IsInjective
<1> QED
  BY <1>1, <1>3, <1>4 DEF t

AllIn(s, n, S) == \A j \in 1..n : s[j] \in S

TailTyped(s, n, i, S) ==
  /\ SubSeq(s, i + 1, n) \in Seq(S) /\ Len(SubSeq(s, i + 1, n)) = n - i
  /\ \A j \in 1..(n - i) : SubSeq(s, i + 1, n)[j] = s[i + j]

LEMMA TailOf ==
  ASSUME NEW S, NEW s, NEW n \in Nat, NEW i \in 1..n, AllIn(s, n, S)
  PROVE  TailTyped(s, n, i, S)
  BY DEF AllIn, TailTyped

LEMMA MemberOf == ASSUME NEW S, NEW s \in Seq(S), NEW i \in 1..Len(s) PROVE s[i] \in S
  OBVIOUS

LEMMA OneLess ==
  ASSUME NEW S, NEW s \in Seq(S), NEW i \in 1..Len(s)
  PROVE  /\ RemoveAt(s, i) \in Seq(S) /\ Len(RemoveAt(s, i)) < Len(s)
         /\ ToSet(RemoveAt(s, i)) \subseteq ToSet(s)
         /\ ToSet(s) \subseteq ToSet(RemoveAt(s, i)) \cup {s[i]}
         /\ IsInjective(s) => IsInjective(RemoveAt(s, i)) /\ s[i] \notin ToSet(RemoveAt(s, i))
<1> DEFINE a == SubSeq(s, 1, i - 1)
           b == SubSeq(s, i + 1, Len(s))
           t == a \o b
<1>0. /\ Len(s) \in Nat /\ i \in Nat /\ i > 0 /\ i <= Len(s) /\ DOMAIN s = 1..Len(s)
      /\ \A j \in 1..Len(s) : s[j] \in S
  OBVIOUS
<1>1. /\ a \in Seq(S) /\ Len(a) = i - 1 /\ \A j \in 1..(i - 1) : a[j] = s[j]
      /\ b \in Seq(S) /\ Len(b) = Len(s) - i /\ \A j \in 1..(Len(s) - i) : b[j] = s[i + j]
      /\ Len(s) \in Nat /\ i \in Nat /\ i > 0 /\ DOMAIN s = 1..Len(s)
  <2>1. a \in Seq(S) /\ Len(a) = i - 1 /\ \A j \in 1..(i - 1) : a[j] = s[j]
    BY <1>0
  <2>2. /\ b \in Seq(S) /\ Len(b) = Len(s) - i
        /\ \A j \in 1..(Len(s) - i) : b[j] = s[i + j]
    <3>1. Len(s) \in Nat /\ i \in 1..Len(s) /\ AllIn(s, Len(s), S)
      BY <1>0, Zenon DEF AllIn
    <3>2. TailTyped(s, Len(s), i, S)
      BY ONLY <3>1, TailOf, Zenon
    <3> QED
      BY <3>2, Zenon DEF b, TailTyped
  <2> QED
    BY <1>0, <2>1, <2>2
<1> HIDE DEF a, b
<1>2. /\ t \in Seq(S) /\ Len(t) = Len(a) + Len(b) /\ DOMAIN t = 1..Len(t)
      /\ \A j \in 1..Len(t) : t[j] = IF j <= Len(a) THEN a[j] ELSE b[j - Len(a)]
  <2>1. a \in Seq(S) /\ b \in Seq(S)
    BY <1>1
  <2>2. /\ t \in Seq(S) /\ Len(t) = Len(a) + Len(b)
        /\ \A j \in 1..Len(t) : t[j] = IF j <= Len(a) THEN a[j] ELSE b[j - Len(a)]
    <3>1. t = a \o b
      OBVIOUS
    <3> HIDE DEF t
    <3> QED
      BY ONLY <2>1, <3>1, Joined
  <2> HIDE DEF t
  <2> QED
    BY <2>2
<1> HIDE DEF t
<1>3. Len(t) = Len(s) - 1 /\ \A j \in 1..Len(t) : t[j] = IF j < i THEN s[j] ELSE s[j + 1]
  <2>1. Len(t) = Len(s) - 1
    BY <1>1, <1>2
  <2>2. ASSUME NEW j \in 1..Len(t) PROVE t[j] = IF j < i THEN s[j] ELSE s[j + 1]
    <3>1. CASE j < i
      <4>1. j \in 1..(i - 1) /\ j <= Len(a)
        BY <1>1, <1>2, <3>1
      <4> QED
        BY <1>1, <1>2, <3>1, <4>1
    <3>2. CASE ~(j < i)
      <4>1. ~(j <= Len(a)) /\ j - Len(a) \in 1..(Len(s) - i) /\ i + (j - Len(a)) = j + 1
        BY <1>1, <1>2, <2>1, <3>2
      <4> QED
        BY <1>1, <1>2, <3>2, <4>1
    <3> QED
      BY <3>1, <3>2
  <2> QED
    BY <2>1, <2>2
<1>4. ToSet(t) \subseteq ToSet(s)
  <2>1. ASSUME NEW j \in 1..Len(t) PROVE \E k \in 1..Len(s) : t[j] = s[k]
    <3>1. j \in 1..Len(s) /\ j + 1 \in 1..Len(s)
      BY <1>1, <1>3
    <3> QED
      BY <1>3, <3>1
  <2> QED
    BY <1>1, <1>2, <2>1 DEF ToSet
<1>5. ToSet(s) \subseteq ToSet(t) \cup {s[i]}
  <2>1. ASSUME NEW k \in 1..Len(s), k # i PROVE \E j \in 1..Len(t) : t[j] = s[k]
    <3>1. CASE k < i
      <4>1. k \in 1..Len(t)
        BY <1>1, <1>3, <3>1
      <4> QED
        BY <1>3, <3>1, <4>1
    <3>2. CASE k > i
      <4>1. k - 1 \in 1..Len(t) /\ ~(k - 1 < i) /\ (k - 1) + 1 = k
        BY <1>1, <1>3, <3>2
      <4> QED
        BY <1>3, <4>1
    <3> QED
      BY <1>1, <2>1, <3>1, <3>2
  <2>2. ToSet(s) = {s[k] : k \in 1..Len(s)} /\ ToSet(t) = {t[j] : j \in 1..Len(t)}
    BY <1>1, <1>2 DEF ToSet
  <2> QED
    BY <2>1, <2>2
<1>6. RemoveAt(s, i) = t
  BY DEF RemoveAt, t, a, b
<1>7. ASSUME IsInjective(s) PROVE IsInjective(t) /\ s[i] \notin ToSet(t)
  <2> DEFINE k(j) == IF j < i THEN j ELSE j + 1
  <2>1. \A j \in 1..Len(t) : k(j) \in 1..Len(s) /\ t[j] = s[k(j)] /\ k(j) # i
    BY <1>1, <1>3
  <2>2. \A j, l \in 1..Len(t) : k(j) = k(l) => j = l
    BY <1>1, <1>3
  <2>3. \A m, l \in 1..Len(s) : s[m] = s[l] => m = l
    BY <1>1, <1>7 DEF IsInjective
  <2> HIDE DEF k
  <2>4. IsInjective(t)
    BY <1>2, <2>1, <2>2, <2>3 DEF IsInjective
  <2>5. s[i] \notin ToSet(t)
    BY <1>2, <2>1, <2>3 DEF ToSet
  <2> QED
    BY <2>4, <2>5
<1> QED
  BY <1>1, <1>2, <1>3, <1>4, <1>5, <1>6, <1>7

\* What becomes of the list when session e leaves it.
Drops(s, t, S, e) ==
  /\ t \in Seq(S) /\ Len(t) <= Len(s)
  /\ t # s => Len(t) < Len(s)
  /\ ToSet(t) \subseteq ToSet(s) /\ ToSet(s) \subseteq ToSet(t) \cup {e}
  /\ IsInjective(s) => IsInjective(t) /\ e \notin ToSet(t)

LEMMA FirstLess ==
  ASSUME NEW S, NEW s \in Seq(S), NEW e
  PROVE  Drops(s, RemoveFirst(s, e), S, e)
<1>1. CASE \E i \in 1..Len(s) : s[i] = e
  <2> DEFINE I == {i \in 1..Len(s) : s[i] = e}
             m == SelectInSeq(s, LAMBDA v : v = e)
  <2>1. RemoveFirst(s, e) = RemoveAt(s, m)
    BY <1>1 DEF RemoveFirst
  <2>2. \E x \in I : \A y \in I : x <= y
    <3>1. I \subseteq Nat /\ I # {}
      BY <1>1
    <3> HIDE DEF I
    <3> QED
      BY <3>1, LeastNumber
  <2>3. m = Min(I)
    BY <1>1 DEF SelectInSeq
  <2>4. Min(I) \in I
    BY <2>2 DEF Min
  <2>5. m \in 1..Len(s) /\ s[m] = e
    BY <2>3, <2>4
  <2> HIDE DEF m
  <2> QED
    BY <2>1, <2>5, OneLess DEF Drops
<1>2. CASE ~\E i \in 1..Len(s) : s[i] = e
  <2>1. e \notin ToSet(s)
    BY <1>2 DEF ToSet
  <2> QED
    BY <1>2, <2>1 DEF RemoveFirst, Drops
<1> QED
  BY <1>1, <1>2

-----------------------------------------------------------------------------
(* The invariant holds at first.                                            *)

LEMMA InitEstablishes == Init => IInv
<1> SUFFICES ASSUME Init PROVE IInv
  OBVIOUS
<1>1. TypeOK
  <2>0. sessions \in Seq(Ids)
    <3>1. PICK m \in 0..PoolSize : sessions \in [1..m -> 1..PoolSize]
      BY DEF Init, SeqOf
    <3> QED
      BY <3>1
  <2>1. /\ alive \in [Ids -> BOOLEAN] /\ busy \in [Ids -> BOOLEAN]
        /\ overflow \in [Ids -> BOOLEAN]
    <3>1. \A s : (s \in Listed) \in BOOLEAN
      OBVIOUS
    <3>2. QED
      BY <3>1, Zenon DEF Init
  <2>2. arg \in [Callers -> ProofStates]
    BY NoStateTyped DEF Init, NoStateType
  <2>3. QED
    <3>1. /\ created \in 0..MaxSessions
          /\ process \in [Ids -> Nat] /\ states \in [Ids -> Nat]
      BY DEF Init
    <3>2. pc \in [Callers -> Places] /\ use \in [Callers -> 0..MaxSessions]
      BY DEF Init
    <3>3. handles \subseteq ProofStates /\ lost \subseteq Ids /\ stopping \in BOOLEAN
          /\ bound \in BOOLEAN /\ crossed \in BOOLEAN
      BY Zenon DEF Init
    <3>4. first \subseteq Callers /\ index \in [Callers -> Nat]
      BY DEF Init
    <3>5. QED
      BY <2>0, <2>1, <2>2, <3>1, <3>2, <3>3, <3>4 DEF TypeOK
<1>2. Listed \subseteq 1..PoolSize
  <2>1. PICK m \in 0..PoolSize : sessions \in [1..m -> 1..PoolSize]
    BY DEF Init, SeqOf
  <2> QED
    BY <2>1 DEF Listed, ToSet
<1>3. OneHolder /\ OneUserPerSession /\ PlaceInv
  BY DEF Init, OneHolder, OneUserPerSession, PlaceInv, Using
<1>6. \A s \in Ids : ~overflow[s] /\ ~busy[s] /\ (s \in Listed <=> alive[s])
  <2>1. overflow = [s \in Ids |-> FALSE] /\ busy = [s \in Ids |-> FALSE]
        /\ alive = [s \in Ids |-> s \in Listed]
    BY DEF Init
  <2> QED
    BY <2>1, Zenon
<1>7. Listed \subseteq Ids
  BY <1>2
<1>8. BusyAccounted /\ OverflowTemporary
  BY <1>6, <1>7 DEF Init, BusyAccounted, OverflowTemporary, Using
<1>9. IsInjective(sessions)
  <2>1. \A i, j \in DOMAIN sessions : i \in Int /\ j \in Int
    BY <1>1 DEF TypeOK
  <2>2. \A i \in DOMAIN sessions : sessions[i] \in Int
    BY <1>1 DEF TypeOK
  <2>3. QED
    BY <2>1, <2>2 DEF Init, IsInjective
<1>4. HolderInv
  BY <1>2, <1>6, <1>9 DEF Init, HolderInv
<1>5. QED
  BY <1>1, <1>3, <1>4, <1>8 DEF IInv

-----------------------------------------------------------------------------
(* Types.                                                                   *)

LEMMA ReturnTyped ==
  ASSUME TypeOK, NEW c \in Callers, Return(c)
  PROVE  /\ pc' \in [Callers -> Places] /\ use' \in [Callers -> 0..MaxSessions]
         /\ arg' \in [Callers -> ProofStates]
         /\ first' \subseteq Callers /\ index' \in [Callers -> Nat]
<1>1. pc' \in [Callers -> Places]
  BY DEF TypeOK, Return, Goto
<1>2. use' \in [Callers -> 0..MaxSessions]
  BY DEF TypeOK, Return
<1>3. arg' \in [Callers -> ProofStates]
  BY NoStateTyped DEF NoStateType, TypeOK, Return
<1>4. first' \subseteq Callers /\ index' \in [Callers -> Nat]
  BY DEF TypeOK, Return
<1>5. QED
  BY <1>1, <1>2, <1>3, <1>4

LEMMA TypePreserved == IInv /\ [Next]_vars => TypeOK'
<1> SUFFICES ASSUME IInv, [Next]_vars PROVE TypeOK'
  OBVIOUS
<1> USE DEF IInv, TypeOK, flagVars, sessionVars, lockVars
<1>1. CASE UNCHANGED vars
  BY <1>1 DEF vars
<1>2. ASSUME NEW c \in Callers, Call(c) PROVE TypeOK'
  BY <1>2 DEF Call, Goto
<1>3. ASSUME NEW c \in Callers, CallTactic(c) PROVE TypeOK'
  <2>1. PICK h \in handles : /\ arg' = [arg EXCEPT ![c] = h]
                             /\ use' = [use EXCEPT ![c] = h.session]
    BY <1>3 DEF CallTactic
  <2>2. h \in ProofStates /\ h.session \in 0..MaxSessions
    BY DEF ProofStates
  <2>3. arg' \in [Callers -> ProofStates] /\ use' \in [Callers -> 0..MaxSessions]
    BY <2>1, <2>2
  <2>4. pc' \in [Callers -> Places]
    BY <1>3 DEF CallTactic, Goto
  <2>5. /\ UNCHANGED <<sessions, created, sessionVars, flagVars, handles, stopping, first,
                       index, lost, crossed>>
        /\ bound' = TRUE
    BY <1>3 DEF CallTactic
  <2>6. QED
    BY <2>3, <2>4, <2>5
<1>4. ASSUME NEW c \in Callers, Acquire(c) PROVE TypeOK'
  <2>1. PICK i \in DOMAIN sessions : Take(c, sessions[i])
    BY <1>4 DEF Acquire
  <2>2. sessions[i] \in Ids
    BY <2>1
  <2>3. /\ pc' \in [Callers -> Places] /\ use' \in [Callers -> 0..MaxSessions]
    BY <2>1, <2>2 DEF Take, Goto
  <2>4. busy' \in [Ids -> BOOLEAN]
    BY <2>1, Zenon DEF Take
  <2>5. QED
    BY <1>4, <2>3, <2>4 DEF Acquire
<1>5. ASSUME NEW c \in Callers, StartOverflow(c) PROVE TypeOK'
  BY <1>5 DEF StartOverflow, Goto
<1>6. ASSUME NEW c \in Callers, OverflowStarted(c) PROVE TypeOK'
  <2>1. use[c] \in Ids
    BY <1>6 DEF OverflowStarted, HolderInv
  <2>2. alive' \in [Ids -> BOOLEAN] /\ overflow' \in [Ids -> BOOLEAN]
    BY <1>6, <2>1, Zenon DEF OverflowStarted
  <2>3. busy' \in [Ids -> BOOLEAN]
    BY <1>6, <2>1, Zenon DEF OverflowStarted, Take
  <2>4. /\ process' \in [Ids -> Nat] /\ pc' \in [Callers -> Places]
        /\ use' \in [Callers -> 0..MaxSessions] /\ sessions' \in Seq(Ids)
    BY <1>6, <2>1, OneMore DEF OverflowStarted, Take, Goto
  <2>5. UNCHANGED <<created, states, arg, handles, stopping, lockVars, index, lost, crossed>>
    BY <1>6 DEF OverflowStarted
  <2>6. QED
    BY <2>2, <2>3, <2>4, <2>5
<1>7. ASSUME NEW c \in Callers, AcquireSpecific(c) PROVE TypeOK'
  BY <1>7 DEF AcquireSpecific, Take, Goto
<1>8. ASSUME NEW c \in Callers, GiveUp(c) PROVE TypeOK'
  BY <1>8, ReturnTyped DEF GiveUp
<1>9. ASSUME NEW c \in Callers, Finish(c) PROVE TypeOK'
  <2>1. use[c] \in Ids /\ process[use[c]] \in Nat /\ states[use[c]] \in Nat
    BY <1>9 DEF Finish, HolderInv
  <2>2. [session |-> use[c], process |-> process[use[c]], number |-> states[use[c]]]
          \in ProofStates
    BY <2>1 DEF ProofStates
  <2>3. \/ states' = states /\ handles' = handles
        \/ /\ states' = [states EXCEPT ![use[c]] = @ + 1]
           /\ handles' = handles \cup {[session |-> use[c], process |-> process[use[c]],
                                        number |-> states[use[c]]]}
    BY <1>9 DEF Finish
  <2>7. states' \in [Ids -> Nat]
    <3>1. states' = states \/ states' = [states EXCEPT ![use[c]] = @ + 1]
      BY <2>3
    <3>2. states \in [Ids -> Nat]
      OBVIOUS
    <3>3. QED
      BY ONLY <2>1, <3>1, <3>2, SMT
  <2>8. handles' \subseteq ProofStates
    BY <2>2, <2>3, Zenon
  <2>4. pc' \in [Callers -> Places]
    BY <1>9 DEF Finish, Goto
  <2>5. UNCHANGED <<sessions, created, alive, process, flagVars, arg, use, stopping, lockVars,
                    index, lost, crossed>>
    BY <1>9 DEF Finish
  <2>6. QED
    BY <2>4, <2>5, <2>7, <2>8
<1>10. ASSUME NEW c \in Callers, Release(c) PROVE TypeOK'
  <2>1. busy' \in [Ids -> BOOLEAN]
    BY <1>10, Zenon DEF Release, Freed
  <2>2. alive' \in [Ids -> BOOLEAN]
    BY <1>10, Zenon DEF Release, AfterRelease
  <2>3. /\ pc' \in [Callers -> Places] /\ use' \in [Callers -> 0..MaxSessions]
        /\ arg' \in [Callers -> ProofStates]
        /\ first' \subseteq Callers /\ index' \in [Callers -> Nat]
    BY <1>10, ReturnTyped DEF Release, AfterRelease, Goto
  <2>4. UNCHANGED <<sessions, created, process, states, overflow, handles, stopping, bound, lost,
                    crossed>>
    BY <1>10 DEF Release
  <2>5. QED
    BY <2>1, <2>2, <2>3, <2>4
<1>11. ASSUME NEW c \in Callers, Closed(c) PROVE TypeOK'
  <2>1. sessions' \in Seq(Ids)
    <3>1. sessions' = RemoveFirst(sessions, use[c]) /\ sessions \in Seq(Ids)
      BY <1>11 DEF Closed
    <3> DEFINE S == Ids
               e == use[c]
    <3>2. sessions \in Seq(S)
      BY <3>1
    <3> HIDE DEF S, e
    <3>3. Drops(sessions, RemoveFirst(sessions, e), S, e)
      BY ONLY <3>2, FirstLess
    <3>4. RemoveFirst(sessions, e) \in Seq(S)
      BY ONLY <3>3 DEF Drops
    <3> QED
      BY ONLY <3>1, <3>4 DEF S, e
  <2>2. crossed' \in BOOLEAN
    BY <1>11, Zenon DEF Closed, Crosses
  <2>3. QED
    BY <1>11, <2>1, <2>2, ReturnTyped DEF Closed
<1>12. ASSUME NEW c \in Callers, Cancel(c) PROVE TypeOK'
  <2>1. /\ pc' \in [Callers -> Places] /\ use' \in [Callers -> 0..MaxSessions]
        /\ arg' \in [Callers -> ProofStates]
        /\ first' \subseteq Callers /\ index' \in [Callers -> Nat]
    <3>1. CASE pc[c] = "using"
      BY <1>12, <3>1 DEF Cancel, Goto
    <3>2. CASE pc[c] # "using"
      BY <1>12, <3>2, ReturnTyped DEF Cancel
    <3>3. QED
      BY <3>1, <3>2
  <2>2. alive' \in [Ids -> BOOLEAN]
    BY <1>12, Zenon DEF Cancel
  <2>3. lost' \subseteq Ids
    BY <1>12 DEF Cancel, HolderInv
  <2>4. UNCHANGED <<sessions, created, process, states, flagVars, handles, stopping, bound,
                    crossed>>
    BY <1>12 DEF Cancel
  <2>5. QED
    BY <2>1, <2>2, <2>3, <2>4
<1>13. ASSUME NEW c \in Callers, AddSession(c) PROVE TypeOK'
  BY <1>13 DEF AddSession, Enter, Goto
<1>14. ASSUME NEW c \in Callers, Added(c) PROVE TypeOK'
  <2>1. use[c] \in Ids
    BY <1>14 DEF Added, HolderInv
  <2>2. alive' \in [Ids -> BOOLEAN]
    BY <1>14, <2>1, Zenon DEF Added
  <2>3. sessions' \in Seq(Ids) /\ process' \in [Ids -> Nat]
    <3>1. \/ /\ sessions' = Append(sessions, use[c])
             /\ process' = [process EXCEPT ![use[c]] = 1]
          \/ sessions' = sessions /\ process' = process
      BY <1>14, Zenon DEF Added
    <3>0. use[c] \in Ids
      BY <2>1
    <3>2. sessions \in Seq(Ids) /\ process \in [Ids -> Nat]
      OBVIOUS
    <3>3. sessions' \in Seq(Ids)
      <4>1. CASE sessions' = Append(sessions, use[c])
        BY ONLY <3>0, <3>2, <4>1
      <4>2. QED
        BY <3>1, <3>2, <4>1, Zenon
    <3>4. process' \in [Ids -> Nat]
      BY ONLY <2>1, <3>1, <3>2, SMT
    <3>5. QED
      BY <3>3, <3>4
  <2>4. /\ pc' \in [Callers -> Places] /\ use' \in [Callers -> 0..MaxSessions]
        /\ arg' \in [Callers -> ProofStates]
        /\ first' \subseteq Callers /\ index' \in [Callers -> Nat]
    BY <1>14, ReturnTyped DEF Added
  <2>5. UNCHANGED <<created, states, flagVars, handles, stopping, bound, lost, crossed>>
    BY <1>14 DEF Added
  <2>6. QED
    BY <2>2, <2>3, <2>4, <2>5
<1>15. ASSUME NEW c \in Callers, RemoveIdle(c) PROVE TypeOK'
  <2>0. DOMAIN sessions = 1..Len(sessions)
    OBVIOUS
  <2>1. PICK i \in 1..Len(sessions) : /\ use' = [use EXCEPT ![c] = sessions[i]]
                                      /\ index' = [index EXCEPT ![c] = i]
                                      /\ alive' = [alive EXCEPT ![sessions[i]] = FALSE]
    BY <1>15, <2>0 DEF RemoveIdle
  <2>2. i \in Nat /\ sessions[i] \in 0..MaxSessions
    <3>1. sessions \in Seq(Ids) /\ i \in 1..Len(sessions)
      OBVIOUS
    <3>2. sessions[i] \in Ids
      BY ONLY <3>1, MemberOf
    <3>3. i \in Nat
      BY ONLY <3>1
    <3> QED
      BY <3>2, <3>3, PoolSizeAssumption DEF Ids
  <2>3. use' \in [Callers -> 0..MaxSessions]
    BY <2>1, <2>2
  <2>8. index' \in [Callers -> Nat]
    BY <2>1, <2>2
  <2>4. alive' \in [Ids -> BOOLEAN]
    BY <2>1, Zenon
  <2>5. pc' \in [Callers -> Places] /\ first' \subseteq Callers
    BY <1>15 DEF RemoveIdle, Enter, Goto
  <2>6. UNCHANGED <<sessions, created, process, states, flagVars, arg, handles, stopping, bound,
                    lost, crossed>>
    BY <1>15 DEF RemoveIdle
  <2>7. QED
    BY <2>3, <2>4, <2>5, <2>6, <2>8
<1>16. ASSUME NEW c \in Callers, Removed(c) PROVE TypeOK'
  <2>1. sessions' \in Seq(Ids)
    <3>1. /\ sessions \in Seq(Ids)
          /\ \/ sessions' = sessions
             \/ /\ index[c] \in 1..Len(sessions)
                /\ sessions' = RemoveAt(sessions, index[c])
      BY <1>16 DEF Removed, Popped
    <3> QED
      BY ONLY <3>1, OneLess
  <2>2. crossed' \in BOOLEAN
    BY <1>16, Zenon DEF Removed, Crosses
  <2>3. QED
    BY <1>16, <2>1, <2>2, ReturnTyped DEF Removed
<1>17. ASSUME NEW s \in Ids, TransportRestarts(s) PROVE TypeOK'
  BY <1>17 DEF TransportRestarts
<1>18. ASSUME NEW s \in Ids, TransportGivesUp(s) PROVE TypeOK'
  BY <1>18 DEF TransportGivesUp
<1>19. CASE Shutdown
  BY <1>19 DEF Shutdown
<1>20. CASE ShutdownEnds
  <2>1. crossed' \in BOOLEAN
    BY <1>20, Zenon DEF ShutdownEnds, Crosses
  <2>2. <<>> \in Seq(Ids)
    OBVIOUS
  <2>3. UNCHANGED <<created, alive, process, states, busy, overflow, pc, arg, use, handles, bound,
                    first, index, lost>> /\ stopping' = FALSE /\ sessions' = <<>>
    BY <1>20 DEF ShutdownEnds
  <2>4. QED
    BY <2>1, <2>2, <2>3
<1>21. ASSUME NEW c \in Callers, NEW place \in {"toAdd", "toRemove"}, Queue(c, place)
       PROVE  TypeOK'
  BY <1>21 DEF Queue, Goto
<1>22. ASSUME NEW c \in Callers, NothingIdle(c) PROVE TypeOK'
  BY <1>22, ReturnTyped DEF NothingIdle
<1>23. QED
  BY <1>1, <1>2, <1>3, <1>4, <1>5, <1>6, <1>7, <1>8, <1>9, <1>10, <1>11, <1>12, <1>13,
     <1>14, <1>15, <1>16, <1>17, <1>18, <1>19, <1>20, <1>21, <1>22 DEF Next, Step
-----------------------------------------------------------------------------
(* The lock, the users and the flags.                                       *)

FlowInv ==
  /\ OneHolder
  /\ OneUserPerSession
  /\ BusyAccounted
  /\ OverflowTemporary
  /\ HolderInv

\* What a step does to the place and the session of every task but c.
Others(c) == \A d \in Callers \ {c} : pc'[d] = pc[d] /\ use'[d] = use[d]

\* What a step of c leaves to the tasks that hold a lock.
HoldersStay(c) ==
  /\ Others(c) /\ created' >= created
  /\ \A s \in Ids : s > created' => ~busy'[s] /\ ~overflow'[s] /\ ~alive'[s] /\ s \notin Listed'
  /\ \A h \in handles' : h.session \in Ids /\ h.session <= created'
  /\ \A d \in Callers \ {c} : pc[d] \in Holders =>
       /\ ~busy'[use[d]] /\ ~alive'[use[d]]
       /\ overflow'[use[d]] <=> overflow[use[d]]
       /\ use[d] \notin Listed => use[d] \notin Listed'
       /\ pc'[c] \in Holders => use[d] # use'[c]
  /\ pc'[c] \notin {"idle", "waiting", "toAdd", "toRemove"} => use'[c] \in Ids /\ use'[c] <= created'
  /\ pc'[c] \in Holders => ~busy'[use'[c]] /\ ~alive'[use'[c]]
  /\ pc'[c] \in {"starting", "adding"} => ~overflow'[use'[c]] /\ use'[c] \notin Listed'
  /\ IsInjective(sessions')

LEMMA HoldersKeep == ASSUME IInv, TypeOK', NEW c \in Callers, HoldersStay(c) PROVE HolderInv'
<1> USE DEF IInv, HoldersStay, Others
<1>1. \A d \in Callers : pc'[d] \notin {"idle", "waiting", "toAdd", "toRemove"}
                         => use'[d] \in Ids /\ use'[d] <= created'
  <2>1. created \in Nat /\ created' \in Nat /\ created' >= created
    BY DEF TypeOK
  <2>2. \A d \in Callers : pc[d] \notin {"idle", "waiting", "toAdd", "toRemove"}
                           => use[d] \in Ids /\ use[d] <= created
    BY DEF HolderInv
  <2>3. \A d \in Callers \ {c} : pc'[d] = pc[d] /\ use'[d] = use[d]
    OBVIOUS
  <2>4. pc'[c] \notin {"idle", "waiting", "toAdd", "toRemove"} => use'[c] \in Ids /\ use'[c] <= created'
    OBVIOUS
  <2>5. QED
    BY ONLY <2>1, <2>2, <2>3, <2>4
<1>2. \A d \in Callers : pc'[d] \in Holders => ~busy'[use'[d]] /\ ~alive'[use'[d]]
  OBVIOUS
<1>3. \A d, e \in Callers : pc'[d] \in Holders /\ pc'[e] \in Holders /\ d # e => use'[d] # use'[e]
  BY DEF HolderInv
<1>4. \A d \in Callers : pc'[d] \in {"starting", "adding"}
                           => ~overflow'[use'[d]] /\ use'[d] \notin Listed'
  BY DEF HolderInv
<1>5. QED
  BY <1>1, <1>2, <1>3, <1>4 DEF HolderInv

\* What a step of c leaves to the two locks.
LocksStay(c) ==
  /\ Others(c) /\ first' \ {c} = first \ {c}
  /\ \/ pc'[c] \notin Holders
     \/ pc[c] \in Holders /\ (c \in first' <=> c \in first)
     \/ LockFree(c \in first')
  /\ c \in first' => pc'[c] \in {"toAdd", "toRemove", "adding", "removing"}

LEMMA LocksKeep == ASSUME IInv, NEW c \in Callers, LocksStay(c) PROVE OneHolder'
<1> USE DEF IInv, LocksStay, Others, OneHolder, LockFree
<1>1. \A d \in Callers \ {c} : (d \in first' <=> d \in first) /\ pc'[d] = pc[d]
  BY Zenon
<1>2. ASSUME NEW d \in Callers \ {c}, pc'[c] \in Holders, pc[d] \in Holders
      PROVE  c \in first' <=> d \notin first'
  BY <1>1, <1>2
<1>3. \A d, e \in Callers : pc'[d] \in Holders /\ pc'[e] \in Holders /\ d # e
                              => (d \in first' <=> e \notin first')
  BY <1>1, <1>2
<1>4. \A d \in first' : pc'[d] \in {"toAdd", "toRemove", "adding", "removing"}
  <2>1. first \subseteq Callers
    BY DEF TypeOK
  <2>2. QED
    BY <1>1, <2>1
<1>5. QED
  BY <1>3, <1>4

\* A task that is not in the first Condition's call is in no list of it.
LEMMA NotFirst ==
  ASSUME IInv, NEW c \in Callers, pc[c] \notin {"toAdd", "toRemove", "adding", "removing"}
  PROVE  c \notin first
BY DEF IInv, OneHolder

\* A step after which the same tasks use and close the same sessions.
SameUse(c) ==
  /\ busy' = busy /\ overflow' = overflow /\ lost' = lost /\ Listed' \subseteq Listed
  /\ Others(c)
  /\ \/ pc[c] = "using" /\ pc'[c] = "releasing" /\ use'[c] = use[c]
     \/ pc[c] \notin {"using", "releasing", "closing"} /\ pc'[c] \notin {"using", "releasing"}

LEMMA SameUseKeeps ==
  ASSUME IInv, NEW c \in Callers, SameUse(c)
  PROVE  OneUserPerSession' /\ BusyAccounted' /\ OverflowTemporary'
<1> USE DEF IInv, SameUse, Others, Using
<1>1. OneUserPerSession'
  BY DEF OneUserPerSession
<1>2. BusyAccounted'
  <2>1. \A d \in Callers : Using(d)' => busy'[use'[d]]
    BY DEF BusyAccounted
  <2>2. ASSUME NEW s \in Ids, busy[s], s \notin lost
        PROVE  \E d \in Callers : Using(d)' /\ use'[d] = s
    BY <2>2 DEF BusyAccounted
  <2>3. QED
    BY <2>1, <2>2 DEF BusyAccounted
<1>3. OverflowTemporary'
  <2>1. ASSUME NEW s \in Listed, overflow[s], s \notin lost
        PROVE  \E d \in Callers : (Using(d)' \/ pc'[d] = "closing") /\ use'[d] = s
    BY <2>1 DEF OverflowTemporary
  <2>2. QED
    BY <2>1, Zenon DEF OverflowTemporary
<1>4. QED
  BY <1>1, <1>2, <1>3

\* A step by which the task c takes a session nobody uses.
TakesFree(c, r) ==
  /\ ~busy[r] /\ alive[r] /\ r \in Ids /\ r <= created
  /\ pc[c] \in {"waiting", "waitingFor"}
  /\ pc'[c] = "using" /\ use'[c] = r /\ Others(c)
  /\ busy' = [busy EXCEPT ![r] = TRUE]
  /\ UNCHANGED <<sessions, created, alive, overflow, handles, lost, first>>

LEMMA TakesFreeKeeps ==
  ASSUME IInv, TypeOK', NEW c \in Callers, NEW r \in Ids, TakesFree(c, r)
  PROVE  FlowInv'
<1> USE DEF IInv, TakesFree, Others, Using
<1>0. Listed' = Listed
  BY DEF Listed
<1>1. OneHolder'
  BY NotFirst, LocksKeep DEF LocksStay
<1>2. \A d \in Callers : Using(d) => use[d] # r
  BY DEF BusyAccounted
<1>3. OneUserPerSession'
  BY <1>2 DEF OneUserPerSession
<1>4. busy'[r] /\ \A s \in Ids \ {r} : busy'[s] = busy[s]
  BY Zenon DEF TypeOK
<1>5. BusyAccounted'
  <2>1. \A d \in Callers : Using(d)' => busy'[use'[d]]
    BY <1>2, <1>4 DEF BusyAccounted, HolderInv
  <2>2. ASSUME NEW s \in Ids, busy'[s], s \notin lost
        PROVE  \E d \in Callers : Using(d)' /\ use'[d] = s
    BY <1>4, <2>2 DEF BusyAccounted
  <2>3. QED
    BY <2>1, <2>2 DEF BusyAccounted
<1>6. OverflowTemporary'
  <2>1. ASSUME NEW s \in Listed, overflow[s], s \notin lost
        PROVE  \E d \in Callers : (Using(d)' \/ pc'[d] = "closing") /\ use'[d] = s
    BY <2>1 DEF OverflowTemporary
  <2>2. QED
    BY <1>0, <2>1 DEF OverflowTemporary
<1>7. HolderInv'
  <2>1. ASSUME NEW s \in Ids, s > created
        PROVE  ~busy'[s] /\ ~overflow[s] /\ ~alive[s] /\ s \notin Listed
    <3>1. s # r
      BY <2>1 DEF TypeOK
    <3>2. QED
      BY <1>4, <2>1, <3>1 DEF HolderInv
  <2>2. ASSUME NEW d \in Callers \ {c}, pc[d] \in Holders
        PROVE  use[d] # r /\ ~busy'[use[d]] /\ ~alive[use[d]]
    BY <1>4, <2>2 DEF HolderInv
  <2>3. created' >= created
    BY DEF TypeOK
  <2>4. IsInjective(sessions')
    BY DEF HolderInv
  <2>5. QED
    BY <1>0, <2>1, <2>2, <2>3, <2>4, HoldersKeep DEF HoldersStay, HolderInv
<1>8. QED
  BY <1>1, <1>3, <1>5, <1>6, <1>7 DEF FlowInv

\* A step of c by which it begins or ends a wait, or is to hold a lock; the sessions stay
\* as they are, but for one that is closed or constructed.
Quiet(c) ==
  /\ Others(c) /\ UNCHANGED <<sessions, busy, overflow, lost, handles>>
  /\ pc[c] \notin {"using", "releasing", "closing"} /\ pc'[c] \notin {"using", "releasing"}
  /\ created' >= created
  /\ \A s \in Ids : alive'[s] => alive[s]
  /\ pc'[c] \notin {"idle", "waiting", "toAdd", "toRemove"} => use'[c] \in Ids /\ use'[c] <= created'
  /\ pc'[c] \in Holders => /\ ~busy[use'[c]] /\ ~alive'[use'[c]]
                           /\ alive[use'[c]] \/ use'[c] > created
  /\ pc'[c] \in {"starting", "adding"} => ~overflow[use'[c]] /\ use'[c] \notin Listed

LEMMA QuietStep ==
  ASSUME IInv, TypeOK', NEW c \in Callers, Quiet(c), LocksStay(c)
  PROVE  FlowInv'
<1>1. Listed' = Listed
  BY DEF Quiet, Listed
<1>2. SameUse(c)
  BY <1>1 DEF Quiet, SameUse
<1>3. HoldersStay(c)
  <2>1. ASSUME NEW d \in Callers \ {c}, pc[d] \in Holders
        PROVE  /\ ~busy[use[d]] /\ ~alive'[use[d]] /\ use[d] \in Ids /\ use[d] <= created
               /\ ~alive[use[d]]
    BY <2>1 DEF Quiet, IInv, HolderInv
  <2>2. ASSUME NEW d \in Callers \ {c}, pc[d] \in Holders, pc'[c] \in Holders
        PROVE  use[d] # use'[c]
    <3>1. created \in Nat /\ (alive[use'[c]] \/ use'[c] > created)
      BY <2>2 DEF Quiet, IInv, TypeOK
    <3>2. ~alive[use[d]] /\ use[d] \in Ids /\ use[d] <= created
      BY <2>1, <2>2
    <3>3. QED
      BY ONLY <3>1, <3>2
  <2>3. created \in Nat /\ created' \in Nat
    BY DEF IInv, TypeOK
  <2>4. \A s \in Ids : s > created' => ~busy[s] /\ ~overflow[s] /\ ~alive'[s] /\ s \notin Listed
    BY <2>3 DEF Quiet, IInv, HolderInv
  <2>5. \A h \in handles : h.session \in Ids /\ h.session <= created'
    BY <2>3 DEF Quiet, IInv, HolderInv
  <2>6. IsInjective(sessions')
    BY DEF Quiet, IInv, HolderInv
  <2>7. QED
    BY <1>1, <2>1, <2>2, <2>4, <2>5, <2>6 DEF Quiet, HoldersStay
<1>4. QED
  BY <1>2, <1>3, SameUseKeeps, HoldersKeep, LocksKeep DEF FlowInv

LEMMA CallKeeps ==
  ASSUME IInv, TypeOK', NEW c \in Callers, Call(c)
  PROVE  FlowInv'
<1> USE DEF IInv, TypeOK, flagVars, sessionVars, lockVars, Call, Goto
<1>1. Quiet(c)
  BY DEF Quiet, Others
<1>2. LocksStay(c)
  BY NotFirst DEF LocksStay, Others
<1>3. QED
  BY <1>1, <1>2, QuietStep

LEMMA CallTacticKeeps ==
  ASSUME IInv, TypeOK', NEW c \in Callers, CallTactic(c)
  PROVE  FlowInv'
<1> USE DEF IInv, TypeOK, flagVars, sessionVars, lockVars, CallTactic, Goto
<1>1. Quiet(c)
  BY DEF Quiet, Others, HolderInv
<1>2. LocksStay(c)
  BY NotFirst DEF LocksStay, Others
<1>3. QED
  BY <1>1, <1>2, QuietStep

LEMMA QueueKeeps ==
  ASSUME IInv, TypeOK', NEW c \in Callers, NEW place \in {"toAdd", "toRemove"}, Queue(c, place)
  PROVE  FlowInv'
<1> USE DEF IInv, TypeOK, flagVars, sessionVars, lockVars, Queue, Goto
<1>1. Quiet(c)
  BY DEF Quiet, Others
<1>2. LocksStay(c)
  BY DEF LocksStay, Others
<1>3. QED
  BY <1>1, <1>2, QuietStep

LEMMA NothingIdleKeeps ==
  ASSUME IInv, TypeOK', NEW c \in Callers, NothingIdle(c)
  PROVE  FlowInv'
<1> USE DEF IInv, TypeOK, flagVars, sessionVars, lockVars, NothingIdle, Return, Goto
<1>1. Quiet(c)
  BY DEF Quiet, Others
<1>2. LocksStay(c)
  BY DEF LocksStay, Others
<1>3. QED
  BY <1>1, <1>2, QuietStep

LEMMA GiveUpKeeps ==
  ASSUME IInv, TypeOK', NEW c \in Callers, GiveUp(c)
  PROVE  FlowInv'
<1> USE DEF IInv, TypeOK, flagVars, sessionVars, lockVars, GiveUp, Return, Goto
<1>1. Quiet(c)
  BY DEF Quiet, Others
<1>2. LocksStay(c)
  BY NotFirst DEF LocksStay, Others
<1>3. QED
  BY <1>1, <1>2, QuietStep

LEMMA StartOverflowKeeps ==
  ASSUME IInv, TypeOK', NEW c \in Callers, StartOverflow(c)
  PROVE  FlowInv'
<1>1. /\ pc[c] = "waiting" /\ pc' = [pc EXCEPT ![c] = "starting"]
      /\ created < MaxSessions /\ created' = created + 1
      /\ use' = [use EXCEPT ![c] = created + 1]
      /\ UNCHANGED <<sessions, alive, busy, overflow, handles, lost, first>> /\ LockFree(FALSE)
  BY DEF StartOverflow, Goto, sessionVars, flagVars, lockVars
<1>2. /\ created \in Nat /\ created + 1 \in Ids /\ created + 1 > created
      /\ pc \in [Callers -> Places] /\ use \in [Callers -> 0..MaxSessions]
  BY <1>1 DEF IInv, TypeOK
<1>3. /\ Others(c) /\ pc'[c] = "starting" /\ use'[c] = created + 1
  BY <1>1, <1>2 DEF Others
<1>4. ~busy[created + 1] /\ ~alive[created + 1] /\ ~overflow[created + 1]
      /\ created + 1 \notin Listed
  BY <1>2 DEF IInv, HolderInv
<1>5. Quiet(c)
  BY <1>1, <1>2, <1>3, <1>4 DEF Quiet
<1>6. LocksStay(c)
  <2>1. c \notin first
    BY <1>1, NotFirst
  <2>2. QED
    BY <1>1, <1>3, <2>1 DEF LocksStay, LockFree
<1>7. QED
  BY <1>5, <1>6, QuietStep

LEMMA AddSessionKeeps ==
  ASSUME IInv, TypeOK', NEW c \in Callers, AddSession(c)
  PROVE  FlowInv'
<1>1. /\ pc[c] \in {"idle", "toAdd"} /\ pc' = [pc EXCEPT ![c] = "adding"]
      /\ created < MaxSessions /\ created' = created + 1
      /\ use' = [use EXCEPT ![c] = created + 1]
      /\ UNCHANGED <<sessions, alive, busy, overflow, handles, lost>> /\ LockFree(Old(c))
      /\ first' = IF Old(c) THEN first \cup {c} ELSE first
  BY DEF AddSession, Enter, Goto, sessionVars, flagVars
<1>2. /\ created \in Nat /\ created + 1 \in Ids /\ created + 1 > created
      /\ pc \in [Callers -> Places] /\ use \in [Callers -> 0..MaxSessions]
  BY <1>1 DEF IInv, TypeOK
<1>3. /\ Others(c) /\ pc'[c] = "adding" /\ use'[c] = created + 1
  BY <1>1, <1>2 DEF Others
<1>4. ~busy[created + 1] /\ ~alive[created + 1] /\ ~overflow[created + 1]
      /\ created + 1 \notin Listed
  BY <1>2 DEF IInv, HolderInv
<1>5. Quiet(c)
  BY <1>1, <1>2, <1>3, <1>4 DEF Quiet
<1>6. LocksStay(c)
  <2>1. c \in first' <=> Old(c)
    BY <1>1, NotFirst DEF Old
  <2>2. LockFree(c \in first')
    BY <1>1, <2>1 DEF LockFree
  <2>3. QED
    BY <1>1, <1>3, <2>2 DEF LocksStay
<1>7. QED
  BY <1>5, <1>6, QuietStep

LEMMA Simple ==
  ASSUME TypeOK
  PROVE  created \in Nat /\ pc \in [Callers -> Places] /\ use \in [Callers -> 0..MaxSessions]
BY DEF TypeOK

LEMMA RemoveIdleKeeps ==
  ASSUME IInv, TypeOK', NEW c \in Callers, RemoveIdle(c)
  PROVE  FlowInv'
<1>0. sessions \in Seq(Ids) /\ DOMAIN sessions = 1..Len(sessions)
  BY DEF IInv, TypeOK
<1>1. PICK i \in 1..Len(sessions) :
        /\ alive[sessions[i]] /\ ~busy[sessions[i]]
        /\ use' = [use EXCEPT ![c] = sessions[i]]
        /\ alive' = [alive EXCEPT ![sessions[i]] = FALSE]
  BY <1>0 DEF RemoveIdle, IsTail, Available
<1> DEFINE s == sessions[i]
<1>2. /\ pc[c] \in {"idle", "toRemove"} /\ pc' = [pc EXCEPT ![c] = "removing"]
      /\ UNCHANGED <<sessions, created, busy, overflow, handles, lost>> /\ LockFree(Old(c))
      /\ first' = IF Old(c) THEN first \cup {c} ELSE first
  BY DEF RemoveIdle, Enter, Goto, flagVars
<1>3. s \in Ids /\ s \in Listed
  BY <1>0 DEF Listed, ToSet
<1> HIDE DEF s
<1>4. /\ created \in Nat /\ pc \in [Callers -> Places] /\ use \in [Callers -> 0..MaxSessions]
      /\ s <= created
  <2>1. created \in Nat /\ pc \in [Callers -> Places] /\ use \in [Callers -> 0..MaxSessions]
    BY Simple DEF IInv
  <2>2. \A r \in Ids : r > created => r \notin Listed
    BY DEF IInv, HolderInv
  <2>3. QED
    BY <1>3, <2>1, <2>2
<1>5. Others(c) /\ pc'[c] = "removing" /\ use'[c] = s
  BY <1>1, <1>2, <1>3, <1>4 DEF Others, s
<1>6. ~busy[s] /\ alive[s] /\ ~alive'[s] /\ \A r \in Ids : alive'[r] => alive[r]
  <2>1. alive \in [Ids -> BOOLEAN] /\ alive' = [alive EXCEPT ![s] = FALSE]
    BY <1>1 DEF IInv, TypeOK, s
  <2>2. ~alive'[s] /\ \A r \in Ids : alive'[r] => alive[r]
    BY <1>3, <2>1, Zenon
  <2>3. QED
    BY <1>1, <2>2 DEF s
<1>7. Quiet(c)
  BY <1>2, <1>3, <1>4, <1>5, <1>6 DEF Quiet
<1>8. LocksStay(c)
  <2>1. c \in first' <=> Old(c)
    BY <1>2, NotFirst DEF Old
  <2>2. LockFree(c \in first')
    BY <1>2, <2>1 DEF LockFree
  <2>3. QED
    BY <1>2, <1>5, <2>2 DEF LocksStay
<1>9. QED
  BY <1>7, <1>8, QuietStep

LEMMA AcquireKeeps ==
  ASSUME IInv, TypeOK', NEW c \in Callers, Acquire(c)
  PROVE  FlowInv'
<1>1. PICK s \in Listed : Available(s) /\ Take(c, s)
  BY DEF Acquire, IsHead, Listed, ToSet
<1>2. s \in Ids /\ s <= created
  <2>1. sessions \in Seq(Ids) /\ DOMAIN sessions = 1..Len(sessions)
    BY DEF IInv, TypeOK
  <2>2. s \in Ids
    BY <2>1 DEF Listed, ToSet
  <2>3. QED
    BY <2>2 DEF IInv, TypeOK, HolderInv
<1>3. TakesFree(c, s)
  BY <1>1, <1>2 DEF IInv, TypeOK, sessionVars, lockVars, Acquire, Available, Take, Goto,
                    TakesFree, Others
<1>4. QED
  BY <1>2, <1>3, TakesFreeKeeps

LEMMA AcquireSpecificKeeps ==
  ASSUME IInv, TypeOK', NEW c \in Callers, AcquireSpecific(c)
  PROVE  FlowInv'
<1>1. use[c] \in Ids /\ TakesFree(c, use[c])
  BY DEF IInv, TypeOK, HolderInv, sessionVars, lockVars, AcquireSpecific, Available, Take, Goto,
         TakesFree, Others
<1>2. QED
  BY <1>1, TakesFreeKeeps

LEMMA OverflowStartedKeeps ==
  ASSUME IInv, TypeOK', NEW c \in Callers, OverflowStarted(c)
  PROVE  FlowInv'
<1> DEFINE s == use[c]
<1>1. /\ pc[c] = "starting" /\ s \in Ids /\ s <= created
      /\ ~busy[s] /\ ~alive[s] /\ ~overflow[s]
      /\ UNCHANGED <<created, handles, lost, first>>
  BY DEF OverflowStarted, IInv, HolderInv, lockVars
<1>2. Others(c) /\ pc'[c] = "using" /\ use'[c] = s
  BY <1>1 DEF OverflowStarted, Take, Goto, Others, IInv, TypeOK
<1>3. busy'[s] /\ overflow'[s]
      /\ \A r \in Ids \ {s} : /\ busy'[r] = busy[r] /\ overflow'[r] = overflow[r]
                              /\ alive'[r] = alive[r]
  BY <1>1, Zenon DEF OverflowStarted, Take, IInv, TypeOK
<1>4. Listed' = Listed \cup {s} /\ IsInjective(sessions')
  <2>1. sessions \in Seq(Ids) /\ s \in Ids /\ sessions' = Append(sessions, s)
    BY <1>1 DEF OverflowStarted, IInv, TypeOK
  <2> DEFINE S == Ids
  <2>2. sessions \in Seq(S) /\ s \in S
    BY <2>1
  <2> HIDE DEF s, S
  <2>3. ToSet(Append(sessions, s)) = ToSet(sessions) \cup {s}
    BY ONLY <2>2, OneMore
  <2>4. IsInjective(sessions) /\ s \notin ToSet(sessions) => IsInjective(Append(sessions, s))
    BY ONLY <2>2, OneMore
  <2>5. s \notin Listed /\ IsInjective(sessions)
    BY <1>1 DEF s, IInv, HolderInv
  <2>6. QED
    BY <2>1, <2>3, <2>4, <2>5 DEF Listed
<1> HIDE DEF s
<1>5. \A d \in Callers : Using(d) => use[d] # s /\ use[d] \in Ids
  BY <1>1 DEF IInv, BusyAccounted, HolderInv, Using
<1>6. OneHolder'
  <2>1. c \notin first
    BY <1>1, NotFirst
  <2>2. QED
    BY <1>1, <1>2, <2>1, LocksKeep DEF LocksStay
<1>7. OneUserPerSession'
  BY <1>2, <1>5 DEF IInv, OneUserPerSession, Others, Using
<1>8. BusyAccounted'
  <2>1. \A d \in Callers : Using(d)' => busy'[use'[d]]
    BY <1>2, <1>3, <1>5 DEF IInv, BusyAccounted, Others, Using
  <2>2. ASSUME NEW r \in Ids, busy'[r], r \notin lost
        PROVE  \E d \in Callers : Using(d)' /\ use'[d] = r
    BY <1>1, <1>2, <1>3, <2>2 DEF IInv, BusyAccounted, Others, Using
  <2>3. QED
    BY <1>1, <2>1, <2>2 DEF BusyAccounted
<1>9. OverflowTemporary'
  <2>1. ASSUME NEW r \in Listed', overflow'[r], r \notin lost
        PROVE  \E d \in Callers : (Using(d)' \/ pc'[d] = "closing") /\ use'[d] = r
    <3>1. CASE r = s
      BY <1>2, <3>1 DEF Using
    <3>2. CASE r # s
      <4>1. r \in Listed /\ r \in Ids
        <5>1. r \in Listed
          BY <1>4, <2>1, <3>2
        <5>2. sessions \in Seq(Ids) /\ DOMAIN sessions = 1..Len(sessions)
          BY DEF IInv, TypeOK
        <5>3. QED
          BY <5>1, <5>2 DEF Listed, ToSet
      <4>2. PICK d \in Callers : (Using(d) \/ pc[d] = "closing") /\ use[d] = r
        BY <1>3, <2>1, <3>2, <4>1 DEF IInv, OverflowTemporary
      <4>3. QED
        BY <1>1, <1>2, <4>2 DEF Others, Using
    <3>3. QED
      BY <3>1, <3>2
  <2>2. QED
    BY <1>1, <2>1 DEF OverflowTemporary
<1>10. HolderInv'
  <2>1. \A d \in Callers \ {c} : pc[d] \in Holders =>
          /\ use[d] # s /\ ~busy'[use[d]] /\ ~alive'[use[d]]
          /\ overflow'[use[d]] <=> overflow[use[d]]
          /\ use[d] \notin Listed => use[d] \notin Listed'
    <3>1. \A d \in Callers \ {c} : pc[d] \in Holders =>
            use[d] \in Ids \ {s} /\ ~busy[use[d]] /\ ~alive[use[d]]
      BY <1>1 DEF s, IInv, HolderInv
    <3>2. ASSUME NEW d \in Callers \ {c}, pc[d] \in Holders
          PROVE  ~busy'[use[d]] /\ ~alive'[use[d]] /\ (overflow'[use[d]] <=> overflow[use[d]])
      BY <1>3, <3>1, <3>2, Zenon
    <3>3. QED
      BY <1>4, <3>1, <3>2
  <2>2. created \in Nat /\ \A r \in Ids : r > created => r # s
    BY <1>1 DEF IInv, TypeOK
  <2>3. \A r \in Ids : r > created => ~busy'[r] /\ ~overflow'[r] /\ ~alive'[r] /\ r \notin Listed'
    BY <1>3, <1>4, <2>2 DEF IInv, HolderInv
  <2>4. HoldersStay(c)
    BY <1>1, <1>2, <1>4, <2>1, <2>2, <2>3 DEF HoldersStay, IInv, HolderInv
  <2>5. QED
    BY <2>4, HoldersKeep
<1>11. QED
  BY <1>6, <1>7, <1>8, <1>9, <1>10 DEF FlowInv

LEMMA FinishKeeps ==
  ASSUME IInv, TypeOK', NEW c \in Callers, Finish(c)
  PROVE  FlowInv'
<1>1. /\ pc[c] = "using" /\ pc' = [pc EXCEPT ![c] = "releasing"]
      /\ UNCHANGED <<sessions, created, alive, busy, overflow, use, lost, first>>
  BY DEF Finish, Goto, flagVars, lockVars
<1>2. \A h \in handles' : h \in handles \/ h.session = use[c]
  BY DEF Finish
<1>3. pc'[c] = "releasing" /\ Others(c)
  BY <1>1 DEF Others, IInv, TypeOK
<1>4. Listed' = Listed /\ SameUse(c)
  BY <1>1, <1>3 DEF SameUse, Listed
<1>5. c \notin first
  BY <1>1, NotFirst
<1>6. LocksStay(c)
  BY <1>1, <1>3, <1>5 DEF LocksStay
<1>7. \A h \in handles' : h.session \in Ids /\ h.session <= created
  BY <1>1, <1>2 DEF IInv, HolderInv
<1>8. HoldersStay(c)
  <2>1. created \in Nat
    BY DEF IInv, TypeOK
  <2>2. \A s \in Ids : s > created => ~busy[s] /\ ~overflow[s] /\ ~alive[s] /\ s \notin Listed
    BY DEF IInv, HolderInv
  <2>3. \A d \in Callers \ {c} : pc[d] \in Holders => ~busy[use[d]] /\ ~alive[use[d]]
    BY DEF IInv, HolderInv
  <2>4. use[c] \in Ids /\ use[c] <= created
    BY <1>1 DEF IInv, HolderInv
  <2>5. IsInjective(sessions')
    BY <1>1 DEF IInv, HolderInv
  <2>6. QED
    BY <1>1, <1>3, <1>4, <1>7, <2>1, <2>2, <2>3, <2>4, <2>5 DEF HoldersStay
<1>9. QED
  BY <1>4, <1>6, <1>8, SameUseKeeps, LocksKeep, HoldersKeep DEF FlowInv

LEMMA ReleaseKeeps ==
  ASSUME IInv, TypeOK', NEW c \in Callers, Release(c)
  PROVE  FlowInv'
<1> DEFINE s == use[c]
<1>1. /\ pc[c] = "releasing" /\ s \in Ids /\ s <= created /\ LockFree(FALSE)
      /\ UNCHANGED <<sessions, created, overflow, handles, lost>>
  BY DEF Release, IInv, HolderInv
<1>2. /\ Others(c)
      /\ \/ overflow[s] /\ pc'[c] = "closing" /\ use'[c] = s /\ first' = first /\ ~alive'[s]
         \/ ~overflow[s] /\ pc'[c] = "idle" /\ first' = first \ {c}
  <2>1. CASE overflow[s]
    <3>1. Goto(c, "closing") /\ UNCHANGED <<use, first>> /\ alive' = [alive EXCEPT ![s] = FALSE]
      BY <2>1 DEF Release, AfterRelease
    <3>2. ~alive'[s]
      BY <1>1, <3>1, Zenon DEF IInv, TypeOK
    <3>3. QED
      BY <2>1, <3>1, <3>2 DEF Goto, Others, IInv, TypeOK
  <2>2. CASE ~overflow[s]
    BY <2>2 DEF Release, AfterRelease, Return, Goto, Others, IInv, TypeOK
  <2>3. QED
    BY <2>1, <2>2
<1>3. ~busy'[s] /\ \A r \in Ids \ {s} : busy'[r] = busy[r]
  BY <1>1, Zenon DEF Release, Freed, IInv, TypeOK
<1>4. \A r \in Ids : alive'[r] => alive[r]
  <2>1. alive' = alive \/ alive' = [alive EXCEPT ![s] = FALSE]
    BY DEF Release, AfterRelease
  <2>2. QED
    BY <1>1, <2>1, Zenon DEF IInv, TypeOK
<1>5. busy[s] /\ \A d \in Callers \ {c} : Using(d) => use[d] # s
  BY <1>1 DEF IInv, BusyAccounted, OneUserPerSession, Using
<1> HIDE DEF s
<1>6. OneHolder'
  <2>1. c \notin first
    BY <1>1, NotFirst
  <2>2. LockFree(c \in first')
    BY <1>1, <1>2, <2>1 DEF LockFree
  <2>3. QED
    BY <1>1, <1>2, <2>1, <2>2, LocksKeep DEF LocksStay
<1>7. OneUserPerSession'
  BY <1>2 DEF IInv, OneUserPerSession, Others, Using
<1>8. BusyAccounted'
  <2>1. \A d \in Callers : Using(d)' => busy'[use'[d]]
    BY <1>2, <1>3, <1>5 DEF IInv, BusyAccounted, HolderInv, Others, Using
  <2>2. ASSUME NEW r \in Ids, busy'[r], r \notin lost
        PROVE  \E d \in Callers : Using(d)' /\ use'[d] = r
    <3>1. r # s /\ busy[r]
      BY <1>3, <2>2
    <3>2. PICK d \in Callers : Using(d) /\ use[d] = r
      BY <2>2, <3>1 DEF IInv, BusyAccounted
    <3>3. d # c
      BY <3>1, <3>2 DEF s
    <3>4. QED
      BY <1>2, <3>2, <3>3 DEF Others, Using
  <2>3. QED
    BY <1>1, <2>1, <2>2 DEF BusyAccounted
<1>9. OverflowTemporary'
  <2>1. ASSUME NEW r \in Listed, overflow[r], r \notin lost
        PROVE  \E d \in Callers : (Using(d)' \/ pc'[d] = "closing") /\ use'[d] = r
    <3>1. PICK d \in Callers : (Using(d) \/ pc[d] = "closing") /\ use[d] = r
      BY <2>1 DEF IInv, OverflowTemporary
    <3>2. CASE d = c
      BY <1>2, <2>1, <3>1, <3>2 DEF s
    <3>3. CASE d # c
      BY <1>2, <3>1, <3>3 DEF Others, Using
    <3>4. QED
      BY <3>2, <3>3
  <2>2. Listed' = Listed
    BY <1>1 DEF Listed
  <2>3. QED
    BY <1>1, <2>1, <2>2 DEF OverflowTemporary
<1>10. HolderInv'
  <2>1. \A r \in Ids : busy'[r] => busy[r]
    BY <1>3
  <2>2. ASSUME NEW d \in Callers \ {c}, pc[d] \in Holders
        PROVE  use[d] # s /\ ~busy'[use[d]] /\ ~alive'[use[d]]
    <3>1. use[d] \in Ids /\ ~busy[use[d]] /\ ~alive[use[d]]
      BY <2>2 DEF IInv, HolderInv
    <3>2. QED
      BY <1>4, <1>5, <2>1, <3>1
  <2>3. created \in Nat /\ Listed' = Listed
    BY <1>1 DEF IInv, TypeOK, Listed
  <2>4. \A r \in Ids : r > created => ~busy'[r] /\ ~overflow[r] /\ ~alive'[r] /\ r \notin Listed
    BY <1>4, <2>1 DEF IInv, HolderInv
  <2>5. \A h \in handles : h.session \in Ids /\ h.session <= created
    BY DEF IInv, HolderInv
  <2>6. IsInjective(sessions')
    BY <1>1 DEF IInv, HolderInv
  <2>7. HoldersStay(c)
    BY <1>1, <1>2, <1>3, <2>2, <2>3, <2>4, <2>5, <2>6 DEF HoldersStay
  <2>8. QED
    BY <2>7, HoldersKeep
<1>11. QED
  BY <1>6, <1>7, <1>8, <1>9, <1>10 DEF FlowInv

LEMMA ClosedKeeps ==
  ASSUME IInv, TypeOK', NEW c \in Callers, Closed(c)
  PROVE  FlowInv'
<1> DEFINE s == use[c]
<1>1. /\ pc[c] = "closing" /\ s \in Ids
      /\ UNCHANGED <<created, alive, busy, overflow, handles, lost>>
  BY DEF Closed, IInv, HolderInv, sessionVars, flagVars
<1>2. Others(c) /\ pc'[c] = "idle" /\ first' = first \ {c}
  BY DEF Closed, Return, Goto, Others, IInv, TypeOK
<1>3. Listed' \subseteq Listed /\ Listed \subseteq Listed' \cup {s}
  <2>1. sessions \in Seq(Ids) /\ sessions' = RemoveFirst(sessions, s)
    BY DEF Closed, IInv, TypeOK
  <2> HIDE DEF s
  <2>2. ToSet(sessions') \subseteq ToSet(sessions) /\ ToSet(sessions) \subseteq ToSet(sessions') \cup {s}
    BY ONLY <2>1, FirstLess DEF Drops
  <2>3. QED
    BY <2>2 DEF Listed
<1>4. IsInjective(sessions') /\ s \notin Listed' /\ \A d \in Callers : use[d] \notin Listed => use[d] \notin Listed'
  <2> DEFINE S == Ids
  <2>1. sessions \in Seq(S) /\ sessions' = RemoveFirst(sessions, s)
    BY DEF Closed, IInv, TypeOK
  <2> HIDE DEF s, S
  <2>2. Drops(sessions, sessions', S, s)
    BY ONLY <2>1, FirstLess
  <2>3. IsInjective(sessions)
    BY DEF IInv, HolderInv
  <2>4. IsInjective(sessions') /\ s \notin ToSet(sessions') /\ ToSet(sessions') \subseteq ToSet(sessions)
    BY ONLY <2>2, <2>3 DEF Drops
  <2>5. QED
    BY <2>4 DEF Listed
<1> HIDE DEF s
<1>5. ~busy[s]
  BY <1>1 DEF s, IInv, HolderInv
<1>6. OneHolder'
  BY <1>2, LocksKeep DEF LocksStay
<1>7. OneUserPerSession'
  BY <1>2 DEF IInv, OneUserPerSession, Others, Using
<1>8. BusyAccounted'
  <2>1. \A d \in Callers : Using(d)' => busy'[use'[d]]
    BY <1>1, <1>2 DEF IInv, BusyAccounted, Others, Using
  <2>2. ASSUME NEW r \in Ids, busy'[r], r \notin lost
        PROVE  \E d \in Callers : Using(d)' /\ use'[d] = r
    BY <1>1, <1>2, <2>2 DEF IInv, BusyAccounted, Others, Using
  <2>3. QED
    BY <1>1, <2>1, <2>2 DEF BusyAccounted
<1>9. OverflowTemporary'
  <2>1. ASSUME NEW r \in Listed', overflow[r], r \notin lost
        PROVE  \E d \in Callers : (Using(d)' \/ pc'[d] = "closing") /\ use'[d] = r
    <3>1. r \in Listed /\ r # s
      BY <1>3, <1>4, <2>1
    <3>2. PICK d \in Callers : (Using(d) \/ pc[d] = "closing") /\ use[d] = r
      BY <2>1, <3>1 DEF IInv, OverflowTemporary
    <3>3. d # c
      BY <3>1, <3>2 DEF s
    <3>4. QED
      BY <1>2, <3>2, <3>3 DEF Others, Using
  <2>2. QED
    BY <1>1, <2>1 DEF OverflowTemporary
<1>10. HolderInv'
  <2>1. created \in Nat
    BY Simple DEF IInv
  <2>2. \A r \in Ids : r > created => ~busy[r] /\ ~overflow[r] /\ ~alive[r] /\ r \notin Listed'
    BY <1>3 DEF IInv, HolderInv
  <2>3. \A h \in handles : h.session \in Ids /\ h.session <= created
    BY DEF IInv, HolderInv
  <2>4. \A d \in Callers \ {c} : pc[d] \in Holders => ~busy[use[d]] /\ ~alive[use[d]]
    BY DEF IInv, HolderInv
  <2>5. HoldersStay(c)
    BY <1>1, <1>2, <1>4, <2>1, <2>2, <2>3, <2>4 DEF HoldersStay
  <2>6. QED
    BY <2>5, HoldersKeep
<1>11. QED
  BY <1>6, <1>7, <1>8, <1>9, <1>10 DEF FlowInv

LEMMA CancelKeeps ==
  ASSUME IInv, TypeOK', NEW c \in Callers, Cancel(c)
  PROVE  FlowInv'
<1> DEFINE s == use[c]
<1>1. UNCHANGED <<sessions, created, busy, overflow, handles>> /\ Listed' = Listed
  BY DEF Cancel, flagVars, Listed
<1>2. /\ Others(c) /\ pc[c] # "idle"
      /\ \/ pc[c] = "using" /\ pc'[c] = "releasing" /\ use'[c] = s /\ first' = first
         \/ pc[c] # "using" /\ pc'[c] = "idle" /\ first' = first \ {c}
  <2>1. CASE pc[c] = "using"
    BY <2>1 DEF Cancel, Goto, Others, IInv, TypeOK
  <2>2. CASE pc[c] # "using"
    BY <2>2 DEF Cancel, Return, Goto, Others, IInv, TypeOK
  <2>3. QED
    BY <2>1, <2>2
<1>3. /\ lost \subseteq lost'
      /\ pc[c] \in {"releasing", "closing"} => s \in lost'
  BY DEF Cancel
<1>4. /\ pc[c] \in {"starting", "adding"} => s \in Ids /\ s <= created
      /\ \A r \in Ids : alive'[r] => alive[r] \/ (pc[c] \in {"starting", "adding"} /\ r = s)
  <2>1. pc[c] \in {"starting", "adding"} => s \in Ids /\ s <= created
    BY DEF IInv, HolderInv
  <2>2. alive' = alive \/ (pc[c] \in {"starting", "adding"}
                             /\ \E up \in BOOLEAN : alive' = [alive EXCEPT ![s] = up])
    BY DEF Cancel
  <2>3. alive \in [Ids -> BOOLEAN]
    BY DEF IInv, TypeOK
  <2> HIDE DEF s
  <2>4. ASSUME NEW r \in Ids, alive'[r], ~alive[r]
        PROVE  pc[c] \in {"starting", "adding"} /\ r = s
    <3>1. alive' # alive
      BY <2>4
    <3>2. PICK up \in BOOLEAN : /\ pc[c] \in {"starting", "adding"}
                               /\ alive' = [alive EXCEPT ![s] = up]
      BY <2>2, <3>1
    <3>3. r # s => alive'[r] = alive[r]
      BY <2>3, <3>2, Zenon
    <3>4. QED
      BY <2>4, <3>2, <3>3
  <2>5. QED
    BY <2>1, <2>4
<1>5. OneHolder'
  <2>1. pc[c] = "using" => c \notin first
    BY NotFirst
  <2>2. QED
    BY <1>2, <2>1, LocksKeep DEF LocksStay
<1>6. OneUserPerSession'
  BY <1>2 DEF IInv, OneUserPerSession, Others, Using
<1>7. BusyAccounted'
  <2>1. \A d \in Callers : Using(d)' => busy[use'[d]]
    BY <1>2 DEF IInv, BusyAccounted, Others, Using
  <2>2. ASSUME NEW r \in Ids, busy[r], r \notin lost'
        PROVE  \E d \in Callers : Using(d)' /\ use'[d] = r
    BY <1>2, <1>3, <2>2 DEF IInv, BusyAccounted, Others, Using
  <2>3. QED
    BY <1>1, <2>1, <2>2 DEF BusyAccounted
<1>8. OverflowTemporary'
  <2>1. ASSUME NEW r \in Listed, overflow[r], r \notin lost'
        PROVE  \E d \in Callers : (Using(d)' \/ pc'[d] = "closing") /\ use'[d] = r
    BY <1>2, <1>3, <2>1 DEF IInv, OverflowTemporary, Others, Using
  <2>2. QED
    BY <1>1, <2>1 DEF OverflowTemporary
<1>9. HolderInv'
  <2>1. created \in Nat
    BY Simple DEF IInv
  <2>2. \A r \in Ids : r > created => ~busy[r] /\ ~overflow[r] /\ ~alive'[r] /\ r \notin Listed
    BY <1>4, <2>1 DEF IInv, HolderInv
  <2>3. ASSUME NEW d \in Callers \ {c}, pc[d] \in Holders
        PROVE  ~busy[use[d]] /\ ~alive'[use[d]]
    <3>1. use[d] \in Ids /\ ~busy[use[d]] /\ ~alive[use[d]]
      BY <2>3 DEF IInv, HolderInv
    <3>2. pc[c] \in {"starting", "adding"} => use[d] # s
      BY <2>3 DEF IInv, HolderInv
    <3>3. QED
      BY <1>4, <3>1, <3>2
  <2>4. IsInjective(sessions') /\ \A h \in handles : h.session \in Ids /\ h.session <= created
    BY <1>1 DEF IInv, HolderInv
  <2>5. pc[c] = "using" => s \in Ids /\ s <= created
    BY DEF IInv, HolderInv
  <2>6. HoldersStay(c)
    BY <1>1, <1>2, <2>1, <2>2, <2>3, <2>4, <2>5 DEF HoldersStay
  <2>7. QED
    BY <2>6, HoldersKeep
<1>10. QED
  BY <1>5, <1>6, <1>7, <1>8, <1>9 DEF FlowInv

LEMMA AddedKeeps ==
  ASSUME IInv, TypeOK', NEW c \in Callers, Added(c)
  PROVE  FlowInv'
<1> DEFINE s == use[c]
<1>1. /\ pc[c] = "adding" /\ s \in Ids /\ s <= created
      /\ ~busy[s] /\ ~alive[s] /\ ~overflow[s] /\ s \notin Listed
      /\ UNCHANGED <<created, busy, overflow, handles, lost>>
  BY DEF Added, IInv, HolderInv, flagVars
<1>2. Others(c) /\ pc'[c] = "idle" /\ first' = first \ {c}
  BY DEF Added, Return, Goto, Others, IInv, TypeOK
<1>3. \A r \in Ids \ {s} : alive'[r] = alive[r]
  <2>1. alive' = alive \/ alive' = [alive EXCEPT ![s] = TRUE]
    BY DEF Added
  <2>2. QED
    BY <1>1, <2>1, Zenon DEF IInv, TypeOK
<1>4. Listed \subseteq Listed' /\ Listed' \subseteq Listed \cup {s} /\ IsInjective(sessions')
  <2> DEFINE S == Ids
  <2>1. sessions \in Seq(S) /\ s \in S /\ IsInjective(sessions) /\ s \notin ToSet(sessions)
    BY <1>1 DEF IInv, TypeOK, HolderInv, Listed
  <2>2. sessions' = sessions \/ sessions' = Append(sessions, s)
    BY DEF Added
  <2> HIDE DEF s, S
  <2>3. /\ ToSet(Append(sessions, s)) = ToSet(sessions) \cup {s}
        /\ IsInjective(Append(sessions, s))
    BY ONLY <2>1, OneMore
  <2>4. QED
    BY <2>1, <2>2, <2>3 DEF Listed
<1> HIDE DEF s
<1>5. \A d \in Callers \ {c} : pc[d] \in Holders => use[d] # s
  BY <1>1 DEF s, IInv, HolderInv
<1>6. OneHolder'
  BY <1>2, LocksKeep DEF LocksStay
<1>7. OneUserPerSession'
  BY <1>2 DEF IInv, OneUserPerSession, Others, Using
<1>8. BusyAccounted'
  <2>1. \A d \in Callers : Using(d)' => busy'[use'[d]]
    BY <1>1, <1>2 DEF IInv, BusyAccounted, Others, Using
  <2>2. ASSUME NEW r \in Ids, busy'[r], r \notin lost
        PROVE  \E d \in Callers : Using(d)' /\ use'[d] = r
    BY <1>1, <1>2, <2>2 DEF IInv, BusyAccounted, Others, Using
  <2>3. QED
    BY <1>1, <2>1, <2>2 DEF BusyAccounted
<1>9. OverflowTemporary'
  <2>1. ASSUME NEW r \in Listed', overflow[r], r \notin lost
        PROVE  \E d \in Callers : (Using(d)' \/ pc'[d] = "closing") /\ use'[d] = r
    <3>1. r \in Listed
      BY <1>1, <1>4, <2>1
    <3>2. PICK d \in Callers : (Using(d) \/ pc[d] = "closing") /\ use[d] = r
      BY <2>1, <3>1 DEF IInv, OverflowTemporary
    <3>3. QED
      BY <1>1, <1>2, <3>2 DEF Others, Using
  <2>2. QED
    BY <1>1, <2>1 DEF OverflowTemporary
<1>10. HolderInv'
  <2>1. created \in Nat
    BY Simple DEF IInv
  <2>2. \A r \in Ids : r > created => ~busy[r] /\ ~overflow[r] /\ ~alive'[r] /\ r \notin Listed'
    BY <1>1, <1>3, <1>4, <2>1 DEF IInv, HolderInv
  <2>3. ASSUME NEW d \in Callers \ {c}, pc[d] \in Holders
        PROVE  ~busy[use[d]] /\ ~alive'[use[d]] /\ (use[d] \notin Listed => use[d] \notin Listed')
    <3>1. use[d] \in Ids /\ ~busy[use[d]] /\ ~alive[use[d]]
      BY <2>3 DEF IInv, HolderInv
    <3>2. QED
      BY <1>3, <1>4, <1>5, <2>3, <3>1
  <2>4. \A h \in handles : h.session \in Ids /\ h.session <= created
    BY DEF IInv, HolderInv
  <2>5. HoldersStay(c)
    BY <1>1, <1>2, <1>4, <2>1, <2>2, <2>3, <2>4 DEF HoldersStay
  <2>6. QED
    BY <2>5, HoldersKeep
<1>11. QED
  BY <1>6, <1>7, <1>8, <1>9, <1>10 DEF FlowInv

\* What remove_idle_session leaves of the list.
LEMMA PoppedList ==
  ASSUME IInv, NEW c \in Callers
  PROVE  /\ ToSet(Popped(c)) \subseteq ToSet(sessions)
         /\ IsInjective(Popped(c))
         /\ Popped(c) # sessions => Len(Popped(c)) < Len(sessions)
         /\ index[c] \in 1..Len(sessions)
              => ToSet(sessions) \subseteq ToSet(Popped(c)) \cup {sessions[index[c]]}
<1> DEFINE S == Ids
           i == index[c]
<1>1. sessions \in Seq(S) /\ IsInjective(sessions) /\ DOMAIN sessions = 1..Len(sessions)
  BY DEF IInv, TypeOK, HolderInv
<1>2. Popped(c) = IF i \in DOMAIN sessions THEN RemoveAt(sessions, i) ELSE sessions
  BY DEF Popped
<1> HIDE DEF S, i
<1>3. CASE i \in 1..Len(sessions)
  <2>1. /\ ToSet(RemoveAt(sessions, i)) \subseteq ToSet(sessions)
        /\ ToSet(sessions) \subseteq ToSet(RemoveAt(sessions, i)) \cup {sessions[i]}
        /\ IsInjective(RemoveAt(sessions, i)) /\ Len(RemoveAt(sessions, i)) < Len(sessions)
    BY ONLY <1>1, <1>3, OneLess
  <2>2. Popped(c) = RemoveAt(sessions, i)
    BY <1>1, <1>2, <1>3
  <2>3. QED
    BY <2>1, <2>2 DEF i
<1>4. CASE i \notin 1..Len(sessions)
  BY <1>1, <1>2, <1>4 DEF i
<1>5. QED
  BY <1>3, <1>4

LEMMA RemovedKeeps ==
  ASSUME IInv, TypeOK', NEW c \in Callers, Removed(c)
  PROVE  FlowInv'
<1>1. /\ pc[c] = "removing" /\ sessions' = Popped(c)
      /\ UNCHANGED <<created, alive, busy, overflow, handles, lost>>
  BY DEF Removed, sessionVars, flagVars
<1>2. Others(c) /\ pc'[c] = "idle" /\ first' = first \ {c}
  BY DEF Removed, Return, Goto, Others, IInv, TypeOK
<1>3. Listed' \subseteq Listed /\ IsInjective(sessions')
  BY <1>1, PoppedList DEF Listed
<1>4. SameUse(c)
  BY <1>1, <1>2, <1>3 DEF SameUse
<1>5. LocksStay(c)
  BY <1>2 DEF LocksStay
<1>6. HoldersStay(c)
  <2>1. created \in Nat
    BY Simple DEF IInv
  <2>2. \A r \in Ids : r > created => ~busy[r] /\ ~overflow[r] /\ ~alive[r] /\ r \notin Listed'
    BY <1>3 DEF IInv, HolderInv
  <2>3. /\ \A h \in handles : h.session \in Ids /\ h.session <= created
        /\ \A d \in Callers \ {c} : pc[d] \in Holders => ~busy[use[d]] /\ ~alive[use[d]]
    BY DEF IInv, HolderInv
  <2>4. QED
    BY <1>1, <1>2, <1>3, <2>1, <2>2, <2>3 DEF HoldersStay
<1>7. QED
  BY <1>4, <1>5, <1>6, SameUseKeeps, LocksKeep, HoldersKeep DEF FlowInv

\* The steps that touch no caller and no flag, and add nothing to the list.
LEMMA QuietKeeps ==
  ASSUME IInv, UNCHANGED <<created, busy, overflow, pc, use, handles, lost, first>>,
         Listed' \subseteq Listed, IsInjective(sessions'),
         \A s \in Ids : alive'[s] => alive[s] \/ busy[s]
  PROVE  FlowInv'
<1> USE DEF IInv, Using
<1>1. OneHolder' /\ OneUserPerSession' /\ BusyAccounted'
  BY DEF OneHolder, OneUserPerSession, BusyAccounted
<1>2. OverflowTemporary'
  BY DEF OverflowTemporary
<1>3. HolderInv'
  <2>1. \A s \in Ids : s > created => ~busy[s] /\ ~overflow[s] /\ ~alive'[s] /\ s \notin Listed'
    BY DEF HolderInv
  <2>2. \A d \in Callers : pc[d] \in Holders => ~busy[use[d]] /\ ~alive'[use[d]]
    BY DEF HolderInv
  <2>3. /\ \A d \in Callers : pc[d] \notin {"idle", "waiting", "toAdd", "toRemove"}
                             => use[d] \in Ids /\ use[d] <= created
        /\ \A h \in handles : h.session \in Ids /\ h.session <= created
        /\ \A d, e \in Callers : pc[d] \in Holders /\ pc[e] \in Holders /\ d # e
                                 => use[d] # use[e]
        /\ \A d \in Callers : pc[d] \in {"starting", "adding"}
                             => ~overflow[use[d]] /\ use[d] \notin Listed'
    BY DEF HolderInv
  <2>4. QED
    BY <2>1, <2>2, <2>3 DEF HolderInv
<1>4. QED
  BY <1>1, <1>2, <1>3 DEF FlowInv

LEMMA OutsideKeeps ==
  ASSUME IInv,
         \/ \E s \in Ids : TransportRestarts(s) \/ TransportGivesUp(s)
         \/ Shutdown \/ ShutdownEnds \/ UNCHANGED vars
  PROVE  FlowInv'
<1>1. IsInjective(sessions) /\ IsInjective(<<>>) /\ alive \in [Ids -> BOOLEAN]
  <2>1. DOMAIN <<>> = {}
    OBVIOUS
  <2>2. QED
    BY <2>1 DEF IInv, HolderInv, TypeOK, IsInjective
<1>2. ASSUME NEW s \in Ids, TransportRestarts(s) PROVE FlowInv'
  <2>1. alive[s] \/ busy[s]
    BY <1>2 DEF TransportRestarts, IInv, BusyAccounted, Using
  <2>2. \A r \in Ids : alive'[r] => alive[r] \/ busy[r]
    <3>1. \A r \in Ids \ {s} : alive'[r] = alive[r]
      BY <1>1, <1>2, Zenon DEF TransportRestarts
    <3>2. QED
      BY <2>1, <3>1
  <2>3. UNCHANGED <<sessions, created, busy, overflow, pc, use, handles, lost, first>>
    BY <1>2 DEF TransportRestarts, flagVars, lockVars
  <2>4. QED
    BY <1>1, <2>2, <2>3, QuietKeeps DEF Listed
<1>3. ASSUME NEW s \in Ids, TransportGivesUp(s) PROVE FlowInv'
  <2>1. \A r \in Ids : alive'[r] => alive[r]
    BY <1>1, <1>3, Zenon DEF TransportGivesUp
  <2>2. UNCHANGED <<sessions, created, busy, overflow, pc, use, handles, lost, first>>
    BY <1>3 DEF TransportGivesUp, flagVars, lockVars
  <2>3. QED
    BY <1>1, <2>1, <2>2, QuietKeeps DEF Listed
<1>4. CASE Shutdown
  <2>1. \A r \in Ids : alive'[r] => alive[r]
    BY <1>4, Zenon DEF Shutdown
  <2>2. UNCHANGED <<sessions, created, busy, overflow, pc, use, handles, lost, first>>
    BY <1>4 DEF Shutdown, flagVars, lockVars
  <2>3. QED
    BY <1>1, <2>1, <2>2, QuietKeeps DEF Listed
<1>5. CASE ShutdownEnds
  <2>1. sessions' = <<>> /\ Listed' = {}
    BY <1>5 DEF ShutdownEnds, Listed, ToSet
  <2>2. UNCHANGED <<created, alive, busy, overflow, pc, use, handles, lost, first>>
    BY <1>5 DEF ShutdownEnds, sessionVars, flagVars, lockVars
  <2>3. QED
    BY <1>1, <2>1, <2>2, QuietKeeps
<1>6. CASE UNCHANGED vars
  <2>1. UNCHANGED <<sessions, created, alive, busy, overflow, pc, use, handles, lost, first>>
    BY <1>6 DEF vars, sessionVars, flagVars, lockVars
  <2>2. QED
    BY <1>1, <2>1, QuietKeeps DEF Listed
<1>7. QED
  BY <1>2, <1>3, <1>4, <1>5, <1>6

\* A step of c that leaves alone the positions of those that remove a session.
PlaceStays(c) ==
  /\ \A d \in Callers \ {c} : pc'[d] = pc[d] /\ use'[d] = use[d] /\ index'[d] = index[d]
  /\ pc'[c] # "removing"
  /\ \/ Len(sessions') >= Len(sessions) /\ \A i \in 1..Len(sessions) : sessions'[i] = sessions[i]
     \/ \A d \in Callers \ {c} : pc[d] # "removing"

LEMMA PlaceKeeps ==
  ASSUME IInv, TypeOK', NEW c \in Callers, crossed \/ PlaceStays(c), crossed => crossed'
  PROVE  PlaceInv'
<1> SUFFICES ASSUME ~crossed', NEW d \in Callers, pc'[d] = "removing"
             PROVE  index'[d] \in 1..Len(sessions') /\ sessions'[index'[d]] = use'[d]
  BY DEF PlaceInv
<1>1. ~crossed /\ PlaceStays(c)
  OBVIOUS
<1>2. d # c /\ pc[d] = "removing" /\ use'[d] = use[d] /\ index'[d] = index[d]
  BY <1>1 DEF PlaceStays
<1>3. Len(sessions') >= Len(sessions) /\ \A i \in 1..Len(sessions) : sessions'[i] = sessions[i]
  BY <1>1, <1>2 DEF PlaceStays
<1>4. index[d] \in 1..Len(sessions) /\ sessions[index[d]] = use[d]
  BY <1>1, <1>2 DEF IInv, PlaceInv
<1>5. sessions \in Seq(Ids)
  BY DEF IInv, TypeOK
<1>6. sessions' \in Seq(Ids)
  BY DEF TypeOK
<1>7. Len(sessions) \in Nat
  BY ONLY <1>5
<1>8. Len(sessions') \in Nat
  BY ONLY <1>6
<1>9. QED
  BY ONLY <1>2, <1>3, <1>4, <1>7, <1>8

LEMMA PlacePreserved == IInv /\ TypeOK' /\ [Next]_vars => PlaceInv'
<1> SUFFICES ASSUME IInv, TypeOK', [Next]_vars PROVE PlaceInv'
  OBVIOUS
<1>0. /\ sessions \in Seq(Ids) /\ Len(sessions) \in Nat /\ pc \in [Callers -> Places]
      /\ use \in [Callers -> 0..MaxSessions] /\ index \in [Callers -> Nat]
  BY DEF IInv, TypeOK
<1>1. ASSUME NEW c \in Callers,
             \/ Call(c) \/ CallTactic(c) \/ Queue(c, "toAdd") \/ Queue(c, "toRemove")
             \/ Acquire(c) \/ StartOverflow(c) \/ AcquireSpecific(c) \/ GiveUp(c) \/ Finish(c)
             \/ Release(c) \/ Cancel(c) \/ AddSession(c) \/ NothingIdle(c)
      PROVE  PlaceInv'
  <2>1. UNCHANGED <<sessions, crossed>>
    BY <1>1 DEF Call, CallTactic, Queue, Acquire, StartOverflow, AcquireSpecific, GiveUp, Finish,
                Release, Cancel, AddSession, NothingIdle
  <2>2. /\ pc'[c] # "removing"
        /\ \A d \in Callers \ {c} : pc'[d] = pc[d] /\ use'[d] = use[d] /\ index'[d] = index[d]
    BY <1>0, <1>1 DEF Call, CallTactic, Queue, Acquire, StartOverflow, AcquireSpecific, GiveUp,
                Finish, Release, AfterRelease, Cancel, AddSession, Enter, NothingIdle, Take, Goto,
                Return
  <2>3. PlaceStays(c)
    BY <1>0, <2>1, <2>2 DEF PlaceStays
  <2>4. QED
    BY <2>1, <2>3, PlaceKeeps
<1>2. ASSUME NEW c \in Callers, OverflowStarted(c) \/ Added(c) PROVE PlaceInv'
  <2>1. crossed' = crossed /\ use[c] \in Ids
    BY <1>2 DEF OverflowStarted, Added, IInv, HolderInv
  <2>2. /\ pc'[c] # "removing"
        /\ \A d \in Callers \ {c} : pc'[d] = pc[d] /\ use'[d] = use[d] /\ index'[d] = index[d]
    BY <1>0, <1>2 DEF OverflowStarted, Added, Take, Goto, Return
  <2>3. Len(sessions') >= Len(sessions) /\ \A i \in 1..Len(sessions) : sessions'[i] = sessions[i]
    <3> DEFINE S == Ids
               s == use[c]
    <3>1. sessions \in Seq(S) /\ s \in S /\ Len(sessions) \in Nat
      BY <1>0, <2>1
    <3>2. sessions' = sessions \/ sessions' = Append(sessions, s)
      BY <1>2 DEF OverflowStarted, Added
    <3> HIDE DEF S, s
    <3>3. /\ Len(Append(sessions, s)) = Len(sessions) + 1
          /\ \A i \in 1..Len(sessions) : Append(sessions, s)[i] = sessions[i]
      BY ONLY <3>1, OneMore
    <3>4. QED
      BY <3>1, <3>2, <3>3
  <2>4. PlaceStays(c)
    BY <2>2, <2>3 DEF PlaceStays
  <2>5. QED
    BY <2>1, <2>4, PlaceKeeps
<1>3. ASSUME NEW c \in Callers, Closed(c) \/ Removed(c) PROVE PlaceInv'
  <2>1. /\ pc'[c] # "removing"
        /\ \A d \in Callers \ {c} : pc'[d] = pc[d] /\ use'[d] = use[d] /\ index'[d] = index[d]
    BY <1>0, <1>3 DEF Closed, Removed, Goto, Return
  <2>2. sessions' # sessions => Len(sessions') < Len(sessions)
    <3>1. CASE Removed(c)
      BY <3>1, PoppedList DEF Removed
    <3>2. CASE Closed(c)
      <4> DEFINE S == Ids
                 s == use[c]
      <4>1. sessions \in Seq(S) /\ sessions' = RemoveFirst(sessions, s)
        BY <1>0, <3>2 DEF Closed
      <4> HIDE DEF S, s
      <4>2. Drops(sessions, sessions', S, s)
        BY ONLY <4>1, FirstLess
      <4>3. QED
        BY ONLY <4>2 DEF Drops
    <3>3. QED
      BY <1>3, <3>1, <3>2
  <2>3. /\ crossed => crossed'
        /\ ~crossed' => ~(/\ Len(sessions') < Len(sessions)
                         /\ \E d \in Callers \ {c} : pc[d] = "removing")
    BY <1>3, Zenon DEF Closed, Removed, Crosses
  <2>4. crossed' \/ PlaceStays(c)
    BY <1>0, <2>1, <2>2, <2>3 DEF PlaceStays
  <2>5. CASE crossed'
    BY <2>5 DEF PlaceInv
  <2>6. CASE ~crossed'
    BY <2>3, <2>4, <2>6, PlaceKeeps
  <2>7. QED
    BY <2>5, <2>6
<1>4. ASSUME NEW c \in Callers, RemoveIdle(c) PROVE PlaceInv'
  <2>1. PICK i \in DOMAIN sessions : /\ use' = [use EXCEPT ![c] = sessions[i]]
                                    /\ index' = [index EXCEPT ![c] = i]
    BY <1>4 DEF RemoveIdle
  <2>2. UNCHANGED <<sessions, crossed>> /\ pc' = [pc EXCEPT ![c] = "removing"]
    BY <1>4 DEF RemoveIdle, Enter, Goto
  <2>3. DOMAIN sessions = 1..Len(sessions)
    BY <1>0
  <2>4. \A d \in Callers \ {c} : pc'[d] = pc[d] /\ use'[d] = use[d] /\ index'[d] = index[d]
    BY <1>0, <2>1, <2>2
  <2>5. index'[c] = i /\ use'[c] = sessions[i]
    BY <1>0, <2>1
  <2>6. QED
    BY <2>2, <2>3, <2>4, <2>5 DEF IInv, PlaceInv
<1>5. CASE \/ \E s \in Ids : TransportRestarts(s) \/ TransportGivesUp(s)
           \/ Shutdown \/ UNCHANGED vars
  <2>1. UNCHANGED <<sessions, pc, use, index, crossed>>
    BY <1>5 DEF TransportRestarts, TransportGivesUp, Shutdown, vars
  <2>2. QED
    BY <2>1 DEF IInv, PlaceInv
<1>6. CASE ShutdownEnds
  <2>1. /\ sessions' = <<>> /\ Len(sessions') = 0 /\ UNCHANGED pc
        /\ ~crossed' => ~crossed /\ ~(/\ Len(sessions') < Len(sessions)
                                      /\ \E d \in Callers : pc[d] = "removing")
    BY <1>6, Zenon DEF ShutdownEnds, Crosses
  <2>2. ASSUME ~crossed', NEW d \in Callers, pc'[d] = "removing" PROVE FALSE
    BY <1>0, <2>1, <2>2 DEF IInv, PlaceInv
  <2>3. QED
    BY <2>2 DEF PlaceInv
<1>7. QED
  BY <1>1, <1>2, <1>3, <1>4, <1>5, <1>6 DEF Next, Step

LEMMA StepPreserves == IInv /\ [Next]_vars => IInv'
<1> SUFFICES ASSUME IInv, [Next]_vars PROVE IInv'
  OBVIOUS
<1>1. TypeOK'
  BY TypePreserved
<1>0. PlaceInv'
  BY <1>1, PlacePreserved
<1> SUFFICES FlowInv'
  BY <1>0, <1>1 DEF IInv, FlowInv
<1>2. CASE UNCHANGED vars
  BY <1>2, OutsideKeeps
<1>3. ASSUME NEW c \in Callers, Call(c) PROVE FlowInv'
  BY <1>1, <1>3, CallKeeps
<1>4. ASSUME NEW c \in Callers, CallTactic(c) PROVE FlowInv'
  BY <1>1, <1>4, CallTacticKeeps
<1>5. ASSUME NEW c \in Callers, Acquire(c) PROVE FlowInv'
  BY <1>1, <1>5, AcquireKeeps
<1>6. ASSUME NEW c \in Callers, StartOverflow(c) PROVE FlowInv'
  BY <1>1, <1>6, StartOverflowKeeps
<1>7. ASSUME NEW c \in Callers, OverflowStarted(c) PROVE FlowInv'
  BY <1>1, <1>7, OverflowStartedKeeps
<1>8. ASSUME NEW c \in Callers, AcquireSpecific(c) PROVE FlowInv'
  BY <1>1, <1>8, AcquireSpecificKeeps
<1>9. ASSUME NEW c \in Callers, GiveUp(c) PROVE FlowInv'
  BY <1>1, <1>9, GiveUpKeeps
<1>10. ASSUME NEW c \in Callers, Finish(c) PROVE FlowInv'
  BY <1>1, <1>10, FinishKeeps
<1>11. ASSUME NEW c \in Callers, Release(c) PROVE FlowInv'
  BY <1>1, <1>11, ReleaseKeeps
<1>12. ASSUME NEW c \in Callers, Closed(c) PROVE FlowInv'
  BY <1>1, <1>12, ClosedKeeps
<1>13. ASSUME NEW c \in Callers, Cancel(c) PROVE FlowInv'
  BY <1>1, <1>13, CancelKeeps
<1>14. ASSUME NEW c \in Callers, AddSession(c) PROVE FlowInv'
  BY <1>1, <1>14, AddSessionKeeps
<1>15. ASSUME NEW c \in Callers, Added(c) PROVE FlowInv'
  BY <1>1, <1>15, AddedKeeps
<1>16. ASSUME NEW c \in Callers, RemoveIdle(c) PROVE FlowInv'
  BY <1>1, <1>16, RemoveIdleKeeps
<1>17. ASSUME NEW c \in Callers, Removed(c) PROVE FlowInv'
  BY <1>1, <1>17, RemovedKeeps
<1>18. ASSUME NEW c \in Callers, NEW place \in {"toAdd", "toRemove"}, Queue(c, place)
       PROVE  FlowInv'
  BY <1>1, <1>18, QueueKeeps
<1>19. ASSUME NEW c \in Callers, NothingIdle(c) PROVE FlowInv'
  BY <1>1, <1>19, NothingIdleKeeps
<1>20. CASE \/ \E s \in Ids : TransportRestarts(s) \/ TransportGivesUp(s)
            \/ Shutdown \/ ShutdownEnds
  BY <1>20, OutsideKeeps
<1>21. QED
  BY <1>2, <1>3, <1>4, <1>5, <1>6, <1>7, <1>8, <1>9, <1>10, <1>11, <1>12, <1>13, <1>14, <1>15,
     <1>16, <1>17, <1>18, <1>19, <1>20 DEF Next, Step

THEOREM Invariance == Spec => []IInv
<1>1. Init => IInv
  BY InitEstablishes
<1>2. IInv /\ [Next]_vars => IInv'
  BY StepPreserves
<1>3. QED
  BY <1>1, <1>2, PTL DEF Spec

\* The pool's variables keep their types.
THEOREM TypeCorrect == Spec => []TypeOK
<1>1. IInv => TypeOK
  BY DEF IInv
<1>2. QED
  BY <1>1, Invariance, PTL

\* The critical sections that wait under a Condition's lock never overlap, but for those of
\* add_session and remove_idle_session under the Condition that the first acquisition replaces.
THEOREM LockExclusive == Spec => []OneHolder
<1>1. IInv => OneHolder
  BY DEF IInv
<1>2. QED
  BY <1>1, Invariance, PTL

\* _acquire_session, _acquire_specific_session and an overflow start never give
\* a session to two tasks.
THEOREM ExclusiveUse == Spec => []OneUserPerSession
<1>1. IInv => OneUserPerSession
  BY DEF IInv
<1>2. QED
  BY <1>1, Invariance, PTL

\* _busy is set while a session is used and, but for cancelled releases, only then.
THEOREM BusyFlag == Spec => []BusyAccounted
<1>1. IInv => BusyAccounted
  BY DEF IInv
<1>2. QED
  BY <1>1, Invariance, PTL

\* Overflow sessions leave the list when they are released.
THEOREM OverflowLeaves == Spec => []OverflowTemporary
<1>1. IInv => OverflowTemporary
  BY DEF IInv
<1>2. QED
  BY <1>1, Invariance, PTL

\* Everything the runs check of a single state of the pool but the exclusive use.
THEOREM PoolHolds == Spec => []PoolInv
<1>1. IInv => PoolInv
  BY DEF IInv, PoolInv
<1>2. QED
  BY <1>1, Invariance, PTL

\* A session in use leaves the list only with shutdown(), or if an entry left the list
\* while remove_idle_session waited for its session to close.
THEOREM InUseStays == Spec => InUseStaysListed
<1> DEFINE Stays == \A c \in Callers : Using(c) /\ use[c] \in Listed
                      => use[c] \in Listed' \/ (stopping /\ ~stopping') \/ crossed
<1>1. ASSUME IInv, [Next]_vars PROVE Stays
  <2>1. ASSUME NEW d \in Callers, pc[d] \in {"closing", "removing"}, NEW c \in Callers, Using(c)
        PROVE  use[c] # use[d]
    BY <1>1, <2>1 DEF IInv, HolderInv, BusyAccounted
  <2>2. ASSUME NEW d \in Callers, Closed(d) PROVE Listed \subseteq Listed' \cup {use[d]}
    <3> DEFINE S == Ids
               s == use[d]
    <3>1. sessions \in Seq(S) /\ sessions' = RemoveFirst(sessions, s)
      BY <1>1, <2>2 DEF Closed, IInv, TypeOK
    <3> HIDE DEF S, s
    <3>2. Drops(sessions, sessions', S, s)
      BY ONLY <3>1, FirstLess
    <3>3. ToSet(sessions) \subseteq ToSet(sessions') \cup {s}
      BY ONLY <3>2 DEF Drops
    <3>4. QED
      BY <3>3 DEF Listed, s
  <2>3. ASSUME NEW d \in Callers, Removed(d), ~crossed
        PROVE  Listed \subseteq Listed' \cup {use[d]}
    <3>1. sessions' = Popped(d) /\ index[d] \in 1..Len(sessions) /\ sessions[index[d]] = use[d]
      BY <1>1, <2>3 DEF Removed, IInv, PlaceInv
    <3>2. QED
      BY <1>1, <3>1, PoppedList DEF Listed
  <2>4. ASSUME NEW d \in Callers, OverflowStarted(d) \/ Added(d) PROVE Listed \subseteq Listed'
    <3> DEFINE S == Ids
               s == use[d]
    <3>1. sessions \in Seq(S) /\ s \in S
      BY <1>1, <2>4 DEF OverflowStarted, Added, IInv, TypeOK, HolderInv
    <3>2. sessions' = sessions \/ sessions' = Append(sessions, s)
      BY <2>4 DEF OverflowStarted, Added
    <3> HIDE DEF S, s
    <3>3. ToSet(Append(sessions, s)) = ToSet(sessions) \cup {s}
      BY ONLY <3>1, OneMore
    <3>4. QED
      BY <3>2, <3>3 DEF Listed
  <2>5. CASE ShutdownEnds
    BY <2>5 DEF ShutdownEnds
  <2>6. \/ sessions' = sessions \/ ShutdownEnds
        \/ \E d \in Callers : Closed(d) \/ Removed(d) \/ OverflowStarted(d) \/ Added(d)
    BY <1>1 DEF Next, Step, vars, Call, CallTactic, Queue, Acquire, StartOverflow,
       AcquireSpecific, GiveUp, Finish, Release, Cancel, AddSession, RemoveIdle, NothingIdle,
       Shutdown, TransportRestarts, TransportGivesUp
  <2>7. CASE sessions' = sessions
    BY <2>7 DEF Listed
  <2>8. ASSUME NEW d \in Callers, Closed(d) \/ Removed(d) PROVE Stays
    <3>1. pc[d] \in {"closing", "removing"}
      BY <2>8 DEF Closed, Removed
    <3>2. QED
      BY <2>1, <2>2, <2>3, <2>8, <3>1
  <2>9. ASSUME NEW d \in Callers, OverflowStarted(d) \/ Added(d) PROVE Stays
    BY <2>4, <2>9
  <2>10. QED
    BY <2>5, <2>6, <2>7, <2>8, <2>9
<1>2. IInv /\ [Next]_vars => [Stays]_vars
  BY <1>1
<1>3. QED
  BY <1>2, Invariance, PTL DEF Spec, InUseStaysListed

=============================================================================
