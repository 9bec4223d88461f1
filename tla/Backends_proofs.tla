-------------------------- MODULE Backends_proofs --------------------------
(***************************************************************************)
(* Proofs about the three backends for any number of users, proofs,        *)
(* lemmas, environments and snapshots.                                     *)
(***************************************************************************)
EXTENDS Backends, FiniteSetTheorems, TLAPS

-----------------------------------------------------------------------------
(* Kimina.                                                                  *)

Proofs == Goods \cup Bads
Requests == [proof : Proofs, preamble : Seq(Imports), handle : Nat]
Verdicts == {"accepted", "rejected", "silent"}
Items == [id : Nat, says : Verdicts, snapshot : Nat]

KiminaTypes ==
  /\ envs \in Seq(Seq(Imports)) /\ Len(envs) <= MaxEnvs
  /\ snapshots \in Seq(Seq(Imports))
  /\ posted \in [Clients -> Seq(Requests)] /\ reply \in [Clients -> Seq(Items)]
  /\ told \in [Clients -> Seq(Verdicts \cup {Missing})]
  /\ \A c \in Clients : /\ Len(posted[c]) <= MaxBatch
                        /\ Len(told[c]) \in {0, Len(posted[c])}
                        /\ reply[c] # NoBatch => posted[c] # NoBatch /\ told[c] = NoBatch

\* Of the snapshots made, the n-th is of preamble p.
SnapshotOf(made, n, p) == n \in 1..Len(made) /\ made[n] = p

KeptMatch == \A p \in DOMAIN replay : p \in Preambles /\ SnapshotOf(snapshots, replay[p], p)

\* The requests of a batch have one preamble, and a snapshot of it if they name one.
PostedMatch ==
  \A c \in Clients : \A i \in 1..Len(posted[c]) :
    LET r == posted[c][i] IN
      /\ r.preamble = posted[c][1].preamble /\ r.preamble \in Preambles
      /\ r.handle # 0 => SnapshotOf(snapshots, r.handle, r.preamble)

\* What the service says of a request, until it is read.
ReplyMatches ==
  \A c \in Clients : \A k \in 1..Len(reply[c]) :
    LET item == reply[c][k] IN
      /\ item.id \in 1..Len(posted[c])
      /\ (item.says = "accepted") = (posted[c][item.id].proof \in Goods)
      /\ item.snapshot # 0 => SnapshotOf(snapshots, item.snapshot, posted[c][1].preamble)

KiminaInv == KiminaTypes /\ KeptMatch /\ PostedMatch /\ ReplyMatches /\ VerdictsOwn

LEMMA KiminaInitHolds == KiminaInit => KiminaInv
  <1> SUFFICES ASSUME KiminaInit PROVE KiminaInv
    OBVIOUS
  <1> USE DEF KiminaInit, NoBatch
  <1>1. KiminaTypes
    <2>1. <<Default>> \in Seq(Imports)
      BY KiminaAssumption
    <2>2. envs \in Seq(Seq(Imports)) /\ Len(envs) = 1
      BY <2>1
    <2> QED
      BY <2>2, KiminaAssumption DEF KiminaTypes
  <1>2. KeptMatch /\ PostedMatch /\ ReplyMatches /\ VerdictsOwn
    BY DEF KeptMatch, PostedMatch, ReplyMatches, VerdictsOwn
  <1> QED
    BY <1>1, <1>2 DEF KiminaInv

\* The types of one batch and its answers.
LEMMA BatchTypes ==
  ASSUME KiminaTypes, NEW c \in Clients
  PROVE  /\ posted[c] \in Seq(Requests) /\ Len(posted[c]) \in Nat
         /\ posted[c] # NoBatch => Len(posted[c]) > 0
         /\ \A i \in 1..Len(posted[c]) :
              /\ posted[c][i] \in Requests /\ posted[c][i].preamble \in Seq(Imports)
              /\ posted[c][i].proof \in Proofs
         /\ reply[c] \in Seq(Items) /\ Len(reply[c]) \in Nat
         /\ \A k \in 1..Len(reply[c]) : reply[c][k] \in Items
  <1>1. posted[c] \in Seq(Requests) /\ reply[c] \in Seq(Items)
    BY DEF KiminaTypes
  <1>2. /\ Len(posted[c]) \in Nat /\ Len(reply[c]) \in Nat
        /\ posted[c] # <<>> => Len(posted[c]) > 0
        /\ \A i \in 1..Len(posted[c]) : posted[c][i] \in Requests
        /\ \A k \in 1..Len(reply[c]) : reply[c][k] \in Items
    <2> HIDE DEF Requests, Items
    <2> QED
      BY <1>1
  <1>3. \A q \in Requests : q.preamble \in Seq(Imports) /\ q.proof \in Proofs
    BY DEF Requests
  <1> QED
    BY <1>1, <1>2, <1>3 DEF NoBatch

\* Environments are only added.
LEMMA PreamblesGrow ==
  ASSUME KiminaTypes, NEW e \in Seq(Imports), envs' = Append(envs, e)
  PROVE  \A p \in Preambles : p \in Preambles'
  <1> SUFFICES ASSUME NEW i \in 1..Len(envs) PROVE envs[i] \in Preambles'
    BY DEF Preambles
  <1>1. envs'[i] = envs[i] /\ i \in 1..Len(envs')
    BY DEF KiminaTypes
  <1> QED
    BY <1>1 DEF Preambles

\* A step that adds an environment at most, and ends a client's batch at most.
LEMMA EnvAdded ==
  ASSUME KiminaInv, UNCHANGED <<replay, reply, snapshots>>,
         \/ UNCHANGED envs
         \/ /\ Len(envs) < MaxEnvs
            /\ \E e \in Seq(Imports) : envs' = Append(envs, e),
         \/ UNCHANGED <<posted, told>>
         \/ \E c \in Clients : /\ reply[c] = NoBatch
                               /\ posted' = [posted EXCEPT ![c] = NoBatch]
                               /\ told' = [told EXCEPT ![c] = NoBatch]
  PROVE  KiminaInv'
  <1>1. \A p \in Preambles : p \in Preambles'
    BY PreamblesGrow DEF KiminaInv, Preambles
  <1>2. envs' \in Seq(Seq(Imports)) /\ Len(envs') <= MaxEnvs
    <2>1. envs \in Seq(Seq(Imports)) /\ Len(envs) <= MaxEnvs
      BY DEF KiminaInv, KiminaTypes
    <2>2. CASE UNCHANGED envs
      BY <2>1, <2>2
    <2>3. ASSUME NEW e \in Seq(Imports), envs' = Append(envs, e), Len(envs) < MaxEnvs
          PROVE  envs' \in Seq(Seq(Imports)) /\ Len(envs') <= MaxEnvs
      BY <2>1, <2>3, KiminaAssumption
    <2> QED
      BY <2>2, <2>3
  <1>3. /\ posted' \in [Clients -> Seq(Requests)]
        /\ told' \in [Clients -> Seq(Verdicts \cup {Missing})]
        /\ \A c \in Clients :
             \/ posted'[c] = posted[c] /\ told'[c] = told[c]
             \/ posted'[c] = NoBatch /\ told'[c] = NoBatch /\ reply[c] = NoBatch
    <2>1. /\ posted \in [Clients -> Seq(Requests)]
          /\ told \in [Clients -> Seq(Verdicts \cup {Missing})]
          /\ NoBatch \in Seq(Requests) /\ NoBatch \in Seq(Verdicts \cup {Missing})
      BY DEF KiminaInv, KiminaTypes, NoBatch
    <2>2. CASE UNCHANGED <<posted, told>>
      BY <2>1, <2>2
    <2>3. ASSUME NEW c \in Clients, reply[c] = NoBatch,
                 posted' = [posted EXCEPT ![c] = NoBatch], told' = [told EXCEPT ![c] = NoBatch]
          PROVE  <1>3!1 /\ <1>3!2 /\ <1>3!3
      <3>1. /\ posted' \in [Clients -> Seq(Requests)]
            /\ posted'[c] = NoBatch /\ \A b \in Clients : b # c => posted'[b] = posted[b]
        BY <2>1, <2>3
      <3>2. /\ told' \in [Clients -> Seq(Verdicts \cup {Missing})]
            /\ told'[c] = NoBatch /\ \A b \in Clients : b # c => told'[b] = told[b]
        BY <2>1, <2>3
      <3> QED
        BY <2>3, <3>1, <3>2
    <2> QED
      BY <2>2, <2>3
  <1>4. KiminaTypes'
    BY <1>2, <1>3, KiminaAssumption DEF KiminaInv, KiminaTypes, NoBatch
  <1>5. KeptMatch'
    BY <1>1 DEF KiminaInv, KeptMatch, SnapshotOf
  <1>6. PostedMatch'
    BY <1>1, <1>3 DEF KiminaInv, PostedMatch, SnapshotOf, NoBatch
  <1>7. ReplyMatches'
    <2> SUFFICES ASSUME NEW c \in Clients, NEW k \in 1..Len(reply[c])
                 PROVE  posted'[c] = posted[c]
      BY DEF KiminaInv, ReplyMatches
    <2>1. reply[c] # NoBatch
      BY DEF NoBatch
    <2> QED
      BY <1>3, <2>1
  <1>8. VerdictsOwn'
    BY <1>3 DEF KiminaInv, VerdictsOwn, NoBatch
  <1> QED
    BY <1>4, <1>5, <1>6, <1>7, <1>8 DEF KiminaInv

LEMMA ImportKeeps ==
  ASSUME KiminaInv, NEW env \in 1..Len(envs), NEW command \in Imports,
         ImportCommand(env, command)
  PROVE  KiminaInv'
  <1>1. Append(envs[env], command) \in Seq(Imports)
    BY DEF KiminaInv, KiminaTypes
  <1> QED
    BY <1>1, EnvAdded DEF ImportCommand

LEMMA ReturnKeeps == ASSUME KiminaInv, NEW c \in Clients, Return(c) PROVE KiminaInv'
  <1>1. reply[c] = NoBatch
    BY DEF Return, KiminaInv, KiminaTypes
  <1>2. Len(posted[c]) = 1 => posted[c][1].preamble \in Seq(Imports)
    BY BatchTypes DEF KiminaInv
  <1> QED
    BY <1>1, <1>2, EnvAdded DEF Return

\* The request for a proof.
LEMMA RequestMatches ==
  ASSUME KiminaInv, NEW env \in 1..Len(envs), NEW proof \in Proofs
  PROVE  LET r == RequestOf(proof, envs[env]) IN
           /\ r \in Requests /\ r.preamble = envs[env] /\ r.preamble \in Preambles
           /\ r.handle # 0 => SnapshotOf(snapshots, r.handle, r.preamble)
  <1>1. envs[env] \in Seq(Imports) /\ envs[env] \in Preambles
    BY DEF KiminaInv, KiminaTypes, Preambles
  <1>2. envs[env] \in DOMAIN replay => SnapshotOf(snapshots, replay[envs[env]], envs[env])
    BY DEF KiminaInv, KeptMatch
  <1>3. envs[env] \in DOMAIN replay => replay[envs[env]] \in Nat
    BY <1>2 DEF SnapshotOf, KiminaInv, KiminaTypes
  <1> QED
    BY <1>1, <1>2, <1>3 DEF RequestOf, Requests

LEMMA PostKeeps ==
  ASSUME KiminaInv, NEW c \in Clients, NEW env \in 1..Len(envs), NEW proofs \in Batches,
         Post(c, proofs, env)
  PROVE  KiminaInv'
  <1> DEFINE batch == [i \in 1..Len(proofs) |-> RequestOf(proofs[i], envs[env])]
  <1>1. /\ posted[c] = NoBatch /\ told[c] = NoBatch
        /\ posted' = [posted EXCEPT ![c] = batch]
        /\ UNCHANGED <<envs, replay, reply, told, snapshots>>
    BY DEF Post
  <1>2. /\ Len(proofs) \in 1..MaxBatch
        /\ \A i \in 1..Len(proofs) : proofs[i] \in Proofs
    <2>1. PICK n \in 1..MaxBatch : proofs \in [1..n -> Proofs]
      BY DEF Batches, Proofs
    <2>2. n \in Nat /\ proofs \in Seq(Proofs)
      BY <2>1, KiminaAssumption
    <2>3. Len(proofs) = n
      BY <2>1, <2>2
    <2> QED
      BY <2>1, <2>2, <2>3
  <1>3. /\ batch \in Seq(Requests) /\ Len(batch) = Len(proofs)
        /\ \A i \in 1..Len(batch) :
             /\ batch[i].preamble = envs[env] /\ batch[i].preamble \in Preambles
             /\ batch[i].handle # 0 => SnapshotOf(snapshots, batch[i].handle, batch[i].preamble)
    <2>1. \A i \in 1..Len(proofs) :
            /\ batch[i] \in Requests
            /\ batch[i].preamble = envs[env] /\ batch[i].preamble \in Preambles
            /\ batch[i].handle # 0 => SnapshotOf(snapshots, batch[i].handle, batch[i].preamble)
      BY <1>2, RequestMatches
    <2>2. Len(proofs) \in Nat /\ DOMAIN batch = 1..Len(proofs)
      BY <1>2, KiminaAssumption
    <2>3. batch \in [1..Len(proofs) -> Requests]
      BY <2>1
    <2> HIDE DEF batch
    <2>4. batch \in Seq(Requests) /\ Len(batch) = Len(proofs)
      BY <2>2, <2>3
    <2> QED
      BY <2>1, <2>4
  <1> HIDE DEF batch
  <1>4. /\ posted' \in [Clients -> Seq(Requests)] /\ posted'[c] = batch
        /\ \A b \in Clients : b # c => posted'[b] = posted[b]
    BY <1>1, <1>3 DEF KiminaInv, KiminaTypes
  <1>5. reply[c] = NoBatch
    BY <1>1 DEF KiminaInv, KiminaTypes
  <1>6. KiminaTypes'
    BY <1>1, <1>2, <1>3, <1>4, <1>5, KiminaAssumption DEF KiminaInv, KiminaTypes, NoBatch
  <1>7. KeptMatch'
    BY <1>1 DEF KiminaInv, KeptMatch, SnapshotOf, Preambles
  <1>8. PostedMatch'
    <2> SUFFICES ASSUME NEW b \in Clients, NEW i \in 1..Len(posted'[b])
                 PROVE  LET r == posted'[b][i] IN
                          /\ r.preamble = posted'[b][1].preamble /\ r.preamble \in Preambles
                          /\ r.handle # 0 => SnapshotOf(snapshots, r.handle, r.preamble)
      BY <1>1 DEF PostedMatch, SnapshotOf, Preambles
    <2>1. CASE b = c
      BY <1>2, <1>3, <1>4, <2>1, KiminaAssumption
    <2>2. CASE b # c
      BY <1>4, <2>2 DEF KiminaInv, PostedMatch
    <2> QED
      BY <2>1, <2>2
  <1>9. ReplyMatches' /\ VerdictsOwn'
    <2>1. ASSUME NEW b \in Clients, b # c
          PROVE  posted'[b] = posted[b] /\ reply'[b] = reply[b] /\ told'[b] = told[b]
      BY <1>1, <1>4, <2>1
    <2>2. reply'[c] = NoBatch /\ told'[c] = NoBatch
      BY <1>1, <1>5
    <2>3. ReplyMatches'
      BY <1>1, <2>1, <2>2 DEF KiminaInv, ReplyMatches, SnapshotOf, NoBatch
    <2>4. VerdictsOwn'
      BY <2>1, <2>2 DEF KiminaInv, VerdictsOwn, NoBatch
    <2> QED
      BY <2>3, <2>4
  <1> QED
    BY <1>6, <1>7, <1>8, <1>9 DEF KiminaInv

\* The snapshots made before stay what they are.
LEMMA SnapshotsGrow ==
  ASSUME KiminaTypes, NEW new \in Seq(Seq(Imports)), snapshots' = snapshots \o new
  PROVE  /\ snapshots' \in Seq(Seq(Imports))
         /\ Len(snapshots') = Len(snapshots) + Len(new)
         /\ \A n \in 1..Len(snapshots) : n \in 1..Len(snapshots') /\ snapshots'[n] = snapshots[n]
         /\ \A n \in 1..Len(new) : snapshots'[Len(snapshots) + n] = new[n]
  BY DEF KiminaTypes

LEMMA ServeKeeps == ASSUME KiminaInv, NEW c \in Clients, Serve(c) PROVE KiminaInv'
  <1> DEFINE n == Len(posted[c])
             says(i, silent) == IF posted[c][i].proof \in Goods THEN "accepted"
                                ELSE IF silent THEN "silent" ELSE "rejected"
             kept(order, silent, k) == {j \in 1..k : says(order[j], silent) = "accepted"}
             number(order, silent, k) ==
               IF k \in kept(order, silent, k)
               THEN Len(snapshots) + Cardinality(kept(order, silent, k)) ELSE 0
             item(order, silent, k) ==
               Item(order[k], says(order[k], silent), number(order, silent, k))
             new(order, silent) ==
               [i \in 1..Cardinality(kept(order, silent, Len(order))) |->
                  posted[c][1].preamble]
  <1>1. /\ posted[c] # NoBatch /\ reply[c] = NoBatch /\ told[c] = NoBatch
        /\ UNCHANGED <<envs, replay, posted, told>>
    BY DEF Serve
  <1>2. PICK order \in Orders(n), silent \in BOOLEAN :
          /\ snapshots' = snapshots \o new(order, silent)
          /\ reply' = [reply EXCEPT ![c] = [k \in 1..Len(order) |-> item(order, silent, k)]]
    BY DEF Serve
  <1> DEFINE total == Cardinality(kept(order, silent, Len(order)))
             answers == [k \in 1..Len(order) |-> item(order, silent, k)]
             made == new(order, silent)
  <1> HIDE DEF answers, made, total, n, says, kept, number, item, new
  <1>3. Len(order) \in Nat /\ order \in [1..Len(order) -> 1..n]
    <2>1. PICK m \in 1..n : order \in [1..m -> 1..n]
      BY DEF Orders, Injection
    <2>2. m \in Nat /\ order \in Seq(1..n)
      <3>1. n \in Nat
        BY BatchTypes DEF KiminaInv, n
      <3> QED
        BY <2>1, <3>1
    <2> QED
      BY <2>1, <2>2
  <1>4. \A k \in 0..Len(order) : /\ IsFiniteSet(kept(order, silent, k))
                                 /\ Cardinality(kept(order, silent, k)) \in Nat
                                 /\ Cardinality(kept(order, silent, k)) <= total
    <2> TAKE k \in 0..Len(order)
    <2>1. IsFiniteSet(1..Len(order))
      BY <1>3, FS_Interval
    <2>2. /\ kept(order, silent, k) \subseteq kept(order, silent, Len(order))
          /\ kept(order, silent, Len(order)) \subseteq 1..Len(order)
      BY <1>3 DEF kept
    <2> QED
      BY <2>1, <2>2, FS_Subset, FS_CardinalityType DEF total
  <1>5. posted[c][1].preamble \in Seq(Imports) /\ n \in Nat /\ n > 0
    BY <1>1, BatchTypes DEF KiminaInv, n
  <1>6. total \in Nat
    BY <1>3, <1>4 DEF total
  <1>7. made \in Seq(Seq(Imports)) /\ Len(made) = total
        /\ \A i \in 1..total : made[i] = posted[c][1].preamble
    <2>1. made = [i \in 1..total |-> posted[c][1].preamble]
      BY DEF made, new, total
    <2> QED
      BY <1>5, <1>6, <2>1
  <1>8. /\ snapshots' \in Seq(Seq(Imports)) /\ Len(snapshots) \in Nat
        /\ Len(snapshots') = Len(snapshots) + total
        /\ \A i \in 1..Len(snapshots) : i \in 1..Len(snapshots') /\ snapshots'[i] = snapshots[i]
        /\ \A i \in 1..total : snapshots'[Len(snapshots) + i] = posted[c][1].preamble
    <2>1. snapshots' = snapshots \o made
      BY <1>2 DEF made
    <2>2. KiminaTypes /\ snapshots \in Seq(Seq(Imports))
      BY DEF KiminaInv, KiminaTypes
    <2>3. Len(snapshots) \in Nat
      BY <2>2
    <2> QED
      BY <1>7, <2>1, <2>2, <2>3, SnapshotsGrow
  <1>9. ASSUME NEW m, NEW p, SnapshotOf(snapshots, m, p) PROVE SnapshotOf(snapshots', m, p)
    BY <1>8, <1>9 DEF SnapshotOf
  <1>10. ASSUME NEW k \in 1..Len(order)
         PROVE  /\ answers[k] \in Items /\ answers[k].id \in 1..n
                /\ (answers[k].says = "accepted") = (posted[c][answers[k].id].proof \in Goods)
                /\ answers[k].snapshot # 0
                     => SnapshotOf(snapshots', answers[k].snapshot, posted[c][1].preamble)
    <2> DEFINE size == Cardinality(kept(order, silent, k))
               snapshot == number(order, silent, k)
    <2>1. /\ order[k] \in 1..n /\ says(order[k], silent) \in Verdicts
          /\ (says(order[k], silent) = "accepted") = (posted[c][order[k]].proof \in Goods)
      BY <1>3 DEF Verdicts, says
    <2>2. size \in Nat /\ size <= total /\ IsFiniteSet(kept(order, silent, k))
      BY <1>3, <1>4
    <2>3. k \in kept(order, silent, k) => size # 0
      BY <2>2, FS_EmptySet
    <2> HIDE DEF size, snapshot
    <2>4. \/ snapshot = 0
          \/ snapshot = Len(snapshots) + size /\ size # 0
      BY <2>3 DEF number, snapshot, size
    <2>5. snapshot \in Nat
      BY <1>8, <2>2, <2>4
    <2>6. ASSUME snapshot # 0 PROVE SnapshotOf(snapshots', snapshot, posted[c][1].preamble)
      <3>1. size \in 1..total /\ snapshot = Len(snapshots) + size
        BY <1>6, <2>2, <2>4, <2>6
      <3>2. snapshots'[Len(snapshots) + size] = posted[c][1].preamble
        BY <1>8, <3>1
      <3>3. Len(snapshots) + size \in 1..Len(snapshots')
        BY <1>6, <1>8, <3>1
      <3> QED
        BY <3>1, <3>2, <3>3 DEF SnapshotOf
    <2>7. answers[k] = Item(order[k], says(order[k], silent), snapshot)
      BY DEF answers, item, snapshot
    <2>8. /\ answers[k].id = order[k] /\ answers[k].says = says(order[k], silent)
          /\ answers[k].snapshot = snapshot
      BY <2>7 DEF Item
    <2>9. answers[k] \in Items
      <3>1. order[k] \in Nat
        BY <1>5, <2>1
      <3> QED
        BY <2>1, <2>5, <2>7, <3>1 DEF Item, Items
    <2> QED
      BY <2>1, <2>6, <2>8, <2>9
  <1>11. answers \in Seq(Items) /\ Len(answers) = Len(order)
    <2>1. DOMAIN answers = 1..Len(order) /\ answers = [k \in 1..Len(order) |-> answers[k]]
      BY DEF answers
    <2>2. answers \in [1..Len(order) -> Items]
      BY <1>10, <2>1
    <2> QED
      BY <1>3, <2>2
  <1>12. /\ reply' \in [Clients -> Seq(Items)] /\ reply'[c] = answers
         /\ \A b \in Clients : b # c => reply'[b] = reply[b]
    <2>1. reply' = [reply EXCEPT ![c] = answers]
      BY <1>2 DEF answers
    <2> QED
      BY <1>11, <2>1 DEF KiminaInv, KiminaTypes
  <1>13. KiminaTypes'
    BY <1>1, <1>8, <1>12 DEF KiminaInv, KiminaTypes
  <1>14. KeptMatch'
    BY <1>1, <1>9 DEF KiminaInv, KeptMatch, Preambles
  <1>15. PostedMatch'
    BY <1>1, <1>9 DEF KiminaInv, PostedMatch, Preambles
  <1>16. ReplyMatches'
    <2> SUFFICES ASSUME NEW b \in Clients, NEW k \in 1..Len(reply'[b])
                 PROVE  LET it == reply'[b][k] IN
                          /\ it.id \in 1..Len(posted[b])
                          /\ (it.says = "accepted") = (posted[b][it.id].proof \in Goods)
                          /\ it.snapshot # 0
                               => SnapshotOf(snapshots', it.snapshot, posted[b][1].preamble)
      BY <1>1 DEF ReplyMatches, SnapshotOf
    <2>1. CASE b = c
      BY <1>10, <1>11, <1>12, <2>1 DEF n
    <2>2. CASE b # c
      BY <1>9, <1>12, <2>2 DEF KiminaInv, ReplyMatches
    <2> QED
      BY <2>1, <2>2
  <1>17. VerdictsOwn'
    BY <1>1 DEF KiminaInv, VerdictsOwn
  <1> QED
    BY <1>13, <1>14, <1>15, <1>16, <1>17 DEF KiminaInv

\* The result of request i is that of an item about it, or missing.
LEMMA ResultOwn ==
  ASSUME KiminaInv, NEW c \in Clients, NEW i \in 1..Len(posted[c])
  PROVE  LET r == Result(c, i) IN
           /\ r.says \in Verdicts \cup {Missing}
           /\ r.says # Missing => (r.says = "accepted") = (posted[c][i].proof \in Goods)
           /\ r.snapshot # 0 => SnapshotOf(snapshots, r.snapshot, posted[c][1].preamble)
  <1>1. CASE ItemFor(c, i) = {}
    BY <1>1 DEF Result, Item, Missing
  <1>2. CASE ItemFor(c, i) # {}
    <2>1. Result(c, i) \in ItemFor(c, i)
      BY <1>2 DEF Result
    <2>2. PICK k \in 1..Len(reply[c]) : Result(c, i) = reply[c][k] /\ reply[c][k].id = i
      BY <2>1 DEF ItemFor
    <2>3. reply[c][k] \in Items
      BY DEF KiminaInv, KiminaTypes
    <2> QED
      BY <2>2, <2>3 DEF KiminaInv, ReplyMatches, Items
  <1> QED
    BY <1>1, <1>2

\* A batch ends: what is told of each proof is its own verdict, if it is told any.
LEMMA Told ==
  ASSUME KiminaInv, NEW c \in Clients, posted[c] # NoBatch,
         NEW words \in [1..Len(posted[c]) -> Verdicts \cup {Missing}],
         \A i \in 1..Len(posted[c]) :
           words[i] # Missing => (words[i] = "accepted") = (posted[c][i].proof \in Goods),
         told' = [told EXCEPT ![c] = words],
         reply' = [reply EXCEPT ![c] = NoBatch],
         UNCHANGED <<envs, posted, snapshots>>
  PROVE  KiminaTypes' /\ PostedMatch' /\ ReplyMatches' /\ VerdictsOwn'
  <1>1. Len(posted[c]) \in Nat
    BY BatchTypes DEF KiminaInv
  <1>2. words \in Seq(Verdicts \cup {Missing}) /\ Len(words) = Len(posted[c])
    BY <1>1
  <1>3. /\ told' \in [Clients -> Seq(Verdicts \cup {Missing})] /\ told'[c] = words
        /\ \A b \in Clients : b # c => told'[b] = told[b]
    BY <1>2 DEF KiminaInv, KiminaTypes
  <1>4. /\ reply' \in [Clients -> Seq(Items)] /\ reply'[c] = NoBatch
        /\ \A b \in Clients : b # c => reply'[b] = reply[b]
    BY DEF KiminaInv, KiminaTypes, NoBatch
  <1>5. KiminaTypes'
    BY <1>2, <1>3, <1>4 DEF KiminaInv, KiminaTypes
  <1>6. PostedMatch'
    BY DEF KiminaInv, PostedMatch, SnapshotOf, Preambles
  <1>7. ReplyMatches'
    BY <1>4 DEF KiminaInv, ReplyMatches, SnapshotOf, NoBatch
  <1>8. VerdictsOwn'
    <2> SUFFICES ASSUME NEW b \in Clients, NEW i \in 1..Len(told'[b]), told'[b][i] # Missing
                 PROVE  (told'[b][i] = "accepted") = (posted[b][i].proof \in Goods)
      BY DEF VerdictsOwn
    <2>1. CASE b = c
      BY <1>2, <1>3, <2>1
    <2>2. CASE b # c
      BY <1>3, <2>2 DEF KiminaInv, VerdictsOwn
    <2> QED
      BY <2>1, <2>2
  <1> QED
    BY <1>5, <1>6, <1>7, <1>8

LEMMA ReceivedKeeps == ASSUME KiminaInv, NEW c \in Clients, Received(c) PROVE KiminaInv'
  <1>1. /\ posted[c] # NoBatch
        /\ told' = [told EXCEPT ![c] = [i \in 1..Len(posted[c]) |-> Result(c, i).says]]
        /\ reply' = [reply EXCEPT ![c] = NoBatch]
        /\ UNCHANGED <<envs, posted, snapshots>>
    BY DEF Received, KiminaInv, KiminaTypes
  <1>2. KiminaTypes' /\ PostedMatch' /\ ReplyMatches' /\ VerdictsOwn'
    <2> DEFINE words == [i \in 1..Len(posted[c]) |-> Result(c, i).says]
    <2>1. \A i \in 1..Len(posted[c]) :
            /\ Result(c, i).says \in Verdicts \cup {Missing}
            /\ Result(c, i).says # Missing
                 => (Result(c, i).says = "accepted") = (posted[c][i].proof \in Goods)
      BY ResultOwn
    <2>2. /\ words \in [1..Len(posted[c]) -> Verdicts \cup {Missing}]
          /\ \A i \in 1..Len(posted[c]) :
               words[i] # Missing => (words[i] = "accepted") = (posted[c][i].proof \in Goods)
      BY <2>1
    <2>3. told' = [told EXCEPT ![c] = words]
      BY <1>1
    <2> HIDE DEF words
    <2> QED
      BY <1>1, <2>2, <2>3, Told
  <1>3. KeptMatch'
    <2> DEFINE p == posted[c][1].preamble
    <2>1. \/ UNCHANGED replay
          \/ \E i \in 1..Len(posted[c]) :
               /\ Result(c, i).snapshot # 0
               /\ replay' = [q \in DOMAIN replay \cup {p} |->
                               IF q = p THEN Result(c, i).snapshot ELSE replay[q]]
      BY DEF Received
    <2>2. p \in Preambles
      <3>1. 1 \in 1..Len(posted[c])
        BY <1>1 DEF KiminaInv, KiminaTypes, NoBatch
      <3> QED
        BY <3>1 DEF KiminaInv, PostedMatch
    <2> HIDE DEF p
    <2>3. \A i \in 1..Len(posted[c]) : Result(c, i).snapshot # 0
            => SnapshotOf(snapshots, Result(c, i).snapshot, p)
      BY ResultOwn DEF p
    <2>4. \A q \in DOMAIN replay' : q \in Preambles /\ SnapshotOf(snapshots, replay'[q], q)
      BY <2>1, <2>2, <2>3 DEF KiminaInv, KeptMatch
    <2> QED
      BY <1>1, <2>4 DEF KeptMatch, SnapshotOf, Preambles
  <1> QED
    BY <1>2, <1>3 DEF KiminaInv

LEMMA PostFailsKeeps == ASSUME KiminaInv, NEW c \in Clients, PostFails(c) PROVE KiminaInv'
  <1>1. /\ posted[c] # NoBatch
        /\ told' = [told EXCEPT ![c] = [i \in 1..Len(posted[c]) |-> Missing]]
        /\ reply' = [reply EXCEPT ![c] = NoBatch]
        /\ UNCHANGED <<envs, replay, posted, snapshots>>
    BY DEF PostFails
  <1>2. KiminaTypes' /\ PostedMatch' /\ ReplyMatches' /\ VerdictsOwn'
    <2> DEFINE words == [i \in 1..Len(posted[c]) |-> Missing]
    <2>1. /\ words \in [1..Len(posted[c]) -> Verdicts \cup {Missing}]
          /\ \A i \in 1..Len(posted[c]) : words[i] = Missing
      OBVIOUS
    <2>2. told' = [told EXCEPT ![c] = words]
      BY <1>1
    <2> HIDE DEF words
    <2> QED
      BY <1>1, <2>1, <2>2, Told
  <1>3. KeptMatch'
    BY <1>1 DEF KiminaInv, KeptMatch, SnapshotOf, Preambles
  <1> QED
    BY <1>2, <1>3 DEF KiminaInv

LEMMA KiminaStep == KiminaInv /\ KiminaNext => KiminaInv'
  BY ImportKeeps, PostKeeps, ServeKeeps, ReceivedKeeps, PostFailsKeeps, ReturnKeeps
    DEF KiminaNext

LEMMA KiminaStutter == KiminaInv /\ UNCHANGED kiminaVars => KiminaInv'
  BY DEF kiminaVars, KiminaInv, KiminaTypes, KeptMatch, PostedMatch, ReplyMatches,
         VerdictsOwn, SnapshotOf, Preambles

-----------------------------------------------------------------------------
(* Pantograph.                                                              *)

StatesMade == [live : ProofStates \cup {Local}, goals : Nat, from : Nat]
Commands == [do : Methods, from : Nat, tactic : Tactics, at : Nat]

PantographTypes ==
  /\ methods \subseteq Methods
  /\ states \in Seq(StatesMade) /\ Len(states) <= MaxStates
  /\ \A n \in 1..Len(states) : states[n].from \in 0..n - 1
  /\ asked \in [Users -> {NoCommand} \cup Commands]
  /\ unsure \subseteq 1..Len(states)

\* A call under way is of a method there is, on a proof state the engine made.
AskedLive ==
  \A u \in Users : asked[u] # NoCommand =>
    /\ asked[u].do \in methods /\ asked[u].from \in 1..Len(states)
    /\ Live(asked[u].from) # Local

\* A proof state with these goals is one that the engine completed, or CompletionEarned
\* exempts it.
Earned(live, goals, from) ==
  goals = 0 =>
    IF live # Local THEN Complete(live)
    ELSE \/ Shown(from) = 0 \/ from \in unsure \/ Live(from) = Local
         \/ "goal_tactic" \notin methods

AllEarned ==
  \A n \in 1..Len(states) \ unsure : Earned(states[n].live, states[n].goals, states[n].from)

PantographInv == PantographTypes /\ AskedLive /\ AllEarned

LEMMA PantographInitHolds == PantographInit => PantographInv
  BY PantographAssumption
    DEF PantographInit, PantographInv, PantographTypes, AskedLive, AllEarned

\* A proof state is added and a call ends at most.
LEMMA AddKeeps ==
  ASSUME PantographInv, NEW live \in ProofStates \cup {Local}, NEW goals \in Nat,
         NEW from \in 0..Len(states), Add(live, goals, from), UNCHANGED methods,
         \/ Earned(live, goals, from) /\ UNCHANGED unsure
         \/ unsure' = unsure \cup {Len(states) + 1},
         \/ UNCHANGED asked
         \/ \E u \in Users : asked' = [asked EXCEPT ![u] = NoCommand]
  PROVE  PantographInv'
  <1> DEFINE made == [live |-> live, goals |-> goals, from |-> from]
  <1>1. states \in Seq(StatesMade) /\ Len(states) \in Nat
    <2>1. states \in Seq(StatesMade)
      BY DEF PantographInv, PantographTypes
    <2> HIDE DEF StatesMade
    <2> QED
      BY <2>1
  <1>2. states' = Append(states, made) /\ Len(states) < MaxStates
    BY DEF Add
  <1>3. /\ made \in StatesMade /\ made.live = live /\ made.goals = goals
        /\ made.from = from
    BY <1>1 DEF StatesMade
  <1> HIDE DEF made
  <1>4. /\ states' \in Seq(StatesMade) /\ Len(states') = Len(states) + 1
        /\ states'[Len(states) + 1] = made
        /\ \A n \in 1..Len(states) : states'[n] = states[n]
    <2> HIDE DEF StatesMade
    <2> QED
      BY <1>1, <1>2, <1>3
  <1>5. /\ asked' \in [Users -> {NoCommand} \cup Commands]
        /\ \A u \in Users : asked'[u] \in {NoCommand, asked[u]}
    BY DEF PantographInv, PantographTypes
  <1>6. ASSUME NEW n \in 1..Len(states')
        PROVE  \/ n \in 1..Len(states) /\ states'[n] = states[n]
               \/ n = Len(states) + 1 /\ states'[n] = made
    BY <1>1, <1>4
  <1>7. PantographTypes'
    <2>1. \A n \in 1..Len(states') : states'[n].from \in 0..n - 1
      BY <1>1, <1>3, <1>6 DEF PantographInv, PantographTypes
    <2>2. Len(states') <= MaxStates
      BY <1>1, <1>2, <1>4, PantographAssumption
    <2>3. unsure' \subseteq 1..Len(states')
      <3>1. unsure \subseteq 1..Len(states)
        BY DEF PantographInv, PantographTypes
      <3>2. 1..Len(states) \subseteq 1..Len(states') /\ Len(states) + 1 \in 1..Len(states')
        BY <1>1, <1>4
      <3>3. unsure' \subseteq unsure \cup {Len(states) + 1}
        OBVIOUS
      <3> QED
        BY <3>1, <3>2, <3>3
    <2>4. methods' \subseteq Methods
      BY DEF PantographInv, PantographTypes
    <2> QED
      BY <1>4, <1>5, <2>1, <2>2, <2>3, <2>4 DEF PantographTypes
  <1>8. AskedLive'
    <2> SUFFICES ASSUME NEW u \in Users, asked'[u] # NoCommand
                 PROVE  /\ asked'[u].do \in methods' /\ asked'[u].from \in 1..Len(states')
                        /\ Live(asked[u].from)' # Local
      BY DEF AskedLive
    <2>1. asked'[u] = asked[u]
      BY <1>5
    <2>2. /\ asked[u].do \in methods /\ asked[u].from \in 1..Len(states)
          /\ Live(asked[u].from) # Local
      BY <2>1 DEF PantographInv, AskedLive
    <2>3. Live(asked[u].from)' # Local
      <3>1. PICK n \in 1..Len(states) : n = asked[u].from /\ n = asked'[u].from
        BY <2>1, <2>2
      <3>2. Live(n)' = Live(n)
        BY <1>1, <1>4 DEF Live
      <3> QED
        BY <2>2, <3>1, <3>2
    <2> QED
      BY <1>1, <1>4, <2>1, <2>2, <2>3
  <1>9. \A n \in 0..Len(states) : Live(n)' = Live(n) /\ Shown(n)' = Shown(n)
    BY <1>1, <1>4 DEF Live, Shown
  <1>10. AllEarned'
    <2> SUFFICES ASSUME NEW n \in 1..Len(states'), n \notin unsure'
                 PROVE  Earned(states[n].live, states[n].goals, states[n].from)'
      BY DEF AllEarned
    <2>1. PICK base \in 0..Len(states) : base = states'[n].from
      BY <1>1, <1>3, <1>6 DEF PantographInv, PantographTypes
    <2>2. Live(base)' = Live(base) /\ Shown(base)' = Shown(base)
      BY <1>9, Zenon
    <2>3. unsure \subseteq unsure'
      OBVIOUS
    <2>4. Earned(states'[n].live, states'[n].goals, base)
      <3>1. CASE n \in 1..Len(states) /\ states'[n] = states[n]
        <4>1. n \in 1..Len(states) \ unsure
          BY <2>3, <3>1
        <4> QED
          BY <2>1, <3>1, <4>1, Zenon DEF PantographInv, AllEarned
      <3>2. CASE n = Len(states) + 1 /\ states'[n] = made
        BY <1>3, <2>1, <3>2
      <3> QED
        BY <1>6, <3>1, <3>2
    <2>5. Earned(states[n].live, states[n].goals, base)'
      BY <2>2, <2>3, <2>4 DEF Earned
    <2> QED
      BY <2>1, <2>5 DEF Earned
  <1> QED
    BY <1>7, <1>8, <1>10 DEF PantographInv

\* What is made without the engine.
LEMMA WithoutEarned ==
  ASSUME PantographInv, NEW do \in Methods, NEW n \in 0..Len(states),
         do = "goal_tactic" => "goal_tactic" \notin methods \/ Live(n) = Local
  PROVE  GoalsWithout(do, n) \in Nat /\ Earned(Local, GoalsWithout(do, n), n)
  <1>1. states \in Seq(StatesMade)
    BY DEF PantographInv, PantographTypes
  <1>2. n # 0 => states[n] \in StatesMade
    <2> HIDE DEF StatesMade
    <2> QED
      BY <1>1
  <1>3. Shown(n) \in Nat
    BY <1>2 DEF StatesMade, Shown
  <1>4. CASE do = "goal_tactic"
    BY <1>4 DEF GoalsWithout, Earned
  <1>5. CASE do = "goal_focus"
    BY <1>3, <1>5 DEF GoalsWithout, Earned
  <1>6. CASE do = "goal_have"
    <2>1. GoalsWithout(do, n) = Shown(n) + 1
      BY <1>6 DEF GoalsWithout
    <2> QED
      BY <1>3, <2>1 DEF Earned
  <1> QED
    BY <1>4, <1>5, <1>6, PantographAssumption

\* A proof state the engine made shows the goals it has.
LEMMA LiveEarned ==
  ASSUME NEW s \in ProofStates, NEW from PROVE Goals[s] \in Nat /\ Earned(s, Goals[s], from)
  BY StepsAssumption, PantographAssumption DEF Earned, Complete

LEMMA KeepKeeps ==
  ASSUME PantographInv, NEW s \in ProofStates, NEW from \in 0..Len(states), NEW least \in Nat,
         Keep(s, from, least), UNCHANGED methods,
         \/ UNCHANGED asked
         \/ \E u \in Users : asked' = [asked EXCEPT ![u] = NoCommand]
  PROVE  PantographInv'
  <1>1. Goals[s] \in Nat
    BY LiveEarned
  <1>2. CASE Add(s, Goals[s], from) /\ UNCHANGED unsure
    BY <1>1, <1>2, LiveEarned, AddKeeps
  <1>3. CASE /\ \E read \in least..Goals[s] - 1 : Add(s, read, from)
             /\ unsure' = unsure \cup {Len(states) + 1}
    <2>1. PICK read \in least..Goals[s] - 1 : Add(s, read, from)
      BY <1>3
    <2>2. read \in Nat
      BY <1>1
    <2> QED
      BY <1>3, <2>1, <2>2, AddKeeps
  <1> QED
    BY <1>2, <1>3 DEF Keep

\* A number taken twice is not sure; the numbers behind it are as they were.
LEMMA OverwriteKeeps ==
  ASSUME PantographInv, NEW s \in ProofStates, Overwrite(s), UNCHANGED methods,
         \/ UNCHANGED asked
         \/ \E u \in Users : asked' = [asked EXCEPT ![u] = NoCommand]
  PROVE  PantographInv'
  <1> DEFINE last == Len(states)
  <1>1. states \in Seq(StatesMade) /\ last \in Nat /\ last # 0
    <2>1. states \in Seq(StatesMade)
      BY DEF PantographInv, PantographTypes
    <2>2. last # 0
      BY DEF Overwrite
    <2> HIDE DEF StatesMade
    <2> QED
      BY <2>1, <2>2
  <1>2. PICK live \in {Live(last), s} \ {Local}, goals \in {Shown(last)} \cup 0..Goals[s] :
          states' = [states EXCEPT ![last] = [@ EXCEPT !.live = live, !.goals = goals]]
    BY DEF Overwrite
  <1>3. unsure' = unsure \cup {last}
    BY DEF Overwrite
  <1> HIDE DEF last
  <1>4. states[last] \in StatesMade /\ last \in 1..Len(states)
    <2>1. last \in 1..Len(states)
      BY <1>1 DEF last
    <2> HIDE DEF StatesMade
    <2> QED
      BY <1>1, <2>1
  <1> DEFINE made == [states[last] EXCEPT !.live = live, !.goals = goals]
  <1>5. /\ made \in StatesMade /\ made.live = live /\ made.from = states[last].from
        /\ live # Local
    <2>1. live \in ProofStates \cup {Local} /\ live # Local
      BY <1>1, <1>4 DEF Live, StatesMade
    <2>2. goals \in Nat
      <3>1. Goals[s] \in Nat /\ Shown(last) \in Nat
        BY <1>1, <1>4, LiveEarned DEF Shown, StatesMade
      <3> QED
        BY <3>1
    <2> QED
      BY <1>4, <2>1, <2>2 DEF StatesMade
  <1> HIDE DEF made
  <1>6. /\ states' \in Seq(StatesMade) /\ Len(states') = Len(states) /\ states'[last] = made
        /\ \A n \in 1..Len(states) : n # last => states'[n] = states[n]
    <2>1. states' = [states EXCEPT ![last] = made]
      BY <1>2, Zenon DEF made
    <2> HIDE DEF StatesMade
    <2> QED
      BY <1>1, <1>4, <1>5, <2>1
  <1>7. /\ asked' \in [Users -> {NoCommand} \cup Commands]
        /\ \A u \in Users : asked'[u] \in {NoCommand, asked[u]}
    BY DEF PantographInv, PantographTypes
  <1>8. PantographTypes'
    <2>1. \A n \in 1..Len(states') : states'[n].from \in 0..n - 1
      BY <1>5, <1>6 DEF PantographInv, PantographTypes
    <2>2. unsure' \subseteq 1..Len(states')
      BY <1>3, <1>4, <1>6 DEF PantographInv, PantographTypes
    <2>3. methods' \subseteq Methods /\ Len(states') <= MaxStates
      BY <1>6 DEF PantographInv, PantographTypes
    <2> QED
      BY <1>6, <1>7, <2>1, <2>2, <2>3 DEF PantographTypes
  <1>9. \A n \in 1..Len(states) : Live(n) # Local => Live(n)' # Local
    BY <1>1, <1>4, <1>5, <1>6 DEF Live
  <1>10. AskedLive'
    <2> SUFFICES ASSUME NEW u \in Users, asked'[u] # NoCommand
                 PROVE  /\ asked'[u].do \in methods' /\ asked'[u].from \in 1..Len(states')
                        /\ Live(asked[u].from)' # Local
      BY DEF AskedLive
    <2>1. asked'[u] = asked[u]
      BY <1>7
    <2>2. /\ asked[u].do \in methods /\ asked[u].from \in 1..Len(states)
          /\ Live(asked[u].from) # Local
      BY <2>1 DEF PantographInv, AskedLive
    <2>3. Live(asked[u].from)' # Local
      <3>1. PICK n \in 1..Len(states) : n = asked[u].from /\ n = asked'[u].from
        BY <2>1, <2>2
      <3> QED
        BY <1>9, <2>2, <3>1
    <2> QED
      BY <1>6, <2>1, <2>2, <2>3
  <1>11. AllEarned'
    <2> SUFFICES ASSUME NEW n \in 1..Len(states'), n \notin unsure'
                 PROVE  Earned(states[n].live, states[n].goals, states[n].from)'
      BY DEF AllEarned
    <2>1. n \in 1..Len(states) /\ n # last /\ n \notin unsure /\ states'[n] = states[n]
      BY <1>3, <1>6
    <2>3. PICK from \in 0..Len(states) : from = states'[n].from
      BY <1>1, <2>1 DEF PantographInv, PantographTypes
    <2>2. Earned(states'[n].live, states'[n].goals, from)
      BY <2>1, <2>3, Zenon DEF PantographInv, AllEarned
    <2>4. from \in unsure' \/ (Live(from)' = Live(from) /\ Shown(from)' = Shown(from))
      BY <1>3, <1>6 DEF Live, Shown
    <2>5. unsure \subseteq unsure'
      BY <1>3
    <2>6. Earned(states[n].live, states[n].goals, from)'
      BY <2>2, <2>4, <2>5 DEF Earned
    <2> QED
      BY <2>3, <2>6 DEF Earned
  <1> QED
    BY <1>8, <1>10, <1>11 DEF PantographInv

LEMMA AskKeeps ==
  ASSUME PantographInv, NEW u \in Users, NEW do \in Methods, NEW n \in 0..Len(states),
         NEW t \in Tactics, Ask(u, do, n, t)
  PROVE  PantographInv'
  <1> DEFINE command == [do |-> do, from |-> n, tactic |-> t, at |-> Len(states)]
  <1>1. /\ do \in methods /\ Live(n) # Local /\ asked' = [asked EXCEPT ![u] = command]
        /\ UNCHANGED <<methods, states, unsure>>
    BY DEF Ask
  <1>2. n \in Nat /\ n # 0 /\ Len(states) \in Nat /\ n \in 1..Len(states)
    <2>1. n # 0
      BY <1>1 DEF Live
    <2>2. Len(states) \in Nat
      BY DEF PantographInv, PantographTypes
    <2> QED
      BY <2>1, <2>2
  <1>3. command \in Commands /\ command.do = do /\ command.from = n
    BY <1>2 DEF Commands
  <1> HIDE DEF command
  <1>4. /\ asked' \in [Users -> {NoCommand} \cup Commands] /\ asked'[u] = command
        /\ \A v \in Users : v # u => asked'[v] = asked[v]
    BY <1>1, <1>3 DEF PantographInv, PantographTypes
  <1>5. PantographTypes' /\ AllEarned'
    BY <1>1, <1>4 DEF PantographInv, PantographTypes, AllEarned, Earned, Live, Shown
  <1>6. AskedLive'
    BY <1>1, <1>2, <1>3, <1>4 DEF PantographInv, AskedLive, Live
  <1> QED
    BY <1>5, <1>6 DEF PantographInv

\* The call a user waits for.
LEMMA AskedTypes ==
  ASSUME PantographInv, NEW u \in Users, asked[u] # NoCommand
  PROVE  /\ asked[u].do \in Methods /\ asked[u].from \in 1..Len(states)
         /\ asked[u].tactic \in Tactics /\ asked[u].do \in methods
         /\ Live(asked[u].from) \in ProofStates /\ asked[u].from \in 0..Len(states)
  <1>1. asked[u] \in Commands /\ states \in Seq(StatesMade)
    BY DEF PantographInv, PantographTypes
  <1>2. asked[u].do \in Methods /\ asked[u].tactic \in Tactics
    BY <1>1 DEF Commands
  <1>3. /\ asked[u].from \in 1..Len(states) /\ asked[u].do \in methods
        /\ Live(asked[u].from) # Local
    BY DEF PantographInv, AskedLive
  <1>4. states[asked[u].from] \in StatesMade /\ asked[u].from \in 0..Len(states)
    <2> HIDE DEF StatesMade
    <2> QED
      BY <1>1, <1>3
  <1> QED
    BY <1>2, <1>3, <1>4 DEF StatesMade, Live

LEMMA AnsweredKeeps ==
  ASSUME PantographInv, NEW u \in Users, Answered(u) PROVE PantographInv'
  <1> DEFINE least == IF asked[u].do = "goal_have" THEN 1 ELSE 0
  <1>1. PICK s \in Answers(asked[u]) : Keep(s, asked[u].from, least) \/ Overwrite(s)
    BY DEF Answered
  <1>2. /\ asked[u] # NoCommand /\ UNCHANGED methods
        /\ asked' = [asked EXCEPT ![u] = NoCommand]
    BY DEF Answered
  <1>3. s \in ProofStates
    <2>1. asked[u].do \in {"goal_tactic", "goal_focus", "goal_have"}
      <3>1. asked[u].do \in Methods
        BY <1>2, AskedTypes
      <3> QED
        BY <3>1, PantographAssumption
    <2>2. CASE asked[u].do = "goal_tactic"
      <3>1. s = After(Live(asked[u].from), asked[u].tactic) /\ s # Fails
        BY <2>2 DEF Answers
      <3> QED
        BY <1>2, <3>1, AskedTypes, StepsAssumption DEF After
    <2>3. CASE asked[u].do \in {"goal_focus", "goal_have"}
      BY <2>3 DEF Answers
    <2> QED
      BY <2>1, <2>2, <2>3
  <1> QED
    BY <1>1, <1>2, <1>3, AskedTypes, KeepKeeps, OverwriteKeeps

LEMMA RaisesKeeps == ASSUME PantographInv, NEW u \in Users, Raises(u) PROVE PantographInv'
  <1>1. /\ asked[u] # NoCommand /\ UNCHANGED <<methods, unsure>>
        /\ asked' = [asked EXCEPT ![u] = NoCommand]
    BY DEF Raises
  <1>2. CASE asked[u].do = "goal_tactic"
    <2>1. UNCHANGED states
      BY <1>2 DEF Raises
    <2>2. /\ asked' \in [Users -> {NoCommand} \cup Commands]
          /\ \A v \in Users : asked'[v] \in {NoCommand, asked[v]}
      BY <1>1 DEF PantographInv, PantographTypes
    <2>3. PantographTypes' /\ AllEarned'
      BY <1>1, <2>1, <2>2 DEF PantographInv, PantographTypes, AllEarned, Earned, Live,
                             Shown
    <2>4. AskedLive'
      BY <1>1, <2>1, <2>2 DEF PantographInv, AskedLive, Live
    <2> QED
      BY <2>3, <2>4 DEF PantographInv
  <1>3. CASE asked[u].do # "goal_tactic"
    <2>1. Add(Local, GoalsWithout(asked[u].do, asked[u].from), asked[u].from)
      BY <1>3 DEF Raises
    <2> QED
      BY <1>1, <1>3, <2>1, AskedTypes, WithoutEarned, AddKeeps
  <1> QED
    BY <1>2, <1>3

LEMMA PantographStep == PantographInv /\ PantographNext => PantographInv'
  <1> SUFFICES ASSUME PantographInv, PantographNext PROVE PantographInv'
    OBVIOUS
  <1>1. ASSUME NEW s \in Theorems, LoadSorry(s) PROVE PantographInv'
    <2>1. s \in ProofStates /\ 0 \in 0..Len(states)
      BY PantographAssumption DEF PantographInv, PantographTypes
    <2> QED
      BY <1>1, <2>1, KeepKeeps, OverwriteKeeps DEF LoadSorry
  <1>2. ASSUME NEW n \in 0..Len(states), NEW do \in Methods, WithoutEngine(do, n)
        PROVE  PantographInv'
    <2>1. do = "goal_tactic" => "goal_tactic" \notin methods \/ Live(n) = Local
      BY <1>2 DEF WithoutEngine
    <2> QED
      BY <1>2, <2>1, WithoutEarned, AddKeeps DEF WithoutEngine
  <1> QED
    BY <1>1, <1>2, AskKeeps, AnsweredKeeps, RaisesKeeps DEF PantographNext

LEMMA PantographStutter == PantographInv /\ UNCHANGED pantographVars => PantographInv'
  BY DEF pantographVars, PantographInv, PantographTypes, AskedLive, AllEarned, Earned, Live,
                             Shown

-----------------------------------------------------------------------------
(* Lookeng.                                                                 *)

Lines == [text : Texts, raw : BOOLEAN]
Submissions == [context : Nat, sid : SessionIds, text : Texts, final : BOOLEAN,
                snippet : Seq(Lines), size : Nat]

LookengTypes ==
  /\ contexts \in Seq(Seq(Texts)) /\ Len(contexts) <= MaxContexts
  /\ DOMAIN sessions \subseteq SessionIds
  /\ \A sid \in DOMAIN sessions : sessions[sid] \in 1..Len(contexts)
  /\ sent \in [Submitters -> {NoLemma} \cup Submissions]
  /\ \A c \in Submitters : sent[c] # NoLemma => sent[c].context \in 1..Len(contexts)
  /\ crossed \subseteq 1..Len(contexts)

\* What a submitter waits for is compiled behind the first lemmas of its context.
SentBehind ==
  \A c \in Submitters : sent[c] # NoLemma =>
    LET call == sent[c]
        lemmas == contexts[call.context]
    IN /\ call.size <= Len(lemmas) /\ Len(call.snippet) = call.size + 1
       /\ \A i \in 1..call.size :
            call.snippet[i] = [text |-> lemmas[i], raw |-> lemmas[i] \in Bare]
       /\ call.snippet[call.size + 1] = Composed(call.text)

NoBare(lemmas) == \A i \in 1..Len(lemmas) : lemmas[i] \notin Bare

AllCompile ==
  \A n \in 1..Len(contexts) :
    n \notin crossed /\ NoBare(contexts[n]) => Compiles(Pasted(contexts[n]))

\* The submissions under way to a context.
Waiting(n) == {c \in Submitters : sent[c] # NoLemma /\ sent[c].context = n}

\* A context has room for the submissions under way, but for as many as there are
\* submitters.
Room ==
  \A n \in 1..Len(contexts) :
    Len(contexts[n]) + Cardinality(Waiting(n)) < MaxLemmas + Cardinality(Submitters)

LookengInv == LookengTypes /\ SentBehind /\ AllCompile /\ Room

LEMMA LookengInitHolds == LookengInit => LookengInv
  <1> SUFFICES ASSUME LookengInit PROVE LookengInv
    OBVIOUS
  <1>1. LookengTypes
    BY LookengAssumption DEF LookengInit, LookengTypes
  <1>2. SentBehind /\ AllCompile /\ Room
    BY DEF LookengInit, SentBehind, AllCompile, Room
  <1> QED
    BY <1>1, <1>2 DEF LookengInv

\* The types of one context and one submission.
LEMMA ContextTypes ==
  ASSUME LookengTypes
  PROVE  /\ contexts \in Seq(Seq(Texts)) /\ Len(contexts) \in Nat
         /\ \A n \in 1..Len(contexts) : /\ contexts[n] \in Seq(Texts)
                                       /\ Len(contexts[n]) \in Nat
                                       /\ \A i \in 1..Len(contexts[n]) : contexts[n][i] \in Texts
  BY DEF LookengTypes

LEMMA SentTypes ==
  ASSUME LookengTypes, NEW c \in Submitters, sent[c] # NoLemma
  PROVE  /\ sent[c].context \in 1..Len(contexts) /\ sent[c].text \in Texts
         /\ sent[c].size \in Nat /\ sent[c].snippet \in Seq(Lines)
  BY DEF LookengTypes, Submissions

LEMMA WaitingFinite ==
  ASSUME NEW n
  PROVE  /\ IsFiniteSet(Waiting(n)) /\ IsFiniteSet(Submitters)
         /\ Cardinality(Waiting(n)) \in Nat /\ Cardinality(Submitters) \in Nat
         /\ Cardinality(Waiting(n)) <= Cardinality(Submitters)
  <1>1. Waiting(n) \subseteq Submitters /\ IsFiniteSet(Submitters)
    BY LookengAssumption DEF Waiting
  <1> QED
    BY <1>1, FS_Subset, FS_CardinalityType

\* One submitter less, or as many as before, wait for each context.
LEMMA FewerWait ==
  ASSUME NEW c \in Submitters, sent' = [sent EXCEPT ![c] = NoLemma],
         sent[c] # NoLemma, DOMAIN sent = Submitters, NEW n
  PROVE  /\ Cardinality(Waiting(n)') <= Cardinality(Waiting(n))
         /\ sent[c].context = n => Cardinality(Waiting(n)') = Cardinality(Waiting(n)) - 1
         /\ Cardinality(Waiting(n)') \in Nat
  <1>1. /\ Waiting(n)' = Waiting(n) \ {c} /\ (sent[c].context = n <=> c \in Waiting(n))
    BY DEF Waiting
  <1>2. IsFiniteSet(Waiting(n)) /\ Cardinality(Waiting(n)) \in Nat
    BY WaitingFinite
  <1>3. Cardinality(Waiting(n) \ {c}) = IF c \in Waiting(n) THEN Cardinality(Waiting(n)) - 1
                                        ELSE Cardinality(Waiting(n))
    BY <1>2, FS_RemoveElement
  <1>4. IsFiniteSet(Waiting(n) \ {c}) /\ Cardinality(Waiting(n) \ {c}) \in Nat
    BY <1>2, FS_RemoveElement, FS_CardinalityType
  <1> QED
    BY <1>1, <1>2, <1>3, <1>4

LEMMA BeginKeeps ==
  ASSUME LookengInv, NEW sid \in SessionIds, BeginSession(sid) PROVE LookengInv'
  <1>1. /\ Len(contexts) < MaxContexts /\ contexts' = Append(contexts, <<>>)
        /\ sessions' = [s \in DOMAIN sessions \cup {sid} |->
                          IF s = sid THEN Len(contexts') ELSE sessions[s]]
        /\ UNCHANGED <<sent, crossed>>
    BY DEF BeginSession
  <1>2. /\ contexts' \in Seq(Seq(Texts)) /\ Len(contexts') = Len(contexts) + 1
        /\ contexts'[Len(contexts) + 1] = <<>> /\ Len(contexts) \in Nat
        /\ \A n \in 1..Len(contexts) : contexts'[n] = contexts[n]
    BY <1>1, ContextTypes DEF LookengInv
  <1>3. \A n \in 1..Len(contexts') : n \in 1..Len(contexts) \/ n = Len(contexts) + 1
    BY <1>2
  <1>4. LookengTypes'
    <2>1. Len(contexts') <= MaxContexts
      BY <1>1, <1>2, LookengAssumption
    <2>2. /\ DOMAIN sessions' \subseteq SessionIds
          /\ \A s \in DOMAIN sessions' : sessions'[s] \in 1..Len(contexts')
      BY <1>1, <1>2 DEF LookengInv, LookengTypes
    <2>3. /\ \A c \in Submitters : sent[c] # NoLemma => sent[c].context \in 1..Len(contexts')
          /\ crossed \subseteq 1..Len(contexts')
      BY <1>2 DEF LookengInv, LookengTypes
    <2> QED
      BY <1>1, <1>2, <2>1, <2>2, <2>3 DEF LookengInv, LookengTypes
  <1>5. SentBehind'
    <2> SUFFICES ASSUME NEW c \in Submitters, sent[c] # NoLemma
                 PROVE  contexts'[sent[c].context] = contexts[sent[c].context]
      BY <1>1 DEF LookengInv, SentBehind
    <2> QED
      BY <1>2, SentTypes DEF LookengInv
  <1>6. AllCompile'
    <2>1. Compiles(Pasted(<<>>))
      BY DEF Compiles, Pasted
    <2> QED
      BY <1>1, <1>2, <1>3, <2>1 DEF LookengInv, AllCompile, NoBare
  <1>7. Room'
    <2>1. \A n : Waiting(n)' = Waiting(n)
      BY <1>1 DEF Waiting
    <2>2. Waiting(Len(contexts) + 1) = {}
      BY <1>2, SentTypes DEF Waiting, LookengInv
    <2>3. 0 + Cardinality(Waiting(Len(contexts) + 1)) < MaxLemmas + Cardinality(Submitters)
      BY <2>2, FS_EmptySet, WaitingFinite, LookengAssumption
    <2> QED
      BY <1>2, <1>3, <2>1, <2>3 DEF LookengInv, Room
  <1> QED
    BY <1>4, <1>5, <1>6, <1>7 DEF LookengInv

LEMMA CloseKeeps ==
  ASSUME LookengInv, NEW sid \in SessionIds, CloseSession(sid) PROVE LookengInv'
  <1>1. /\ sessions' = [s \in DOMAIN sessions \ {sid} |-> sessions[s]]
        /\ UNCHANGED <<contexts, sent, crossed>>
    BY DEF CloseSession
  <1>2. LookengTypes'
    BY <1>1 DEF LookengInv, LookengTypes
  <1>3. SentBehind' /\ AllCompile' /\ Room'
    BY <1>1 DEF LookengInv, SentBehind, AllCompile, Room, Waiting
  <1> QED
    BY <1>2, <1>3 DEF LookengInv

LEMMA SubmitKeeps ==
  ASSUME LookengInv, NEW c \in Submitters, NEW sid \in SessionIds, NEW text \in Texts,
         NEW final \in BOOLEAN, Submit(c, sid, text, final)
  PROVE  LookengInv'
  <1> DEFINE n == sessions[sid]
             lemmas == contexts[n]
             call == [context |-> n, sid |-> sid, text |-> text, final |-> final,
                      snippet |-> Snippet(n, text), size |-> Len(lemmas)]
  <1>1. /\ sent[c] = NoLemma /\ sid \in DOMAIN sessions /\ Len(lemmas) < MaxLemmas
        /\ sent' = [sent EXCEPT ![c] = call]
        /\ UNCHANGED <<contexts, sessions, crossed>>
    BY DEF Submit
  <1>2. n \in 1..Len(contexts) /\ n \in Nat
    BY <1>1, ContextTypes DEF LookengInv, LookengTypes
  <1>3. /\ lemmas \in Seq(Texts) /\ Len(lemmas) \in Nat
        /\ \A i \in 1..Len(lemmas) : lemmas[i] \in Texts
    BY <1>2, ContextTypes DEF LookengInv
  <1> HIDE DEF lemmas, n
  <1>4. /\ Pasted(lemmas) \in Seq(Lines) /\ Len(Pasted(lemmas)) = Len(lemmas)
        /\ \A i \in 1..Len(lemmas) :
             Pasted(lemmas)[i] = [text |-> lemmas[i], raw |-> lemmas[i] \in Bare]
    <2>1. \A i \in 1..Len(lemmas) : [text |-> lemmas[i], raw |-> lemmas[i] \in Bare] \in Lines
      BY <1>3 DEF Lines
    <2> HIDE DEF Lines
    <2> QED
      BY <1>3, <2>1 DEF Pasted
  <1>5. Composed(text) \in Lines
    BY DEF Composed, Lines
  <1>6. /\ Snippet(n, text) \in Seq(Lines) /\ Len(Snippet(n, text)) = Len(lemmas) + 1
        /\ Snippet(n, text)[Len(lemmas) + 1] = Composed(text)
        /\ \A i \in 1..Len(lemmas) :
             Snippet(n, text)[i] = [text |-> lemmas[i], raw |-> lemmas[i] \in Bare]
    <2>1. Snippet(n, text) = Append(Pasted(lemmas), Composed(text))
      BY DEF Snippet, lemmas
    <2> HIDE DEF Lines
    <2> QED
      BY <1>3, <1>4, <1>5, <2>1
  <1>7. /\ call \in Submissions /\ call # NoLemma /\ call.context = n /\ call.text = text
        /\ call.size = Len(lemmas) /\ call.snippet = Snippet(n, text)
    BY <1>2, <1>3, <1>6 DEF Submissions, NoLemma
  <1> HIDE DEF call
  <1>8. /\ sent' \in [Submitters -> {NoLemma} \cup Submissions] /\ sent'[c] = call
        /\ \A b \in Submitters : b # c => sent'[b] = sent[b]
    BY <1>1, <1>7 DEF LookengInv, LookengTypes
  <1>9. LookengTypes'
    BY <1>1, <1>2, <1>7, <1>8 DEF LookengInv, LookengTypes
  <1>10. SentBehind'
    <2> SUFFICES ASSUME NEW b \in Submitters, sent'[b] # NoLemma
                 PROVE  LET s == sent'[b] IN
                          /\ s.size <= Len(contexts[s.context])
                          /\ Len(s.snippet) = s.size + 1
                          /\ \A i \in 1..s.size :
                               s.snippet[i] = [text |-> contexts[s.context][i],
                                               raw |-> contexts[s.context][i] \in Bare]
                          /\ s.snippet[s.size + 1] = Composed(s.text)
      BY <1>1 DEF SentBehind
    <2>1. CASE b = c
      BY <1>3, <1>6, <1>7, <1>8, <2>1 DEF lemmas
    <2>2. CASE b # c
      BY <1>8, <2>2 DEF LookengInv, SentBehind
    <2> QED
      BY <2>1, <2>2
  <1>11. AllCompile'
    BY <1>1 DEF LookengInv, AllCompile
  <1>12. Room'
    <2> SUFFICES ASSUME NEW m \in 1..Len(contexts)
                 PROVE  Len(contexts[m]) + Cardinality(Waiting(m)')
                          < MaxLemmas + Cardinality(Submitters)
      BY <1>1 DEF Room
    <2>1. CASE m = n
      <3>1. /\ Waiting(m)' \subseteq Submitters /\ IsFiniteSet(Submitters)
        BY LookengAssumption DEF Waiting
      <3>2. /\ Cardinality(Waiting(m)') \in Nat /\ Cardinality(Submitters) \in Nat
            /\ Cardinality(Waiting(m)') <= Cardinality(Submitters)
        BY <3>1, FS_Subset, FS_CardinalityType
      <3>3. Len(contexts[m]) = Len(lemmas)
        BY <2>1 DEF lemmas
      <3> QED
        BY <1>1, <1>3, <2>1, <3>2, <3>3, LookengAssumption
    <2>2. CASE m # n
      <3>1. Waiting(m)' = Waiting(m)
        BY <1>1, <1>7, <1>8, <2>2 DEF Waiting
      <3> QED
        BY <3>1 DEF LookengInv, Room
    <2> QED
      BY <2>1, <2>2
  <1> QED
    BY <1>9, <1>10, <1>11, <1>12 DEF LookengInv

\* A submission ends without a lemma.
LEMMA EndKeeps ==
  ASSUME LookengInv, NEW c \in Submitters, sent[c] # NoLemma,
         sent' = [sent EXCEPT ![c] = NoLemma], UNCHANGED <<contexts, sessions, crossed>>
  PROVE  LookengInv'
  <1>1. /\ sent' \in [Submitters -> {NoLemma} \cup Submissions] /\ DOMAIN sent = Submitters
        /\ \A b \in Submitters : sent'[b] \in {NoLemma, sent[b]}
    BY DEF LookengInv, LookengTypes
  <1>2. LookengTypes'
    BY <1>1 DEF LookengInv, LookengTypes
  <1>3. SentBehind'
    <2> SUFFICES ASSUME NEW b \in Submitters, sent'[b] # NoLemma PROVE sent'[b] = sent[b]
      BY DEF LookengInv, SentBehind
    <2> QED
      BY <1>1
  <1>4. AllCompile'
    BY DEF LookengInv, AllCompile
  <1>5. Room'
    <2> SUFFICES ASSUME NEW n \in 1..Len(contexts)
                 PROVE  Len(contexts[n]) + Cardinality(Waiting(n)')
                          < MaxLemmas + Cardinality(Submitters)
      BY DEF Room
    <2>1. /\ Cardinality(Waiting(n)') <= Cardinality(Waiting(n))
          /\ Cardinality(Waiting(n)') \in Nat
      BY <1>1, FewerWait
    <2>2. Len(contexts[n]) \in Nat
      BY ContextTypes DEF LookengInv
    <2>3. Len(contexts[n]) + Cardinality(Waiting(n)) < MaxLemmas + Cardinality(Submitters)
      BY DEF LookengInv, Room
    <2> QED
      BY <2>1, <2>2, <2>3, WaitingFinite, LookengAssumption
  <1> QED
    BY <1>2, <1>3, <1>4, <1>5 DEF LookengInv

\* A lemma joins its context: if nothing came in meanwhile, the new context is what was
\* compiled.
LEMMA JoinKeeps ==
  ASSUME LookengInv, NEW c \in Submitters, Accepted(c), ~sent[c].final PROVE LookengInv'
  <1> DEFINE n == sent[c].context
             text == sent[c].text
             old == contexts[n]
             new == Append(old, text)
             snippet == sent[c].snippet
             size == sent[c].size
  <1>1. /\ sent[c] # NoLemma /\ Compiles(snippet)
        /\ contexts' = [contexts EXCEPT ![n] = Append(@, text)]
        /\ crossed' = IF Len(old) # size THEN crossed \cup {n} ELSE crossed
        /\ sent' = [sent EXCEPT ![c] = NoLemma] /\ UNCHANGED sessions
    BY DEF Accepted, Destination
  <1>2. n \in 1..Len(contexts) /\ text \in Texts /\ size \in Nat /\ snippet \in Seq(Lines)
    BY <1>1, SentTypes DEF LookengInv
  <1>3. /\ old \in Seq(Texts) /\ Len(old) \in Nat /\ Len(contexts) \in Nat
        /\ contexts \in Seq(Seq(Texts))
    BY <1>2, ContextTypes DEF LookengInv
  <1>4. /\ size <= Len(old) /\ Len(snippet) = size + 1
        /\ \A i \in 1..size : snippet[i] = [text |-> old[i], raw |-> old[i] \in Bare]
        /\ snippet[size + 1] = Composed(text)
    BY <1>1 DEF LookengInv, SentBehind
  <1>5. contexts' = [contexts EXCEPT ![n] = new]
    BY <1>1
  <1> HIDE DEF new
  <1>6. /\ new \in Seq(Texts) /\ Len(new) = Len(old) + 1 /\ new[Len(old) + 1] = text
        /\ \A i \in 1..Len(old) : new[i] = old[i]
    BY <1>2, <1>3 DEF new
  <1> HIDE DEF old, n, text, snippet, size
  <1>7. /\ contexts' \in Seq(Seq(Texts)) /\ Len(contexts') = Len(contexts)
        /\ contexts'[n] = new
        /\ \A m \in 1..Len(contexts) : m # n => contexts'[m] = contexts[m]
    BY <1>2, <1>3, <1>5, <1>6
  <1>8. /\ sent' \in [Submitters -> {NoLemma} \cup Submissions] /\ DOMAIN sent = Submitters
        /\ \A b \in Submitters : sent'[b] \in {NoLemma, sent[b]}
    BY <1>1 DEF LookengInv, LookengTypes
  <1>9. LookengTypes'
    <2>1. crossed' \subseteq 1..Len(contexts')
      BY <1>1, <1>2, <1>7 DEF LookengInv, LookengTypes
    <2> QED
      BY <1>1, <1>7, <1>8, <2>1 DEF LookengInv, LookengTypes
  <1>10. SentBehind'
    <2> SUFFICES ASSUME NEW b \in Submitters, sent'[b] # NoLemma
                 PROVE  LET s == sent'[b]
                            lemmas == contexts'[s.context]
                        IN /\ s.size <= Len(lemmas) /\ Len(s.snippet) = s.size + 1
                           /\ \A i \in 1..s.size :
                                s.snippet[i] = [text |-> lemmas[i], raw |-> lemmas[i] \in Bare]
                           /\ s.snippet[s.size + 1] = Composed(s.text)
      BY DEF SentBehind
    <2>1. sent'[b] = sent[b] /\ sent[b] # NoLemma
      BY <1>8
    <2>2. sent[b].context \in 1..Len(contexts) /\ sent[b].size \in Nat
      BY <2>1, SentTypes DEF LookengInv
    <2>3. LET s == sent[b]
              lemmas == contexts[s.context]
          IN /\ s.size <= Len(lemmas) /\ Len(s.snippet) = s.size + 1
             /\ \A i \in 1..s.size :
                  s.snippet[i] = [text |-> lemmas[i], raw |-> lemmas[i] \in Bare]
             /\ s.snippet[s.size + 1] = Composed(s.text)
      BY <2>1 DEF LookengInv, SentBehind
    <2>4. CASE sent[b].context # n
      BY <1>7, <2>1, <2>2, <2>3, <2>4
    <2>5. CASE sent[b].context = n
      <3>1. contexts[sent[b].context] = old /\ contexts'[sent[b].context] = new
        BY <1>7, <2>5 DEF old
      <3>2. /\ sent[b].size <= Len(new)
            /\ \A i \in 1..sent[b].size : new[i] = old[i]
        BY <1>3, <1>6, <2>2, <2>3, <3>1
      <3> QED
        BY <2>1, <2>3, <3>1, <3>2
    <2> QED
      BY <2>4, <2>5
  <1>11. AllCompile'
    <2> SUFFICES ASSUME NEW m \in 1..Len(contexts'), m \notin crossed', NoBare(contexts'[m])
                 PROVE  Compiles(Pasted(contexts'[m]))
      BY DEF AllCompile
    <2>1. CASE m # n
      BY <1>1, <1>7, <2>1 DEF LookengInv, AllCompile
    <2>2. CASE m = n
      <3>1. Len(old) = size
        BY <1>1, <2>2
      <3>2. text \notin Bare
        <4>1. NoBare(new) /\ Len(old) + 1 \in 1..Len(new)
          BY <1>3, <1>6, <1>7, <2>2
        <4> QED
          BY <1>6, <4>1 DEF NoBare
      <3>3. /\ Len(Pasted(new)) = Len(new)
            /\ \A i \in 1..Len(new) : Pasted(new)[i] = [text |-> new[i], raw |-> new[i] \in Bare]
        BY <1>6 DEF Pasted
      <3>4. \A i \in 1..Len(new) : Pasted(new)[i] = snippet[i]
        <4> SUFFICES ASSUME NEW i \in 1..Len(new) PROVE Pasted(new)[i] = snippet[i]
          OBVIOUS
        <4>1. CASE i = Len(old) + 1
          <5>1. Pasted(new)[i] = [text |-> new[i], raw |-> new[i] \in Bare]
            BY <3>3
          <5>2. new[i] = text /\ (new[i] \in Bare) = FALSE
            BY <1>6, <3>2, <4>1
          <5>3. Pasted(new)[i] = [text |-> text, raw |-> FALSE]
            BY <5>1, <5>2, Zenon
          <5> QED
            BY <1>4, <3>1, <4>1, <5>3 DEF Composed
        <4>2. CASE i # Len(old) + 1
          <5>1. i \in 1..size /\ new[i] = old[i]
            BY <1>3, <1>6, <3>1, <4>2
          <5> QED
            BY <1>4, <3>3, <5>1
        <4> QED
          BY <4>1, <4>2
      <3>5. Len(Pasted(new)) = Len(snippet)
        BY <1>4, <1>6, <3>1, <3>3
      <3>6. \A i \in 1..Len(snippet) : \A j \in 1..i - 1 : j \in 1..Len(snippet)
        BY <1>2, <1>4
      <3>7. \A i \in 1..Len(snippet) : Pasted(new)[i] = snippet[i]
        BY <3>3, <3>4, <3>5
      <3>8. Compiles(Pasted(new))
        <4> HIDE DEF Pasted
        <4> DEFINE lines == Pasted(new)
        <4> SUFFICES ASSUME NEW i \in 1..Len(lines)
                     PROVE  /\ ~lines[i].raw
                            /\ \A j \in 1..i - 1 :
                                 NameOf[lines[j].text] # NameOf[lines[i].text]
                            /\ Needs[lines[i].text]
                                 \subseteq {NameOf[lines[j].text] : j \in 1..i - 1}
          BY DEF Compiles
        <4>1. i \in 1..Len(snippet) /\ lines[i] = snippet[i]
          BY <3>5, <3>7
        <4>2. \A j \in 1..i - 1 : lines[j] = snippet[j]
          BY <3>6, <3>7, <4>1
        <4> HIDE DEF lines
        <4>3. {NameOf[lines[j].text] : j \in 1..i - 1} = {NameOf[snippet[j].text] : j \in 1..i - 1}
          BY <4>2
        <4> QED
          BY <1>1, <4>1, <4>2, <4>3 DEF Compiles
      <3> QED
        BY <1>7, <2>2, <3>8
    <2> QED
      BY <2>1, <2>2
  <1>12. Room'
    <2> SUFFICES ASSUME NEW m \in 1..Len(contexts)
                 PROVE  Len(contexts'[m]) + Cardinality(Waiting(m)')
                          < MaxLemmas + Cardinality(Submitters)
      BY <1>7 DEF Room
    <2>1. /\ Cardinality(Waiting(m)') <= Cardinality(Waiting(m))
          /\ n = m => Cardinality(Waiting(m)') = Cardinality(Waiting(m)) - 1
          /\ Cardinality(Waiting(m)') \in Nat
      BY <1>1, <1>8, FewerWait DEF n
    <2>2. /\ Len(contexts[m]) \in Nat
          /\ Len(contexts[m]) + Cardinality(Waiting(m)) < MaxLemmas + Cardinality(Submitters)
      BY ContextTypes DEF LookengInv, Room
    <2>3. CASE m # n
      BY <1>7, <2>1, <2>2, <2>3, WaitingFinite, LookengAssumption
    <2>4. CASE m = n
      <3>1. Len(contexts'[m]) = Len(contexts[m]) + 1
        BY <1>6, <1>7, <2>4 DEF old
      <3> QED
        BY <2>1, <2>2, <2>4, <3>1, WaitingFinite, LookengAssumption
    <2> QED
      BY <2>3, <2>4
  <1> QED
    BY <1>9, <1>10, <1>11, <1>12 DEF LookengInv

LEMMA LookengStep == LookengInv /\ LookengNext => LookengInv'
  <1> SUFFICES ASSUME LookengInv, LookengNext PROVE LookengInv'
    OBVIOUS
  <1>1. ASSUME NEW c \in Submitters, Accepted(c) PROVE LookengInv'
    <2>1. CASE sent[c].final
      BY <1>1, <2>1, EndKeeps DEF Accepted
    <2>2. CASE ~sent[c].final
      BY <1>1, <2>2, JoinKeeps
    <2> QED
      BY <2>1, <2>2
  <1>2. ASSUME NEW c \in Submitters, Refused(c) PROVE LookengInv'
    BY <1>2, EndKeeps DEF Refused
  <1> QED
    BY <1>1, <1>2, BeginKeeps, CloseKeeps, SubmitKeeps DEF LookengNext

LEMMA LookengStutter == LookengInv /\ UNCHANGED lookengVars => LookengInv'
  BY DEF lookengVars, LookengInv, LookengTypes, SentBehind, AllCompile, Room, Waiting

-----------------------------------------------------------------------------
(* The three together.                                                      *)

IInv == LookengInv /\ KiminaInv /\ PantographInv

\* Each backend keeps its invariant, and leaves the others alone.
THEOREM Inductive == Spec => []IInv
  <1>1. Init => IInv
    BY LookengInitHolds, KiminaInitHolds, PantographInitHolds DEF Init, IInv
  <1>2. IInv /\ [Next]_backendVars => IInv'
    BY LookengStep, LookengStutter, KiminaStep, KiminaStutter, PantographStep,
       PantographStutter DEF IInv, Next, backendVars
  <1> QED
    BY <1>1, <1>2, PTL DEF Spec

\* The lemmas of a Lookeng session compile together, with the exceptions that
\* ContextsCompile names, for any number of submitters and lemmas.
THEOREM ContextsHold == Spec => []ContextsCompile
  <1>1. IInv => ContextsCompile
    <2> SUFFICES ASSUME LookengInv PROVE ContextsCompile
      BY DEF IInv
    <2>1. LookengTypeOK
      <3>1. \A c \in Submitters : sent[c].context \in 0..Len(contexts)
        BY ContextTypes, SentTypes DEF LookengInv, NoLemma
      <3>2. \A n \in 1..Len(contexts) : \A i \in 1..Len(contexts[n]) : contexts[n][i] \in Texts
        BY ContextTypes DEF LookengInv
      <3> QED
        BY <3>1, <3>2 DEF LookengInv, LookengTypes, LookengTypeOK
    <2>2. ASSUME NEW n \in 1..Len(contexts)
          PROVE  Len(contexts[n]) < MaxLemmas + Cardinality(Submitters)
      <3>1. Len(contexts[n]) + Cardinality(Waiting(n)) < MaxLemmas + Cardinality(Submitters)
        BY DEF LookengInv, Room
      <3>2. Len(contexts[n]) \in Nat
        BY ContextTypes DEF LookengInv
      <3> QED
        BY <3>1, <3>2, WaitingFinite, LookengAssumption
    <2> QED
      BY <2>1, <2>2 DEF ContextsCompile, LookengInv, AllCompile, NoBare
  <1> QED
    BY <1>1, Inductive, PTL

\* A proof in a batch gets the verdict of its own, in any order of the answers.
THEOREM VerdictsHold == Spec => []VerdictsOwn
  <1>1. IInv => VerdictsOwn
    BY DEF IInv, KiminaInv
  <1> QED
    BY <1>1, Inductive, PTL

\* A request names a snapshot of its own preamble, for any number of clients.
THEOREM HandlesHold == Spec => []HandlesMatch
  <1>1. IInv => HandlesMatch
    <2> SUFFICES ASSUME KiminaInv PROVE HandlesMatch
      BY DEF IInv
    <2>1. KiminaTypeOK
      <3>1. \A i \in 1..Len(envs) : envs[i] \in Seq(Imports)
        BY DEF KiminaInv, KiminaTypes
      <3>2. DOMAIN replay \subseteq Preambles
        BY DEF KiminaInv, KeptMatch
      <3> QED
        BY <3>1, <3>2 DEF KiminaInv, KiminaTypes, KiminaTypeOK
    <2> QED
      BY <2>1 DEF KiminaInv, HandlesMatch, KeptMatch, PostedMatch, SnapshotOf
  <1> QED
    BY <1>1, Inductive, PTL

\* Only the engine completes a proof, with the exceptions that CompletionEarned names,
\* for any proof states and methods.
THEOREM CompletionHolds == Spec => []CompletionEarned
  <1>1. IInv => CompletionEarned
    <2> SUFFICES ASSUME PantographInv PROVE CompletionEarned
      BY DEF IInv
    <2>1. PantographTypeOK
      <3>1. states \in Seq(StatesMade)
        BY DEF PantographInv, PantographTypes
      <3>2. \A n \in 1..Len(states) : states[n] \in StatesMade
        <4> HIDE DEF StatesMade
        <4> QED
          BY <3>1
      <3>3. \A u \in Users : asked[u].do \in {"none"} \cup Methods
        BY DEF PantographInv, PantographTypes, NoCommand, Commands
      <3> QED
        BY <3>2, <3>3 DEF PantographInv, PantographTypes, PantographTypeOK, StatesMade
    <2> QED
      BY <2>1 DEF PantographInv, AllEarned, Earned, CompletionEarned, Live, Shown
  <1> QED
    BY <1>1, Inductive, PTL
=============================================================================
