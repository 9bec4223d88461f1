------------------------- MODULE TreeSearch_proofs -------------------------
(***************************************************************************)
(* Proofs about TreeSearch for any proof states, tactics, policies and     *)
(* bounds.                                                                 *)
(***************************************************************************)
EXTENDS TreeSearch, FiniteSetTheorems, WellFoundedInduction, TLAPS

Nodes == [parent : Nat, tactic : Tactics \cup {None}, state : ProofStates,
          depth : Nat, status : {"open", "solved", "failed", "pruned"},
          visits : Nat, wins : Nat]

Calls == [at : Nat, tactic : Tactics, from : ProofStates]

\* The types, but for the bounds on the counts, which need the sets of ancestors.
Types ==
  /\ nodes \in Seq(Nodes) /\ Len(nodes) >= 1
  /\ \A i \in Ids \ {Root} : nodes[i].parent \in 1..(i - 1) /\ nodes[i].tactic \in Tactics
  /\ solved \in Ids \cup {None} /\ current \in Ids /\ before \in Nat
  /\ phase \in {"select", "turn", "calls", "done"}
  /\ turn \in 1..MaxTurns
  /\ calls \in [Slots -> {Idle} \cup Calls]
  /\ astray \in BOOLEAN

\* Calls are under way only in phase "calls"; each is applied to the proof state of the
\* node that its own node will be put below, unless one went astray.
CallsInv ==
  /\ phase # "calls" => \A s \in Slots : calls[s] = Idle
  /\ ~astray => \A s \in Slots :
       calls[s] # Idle => /\ calls[s].at <= Len(nodes)
                          /\ calls[s].from = nodes[ParentAt(calls[s].at)].state

IInv == Types /\ CallsInv /\ EdgesSound /\ SolvedIsFirst

\* What an action leaves of the tree when it changes statuses and counts only.
SameTree ==
  /\ nodes' \in Seq(Nodes) /\ Len(nodes') = Len(nodes)
  /\ \A i \in Ids : /\ nodes'[i].parent = nodes[i].parent
                    /\ nodes'[i].tactic = nodes[i].tactic
                    /\ nodes'[i].state = nodes[i].state

-----------------------------------------------------------------------------

LEMMA IdleCall ==
  ASSUME NEW c \in {Idle} \cup Calls, c # Idle
  PROVE  c \in Calls
  OBVIOUS

LEMMA CallParts ==
  ASSUME NEW c \in Calls
  PROVE  c.at \in Nat /\ c.tactic \in Tactics /\ c.from \in ProofStates
  BY DEF Calls

\* The parent of a new node is a node.
LEMMA ParentInTree ==
  ASSUME Types, NEW at \in Nat
  PROVE  ParentAt(at) \in Ids
  BY DEF Types, ParentAt, Ids, Root, None

\* The proof state of a call is that of the node its own node will be put below, if
\* the named node exists.
LEMMA StateOfParent ==
  ASSUME Types, NEW at \in Nat, at <= Len(nodes)
  PROVE  StateAt(at) = nodes[ParentAt(at)].state
  BY DEF Types, StateAt, ParentAt, Ids, Root, None

LEMMA NodeTypes ==
  ASSUME Types
  PROVE  \A i \in Ids : nodes[i] \in Nodes
  BY DEF Types, Ids

LEMMA Lookup ==
  ASSUME Types, NEW at \in Nat
  PROVE  StateAt(at) \in ProofStates
  <1>1. \A i \in Ids : nodes[i].state \in ProofStates
    BY NodeTypes DEF Nodes
  <1>2. Root \in Ids /\ current \in Ids
    BY DEF Types, Ids, Root
  <1> QED
    BY <1>1, <1>2 DEF StateAt

\* Updates of statuses and counts keep the tree's invariants.
LEMMA Kept ==
  ASSUME IInv, SameTree, UNCHANGED <<solved, astray>>
  PROVE  /\ \A i \in Ids' \ {Root} : nodes'[i].parent \in 1..(i - 1)
                                     /\ nodes'[i].tactic \in Tactics
         /\ Ids' = Ids
         /\ EdgesSound' /\ SolvedIsFirst'
  <1>1. Ids' = Ids
    BY DEF SameTree, Ids
  <1>2. \A i \in Ids \ {Root} : nodes[i].parent \in Ids
    BY DEF IInv, Types, Ids, Root
  <1>3. EdgesSound'
    BY <1>1, <1>2 DEF IInv, EdgesSound, SameTree
  <1>4. SolvedIsFirst'
    <2>1. {i \in Ids' \ {Root} : Complete(nodes'[i].state)}
            = {i \in Ids \ {Root} : Complete(nodes[i].state)}
      BY <1>1 DEF SameTree
    <2> QED
      BY <2>1 DEF IInv, SolvedIsFirst
  <1> QED
    BY <1>1, <1>3, <1>4 DEF IInv, Types, SameTree

LEMMA CountIsNat ==
  ASSUME Types, NEW P \in SUBSET Ids
  PROVE  Cardinality(P) \in Nat
  <1>0. 1 \in Int /\ Len(nodes) \in Int
    BY DEF Types
  <1>1. IsFiniteSet(Ids)
    BY <1>0, FS_Interval DEF Ids
  <1>2. IsFiniteSet(P)
    BY <1>1, FS_Subset
  <1> QED
    BY <1>2, FS_CardinalityType

Counted(n, v, w) == [n EXCEPT !.visits = @ + v, !.wins = @ + w]

LEMMA CountedNode ==
  ASSUME NEW n \in Nodes, NEW v \in Nat, NEW w \in Nat
  PROVE  /\ Counted(n, v, w) \in Nodes
         /\ Counted(n, v, w).parent = n.parent
         /\ Counted(n, v, w).tactic = n.tactic
         /\ Counted(n, v, w).state = n.state
  <1>1. n.visits + v \in Nat /\ n.wins + w \in Nat
    BY DEF Nodes
  <1> QED
    BY <1>1 DEF Nodes, Counted

\* Propagating the results keeps the tree.
LEMMA SettledNode ==
  ASSUME Types, NEW i \in Ids
  PROVE  /\ Settled(nodes[i], i) \in Nodes
         /\ Settled(nodes[i], i).parent = nodes[i].parent
         /\ Settled(nodes[i], i).tactic = nodes[i].tactic
         /\ Settled(nodes[i], i).state = nodes[i].state
  <1> DEFINE new == NewBelow(i)
             won == {j \in new : Complete(nodes[j].state)}
  <1>1. nodes[i] \in Nodes
    BY NodeTypes
  <1>2. Cardinality(new) \in Nat /\ Cardinality(won) \in Nat
    BY CountIsNat DEF NewBelow
  <1>3. Settled(nodes[i], i) = Counted(nodes[i], Cardinality(new), Cardinality(won))
    BY DEF Settled, Counted
  <1> DEFINE v == Cardinality(new)
             w == Cardinality(won)
  <1> HIDE DEF v, w
  <1>4. v \in Nat /\ w \in Nat /\ Settled(nodes[i], i) = Counted(nodes[i], v, w)
    BY <1>2, <1>3 DEF v, w
  <1>5. /\ Counted(nodes[i], v, w) \in Nodes
        /\ Counted(nodes[i], v, w).parent = nodes[i].parent
        /\ Counted(nodes[i], v, w).tactic = nodes[i].tactic
        /\ Counted(nodes[i], v, w).state = nodes[i].state
    BY <1>1, <1>4, CountedNode
  <1> QED
    BY <1>4, <1>5

-----------------------------------------------------------------------------
(* The initial states and the steps.                                        *)

LEMMA InitHolds == Init => IInv
  <1> SUFFICES ASSUME Init PROVE IInv
    OBVIOUS
  <1>1. PICK s \in RootHolds :
          nodes = <<[Node(None, None, s, 0) EXCEPT !.status = "open"]>>
    BY DEF Init
  <1> DEFINE root == [Node(None, None, s, 0) EXCEPT !.status = "open"]
  <1>2. root \in Nodes
    BY SearchAssumption DEF Node, Nodes, None
  <1> HIDE DEF root
  <1>3. nodes = <<root>>
    BY <1>1 DEF root
  <1>4. nodes \in Seq(Nodes) /\ Len(nodes) = 1
    BY <1>2, <1>3
  <1>5. Ids = {1}
    BY <1>4 DEF Ids
  <1>6. Types
    <2>1. /\ solved \in Ids \cup {None} /\ current \in Ids /\ before \in Nat
          /\ phase = "select" /\ astray \in BOOLEAN /\ Ids \ {Root} = {}
      BY <1>5 DEF Init, Root
    <2>2. turn \in 1..MaxTurns
      BY SearchAssumption DEF Init
    <2>3. calls \in [Slots -> {Idle} \cup Calls]
      BY DEF Init
    <2> QED
      BY <1>4, <2>1, <2>2, <2>3 DEF Types
  <1>7. CallsInv
    BY DEF Init, CallsInv
  <1>8. EdgesSound /\ SolvedIsFirst
    BY <1>5 DEF Init, EdgesSound, SolvedIsFirst, Root, None
  <1> QED
    BY <1>6, <1>7, <1>8 DEF IInv

\* Select, ExpansionEnds and ExpanderRaises change statuses and counts, between calls.
LEMMA UpdateKeeps ==
  ASSUME IInv, SameTree, UNCHANGED <<solved, astray, calls>>,
         current' \in Ids, before' \in Nat, turn' \in 1..MaxTurns,
         phase' \in {"select", "turn"}, \A s \in Slots : calls[s] = Idle
  PROVE  IInv'
  <1>1. /\ Ids' = Ids /\ EdgesSound' /\ SolvedIsFirst'
        /\ \A i \in Ids' \ {Root} : nodes'[i].parent \in 1..(i - 1)
                                     /\ nodes'[i].tactic \in Tactics
    BY Kept
  <1>2. Types'
    BY <1>1 DEF IInv, Types, SameTree
  <1>3. CallsInv'
    BY DEF CallsInv
  <1> QED
    BY <1>1, <1>2, <1>3 DEF IInv

LEMMA SelectStep == IInv /\ Select => IInv'
  <1> SUFFICES ASSUME IInv, Select PROVE IInv'
    OBVIOUS
  <1>1. \A i \in Ids : nodes[i] \in Nodes
    BY NodeTypes DEF IInv
  <1>2. \A i \in Ids : /\ nodes'[i] \in Nodes
                       /\ nodes'[i].parent = nodes[i].parent
                       /\ nodes'[i].tactic = nodes[i].tactic
                       /\ nodes'[i].state = nodes[i].state
    BY <1>1 DEF Select, Nodes
  <1>3. nodes' = [i \in 1..Len(nodes) |-> nodes'[i]] /\ Len(nodes) \in Nat
    BY DEF Select, Ids, IInv, Types
  <1>4. nodes' \in Seq(Nodes) /\ Len(nodes') = Len(nodes)
    BY <1>2, <1>3 DEF Ids
  <1>5. current' \in Ids
    BY DEF Select, Choices, Best, Frontier
  <1>6. /\ UNCHANGED <<solved, astray, calls>> /\ before' = Len(nodes)
        /\ phase = "select" /\ phase' = "turn" /\ turn' = 1
    BY DEF Select
  <1>7. SameTree /\ before' \in Nat /\ turn' \in 1..MaxTurns
    BY <1>2, <1>3, <1>4, <1>6, SearchAssumption DEF SameTree
  <1>8. \A s \in Slots : calls[s] = Idle
    BY <1>6 DEF IInv, CallsInv
  <1> QED
    BY <1>5, <1>6, <1>7, <1>8, UpdateKeeps

LEMMA ExpansionEndsStep == IInv /\ ExpansionEnds => IInv'
  <1> SUFFICES ASSUME IInv, ExpansionEnds PROVE IInv'
    OBVIOUS
  <1>1. nodes' = [i \in 1..Len(nodes) |-> Settled(nodes[i], i)] /\ Len(nodes) \in Nat
    BY DEF ExpansionEnds, Ids, IInv, Types
  <1>2. \A i \in Ids : /\ nodes'[i] \in Nodes
                       /\ nodes'[i].parent = nodes[i].parent
                       /\ nodes'[i].tactic = nodes[i].tactic
                       /\ nodes'[i].state = nodes[i].state
    BY <1>1, SettledNode DEF IInv, Ids
  <1>3. nodes' \in Seq(Nodes) /\ Len(nodes') = Len(nodes)
    BY <1>1, <1>2 DEF Ids
  <1>4. \A s \in Slots : calls[s] = Idle
    BY DEF ExpansionEnds, IInv, CallsInv
  <1> QED
    BY <1>2, <1>3, <1>4, UpdateKeeps DEF ExpansionEnds, SameTree, IInv, Types

LEMMA ExpanderRaisesStep == IInv /\ ExpanderRaises => IInv'
  <1> SUFFICES ASSUME IInv, ExpanderRaises PROVE IInv'
    OBVIOUS
  <1>1. nodes' = [i \in 1..Len(nodes) |-> nodes'[i]] /\ Len(nodes) \in Nat
    BY DEF ExpanderRaises, Ids, IInv, Types
  <1>2. \A i \in Ids : \/ nodes'[i] = Settled(nodes[i], i)
                       \/ nodes'[i] = [Settled(nodes[i], i) EXCEPT !.status = "failed"]
    BY DEF ExpanderRaises
  <1>3. \A i \in Ids : /\ nodes'[i] \in Nodes
                       /\ nodes'[i].parent = nodes[i].parent
                       /\ nodes'[i].tactic = nodes[i].tactic
                       /\ nodes'[i].state = nodes[i].state
    <2> TAKE i \in Ids
    <2> DEFINE settled == Settled(nodes[i], i)
    <2>1. /\ settled \in Nodes /\ settled.parent = nodes[i].parent
          /\ settled.tactic = nodes[i].tactic /\ settled.state = nodes[i].state
      BY SettledNode DEF IInv
    <2>2. nodes'[i] = settled \/ nodes'[i] = [settled EXCEPT !.status = "failed"]
      BY <1>2
    <2> HIDE DEF settled
    <2> QED
      BY <2>1, <2>2 DEF Nodes
  <1>4. nodes' \in Seq(Nodes) /\ Len(nodes') = Len(nodes)
    BY <1>1, <1>3 DEF Ids
  <1>5. \A s \in Slots : calls[s] = Idle
    BY DEF ExpanderRaises, IInv, CallsInv
  <1> QED
    BY <1>3, <1>4, <1>5, UpdateKeeps DEF ExpanderRaises, SameTree, IInv, Types

LEMMA AskStep == IInv /\ Ask => IInv'
  <1> SUFFICES ASSUME IInv, Ask PROVE IInv'
    OBVIOUS
  <1>1. /\ calls' \in [Slots -> {Idle} \cup Requests]
        /\ astray' = (astray \/ \E s \in Slots : calls'[s] # Idle /\ GoesAstray(calls'[s]))
    BY DEF Ask
  <1>2. Len(nodes) \in Nat
    BY DEF IInv, Types
  <1>3. ASSUME NEW at \in 0..(Len(nodes) + 1) PROVE Request(at) \subseteq Calls
    <2>1. at \in Nat /\ StateAt(at) \in ProofStates
      BY <1>2, Lookup DEF IInv
    <2>2. AppliedTo(at) \subseteq ProofStates
      BY <2>1 DEF AppliedTo
    <2> QED
      BY <2>1, <2>2 DEF Request, Calls
  <1>4. Requests \subseteq Calls
    BY <1>3 DEF Requests
  <1>5. calls' \in [Slots -> {Idle} \cup Calls]
    BY <1>1, <1>4
  <1>6. UNCHANGED <<nodes, solved, current, before, turn>> /\ phase' = "calls"
    BY DEF Ask
  <1>7. Types'
    BY <1>1, <1>5, <1>6 DEF IInv, Types, Ids
  <1>8. CallsInv'
    <2> SUFFICES ASSUME ~astray', NEW s \in Slots, calls'[s] # Idle
                 PROVE  /\ calls'[s].at <= Len(nodes)
                        /\ calls'[s].from = nodes[ParentAt(calls'[s].at)].state
      BY <1>6 DEF CallsInv, ParentAt, Ids
    <2>1. calls'[s] \in Calls
      BY <1>5, IdleCall
    <2>2. calls'[s].at \in Nat
      BY <2>1, CallParts, Zenon
    <2>3. ~GoesAstray(calls'[s])
      BY <1>1
    <2>4. calls'[s].at <= Len(nodes) /\ calls'[s].from = StateAt(calls'[s].at)
      BY <1>2, <2>2, <2>3 DEF GoesAstray
    <2> QED
      BY <2>2, <2>4, StateOfParent DEF IInv
  <1>9. EdgesSound' /\ SolvedIsFirst'
    BY <1>1, <1>6 DEF IInv, EdgesSound, SolvedIsFirst, Ids
  <1> QED
    BY <1>7, <1>8, <1>9 DEF IInv

LEMMA AppliedStep ==
  ASSUME IInv, NEW s \in Slots, Applied(s)
  PROVE  IInv'
  <1> DEFINE call == calls[s]
             state == After(call.from, call.tactic)
             parent == ParentAt(call.at)
             n == Len(nodes) + 1
             node == Node(parent, call.tactic, state, nodes[parent].depth + 1)
  <1>1. call \in Calls
    BY IdleCall DEF Applied, IInv, Types
  <1>c. call.at \in Nat /\ call.tactic \in Tactics /\ call.from \in ProofStates
    <2> HIDE DEF call
    <2> QED
      BY <1>1, CallParts
  <1>2. parent \in Ids /\ nodes[parent] \in Nodes
    <2>1. parent \in Ids
      BY <1>c, ParentInTree DEF IInv
    <2> QED
      BY <2>1, NodeTypes DEF IInv
  <1>3. state \in ProofStates
    <2>1. call.from \in ProofStates /\ call.tactic \in Tactics /\ call.from # Fails
      <3> HIDE DEF call
      <3> QED
        BY <1>c, StepsAssumption
    <2>2. Leads[call.from, call.tactic] \in ProofStates \cup {Fails}
      BY <2>1, StepsAssumption
    <2> QED
      BY <2>1, <2>2 DEF Applied, After
  <1>4. node \in Nodes
    <2>1. parent \in Nat /\ nodes[parent].depth + 1 \in Nat
      BY <1>2 DEF Nodes, Ids
    <2>2. call.tactic \in Tactics /\ parent \in Nat
      BY <1>c, <2>1
    <2> DEFINE tactic == call.tactic
               depth == nodes[parent].depth + 1
    <2>3. tactic \in Tactics /\ depth \in Nat /\ node = Node(parent, tactic, state, depth)
      BY <2>1, <2>2
    <2> HIDE DEF tactic, depth, node, state, parent
    <2> QED
      BY ONLY <1>3, <2>2, <2>3 DEF Node, Nodes
  <1>5. /\ node.parent = parent /\ node.tactic = call.tactic /\ node.state = state
    BY DEF Node
  <1>6. nodes' = Append(nodes, node) /\ nodes \in Seq(Nodes)
    BY DEF Applied, IInv, Types
  <1> HIDE DEF node, state, parent
  <1>7. /\ nodes' \in Seq(Nodes) /\ Len(nodes') = n /\ Len(nodes) \in Nat
        /\ nodes'[n] = node /\ \A i \in Ids : nodes'[i] = nodes[i]
    BY ONLY <1>4, <1>6 DEF Ids
  <1>8. Ids' = Ids \cup {n} /\ n \notin Ids /\ n # Root /\ Root \in Ids
    BY <1>7 DEF Ids, Root, IInv, Types
  <1>9. /\ solved' = (IF Complete(state) /\ solved = None THEN n ELSE solved)
        /\ calls' = [calls EXCEPT ![s] = Idle]
        /\ UNCHANGED <<current, before, phase, turn, astray>> /\ phase = "calls"
    BY DEF Applied, FirstSolved, state
  <1>10. Types'
    <2>1. \A i \in Ids' \ {Root} : nodes'[i].parent \in 1..(i - 1)
                                  /\ nodes'[i].tactic \in Tactics
      <3>1. ASSUME NEW i \in Ids \ {Root}
            PROVE  nodes'[i].parent \in 1..(i - 1) /\ nodes'[i].tactic \in Tactics
        BY <1>7 DEF IInv, Types
      <3>2. parent \in 1..(n - 1)
        BY <1>2, <1>7 DEF Ids
      <3>3. nodes'[n].parent \in 1..(n - 1) /\ nodes'[n].tactic \in Tactics
        BY <1>c, <1>5, <1>7, <3>2
      <3> HIDE DEF n
      <3> QED
        BY ONLY <1>8, <3>1, <3>3
    <2>2. solved' \in Ids' \cup {None} /\ current' \in Ids'
      BY <1>8, <1>9 DEF IInv, Types
    <2>3. calls' \in [Slots -> {Idle} \cup Calls]
      BY <1>9 DEF IInv, Types
    <2> QED
      BY <1>7, <1>9, <2>1, <2>2, <2>3 DEF IInv, Types
  <1>11. CallsInv'
    <2> SUFFICES ASSUME ~astray', NEW r \in Slots, calls'[r] # Idle
                 PROVE  /\ calls'[r].at <= Len(nodes')
                        /\ calls'[r].from =
                             nodes'[IF calls'[r].at = None THEN current'
                                    ELSE IF calls'[r].at \in Ids' THEN calls'[r].at
                                    ELSE Root].state
      BY <1>9 DEF CallsInv, ParentAt
    <2>1. calls'[r] = calls[r] /\ calls[r] # Idle
      BY <1>9 DEF IInv, Types
    <2>2. calls[r] \in Calls
      BY <2>1, IdleCall DEF IInv, Types
    <2>3. /\ calls[r].at \in Nat /\ calls[r].at <= Len(nodes)
          /\ calls[r].from = nodes[ParentAt(calls[r].at)].state
      BY <1>9, <2>1, <2>2 DEF IInv, CallsInv, Calls
    <2>4. ParentAt(calls[r].at) \in Ids
      BY <2>3, ParentInTree DEF IInv
    <2>5. (IF calls'[r].at = None THEN current'
           ELSE IF calls'[r].at \in Ids' THEN calls'[r].at ELSE Root)
             = ParentAt(calls[r].at)
      <3>1. calls[r].at = None \/ (calls[r].at \in Ids /\ calls[r].at \in Ids')
        BY <1>8, <2>3 DEF None, Ids
      <3> QED
        BY <1>9, <2>1, <3>1 DEF ParentAt
    <2> QED
      BY <1>7, <2>1, <2>3, <2>4, <2>5
  <1>12. EdgesSound'
    <2> SUFFICES ASSUME ~astray', NEW i \in Ids' \ {Root}
                 PROVE  nodes'[i].state = After(nodes'[nodes'[i].parent].state, nodes'[i].tactic)
      BY DEF EdgesSound
    <2>1. CASE i = n
      <3>1. call.from = nodes[parent].state
        BY <1>9 DEF IInv, CallsInv, Applied, parent
      <3>2. nodes'[n].parent = parent /\ nodes'[n].tactic = call.tactic /\ nodes'[n].state = state
        BY <1>5, <1>7
      <3>3. nodes'[parent] = nodes[parent]
        BY <1>2, <1>7
      <3> QED
        BY <2>1, <3>1, <3>2, <3>3 DEF state
    <2>2. CASE i # n
      <3>1. i \in Ids \ {Root} /\ nodes[i].parent \in Ids
        BY <1>8, <2>2 DEF IInv, Types, Ids
      <3> QED
        BY <1>7, <1>9, <3>1 DEF IInv, EdgesSound
    <2> QED
      BY <2>1, <2>2
  <1>13. SolvedIsFirst'
    <2> DEFINE complete == {i \in Ids \ {Root} : Complete(nodes[i].state)}
               now == {i \in Ids' \ {Root} : Complete(nodes'[i].state)}
    <2>1. now = IF Complete(state) THEN complete \cup {n} ELSE complete
      BY <1>5, <1>7, <1>8
    <2>2. IF complete = {} THEN solved = None
          ELSE solved \in complete /\ \A i \in complete : solved <= i
      BY DEF IInv, SolvedIsFirst
    <2>3. \A i \in complete : i \in Nat /\ i <= n /\ i # None
      BY <1>7 DEF Ids, None
    <2>4. n \in Nat
      BY <1>7
    <2>5. SolvedIsFirst' <=> IF now = {} THEN solved' = None
                             ELSE solved' \in now /\ \A i \in now : solved' <= i
      BY DEF SolvedIsFirst
    <2> HIDE DEF complete, now
    <2> QED
      BY <1>9, <2>1, <2>2, <2>3, <2>4, <2>5
  <1> QED
    BY <1>10, <1>11, <1>12, <1>13 DEF IInv

LEMMA RejectedStep ==
  ASSUME IInv, NEW s \in Slots, Rejected(s)
  PROVE  IInv'
  <1>1. /\ calls' = [calls EXCEPT ![s] = Idle] /\ phase = "calls"
        /\ UNCHANGED <<nodes, solved, current, before, phase, turn, astray>>
    BY DEF Rejected
  <1>2. Types'
    BY <1>1 DEF IInv, Types, Ids
  <1>3. \A r \in Slots : calls'[r] # Idle => calls'[r] = calls[r]
    BY <1>1 DEF IInv, Types
  <1>4. CallsInv'
    BY <1>1, <1>3 DEF IInv, CallsInv, ParentAt, Ids
  <1>5. EdgesSound' /\ SolvedIsFirst'
    BY <1>1 DEF IInv, EdgesSound, SolvedIsFirst, Ids
  <1> QED
    BY <1>2, <1>4, <1>5 DEF IInv

\* The other steps change neither the tree nor the calls.
LEMMA OthersStep ==
  ASSUME IInv, UNCHANGED <<nodes, solved, current, before, calls, astray>>,
         turn' \in 1..MaxTurns, phase' \in {"select", "turn", "calls", "done"},
         phase' # "calls" => \A s \in Slots : calls[s] = Idle
  PROVE  IInv'
  BY DEF IInv, Types, CallsInv, EdgesSound, SolvedIsFirst, Ids, ParentAt

LEMMA StepHolds == IInv /\ [Next]_vars => IInv'
  <1> SUFFICES ASSUME IInv, [Next]_vars PROVE IInv'
    OBVIOUS
  <1>1. CASE SearchReturns
    BY <1>1, OthersStep DEF SearchReturns, IInv, Types, CallsInv
  <1>2. CASE NextTurn
    BY <1>2, OthersStep, SearchAssumption DEF NextTurn, IInv, Types
  <1>3. CASE UNCHANGED vars
    BY <1>3, OthersStep DEF vars, IInv, Types, CallsInv
  <1>4. CASE CallEnds
    BY <1>4, AppliedStep, RejectedStep DEF CallEnds
  <1> QED
    BY <1>1, <1>2, <1>3, <1>4, SelectStep, AskStep, ExpansionEndsStep,
       ExpanderRaisesStep DEF Next

\* The invariant holds in every state.
THEOREM Inductive == Spec => []IInv
  BY InitHolds, StepHolds, PTL DEF Spec

\* Every node's proof state is the one its tactic leads to from its parent's, for any
\* number of parallel calls, unless a call named a node that did not exist
\* or was sent to a process in which its number names another proof state
\* (engine/search/core.py, expand).
THEOREM EdgesHold == Spec => []EdgesSound
  <1>1. IInv => EdgesSound
    BY DEF IInv
  <1> QED
    BY <1>1, Inductive, PTL

\* The solved node is the first complete one (engine/search/core.py, expand).
THEOREM FirstSolution == Spec => []SolvedIsFirst
  <1>1. IInv => SolvedIsFirst
    BY DEF IInv
  <1> QED
    BY <1>1, Inductive, PTL

-----------------------------------------------------------------------------
(* The bound on the nodes.                                                  *)

Pending == {s \in Slots : calls[s] # Idle}

Width == Cardinality(Slots)

\* An expansion begins below max_nodes; each of its turns adds at most one node per
\* call, and the calls still under way are counted in advance.
BudgetInv ==
  /\ phase \in {"select", "done"} => NodesBounded
  /\ phase \in {"turn", "calls"} => before < MaxNodes
  /\ phase = "turn" => Len(nodes) + Width <= before + turn * Width
  /\ phase = "calls" => Len(nodes) + Cardinality(Pending) <= before + turn * Width

LEMMA WidthIsNat == Width \in Nat /\ Width >= 1
  <1>1. Width \in Nat
    BY SearchAssumption, FS_CardinalityType DEF Width
  <1>2. Width # 0
    BY SearchAssumption, FS_EmptySet DEF Width
  <1> QED
    BY <1>1, <1>2

LEMMA PendingCount ==
  /\ IsFiniteSet(Pending) /\ Cardinality(Pending) \in Nat
  /\ Cardinality(Pending) <= Width
  BY SearchAssumption, FS_Subset, FS_CardinalityType DEF Pending, Width

LEMMA MoreTurns ==
  ASSUME NEW t \in Nat, NEW m \in Nat, t <= m, NEW w \in Nat
  PROVE  /\ t * w \in Nat /\ m * w \in Nat /\ t * w <= m * w
         /\ (t + 1) * w = t * w + w
  <1>1. (t + 1) * w = t * w + w /\ t * w \in Nat
    OBVIOUS
  <1>2. PICK d \in Nat : m = t + d
    <2>1. m - t \in Nat /\ m = t + (m - t)
      OBVIOUS
    <2> QED
      BY <2>1
  <1>3. m * w = t * w + d * w /\ d * w \in Nat
    BY <1>2
  <1> QED
    BY <1>1, <1>3

\* A call that ends leaves one less under way.
LEMMA OneLess ==
  ASSUME Types, NEW s \in Slots, calls[s] # Idle, calls' = [calls EXCEPT ![s] = Idle]
  PROVE  Cardinality(Pending') = Cardinality(Pending) - 1
  <1>1. s \in Pending /\ Pending' = Pending \ {s}
    BY DEF Pending, Types
  <1> QED
    BY <1>1, PendingCount, FS_RemoveElement

\* An expansion ends with no call under way, within its budget.
LEMMA WithinBudget ==
  ASSUME Types, BudgetInv, phase \in {"turn", "calls"},
         phase = "calls" => Pending = {}
  PROVE  /\ Len(nodes) <= before + turn * Width
         /\ NodesBounded
  <1>1. /\ Len(nodes) \in Nat /\ before \in Nat /\ turn \in Nat /\ turn <= MaxTurns
        /\ MaxTurns \in Nat /\ MaxNodes \in Nat /\ before < MaxNodes
    BY SearchAssumption DEF Types, BudgetInv
  <1>2. Len(nodes) <= before + turn * Width
    BY <1>1, WidthIsNat, MoreTurns, FS_EmptySet DEF BudgetInv
  <1>3. /\ turn * Width \in Nat /\ MaxTurns * Width \in Nat
        /\ turn * Width <= MaxTurns * Width
    BY <1>1, WidthIsNat, MoreTurns
  <1>4. Len(nodes) < MaxNodes + MaxTurns * Width
    BY <1>1, <1>2, <1>3
  <1> QED
    BY <1>2, <1>4 DEF NodesBounded, Width

LEMMA BudgetInit == Init => BudgetInv
  <1> SUFFICES ASSUME Init PROVE BudgetInv
    OBVIOUS
  <1>1. Len(nodes) = 1
    BY DEF Init
  <1>2. MaxTurns * Width \in Nat /\ 1 * Width <= MaxTurns * Width /\ 1 * Width = Width
    BY SearchAssumption, WidthIsNat, MoreTurns
  <1>3. 1 < MaxNodes + MaxTurns * Width
    BY <1>2, WidthIsNat, SearchAssumption
  <1> QED
    BY <1>1, <1>3 DEF Init, BudgetInv, NodesBounded, Width

LEMMA BudgetStep == IInv /\ BudgetInv /\ [Next]_vars => BudgetInv'
  <1> SUFFICES ASSUME IInv, BudgetInv, [Next]_vars PROVE BudgetInv'
    OBVIOUS
  <1>t. /\ Types /\ Len(nodes) \in Nat /\ turn \in Nat /\ before \in Nat
        /\ Width \in Nat /\ Cardinality(Pending) \in Nat /\ turn * Width \in Nat
    BY WidthIsNat, PendingCount, MoreTurns DEF IInv, Types
  <1>1. CASE Select
    <2>1. /\ Len(nodes) < MaxNodes /\ before' = Len(nodes) /\ turn' = 1
          /\ phase' = "turn" /\ Len(nodes') = Len(nodes)
      BY <1>1, <1>t, SearchAssumption DEF Select, SearchOver, Ids
    <2>2. 1 * Width = Width
      BY <1>t
    <2> QED
      BY <1>t, <2>1, <2>2 DEF BudgetInv
  <1>2. CASE SearchReturns
    BY <1>2 DEF SearchReturns, BudgetInv, NodesBounded
  <1>3. CASE Ask
    <2>1. /\ before < MaxNodes /\ Len(nodes) + Width <= before + turn * Width
          /\ phase' = "calls" /\ UNCHANGED <<nodes, before, turn>>
      BY <1>3 DEF Ask, BudgetInv
    <2>2. Cardinality(Pending') \in Nat /\ Cardinality(Pending') <= Width
      <3>1. IsFiniteSet(Slots) /\ Pending' \subseteq Slots
        BY SearchAssumption DEF Pending
      <3> QED
        BY <3>1, FS_Subset, FS_CardinalityType DEF Width
    <2> QED
      BY <1>t, <2>1, <2>2 DEF BudgetInv
  <1>4. ASSUME NEW s \in Slots, Applied(s) PROVE BudgetInv'
    <2>1. /\ phase = "calls" /\ phase' = "calls" /\ UNCHANGED <<before, turn>>
          /\ calls[s] # Idle /\ calls' = [calls EXCEPT ![s] = Idle]
          /\ before < MaxNodes
          /\ Len(nodes) + Cardinality(Pending) <= before + turn * Width
      BY <1>4 DEF Applied, BudgetInv
    <2>2. Cardinality(Pending') = Cardinality(Pending) - 1
      BY <1>t, <2>1, OneLess
    <2>3. Len(nodes') = Len(nodes) + 1
      BY <1>4, <1>t DEF Applied, Types
    <2> QED
      BY <1>t, <2>1, <2>2, <2>3 DEF BudgetInv
  <1>5. ASSUME NEW s \in Slots, Rejected(s) PROVE BudgetInv'
    <2>1. /\ phase = "calls" /\ phase' = "calls" /\ UNCHANGED <<nodes, before, turn>>
          /\ calls[s] # Idle /\ calls' = [calls EXCEPT ![s] = Idle]
          /\ before < MaxNodes
          /\ Len(nodes) + Cardinality(Pending) <= before + turn * Width
      BY <1>5 DEF Rejected, BudgetInv
    <2>2. Cardinality(Pending') = Cardinality(Pending) - 1
      BY <1>t, <2>1, OneLess
    <2> QED
      BY <1>t, <2>1, <2>2 DEF BudgetInv
  <1>6. CASE NextTurn
    <2>1. /\ phase = "calls" /\ Pending = {} /\ turn' = turn + 1 /\ phase' = "turn"
          /\ UNCHANGED <<nodes, before>> /\ before < MaxNodes
      BY <1>6 DEF NextTurn, Pending, BudgetInv
    <2>2. Len(nodes) <= before + turn * Width
      BY <1>t, <2>1, WithinBudget
    <2>3. turn' * Width = turn * Width + Width
      BY <1>t, <2>1, MoreTurns
    <2> QED
      BY <1>t, <2>1, <2>2, <2>3 DEF BudgetInv
  <1>7. CASE ExpansionEnds \/ ExpanderRaises
    <2>1. /\ phase \in {"turn", "calls"} /\ (phase = "calls" => Pending = {})
          /\ phase' = "select"
      BY <1>7 DEF ExpansionEnds, ExpanderRaises, Pending
    <2>2. Len(nodes') = Len(nodes)
      BY <1>7, <1>t DEF ExpansionEnds, ExpanderRaises, Ids
    <2>3. NodesBounded
      BY <1>t, <2>1, WithinBudget
    <2> QED
      BY <2>1, <2>2, <2>3 DEF BudgetInv, NodesBounded
  <1>8. CASE UNCHANGED vars
    BY <1>8 DEF vars, BudgetInv, NodesBounded, Pending
  <1> QED
    BY <1>1, <1>2, <1>3, <1>4, <1>5, <1>6, <1>7, <1>8 DEF Next, CallEnds

\* max_nodes is overshot by the calls of one expansion at most, for any number of
\* turns and parallel calls (engine/search/runner.py, the check before select).
THEOREM BoundHolds == Spec => []NodesBounded
  <1>1. IInv /\ BudgetInv => NodesBounded
    <2> SUFFICES ASSUME IInv, BudgetInv, phase \in {"turn", "calls"} PROVE NodesBounded
      BY DEF IInv, Types, BudgetInv
    <2>1. /\ Types /\ Len(nodes) \in Nat /\ turn \in Nat /\ turn <= MaxTurns
          /\ before \in Nat /\ before < MaxNodes /\ Width \in Nat
          /\ Cardinality(Pending) \in Nat /\ MaxTurns \in Nat /\ MaxNodes \in Nat
      BY SearchAssumption, WidthIsNat, PendingCount DEF IInv, Types, BudgetInv
    <2>2. Len(nodes) <= before + turn * Width
      BY <2>1, MoreTurns DEF BudgetInv
    <2>3. /\ turn * Width \in Nat /\ MaxTurns * Width \in Nat
          /\ turn * Width <= MaxTurns * Width
      BY <2>1, MoreTurns
    <2> QED
      BY <2>1, <2>2, <2>3 DEF NodesBounded, Width
  <1>2. Spec => []BudgetInv
    BY BudgetInit, BudgetStep, Inductive, PTL DEF Spec
  <1> QED
    BY <1>1, <1>2, Inductive, PTL

-----------------------------------------------------------------------------
(* Recursion and induction along the tree.                                  *)

\* A set of numbers that is not empty has a least one: the form in which the proofs
\* use induction.
LEMMA LeastNumber ==
  ASSUME NEW S, S \subseteq Nat, S # {}
  PROVE  \E m \in S : \A n \in S : m <= n
  <1>1. PICK m \in S : \A n \in S : <<n, m>> \notin OpToRel(<, Nat)
    BY WFMin, NatLessThanWellFounded, Zenon
  <1>2. \A n \in S : n \in Nat /\ ~(n < m)
    BY <1>1, Zenon DEF OpToRel
  <1>3. \A n \in S : m <= n
    BY <1>2
  <1> QED
    BY <1>3

\* f is computed along the tree with n nodes whose parents are up: base at the root, and
\* step[i] of the parent's value at node i.
Computes(f, n, up, base, step) ==
  f = [i \in 1..n |-> IF i = Root THEN base ELSE step[i][f[up[i]]]]

\* Such a function exists, as every parent has a smaller number than its child.
LEMMA RecursionExists ==
  ASSUME NEW N \in Nat, NEW up, \A i \in (1..N) \ {Root} : up[i] \in 1..(i - 1),
         NEW V, NEW base \in V, NEW step, \A i \in (1..N) \ {Root} : step[i] \in [V -> V]
  PROVE  \E f \in [1..N -> V] : Computes(f, N, up, base, step)
  <1> DEFINE Bad == {n \in 0..N : ~\E f \in [1..n -> V] : Computes(f, n, up, base, step)}
  <1> SUFFICES ASSUME Bad # {} PROVE FALSE
    OBVIOUS
  <1>1. PICK m \in Bad : \A n \in Bad : m <= n
    <2>1. Bad \subseteq Nat
      OBVIOUS
    <2> HIDE DEF Bad
    <2> QED
      BY <2>1, LeastNumber
  <1>2. m \in 0..N /\ ~\E f \in [1..m -> V] : Computes(f, m, up, base, step)
    OBVIOUS
  <1>3. m # 0
    <2>1. [i \in {} |-> base] \in [1..0 -> V]
      OBVIOUS
    <2>2. Computes([i \in {} |-> base], 0, up, base, step)
      BY DEF Computes
    <2> QED
      BY <1>2, <2>1, <2>2
  <1>4. m - 1 \in 0..N /\ m - 1 \notin Bad
    BY <1>1, <1>2, <1>3
  <1>5. PICK f \in [1..(m - 1) -> V] : Computes(f, m - 1, up, base, step)
    BY <1>4
  <1> DEFINE last == IF m = Root THEN base ELSE step[m][f[up[m]]]
             g == [i \in 1..m |-> IF i = m THEN last ELSE f[i]]
  <1>6. last \in V
    <2>1. CASE m = Root
      BY <2>1
    <2>2. CASE m # Root
      <3>1. up[m] \in 1..(m - 1) /\ step[m] \in [V -> V]
        BY <1>2, <1>3, <2>2
      <3> QED
        BY <2>2, <3>1
    <2> QED
      BY <2>1, <2>2
  <1>7. g \in [1..m -> V]
    <2> HIDE DEF last
    <2> QED
      BY <1>2, <1>6
  <1>8. \A i \in 1..m : g[i] = IF i = Root THEN base ELSE step[i][g[up[i]]]
    <2> TAKE i \in 1..m
    <2>1. i # Root => up[i] \in 1..(i - 1) /\ up[i] \in 1..(m - 1) /\ g[up[i]] = f[up[i]]
      BY <1>2
    <2>2. CASE i = m
      BY <2>1, <2>2
    <2>3. CASE i # m
      <3>1. i \in 1..(m - 1)
        BY <1>2, <2>3
      <3>2. f[i] = IF i = Root THEN base ELSE step[i][f[up[i]]]
        BY <1>5, <3>1 DEF Computes
      <3> QED
        BY <2>1, <2>3, <3>2
    <2> QED
      BY <2>2, <2>3
  <1>9. Computes(g, m, up, base, step)
    <2> HIDE DEF last
    <2>1. g = [i \in 1..m |-> g[i]]
      OBVIOUS
    <2> HIDE DEF g
    <2> QED
      BY <1>8, <2>1 DEF Computes
  <1> HIDE DEF g
  <1> QED
    BY <1>2, <1>7, <1>9

\* ancestors(i) in tree t.
AncestorsIn(t) ==
  LET up[i \in 1..Len(t)] == IF i = Root THEN {Root} ELSE {i} \cup up[t[i].parent]
  IN up

\* A sequence of nodes that is a tree.
IsTree(t) == /\ Len(t) \in Nat
             /\ \A i \in (1..Len(t)) \ {Root} : t[i].parent \in 1..(i - 1)

LEMMA AncestorsEquation ==
  ASSUME NEW t, IsTree(t)
  PROVE  AncestorsIn(t) = [i \in 1..Len(t) |->
           IF i = Root THEN {Root} ELSE {i} \cup AncestorsIn(t)[t[i].parent]]
  <1> DEFINE N == Len(t)
             up == [i \in 1..N |-> t[i].parent]
             V == SUBSET Nat
             step == [i \in 1..N |-> [s \in V |-> {i} \cup s]]
  <1>1. N \in Nat /\ \A i \in (1..N) \ {Root} : up[i] \in 1..(i - 1)
    BY DEF IsTree
  <1>2. {Root} \in V /\ \A i \in (1..N) \ {Root} : step[i] \in [V -> V]
    <2>1. {Root} \in V
      BY DEF Root
    <2>2. \A i \in 1..N, s \in V : {i} \cup s \in V
      OBVIOUS
    <2>3. \A i \in 1..N : [s \in V |-> {i} \cup s] \in [V -> V]
      BY <2>2
    <2> QED
      BY <2>1, <2>3
  <1>3. PICK f \in [1..N -> V] : Computes(f, N, up, {Root}, step)
    <2> HIDE DEF N, up, V, step
    <2> QED
      BY <1>1, <1>2, RecursionExists
  <1>4. f = [i \in 1..N |-> IF i = Root THEN {Root} ELSE {i} \cup f[t[i].parent]]
    <2>1. \A i \in (1..N) \ {Root} : step[i][f[up[i]]] = {i} \cup f[t[i].parent]
      <3> TAKE i \in (1..N) \ {Root}
      <3>1. up[i] \in 1..N /\ up[i] = t[i].parent
        BY <1>1
      <3>2. f[up[i]] \in V
        BY <3>1
      <3> QED
        BY <3>1, <3>2
    <2> HIDE DEF step
    <2> QED
      BY <1>3, <2>1 DEF Computes
  <1>5. \E g : g = [i \in 1..Len(t) |-> IF i = Root THEN {Root} ELSE {i} \cup g[t[i].parent]]
    BY <1>4
  <1> QED
    BY <1>5 DEF AncestorsIn

LEMMA AncestorsRule ==
  ASSUME NEW t, IsTree(t)
  PROVE  \A i \in 1..Len(t) :
           AncestorsIn(t)[i] = IF i = Root THEN {Root} ELSE {i} \cup AncestorsIn(t)[t[i].parent]
  <1> DEFINE A == AncestorsIn(t)
  <1>1. A = [i \in 1..Len(t) |-> IF i = Root THEN {Root} ELSE {i} \cup A[t[i].parent]]
    BY AncestorsEquation
  <1> HIDE DEF A
  <1>2. \A i \in 1..Len(t) : A[i] = IF i = Root THEN {Root} ELSE {i} \cup A[t[i].parent]
    BY <1>1, Zenon
  <1> QED
    BY <1>2 DEF A

\* A node's ancestors have numbers up to its own.
LEMMA AncestorsBelow ==
  ASSUME NEW t, IsTree(t)
  PROVE  \A i \in 1..Len(t) : AncestorsIn(t)[i] \subseteq 1..i
  <1> DEFINE A == AncestorsIn(t)
             Bad == {i \in 1..Len(t) : ~(A[i] \subseteq 1..i)}
  <1> SUFFICES ASSUME Bad # {} PROVE FALSE
    OBVIOUS
  <1>0. Len(t) \in Nat
    BY DEF IsTree
  <1>e. \A i \in 1..Len(t) : A[i] = IF i = Root THEN {Root} ELSE {i} \cup A[t[i].parent]
    BY AncestorsRule
  <1> HIDE DEF A
  <1>1. PICK m \in Bad : \A n \in Bad : m <= n
    <2>1. Bad \subseteq Nat
      BY <1>0
    <2> HIDE DEF Bad
    <2> QED
      BY <2>1, LeastNumber
  <1>2. m \in 1..Len(t) /\ m # Root
    <2>1. m \in 1..Len(t) /\ ~(A[m] \subseteq 1..m)
      OBVIOUS
    <2>2. A[Root] \subseteq 1..Root \/ Root \notin 1..Len(t)
      <3>1. Root \in 1..Len(t) => A[Root] = {Root}
        BY <1>e
      <3> QED
        BY <3>1 DEF Root
    <2> QED
      BY <2>1, <2>2
  <1> DEFINE p == t[m].parent
  <1>3. p \in 1..(m - 1)
    BY <1>2 DEF IsTree
  <1>4. A[m] = {m} \cup A[p]
    BY <1>2, <1>e
  <1> HIDE DEF p
  <1>5. p \notin Bad /\ p \in 1..Len(t)
    BY <1>0, <1>1, <1>2, <1>3
  <1>6. A[p] \subseteq 1..p
    BY <1>5
  <1> QED
    BY <1>0, <1>2, <1>3, <1>4, <1>6

\* Two trees with the same parents up to node n have the same ancestors up to n.
LEMMA AncestorsAgree ==
  ASSUME NEW t, NEW u, IsTree(t), IsTree(u),
         NEW n \in Nat, n <= Len(t), n <= Len(u),
         \A i \in 1..n : t[i].parent = u[i].parent
  PROVE  \A i \in 1..n : AncestorsIn(t)[i] = AncestorsIn(u)[i]
  <1> DEFINE A == AncestorsIn(t)
             B == AncestorsIn(u)
             Bad == {i \in 1..n : A[i] # B[i]}
  <1> SUFFICES ASSUME Bad # {} PROVE FALSE
    OBVIOUS
  <1>0. Len(t) \in Nat /\ Len(u) \in Nat
    BY DEF IsTree
  <1>a. \A i \in 1..Len(t) : A[i] = IF i = Root THEN {Root} ELSE {i} \cup A[t[i].parent]
    BY AncestorsRule
  <1>b. \A i \in 1..Len(u) : B[i] = IF i = Root THEN {Root} ELSE {i} \cup B[u[i].parent]
    BY AncestorsRule
  <1> HIDE DEF A, B
  <1>1. PICK m \in Bad : \A k \in Bad : m <= k
    <2>1. Bad \subseteq Nat
      OBVIOUS
    <2> HIDE DEF Bad
    <2> QED
      BY <2>1, LeastNumber
  <1>2. m \in 1..n /\ m \in 1..Len(t) /\ m \in 1..Len(u) /\ A[m] # B[m]
    BY <1>0
  <1>3. m # Root
    BY <1>2, <1>a, <1>b
  <1> DEFINE p == t[m].parent
  <1>4. p \in 1..(m - 1) /\ p = u[m].parent
    BY <1>2, <1>3 DEF IsTree
  <1>5. A[m] = {m} \cup A[p] /\ B[m] = {m} \cup B[p]
    BY <1>2, <1>3, <1>4, <1>a, <1>b
  <1> HIDE DEF p
  <1>6. p \notin Bad /\ p \in 1..n
    BY <1>1, <1>2, <1>4
  <1> QED
    BY <1>2, <1>5, <1>6

-----------------------------------------------------------------------------
(* Visits and successes.                                                    *)

\* The nodes up to m, the root left out, that are node i or below it; the complete ones.
BelowIn(t, m, i) == {j \in 2..m : i \in AncestorsIn(t)[j]}
WonIn(t, m, i) == {j \in BelowIn(t, m, i) : Complete(t[j].state)}

\* The nodes up to m are counted.
CountsIn(t, m) ==
  \A i \in 1..Len(t) : /\ t[i].visits = Cardinality(BelowIn(t, m, i))
                       /\ t[i].wins = Cardinality(WonIn(t, m, i))

LEMMA SameBelow ==
  ASSUME NEW t, NEW u, IsTree(t), IsTree(u),
         NEW m \in Nat, m <= Len(t), m <= Len(u),
         \A i \in 1..m : t[i].parent = u[i].parent /\ t[i].state = u[i].state,
         NEW i
  PROVE  BelowIn(t, m, i) = BelowIn(u, m, i) /\ WonIn(t, m, i) = WonIn(u, m, i)
  <1>1. \A j \in 1..m : AncestorsIn(t)[j] = AncestorsIn(u)[j]
    BY AncestorsAgree
  <1>2. \A j \in 2..m : j \in 1..m
    OBVIOUS
  <1>3. BelowIn(t, m, i) = BelowIn(u, m, i)
    BY <1>1, <1>2 DEF BelowIn
  <1> QED
    BY <1>2, <1>3 DEF WonIn, BelowIn

LEMMA BelowIsFinite ==
  ASSUME NEW t, NEW m \in Nat, NEW i
  PROVE  /\ IsFiniteSet(BelowIn(t, m, i)) /\ IsFiniteSet(WonIn(t, m, i))
         /\ Cardinality(BelowIn(t, m, i)) \in 0..m /\ Cardinality(WonIn(t, m, i)) \in 0..m
  <1>1. IsFiniteSet(1..m) /\ Cardinality(1..m) = m
    BY FS_Interval
  <1>2. BelowIn(t, m, i) \subseteq 1..m /\ WonIn(t, m, i) \subseteq 1..m
    BY DEF BelowIn, WonIn
  <1> DEFINE below == BelowIn(t, m, i)
             won == WonIn(t, m, i)
  <1> HIDE DEF below, won
  <1>3. /\ IsFiniteSet(below) /\ Cardinality(below) <= m
        /\ IsFiniteSet(won) /\ Cardinality(won) <= m
    BY <1>1, <1>2, FS_Subset DEF below, won
  <1> QED
    BY <1>3, FS_CardinalityType DEF below, won

\* Changes that leave parents, states and counts keep what is counted.
LEMMA CountsKept ==
  ASSUME NEW t, NEW u, IsTree(t), IsTree(u), Len(u) = Len(t),
         NEW m \in 1..Len(t), CountsIn(t, m),
         \A i \in 1..Len(t) : /\ t[i].parent = u[i].parent /\ t[i].state = u[i].state
                              /\ t[i].visits = u[i].visits /\ t[i].wins = u[i].wins
  PROVE  CountsIn(u, m)
  <1>1. Len(t) \in Nat /\ m \in Nat /\ m <= Len(t) /\ m <= Len(u)
    BY DEF IsTree
  <1>2. \A i \in 1..m : t[i].parent = u[i].parent /\ t[i].state = u[i].state
    BY <1>1
  <1>3. \A i : BelowIn(t, m, i) = BelowIn(u, m, i) /\ WonIn(t, m, i) = WonIn(u, m, i)
    BY <1>1, <1>2, SameBelow
  <1> QED
    BY <1>3, Zenon DEF CountsIn

\* The nodes after m that are node i or below it.
NewIn(t, m, i) == {j \in 1..Len(t) : j > m /\ i \in AncestorsIn(t)[j]}
NewWonIn(t, m, i) == {j \in NewIn(t, m, i) : Complete(t[j].state)}

\* Propagating the results of the nodes after m counts every node.
LEMMA CountsSettled ==
  ASSUME NEW t, NEW u, IsTree(t), IsTree(u), Len(u) = Len(t),
         NEW m \in 1..Len(t), CountsIn(t, m),
         \A i \in 1..Len(t) :
           /\ t[i].parent = u[i].parent /\ t[i].state = u[i].state
           /\ u[i].visits = t[i].visits + Cardinality(NewIn(t, m, i))
           /\ u[i].wins = t[i].wins + Cardinality(NewWonIn(t, m, i))
  PROVE  CountsIn(u, Len(u))
  <1> DEFINE n == Len(t)
  <1>1. n \in Nat /\ m \in Nat /\ m <= n /\ 1 <= m
    BY DEF IsTree
  <1>2. \A i : BelowIn(t, n, i) = BelowIn(u, n, i) /\ WonIn(t, n, i) = WonIn(u, n, i)
    BY <1>1, SameBelow
  <1>3. ASSUME NEW i \in 1..n
        PROVE  /\ Cardinality(BelowIn(t, n, i)) = t[i].visits + Cardinality(NewIn(t, m, i))
               /\ Cardinality(WonIn(t, n, i)) = t[i].wins + Cardinality(NewWonIn(t, m, i))
    <2> DEFINE old == BelowIn(t, m, i)
               new == NewIn(t, m, i)
               oldWon == WonIn(t, m, i)
               newWon == NewWonIn(t, m, i)
    <2>1. BelowIn(t, n, i) = old \cup new /\ old \cap new = {}
      BY <1>1 DEF BelowIn, NewIn
    <2>2. WonIn(t, n, i) = oldWon \cup newWon /\ oldWon \cap newWon = {}
      BY <2>1 DEF WonIn, NewWonIn
    <2>3. /\ IsFiniteSet(BelowIn(t, n, i)) /\ IsFiniteSet(WonIn(t, n, i))
      BY <1>1, BelowIsFinite
    <2>4. t[i].visits = Cardinality(old) /\ t[i].wins = Cardinality(oldWon)
      BY DEF CountsIn
    <2> HIDE DEF old, new, oldWon, newWon
    <2>5. /\ IsFiniteSet(old) /\ IsFiniteSet(new)
          /\ IsFiniteSet(oldWon) /\ IsFiniteSet(newWon)
      BY <2>1, <2>2, <2>3, FS_Subset
    <2>6. /\ Cardinality(old \cup new) = Cardinality(old) + Cardinality(new) - Cardinality({})
          /\ Cardinality(oldWon \cup newWon)
               = Cardinality(oldWon) + Cardinality(newWon) - Cardinality({})
      BY <2>1, <2>2, <2>5, FS_Union
    <2>7. /\ Cardinality({}) = 0 /\ Cardinality(old) \in Nat /\ Cardinality(new) \in Nat
          /\ Cardinality(oldWon) \in Nat /\ Cardinality(newWon) \in Nat
      BY <2>5, FS_EmptySet, FS_CardinalityType
    <2> QED
      BY <2>1, <2>2, <2>4, <2>6, <2>7 DEF new, newWon
  <1>4. ASSUME NEW i \in 1..n
        PROVE  /\ u[i].visits = Cardinality(BelowIn(u, n, i))
               /\ u[i].wins = Cardinality(WonIn(u, n, i))
    <2>1. /\ u[i].visits = t[i].visits + Cardinality(NewIn(t, m, i))
          /\ u[i].wins = t[i].wins + Cardinality(NewWonIn(t, m, i))
      OBVIOUS
    <2>2. BelowIn(t, n, i) = BelowIn(u, n, i) /\ WonIn(t, n, i) = WonIn(u, n, i)
      BY <1>2
    <2> QED
      BY <1>3, <2>1, <2>2, Zenon
  <1> QED
    BY <1>4 DEF CountsIn

\* A new node is counted later.
LEMMA CountsAppended ==
  ASSUME NEW t, NEW u, IsTree(t), IsTree(u), Len(u) = Len(t) + 1,
         NEW m \in 1..Len(t), CountsIn(t, m),
         \A i \in 1..Len(t) : u[i] = t[i],
         u[Len(u)].visits = 0, u[Len(u)].wins = 0
  PROVE  CountsIn(u, m)
  <1> DEFINE n == Len(u)
  <1>1. n \in Nat /\ Len(t) \in Nat /\ m \in Nat /\ m <= Len(t) /\ m < n
    BY DEF IsTree
  <1>2. \A i : BelowIn(t, m, i) = BelowIn(u, m, i) /\ WonIn(t, m, i) = WonIn(u, m, i)
    <2>1. \A i \in 1..m : t[i].parent = u[i].parent /\ t[i].state = u[i].state
      BY <1>1
    <2> QED
      BY <1>1, <2>1, SameBelow
  <1>3. BelowIn(u, m, n) = {} /\ WonIn(u, m, n) = {}
    <2>1. \A j \in 2..m : j \in 1..n /\ n \notin 1..j
      BY <1>1
    <2>2. \A j \in 2..m : n \notin AncestorsIn(u)[j]
      BY <2>1, AncestorsBelow
    <2> QED
      BY <2>2 DEF BelowIn, WonIn
  <1>4. ASSUME NEW i \in 1..n
        PROVE  /\ u[i].visits = Cardinality(BelowIn(u, m, i))
               /\ u[i].wins = Cardinality(WonIn(u, m, i))
    <2>1. CASE i = n
      BY <1>3, <2>1, FS_EmptySet
    <2>2. CASE i # n
      <3>1. i \in 1..Len(t) /\ u[i] = t[i]
        BY <1>1, <2>2
      <3> QED
        BY <1>2, <3>1, Zenon DEF CountsIn
    <2> QED
      BY <2>1, <2>2
  <1> QED
    BY <1>4 DEF CountsIn

-----------------------------------------------------------------------------
(* The invariant of the tree's counts.                                      *)

\* The nodes that are counted: all between two expansions, those that the expansion
\* began with while it lasts.
CountedUpTo == IF phase \in {"select", "done"} THEN Len(nodes) ELSE before

CountInv ==
  /\ before \in Ids
  /\ CountsIn(nodes, CountedUpTo)

\* What TypeOK says and neither Types nor CountInv does.
RestTypes ==
  /\ policy \in Policies /\ found \in BOOLEAN /\ barren \in BOOLEAN
  /\ nodes[Root].parent = None /\ nodes[Root].tactic = None
  /\ \A i \in Ids : nodes[i].depth <= i - 1

LEMMA NodesAreTree == Types => IsTree(nodes)
  BY DEF Types, IsTree, Ids

\* What selection and propagation leave of each node.
LEMMA SelectedNodes ==
  ASSUME IInv, Select
  PROVE  /\ Len(nodes') = Len(nodes)
         /\ \A i \in Ids :
              /\ nodes'[i].parent = nodes[i].parent /\ nodes'[i].state = nodes[i].state
              /\ nodes'[i].tactic = nodes[i].tactic /\ nodes'[i].depth = nodes[i].depth
              /\ nodes'[i].visits = nodes[i].visits /\ nodes'[i].wins = nodes[i].wins
  <1>1. \A i \in Ids : nodes[i] \in Nodes
    BY NodeTypes DEF IInv
  <1>2. nodes' = [i \in Ids |-> nodes'[i]] /\ Len(nodes) \in Nat
    BY DEF Select, IInv, Types
  <1>3. \A i \in Ids : \/ nodes'[i] = nodes[i]
                       \/ nodes'[i] = [nodes[i] EXCEPT !.status = "pruned"]
    BY DEF Select
  <1>4. Len(nodes') = Len(nodes)
    BY <1>2 DEF Ids
  <1> QED
    BY <1>1, <1>3, <1>4 DEF Nodes

LEMMA SettledNodes ==
  ASSUME IInv, ExpansionEnds \/ ExpanderRaises
  PROVE  /\ Len(nodes') = Len(nodes)
         /\ \A i \in Ids :
              /\ nodes'[i].parent = nodes[i].parent /\ nodes'[i].state = nodes[i].state
              /\ nodes'[i].tactic = nodes[i].tactic /\ nodes'[i].depth = nodes[i].depth
              /\ nodes'[i].visits
                   = nodes[i].visits + Cardinality(NewIn(nodes, before, i))
              /\ nodes'[i].wins
                   = nodes[i].wins + Cardinality(NewWonIn(nodes, before, i))
  <1>1. nodes' = [i \in Ids |-> nodes'[i]] /\ Len(nodes) \in Nat
    BY DEF ExpansionEnds, ExpanderRaises, IInv, Types
  <1>2. Len(nodes') = Len(nodes)
    BY <1>1 DEF Ids
  <1>3. ASSUME NEW i \in Ids
        PROVE  /\ nodes'[i].parent = nodes[i].parent /\ nodes'[i].state = nodes[i].state
               /\ nodes'[i].tactic = nodes[i].tactic /\ nodes'[i].depth = nodes[i].depth
               /\ nodes'[i].visits
                    = nodes[i].visits + Cardinality(NewIn(nodes, before, i))
               /\ nodes'[i].wins
                    = nodes[i].wins + Cardinality(NewWonIn(nodes, before, i))
    <2> DEFINE settled == Settled(nodes[i], i)
               v == Cardinality(NewIn(nodes, before, i))
               w == Cardinality(NewWonIn(nodes, before, i))
    <2>1. nodes'[i] = settled \/ nodes'[i] = [settled EXCEPT !.status = "failed"]
      BY DEF ExpansionEnds, ExpanderRaises
    <2>2. settled \in Nodes
      BY SettledNode DEF IInv
    <2>3. settled = [nodes[i] EXCEPT !.visits = @ + v, !.wins = @ + w]
      BY DEF Settled, NewBelow, NewIn, NewWonIn, Ids, Ancestors, AncestorsIn
    <2>4. nodes[i] \in Nodes
      BY NodeTypes DEF IInv
    <2> HIDE DEF settled, v, w
    <2>5. /\ settled.parent = nodes[i].parent /\ settled.state = nodes[i].state
          /\ settled.tactic = nodes[i].tactic /\ settled.depth = nodes[i].depth
          /\ settled.visits = nodes[i].visits + v /\ settled.wins = nodes[i].wins + w
      BY <2>3, <2>4 DEF Nodes
    <2>6. /\ nodes'[i].parent = settled.parent /\ nodes'[i].state = settled.state
          /\ nodes'[i].tactic = settled.tactic /\ nodes'[i].depth = settled.depth
          /\ nodes'[i].visits = settled.visits /\ nodes'[i].wins = settled.wins
      BY <2>1, <2>2 DEF Nodes
    <2> QED
      BY <2>5, <2>6 DEF v, w
  <1> QED
    BY <1>2, <1>3

LEMMA AppliedNodes ==
  ASSUME IInv, NEW s \in Slots, Applied(s)
  PROVE  \E parent \in Ids :
           LET n == Len(nodes) + 1
           IN /\ Len(nodes') = n /\ \A i \in Ids : nodes'[i] = nodes[i]
              /\ nodes'[n].depth = nodes[parent].depth + 1
              /\ nodes'[n].visits = 0 /\ nodes'[n].wins = 0
  <1> DEFINE parent == ParentAt(calls[s].at)
             node == Node(parent, calls[s].tactic, After(calls[s].from, calls[s].tactic),
                          nodes[parent].depth + 1)
  <1>1. calls[s] \in Calls
    BY IdleCall DEF Applied, IInv, Types
  <1>2. calls[s].at \in Nat
    BY <1>1, CallParts, Zenon
  <1>3. parent \in Ids
    BY <1>2, ParentInTree DEF IInv
  <1>4. nodes' = Append(nodes, node) /\ nodes \in Seq(Nodes)
    BY DEF Applied, IInv, Types
  <1>5. node.depth = nodes[parent].depth + 1 /\ node.visits = 0 /\ node.wins = 0
    BY DEF Node
  <1> HIDE DEF node, parent
  <1>6. Len(nodes') = Len(nodes) + 1 /\ nodes'[Len(nodes) + 1] = node
        /\ \A i \in Ids : nodes'[i] = nodes[i]
    BY <1>4 DEF Ids
  <1> QED
    BY <1>3, <1>5, <1>6

LEMMA CountInit == Init => CountInv /\ RestTypes
  <1> SUFFICES ASSUME Init PROVE CountInv /\ RestTypes
    OBVIOUS
  <1>1. Types /\ IsTree(nodes)
    BY InitHolds, NodesAreTree DEF IInv
  <1>2. PICK s \in RootHolds :
          nodes = <<[Node(None, None, s, 0) EXCEPT !.status = "open"]>>
    BY DEF Init
  <1>3. /\ Len(nodes) = 1 /\ nodes[1].visits = 0 /\ nodes[1].wins = 0
        /\ nodes[1].parent = None /\ nodes[1].tactic = None /\ nodes[1].depth = 0
    BY <1>2 DEF Node
  <1>4. BelowIn(nodes, 1, 1) = {} /\ WonIn(nodes, 1, 1) = {}
    BY DEF BelowIn, WonIn
  <1>5. CountsIn(nodes, 1)
    BY <1>3, <1>4, FS_EmptySet DEF CountsIn
  <1>6. CountedUpTo = 1
    BY <1>3 DEF Init, CountedUpTo
  <1>7. policy \in Policies /\ found = FALSE /\ barren = FALSE /\ before = 1
    BY DEF Init
  <1>8. Ids = {1}
    BY <1>3 DEF Ids
  <1>9. RestTypes
    <2>1. \A i \in Ids : nodes[i].depth <= i - 1
      BY <1>3, <1>8
    <2>2. policy \in Policies /\ found \in BOOLEAN /\ barren \in BOOLEAN
      BY <1>7
    <2> QED
      BY <1>3, <2>1, <2>2 DEF RestTypes, Root
  <1> QED
    BY <1>5, <1>6, <1>7, <1>8, <1>9 DEF CountInv

LEMMA CountStep == IInv /\ CountInv /\ RestTypes /\ [Next]_vars => CountInv' /\ RestTypes'
  <1> SUFFICES ASSUME IInv, CountInv, RestTypes, [Next]_vars
               PROVE  CountInv' /\ RestTypes'
    OBVIOUS
  <1>t. /\ IsTree(nodes) /\ IsTree(nodes') /\ Len(nodes) \in Nat /\ Len(nodes) >= 1
        /\ Root \in Ids
    <2>1. Types /\ Types'
      BY StepHolds DEF IInv
    <2>2. IsTree(nodes)'
      BY <2>1, NodesAreTree DEF Types, IsTree, Ids
    <2> QED
      BY <2>1, <2>2, NodesAreTree DEF IsTree, Types, Ids, Root
  <1>1. CASE Select
    <2>1. /\ phase = "select" /\ before' = Len(nodes) /\ phase' = "turn"
          /\ UNCHANGED <<policy, found, barren>>
      BY <1>1 DEF Select
    <2>2. CountsIn(nodes, Len(nodes)) /\ Len(nodes) \in 1..Len(nodes)
      BY <1>t, <2>1 DEF CountInv, CountedUpTo
    <2>3. Len(nodes') = Len(nodes) /\ Ids' = Ids
      BY <1>1, SelectedNodes DEF Ids
    <2>4. \A i \in 1..Len(nodes) :
              /\ nodes[i].parent = nodes'[i].parent /\ nodes[i].state = nodes'[i].state
              /\ nodes[i].visits = nodes'[i].visits /\ nodes[i].wins = nodes'[i].wins
      BY <1>1, SelectedNodes DEF Ids
    <2>5. CountsIn(nodes', Len(nodes))
      BY <1>t, <2>2, <2>3, <2>4, CountsKept
    <2>6. CountInv'
      BY <1>t, <2>1, <2>3, <2>5 DEF CountInv, CountedUpTo, Ids
    <2>7. RestTypes'
      BY <1>1, <1>t, <2>1, <2>3, SelectedNodes DEF RestTypes
    <2> QED
      BY <2>6, <2>7
  <1>2. CASE ExpansionEnds \/ ExpanderRaises
    <2>1. /\ phase \in {"turn", "calls"} /\ before' = before /\ phase' = "select"
          /\ policy' = policy /\ found' \in BOOLEAN /\ barren' \in BOOLEAN
      BY <1>2 DEF ExpansionEnds, ExpanderRaises
    <2>2. CountsIn(nodes, before) /\ before \in 1..Len(nodes)
      BY <2>1 DEF CountInv, CountedUpTo, Ids
    <2>3. Len(nodes') = Len(nodes) /\ Ids' = Ids
      BY <1>2, SettledNodes DEF Ids
    <2>4. \A i \in 1..Len(nodes) :
            /\ nodes[i].parent = nodes'[i].parent /\ nodes[i].state = nodes'[i].state
            /\ nodes'[i].visits = nodes[i].visits + Cardinality(NewIn(nodes, before, i))
            /\ nodes'[i].wins = nodes[i].wins + Cardinality(NewWonIn(nodes, before, i))
      BY <1>2, SettledNodes DEF Ids
    <2>5. CountsIn(nodes', Len(nodes'))
      BY <1>t, <2>2, <2>3, <2>4, CountsSettled
    <2>6. CountInv'
      BY <2>1, <2>2, <2>3, <2>5 DEF CountInv, CountedUpTo, Ids
    <2>7. RestTypes'
      BY <1>2, <1>t, <2>1, <2>3, SettledNodes DEF RestTypes
    <2> QED
      BY <2>6, <2>7
  <1>3. ASSUME NEW s \in Slots, Applied(s) PROVE CountInv' /\ RestTypes'
    <2>1. /\ phase = "calls" /\ phase' = "calls" /\ UNCHANGED <<before, policy, barren>>
          /\ found' \in BOOLEAN
      BY <1>3 DEF Applied, RestTypes
    <2>2. CountsIn(nodes, before) /\ before \in 1..Len(nodes)
      BY <2>1 DEF CountInv, CountedUpTo, Ids
    <2> DEFINE n == Len(nodes) + 1
    <2>3. PICK parent \in Ids : /\ Len(nodes') = n /\ \A i \in Ids : nodes'[i] = nodes[i]
                                /\ nodes'[n].depth = nodes[parent].depth + 1
                                /\ nodes'[n].visits = 0 /\ nodes'[n].wins = 0
      BY <1>3, AppliedNodes, Zenon
    <2>4. CountsIn(nodes', before)
      BY <1>t, <2>2, <2>3, CountsAppended DEF Ids
    <2>5. CountInv'
      BY <1>t, <2>1, <2>2, <2>3, <2>4 DEF CountInv, CountedUpTo, Ids
    <2>6. /\ Ids' = Ids \cup {n} /\ n \notin Ids /\ n \in Nat
          /\ \A i \in Ids : i \in Nat /\ i <= n - 1
      BY <1>t, <2>3 DEF Ids
    <2>7. nodes'[n].depth <= n - 1
      <3>1. nodes[parent].depth <= parent - 1 /\ nodes[parent].depth \in Nat
        BY NodeTypes DEF RestTypes, IInv, Nodes
      <3> QED
        BY <2>3, <2>6, <3>1
    <2>8. RestTypes'
      BY <1>t, <2>1, <2>3, <2>6, <2>7 DEF RestTypes
    <2> QED
      BY <2>5, <2>8
  <1>4. ASSUME UNCHANGED <<nodes, before, policy, barren>>, found' \in BOOLEAN,
               phase' \in {"select", "done"} <=> phase \in {"select", "done"}
        PROVE  CountInv' /\ RestTypes'
    BY <1>4 DEF CountInv, RestTypes, CountedUpTo, Ids
  <1>5. CASE SearchReturns \/ Ask \/ NextTurn \/ UNCHANGED vars
    BY <1>4, <1>5 DEF SearchReturns, Ask, NextTurn, vars, RestTypes
  <1>6. ASSUME NEW s \in Slots, Rejected(s) PROVE CountInv' /\ RestTypes'
    BY <1>4, <1>6 DEF Rejected, RestTypes
  <1> QED
    BY <1>1, <1>2, <1>3, <1>5, <1>6 DEF Next, CallEnds

LEMMA CountHolds == Spec => [](CountInv /\ RestTypes)
  BY CountInit, CountStep, Inductive, PTL DEF Spec

-----------------------------------------------------------------------------
(* The invariant that is checked.                                           *)

LEMMA TypesHold == IInv /\ CountInv /\ RestTypes => TypeOK
  <1> SUFFICES ASSUME IInv, CountInv, RestTypes PROVE TypeOK
    OBVIOUS
  <1>1. /\ Len(nodes) \in Nat /\ \A i \in Ids : nodes[i] \in Nodes
        /\ before \in Ids
    <2>1. Types
      BY DEF IInv
    <2>2. Len(nodes) \in Nat
      BY <2>1 DEF Types
    <2>3. before \in Ids
      BY DEF CountInv
    <2> QED
      BY <2>1, <2>2, <2>3, NodeTypes
  <1>2. CountedUpTo \in 1..Len(nodes)
    BY <1>1 DEF CountedUpTo, Ids
  <1>3. ASSUME NEW i \in Ids
        PROVE  nodes[i].visits \in 0..Len(nodes) /\ nodes[i].wins \in 0..Len(nodes)
    <2> DEFINE m == CountedUpTo
               v == Cardinality(BelowIn(nodes, m, i))
               w == Cardinality(WonIn(nodes, m, i))
    <2>1. m \in Nat /\ m <= Len(nodes)
      BY <1>1, <1>2
    <2>2. nodes[i].visits = v /\ nodes[i].wins = w
      BY DEF CountInv, CountsIn, Ids
    <2> HIDE DEF m
    <2>3. v \in 0..m /\ w \in 0..m
      BY <2>1, BelowIsFinite
    <2> HIDE DEF v, w
    <2> QED
      BY <1>1, <2>1, <2>2, <2>3
  <1>4. ASSUME NEW i \in Ids
        PROVE  /\ nodes[i].parent \in IF i = Root THEN {None} ELSE 1..(i - 1)
               /\ nodes[i].tactic \in IF i = Root THEN {None} ELSE Tactics
               /\ nodes[i].state \in ProofStates
               /\ nodes[i].depth \in 0..(i - 1)
               /\ nodes[i].status \in {"open", "solved", "failed", "pruned"}
    <2>1. /\ nodes[i].state \in ProofStates /\ nodes[i].depth \in Nat
          /\ nodes[i].status \in {"open", "solved", "failed", "pruned"}
      BY <1>1 DEF Nodes
    <2>2. nodes[i].depth \in 0..(i - 1)
      BY <1>1, <2>1 DEF RestTypes, Ids
    <2> QED
      BY <2>1, <2>2 DEF IInv, Types, RestTypes
  <1>5. ASSUME NEW s \in Slots, calls[s] # Idle
        PROVE  /\ calls[s].at \in Nat /\ calls[s].tactic \in Tactics
               /\ calls[s].from \in ProofStates
    <2>1. calls[s] \in Calls
      BY <1>5, IdleCall DEF IInv, Types
    <2> QED
      BY <2>1, CallParts, Zenon
  <1>6. /\ policy \in Policies /\ solved \in Ids \cup {None} /\ current \in Ids
        /\ phase \in {"select", "turn", "calls", "done"} /\ turn \in 1..MaxTurns
        /\ found \in BOOLEAN /\ astray \in BOOLEAN /\ barren \in BOOLEAN
    BY DEF IInv, Types, RestTypes
  <1> QED
    BY <1>1, <1>3, <1>4, <1>5, <1>6 DEF TypeOK

\* The replay of a node's tactics from the root ends in the node's own proof state.
LEMMA ReplayIsState ==
  ASSUME IInv, ~astray
  PROVE  \A i \in Ids : Reached[i] = nodes[i].state
  <1> DEFINE Rec(f) == f = [i \in Ids |-> IF i = Root THEN nodes[Root].state
                                          ELSE After(f[nodes[i].parent], nodes[i].tactic)]
             states == [i \in Ids |-> nodes[i].state]
  <1>0. /\ \A i \in Ids \ {Root} : nodes[i].parent \in 1..(i - 1) /\ nodes[i].parent \in Ids
        /\ Len(nodes) \in Nat
    BY DEF IInv, Types, Ids
  <1>1. Rec(states)
    <2>1. \A i \in Ids : states[i] = IF i = Root THEN nodes[Root].state
                                     ELSE After(states[nodes[i].parent], nodes[i].tactic)
      BY <1>0 DEF IInv, EdgesSound
    <2> QED
      BY <2>1
  <1>2. Reached = CHOOSE f : Rec(f)
    BY DEF Reached
  <1> HIDE DEF states
  <1>3. Rec(Reached)
    <2> HIDE DEF Rec
    <2> QED
      BY <1>1, <1>2
  <1>4. \A i \in Ids : Reached[i] = IF i = Root THEN nodes[Root].state
                                    ELSE After(Reached[nodes[i].parent], nodes[i].tactic)
    <2> DEFINE R == Reached
    <2>1. R = [i \in Ids |-> IF i = Root THEN nodes[Root].state
                              ELSE After(R[nodes[i].parent], nodes[i].tactic)]
      BY <1>3
    <2> HIDE DEF R
    <2>2. \A i \in Ids : R[i] = IF i = Root THEN nodes[Root].state
                                ELSE After(R[nodes[i].parent], nodes[i].tactic)
      BY <2>1, Zenon
    <2> QED
      BY <2>2 DEF R
  <1> DEFINE Bad == {i \in Ids : Reached[i] # nodes[i].state}
  <1> SUFFICES ASSUME Bad # {} PROVE FALSE
    OBVIOUS
  <1>5. PICK m \in Bad : \A k \in Bad : m <= k
    <2>1. Bad \subseteq Nat
      BY <1>0 DEF Ids
    <2> HIDE DEF Bad
    <2> QED
      BY <2>1, LeastNumber
  <1>6. m \in Ids /\ Reached[m] # nodes[m].state
    OBVIOUS
  <1>7. m # Root
    BY <1>4, <1>6
  <1>8. nodes[m].parent \notin Bad /\ nodes[m].parent \in Ids
    BY <1>0, <1>5, <1>6, <1>7 DEF Ids
  <1>9. Reached[nodes[m].parent] = nodes[nodes[m].parent].state
    BY <1>8
  <1>10. nodes[m].state = After(nodes[nodes[m].parent].state, nodes[m].tactic)
    BY <1>6, <1>7 DEF IInv, EdgesSound
  <1> QED
    BY <1>4, <1>6, <1>7, <1>9, <1>10

LEMMA SolutionProves == IInv => SolvedPathProves
  <1> SUFFICES ASSUME IInv, ~astray, solved # None PROVE Complete(Reached[solved])
    BY DEF SolvedPathProves
  <1>1. solved \in Ids /\ Complete(nodes[solved].state)
    BY DEF IInv, SolvedIsFirst
  <1> QED
    BY <1>1, ReplayIsState

LEMMA CountsAreVisits == IInv /\ CountInv => VisitsCounted
  <1> SUFFICES ASSUME IInv, CountInv, phase \in {"select", "done"}, NEW i \in Ids
               PROVE  LET below == {j \in Ids \ {Root} : i \in Ancestors[j]}
                      IN /\ nodes[i].visits = Cardinality(below)
                         /\ nodes[i].wins = Cardinality({j \in below : Complete(nodes[j].state)})
    BY DEF VisitsCounted
  <1>1. Ids \ {Root} = 2..Len(nodes)
    BY DEF IInv, Types, Ids, Root
  <1>2. {j \in Ids \ {Root} : i \in Ancestors[j]} = BelowIn(nodes, Len(nodes), i)
    BY <1>1 DEF BelowIn, Ancestors, AncestorsIn, Ids
  <1>3. CountsIn(nodes, Len(nodes))
    BY DEF CountInv, CountedUpTo
  <1> QED
    BY <1>2, <1>3 DEF CountsIn, WonIn, Ids

\* What the search returns, the policies choose by and the runner reports is right in
\* every state, for any proof states, tactics, policies, bounds and parallel calls: the
\* tree's types and counts, the bound on its nodes, and the solution, which is the first
\* complete node and, unless a call went astray, whose tactics, replayed from the root,
\* prove the theorem (engine/search/core.py, expand and backprop_visit; unified/runner.py,
\* _run_with_search).
THEOREM SearchCorrect == Spec => []TreeInv
  <1>1. IInv /\ CountInv /\ RestTypes /\ NodesBounded => TreeInv
    BY TypesHold, SolutionProves, CountsAreVisits DEF IInv, TreeInv
  <1> QED
    BY <1>1, CountHolds, Inductive, BoundHolds, PTL
=============================================================================
