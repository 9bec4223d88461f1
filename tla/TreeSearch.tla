----------------------------- MODULE TreeSearch -----------------------------
(***************************************************************************)
(* The tree search for a proof: run_search and its selection policies      *)
(* (engine/search), driven by the runner (prover/unified/runner.py,        *)
(* _run_with_search), whose expander is one AgentLoop of a few turns.  In  *)
(* each turn the LLM may call tactic_apply several times; the calls run in *)
(* parallel and write the nodes they make into the shared tree.            *)
(*                                                                         *)
(* Node i of the code is node i + 1 here, so that the tree is a sequence.  *)
(* The LLM is unconstrained: any tactic at any node id, also one that no   *)
(* node has yet.  A call may fail for reasons of its own (a time limit, the *)
(* world model, a restarted REPL).                                         *)
(*                                                                         *)
(* What a node keeps of its proof state is a number in the REPL process    *)
(* that made it, and the pool sends the number to any session that is      *)
(* idle: in another process it names another proof state, or none.         *)
(***************************************************************************)
EXTENDS ProofSteps

CONSTANTS
  RootHolds,   \* the proof states the REPL may hold under base_env_id
  OneProcess,  \* the pool has one session, whose process is not restarted
  Policies,    \* the selection policies: "best_first", "ucb", "beam"
  MaxNodes,    \* max_nodes
  MaxDepth,    \* max_depth
  BeamWidth,   \* beam_width
  MaxTurns,    \* expansion_max_turns
  Slots        \* bound of the model: tactic_apply calls of one LLM message

ASSUME SearchAssumption ==
  /\ RootHolds \subseteq ProofStates /\ OneProcess \in BOOLEAN
  /\ Policies \subseteq {"best_first", "ucb", "beam"}
  /\ MaxNodes \in Nat \ {0} /\ MaxDepth \in Nat /\ BeamWidth \in Nat \ {0}
  /\ MaxTurns \in Nat \ {0} /\ IsFiniteSet(Slots) /\ Slots # {}

None == 0
Root == 1
Idle == [at |-> None, tactic |-> None, from |-> None]

VARIABLES
  policy,   \* the selection policy of this search
  nodes,    \* tree.nodes
  solved,   \* tree.solved_node_id
  current,  \* tree.current_node_id
  before,   \* children_before: the number of nodes when the expansion began
  phase,    \* "select", "turn" (the LLM is asked), "calls", "done"
  turn,     \* of the expansion's AgentLoop
  calls,    \* the tactic_apply call under way in each slot, or Idle
  found,    \* a call of this turn reported a complete proof
  (* history *)
  astray,   \* a call named a node that did not exist when the call began, or was
            \* applied where the node's number names another proof state
  barren    \* the last expansion added no node and raised nothing

vars == <<policy, nodes, solved, current, before, phase, turn, calls, found,
          astray, barren>>

\* SearchNode.  Its children are the nodes that name it as parent.
Node(parent, tactic, state, depth) ==
  [parent |-> parent, tactic |-> tactic, state |-> state, depth |-> depth,
   status |-> IF Complete(state) THEN "solved" ELSE "open",
   visits |-> 0, wins |-> 0]

Ids == 1..Len(nodes)
Children(i) == {j \in Ids : nodes[j].parent = i}

\* ancestors(i), i included.
Ancestors ==
  LET up[i \in Ids] == IF i = Root THEN {Root} ELSE {i} \cup up[nodes[i].parent]
  IN up

\* Types.
TypeOK ==
  /\ policy \in Policies
  /\ \A i \in Ids :
       /\ nodes[i].parent \in IF i = Root THEN {None} ELSE 1..(i - 1)
       /\ nodes[i].tactic \in IF i = Root THEN {None} ELSE Tactics
       /\ nodes[i].state \in ProofStates
       /\ nodes[i].depth \in 0..(i - 1)
       /\ nodes[i].status \in {"open", "solved", "failed", "pruned"}
       /\ nodes[i].visits \in 0..Len(nodes) /\ nodes[i].wins \in 0..Len(nodes)
  /\ solved \in Ids \cup {None} /\ current \in Ids /\ before \in Ids
  /\ phase \in {"select", "turn", "calls", "done"}
  /\ turn \in 1..MaxTurns
  /\ \A s \in Slots :
       calls[s] # Idle => /\ calls[s].at \in Nat
                          /\ calls[s].tactic \in Tactics
                          /\ calls[s].from \in ProofStates
  /\ found \in BOOLEAN /\ astray \in BOOLEAN /\ barren \in BOOLEAN

Init ==
  /\ policy \in Policies
  /\ \E s \in RootHolds : nodes = <<[Node(None, None, s, 0) EXCEPT !.status = "open"]>>
  /\ solved = None /\ current = Root /\ before = 1
  /\ phase = "select" /\ turn = 1
  /\ calls = [s \in Slots |-> Idle]
  /\ found = FALSE /\ astray = FALSE /\ barren = FALSE

-----------------------------------------------------------------------------
(* Selection.                                                               *)

\* The open leaves that may be expanded.
Frontier == {i \in Ids : /\ nodes[i].status = "open"
                         /\ Children(i) = {}
                         /\ nodes[i].depth < MaxDepth}

\* score_new_node, in twentieths (exact when the parent's goals divide 40).  The root
\* has one goal in the tree, the theorem, whatever the REPL holds.
Score(i) ==
  IF i = Root THEN 0
  ELSE LET goals == Goals[nodes[i].state]
           parent == nodes[i].parent
           above == IF parent = Root THEN 1 ELSE Goals[nodes[parent].state]
           base == IF above = 0 THEN 1 ELSE above
       IN (40 * (base - goals)) \div base
          + (IF goals = 0 THEN 200 ELSE 0) - nodes[i].depth

\* i comes before j in the order by score, which keeps the order of ids.
Ahead(i, j) == Score(i) > Score(j) \/ (Score(i) = Score(j) /\ i < j)

Best == {i \in Frontier : \A j \in Frontier \ {i} : Ahead(i, j)}

\* BeamPolicy: leaves behind BeamWidth others are pruned, of whatever depth.
Pruned == {i \in Frontier : Cardinality({j \in Frontier : Ahead(j, i)}) >= BeamWidth}

\* UCBPolicy weighs visits, wins and score with logarithms and square roots: it may
\* choose any leaf.
Choices == IF policy = "ucb" THEN Frontier ELSE Best

SearchOver == solved # None \/ Len(nodes) >= MaxNodes

Select ==
  /\ phase = "select" /\ ~SearchOver
  /\ current' \in Choices
  /\ nodes' = [i \in Ids |-> IF policy = "beam" /\ i \in Pruned
                               THEN [nodes[i] EXCEPT !.status = "pruned"]
                               ELSE nodes[i]]
  /\ before' = Len(nodes)
  /\ phase' = "turn" /\ turn' = 1
  /\ UNCHANGED <<policy, solved, calls, found, astray, barren>>

SearchReturns ==
  /\ phase = "select"
  /\ SearchOver \/ Frontier = {}
  /\ phase' = "done"
  /\ UNCHANGED <<policy, nodes, solved, current, before, turn, calls, found,
                 astray, barren>>

-----------------------------------------------------------------------------
(* The expansion: the AgentLoop and its tool calls.                         *)

\* Mutant: the current node's proof state, whichever node is named.
StateHere(at) == nodes[current].state

\* env_id_for: the proof state of the named node, or the root's.
StateAt(at) ==
  IF at = None THEN nodes[current].state
  ELSE IF at \in Ids THEN nodes[at].state ELSE nodes[Root].state

\* try_tactic on an unbound number: the proof states it may be applied to.
AppliedTo(at) == IF OneProcess THEN {StateAt(at)} ELSE ProofStates

\* tactic_apply looks the number up before it awaits a session.
Request(at) == [at : {at}, tactic : Tactics, from : AppliedTo(at)]

Requests == UNION {Request(at) : at \in 0..(Len(nodes) + 1)}

GoesAstray(call) == call.at > Len(nodes) \/ call.from # StateAt(call.at)

\* The LLM's message holds some calls of tactic_apply (or of other tools only).
Ask ==
  /\ phase = "turn"
  /\ calls' \in [Slots -> {Idle} \cup Requests]
  /\ astray' = (astray \/ \E s \in Slots : calls'[s] # Idle /\ GoesAstray(calls'[s]))
  /\ phase' = "calls"
  /\ UNCHANGED <<policy, nodes, solved, current, before, turn, found, barren>>

\* tree.expand looks the parent up when the tactic has been applied.
ParentAt(at) ==
  IF at = None THEN current ELSE IF at \in Ids THEN at ELSE Root

\* Mutant: the last complete node replaces the first.
LastSolved(i, state) == IF Complete(state) THEN i ELSE solved

FirstSolved(i, state) == IF Complete(state) /\ solved = None THEN i ELSE solved

\* The tactic succeeds and makes a node.  A complete proof is reported to the loop
\* unless the tool's time limit ends it while the step is stored.
Applied(s) ==
  /\ phase = "calls" /\ calls[s] # Idle
  /\ LET call == calls[s]
         state == After(call.from, call.tactic)
         parent == ParentAt(call.at)
     IN /\ state # Fails
        /\ nodes' = Append(nodes, Node(parent, call.tactic, state,
                                       nodes[parent].depth + 1))
        /\ solved' = FirstSolved(Len(nodes) + 1, state)
        /\ found' \in {found, found \/ Complete(state)}
  /\ calls' = [calls EXCEPT ![s] = Idle]
  /\ UNCHANGED <<policy, current, before, phase, turn, astray, barren>>

\* Lean, the REPL, the world model or the tool's time limit rejects the tactic.
Rejected(s) ==
  /\ phase = "calls" /\ calls[s] # Idle
  /\ calls' = [calls EXCEPT ![s] = Idle]
  /\ UNCHANGED <<policy, nodes, solved, current, before, phase, turn, found,
                 astray, barren>>

NextTurn ==
  /\ phase = "calls" /\ \A s \in Slots : calls[s] = Idle
  /\ ~found /\ turn < MaxTurns
  /\ turn' = turn + 1 /\ phase' = "turn"
  /\ UNCHANGED <<policy, nodes, solved, current, before, calls, found, astray,
                 barren>>

\* Mutant: only the children of the expanded node are counted.
ChildrenOnly(i) ==
  {j \in Children(current) : j > before /\ i \in Ancestors[j]}

\* The new nodes whose results are propagated to node i.
NewBelow(i) == {j \in Ids : j > before /\ i \in Ancestors[j]}

\* Scores follow from the tree (Score); visits and successes are added from each
\* new node up to the root.
Settled(node, i) ==
  [node EXCEPT !.visits = @ + Cardinality(NewBelow(i)),
               !.wins = @ + Cardinality({j \in NewBelow(i) : Complete(nodes[j].state)})]

\* The loop returns: a text without tool calls, an LLM error, a time or token limit,
\* a proof found (by tactic_apply or by lean_verify), or no turn left.
ExpansionEnds ==
  /\ \/ phase = "turn"
     \/ phase = "calls" /\ \A s \in Slots : calls[s] = Idle
  /\ nodes' = [i \in Ids |-> Settled(nodes[i], i)]
  /\ phase' = "select" /\ found' = FALSE
  /\ barren' = (Len(nodes) = before)
  /\ UNCHANGED <<policy, solved, current, before, turn, calls, astray>>

\* Mutant: the failure is only logged.
RaisedUnmarked ==
  /\ phase = "turn"
  /\ nodes' = [i \in Ids |-> Settled(nodes[i], i)]
  /\ phase' = "select" /\ found' = FALSE /\ barren' = FALSE
  /\ UNCHANGED <<policy, solved, current, before, turn, calls, astray>>

ExpanderRaises ==
  /\ phase = "turn"
  /\ nodes' = [i \in Ids |-> IF i = current
                 THEN [Settled(nodes[i], i) EXCEPT !.status = "failed"]
                 ELSE Settled(nodes[i], i)]
  /\ phase' = "select" /\ found' = FALSE /\ barren' = FALSE
  /\ UNCHANGED <<policy, solved, current, before, turn, calls, astray>>

CallEnds == \E s \in Slots : Applied(s) \/ Rejected(s)

Next == Select \/ SearchReturns \/ Ask \/ CallEnds \/ NextTurn \/ ExpansionEnds
        \/ ExpanderRaises

Spec == Init /\ [][Next]_vars

\* The search loop runs on, the LLM answers or fails (its client has a time limit),
\* every call ends (tools have a time limit).
FairSpec == /\ Spec
            /\ WF_vars(Select) /\ WF_vars(SearchReturns)
            /\ WF_vars(Ask \/ ExpansionEnds \/ ExpanderRaises)
            /\ WF_vars(NextTurn \/ ExpansionEnds)
            /\ WF_vars(CallEnds)

-----------------------------------------------------------------------------
(* Properties.                                                              *)

\* The tree records what Lean did: the proof state of every node is the one its tactic
\* leads to from its parent's, whatever parallel calls were under way, unless a call
\* named a node that did not exist yet or was sent to another process than the one that
\* made the number (engine/search/core.py, expand).
EdgesSound ==
  ~astray => \A i \in Ids \ {Root} :
                nodes[i].state = After(nodes[nodes[i].parent].state, nodes[i].tactic)

\* The proof state the tactics from the root to node i lead to when they are run in
\* order: the proof the runner puts together for node i.
Reached ==
  LET to[i \in Ids] == IF i = Root THEN nodes[Root].state
                       ELSE After(to[nodes[i].parent], nodes[i].tactic)
  IN to

\* With the same exceptions, the tactics of the solved path prove the theorem, which the
\* runner reports without another look (unified/runner.py, _run_with_search).
SolvedPathProves == ~astray /\ solved # None => Complete(Reached[solved])

\* solved_node_id is the first complete node, also when parallel calls or a later
\* turn complete the proof again (engine/search/core.py, expand).
SolvedIsFirst ==
  LET complete == {i \in Ids \ {Root} : Complete(nodes[i].state)}
  IN IF complete = {} THEN solved = None
     ELSE solved \in complete /\ \A i \in complete : solved <= i

\* Between two expansions the visits of a node count the nodes below it and itself
\* (the root is never new) and its successes the complete ones among them, wherever
\* the calls put the new nodes (engine/search/core.py, backprop_visit).
VisitsCounted ==
  phase \in {"select", "done"} =>
    \A i \in Ids :
      LET below == {j \in Ids \ {Root} : i \in Ancestors[j]}
      IN /\ nodes[i].visits = Cardinality(below)
         /\ nodes[i].wins = Cardinality({j \in below : Complete(nodes[j].state)})

\* max_nodes is overshot by the calls of one expansion at most
\* (engine/search/runner.py, the check before select).
NodesBounded == Len(nodes) < MaxNodes + MaxTurns * Cardinality(Slots)

\* What every state of the search satisfies: the types, the bound on the nodes, the
\* solution that is the first one found and, unless a call went astray, a proof, and
\* between two expansions the counts that the policies choose by.
TreeInv == TypeOK /\ NodesBounded /\ SolvedIsFirst /\ SolvedPathProves /\ VisitsCounted

\* The search returns, or it keeps making expansions that add no node and raise
\* nothing (engine/search/runner.py, run_search).
ReturnsOrBarren == (<>(phase = "done")) \/ []<>barren
=============================================================================
