----------------------------- MODULE MctsSearch -----------------------------
(***************************************************************************)
(* The evaluation by tree search of run_mcts_eval.py with one worker: the  *)
(* problems are searched one after the other through one LeanREPL.  (With  *)
(* more workers every problem has a LeanREPL to itself.)                   *)
(*                                                                         *)
(* An iteration of LeanMCTSSearcher.run descends from the root, lets the   *)
(* suggester propose tactics for a node it reaches for the first time,     *)
(* checks the next tactic of the node and counts a visit of every node of  *)
(* the path.  The values of the nodes, which say only which live child the *)
(* descent prefers, are left out: it may prefer any.                       *)
(***************************************************************************)
EXTENDS LeanRepl, SequencesExt

CONSTANTS
  Dataset,    \* the problems in the order of the dataset
  MaxDepth,   \* max_depth
  MaxCandidates,  \* max_candidates
  MaxNodes,   \* max_nodes
  MaxVisits,  \* bound of the model: iterations of a search
  MaxRuns     \* bound of the model: runs of the program

ASSUME MctsAssumption ==
  /\ Dataset \in Seq(Problems) /\ ToSet(Dataset) = Problems
  /\ {MaxDepth, MaxCandidates, MaxNodes} \subseteq Nat \ {0}
  /\ {MaxVisits, MaxRuns} \subseteq Nat

VARIABLES
  todo,     \* problems not searched yet, in order
  problem,  \* the problem being searched
  nodes,    \* the tree, in the order its nodes were made
  leaf,     \* the node whose next tactic is being checked, 0 for none
  stop,     \* stop_reason; "saved" between two problems
  traces,   \* the files: traces[p] says whether problem p is solved, and how
  runs

searchVars == <<todo, problem, nodes, leaf, stop, traces, runs>>
mctsVars == <<replVars, searchVars>>

NoProblem == "no problem"

\* _existing_solved: no file, half a file or the trace of a search that failed.
Unsolved == [solved |-> FALSE]

MctsInit ==
  /\ ReplInit
  /\ todo = Dataset /\ problem = NoProblem
  /\ nodes = <<>> /\ leaf = 0 /\ stop = "saved"
  /\ traces = [p \in Problems |-> Unsolved] /\ runs = 1

-----------------------------------------------------------------------------
(* The tree.                                                                *)

\* _goal_signature: that of the goals; an answer without goals has one of its own.
Signature(response) == IF response.what = "open" THEN response.state ELSE Fails

\* A node for what LeanREPL replied to a path.
Node(path, response, terminal) ==
  [path |-> path,
   signature |-> Signature(response),
   response |-> response.what, terminal |-> terminal,
   expanded |-> FALSE, batch |-> {}, pending |-> <<>>, visits |-> 0]

Depth(i) == Len(nodes[i].path)
Solved(i) == nodes[i].response = "complete"
Dead(i) == nodes[i].response = "failure" \/ nodes[i].terminal # ""
Children(i) == {j \in DOMAIN nodes : nodes[j].path # <<>> /\ Front(nodes[j].path) = nodes[i].path}
LiveChildren(i) == {j \in Children(i) : ~Dead(j)}

\* The nodes on the path to i, which is one of them.
PathTo(i) == {j \in DOMAIN nodes : IsPrefix(nodes[j].path, nodes[i].path)}

\* _should_expand_node: a new node, one without children or one visited often enough
\* for the children it has.
ShouldExpand(i) ==
  LET n == nodes[i]
      children == Cardinality(Children(i))
  IN \/ ~n.expanded
     \/ /\ n.pending # <<>>
        /\ children = 0 \/ n.visits >= 2 * children

\* The descent ends here.
Ends(i) == Solved(i) \/ Dead(i) \/ Depth(i) >= MaxDepth \/ ShouldExpand(i) \/ LiveChildren(i) = {}

\* _select_path: the descent from the root ends at node i.
Selected(i) ==
  /\ Ends(i)
  /\ \A j \in PathTo(i) \ {i} : ~Ends(j)
  /\ \A j \in PathTo(i) \ {1} : ~Dead(j)

\* _backpropagate.
Visited(tree, path) ==
  [j \in DOMAIN tree |-> [tree[j] EXCEPT !.visits = IF j \in path THEN @ + 1 ELSE @]]

-----------------------------------------------------------------------------
Searching == stop = "" /\ leaf = 0 /\ ask = Quiet /\ nodes # <<>>

\* run_problem: the next problem begins with the check of its theorem alone.
StartProblem ==
  /\ stop = "saved" /\ todo # <<>>
  /\ todo' = Tail(todo) /\ problem' = Head(todo)
  /\ nodes' = <<>> /\ leaf' = 0 /\ stop' = ""
  /\ Check(Head(todo), <<>>)
  /\ reply' = Quiet
  /\ UNCHANGED <<processVars, cached, faults, beats, traces, runs>>

RootChecked ==
  /\ nodes = <<>> /\ reply # Quiet
  /\ IF reply.what = "failure"
     THEN stop' = "root_error" /\ UNCHANGED nodes
     ELSE nodes' = <<Node(<<>>, reply, "")>> /\ UNCHANGED stop
  /\ reply' = Quiet
  /\ UNCHANGED <<processVars, cached, ask, faults, beats, todo, problem, leaf, traces, runs>>

\* The loop ends at max_nodes, or at any time when the time is over.
StopSearch ==
  /\ Searching
  /\ stop' \in {"timeout"} \cup (IF Len(nodes) > MaxNodes THEN {"max_nodes"} ELSE {})
  /\ UNCHANGED <<replVars, todo, problem, nodes, leaf, traces, runs>>

\* Mutant: a node without live children is given up with tactics pending.
Childless(i) == LiveChildren(i) = {} /\ Children(i) # {}

\* No tactic is left and no child is live.
Barren(i) == nodes[i].pending = <<>> /\ LiveChildren(i) = {}

\* A node of the greatest depth, or one that is barren, is not descended to again.
GiveUp(i) ==
  LET reason == IF nodes[i].terminal # "" THEN nodes[i].terminal
                ELSE IF Depth(i) >= MaxDepth THEN "max_depth" ELSE "all_children_dead"
  IN /\ Depth(i) >= MaxDepth \/ (nodes[i].expanded /\ Barren(i))
     /\ nodes' = Visited([nodes EXCEPT ![i] = [@ EXCEPT !.terminal = reason]], PathTo(i))
     /\ UNCHANGED <<ask, leaf>>

\* suggest: max_candidates tactics or fewer, none twice.
Suggested ==
  UNION {{batch \in [1..n -> Tactics] : IsInjective(batch)} : n \in 1..MaxCandidates}

\* The first tactic pending is checked, after suggest() was asked for tactics if need be.
\* (It leaves the pending ones when the answer comes.)
Expand(i) ==
  /\ Depth(i) < MaxDepth
  /\ ~(nodes[i].expanded /\ Barren(i))
  /\ \E batch \in IF nodes[i].expanded THEN {nodes[i].pending} ELSE Suggested :
       /\ nodes' = [nodes EXCEPT ![i] = [@ EXCEPT !.expanded = TRUE, !.pending = batch,
                                                  !.batch = nodes[i].batch \cup ToSet(batch)]]
       /\ Check(problem, Append(nodes[i].path, Head(batch)))
  /\ leaf' = i

Iterate ==
  /\ Searching /\ Len(nodes) <= MaxNodes
  /\ nodes[1].visits < MaxVisits
  /\ \E i \in DOMAIN nodes : Selected(i) /\ (GiveUp(i) \/ Expand(i))
  /\ UNCHANGED <<processVars, cached, reply, faults, beats, todo, problem, stop, traces, runs>>

\* Mutant: only the parent is looked at.
CycleWithParent(i, response) ==
  response.what = "open" /\ nodes[i].signature = Signature(response)

\* A child whose goals are those of a node above it is not searched.
Cycle(i, response) ==
  response.what = "open" /\ \E j \in PathTo(i) : nodes[j].signature = Signature(response)

\* _expand_one_child gets its answer; a child that completes the proof ends the search.
ChildChecked ==
  /\ leaf # 0 /\ reply # Quiet
  /\ LET path == Append(nodes[leaf].path, Head(nodes[leaf].pending))
         terminal == CASE Cycle(leaf, reply)     -> "cycle"
                       [] reply.what = "failure" -> "lean_error"
                       [] OTHER                  -> ""
         parent == [nodes EXCEPT ![leaf] = [@ EXCEPT !.pending = Tail(nodes[leaf].pending)]]
     IN nodes' = Visited(Append(parent, Node(path, reply, terminal)),
                         PathTo(leaf) \cup {Len(nodes) + 1})
  /\ stop' = IF reply.what = "complete" THEN "solved" ELSE ""
  /\ leaf' = 0 /\ reply' = Quiet
  /\ UNCHANGED <<processVars, cached, ask, faults, beats, todo, problem, traces, runs>>

Solution == Last(nodes).path

\* No request was given up on the process, it is the first one, and the theorems were
\* sent with the environment of their preamble.
CleanRun == ~shifted /\ ~replaced /\ cached[PreambleOf[problem]] # NoEnv

\* The trace of the search is written over the one there was.
SaveTrace ==
  /\ stop \notin {"", "saved"}
  /\ traces' = [traces EXCEPT ![problem] =
       IF stop = "solved"
       THEN [solved |-> TRUE, path |-> Solution, clean |-> CleanRun]
       ELSE Unsolved]
  /\ stop' = "saved" /\ nodes' = <<>> /\ problem' = NoProblem
  /\ UNCHANGED <<replVars, todo, leaf, runs>>

\* --resume: the problems whose traces do not say solved.
ToSearch(files) ==
  LET kept[n \in 0..Len(Dataset)] ==
        IF n = 0 THEN <<>>
        ELSE IF files[Dataset[n]].solved THEN kept[n - 1] ELSE Append(kept[n - 1], Dataset[n])
  IN kept[Len(Dataset)]

\* The program ends, perhaps while it writes a trace, and is started again, with or
\* without --resume.
RunAgain ==
  /\ runs < MaxRuns /\ runs' = runs + 1
  /\ \/ UNCHANGED traces
     \/ stop \notin {"", "saved"} /\ traces' = [traces EXCEPT ![problem] = Unsolved]
  /\ todo' = Dataset \/ todo' = ToSearch(traces')
  /\ Created
  /\ problem' = NoProblem /\ nodes' = <<>> /\ leaf' = 0 /\ stop' = "saved"
  /\ UNCHANGED <<faults, beats>>

ReplStep ==
  /\ PreambleLoaded \/ WholeChecked \/ PrefixChecked \/ FoundDead \/ Beat
  /\ UNCHANGED searchVars

MctsNext ==
  StartProblem \/ RootChecked \/ StopSearch \/ Iterate \/ ChildChecked
  \/ SaveTrace \/ RunAgain \/ ReplStep

MctsSpec == MctsInit /\ [][MctsNext]_mctsVars

-----------------------------------------------------------------------------
TheoremState == RootIn[problem, PreambleOf[problem]]

\* The path of tactics in the trace of a solved problem proves its theorem behind its own
\* preamble, unless a request had been given up on the process (its late answer is taken
\* for another), the process had been replaced (the environment numbers that are kept
\* are those of the old one), or the preamble could not be loaded (the theorem is sent
\* without it).
TracesReplay ==
  \A p \in Problems :
    traces[p].solved /\ traces[p].clean => Complete(Reaches(RootIn[p, PreambleOf[p]], traces[p].path))

\* A search that gave up its root had no proof to find: when the suggester named every
\* tactic for every node it reached and no exchange with Lean failed, no path of
\* max_depth tactics or fewer proves the theorem.
GivenUpUnprovable ==
  /\ nodes # <<>> /\ Dead(1)
  /\ \A i \in DOMAIN nodes : nodes[i].expanded => nodes[i].batch = Tactics
  /\ faults = 0 /\ life = "up"
  => \A d \in 1..MaxDepth : \A path \in [1..d -> Tactics] : ~Complete(Reaches(TheoremState, path))

\* The search makes progress along every path it may descend: no live node has the goals
\* of a node above it.
LivePathsProgress ==
  \A i \in DOMAIN nodes : \A j \in PathTo(i) \ {i} :
    ~Dead(i) /\ nodes[i].response = "open" => nodes[j].signature # nodes[i].signature
=============================================================================
