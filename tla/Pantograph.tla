----------------------------- MODULE Pantograph -----------------------------
(***************************************************************************)
(* PantographBackend (engine/backends/pantograph.py) with the Python       *)
(* binding: proof states are numbered by the backend, each with the goals  *)
(* it shows and, when the engine made it, the engine's goal state.  Calls  *)
(* run in threads; a new number is taken after the engine has answered,    *)
(* and two threads may take the same one.  A focus or a draft may name a   *)
(* number that was never given.                                            *)
(*                                                                         *)
(* Versions of the binding lack methods, and calls of a method may raise:  *)
(* then goals are moved or added without the engine.                       *)
(***************************************************************************)
EXTENDS ProofSteps

CONSTANTS
  Users,     \* tool calls and sessions
  Theorems,  \* proof states of theorems with a sorry
  Methods,   \* the methods a version of the binding may have
  Local,     \* no goal state of the engine
  MaxStates  \* bound of the model: proof states made

ASSUME PantographAssumption ==
  /\ Theorems \subseteq ProofStates /\ MaxStates \in Nat
  /\ Local \notin ProofStates
  /\ Methods = {"goal_tactic", "goal_focus", "goal_have"}

VARIABLES
  methods, \* those of the installed version
  states,  \* the proof states by number: the engine's, the count of goals shown,
           \* and the number of the proof state each was made from, or 0
  asked,   \* the call each user waits for
  unsure   \* numbers whose goals were not all read, or that two threads took
           \* (the program does not know)

pantographVars == <<methods, states, asked, unsure>>

NoCommand == [do |-> "none"]

\* What is known of a number; of one that was never given, 0 in the model, nothing.
Live(n) == IF n = 0 THEN Local ELSE states[n].live
Shown(n) == IF n = 0 THEN 0 ELSE states[n].goals

PantographTypeOK ==
  /\ methods \subseteq Methods
  /\ Len(states) <= MaxStates
  /\ \A n \in 1..Len(states) : /\ states[n].live \in ProofStates \cup {Local}
                               /\ states[n].goals \in Nat /\ states[n].from \in 0..n - 1
  /\ \A u \in Users : asked[u].do \in {"none"} \cup Methods
  /\ unsure \subseteq 1..Len(states)

PantographInit ==
  /\ methods \in SUBSET Methods
  /\ states = <<>>
  /\ asked = [u \in Users |-> NoCommand]
  /\ unsure = {}

Add(live, goals, from) ==
  /\ Len(states) < MaxStates
  /\ states' = Append(states, [live |-> live, goals |-> goals, from |-> from])

\* A proof state the engine answers with gets a number.  Its goals are read as far as
\* none of them raises; from a state without .goals none is.
Keep(s, from, least) ==
  \/ Add(s, Goals[s], from) /\ UNCHANGED unsure
  \/ /\ \E read \in least..Goals[s] - 1 : Add(s, read, from)
     /\ unsure' = unsure \cup {Len(states) + 1}

\* Its thread takes the number that another took last, before either has counted on:
\* each writes the goals and the goal state, in any order.
Overwrite(s) ==
  LET last == Len(states) IN
  /\ last # 0
  /\ \E live \in {Live(last), s} \ {Local}, goals \in {Shown(last)} \cup 0..Goals[s] :
       states' = [states EXCEPT ![last] = [@ EXCEPT !.live = live, !.goals = goals]]
  /\ unsure' = unsure \cup {last}

\* load_sorry, in a thread: the proof state of a theorem.
LoadSorry(s) ==
  /\ Keep(s, 0, 0) \/ Overwrite(s)
  /\ UNCHANGED <<methods, asked>>

\* The engine is asked, in a thread, if it made the proof state and has the method.
Ask(u, do, n, t) ==
  /\ asked[u] = NoCommand
  /\ do \in methods /\ Live(n) # Local
  /\ asked' = [asked EXCEPT ![u] = [do |-> do, from |-> n, tactic |-> t,
                                     at |-> Len(states)]]
  /\ UNCHANGED <<methods, states, unsure>>

\* The proof states the engine may answer with: a focus keeps the goals, a draft adds
\* one, a tactic does what Lean does.
Answers(call) ==
  LET s == Live(call.from) IN
  CASE call.do = "goal_tactic" -> {After(s, call.tactic)} \ {Fails}
    [] call.do = "goal_focus"  -> {r \in ProofStates : Goals[r] = Goals[s]}
    [] call.do = "goal_have"   -> {r \in ProofStates : Goals[r] = Goals[s] + 1}

\* A draft shows its hole when no goal can be read.  A tactic's number is taken in its
\* thread, and may be one taken since it was asked.
Answered(u) ==
  /\ asked[u] # NoCommand
  /\ \E s \in Answers(asked[u]) :
       \/ Keep(s, asked[u].from, IF asked[u].do = "goal_have" THEN 1 ELSE 0)
       \/ asked[u].do = "goal_tactic" /\ asked[u].at < Len(states) /\ Overwrite(s)
  /\ asked' = [asked EXCEPT ![u] = NoCommand]
  /\ UNCHANGED methods

\* What is made without the engine: a tactic leaves no goals, a focus moves them, a
\* draft adds a hole.
GoalsWithout(do, n) ==
  CASE do = "goal_tactic" -> 0
    [] do = "goal_focus"  -> Shown(n)
    [] do = "goal_have"   -> Shown(n) + 1

\* A tactic on a number that was never given is refused; a focus or a draft is not.
WithoutEngine(do, n) ==
  /\ do \notin methods \/ Live(n) = Local
  /\ do = "goal_tactic" => n # 0
  /\ Add(Local, GoalsWithout(do, n), n)
  /\ UNCHANGED <<methods, asked, unsure>>

\* Mutant: every method falls back to its local form.
FallsBack(u) ==
  /\ asked[u] # NoCommand
  /\ Add(Local, GoalsWithout(asked[u].do, asked[u].from), asked[u].from)
  /\ asked' = [asked EXCEPT ![u] = NoCommand]
  /\ UNCHANGED <<methods, unsure>>

\* The engine raises: a tactic is refused; a focus or a draft is made without it.
Raises(u) ==
  /\ asked[u] # NoCommand
  /\ IF asked[u].do = "goal_tactic" THEN UNCHANGED states
     ELSE Add(Local, GoalsWithout(asked[u].do, asked[u].from), asked[u].from)
  /\ asked' = [asked EXCEPT ![u] = NoCommand]
  /\ UNCHANGED <<methods, unsure>>

PantographNext ==
  \/ \E s \in Theorems : LoadSorry(s)
  \/ \E n \in 0..Len(states), do \in Methods :
       \/ \E u \in Users, t \in Tactics : Ask(u, do, n, t)
       \/ WithoutEngine(do, n)
  \/ \E u \in Users : Answered(u) \/ Raises(u)

-----------------------------------------------------------------------------
(* Properties.                                                              *)

\* A proof state shows no goals only when the engine has completed the proof, whatever
\* calls overlapped, were refused or raised; unless its goals could not all be read, two
\* threads took its number (_send_pybind_sync takes it without a lock), or it was made
\* without the engine: by a version without goal_tactic, or from a proof state without
\* goals, with such goals, or that the engine does not know, as a focus or a draft that
\* raised leaves it and a number never given is (engine/backends/pantograph.py,
\* _send_pybind_sync, _extract_goal_fragments, focus_mvar and insert_draft).
CompletionEarned ==
  PantographTypeOK /\ \A n \in 1..Len(states) \ unsure :
    LET from == states[n].from IN
    states[n].goals = 0 =>
      IF Live(n) # Local THEN Complete(Live(n))
      ELSE \/ Shown(from) = 0 \/ from \in unsure \/ Live(from) = Local
           \/ "goal_tactic" \notin methods
=============================================================================
