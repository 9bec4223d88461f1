----------------------------- MODULE ProofSteps -----------------------------
(***************************************************************************)
(* Lean, as the searches for proofs use it: the effect of one tactic on a  *)
(* proof state.  A proof state stands for a REPL proofState and the goals  *)
(* in it; a tactic fails or leads from one proof state to another.         *)
(***************************************************************************)
EXTENDS Integers, Sequences, FiniteSets

CONSTANTS
  ProofStates,
  Tactics,
  Goals,  \* Goals[s]: the number of goals of proof state s
  Leads,  \* Leads[s, t]: the proof state tactic t leads to from s, or Fails
  Fails

ASSUME StepsAssumption ==
  /\ Goals \in [ProofStates -> Nat]
  /\ Leads \in [ProofStates \X Tactics -> ProofStates \cup {Fails}]
  /\ Fails \notin ProofStates

\* is_proof_complete: no goal remains.
Complete(s) == s # Fails /\ Goals[s] = 0

\* The proof state that tactic t leads to from s; after a failure, nowhere.
After(s, t) == IF s = Fails THEN Fails ELSE Leads[s, t]
=============================================================================
