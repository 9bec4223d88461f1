---------------------------- MODULE MCTreeSearch ----------------------------
(* A theorem that "split" followed by two uses of "close" proves, and one  *)
(* that "close" proves; every other step fails.                            *)
EXTENDS TreeSearch, TLC

CONSTANTS goal, two, one, qed, split, close, fails

MCGoals == (goal :> 1) @@ (two :> 2) @@ (one :> 1) @@ (qed :> 0)

MCLeads ==
  [step \in {goal, two, one, qed} \X {split, close} |->
    CASE step = <<goal, split>> -> two
      [] step = <<two, close>> -> one
      [] step = <<one, close>> -> qed
      [] OTHER -> fails]

(* Bound of the run: one call of a search is applied to another node's     *)
(* proof state, alone in its message, and before any call named a node     *)
(* that did not exist.                                                     *)
Made == {s \in Slots : calls'[s] # Idle}
Strays == {s \in Made : calls'[s].from # StateAt(calls'[s].at)}

MCAsk == Ask /\ (Strays # {} => ~astray /\ Cardinality(Made) = 1)

MCNext == Select \/ SearchReturns \/ MCAsk \/ CallEnds \/ NextTurn \/ ExpansionEnds
          \/ ExpanderRaises

MCSpec == Init /\ [][MCNext]_vars
          /\ WF_vars(Select) /\ WF_vars(SearchReturns)
          /\ WF_vars(MCAsk \/ ExpansionEnds \/ ExpanderRaises)
          /\ WF_vars(NextTurn \/ ExpansionEnds)
          /\ WF_vars(CallEnds)
=============================================================================
