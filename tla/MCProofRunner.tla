--------------------------- MODULE MCProofRunner ---------------------------
(* Codes: a good declaration, a block that Lean accepts and whose last     *)
(* proof needs its helpers, a block with a broken helper it does not need, *)
(* and another theorem.  "split" and "close" prove the goal.               *)
EXTENDS ProofRunner, TLC

CONSTANTS goal, open, qed, split, close, fails,
          good, needs, broken, foreign

MCGoals == (goal :> 1) @@ (open :> 1) @@ (qed :> 0)

MCLeads ==
  [step \in {goal, open, qed} \X {split, close} |->
    CASE step = <<goal, split>> -> open
      [] step = <<open, close>> -> qed
      [] OTHER -> fails]

MCKind == (good :> "declaration") @@ (needs :> "block")
          @@ (broken :> "block") @@ (foreign :> "other")
=============================================================================
