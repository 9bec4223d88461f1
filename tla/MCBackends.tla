----------------------------- MODULE MCBackends -----------------------------
(* Lookeng: a lemma, one that uses it, another proof of the first, and a   *)
(* bare statement.  Pantograph: "split" and a "close" of both goals prove  *)
(* it.                                                                     *)
EXTENDS Backends, TLC

CONSTANTS goal, two, qed, split, close, fails,
          first, again, second, bare, n1, n2, n3, c1, c2

MCNameOf == (first :> n1) @@ (again :> n1) @@ (second :> n2) @@ (bare :> n3)
MCNeeds == (first :> {}) @@ (again :> {}) @@ (second :> {n1}) @@ (bare :> {})

MCGoals == (goal :> 1) @@ (two :> 2) @@ (qed :> 0)
MCLeads ==
  [step \in {goal, two, qed} \X {split, close} |->
    CASE step = <<goal, split>> -> two
      [] step = <<two, close>> -> qed
      [] OTHER -> fails]

MCSymmetry == Permutations({c1, c2})
=============================================================================
