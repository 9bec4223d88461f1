------------------------------ MODULE MCStores ------------------------------
(* A tactic pattern makes a have-step that reports an error, and then      *)
(* succeeds on the same goal; in the other attempt it succeeds at once and *)
(* the goal stays open.                                                    *)
EXTENDS Stores

CONSTANTS simp, goal, h, pc, w1, w2, a1, a2, a3, p1, p2, s1, s2, th1, f1, d1

Step(error, have) == [key |-> simp, env |-> TRUE, error |-> error, have |-> have]
MCAttempts ==
  {[steps |-> <<Step(TRUE, h), Step(FALSE, NoLemma)>>, success |-> TRUE, context |-> pc],
   [steps |-> <<Step(FALSE, h)>>, success |-> FALSE, context |-> pc]}
MCGoal == [t \in {simp} |-> goal]
MCProcessOf == [a \in {a1, a2, a3} |-> IF a = a3 THEN p2 ELSE p1]

MCSymmetry == Permutations({w1, w2})

MCFiles == <<f1>>
MCDbRows == <<d1>>
InitialIndex == <<[s \in {f1, d1} |-> NoDialog], <<>>, FALSE, <<>>, <<>>, TRUE, {}>>

\* No operation changes two of the stores, so each is explored with the others as they
\* were at the start.
KnowledgeUntouched == ops = 0 /\ upkeep = 0
BankUntouched == bank = <<>> /\ open = {} /\ exposed = {}
IndexUntouched == indexVars = InitialIndex

MCNext ==
  \/ BankUntouched /\ IndexUntouched /\ KnowledgeNext /\ UNCHANGED <<bankVars, indexVars>>
  \/ KnowledgeUntouched /\ IndexUntouched /\ BankNext /\ UNCHANGED <<knowledgeVars, indexVars>>
  \/ KnowledgeUntouched /\ BankUntouched /\ IndexNext /\ UNCHANGED <<knowledgeVars, bankVars>>

MCSpec == Init /\ [][MCNext]_<<knowledgeVars, bankVars, indexVars>>
=============================================================================
