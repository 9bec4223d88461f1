------------------------------- MODULE Stores -------------------------------
(***************************************************************************)
(* What outlives an attempt: the knowledge base, the lemma bank and the    *)
(* index of past dialogs.  They are opened separately                      *)
(* (prover/unified/factory.py), and no operation changes two of them;      *)
(* LemmaBankTool reads the second when the first has nothing, and the      *)
(* index reads the proof contexts kept beside the first.                   *)
(***************************************************************************)
EXTENDS KnowledgeStore, LemmaBank, DialogIndex

Init == KnowledgeInit /\ BankInit /\ IndexInit

Next == \/ KnowledgeNext /\ UNCHANGED <<bankVars, indexVars>>
        \/ BankNext /\ UNCHANGED <<knowledgeVars, indexVars>>
        \/ IndexNext /\ UNCHANGED <<knowledgeVars, bankVars>>

Spec == Init /\ [][Next]_<<knowledgeVars, bankVars, indexVars>>
=============================================================================
