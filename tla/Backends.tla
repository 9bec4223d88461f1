------------------------------ MODULE Backends ------------------------------
(***************************************************************************)
(* The backend a run is started with: build_infra_backends                 *)
(* (prover/unified/factory.py) makes one of three, or none.                *)
(***************************************************************************)
EXTENDS Lookeng, Kimina, Pantograph

VARIABLE kind

backendVars == <<kind, lookengVars, kiminaVars, pantographVars>>

Init ==
  /\ kind \in {"kimina", "pantograph", "lookeng"}
  /\ LookengInit /\ KiminaInit /\ PantographInit

Next ==
  /\ UNCHANGED kind
  /\ \/ kind = "lookeng" /\ LookengNext /\ UNCHANGED <<kiminaVars, pantographVars>>
     \/ kind = "kimina" /\ KiminaNext /\ UNCHANGED <<lookengVars, pantographVars>>
     \/ kind = "pantograph" /\ PantographNext /\ UNCHANGED <<lookengVars, kiminaVars>>

Spec == Init /\ [][Next]_backendVars
=============================================================================
