---------------------------- MODULE MCEvaluation ----------------------------
(* Codes: one that proves the problem, one that proves it and does not     *)
(* look like Lean code, and one with a broken helper that lean_verify      *)
(* drops.  The first process draws every dialog for the first problem, the *)
(* other samples are plain ones: a proof that was verified, or no result.  *)
EXTENDS Evaluation

CONSTANTS good, odd, part

Plain == {NoResult, [NoResult EXCEPT !.code = good, !.checked = "yes"]}

MCNext ==
  \/ Start \/ Stop \/ TakeExisting \/ SampleFails \/ SaveTraceDialog \/ WriteMetrics
  \/ Sample /\ ((at = 1 /\ runs = 1) \/ Last(results') \in Plain)

MCSpec == EvaluationInit /\ [][MCNext]_evaluationVars
=============================================================================
