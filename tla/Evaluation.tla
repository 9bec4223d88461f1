----------------------------- MODULE Evaluation -----------------------------
(***************************************************************************)
(* Evaluation on a benchmark (run_eval.py): the problems in order, several *)
(* independent samples of each, one dialog saved for each problem, and at  *)
(* the end the metrics (benchmarks/metrics.py).  A process may be stopped  *)
(* at any point; one started with --resume takes the problems that have a  *)
(* dialog from the dialogs.  A sample is a run of the unified runner with  *)
(* a whole-proof profile, seen from outside (ProofRunner models it).       *)
(***************************************************************************)
EXTENDS Integers, Sequences, FiniteSetsExt, SequencesExt

CONSTANTS
  NProblems,
  MaxSamples,  \* --max-samples
  Ks,          \* the k of pass@k
  Codes,       \* proofs the LLM may end with
  Proving,     \* those Lean accepts as a whole
  Partly,      \* those lean_verify accepts; it may drop helpers Lean rejects
  Recognised,  \* those that look like Lean code, and prove the target if they name it
  None,        \* no code
  MaxAccepted, \* bound of the model: accepted calls in one message
  MaxRuns      \* bound of the model: processes

ASSUME EvaluationAssumption ==
  /\ NProblems \in Nat /\ MaxSamples \in Nat /\ MaxRuns \in Nat /\ MaxAccepted \in Nat
  /\ Ks \subseteq 1..MaxSamples /\ None \notin Codes
  /\ Proving \subseteq Codes /\ Partly \subseteq Codes /\ Recognised \subseteq Codes

VARIABLES
  phase,     \* "down", "running" or "done" (the metrics are written)
  mode,      \* lean_mode: "real", or "skip" when there is no Lean
  existing,  \* the problems that are taken from their dialogs
  at,        \* the current problem
  tried,     \* samples of it that were begun
  results,   \* the dialogs of those that returned
  traces,    \* trace_dicts
  disk,      \* the dialog.json of each problem that has one
  runs,      \* processes started so far
  (* history *)
  solvedBy   \* the successful samples of each problem when its dialog was saved

memory == <<phase, mode, existing, at, tried, results, traces>>
evaluationVars == <<memory, disk, runs, solvedBy>>

Problems == 1..NProblems

-----------------------------------------------------------------------------
(* A sample.                                                                *)

\* What the runner's own verification says of the code c, "none" if it is not done or
\* raises.
AutoVerify(c) ==
  IF c = None \/ mode = "skip" THEN {"none"}
  ELSE {"no", "none"} \cup (IF c \in Proving THEN {"yes"} ELSE {})

\* Mutant: a rejected proof stays.
EvenRejected(c, verdict) == c

\* A rejected proof is dropped, and with it the success.
ProofLeft(c, verdict) == IF verdict = "no" THEN None ELSE c

\* How a loop may end: its code, whether lean_verify was called, and the codes it
\* accepted.  A message with accepted calls ends the loop with the code of the first;
\* without Lean no call is accepted.
Ends ==
  [code : Codes \cup {None}, called : BOOLEAN, accepted : {<<>>}]
  \cup (IF mode = "skip" THEN {}
        ELSE {[code |-> cs[1], called |-> TRUE, accepted |-> cs] :
                cs \in SeqOf(Partly, MaxAccepted) \ {<<>>}})

\* The dialogs a sample may leave: the code, if it is a success, and the verdict.
Dialogs ==
  UNION {{[code |-> ProofLeft(e.code, v), checked |-> v, called |-> e.called,
           accepted |-> e.accepted] : v \in AutoVerify(e.code)} : e \in Ends}

Success(d) == d.code # None
NoResult == [code |-> None, checked |-> "none", called |-> FALSE, accepted |-> <<>>]

-----------------------------------------------------------------------------
(* Traces and dialogs.                                                      *)

Correct(ds) == {i \in 1..Len(ds) : Success(ds[i])}

\* The last successful result is saved, else the last one, else the empty trace.
ResultForDialog(ds) ==
  IF Correct(ds) # {} THEN ds[Max(Correct(ds))]
  ELSE IF ds = <<>> THEN NoResult ELSE Last(ds)

\* The trace of a problem whose samples were drawn in this process.
ProveSingle(p, ds) ==
  [problem |-> p, resumed |-> FALSE, solved |-> Correct(ds) # {},
   code |-> IF Correct(ds) = {} THEN None ELSE ds[Max(Correct(ds))].code,
   attempts |-> Len(ds), correct |-> Correct(ds), dialog |-> ResultForDialog(ds)]

\* A dialog counts as solved by a verified lean_verify call, by the runner's verdict,
\* or by a success without any call; in each case the proof must be recognised.
VerifiedProof(d) == ToSet(d.accepted) \cap Recognised # {}
AutoVerifiedProof(d) == d.checked = "yes" /\ d.code \in Recognised
ResultProof(d) == Success(d) /\ ~d.called /\ d.code \in Recognised

\* Mutant: the runner's verdict is not read.
SolvedWithoutVerdict(d) == VerifiedProof(d) \/ ResultProof(d)

DialogSolved(d) == VerifiedProof(d) \/ AutoVerifiedProof(d) \/ ResultProof(d)

\* The first accepted code that is recognised: not the loop's own, if that is not.
Recovered(d) ==
  LET taken == {i \in DOMAIN d.accepted : d.accepted[i] \in Recognised}
  IN d.accepted[Min(taken)]

DialogToTrace(p, d) ==
  LET solved == DialogSolved(d)
  IN [problem |-> p, resumed |-> TRUE, solved |-> solved,
      code |-> IF VerifiedProof(d) THEN Recovered(d) ELSE IF solved THEN d.code ELSE None,
      attempts |-> 1, correct |-> IF solved THEN {1} ELSE {}, dialog |-> d]

-----------------------------------------------------------------------------
(* The process.                                                             *)

EvaluationTypeOK ==
  /\ phase \in {"down", "running", "done"} /\ mode \in {"real", "skip"}
  /\ existing \subseteq Problems /\ at \in 1..(NProblems + 1)
  /\ tried \in 0..MaxSamples /\ Len(results) <= tried
  /\ Len(traces) = at - 1
  /\ runs \in 0..MaxRuns
  /\ DOMAIN disk \subseteq Problems /\ DOMAIN solvedBy = DOMAIN disk

EvaluationInit ==
  /\ phase = "down" /\ mode = "skip" /\ existing = {} /\ at = 1 /\ tried = 0
  /\ results = <<>> /\ traces = <<>> /\ runs = 0
  /\ disk = [p \in {} |-> NoResult] /\ solvedBy = [p \in {} |-> {}]

\* Lean is there if it is asked for and its pool starts.
Start ==
  /\ phase = "down" /\ runs < MaxRuns
  /\ phase' = "running" /\ mode' \in {"real", "skip"} /\ runs' = runs + 1
  /\ \E resume \in BOOLEAN :
       existing' = IF resume THEN DOMAIN disk ELSE {}
  /\ UNCHANGED <<at, tried, results, traces, disk, solvedBy>>

\* The process is stopped, or has ended: only the dialogs are left.
Stop ==
  /\ phase # "down"
  /\ phase' = "down" /\ mode' = "skip" /\ existing' = {} /\ at' = 1 /\ tried' = 0
  /\ results' = <<>> /\ traces' = <<>>
  /\ UNCHANGED <<disk, runs, solvedBy>>

InProblem == phase = "running" /\ at <= NProblems

TakeExisting ==
  /\ InProblem /\ at \in existing
  /\ traces' = Append(traces, DialogToTrace(at, disk[at]))
  /\ at' = at + 1
  /\ UNCHANGED <<phase, mode, existing, tried, results, disk, runs, solvedBy>>

Sample ==
  /\ InProblem /\ at \notin existing /\ tried < MaxSamples
  /\ tried' = tried + 1
  /\ \E d \in Dialogs : results' = Append(results, d)
  /\ UNCHANGED <<phase, mode, existing, at, traces, disk, runs, solvedBy>>

\* The runner raises: the sample is not counted.
SampleFails ==
  /\ InProblem /\ at \notin existing /\ tried < MaxSamples
  /\ tried' = tried + 1
  /\ UNCHANGED <<phase, mode, existing, at, results, traces, disk, runs, solvedBy>>

\* The files with one more, or with another content.
Written(files, p, content) ==
  [q \in DOMAIN files \cup {p} |-> IF q = p THEN content ELSE files[q]]

\* The dialog replaces the file of an earlier one in one step.
SaveTraceDialog ==
  /\ InProblem /\ at \notin existing /\ tried = MaxSamples
  /\ disk' = Written(disk, at, ResultForDialog(results))
  /\ solvedBy' = Written(solvedBy, at, Correct(results))
  /\ traces' = Append(traces, ProveSingle(at, results))
  /\ at' = at + 1 /\ tried' = 0 /\ results' = <<>>
  /\ UNCHANGED <<phase, mode, existing, runs>>

WriteMetrics ==
  /\ phase = "running" /\ at > NProblems
  /\ phase' = "done"
  /\ UNCHANGED <<mode, existing, at, tried, results, traces, disk, runs, solvedBy>>

EvaluationNext ==
  \/ Start \/ Stop \/ TakeExisting \/ Sample \/ SampleFails
  \/ SaveTraceDialog \/ WriteMetrics

EvaluationSpec == EvaluationInit /\ [][EvaluationNext]_evaluationVars

-----------------------------------------------------------------------------
(* Metrics.                                                                 *)

\* Mutant: a problem is solved or not.
SolvedOrNot(t) == IF t.solved THEN 1 ELSE 0

CorrectCount(t) == Cardinality(t.correct)

\* n * (n - 1) * ..., k factors.
Falling(n, k) ==
  LET product[i \in 0..k] == IF i = 0 THEN 1 ELSE product[i - 1] * (n - (i - 1))
  IN product[k]

\* Out of how many of how many choices none of k samples is correct (pass_at_k).
MissRatio(n, c, k) ==
  IF n - c < k THEN [misses |-> 0, of |-> 1]
  ELSE [misses |-> Falling(n - c, k), of |-> Falling(n, k)]

PassAtK(t, k) ==
  LET total == Max({1, t.attempts})
  IN MissRatio(total, CorrectCount(t), Min({k, total}))

-----------------------------------------------------------------------------
(* Properties.                                                              *)

\* pass@k of a problem sampled in this process is the share of the choices of k of its
\* samples that contain a correct one (of all of them, when fewer than k returned;
\* "gives an unbiased estimate: 1 - C(n-c, k) / C(n, k)", compute_metrics).
PassAtKUnbiased ==
  phase = "done" =>
    \A i \in 1..Len(traces), k \in Ks :
      LET t == traces[i]
          choices == kSubset(Min({k, t.attempts}), 1..t.attempts)
          missed == {s \in choices : s \cap t.correct = {}}
      IN ~t.resumed /\ t.attempts > 0 =>
           PassAtK(t, k).misses * Cardinality(choices)
             = Cardinality(missed) * PassAtK(t, k).of

\* Metrics marked "lean4" count a problem as solved only by a proof Lean accepts,
\* unless no verdict of Lean on the proof that counts was recorded (the verification
\* raised, or the dialog is of a run without Lean), or lean_verify accepted a part of a
\* proof that the runner rejected as a whole; or the dialog is resumed, and of several
\* calls that lean_verify accepted in one message the loop's own, the first, is not
\* recognised: a later one counts, which the runner has not verified (run_eval.py, main
\* and _dialog_to_trace_dict).
SolvedIsProved ==
  /\ EvaluationTypeOK
  /\ phase = "done" /\ mode = "real" =>
       \A i \in 1..Len(traces) :
         LET t == traces[i]
         IN t.solved => \/ t.code \in Proving
                        \/ t.dialog.checked = "none"
                        \/ t.dialog.checked = "no" /\ t.code \in ToSet(t.dialog.accepted)
                        \/ /\ t.resumed /\ t.dialog.accepted[1] \notin Recognised
                           /\ t.code \in ToSet(Tail(t.dialog.accepted))

\* A resumed run counts every problem once, in order.  It counts as solved what was
\* solved when its dialog was saved, in whichever samples, if the last of the
\* successes was verified with a proof that is recognised; and as unsolved what was
\* not, unless lean_verify had accepted something (run_eval.py, load_existing_traces).
ResumeKeepsVerdict ==
  \A i \in 1..Len(traces) :
    LET t == traces[i]
    IN /\ t.problem = i
       /\ t.resumed =>
            /\ solvedBy[i] # {} /\ AutoVerifiedProof(disk[i]) => t.solved
            /\ t.solved => solvedBy[i] # {} \/ disk[i].accepted # <<>>
=============================================================================
