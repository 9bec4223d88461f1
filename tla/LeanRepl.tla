------------------------------ MODULE LeanRepl ------------------------------
(***************************************************************************)
(* LeanREPL (prover/verifier/lean_repl.py): the synchronous face of a      *)
(* LocalTransport that run_mcts_eval.py checks tactics with.  To check a   *)
(* path of tactics it loads the preamble of the problem, once for each     *)
(* preamble, then sends the theorem with the tactics as its proof and, if  *)
(* Lean does not take that for a proof, once more with a "sorry" behind.   *)
(*                                                                         *)
(* Nothing tells it that the transport's process was replaced, or that an  *)
(* answer came late: then a request is answered by the answer to an        *)
(* earlier one.  One thread sends; the transport's heartbeat sends between *)
(* its requests.  The transport itself has a model of its own,             *)
(* LocalTransport; here an exchange is one step.                           *)
(***************************************************************************)
EXTENDS ProofSteps

CONSTANTS
  Problems,
  Preambles,    \* preambles of problems
  PreambleOf,   \* PreambleOf[p]: the preamble of problem p
  RootIn,       \* RootIn[p, env]: the proof state theorem p begins with behind a
                \* preamble, or Fails
  MaxRestarts,  \* max_restarts of the transport
  MaxFaults, MaxBeats  \* bounds of the model

NoEnv == -1
Bare == "no preamble"

ASSUME ReplAssumption ==
  /\ {MaxRestarts, MaxFaults, MaxBeats} \subseteq Nat
  /\ Bare \notin Preambles
  /\ PreambleOf \in [Problems -> Preambles]
  /\ RootIn \in [Problems \X (Preambles \cup {Bare}) -> ProofStates \cup {Fails}]

VARIABLES
  envs,      \* the environments of the process: the preamble each was made with
  late,      \* answers in its pipe to requests that were given up
  known,     \* _known_envs of the transport
  failures,  \* consecutive_failures
  restarts,  \* total_restarts
  life,      \* "up", "halted" (no heartbeat any more) or "gone" (no process any more)
  cached,    \* _env_cache: preamble -> environment number, or NoEnv
  ask,       \* the next request of check_tactic_sequence
  reply,     \* what it returned
  (* history *)
  shifted,   \* a request was given up on this process
  replaced,  \* the process is not the first
  faults, beats

processVars == <<envs, late, known, failures, restarts, life, shifted, replaced>>
replVars == <<processVars, cached, ask, reply, faults, beats>>

Quiet == [what |-> "nothing"]

ReplInit ==
  /\ envs = <<>> /\ late = <<>> /\ known = {}
  /\ failures = 0 /\ restarts = 0
  /\ life \in {"up", "gone"}
  /\ cached = [p \in Preambles |-> NoEnv]
  /\ ask = Quiet /\ reply = Quiet
  /\ shifted = FALSE /\ replaced = FALSE
  /\ faults = 0 /\ beats = 0

\* create: another LeanREPL with a transport of its own.
Created ==
  /\ envs' = <<>> /\ late' = <<>> /\ known' = {}
  /\ failures' = 0 /\ restarts' = 0
  /\ life' \in {"up", "gone"}
  /\ cached' = [p \in Preambles |-> NoEnv]
  /\ ask' = Quiet /\ reply' = Quiet
  /\ shifted' = FALSE /\ replaced' = FALSE

-----------------------------------------------------------------------------
(* Lean.                                                                    *)

\* Where the tactics of a path lead from proof state s.
Reaches(s, path) ==
  LET from[i \in 0..Len(path)] ==
        IF i = 0 THEN s ELSE After(from[i - 1], path[i])
  IN from[Len(path)]

\* What Lean says: "fine" without errors and sorries, "open" with the proof state left
\* by a "sorry", or "error".  A "sorry" needs a goal.
Says(request, env) ==
  IF request.what \in {"preamble", "beat"} THEN [says |-> "fine"]
  ELSE LET s == Reaches(RootIn[request.problem, env], request.path) IN
    CASE request.what = "whole" /\ Complete(s) -> [says |-> "fine"]
      [] request.what = "prefix" /\ s # Fails /\ ~Complete(s) -> [says |-> "open", state |-> s]
      [] OTHER -> [says |-> "error"]

\* The preamble a request is elaborated behind: an import names no environment, and a
\* number that is not known is not sent.
Behind(request) ==
  CASE request.what = "preamble" -> PreambleOf[request.problem]
    [] request.what # "preamble" /\ request.env \in known -> envs[request.env + 1]
    [] OTHER -> Bare

Elaborates(request) == envs' = Append(envs, Behind(request))

\* The answers to be read, the one to this request last.
Answers(request) ==
  Append(late, [env |-> Len(envs), answer |-> Says(request, Behind(request))])

-----------------------------------------------------------------------------
(* One exchange of the transport.                                           *)

\* The first answer in the pipe is taken for the answer to the request.
Replied(request) ==
  /\ life # "gone"
  /\ Elaborates(request)
  /\ late' = Tail(Answers(request))
  /\ known' = known \cup {Head(Answers(request)).env}
  /\ failures' = 0
  /\ UNCHANGED <<restarts, life, shifted, replaced, faults>>

\* _restart_repl, while max_restarts allows it.
NewProcess ==
  /\ restarts < MaxRestarts /\ restarts' = restarts + 1
  /\ envs' = <<>> /\ late' = <<>> /\ known' = {}
  /\ shifted' = FALSE /\ replaced' = TRUE
  /\ UNCHANGED life

\* The answer to come is left in the pipe.
GivenUp(request) ==
  /\ Elaborates(request)
  /\ late' = Answers(request)
  /\ shifted' = TRUE
  /\ UNCHANGED <<known, restarts, replaced>>

\* The second timeout in a row restarts the process; if that is not allowed, only the
\* heartbeat ends.
TimedOut(request) ==
  /\ life # "gone" /\ faults < MaxFaults
  /\ faults' = faults + 1 /\ failures' = failures + 1
  /\ \/ failures = 0 /\ GivenUp(request) /\ UNCHANGED life
     \/ failures > 0 /\ NewProcess
     \/ failures > 0 /\ restarts = MaxRestarts /\ GivenUp(request) /\ life' = "halted"

ProcessDies ==
  /\ life # "gone" /\ faults < MaxFaults
  /\ faults' = faults + 1
  /\ \/ NewProcess
     \/ /\ restarts = MaxRestarts /\ life' = "gone"
        /\ UNCHANGED <<envs, late, known, restarts, shifted, replaced>>

\* The process ends during an exchange.
Died == ProcessDies /\ failures' = failures + 1

\* The process has ended since the last exchange: the next one restarts it first.
FoundDead ==
  /\ ask # Quiet
  /\ ProcessDies
  /\ UNCHANGED <<failures, cached, ask, reply, beats>>

NoProcess ==
  /\ life = "gone"
  /\ UNCHANGED <<processVars, faults>>

\* LeanREPL's own timeout: the transport reads the answer, but nobody waits for it.
Abandoned(request) ==
  /\ life # "gone" /\ faults < MaxFaults
  /\ Elaborates(request)
  /\ late' = Tail(Answers(request))
  /\ known' = known \cup {Head(Answers(request)).env}
  /\ failures' = 0 /\ faults' = faults + 1
  /\ UNCHANGED <<restarts, life, shifted, replaced>>

\* An exchange that leaves the caller without an answer.
Unanswered(request) == TimedOut(request) \/ Abandoned(request) \/ Died \/ NoProcess

-----------------------------------------------------------------------------
(* check_tactic_sequence.                                                   *)

\* The theorem with its tactics, or at once with a "sorry" if there is none.
WithTheorem(path) == IF path = <<>> THEN "prefix" ELSE "whole"

\* Begins to check a path.
Check(p, path) ==
  LET env == cached[PreambleOf[p]] IN
  ask' = [what |-> IF env = NoEnv THEN "preamble" ELSE WithTheorem(path),
          problem |-> p, path |-> path, env |-> env]

\* parse_repl_output: an answer without errors and sorries completes the proof, unless
\* the request had a sorry.
Parsed(answer, trailing_sorry) ==
  CASE answer.says = "error" -> [what |-> "failure"]
    [] answer.says = "open"  -> [what |-> "open", state |-> answer.state]
    [] OTHER -> [what |-> IF trailing_sorry THEN "blank" ELSE "complete"]

\* Mutant: _env_cache has no key.
RememberForAll(preamble, env) == cached' = [p \in Preambles |-> env]

\* _env_for: the environment an answer names is kept for the preamble.
Remember(preamble, env) == cached' = [cached EXCEPT ![preamble] = env]

PreambleLoaded ==
  /\ ask.what = "preamble"
  /\ \/ LET env == Head(Answers(ask)).env IN
        /\ Replied(ask)
        /\ Remember(PreambleOf[ask.problem], env)
        /\ ask' = [ask EXCEPT !.what = WithTheorem(ask.path), !.env = env]
     \/ /\ Unanswered(ask)
        /\ ask' = [ask EXCEPT !.what = WithTheorem(ask.path)]
        /\ UNCHANGED cached
  /\ UNCHANGED <<reply, beats>>

\* The tactics as the whole proof; unless the answer completes it, the prefix follows.
WholeChecked ==
  /\ ask.what = "whole"
  /\ \/ LET parsed == Parsed(Head(Answers(ask)).answer, FALSE) IN
        /\ Replied(ask)
        /\ IF parsed.what = "complete"
           THEN ask' = Quiet /\ reply' = parsed
           ELSE ask' = [ask EXCEPT !.what = "prefix"] /\ UNCHANGED reply
     \/ Unanswered(ask) /\ ask' = [ask EXCEPT !.what = "prefix"] /\ UNCHANGED reply
  /\ UNCHANGED <<cached, beats>>

PrefixChecked ==
  /\ ask.what = "prefix"
  /\ \/ Replied(ask) /\ reply' = Parsed(Head(Answers(ask)).answer, TRUE)
     \/ Unanswered(ask) /\ reply' = [what |-> "failure"]
  /\ ask' = Quiet
  /\ UNCHANGED <<cached, beats>>

\* The heartbeat: "#check Nat" in environment 0.
Beat ==
  LET request == [what |-> "beat", env |-> 0] IN
  /\ beats < MaxBeats /\ life = "up"
  /\ beats' = beats + 1
  /\ Replied(request) \/ TimedOut(request)
  /\ UNCHANGED <<cached, ask, reply>>
=============================================================================
