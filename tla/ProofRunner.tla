---------------------------- MODULE ProofRunner ----------------------------
(***************************************************************************)
(* One proof attempt without a search: UnifiedProofRunner.run              *)
(* (prover/unified/runner.py) starts one AgentLoop                         *)
(* (agent/runtime/agent_loop.py) per profile, several of them side by side *)
(* in the parallel mode, and decides which result to report.               *)
(*                                                                         *)
(* A whole-proof agent submits code to lean_verify or writes it in its     *)
(* answer, and the runner verifies the code it ends with.  A step-level    *)
(* agent applies tactics to a proof state that all its calls share, and    *)
(* the runner trusts the completion Lean reported.  The LLM is             *)
(* unconstrained; a tool call may be refused, time out or fail.            *)
(***************************************************************************)
EXTENDS ProofSteps

CONSTANTS
  Agents,       \* the profiles of the run, numbered in their order
  StepLevel,    \* those with tactic_apply and without lean_verify
  StopOnText,   \* those with on_text_only
  MaxTurns,     \* max_turns
  Slots,        \* bound of the model: 1..n for n tool calls in one message
  Codes,        \* what the LLM may submit as a proof
  Kind,         \* a proof "body", the target's "declaration", a "block" of it and
                \* helpers, or any "other" declaration
  Clean,        \* the codes that pass the integrity check
  Accepted,     \* the codes Lean accepts as a whole
  BodyAccepted, \* the blocks whose last proof Lean accepts, and integrity, alone
  Theorem,      \* the proof state of the theorem
  None          \* no code

ASSUME RunnerAssumption ==
  /\ Agents \subseteq Nat \ {0} /\ IsFiniteSet(Agents) /\ Agents # {}
  /\ Slots \subseteq Nat \ {0} /\ IsFiniteSet(Slots)
  /\ StepLevel \subseteq Agents /\ StopOnText \subseteq Agents
  /\ MaxTurns \in Nat \ {0}
  /\ Kind \in [Codes -> {"body", "declaration", "block", "other"}]
  /\ Clean \subseteq Codes /\ Accepted \subseteq Codes
  /\ BodyAccepted \subseteq {c \in Codes : Kind[c] = "block"}
  /\ Theorem \in ProofStates /\ None \notin Codes

VARIABLES
  phase,   \* of each agent: "boot", "ask", "calls", "check" (auto-verify), "done"
  turn,    \* of each agent's loop
  last,    \* last_proof
  calls,   \* in each slot the call under way or its result
  shared,  \* shared_state of a step-level agent: its proof state and tactics
  proof,   \* LoopResult.proof_code
  reason,  \* LoopResult.stopped_reason
  winner,  \* the agent whose result is reported, 0 before that
  (* history *)
  raised,     \* the auto-verification raised an exception
  overlapped, \* a tactic changed the proof state while another was applied
  reported    \* a tool reported a verified or complete proof to the loop

loop == <<phase, turn, last, calls>>
result == <<proof, reason, winner>>
history == <<raised, overlapped, reported>>
vars == <<loop, shared, result, history>>

NoCall == [status |-> "none"]
Refused == [status |-> "refused"]      \* is_error, or a negative verdict
ProofOf(p) == [status |-> "proof", proof |-> p]

\* The tactics, run in order, take the theorem to proof state s.
TakesTo(tactics, s) ==
  \E states \in [0..Len(tactics) -> ProofStates] :
    /\ states[0] = Theorem /\ states[Len(tactics)] = s
    /\ \A n \in 1..Len(tactics) : states[n] = After(states[n - 1], tactics[n])

\* The proof p solves the problem: a list of tactics step by step, code as a whole.
Replays(tactics) == \E s \in ProofStates : Complete(s) /\ TakesTo(tactics, s)

Proves(c) == Kind[c] # "other" /\ c \in Clean /\ c \in Accepted

\* What lean_verify accepts: the helpers of a block are dropped, the proof of the
\* target is checked alone.
VerifyAccepts(c) == IF Kind[c] = "block" THEN c \in BodyAccepted ELSE Proves(c)

TypeOK ==
  /\ phase \in [Agents -> {"boot", "ask", "calls", "check", "done"}]
  /\ turn \in [Agents -> 1..MaxTurns]
  /\ \A a \in Agents : last[a] \in Codes \cup {None}
  /\ \A a \in Agents, s \in Slots :
       calls[a][s].status \in {"none", "verify", "tactic", "refused", "proof"}
  /\ \A a \in Agents : /\ shared[a].state \in ProofStates
                       /\ shared[a].tactics \in Seq(Tactics)
  /\ \A a \in Agents : proof[a] \in Codes \cup {None} \/ proof[a] \in Seq(Tactics)
  /\ reason \in [Agents -> {"none", "proof_found", "text_only", "max_turns", "stopped",
                            "verification_failed", "requires_repl"}]
  /\ winner \in Agents \cup {0}
  /\ raised \subseteq Agents /\ overlapped \subseteq Agents /\ reported \subseteq Agents

Init ==
  /\ phase = [a \in Agents |-> "boot"] /\ turn = [a \in Agents |-> 1]
  /\ last = [a \in Agents |-> None]
  /\ calls = [a \in Agents |-> [s \in Slots |-> NoCall]]
  /\ shared = [a \in Agents |-> [state |-> Theorem, tactics |-> <<>>]]
  /\ proof = [a \in Agents |-> None] /\ reason = [a \in Agents |-> "none"]
  /\ winner = 0
  /\ raised = {} /\ overlapped = {} /\ reported = {}

-----------------------------------------------------------------------------
(* The start of a loop and its end.                                         *)

\* A step-level profile needs a REPL and a proof state for the theorem.
Boot(a) ==
  /\ phase[a] = "boot"
  /\ phase' = [phase EXCEPT ![a] = "ask"]
  /\ UNCHANGED <<turn, last, calls, shared, result, history>>

BootFails(a) ==
  /\ phase[a] = "boot" /\ a \in StepLevel
  /\ phase' = [phase EXCEPT ![a] = "done"]
  /\ reason' = [reason EXCEPT ![a] = "requires_repl"]
  /\ UNCHANGED <<turn, last, calls, shared, proof, winner, history>>

\* The loop returns p for reason why; the runner verifies it unless the agent is
\* step-level or there is nothing to verify.
LoopReturns(a, p, why) ==
  /\ phase' = [phase EXCEPT ![a] =
                 IF a \notin StepLevel /\ p # None THEN "check" ELSE "done"]
  /\ proof' = [proof EXCEPT ![a] = p]
  /\ reason' = [reason EXCEPT ![a] = why]

\* The next turn, or the end of the loop after the last.
GoesOn(a, candidate) ==
  IF turn[a] < MaxTurns
  THEN /\ phase' = [phase EXCEPT ![a] = "ask"]
       /\ turn' = [turn EXCEPT ![a] = @ + 1]
       /\ UNCHANGED <<proof, reason>>
  ELSE LoopReturns(a, candidate, "max_turns") /\ UNCHANGED turn

\* The time or the tokens are used up, or the LLM fails.
Stop(a) ==
  /\ phase[a] = "ask"
  /\ LoopReturns(a, last[a], "stopped")
  /\ UNCHANGED <<turn, last, calls, shared, winner, history>>

-----------------------------------------------------------------------------
(* A turn.                                                                  *)

\* The code in the LLM's answer becomes the candidate.
Noted(a, c) == IF c = None THEN last[a] ELSE c

\* An answer without tool calls.  Only a whole-proof agent stops on a proof.
AnswerText(a) ==
  /\ phase[a] = "ask"
  /\ \E c \in Codes \cup {None} :
       /\ last' = [last EXCEPT ![a] = Noted(a, c)]
       /\ IF a \notin StepLevel /\ c \in Clean
          THEN LoopReturns(a, c, "proof_found") /\ UNCHANGED turn
          ELSE IF a \in StopOnText
          THEN LoopReturns(a, Noted(a, c), "text_only") /\ UNCHANGED turn
          ELSE GoesOn(a, Noted(a, c))
  /\ UNCHANGED <<calls, shared, winner, history>>

\* The calls an agent may make (calls of other tools change nothing here).  A tactic
\* is sent to the proof state the agent is in when the call begins.
Verify(c) == [status |-> "verify", code |-> c]
Tactic(a, t) == [status |-> "tactic", tactic |-> t, from |-> shared[a].state]
Asked(a) == {NoCall} \cup (IF a \in StepLevel THEN {Tactic(a, t) : t \in Tactics}
                           ELSE {Verify(c) : c \in Codes})

AnswerCalls(a) ==
  /\ phase[a] = "ask"
  /\ \E c \in Codes \cup {None}, asked \in [Slots -> Asked(a)] :
       /\ last' = [last EXCEPT ![a] = Noted(a, c)]
       /\ calls' = [calls EXCEPT ![a] = asked]
  /\ phase' = [phase EXCEPT ![a] = "calls"]
  /\ UNCHANGED <<turn, shared, result, history>>

\* lean_verify answers, or fails whatever the code.
Verified(a, s) ==
  /\ phase[a] = "calls" /\ calls[a][s].status = "verify"
  /\ \E answer \in {Refused} \cup {ProofOf(c) : c \in {calls[a][s].code}
                                               \cap {c \in Codes : VerifyAccepts(c)}} :
       /\ calls' = [calls EXCEPT ![a] = [@ EXCEPT ![s] = answer]]
       /\ reported' = IF answer # Refused THEN reported \cup {a} ELSE reported
  /\ UNCHANGED <<phase, turn, last, shared, result, raised, overlapped>>

\* Lean, the REPL, the world model, the integrity check or the time limit rejects it.
TacticFails(a, s) ==
  /\ phase[a] = "calls" /\ calls[a][s].status = "tactic"
  /\ calls' = [calls EXCEPT ![a] = [@ EXCEPT ![s] = Refused]]
  /\ UNCHANGED <<phase, turn, last, shared, result, history>>

\* Mutant: the tactic alone is reported.
TacticOnly(a, call) == <<call.tactic>>

\* The tactics reported as the proof when the last of them completes it.
PathAfter(a, call) == Append(shared[a].tactics, call.tactic)

\* The tactic succeeds: state and tactics of the agent change together.  The time
\* limit may then end the call while the step is stored.
TacticApplied(a, s) ==
  /\ phase[a] = "calls" /\ calls[a][s].status = "tactic"
  /\ LET call == calls[a][s]
         state == After(call.from, call.tactic)
     IN /\ state # Fails
        /\ shared' = [shared EXCEPT ![a] =
                        [state |-> state, tactics |-> Append(@.tactics, call.tactic)]]
        /\ overlapped' = IF call.from # shared[a].state THEN overlapped \cup {a}
                         ELSE overlapped
        /\ \E answer \in {Refused} \cup (IF Complete(state)
                                         THEN {ProofOf(PathAfter(a, call))} ELSE {}) :
             /\ calls' = [calls EXCEPT ![a] = [@ EXCEPT ![s] = answer]]
             /\ reported' = IF answer # Refused THEN reported \cup {a} ELSE reported
  /\ UNCHANGED <<phase, turn, last, result, raised>>

Answered(a) == \A s \in Slots : calls[a][s].status \notin {"verify", "tactic"}
ProofSlots(a) == {s \in Slots : calls[a][s].status = "proof"}

\* Mutant: only the first call of the message is looked at.
FirstSlot(a) == ProofSlots(a) \cap {1}

\* The slots whose result ends the loop.
Found(a) == ProofSlots(a)

\* The loop ends with the first proof in the order of the calls.  (The policy engine
\* is asked otherwise, and never decides to end the loop.)
TurnEnds(a) ==
  /\ phase[a] = "calls" /\ Answered(a)
  /\ IF Found(a) # {}
     THEN /\ \E s \in Found(a) : /\ \A r \in Found(a) : s <= r
                                 /\ LoopReturns(a, calls[a][s].proof, "proof_found")
          /\ UNCHANGED turn
     ELSE GoesOn(a, last[a])
  /\ calls' = [calls EXCEPT ![a] = [s \in Slots |-> NoCall]]
  /\ UNCHANGED <<last, shared, winner, history>>

-----------------------------------------------------------------------------
(* The runner.                                                              *)

\* Lean verifies the code the loop ended with, if that code is the target's.
AutoVerified(a) ==
  /\ phase[a] = "check" /\ Proves(proof[a])
  /\ phase' = [phase EXCEPT ![a] = "done"]
  /\ reason' = [reason EXCEPT ![a] = "proof_found"]
  /\ UNCHANGED <<turn, last, calls, shared, proof, winner, history>>

\* Mutant: the reason is kept.
RejectedOnly(a) ==
  /\ phase[a] = "check"
  /\ phase' = [phase EXCEPT ![a] = "done"]
  /\ UNCHANGED <<turn, last, calls, shared, result, history>>

AutoRejected(a) ==
  /\ phase[a] = "check"
  /\ phase' = [phase EXCEPT ![a] = "done"]
  /\ reason' = [reason EXCEPT ![a] = "verification_failed"]
  /\ proof' = [proof EXCEPT ![a] = None]
  /\ UNCHANGED <<turn, last, calls, shared, winner, history>>

\* verify_complete raises: what the loop reported stands.
AutoRaises(a) ==
  /\ phase[a] = "check" /\ proof[a] \in Clean /\ Kind[proof[a]] # "other"
  /\ phase' = [phase EXCEPT ![a] = "done"]
  /\ raised' = raised \cup {a}
  /\ UNCHANGED <<turn, last, calls, shared, result, overlapped, reported>>

Success(a) == proof[a] # None /\ reason[a] = "proof_found"

\* Mutant: a result with a proof is as good as a success.
WithProof ==
  LET some == {a \in Agents : proof[a] # None}
  IN IF some # {} THEN some ELSE Agents

\* All loops have returned.  The first success is reported, else a result with a
\* proof, if there is one.
Candidates ==
  LET best == {a \in Agents : Success(a)}
      some == {a \in Agents : proof[a] # None}
  IN IF best # {} THEN {a \in best : \A b \in best : a <= b}
     ELSE IF some # {} THEN some ELSE Agents

Report ==
  /\ winner = 0 /\ \A a \in Agents : phase[a] = "done"
  /\ winner' \in Candidates
  /\ UNCHANGED <<loop, shared, proof, reason, history>>

CallEnds(a) ==
  \E s \in Slots : Verified(a, s) \/ TacticFails(a, s) \/ TacticApplied(a, s)
Answer(a) == Stop(a) \/ AnswerText(a) \/ AnswerCalls(a)
Checked(a) == AutoVerified(a) \/ AutoRejected(a) \/ AutoRaises(a)

Next == \/ Report
        \/ \E a \in Agents : \/ Boot(a) \/ BootFails(a) \/ Answer(a)
                             \/ CallEnds(a) \/ TurnEnds(a) \/ Checked(a)

Spec == Init /\ [][Next]_vars

\* Every LLM request, tool call and verification has a time limit.
FairSpec ==
  /\ Spec /\ WF_vars(Report)
  /\ \A a \in Agents : /\ WF_vars(Boot(a) \/ BootFails(a)) /\ WF_vars(Answer(a))
                       /\ WF_vars(CallEnds(a)) /\ WF_vars(TurnEnds(a))
                       /\ WF_vars(Checked(a))

-----------------------------------------------------------------------------
(* Properties.                                                              *)

\* Code reported as a success proves the theorem as a whole, whatever lean_verify
\* said of a part of it, unless the runner's own verification raised an exception
\* (prover/unified/runner.py, _run_single_loop and _auto_verify_proof).
SuccessProves ==
  \A a \in Agents \ StepLevel :
    phase[a] = "done" /\ Success(a) /\ a \notin raised => Proves(proof[a])

\* The tactics a step-level agent reports prove the theorem when they are run in
\* order, also after refused and timed-out calls, unless parallel calls changed the
\* shared proof state under each other (agent/tools/builtin/tactic_apply.py, execute).
StepProofReplays ==
  \A a \in StepLevel : Success(a) /\ a \notin overlapped => Replays(proof[a])

\* What a run reports as proved is a proof, at either level, with the exceptions that
\* the two parts name.
ReportsProve == TypeOK /\ SuccessProves /\ StepProofReplays

\* A proof that a tool reported as verified or complete ends the loop in that turn, by
\* success or by the runner's verdict, in whatever slot of the message it was
\* (agent/runtime/agent_loop.py, _extract_verified_lean_proof: "Without this check the
\* loop falls through to max_turns").
ReportEndsLoop ==
  \A a \in reported : phase[a] = "done" => reason[a] \in {"proof_found", "verification_failed"}

\* The run reports a result, and a success if any profile has one
\* (prover/unified/runner.py, run and _run_parallel).
RunReturns ==
  <>(winner # 0 /\ ((\E a \in Agents : Success(a)) => Success(winner)))
=============================================================================
