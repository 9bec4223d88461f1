------------------------ MODULE ProofRunner_proofs ------------------------
(***************************************************************************)
(* Proofs about ProofRunner for any proof states, codes, profiles and      *)
(* bounds, and about MctsSearch for any dataset, answers of Lean and       *)
(* bounds: the two programs that keep a proof when Lean completes it.      *)
(***************************************************************************)
EXTENDS ProofRunner, MctsSearch, WellFoundedInduction, TLAPS

VerifyCalls == [status : {"verify"}, code : Codes]
TacticCalls == [status : {"tactic"}, tactic : Tactics, from : ProofStates]
CodeProofs == [status : {"proof"}, proof : Codes]
PathProofs == [status : {"proof"}, proof : Seq(Tactics)]

\* What may be in a slot of an agent.
CallsOf(a) == {NoCall, Refused} \cup (IF a \in StepLevel THEN TacticCalls \cup PathProofs
                                      ELSE VerifyCalls \cup CodeProofs)

\* TypeOK, with what the calls of each kind of agent are.
Types ==
  /\ phase \in [Agents -> {"boot", "ask", "calls", "check", "done"}]
  /\ turn \in [Agents -> 1..MaxTurns]
  /\ last \in [Agents -> Codes \cup {None}]
  /\ DOMAIN calls = Agents /\ \A a \in Agents : calls[a] \in [Slots -> CallsOf(a)]
  /\ shared \in [Agents -> [state : ProofStates, tactics : Seq(Tactics)]]
  /\ proof \in [Agents -> Codes \cup {None} \cup Seq(Tactics)]
  /\ reason \in [Agents -> {"none", "proof_found", "text_only", "max_turns", "stopped",
                            "verification_failed", "requires_repl"}]
  /\ winner \in Agents \cup {0}
  /\ raised \subseteq Agents /\ overlapped \subseteq Agents /\ reported \subseteq Agents

\* While no calls overlapped, the tactics of a step-level agent lead to its proof state,
\* and those in a result to the end of the proof.
PathsLead ==
  \A a \in StepLevel \ overlapped :
    /\ TakesTo(shared[a].tactics, shared[a].state)
    /\ \A s \in Slots : calls[a][s].status = "proof" => Replays(calls[a][s].proof)

\* A loop that ended with a success of a step-level agent ended with such a result; one
\* of a whole-proof agent waits for the verification.
EndsProve ==
  /\ \A a \in StepLevel : phase[a] # "check"
  /\ \A a \in Agents : phase[a] \in {"boot", "ask", "calls"} => reason[a] = "none"
  /\ StepProofReplays
  /\ SuccessProves

\* A reported proof is in a slot until the turn ends, and the reason afterwards.
ReportedInv ==
  \A a \in reported :
    \/ phase[a] = "calls" /\ \E s \in Slots : calls[a][s].status = "proof"
    \/ phase[a] \in {"check", "done"} /\ reason[a] \in {"proof_found", "verification_failed"}

IInv == Types /\ PathsLead /\ EndsProve /\ ReportedInv

-----------------------------------------------------------------------------
(* Paths.                                                                   *)

LEMMA EmptyPath == TakesTo(<<>>, Theorem)
  <1> DEFINE states == [n \in 0..0 |-> Theorem]
  <1>1. Len(<<>>) = 0 /\ 1..0 = {}
    OBVIOUS
  <1>2. states \in [0..0 -> ProofStates] /\ states[0] = Theorem
    BY RunnerAssumption
  <1> QED
    BY <1>1, <1>2 DEF TakesTo

LEMMA LongerPath ==
  ASSUME NEW path \in Seq(Tactics), NEW s \in ProofStates, NEW t \in Tactics,
         TakesTo(path, s), After(s, t) \in ProofStates
  PROVE  TakesTo(Append(path, t), After(s, t))
  <1> DEFINE n == Len(path)
             longer == Append(path, t)
  <1>1. PICK states \in [0..n -> ProofStates] :
          /\ states[0] = Theorem /\ states[n] = s
          /\ \A i \in 1..n : states[i] = After(states[i - 1], path[i])
    BY DEF TakesTo
  <1>2. n \in Nat /\ Len(longer) = n + 1 /\ longer[n + 1] = t
        /\ \A i \in 1..n : longer[i] = path[i]
    OBVIOUS
  <1> DEFINE more == [i \in 0..(n + 1) |-> IF i = n + 1 THEN After(s, t) ELSE states[i]]
  <1>3. more \in [0..(n + 1) -> ProofStates]
    BY <1>2
  <1>4. more[0] = Theorem /\ more[n + 1] = After(s, t)
    BY <1>1, <1>2
  <1>5. ASSUME NEW i \in 1..(n + 1) PROVE more[i] = After(more[i - 1], longer[i])
    <2>1. CASE i = n + 1
      <3>1. more[i - 1] = s /\ more[i] = After(s, t)
        BY <1>1, <1>2, <2>1
      <3> QED
        BY <1>2, <2>1, <3>1
    <2>2. CASE i # n + 1
      <3>1. i \in 1..n /\ i - 1 \in 0..n
        BY <1>2, <2>2
      <3>2. more[i] = states[i] /\ more[i - 1] = states[i - 1]
        BY <1>2, <3>1
      <3> QED
        BY <1>1, <1>2, <3>1, <3>2
    <2> QED
      BY <2>1, <2>2
  <1> HIDE DEF more, longer, n
  <1> QED
    BY <1>2, <1>3, <1>4, <1>5 DEF TakesTo, longer

LEMMA AfterState ==
  ASSUME NEW s \in ProofStates, NEW t \in Tactics, After(s, t) # Fails
  PROVE  After(s, t) \in ProofStates
  BY StepsAssumption DEF After

-----------------------------------------------------------------------------
(* The steps.                                                               *)

LEMMA InitHolds == Init => IInv
  <1> SUFFICES ASSUME Init PROVE IInv
    OBVIOUS
  <1> USE DEF Init
  <1>1. Types
    BY RunnerAssumption DEF Types, CallsOf
  <1>2. PathsLead
    BY EmptyPath, RunnerAssumption DEF PathsLead, NoCall
  <1>3. EndsProve /\ ReportedInv
    BY RunnerAssumption DEF EndsProve, StepProofReplays, SuccessProves, Success, ReportedInv
  <1> QED
    BY <1>1, <1>2, <1>3 DEF IInv

\* A loop of agent a returns p for reason why: what must hold of them, if the agent is
\* step-level.
LEMMA ReturnEnds ==
  ASSUME Types, EndsProve, NEW a \in Agents, NEW p \in Codes \cup {None} \cup Seq(Tactics),
         NEW why \in {"proof_found", "text_only", "max_turns", "stopped"},
         phase[a] \in {"ask", "calls"}, LoopReturns(a, p, why), overlapped' = overlapped,
         raised' = raised,
         why = "proof_found" /\ a \in StepLevel \ overlapped => Replays(p)
  PROVE  /\ EndsProve'
         /\ phase' \in [Agents -> {"boot", "ask", "calls", "check", "done"}]
         /\ proof' \in [Agents -> Codes \cup {None} \cup Seq(Tactics)]
         /\ reason' \in [Agents -> {"none", "proof_found", "text_only", "max_turns",
                                    "stopped", "verification_failed", "requires_repl"}]
  <1>1. /\ phase \in [Agents -> {"boot", "ask", "calls", "check", "done"}]
        /\ proof \in [Agents -> Codes \cup {None} \cup Seq(Tactics)]
        /\ reason \in [Agents -> {"none", "proof_found", "text_only", "max_turns",
                                  "stopped", "verification_failed", "requires_repl"}]
    BY DEF Types
  <1>2. /\ phase' = [phase EXCEPT ![a] =
                       IF a \notin StepLevel /\ p # None THEN "check" ELSE "done"]
        /\ proof' = [proof EXCEPT ![a] = p] /\ reason' = [reason EXCEPT ![a] = why]
    BY DEF LoopReturns
  <1>3. ASSUME NEW b \in Agents, b # a
        PROVE  phase'[b] = phase[b] /\ proof'[b] = proof[b] /\ reason'[b] = reason[b]
    BY <1>1, <1>2, <1>3
  <1>4. /\ phase'[a] = IF a \notin StepLevel /\ p # None THEN "check" ELSE "done"
        /\ proof'[a] = p /\ reason'[a] = why
    BY <1>1, <1>2
  <1>5. \A b \in StepLevel : phase'[b] # "check"
    BY <1>3, <1>4, RunnerAssumption DEF EndsProve
  <1>6. \A b \in Agents : phase'[b] \in {"boot", "ask", "calls"} => reason'[b] = "none"
    BY <1>3, <1>4 DEF EndsProve
  <1>7. StepProofReplays'
    BY <1>3, <1>4, RunnerAssumption DEF EndsProve, StepProofReplays, Success
  <1>8. SuccessProves'
    BY <1>3, <1>4 DEF EndsProve, SuccessProves, Success
  <1> QED
    BY <1>1, <1>2, <1>5, <1>6, <1>7, <1>8 DEF EndsProve

\* A step of agent a between two phases of its loop.
LEMMA MoveOn ==
  ASSUME Types, EndsProve, NEW a \in Agents, NEW ph \in {"ask", "calls"},
         phase[a] \in {"boot", "ask", "calls"},
         phase' = [phase EXCEPT ![a] = ph], UNCHANGED <<proof, reason, raised, overlapped>>
  PROVE  EndsProve' /\ phase' \in [Agents -> {"boot", "ask", "calls", "check", "done"}]
  <1>1. phase \in [Agents -> {"boot", "ask", "calls", "check", "done"}]
    BY DEF Types
  <1>2. /\ phase'[a] = ph /\ \A b \in Agents : b # a => phase'[b] = phase[b]
        /\ reason[a] = "none"
    BY <1>1 DEF EndsProve
  <1>3. StepProofReplays'
    BY DEF EndsProve, StepProofReplays, Success
  <1>4. SuccessProves'
    BY <1>2 DEF EndsProve, SuccessProves, Success
  <1> QED
    BY <1>1, <1>2, <1>3, <1>4 DEF EndsProve

\* The agent's own part of the types.
LEMMA AgentTypes ==
  ASSUME Types, NEW a \in Agents
  PROVE  /\ last[a] \in Codes \cup {None} /\ calls[a] \in [Slots -> CallsOf(a)]
         /\ shared[a] \in [state : ProofStates, tactics : Seq(Tactics)]
         /\ phase[a] \in {"boot", "ask", "calls", "check", "done"}
         /\ turn[a] \in 1..MaxTurns
  BY DEF Types

LEMMA BootKeeps == ASSUME IInv, NEW a \in Agents, Boot(a) PROVE IInv'
  <1>1. /\ phase[a] = "boot" /\ phase' = [phase EXCEPT ![a] = "ask"]
        /\ UNCHANGED <<turn, last, calls, shared, proof, reason, winner,
                       raised, overlapped, reported>>
    BY DEF Boot, result, history
  <1>2. EndsProve' /\ phase' \in [Agents -> {"boot", "ask", "calls", "check", "done"}]
    BY <1>1, MoveOn DEF IInv
  <1>3. Types' /\ PathsLead'
    BY <1>1, <1>2 DEF IInv, Types, PathsLead
  <1>4. ReportedInv'
    BY <1>1 DEF IInv, Types, ReportedInv
  <1> QED
    BY <1>2, <1>3, <1>4 DEF IInv

LEMMA BootFailsKeeps == ASSUME IInv, NEW a \in Agents, BootFails(a) PROVE IInv'
  <1>1. /\ phase[a] = "boot" /\ a \in StepLevel
        /\ phase' = [phase EXCEPT ![a] = "done"]
        /\ reason' = [reason EXCEPT ![a] = "requires_repl"]
        /\ UNCHANGED <<turn, last, calls, shared, proof, winner, raised, overlapped, reported>>
    BY DEF BootFails, history
  <1>2. Types' /\ PathsLead'
    BY <1>1 DEF IInv, Types, PathsLead
  <1>3. EndsProve'
    <2>1. \A b \in Agents : b # a => phase'[b] = phase[b] /\ reason'[b] = reason[b]
      BY <1>1 DEF IInv, Types
    <2>2. phase'[a] = "done" /\ reason'[a] = "requires_repl"
      BY <1>1 DEF IInv, Types
    <2>3. StepProofReplays'
      BY <1>1, <2>1, <2>2, RunnerAssumption DEF IInv, EndsProve, StepProofReplays, Success
    <2>4. SuccessProves'
      BY <1>1, <2>1, <2>2 DEF IInv, EndsProve, SuccessProves, Success
    <2> QED
      BY <1>1, <2>1, <2>2, <2>3, <2>4, RunnerAssumption DEF IInv, EndsProve
  <1>4. ReportedInv'
    BY <1>1 DEF IInv, Types, ReportedInv
  <1> QED
    BY <1>2, <1>3, <1>4 DEF IInv

\* Slots that keep what they hold or become empty.
LEMMA EmptiedLead ==
  ASSUME PathsLead, UNCHANGED <<shared, overlapped>>,
         \A b \in Agents : \A s \in Slots : calls'[b][s] \in {NoCall, calls[b][s]}
  PROVE  PathsLead'
  <1> SUFFICES ASSUME NEW b \in StepLevel \ overlapped
               PROVE  /\ TakesTo(shared[b].tactics, shared[b].state)
                      /\ \A s \in Slots : calls'[b][s].status = "proof"
                                        => Replays(calls'[b][s].proof)
    BY DEF PathsLead
  <1>1. b \in Agents
    BY RunnerAssumption
  <1>2. TakesTo(shared[b].tactics, shared[b].state)
    BY DEF PathsLead
  <1>3. ASSUME NEW s \in Slots, calls'[b][s].status = "proof" PROVE Replays(calls'[b][s].proof)
    <2>1. calls'[b][s] = calls[b][s]
      BY <1>1, <1>3 DEF NoCall
    <2> QED
      BY <1>3, <2>1 DEF PathsLead
  <1> QED
    BY <1>2, <1>3

\* A loop that returns without a reported proof; its calls are over.
LEMMA ReturnKeeps ==
  ASSUME IInv, NEW a \in Agents, NEW p \in Codes \cup {None} \cup Seq(Tactics),
         NEW why \in {"proof_found", "text_only", "max_turns", "stopped"},
         phase[a] \in {"ask", "calls"}, LoopReturns(a, p, why),
         last' \in [Agents -> Codes \cup {None}],
         UNCHANGED <<turn, shared, winner, raised, overlapped, reported>>,
         \/ UNCHANGED calls
         \/ calls' = [calls EXCEPT ![a] = [s \in Slots |-> NoCall]],
         why = "proof_found" /\ a \in StepLevel \ overlapped => Replays(p),
         a \in reported => why = "proof_found"
  PROVE  IInv'
  <1>1. /\ EndsProve'
        /\ phase' \in [Agents -> {"boot", "ask", "calls", "check", "done"}]
        /\ proof' \in [Agents -> Codes \cup {None} \cup Seq(Tactics)]
        /\ reason' \in [Agents -> {"none", "proof_found", "text_only", "max_turns",
                                   "stopped", "verification_failed", "requires_repl"}]
    BY ReturnEnds DEF IInv
  <1>2. /\ DOMAIN calls' = Agents
        /\ \A b \in Agents : /\ calls'[b] \in [Slots -> CallsOf(b)]
                             /\ b # a => calls'[b] = calls[b]
                             /\ \A s \in Slots : calls'[b][s] \in {NoCall, calls[b][s]}
    BY DEF IInv, Types, CallsOf
  <1>3. Types'
    BY <1>1, <1>2 DEF IInv, Types
  <1>4. PathsLead'
    BY <1>2, EmptiedLead DEF IInv
  <1>5. ReportedInv'
    <2>1. /\ phase'[a] \in {"check", "done"} /\ reason'[a] = why
          /\ \A b \in Agents : b # a => phase'[b] = phase[b] /\ reason'[b] = reason[b]
      BY DEF LoopReturns, IInv, Types
    <2> SUFFICES ASSUME NEW b \in reported
                 PROVE  \/ phase'[b] = "calls" /\ \E s \in Slots : calls'[b][s].status = "proof"
                        \/ /\ phase'[b] \in {"check", "done"}
                           /\ reason'[b] \in {"proof_found", "verification_failed"}
      BY DEF ReportedInv
    <2>2. b \in Agents
      BY DEF IInv, Types
    <2>3. CASE b = a
      BY <2>1, <2>3
    <2>4. CASE b # a
      BY <1>2, <2>1, <2>2, <2>4 DEF IInv, ReportedInv
    <2> QED
      BY <2>3, <2>4
  <1> QED
    BY <1>1, <1>3, <1>4, <1>5 DEF IInv

\* An agent that asked the LLM has nothing reported yet.
LEMMA AskNothing ==
  ASSUME IInv, NEW a \in Agents, phase[a] = "ask" PROVE a \notin reported
  BY DEF IInv, ReportedInv

LEMMA StopKeeps == ASSUME IInv, NEW a \in Agents, Stop(a) PROVE IInv'
  <1>1. /\ phase[a] = "ask" /\ LoopReturns(a, last[a], "stopped")
        /\ UNCHANGED <<turn, last, calls, shared, winner, raised, overlapped, reported>>
    BY DEF Stop, history
  <1>2. last[a] \in Codes \cup {None} \cup Seq(Tactics) /\ last' \in [Agents -> Codes \cup {None}]
    BY <1>1 DEF IInv, Types
  <1> QED
    BY <1>1, <1>2, AskNothing, ReturnKeeps

\* The next turn, or the end of the loop with a candidate that is no proof.
LEMMA GoesOnKeeps ==
  ASSUME IInv, NEW a \in Agents, NEW c \in Codes \cup {None},
         phase[a] \in {"ask", "calls"}, GoesOn(a, c), a \notin reported,
         last' \in [Agents -> Codes \cup {None}],
         UNCHANGED <<shared, winner, raised, overlapped, reported>>,
         \/ UNCHANGED calls
         \/ calls' = [calls EXCEPT ![a] = [s \in Slots |-> NoCall]]
  PROVE  IInv'
  <1>1. CASE turn[a] < MaxTurns
    <2>1. /\ phase' = [phase EXCEPT ![a] = "ask"] /\ turn' = [turn EXCEPT ![a] = @ + 1]
          /\ UNCHANGED <<proof, reason>>
      BY <1>1 DEF GoesOn
    <2>2. EndsProve' /\ phase' \in [Agents -> {"boot", "ask", "calls", "check", "done"}]
      BY <2>1, MoveOn DEF IInv
    <2>3. turn' \in [Agents -> 1..MaxTurns]
      <3>1. turn[a] + 1 \in 1..MaxTurns
        BY <1>1, RunnerAssumption, AgentTypes DEF IInv
      <3> QED
        BY <2>1, <3>1 DEF IInv, Types
    <2>4. /\ DOMAIN calls' = Agents
          /\ \A b \in Agents : /\ calls'[b] \in [Slots -> CallsOf(b)]
                               /\ b # a => calls'[b] = calls[b]
                               /\ \A s \in Slots : calls'[b][s] \in {NoCall, calls[b][s]}
      BY DEF IInv, Types, CallsOf
    <2>5. Types'
      BY <2>1, <2>2, <2>3, <2>4 DEF IInv, Types
    <2>6. PathsLead'
      BY <2>4, EmptiedLead DEF IInv
    <2>7. ReportedInv'
      <3>1. \A b \in reported : b \in Agents /\ b # a
        BY DEF IInv, Types
      <3>2. \A b \in reported : /\ phase'[b] = phase[b] /\ reason'[b] = reason[b]
                                /\ calls'[b] = calls[b]
        BY <2>1, <2>4, <3>1 DEF IInv, Types
      <3> QED
        BY <3>2 DEF IInv, ReportedInv
    <2> QED
      BY <2>2, <2>5, <2>6, <2>7 DEF IInv
  <1>2. CASE ~(turn[a] < MaxTurns)
    <2>1. LoopReturns(a, c, "max_turns") /\ UNCHANGED turn
      BY <1>2 DEF GoesOn
    <2> QED
      BY <2>1, ReturnKeeps
  <1> QED
    BY <1>1, <1>2

LEMMA AnswerTextKeeps == ASSUME IInv, NEW a \in Agents, AnswerText(a) PROVE IInv'
  <1>1. PICK c \in Codes \cup {None} :
          /\ last' = [last EXCEPT ![a] = Noted(a, c)]
          /\ IF a \notin StepLevel /\ c \in Clean
             THEN LoopReturns(a, c, "proof_found") /\ UNCHANGED turn
             ELSE IF a \in StopOnText
             THEN LoopReturns(a, Noted(a, c), "text_only") /\ UNCHANGED turn
             ELSE GoesOn(a, Noted(a, c))
    BY DEF AnswerText
  <1>2. /\ phase[a] = "ask" /\ a \notin reported
        /\ UNCHANGED <<calls, shared, winner, raised, overlapped, reported>>
    BY AskNothing DEF AnswerText, history
  <1>3. Noted(a, c) \in Codes \cup {None} /\ last' \in [Agents -> Codes \cup {None}]
    BY <1>1 DEF Noted, IInv, Types
  <1>4. CASE a \notin StepLevel /\ c \in Clean
    BY <1>1, <1>2, <1>3, <1>4, ReturnKeeps
  <1>5. CASE ~(a \notin StepLevel /\ c \in Clean) /\ a \in StopOnText
    BY <1>1, <1>2, <1>3, <1>5, ReturnKeeps
  <1>6. CASE ~(a \notin StepLevel /\ c \in Clean) /\ a \notin StopOnText
    BY <1>1, <1>2, <1>3, <1>6, GoesOnKeeps
  <1> QED
    BY <1>4, <1>5, <1>6

LEMMA AnswerCallsKeeps == ASSUME IInv, NEW a \in Agents, AnswerCalls(a) PROVE IInv'
  <1>1. PICK c \in Codes \cup {None}, asked \in [Slots -> Asked(a)] :
          last' = [last EXCEPT ![a] = Noted(a, c)] /\ calls' = [calls EXCEPT ![a] = asked]
    BY DEF AnswerCalls
  <1>2. /\ phase[a] = "ask" /\ a \notin reported /\ phase' = [phase EXCEPT ![a] = "calls"]
        /\ UNCHANGED <<turn, shared, proof, reason, winner, raised, overlapped, reported>>
    BY AskNothing DEF AnswerCalls, result, history
  <1>3. EndsProve' /\ phase' \in [Agents -> {"boot", "ask", "calls", "check", "done"}]
    BY <1>2, MoveOn DEF IInv
  <1>4. Asked(a) \subseteq CallsOf(a) /\ \A call \in Asked(a) : call.status # "proof"
    <2>1. shared[a].state \in ProofStates
      BY AgentTypes DEF IInv
    <2> QED
      BY <2>1 DEF Asked, CallsOf, Verify, Tactic, VerifyCalls, TacticCalls, NoCall
  <1>5. /\ DOMAIN calls' = Agents /\ \A b \in Agents : calls'[b] \in [Slots -> CallsOf(b)]
        /\ \A b \in Agents : b # a => calls'[b] = calls[b]
        /\ \A s \in Slots : calls'[a][s].status # "proof"
    BY <1>1, <1>4 DEF IInv, Types
  <1>6. Noted(a, c) \in Codes \cup {None} /\ last' \in [Agents -> Codes \cup {None}]
    BY <1>1 DEF Noted, IInv, Types
  <1>7. Types'
    BY <1>2, <1>3, <1>5, <1>6 DEF IInv, Types
  <1>8. PathsLead'
    BY <1>2, <1>5, RunnerAssumption DEF IInv, PathsLead
  <1>9. ReportedInv'
    <2>1. \A b \in reported : b \in Agents /\ b # a
      BY <1>2 DEF IInv, Types
    <2>2. \A b \in reported : /\ phase'[b] = phase[b] /\ reason'[b] = reason[b]
                              /\ calls'[b] = calls[b]
      BY <1>2, <1>5, <2>1 DEF IInv, Types
    <2> QED
      BY <1>2, <2>2 DEF IInv, ReportedInv
  <1> QED
    BY <1>3, <1>7, <1>8, <1>9 DEF IInv

\* The result of a call is stored in its slot.
Stored(a, s, answer) == calls' = [calls EXCEPT ![a] = [@ EXCEPT ![s] = answer]]

LEMMA SlotStored ==
  ASSUME Types, NEW a \in Agents, NEW s \in Slots, NEW answer \in CallsOf(a),
         Stored(a, s, answer)
  PROVE  /\ DOMAIN calls' = Agents /\ \A b \in Agents : calls'[b] \in [Slots -> CallsOf(b)]
         /\ calls'[a][s] = answer
         /\ \A b \in Agents : \A r \in Slots :
              b # a \/ r # s => calls'[b][r] = calls[b][r]
  <1> DEFINE row == [calls[a] EXCEPT ![s] = answer]
  <1>1. DOMAIN calls = Agents /\ \A b \in Agents : calls[b] \in [Slots -> CallsOf(b)]
    BY DEF Types
  <1>2. calls' = [calls EXCEPT ![a] = row]
    BY DEF Stored
  <1>3. row \in [Slots -> CallsOf(a)] /\ row[s] = answer
        /\ \A r \in Slots : r # s => row[r] = calls[a][r]
    BY <1>1
  <1> HIDE DEF row
  <1>4. DOMAIN calls' = Agents /\ calls'[a] = row
        /\ \A b \in Agents : b # a => calls'[b] = calls[b]
    BY <1>1, <1>2
  <1> QED
    BY <1>1, <1>3, <1>4

\* An agent whose reported proof is in another slot, or in this one.
LEMMA SlotReported ==
  ASSUME Types, ReportedInv, NEW a \in Agents, NEW s \in Slots, NEW answer \in CallsOf(a),
         phase[a] = "calls", calls[a][s].status # "proof", Stored(a, s, answer),
         UNCHANGED <<phase, reason>>,
         reported' \in {reported, reported \cup {a}},
         reported' # reported => answer.status = "proof"
  PROVE  ReportedInv'
  <1>1. /\ calls'[a][s] = answer
        /\ \A b \in Agents : \A r \in Slots :
             b # a \/ r # s => calls'[b][r] = calls[b][r]
    BY SlotStored
  <1> SUFFICES ASSUME NEW b \in reported'
               PROVE  \/ phase[b] = "calls" /\ \E r \in Slots : calls'[b][r].status = "proof"
                      \/ /\ phase[b] \in {"check", "done"}
                         /\ reason[b] \in {"proof_found", "verification_failed"}
    BY DEF ReportedInv
  <1>2. CASE b \in reported
    <2>1. b \in Agents
      BY <1>2 DEF Types
    <2>2. CASE phase[b] = "calls"
      <3>1. PICK r \in Slots : calls[b][r].status = "proof"
        BY <1>2, <2>2 DEF ReportedInv
      <3>2. b # a \/ r # s
        BY <3>1
      <3>3. calls'[b][r] = calls[b][r]
        BY <1>1, <2>1, <3>2
      <3> QED
        BY <2>2, <3>1, <3>3
    <2>3. CASE phase[b] # "calls"
      BY <1>2, <2>3 DEF ReportedInv
    <2> QED
      BY <2>2, <2>3
  <1>3. CASE b \notin reported
    BY <1>1, <1>3
  <1> QED
    BY <1>2, <1>3

LEMMA VerifiedKeeps ==
  ASSUME IInv, NEW a \in Agents, NEW s \in Slots, Verified(a, s) PROVE IInv'
  <1>1. PICK answer \in {Refused} \cup {ProofOf(c) : c \in {calls[a][s].code}
                                                \cap {c \in Codes : VerifyAccepts(c)}} :
          /\ Stored(a, s, answer)
          /\ reported' = IF answer # Refused THEN reported \cup {a} ELSE reported
    BY DEF Verified, Stored
  <1>2. /\ phase[a] = "calls" /\ calls[a][s].status = "verify"
        /\ UNCHANGED <<phase, turn, last, shared, proof, reason, winner, raised, overlapped>>
    BY DEF Verified, result
  <1>3. a \notin StepLevel
    BY <1>2, AgentTypes DEF IInv, CallsOf, TacticCalls, PathProofs, NoCall, Refused
  <1>4. answer = Refused \/ \E c \in Codes : answer = ProofOf(c)
    BY <1>1
  <1>5. answer \in CallsOf(a) /\ (answer # Refused => answer.status = "proof")
    BY <1>3, <1>4 DEF CallsOf, CodeProofs, ProofOf
  <1>6. /\ DOMAIN calls' = Agents /\ \A b \in Agents : calls'[b] \in [Slots -> CallsOf(b)]
        /\ \A b \in Agents : \A r \in Slots : b # a => calls'[b][r] = calls[b][r]
    BY <1>1, <1>5, SlotStored DEF IInv
  <1>7. Types'
    BY <1>1, <1>2, <1>6 DEF IInv, Types
  <1>8. PathsLead'
    BY <1>2, <1>3, <1>6, RunnerAssumption DEF IInv, PathsLead
  <1>9. EndsProve'
    BY <1>2 DEF IInv, EndsProve, StepProofReplays, SuccessProves, Success
  <1>10. ReportedInv'
    BY <1>1, <1>2, <1>5, SlotReported DEF IInv
  <1> QED
    BY <1>7, <1>8, <1>9, <1>10 DEF IInv

LEMMA TacticFailsKeeps ==
  ASSUME IInv, NEW a \in Agents, NEW s \in Slots, TacticFails(a, s) PROVE IInv'
  <1>1. /\ phase[a] = "calls" /\ calls[a][s].status = "tactic"
        /\ Stored(a, s, Refused)
        /\ UNCHANGED <<phase, turn, last, shared, proof, reason, winner,
                       raised, overlapped, reported>>
    BY DEF TacticFails, Stored, result, history
  <1>2. Refused \in CallsOf(a) /\ Refused.status = "refused"
    BY DEF CallsOf, Refused
  <1>3. /\ DOMAIN calls' = Agents /\ \A b \in Agents : calls'[b] \in [Slots -> CallsOf(b)]
        /\ calls'[a][s] = Refused
        /\ \A b \in Agents : \A r \in Slots :
             b # a \/ r # s => calls'[b][r] = calls[b][r]
    BY <1>1, <1>2, SlotStored DEF IInv
  <1>4. Types'
    BY <1>1, <1>3 DEF IInv, Types
  <1>5. PathsLead'
    <2> SUFFICES ASSUME NEW b \in StepLevel \ overlapped
                 PROVE  /\ TakesTo(shared[b].tactics, shared[b].state)
                        /\ \A r \in Slots : calls'[b][r].status = "proof"
                                          => Replays(calls'[b][r].proof)
      BY <1>1 DEF PathsLead
    <2>1. b \in Agents
      BY RunnerAssumption
    <2>2. ASSUME NEW r \in Slots, calls'[b][r].status = "proof"
          PROVE  Replays(calls'[b][r].proof)
      <3>1. calls'[b][r] = calls[b][r]
        BY <1>2, <1>3, <2>1, <2>2
      <3> QED
        BY <2>2, <3>1 DEF IInv, PathsLead
    <2> QED
      BY <2>2 DEF IInv, PathsLead
  <1>6. EndsProve'
    BY <1>1 DEF IInv, EndsProve, StepProofReplays, SuccessProves, Success
  <1>7. ReportedInv'
    BY <1>1, <1>2, SlotReported DEF IInv
  <1> QED
    BY <1>4, <1>5, <1>6, <1>7 DEF IInv

\* A tactic sent to the state the agent is still in lengthens the path by one step, and
\* one sent to an earlier state makes the agent one of the overlapped.
LEMMA TacticAppliedKeeps ==
  ASSUME IInv, NEW a \in Agents, NEW s \in Slots, TacticApplied(a, s) PROVE IInv'
  <1> DEFINE call == calls[a][s]
             state == After(call.from, call.tactic)
             path == Append(shared[a].tactics, call.tactic)
  <1>1. /\ phase[a] = "calls" /\ call.status = "tactic" /\ state # Fails
        /\ shared' = [shared EXCEPT ![a] =
                        [state |-> state, tactics |-> Append(@.tactics, call.tactic)]]
        /\ overlapped' = IF call.from # shared[a].state THEN overlapped \cup {a}
                         ELSE overlapped
        /\ UNCHANGED <<phase, turn, last, proof, reason, winner, raised>>
    BY DEF TacticApplied, result
  <1>2. PICK answer \in {Refused} \cup (IF Complete(state) THEN {ProofOf(path)} ELSE {}) :
          /\ Stored(a, s, answer)
          /\ reported' = IF answer # Refused THEN reported \cup {a} ELSE reported
    BY DEF TacticApplied, PathAfter, Stored
  <1>3. a \in StepLevel /\ call \in TacticCalls
    BY <1>1, AgentTypes
      DEF IInv, CallsOf, VerifyCalls, CodeProofs, PathProofs, NoCall, Refused
  <1>4. /\ call.from \in ProofStates /\ call.tactic \in Tactics
        /\ shared[a].state \in ProofStates /\ shared[a].tactics \in Seq(Tactics)
    BY <1>3, AgentTypes DEF IInv, TacticCalls
  <1>5. state \in ProofStates /\ path \in Seq(Tactics)
    BY <1>1, <1>4, AfterState
  <1>6. call.from = shared[a].state /\ a \notin overlapped => TakesTo(path, state)
    BY <1>3, <1>4, <1>5, LongerPath DEF IInv, PathsLead
  <1> HIDE DEF call, state, path
  <1>7. \/ answer = Refused
        \/ answer = ProofOf(path) /\ Complete(state)
    BY <1>2
  <1>8. answer \in CallsOf(a) /\ (answer # Refused => answer.status = "proof")
    BY <1>3, <1>5, <1>7 DEF CallsOf, PathProofs, ProofOf
  <1>9. /\ DOMAIN calls' = Agents /\ \A b \in Agents : calls'[b] \in [Slots -> CallsOf(b)]
        /\ calls'[a][s] = answer
        /\ \A b \in Agents : \A r \in Slots :
             b # a \/ r # s => calls'[b][r] = calls[b][r]
    BY <1>2, <1>8, SlotStored DEF IInv
  <1>10. /\ shared' \in [Agents -> [state : ProofStates, tactics : Seq(Tactics)]]
         /\ shared'[a].state = state /\ shared'[a].tactics = path
         /\ \A b \in Agents : b # a => shared'[b] = shared[b]
    <2>1. shared' = [shared EXCEPT ![a] = [state |-> state, tactics |-> path]]
      BY <1>1 DEF path
    <2> QED
      BY <1>5, <2>1 DEF IInv, Types
  <1>11. Types'
    BY <1>1, <1>2, <1>9, <1>10 DEF IInv, Types
  <1>12. PathsLead'
    <2> SUFFICES ASSUME NEW b \in StepLevel \ overlapped'
                 PROVE  /\ TakesTo(shared'[b].tactics, shared'[b].state)
                        /\ \A r \in Slots : calls'[b][r].status = "proof"
                                          => Replays(calls'[b][r].proof)
      BY DEF PathsLead
    <2>1. b \in Agents /\ b \notin overlapped
      BY <1>1, RunnerAssumption
    <2>2. /\ TakesTo(shared[b].tactics, shared[b].state)
          /\ \A r \in Slots : calls[b][r].status = "proof" => Replays(calls[b][r].proof)
      BY <2>1 DEF IInv, PathsLead
    <2>3. CASE b # a
      BY <1>9, <1>10, <2>1, <2>2, <2>3
    <2>4. CASE b = a
      <3>1. TakesTo(path, state)
        BY <1>1, <1>6, <2>1, <2>4
      <3>2. ASSUME NEW r \in Slots, calls'[b][r].status = "proof"
            PROVE  Replays(calls'[b][r].proof)
        <4>1. CASE r # s
          BY <1>9, <2>2, <2>4, <3>2, <4>1
        <4>2. CASE r = s
          <5>1. calls'[b][r] = ProofOf(path) /\ Complete(state)
            BY <1>7, <1>9, <2>4, <3>2, <4>2 DEF Refused
          <5>2. calls'[b][r].proof = path
            BY <5>1 DEF ProofOf
          <5> QED
            BY <1>5, <3>1, <5>1, <5>2 DEF Replays
        <4> QED
          BY <4>1, <4>2
      <3> QED
        BY <1>10, <2>4, <3>1, <3>2
    <2> QED
      BY <2>3, <2>4
  <1>13. EndsProve'
    <2>1. StepProofReplays'
      BY <1>1 DEF IInv, EndsProve, StepProofReplays, Success
    <2>2. SuccessProves'
      BY <1>1 DEF IInv, EndsProve, SuccessProves, Success
    <2> QED
      BY <1>1, <2>1, <2>2 DEF IInv, EndsProve
  <1>14. ReportedInv'
    BY <1>1, <1>2, <1>8, SlotReported DEF IInv, call
  <1> QED
    BY <1>11, <1>12, <1>13, <1>14 DEF IInv

LEMMA TurnEndsKeeps == ASSUME IInv, NEW a \in Agents, TurnEnds(a) PROVE IInv'
  <1>1. /\ phase[a] = "calls"
        /\ calls' = [calls EXCEPT ![a] = [s \in Slots |-> NoCall]]
        /\ UNCHANGED <<last, shared, winner, raised, overlapped, reported>>
        /\ last' \in [Agents -> Codes \cup {None}] /\ last[a] \in Codes \cup {None}
    BY DEF TurnEnds, history, IInv, Types
  <1>2. CASE Found(a) # {}
    <2>1. PICK s \in Found(a) : LoopReturns(a, calls[a][s].proof, "proof_found")
      BY <1>2 DEF TurnEnds
    <2>2. UNCHANGED turn
      BY <1>2 DEF TurnEnds
    <2>3. s \in Slots /\ calls[a][s].status = "proof" /\ calls[a][s] \in CallsOf(a)
      BY <2>1, AgentTypes DEF Found, ProofSlots, IInv
    <2>4. calls[a][s].proof \in Codes \cup {None} \cup Seq(Tactics)
      BY <2>3 DEF CallsOf, CodeProofs, PathProofs, VerifyCalls, TacticCalls, NoCall, Refused
    <2>5. a \in StepLevel \ overlapped => Replays(calls[a][s].proof)
      BY <2>3 DEF IInv, PathsLead
    <2> QED
      BY <1>1, <2>1, <2>2, <2>4, <2>5, ReturnKeeps
  <1>3. CASE Found(a) = {}
    <2>1. GoesOn(a, last[a])
      BY <1>3 DEF TurnEnds
    <2>2. a \notin reported
      BY <1>1, <1>3 DEF IInv, ReportedInv, Found, ProofSlots
    <2> QED
      BY <1>1, <2>1, <2>2, GoesOnKeeps
  <1> QED
    BY <1>2, <1>3

\* The runner is through with the code of a whole-proof agent.
LEMMA CheckedKeeps == ASSUME IInv, NEW a \in Agents, Checked(a) PROVE IInv'
  <1>1. /\ phase[a] = "check" /\ phase' = [phase EXCEPT ![a] = "done"]
        /\ UNCHANGED <<turn, last, calls, shared, winner, overlapped, reported>>
    BY DEF Checked, AutoVerified, AutoRejected, AutoRaises, result, history
  <1>2. \/ /\ Proves(proof[a]) /\ reason' = [reason EXCEPT ![a] = "proof_found"]
           /\ UNCHANGED <<proof, raised>>
        \/ /\ reason' = [reason EXCEPT ![a] = "verification_failed"]
           /\ proof' = [proof EXCEPT ![a] = None] /\ UNCHANGED raised
        \/ raised' = raised \cup {a} /\ UNCHANGED <<proof, reason>>
    BY DEF Checked, AutoVerified, AutoRejected, AutoRaises, result, history
  <1>3. /\ phase \in [Agents -> {"boot", "ask", "calls", "check", "done"}]
        /\ proof \in [Agents -> Codes \cup {None} \cup Seq(Tactics)]
        /\ reason \in [Agents -> {"none", "proof_found", "text_only", "max_turns",
                                  "stopped", "verification_failed", "requires_repl"}]
        /\ raised \subseteq Agents /\ a \notin StepLevel
    BY <1>1 DEF IInv, Types, EndsProve
  <1>4. /\ phase' \in [Agents -> {"boot", "ask", "calls", "check", "done"}]
        /\ phase'[a] = "done" /\ \A b \in Agents : b # a => phase'[b] = phase[b]
    BY <1>1, <1>3
  <1>5. /\ proof' \in [Agents -> Codes \cup {None} \cup Seq(Tactics)]
        /\ reason' \in [Agents -> {"none", "proof_found", "text_only", "max_turns",
                                   "stopped", "verification_failed", "requires_repl"}]
        /\ raised' \subseteq Agents /\ raised \subseteq raised'
        /\ \A b \in Agents : b # a => /\ proof'[b] = proof[b] /\ reason'[b] = reason[b]
                                      /\ b \in raised' => b \in raised
    BY <1>2, <1>3
  <1>6. /\ reason'[a] \in {reason[a], "proof_found", "verification_failed"}
        /\ Success(a)' => Proves(proof'[a]) \/ a \in raised'
    BY <1>2, <1>3 DEF Success
  <1>7. Types' /\ PathsLead'
    BY <1>1, <1>4, <1>5 DEF IInv, Types, PathsLead
  <1>8. EndsProve'
    <2>1. StepProofReplays'
      BY <1>1, <1>3, <1>5, RunnerAssumption DEF IInv, EndsProve, StepProofReplays, Success
    <2>2. SuccessProves'
      BY <1>4, <1>5, <1>6 DEF IInv, EndsProve, SuccessProves, Success
    <2>3. \A b \in StepLevel : phase'[b] # "check"
      BY <1>4, RunnerAssumption DEF IInv, EndsProve
    <2>4. \A b \in Agents : phase'[b] \in {"boot", "ask", "calls"} => reason'[b] = "none"
      BY <1>4, <1>5 DEF IInv, EndsProve
    <2> QED
      BY <2>1, <2>2, <2>3, <2>4 DEF EndsProve
  <1>9. ReportedInv'
    <2> SUFFICES ASSUME NEW b \in reported
                 PROVE  \/ phase'[b] = "calls" /\ \E r \in Slots : calls[b][r].status = "proof"
                        \/ /\ phase'[b] \in {"check", "done"}
                           /\ reason'[b] \in {"proof_found", "verification_failed"}
      BY <1>1 DEF ReportedInv
    <2>1. b \in Agents
      BY DEF IInv, Types
    <2>2. CASE b # a
      BY <1>4, <1>5, <2>1, <2>2 DEF IInv, ReportedInv
    <2>3. CASE b = a
      BY <1>1, <1>4, <1>6, <2>3 DEF IInv, ReportedInv
    <2> QED
      BY <2>2, <2>3
  <1> QED
    BY <1>7, <1>8, <1>9 DEF IInv

LEMMA ReportKeeps == ASSUME IInv, Report PROVE IInv'
  <1>1. /\ winner' \in Candidates
        /\ UNCHANGED <<phase, turn, last, calls, shared, proof, reason,
                       raised, overlapped, reported>>
    BY DEF Report, loop, history
  <1>2. Candidates \subseteq Agents
    BY DEF Candidates
  <1>3. Types'
    BY <1>1, <1>2 DEF IInv, Types
  <1>4. PathsLead' /\ ReportedInv'
    BY <1>1 DEF IInv, PathsLead, ReportedInv
  <1>5. StepProofReplays' /\ SuccessProves'
    BY <1>1 DEF IInv, EndsProve, StepProofReplays, SuccessProves, Success
  <1> QED
    BY <1>1, <1>3, <1>4, <1>5 DEF IInv, EndsProve

LEMMA StutterKeeps == ASSUME IInv, UNCHANGED vars PROVE IInv'
  <1> USE DEF vars, loop, result, history
  <1>1. Types' /\ PathsLead' /\ ReportedInv'
    BY DEF IInv, Types, PathsLead, ReportedInv
  <1>2. EndsProve'
    BY DEF IInv, EndsProve, StepProofReplays, SuccessProves, Success
  <1> QED
    BY <1>1, <1>2 DEF IInv

LEMMA StepHolds == IInv /\ [Next]_vars => IInv'
  <1> SUFFICES ASSUME IInv, [Next]_vars PROVE IInv'
    OBVIOUS
  <1>1. CASE Report
    BY <1>1, ReportKeeps
  <1>2. ASSUME NEW a \in Agents, Boot(a) \/ BootFails(a) \/ Answer(a) PROVE IInv'
    BY <1>2, BootKeeps, BootFailsKeeps, StopKeeps, AnswerTextKeeps, AnswerCallsKeeps DEF Answer
  <1>3. ASSUME NEW a \in Agents, CallEnds(a) PROVE IInv'
    BY <1>3, VerifiedKeeps, TacticFailsKeeps, TacticAppliedKeeps DEF CallEnds
  <1>4. ASSUME NEW a \in Agents, TurnEnds(a) \/ Checked(a) PROVE IInv'
    BY <1>4, TurnEndsKeeps, CheckedKeeps
  <1>5. CASE UNCHANGED vars
    BY <1>5, StutterKeeps
  <1> QED
    BY <1>1, <1>2, <1>3, <1>4, <1>5 DEF Next

\* The strengthening is an invariant: while no calls of an agent overlapped its tactics
\* lead to the state it is in, and a reported proof is in a slot or in the result.
THEOREM Inductive == Spec => []IInv
  BY InitHolds, StepHolds, PTL DEF Spec

\* Whatever the codes, the tactics and the number of profiles, turns and calls in a
\* message: what a run reports as proved is a proof, with the exceptions that
\* SuccessProves and StepProofReplays name.
THEOREM ReportsHold == Spec => []ReportsProve
  <1>1. IInv => TypeOK
    BY DEF IInv, Types, TypeOK, CallsOf, VerifyCalls, TacticCalls, CodeProofs, PathProofs,
           NoCall, Refused
  <1>2. IInv => ReportsProve
    BY <1>1 DEF ReportsProve, IInv, EndsProve
  <1> QED
    BY <1>2, Inductive, PTL

\* A proof that a tool reported ends the loop as a success or by the runner's verdict.
THEOREM ReportEnds == Spec => []ReportEndsLoop
  <1>1. IInv => ReportEndsLoop
    BY DEF IInv, ReportedInv, ReportEndsLoop
  <1> QED
    BY <1>1, Inductive, PTL

-----------------------------------------------------------------------------
(***************************************************************************)
(* The search of run_mcts_eval.py and its LeanREPL (MctsSearch, LeanRepl).  *)
(***************************************************************************)

\* A set of numbers that is not empty has a least one: the form in which the proofs
\* use induction.
LEMMA LeastNumber ==
  ASSUME NEW S, S \subseteq Nat, S # {}
  PROVE  \E m \in S : \A n \in S : m <= n
  <1>1. PICK m \in S : \A n \in S : <<n, m>> \notin OpToRel(<, Nat)
    BY WFMin, NatLessThanWellFounded, Zenon
  <1>2. \A n \in S : n \in Nat /\ ~(n < m)
    BY <1>1, Zenon DEF OpToRel
  <1>3. \A n \in S : m <= n
    BY <1>2
  <1> QED
    BY <1>3

\* f starts at base and takes a step from each number to the next.
Computes(f, N, base, step) ==
  f = [n \in 0..N |-> IF n = 0 THEN base ELSE step[n][f[n - 1]]]

\* A function defined by recursion on 0..N exists.
LEMMA RecursionExists ==
  ASSUME NEW N \in Nat, NEW V, NEW base \in V, NEW step, \A n \in 1..N : step[n] \in [V -> V]
  PROVE  \E f \in [0..N -> V] : Computes(f, N, base, step)
  <1> DEFINE Rec(f, k) == Computes(f, k, base, step)
             Bad == {k \in 0..N : ~\E f \in [0..k -> V] : Rec(f, k)}
  <1> SUFFICES ASSUME Bad # {} PROVE FALSE
    <2>1. ASSUME Bad = {} PROVE \E f \in [0..N -> V] : Rec(f, N)
      <3>1. N \in 0..N /\ N \notin Bad
        BY <2>1
      <3> HIDE DEF Rec
      <3> QED
        BY <3>1
    <2> QED
      BY <2>1
  <1> USE DEF Computes
  <1>1. PICK m \in Bad : \A k \in Bad : m <= k
    <2>1. Bad \subseteq Nat
      OBVIOUS
    <2> HIDE DEF Bad
    <2> QED
      BY <2>1, LeastNumber
  <1>2. m \in 0..N /\ ~\E f \in [0..m -> V] : Rec(f, m)
    OBVIOUS
  <1>3. m # 0
    <2> SUFFICES ASSUME m = 0 PROVE FALSE
      OBVIOUS
    <2> DEFINE g == [n \in 0..0 |-> base]
    <2>1. g \in [0..0 -> V] /\ \A n \in 0..0 : n = 0
      OBVIOUS
    <2>2. g = [n \in 0..0 |-> IF n = 0 THEN base ELSE step[n][g[n - 1]]]
      BY <2>1
    <2> HIDE DEF g
    <2> QED
      BY <1>2, <2>1, <2>2
  <1>4. m - 1 \in 0..N /\ m - 1 \notin Bad
    <2>1. m - 1 \in 0..N /\ ~(m <= m - 1)
      BY <1>2, <1>3
    <2> HIDE DEF Bad
    <2> QED
      BY <1>1, <2>1
  <1>5. PICK f \in [0..(m - 1) -> V] : Rec(f, m - 1)
    BY <1>4
  <1> DEFINE newest == step[m][f[m - 1]]
             g == [n \in 0..m |-> IF n = m THEN newest ELSE f[n]]
  <1>6. newest \in V
    BY <1>2, <1>3, <1>4
  <1>7. g \in [0..m -> V]
    <2> HIDE DEF newest
    <2> QED
      BY <1>2, <1>6
  <1>8. \A n \in 0..m : g[n] = IF n = 0 THEN base ELSE step[n][g[n - 1]]
    <2> TAKE n \in 0..m
    <2>1. n # 0 => g[n - 1] = f[n - 1]
      BY <1>2
    <2>2. CASE n = m
      BY <1>3, <2>1, <2>2
    <2>3. CASE n # m
      <3>1. n \in 0..(m - 1)
        BY <1>2, <2>3
      <3>2. f[n] = IF n = 0 THEN base ELSE step[n][f[n - 1]]
        BY <1>5, <3>1
      <3> QED
        BY <2>1, <2>3, <3>2
    <2> QED
      BY <2>2, <2>3
  <1>9. Rec(g, m)
    <2> HIDE DEF newest
    <2>1. g = [n \in 0..m |-> g[n]]
      OBVIOUS
    <2> HIDE DEF g
    <2> QED
      BY <1>8, <2>1
  <1> HIDE DEF g, Rec
  <1> QED
    BY <1>2, <1>7, <1>9

\* What is computed by recursion from one value of V to the next is in V.
LEMMA RecursionStays ==
  ASSUME NEW N \in Nat, NEW V, NEW f, f[0] \in V,
         \A n \in 1..N : f[n - 1] \in V => f[n] \in V
  PROVE  \A n \in 0..N : f[n] \in V
  <1> DEFINE Bad == {n \in 0..N : f[n] \notin V}
  <1> SUFFICES ASSUME Bad # {} PROVE FALSE
    OBVIOUS
  <1>1. PICK m \in Bad : \A n \in Bad : m <= n
    <2>1. Bad \subseteq Nat
      OBVIOUS
    <2> HIDE DEF Bad
    <2> QED
      BY <2>1, LeastNumber
  <1>2. m \in 1..N /\ f[m] \notin V
    BY <1>1
  <1>3. m - 1 \in 0..N /\ m - 1 \notin Bad
    <2>1. m - 1 \in 0..N /\ ~(m <= m - 1)
      BY <1>2
    <2> HIDE DEF Bad
    <2> QED
      BY <1>1, <2>1
  <1>4. f[m - 1] \in V
    BY <1>3
  <1> QED
    BY <1>2, <1>4

\* Induction up to N, over a set.
LEMMA UpTo ==
  ASSUME NEW N \in Nat, NEW S, 0 \in S, \A n \in 1..N : n - 1 \in S => n \in S
  PROVE  \A n \in 0..N : n \in S
  <1> DEFINE f == [n \in 0..N |-> n]
  <1>1. f[0] \in S /\ \A n \in 1..N : f[n - 1] \in S => f[n] \in S
    OBVIOUS
  <1>2. \A n \in 0..N : f[n] \in S
    <2> HIDE DEF f
    <2> QED
      BY <1>1, RecursionStays
  <1> QED
    BY <1>2


-----------------------------------------------------------------------------
(* Where a path of tactics leads.                                           *)

States == ProofStates \cup {Fails}


LEMMA AfterTyped ==
  ASSUME NEW s \in States, NEW t \in Tactics
  PROVE  After(s, t) \in States
  <1>1. CASE s = Fails
    BY <1>1 DEF After, States
  <1>2. CASE s # Fails /\ After(s, t) # Fails
    BY <1>2, AfterState DEF States
  <1> QED
    BY <1>1, <1>2 DEF States

FromOf(s, path) ==
  CHOOSE f : f = [i \in 0..Len(path) |-> IF i = 0 THEN s ELSE After(f[i - 1], path[i])]

\* The states on a path.
LEMMA OnPath ==
  ASSUME NEW s \in States, NEW path \in Seq(Tactics)
  PROVE  /\ Reaches(s, path) = FromOf(s, path)[Len(path)]
         /\ FromOf(s, path)[0] = s
         /\ \A i \in 0..Len(path) : FromOf(s, path)[i] \in States
         /\ \A i \in 1..Len(path) : FromOf(s, path)[i] = After(FromOf(s, path)[i - 1], path[i])
  <1> DEFINE k == Len(path)
             step == [i \in 1..k |-> [x \in States |-> After(x, path[i])]]
  <1>0. k \in Nat /\ \A i \in 1..k : path[i] \in Tactics
    OBVIOUS
  <1>1. \A i \in 1..k : step[i] \in [States -> States]
    <2>1. \A i \in 1..k : [x \in States |-> After(x, path[i])] \in [States -> States]
      BY <1>0, AfterTyped
    <2> QED
      BY <2>1
  <1>2. PICK f \in [0..k -> States] : Computes(f, k, s, step)
    <2> HIDE DEF step, k
    <2> QED
      BY <1>0, <1>1, RecursionExists
  <1>3. f = [i \in 0..k |-> IF i = 0 THEN s ELSE After(f[i - 1], path[i])]
    <2>1. ASSUME NEW i \in 0..k, i # 0
          PROVE  step[i][f[i - 1]] = After(f[i - 1], path[i])
      <3>1. i \in 1..k /\ i - 1 \in 0..k
        BY <2>1, <1>0
      <3>2. f[i - 1] \in States
        BY <3>1
      <3> QED
        BY <3>1, <3>2
    <2> HIDE DEF step, k
    <2> QED
      BY <1>2, <2>1 DEF Computes
  <1>4. \E g : g = [i \in 0..k |-> IF i = 0 THEN s ELSE After(g[i - 1], path[i])]
    BY <1>3
  <1> DEFINE P == FromOf(s, path)
  <1>5. P = [i \in 0..k |-> IF i = 0 THEN s ELSE After(P[i - 1], path[i])]
    BY <1>4 DEF FromOf
  <1>6. Reaches(s, path) = P[k]
    BY DEF Reaches, FromOf
  <1> HIDE DEF P, k
  <1>7. \A i \in 0..k : P[i] = IF i = 0 THEN s ELSE After(P[i - 1], path[i])
    BY <1>5, Zenon
  <1>8. P[0] = s
    BY <1>0, <1>7
  <1>9. \A i \in 1..k : P[i] = After(P[i - 1], path[i])
    <2> TAKE i \in 1..k
    <2>1. i \in 0..k /\ i # 0
      BY <1>0
    <2> QED
      BY <1>7, <2>1, Zenon
  <1>10. \A i \in 0..k : P[i] \in States
    <2>1. ASSUME NEW i \in 1..k, P[i - 1] \in States PROVE P[i] \in States
      BY <1>0, <1>9, <2>1, AfterTyped
    <2> QED
      BY <1>0, <1>8, <2>1, RecursionStays
  <1> QED
    BY <1>6, <1>8, <1>9, <1>10 DEF P, k

\* Any function that takes the steps of the path ends where it leads.
LEMMA Followed ==
  ASSUME NEW s \in States, NEW path \in Seq(Tactics), NEW g, g[0] = s,
         \A i \in 1..Len(path) : g[i] = After(g[i - 1], path[i])
  PROVE  Reaches(s, path) = g[Len(path)]
  <1> DEFINE k == Len(path)
             P == FromOf(s, path)
             D == {i \in 0..k : P[i] = g[i]}
  <1>0. k \in Nat
    OBVIOUS
  <1>1. /\ Reaches(s, path) = P[k] /\ P[0] = s
        /\ \A i \in 1..k : P[i] = After(P[i - 1], path[i]) /\ g[i] = After(g[i - 1], path[i])
    BY OnPath
  <1> HIDE DEF P, k
  <1>2. 0 \in D
    BY <1>0, <1>1
  <1>3. ASSUME NEW i \in 1..k, i - 1 \in D PROVE i \in D
    <2>1. P[i - 1] = g[i - 1] /\ i \in 0..k
      BY <1>0, <1>3
    <2> QED
      BY <1>1, <2>1
  <1>4. \A i \in 0..k : i \in D
    <2> HIDE DEF D
    <2> QED
      BY <1>0, <1>2, <1>3, UpTo
  <1>5. k \in D
    <2> HIDE DEF D
    <2> QED
      BY <1>0, <1>4
  <1> QED
    BY <1>1, <1>5 DEF k

LEMMA ReachesTyped ==
  ASSUME NEW s \in States, NEW path \in Seq(Tactics)
  PROVE  Reaches(s, path) \in States
  <1>1. Len(path) \in 0..Len(path)
    OBVIOUS
  <1> QED
    BY <1>1, OnPath

LEMMA ReachesNothing ==
  ASSUME NEW s \in States
  PROVE  <<>> \in Seq(Tactics) /\ Reaches(s, <<>>) = s
  <1>1. <<>> \in Seq(Tactics) /\ Len(<<>>) = 0
    OBVIOUS
  <1> QED
    BY <1>1, OnPath

\* A path that is one tactic longer.
LEMMA ReachesOneMore ==
  ASSUME NEW s \in States, NEW path \in Seq(Tactics), NEW t \in Tactics
  PROVE  Reaches(s, Append(path, t)) = After(Reaches(s, path), t)
  <1> DEFINE k == Len(path)
             more == Append(path, t)
             P == FromOf(s, path)
             g == [i \in 0..(k + 1) |-> IF i = k + 1 THEN After(P[k], t) ELSE P[i]]
  <1>1. /\ k \in Nat /\ more \in Seq(Tactics) /\ Len(more) = k + 1 /\ more[k + 1] = t
        /\ \A i \in 1..k : more[i] = path[i]
    OBVIOUS
  <1>2. /\ Reaches(s, path) = P[k] /\ P[0] = s
        /\ \A i \in 1..k : P[i] = After(P[i - 1], path[i])
    BY OnPath
  <1> HIDE DEF P, k, more
  <1>3. g[0] = s
    BY <1>1, <1>2
  <1>4. ASSUME NEW i \in 1..(k + 1) PROVE g[i] = After(g[i - 1], more[i])
    <2>1. CASE i = k + 1
      <3>1. g[i] = After(P[k], t) /\ g[i - 1] = P[k]
        BY <1>1, <2>1
      <3> QED
        BY <1>1, <2>1, <3>1
    <2>2. CASE i # k + 1
      <3>1. i \in 1..k
        BY <1>1, <2>2
      <3>2. g[i] = P[i] /\ g[i - 1] = P[i - 1]
        BY <1>1, <3>1
      <3> QED
        BY <1>1, <1>2, <3>1, <3>2
    <2> QED
      BY <2>1, <2>2
  <1>5. g[k + 1] = After(P[k], t)
    BY <1>1
  <1> HIDE DEF g
  <1>6. Reaches(s, more) = g[k + 1]
    BY <1>1, <1>3, <1>4, Followed
  <1> QED
    BY <1>2, <1>5, <1>6 DEF more

\* The first tactic of a path, and the rest.
LEMMA ReachesFirst ==
  ASSUME NEW s \in States, NEW path \in Seq(Tactics), path # <<>>
  PROVE  /\ Head(path) \in Tactics /\ Tail(path) \in Seq(Tactics)
         /\ Len(Tail(path)) = Len(path) - 1
         /\ Reaches(s, path) = Reaches(After(s, Head(path)), Tail(path))
  <1> DEFINE k == Len(path)
             rest == Tail(path)
             P == FromOf(s, path)
             g == [i \in 0..(k - 1) |-> P[i + 1]]
  <1>1. /\ k \in Nat /\ k > 0 /\ Head(path) = path[1] /\ Head(path) \in Tactics
        /\ rest \in Seq(Tactics) /\ Len(rest) = k - 1
        /\ \A i \in 1..(k - 1) : rest[i] = path[i + 1]
    OBVIOUS
  <1>2. /\ Reaches(s, path) = P[k] /\ P[0] = s
        /\ \A i \in 1..k : P[i] = After(P[i - 1], path[i])
    BY OnPath
  <1>3. After(s, Head(path)) \in States
    BY <1>1, AfterTyped
  <1> HIDE DEF P, k, rest
  <1>4. P[1] = After(P[0], path[1])
    <2>1. 1 \in 1..k /\ 1 - 1 = 0
      BY <1>1
    <2> QED
      BY <1>2, <2>1
  <1>5. g[0] = After(s, Head(path))
    <2>1. g[0] = P[1]
      BY <1>1
    <2> QED
      BY <1>1, <1>2, <1>4, <2>1
  <1>6. ASSUME NEW i \in 1..(k - 1) PROVE g[i] = After(g[i - 1], rest[i])
    <2>1. i + 1 \in 1..k /\ (i + 1) - 1 = i
      BY <1>1
    <2>2. g[i] = P[i + 1] /\ g[i - 1] = P[i] /\ rest[i] = path[i + 1]
      BY <1>1
    <2> QED
      BY <1>2, <2>1, <2>2
  <1>7. g[k - 1] = P[k]
    BY <1>1
  <1> HIDE DEF g
  <1>8. Reaches(After(s, Head(path)), rest) = g[k - 1]
    BY <1>1, <1>3, <1>5, <1>6, Followed
  <1> QED
    BY <1>1, <1>2, <1>7, <1>8 DEF rest, k

\* Nothing follows a failure.
LEMMA ReachesAfterFailure ==
  ASSUME NEW path \in Seq(Tactics)
  PROVE  Reaches(Fails, path) = Fails
  <1> DEFINE g == [i \in 0..Len(path) |-> Fails]
  <1>0. Len(path) \in Nat /\ 0 \in 0..Len(path) /\ Len(path) \in 0..Len(path)
    OBVIOUS
  <1>1. g[0] = Fails /\ g[Len(path)] = Fails /\ Fails \in States
    BY <1>0 DEF States
  <1>2. ASSUME NEW i \in 1..Len(path) PROVE g[i] = After(g[i - 1], path[i])
    <2>1. i \in 0..Len(path) /\ i - 1 \in 0..Len(path)
      BY <1>0
    <2>2. g[i] = Fails /\ g[i - 1] = Fails
      BY <2>1
    <2> QED
      BY <2>2 DEF After
  <1> HIDE DEF g
  <1> QED
    BY <1>1, <1>2, Followed

-----------------------------------------------------------------------------
(* LeanREPL.                                                                *)

Behinds == Preambles \cup {Bare}
Sayings == [says : {"fine", "error"}] \cup [says : {"open"}, state : States]
LateSpace == [env : Nat, answer : Sayings]
Requests == [what : {"preamble", "whole", "prefix"}, problem : Problems,
             path : Seq(Tactics), env : Nat \cup {NoEnv}]
Replies == [what : {"failure", "blank", "complete"}] \cup [what : {"open"}, state : States]

\* The environments that are named are those of the process.
ProcessTypes ==
  /\ envs \in Seq(Behinds) /\ late \in Seq(LateSpace)
  /\ \A i \in 1..Len(late) : late[i].env < Len(envs)
  /\ known \subseteq 0..(Len(envs) - 1)
  /\ faults \in Nat

ReplTypes ==
  /\ ProcessTypes
  /\ cached \in [Preambles -> Nat \cup {NoEnv}]
  /\ ask \in Requests \cup {Quiet} /\ reply \in Replies \cup {Quiet}

\* The first process of a LeanREPL, on which nothing was given up.
ProcessClean == ~shifted /\ ~replaced

\* Nothing went wrong.
Sure == faults = 0 /\ life = "up"

\* While the process is clean every answer is the one to its request, and the number kept
\* for a preamble is that of an environment made with it.
Accounted ==
  ProcessClean =>
    /\ late = <<>>
    /\ \A p \in Preambles : cached[p] # NoEnv => cached[p] \in known /\ envs[cached[p] + 1] = p

Root(p, env) == RootIn[p, env]

LEMMA RootTyped ==
  ASSUME NEW p \in Problems, NEW env \in Behinds
  PROVE  Root(p, env) \in States
  <1>1. RootIn \in [Problems \X Behinds -> States]
    BY ReplAssumption DEF Behinds, States
  <1>2. RootIn[p, env] \in States
    BY <1>1, Zenon
  <1> QED
    BY <1>2, Zenon DEF Root

\* What Lean says of a theorem.
LEMMA SaysOf ==
  ASSUME NEW r \in Requests, NEW env \in Behinds, r.what \in {"whole", "prefix"}
  PROVE  LET s == Reaches(Root(r.problem, env), r.path)
         IN /\ s \in States
            /\ r.what = "whole" /\ Complete(s) => Says(r, env) = [says |-> "fine"]
            /\ r.what = "whole" /\ ~Complete(s) => Says(r, env) = [says |-> "error"]
            /\ r.what = "prefix" /\ (s = Fails \/ Complete(s)) => Says(r, env) = [says |-> "error"]
            /\ r.what = "prefix" /\ ~(s = Fails \/ Complete(s)) =>
                 Says(r, env) = [says |-> "open", state |-> s]
  <1> DEFINE s == Reaches(Root(r.problem, env), r.path)
  <1>1. s \in States
    BY RootTyped, ReachesTyped DEF Requests
  <1>2. Says(r, env) =
          IF r.what \in {"preamble", "beat"} THEN [says |-> "fine"]
          ELSE CASE r.what = "whole" /\ Complete(s) -> [says |-> "fine"]
                 [] r.what = "prefix" /\ s # Fails /\ ~Complete(s) -> [says |-> "open", state |-> s]
                 [] OTHER -> [says |-> "error"]
    BY Zenon DEF Says, Root
  <1> HIDE DEF s
  <1> QED
    BY <1>1, <1>2 DEF s

\* An exchange of a caller or of the heartbeat.
Asks(r) == r \in Requests \/ (r.what = "beat" /\ r.env = 0)

LEMMA SaysTyped ==
  ASSUME ReplTypes, NEW r, Asks(r)
  PROVE  Behind(r) \in Behinds /\ Says(r, Behind(r)) \in Sayings
  <1>1. Behind(r) \in Behinds
    <2>1. ASSUME r.what # "preamble", r.env \in known PROVE envs[r.env + 1] \in Behinds
      <3>1. r.env \in 0..(Len(envs) - 1) /\ envs \in Seq(Behinds)
        BY <2>1 DEF ReplTypes, ProcessTypes
      <3>2. r.env + 1 \in 1..Len(envs)
        BY <3>1
      <3> QED
        BY <3>1, <3>2
    <2>2. r.what = "preamble" => PreambleOf[r.problem] \in Behinds
      BY ReplAssumption DEF Asks, Requests, Behinds
    <2> QED
      BY <2>1, <2>2 DEF Behind, Behinds
  <1>2. CASE r.what \in {"preamble", "beat"}
    <2>1. Says(r, Behind(r)) = [says |-> "fine"]
      BY <1>2, Zenon DEF Says
    <2> QED
      BY <1>1, <2>1 DEF Sayings
  <1>3. CASE r.what \in {"whole", "prefix"}
    <2>1. r \in Requests
      BY <1>3 DEF Asks
    <2> QED
      BY <1>1, <1>3, <2>1, SaysOf DEF Sayings
  <1> QED
    BY <1>2, <1>3 DEF Asks, Requests

\* The environments grow, and the pipe stays empty.
Grows ==
  /\ late = <<>> => late' = <<>>
  /\ known \subseteq known'
  /\ Len(envs) <= Len(envs') /\ \A n \in 1..Len(envs) : envs'[n] = envs[n]

LEMMA PipeRead ==
  ASSUME ReplTypes, NEW r, Asks(r), Elaborates(r),
         late' = Tail(Answers(r)), known' = known \cup {Head(Answers(r)).env}
  PROVE  /\ envs' \in Seq(Behinds) /\ late' \in Seq(LateSpace)
         /\ \A i \in 1..Len(late') : late'[i].env < Len(envs')
         /\ known' \subseteq 0..(Len(envs') - 1)
         /\ Grows
         /\ Head(Answers(r)) \in LateSpace /\ Head(Answers(r)).env \in known'
         /\ late = <<>> => Head(Answers(r)) = [env |-> Len(envs), answer |-> Says(r, Behind(r))]
         /\ envs'[Len(envs) + 1] = Behind(r)
  <1> DEFINE newest == [env |-> Len(envs), answer |-> Says(r, Behind(r))]
             all == Append(late, newest)
  <1>1. /\ envs \in Seq(Behinds) /\ late \in Seq(LateSpace)
        /\ \A i \in 1..Len(late) : late[i].env < Len(envs)
        /\ known \subseteq 0..(Len(envs) - 1)
    BY DEF ReplTypes, ProcessTypes
  <1>2. Behind(r) \in Behinds /\ Says(r, Behind(r)) \in Sayings
    BY SaysTyped
  <1>3. /\ envs' = Append(envs, Behind(r)) /\ Answers(r) = all
    BY DEF Elaborates, Answers
  <1>4. /\ envs' \in Seq(Behinds) /\ Len(envs') = Len(envs) + 1 /\ Len(envs) \in Nat
        /\ envs'[Len(envs) + 1] = Behind(r)
        /\ \A n \in 1..Len(envs) : envs'[n] = envs[n]
    BY <1>1, <1>2, <1>3
  <1>5. newest \in LateSpace /\ newest.env = Len(envs)
    BY <1>2, <1>4 DEF LateSpace
  <1> HIDE DEF newest
  <1>6. /\ all \in Seq(LateSpace) /\ Len(all) = Len(late) + 1 /\ Len(late) \in Nat
        /\ all[Len(late) + 1] = newest
        /\ \A i \in 1..Len(late) : all[i] = late[i]
    BY <1>1, <1>5
  <1>7. \A i \in 1..Len(all) : all[i].env < Len(envs')
    <2> TAKE i \in 1..Len(all)
    <2>1. i \in 1..Len(late) \/ i = Len(late) + 1
      BY <1>6
    <2>2. ASSUME i \in 1..Len(late) PROVE all[i].env < Len(envs')
      <3>1. late[i] \in LateSpace /\ all[i] = late[i]
        BY <1>1, <1>6, <2>2
      <3>2. late[i].env \in Nat /\ late[i].env < Len(envs)
        BY <1>1, <2>2, <3>1 DEF LateSpace
      <3> QED
        BY <1>4, <3>1, <3>2
    <2>3. ASSUME i = Len(late) + 1 PROVE all[i].env < Len(envs')
      BY <1>4, <1>5, <1>6, <2>3
    <2> QED
      BY <2>1, <2>2, <2>3
  <1> HIDE DEF all
  <1>8. /\ Tail(all) \in Seq(LateSpace) /\ Len(Tail(all)) = Len(late)
        /\ \A i \in 1..Len(late) : Tail(all)[i] = all[i + 1]
        /\ Head(all) = all[1] /\ all[1] \in LateSpace
    BY <1>6
  <1>9. \A i \in 1..Len(late') : late'[i].env < Len(envs')
    <2> TAKE i \in 1..Len(late')
    <2>1. i + 1 \in 1..Len(all) /\ late'[i] = all[i + 1]
      BY <1>3, <1>6, <1>8
    <2> QED
      BY <1>7, <2>1
  <1>10. known' \subseteq 0..(Len(envs') - 1)
    <2> DEFINE x == all[1].env
    <2>1. 1 \in 1..Len(all)
      BY <1>6
    <2>2. x \in Nat /\ x < Len(envs')
      BY <1>7, <1>8, <2>1 DEF LateSpace
    <2>3. known' = known \cup {x}
      BY <1>3, <1>8
    <2> HIDE DEF x
    <2>4. x \in 0..(Len(envs') - 1) /\ 0..(Len(envs) - 1) \subseteq 0..(Len(envs') - 1)
      BY <1>4, <2>2
    <2> QED
      BY <1>1, <2>3, <2>4
  <1>11. late = <<>> => late' = <<>> /\ Head(Answers(r)) = newest
    <2>1. ASSUME late = <<>> PROVE late' = <<>> /\ Head(Answers(r)) = newest
      <3>1. Len(late) = 0
        BY <2>1
      <3> QED
        BY <1>3, <1>6, <1>8, <3>1
    <2> QED
      BY <2>1
  <1> QED
    BY <1>3, <1>4, <1>8, <1>9, <1>10, <1>11 DEF Grows, newest

-----------------------------------------------------------------------------
(* What an exchange does to the process.                                    *)

\* A process on which nothing was given up was such a process before, and no fault is
\* forgotten.
Exchanged ==
  /\ ProcessTypes'
  /\ ProcessClean' => ProcessClean /\ Grows
  /\ faults' = 0 => faults = 0 /\ (ProcessClean => ProcessClean')
  /\ Sure' => Sure

LEMMA SameProcess ==
  ASSUME ReplTypes, UNCHANGED <<envs, late, known, shifted, replaced>>,
         faults' \in Nat, faults' = 0 => faults = 0, Sure' => Sure
  PROVE  Exchanged
  <1>1. ProcessTypes'
    BY DEF ReplTypes, ProcessTypes
  <1>2. Grows
    <2>1. Len(envs) <= Len(envs)
      BY DEF ReplTypes, ProcessTypes
    <2> QED
      BY <2>1 DEF Grows
  <1> QED
    BY <1>1, <1>2 DEF Exchanged, ProcessClean

LEMMA ReadExchanged ==
  ASSUME ReplTypes, NEW r, Asks(r), Elaborates(r),
         late' = Tail(Answers(r)), known' = known \cup {Head(Answers(r)).env},
         UNCHANGED <<life, shifted, replaced>>, faults' \in {faults, faults + 1}
  PROVE  Exchanged
  <1>1. faults \in Nat
    BY DEF ReplTypes, ProcessTypes
  <1>2. ProcessTypes' /\ Grows
    BY <1>1, PipeRead DEF ProcessTypes
  <1> QED
    BY <1>1, <1>2 DEF Exchanged, ProcessClean, Sure

LEMMA GivenUpTypes ==
  ASSUME ReplTypes, NEW r, Asks(r), GivenUp(r)
  PROVE  /\ envs' \in Seq(Behinds) /\ late' \in Seq(LateSpace)
         /\ \A i \in 1..Len(late') : late'[i].env < Len(envs')
         /\ known' \subseteq 0..(Len(envs') - 1)
  <1> DEFINE newest == [env |-> Len(envs), answer |-> Says(r, Behind(r))]
  <1>1. /\ envs \in Seq(Behinds) /\ late \in Seq(LateSpace)
        /\ \A i \in 1..Len(late) : late[i].env < Len(envs)
        /\ known \subseteq 0..(Len(envs) - 1)
    BY DEF ReplTypes, ProcessTypes
  <1>2. Behind(r) \in Behinds /\ Says(r, Behind(r)) \in Sayings
    BY SaysTyped
  <1>3. envs' = Append(envs, Behind(r)) /\ late' = Append(late, newest) /\ known' = known
    BY DEF GivenUp, Elaborates, Answers
  <1>4. envs' \in Seq(Behinds) /\ Len(envs') = Len(envs) + 1 /\ Len(envs) \in Nat
    BY <1>1, <1>2, <1>3
  <1>5. newest \in LateSpace /\ newest.env = Len(envs)
    BY <1>2, <1>4 DEF LateSpace
  <1> HIDE DEF newest
  <1>6. /\ late' \in Seq(LateSpace) /\ Len(late') = Len(late) + 1 /\ Len(late) \in Nat
        /\ late'[Len(late) + 1] = newest
        /\ \A i \in 1..Len(late) : late'[i] = late[i]
    BY <1>1, <1>3, <1>5
  <1>7. \A i \in 1..Len(late') : late'[i].env < Len(envs')
    <2> TAKE i \in 1..Len(late')
    <2>1. i \in 1..Len(late) \/ i = Len(late) + 1
      BY <1>6
    <2>2. ASSUME i \in 1..Len(late) PROVE late'[i].env < Len(envs')
      <3>1. late[i] \in LateSpace /\ late'[i] = late[i]
        BY <1>1, <1>6, <2>2
      <3>2. late[i].env \in Nat /\ late[i].env < Len(envs)
        BY <1>1, <2>2, <3>1 DEF LateSpace
      <3> QED
        BY <1>4, <3>1, <3>2
    <2>3. ASSUME i = Len(late) + 1 PROVE late'[i].env < Len(envs')
      BY <1>4, <1>5, <1>6, <2>3
    <2> QED
      BY <2>1, <2>2, <2>3
  <1>8. 0..(Len(envs) - 1) \subseteq 0..(Len(envs') - 1)
    BY <1>4
  <1> QED
    BY <1>1, <1>3, <1>4, <1>6, <1>7, <1>8

LEMMA GivenUpExchanged ==
  ASSUME ReplTypes, NEW r, Asks(r), GivenUp(r), faults' = faults + 1
  PROVE  Exchanged /\ ~Sure'
  <1>1. faults \in Nat
    BY DEF ReplTypes, ProcessTypes
  <1>2. ProcessTypes'
    BY <1>1, GivenUpTypes DEF ProcessTypes
  <1> QED
    BY <1>1, <1>2 DEF Exchanged, ProcessClean, Sure, GivenUp

LEMMA NewProcessExchanged ==
  ASSUME ReplTypes, NewProcess, faults' = faults + 1
  PROVE  Exchanged /\ ~Sure'
  <1>1. faults \in Nat
    BY DEF ReplTypes, ProcessTypes
  <1>2. ProcessTypes'
    <2>1. /\ envs' = <<>> /\ late' = <<>> /\ known' = {} /\ faults' \in Nat
      BY <1>1 DEF NewProcess
    <2>2. Len(late') = 0
      BY <2>1
    <2> QED
      BY <2>1, <2>2 DEF ProcessTypes
  <1> QED
    BY <1>1, <1>2 DEF Exchanged, ProcessClean, Sure, NewProcess

LEMMA DeathExchanged ==
  ASSUME ReplTypes, ProcessDies
  PROVE  Exchanged /\ ~Sure'
  <1>1. faults \in Nat /\ faults' = faults + 1
    BY DEF ReplTypes, ProcessTypes, ProcessDies
  <1>2. CASE NewProcess
    BY <1>1, <1>2, NewProcessExchanged
  <1>3. CASE UNCHANGED <<envs, late, known, restarts, shifted, replaced>>
    <2>1. faults' \in Nat /\ faults' # 0 /\ ~Sure'
      BY <1>1 DEF Sure
    <2> QED
      BY <1>3, <2>1, SameProcess
  <1> QED
    BY <1>2, <1>3 DEF ProcessDies

LEMMA TimeoutExchanged ==
  ASSUME ReplTypes, NEW r, Asks(r), TimedOut(r)
  PROVE  Exchanged /\ ~Sure'
  BY GivenUpExchanged, NewProcessExchanged DEF TimedOut

LEMMA ReplyExchanged ==
  ASSUME ReplTypes, NEW r, Asks(r), Replied(r)
  PROVE  Exchanged
  BY ReadExchanged DEF Replied

LEMMA UnansweredExchanged ==
  ASSUME ReplTypes, NEW r, Asks(r), Unanswered(r)
  PROVE  Exchanged /\ ~Sure'
  <1>0. faults \in Nat
    BY DEF ReplTypes, ProcessTypes
  <1>1. CASE TimedOut(r)
    BY <1>1, TimeoutExchanged
  <1>2. CASE Abandoned(r)
    <2>1. Exchanged
      BY <1>2, ReadExchanged DEF Abandoned
    <2>2. ~Sure'
      BY <1>0, <1>2 DEF Abandoned, Sure
    <2> QED
      BY <2>1, <2>2
  <1>3. CASE Died
    BY <1>3, DeathExchanged DEF Died
  <1>4. CASE NoProcess
    <2>1. UNCHANGED processVars /\ faults' = faults /\ life = "gone"
      BY <1>4 DEF NoProcess
    <2>2. ~Sure' /\ UNCHANGED <<envs, late, known, shifted, replaced>>
      BY <2>1 DEF Sure, processVars
    <2> QED
      BY <1>0, <2>1, <2>2, SameProcess
  <1> QED
    BY <1>1, <1>2, <1>3, <1>4 DEF Unanswered

-----------------------------------------------------------------------------
(* The requests.                                                            *)

\* A request names the environment kept for the preamble of its problem; while nothing
\* went wrong there is one.
RequestOf(r) ==
  r # Quiet =>
    /\ r.env = cached[PreambleOf[r.problem]]
    /\ Sure /\ r.what # "preamble" => r.env # NoEnv

ReplInv ==
  /\ ReplTypes /\ Accounted
  /\ faults = 0 => ProcessClean
  /\ RequestOf(ask)

LEMMA BehindOwn ==
  ASSUME ReplInv, ProcessClean, ask # Quiet, cached[PreambleOf[ask.problem]] # NoEnv,
         ask.what # "preamble"
  PROVE  Behind(ask) = PreambleOf[ask.problem]
  <1>1. ask \in Requests
    BY DEF ReplInv, ReplTypes
  <1>2. PreambleOf[ask.problem] \in Preambles
    BY <1>1, ReplAssumption DEF Requests
  <1>3. ask.env \in known /\ envs[ask.env + 1] = PreambleOf[ask.problem]
    BY <1>2 DEF ReplInv, Accounted, RequestOf
  <1> QED
    BY <1>3 DEF Behind

\* The numbers that are kept stay good as long as the process does.
LEMMA StaysAccounted ==
  ASSUME ReplTypes, Accounted, Exchanged, UNCHANGED cached
  PROVE  Accounted'
  <1> SUFFICES ASSUME ProcessClean'
               PROVE  /\ late' = <<>>
                      /\ \A p \in Preambles : cached'[p] # NoEnv =>
                           cached'[p] \in known' /\ envs'[cached'[p] + 1] = p
    BY Zenon DEF Accounted
  <1>1. Grows /\ late = <<>>
        /\ \A p \in Preambles : cached[p] # NoEnv => cached[p] \in known /\ envs[cached[p] + 1] = p
    BY DEF Exchanged, Accounted
  <1>2. late' = <<>>
    BY <1>1 DEF Grows
  <1>3. ASSUME NEW p \in Preambles, cached'[p] # NoEnv
        PROVE  cached'[p] \in known' /\ envs'[cached'[p] + 1] = p
    <2>1. cached[p] \in known /\ envs[cached[p] + 1] = p
      BY <1>1, <1>3
    <2>2. known \subseteq 0..(Len(envs) - 1) /\ envs \in Seq(Behinds)
      BY DEF ReplTypes, ProcessTypes
    <2>3. cached[p] + 1 \in 1..Len(envs)
      <3>1. cached[p] \in 0..(Len(envs) - 1)
        BY <2>1, <2>2
      <3>2. \A x \in 0..(Len(envs) - 1) : x + 1 \in 1..Len(envs)
        <4>1. Len(envs) \in Nat
          BY <2>2
        <4> QED
          BY <4>1
      <3> QED
        BY ONLY <3>1, <3>2, Zenon
    <2> QED
      BY <1>1, <2>1, <2>3 DEF Grows
  <1> QED
    BY <1>2, <1>3

LEMMA QuietApart ==
  /\ \A r \in Requests : r # Quiet
  /\ \A r \in Replies : r # Quiet
  <1>1. ASSUME NEW r \in Requests PROVE r # Quiet
    <2>1. r.what # "nothing"
      BY DEF Requests
    <2> QED
      BY <2>1 DEF Quiet
  <1>2. ASSUME NEW r \in Replies PROVE r # Quiet
    <2>1. r.what # "nothing"
      BY DEF Replies
    <2> QED
      BY <2>1 DEF Quiet
  <1> QED
    BY <1>1, <1>2

-----------------------------------------------------------------------------
(* The call that is being made.                                             *)

\* The path that is being checked, and where it leads.
Target == IF leaf = 0 THEN <<>> ELSE Append(nodes[leaf].path, Head(nodes[leaf].pending))
GoalOf(p, path) == Reaches(Root(p, PreambleOf[p]), path)
Goal == GoalOf(problem, Target)

StopReasons == {"", "saved", "solved", "root_error", "timeout", "max_nodes"}

\* There is a call, for the path above, only while a search waits for it.
Calling == ask # Quiet \/ reply # Quiet
CallInv ==
  /\ todo \in Seq(Problems) /\ stop \in StopReasons
  /\ stop # "saved" => problem \in Problems
  /\ stop = "saved" => nodes = <<>>
  /\ leaf # 0 => Target \in Seq(Tactics) /\ Target # <<>>
  /\ ask = Quiet \/ reply = Quiet
  /\ Calling => stop = "" /\ (leaf = 0 <=> nodes = <<>>)
  /\ stop = "" => (nodes = <<>> => Calling)
  /\ leaf # 0 => Calling
  /\ ask # Quiet => ask.problem = problem /\ ask.path = Target

\* A theorem without tactics is sent with a "sorry", and so is one whose tactics were
\* not a whole proof.
RequestTrue ==
  ask # Quiet =>
    /\ ask.what = "whole" => Target # <<>>
    /\ Sure /\ ask.what = "prefix" /\ Target # <<>> => ~Complete(Goal)

\* What the reply says is so, as far as nothing went wrong.
ReplyTrue ==
  reply # Quiet =>
    /\ reply.what = "complete" => Target # <<>> /\ (CleanRun => Complete(Goal))
    /\ Sure =>
         /\ reply.what \in {"open", "failure", "complete"}
         /\ reply.what = "complete" => Complete(Goal)
         /\ reply.what = "open" => reply.state = Goal /\ Goal # Fails /\ ~Complete(Goal)
         /\ reply.what = "failure" /\ Target # <<>> => Goal = Fails

CallsInv == ReplInv /\ CallInv /\ RequestTrue /\ ReplyTrue

LEMMA TargetTyped ==
  ASSUME CallInv
  PROVE  Target \in Seq(Tactics)
  <1>1. CASE leaf = 0
    <2>1. <<>> \in Seq(Tactics)
      OBVIOUS
    <2> QED
      BY <1>1, <2>1 DEF Target
  <1> QED
    BY <1>1 DEF CallInv

LEMMA GoalTyped ==
  ASSUME CallInv, stop # "saved"
  PROVE  /\ problem \in Problems /\ PreambleOf[problem] \in Preambles
         /\ Goal \in States
  <1>1. problem \in Problems /\ PreambleOf[problem] \in Preambles
    BY ReplAssumption DEF CallInv
  <1>2. Root(problem, PreambleOf[problem]) \in States
    BY <1>1, RootTyped DEF Behinds
  <1> QED
    BY <1>1, <1>2, TargetTyped, ReachesTyped DEF Goal, GoalOf

\* The call goes on, or has been answered.
LEMMA CallGoesOn ==
  ASSUME CallInv, UNCHANGED searchVars, Calling <=> Calling', ask' = Quiet \/ reply' = Quiet,
         ask' # Quiet => ask'.problem = problem /\ ask'.path = Target
  PROVE  CallInv' /\ Target' = Target /\ Goal' = Goal
  <1>1. Target' = Target /\ Goal' = Goal
    BY DEF searchVars, Target, Goal
  <1> QED
    BY <1>1 DEF CallInv, searchVars

\* Nothing is asked or answered: what is asked and what was answered stay true.
LEMMA CallStays ==
  ASSUME CallsInv, UNCHANGED <<searchVars, ask, reply, cached>>, Exchanged
  PROVE  CallsInv'
  <1>1. CallInv' /\ Target' = Target /\ Goal' = Goal
    BY CallGoesOn DEF CallsInv, CallInv, Calling
  <1>2. Sure' => Sure
    BY DEF Exchanged
  <1>3. CleanRun' => CleanRun
    BY DEF Exchanged, CleanRun, ProcessClean, searchVars
  <1>4. ReplInv'
    <2>1. ReplTypes' /\ Accounted'
      BY StaysAccounted DEF CallsInv, ReplInv, ReplTypes, Exchanged
    <2>2. faults' = 0 => ProcessClean'
      BY DEF CallsInv, ReplInv, Exchanged
    <2>3. RequestOf(ask)'
      BY <1>2 DEF CallsInv, ReplInv, RequestOf
    <2> QED
      BY <2>1, <2>2, <2>3 DEF ReplInv
  <1>5. RequestTrue'
    BY <1>1, <1>2 DEF CallsInv, RequestTrue
  <1>6. ReplyTrue'
    BY <1>1, <1>2, <1>3 DEF CallsInv, ReplyTrue
  <1> QED
    BY <1>1, <1>4, <1>5, <1>6 DEF CallsInv

LEMMA BeatCalls ==
  ASSUME CallsInv, Beat, UNCHANGED searchVars
  PROVE  CallsInv'
  <1> DEFINE request == [what |-> "beat", env |-> 0]
  <1>1. Asks(request) /\ ReplTypes
    BY DEF Asks, CallsInv, ReplInv
  <1>2. Replied(request) \/ TimedOut(request)
    BY DEF Beat
  <1> HIDE DEF request
  <1>3. Exchanged
    BY <1>1, <1>2, ReplyExchanged, TimeoutExchanged
  <1> QED
    BY <1>3, CallStays DEF Beat

LEMMA FoundDeadCalls ==
  ASSUME CallsInv, FoundDead, UNCHANGED searchVars
  PROVE  CallsInv'
  <1>1. Exchanged
    BY DeathExchanged DEF FoundDead, CallsInv, ReplInv
  <1> QED
    BY <1>1, CallStays DEF FoundDead

LEMMA AskIs ==
  ASSUME CallsInv, ask # Quiet
  PROVE  /\ ask \in Requests /\ Asks(ask) /\ ReplTypes
         /\ reply = Quiet /\ stop = "" /\ Calling
         /\ ask.problem = problem /\ ask.path = Target
         /\ problem \in Problems /\ PreambleOf[problem] \in Preambles
         /\ Target \in Seq(Tactics) /\ Goal \in States
  <1>1. ask \in Requests /\ ReplTypes
    BY DEF CallsInv, ReplInv, ReplTypes
  <1>2. CallInv /\ stop # "saved"
    BY DEF CallsInv, CallInv, Calling
  <1> QED
    BY <1>1, <1>2, GoalTyped, TargetTyped DEF CallInv, Asks, Calling

\* An answer that is read while the process is clean is that to the request.
LEMMA OwnAnswer ==
  ASSUME CallsInv, ask # Quiet, ask.what \in {"whole", "prefix"}, Replied(ask),
         ProcessClean', cached[PreambleOf[problem]] # NoEnv
  PROVE  LET says == Head(Answers(ask)).answer
         IN /\ ask.what = "whole" /\ Complete(Goal) => says = [says |-> "fine"]
            /\ ask.what = "whole" /\ ~Complete(Goal) => says = [says |-> "error"]
            /\ ask.what = "prefix" /\ (Goal = Fails \/ Complete(Goal)) => says = [says |-> "error"]
            /\ ask.what = "prefix" /\ ~(Goal = Fails \/ Complete(Goal)) =>
                 says = [says |-> "open", state |-> Goal]
  <1>1. /\ ask \in Requests /\ Asks(ask) /\ ReplTypes
        /\ ask.problem = problem /\ ask.path = Target
        /\ PreambleOf[problem] \in Preambles
    BY AskIs
  <1>2. ProcessClean
    BY DEF Replied, ProcessClean
  <1>3. Behind(ask) = PreambleOf[problem]
    BY <1>1, <1>2, BehindOwn DEF CallsInv
  <1>4. late = <<>>
    BY <1>2 DEF CallsInv, ReplInv, Accounted
  <1>5. Head(Answers(ask)) = [env |-> Len(envs), answer |-> Says(ask, Behind(ask))]
    BY <1>1, <1>4, PipeRead DEF Replied
  <1>6. Head(Answers(ask)).answer = Says(ask, PreambleOf[problem])
    BY <1>3, <1>5
  <1>7. Goal = Reaches(Root(ask.problem, PreambleOf[problem]), ask.path)
    BY <1>1 DEF Goal, GoalOf
  <1>8. PreambleOf[problem] \in Behinds
    BY <1>1 DEF Behinds
  <1> QED
    BY <1>1, <1>6, <1>7, <1>8, SaysOf

LEMMA ParsedTyped ==
  ASSUME NEW answer \in Sayings, NEW sorry \in BOOLEAN
  PROVE  /\ Parsed(answer, sorry) \in Replies
         /\ Parsed(answer, sorry).what = "complete" => answer.says = "fine" /\ ~sorry
         /\ answer = [says |-> "error"] => Parsed(answer, sorry) = [what |-> "failure"]
         /\ answer = [says |-> "fine"] /\ ~sorry => Parsed(answer, sorry) = [what |-> "complete"]
         /\ \A s \in States : answer = [says |-> "open", state |-> s] =>
              Parsed(answer, sorry) = [what |-> "open", state |-> s]
  <1>1. CASE answer.says = "open"
    <2>1. answer \in [says : {"open"}, state : States]
      BY <1>1 DEF Sayings
    <2>2. Parsed(answer, sorry) = [what |-> "open", state |-> answer.state]
      BY <1>1 DEF Parsed
    <2>3. answer # [says |-> "error"] /\ answer # [says |-> "fine"]
      BY <1>1
    <2>4. ASSUME NEW s \in States, answer = [says |-> "open", state |-> s] PROVE answer.state = s
      BY <2>4
    <2> QED
      BY <2>1, <2>2, <2>3, <2>4 DEF Replies
  <1>2. CASE answer.says # "open"
    <2>1. answer.says \in {"fine", "error"}
      BY <1>2 DEF Sayings
    <2>2. answer.says = "error" => Parsed(answer, sorry) = [what |-> "failure"]
      BY DEF Parsed
    <2>3. answer.says = "fine" => Parsed(answer, sorry) = [what |-> IF sorry THEN "blank" ELSE "complete"]
      BY DEF Parsed
    <2>4. \A s \in States : answer # [says |-> "open", state |-> s]
      BY <1>2
    <2> QED
      BY <2>1, <2>2, <2>3, <2>4 DEF Replies
  <1> QED
    BY <1>1, <1>2

\* The first answer in the pipe, whoever it is for.
LEMMA ReadTyped ==
  ASSUME CallsInv, ask # Quiet, Elaborates(ask), late' = Tail(Answers(ask)),
         known' = known \cup {Head(Answers(ask)).env}
  PROVE  /\ Head(Answers(ask)) \in LateSpace
         /\ Head(Answers(ask)).env \in Nat /\ Head(Answers(ask)).env \in known'
         /\ Head(Answers(ask)).answer \in Sayings
  <1>1. Head(Answers(ask)) \in LateSpace /\ Head(Answers(ask)).env \in known'
    BY AskIs, PipeRead
  <1> QED
    BY <1>1 DEF LateSpace

\* The call goes on with another request to the same end.
LEMMA AsksNext ==
  ASSUME CallsInv, ask # Quiet, Exchanged, UNCHANGED <<searchVars, reply>>,
         ReplTypes', Accounted', RequestOf(ask)', ask' # Quiet,
         ask'.problem = ask.problem, ask'.path = ask.path,
         ask'.what = "whole" => ask.path # <<>>,
         Sure' /\ ask'.what = "prefix" /\ Target # <<>> => ~Complete(Goal)
  PROVE  CallsInv'
  <1>1. /\ ask.problem = problem /\ ask.path = Target /\ reply = Quiet /\ Calling
    BY AskIs
  <1>2. CallInv' /\ Target' = Target /\ Goal' = Goal
    BY <1>1, CallGoesOn DEF CallsInv, Calling
  <1>3. ReplInv'
    BY DEF CallsInv, ReplInv, Exchanged
  <1>4. RequestTrue'
    BY <1>1, <1>2 DEF RequestTrue
  <1>5. ReplyTrue'
    BY <1>1 DEF ReplyTrue
  <1> QED
    BY <1>2, <1>3, <1>4, <1>5 DEF CallsInv

\* The call is answered.
LEMMA IsAnswered ==
  ASSUME CallsInv, ask # Quiet, Exchanged, UNCHANGED <<searchVars, cached>>,
         ask' = Quiet, reply' \in Replies, ReplyTrue'
  PROVE  CallsInv'
  <1>1. /\ reply = Quiet /\ Calling /\ reply' # Quiet
    BY AskIs, QuietApart
  <1>2. CallInv' /\ Target' = Target /\ Goal' = Goal
    BY <1>1, CallGoesOn DEF CallsInv, Calling
  <1>3. ReplInv'
    <2>1. ReplTypes'
      BY DEF CallsInv, ReplInv, ReplTypes, Exchanged
    <2>2. Accounted'
      BY StaysAccounted DEF CallsInv, ReplInv
    <2>3. RequestOf(ask)'
      BY DEF RequestOf
    <2> QED
      BY <2>1, <2>2, <2>3 DEF CallsInv, ReplInv, Exchanged
  <1>4. RequestTrue'
    BY DEF RequestTrue
  <1> QED
    BY <1>2, <1>3, <1>4 DEF CallsInv

LEMMA WithTheoremIs ==
  ASSUME NEW path
  PROVE  /\ WithTheorem(path) \in {"prefix", "whole"}
         /\ WithTheorem(path) = "whole" <=> path # <<>>
  BY DEF WithTheorem

LEMMA PreambleCalls ==
  ASSUME CallsInv, PreambleLoaded, UNCHANGED searchVars
  PROVE  CallsInv'
  <1>0. ask # Quiet /\ ask.what = "preamble"
    BY DEF PreambleLoaded, Quiet
  <1>1. /\ ask \in Requests /\ Asks(ask) /\ ReplTypes
        /\ ask.problem = problem /\ ask.path = Target
        /\ PreambleOf[problem] \in Preambles /\ reply = Quiet
    BY <1>0, AskIs
  <1> DEFINE next == WithTheorem(ask.path)
             env == Head(Answers(ask)).env
             P == PreambleOf[ask.problem]
  <1>2. /\ next \in {"preamble", "whole", "prefix"} /\ (next = "whole" <=> Target # <<>>)
        /\ next # "preamble"
    BY <1>1, WithTheoremIs
  <1>3. reply' = reply
    BY DEF PreambleLoaded
  <1> HIDE DEF next
  <1>4. CASE /\ Replied(ask) /\ Remember(P, env)
             /\ ask' = [ask EXCEPT !.what = next, !.env = env]
    <2>1. Exchanged
      BY <1>1, <1>4, ReplyExchanged
    <2>2. env \in Nat /\ env \in known'
      BY <1>0, <1>4, ReadTyped DEF Replied
    <2>3. cached' = [cached EXCEPT ![P] = env] /\ cached \in [Preambles -> Nat \cup {NoEnv}]
      BY <1>1, <1>4 DEF Remember, ReplTypes
    <2>4. /\ cached' \in [Preambles -> Nat \cup {NoEnv}] /\ cached'[P] = env
          /\ \A p \in Preambles : p # P => cached'[p] = cached[p]
      BY <1>1, <2>2, <2>3
    <2>5. /\ ask' \in Requests /\ ask'.what = next /\ ask'.problem = ask.problem
          /\ ask'.path = ask.path /\ ask'.env = env
      <3> HIDE DEF env
      <3> QED
        BY <1>1, <1>2, <1>4, <2>2 DEF Requests
    <2>6. ask' # Quiet
      BY <2>5, QuietApart
    <2>7. ReplTypes'
      BY <1>1, <1>3, <2>1, <2>4, <2>5 DEF ReplTypes, Exchanged
    <2>8. Accounted'
      <3> SUFFICES ASSUME ProcessClean'
                   PROVE  /\ late' = <<>>
                          /\ \A p \in Preambles : cached'[p] # NoEnv =>
                               cached'[p] \in known' /\ envs'[cached'[p] + 1] = p
        BY Zenon DEF Accounted
      <3>1. /\ ProcessClean /\ Grows /\ late = <<>>
            /\ \A p \in Preambles : cached[p] # NoEnv => cached[p] \in known /\ envs[cached[p] + 1] = p
        BY <2>1 DEF Exchanged, Accounted, CallsInv, ReplInv
      <3>2. late' = <<>>
        BY <3>1 DEF Grows
      <3>3. Head(Answers(ask)) = [env |-> Len(envs), answer |-> Says(ask, Behind(ask))]
        BY <1>1, <1>4, <3>1, PipeRead DEF Replied
      <3>4. env = Len(envs)
        BY <3>3
      <3>5. envs'[Len(envs) + 1] = Behind(ask)
        BY <1>1, <1>4, PipeRead DEF Replied
      <3>6. envs'[env + 1] = P
        BY <1>0, <3>4, <3>5 DEF Behind
      <3>7. ASSUME NEW p \in Preambles, cached'[p] # NoEnv, p # P
            PROVE  cached'[p] \in known' /\ envs'[cached'[p] + 1] = p
        <4>1. cached'[p] = cached[p] /\ cached[p] \in known /\ envs[cached[p] + 1] = p
          BY <2>4, <3>1, <3>7
        <4>2. known \subseteq 0..(Len(envs) - 1) /\ envs \in Seq(Behinds)
          BY <1>1 DEF ReplTypes, ProcessTypes
        <4>3. \A x \in 0..(Len(envs) - 1) : x + 1 \in 1..Len(envs)
          <5>1. Len(envs) \in Nat
            BY <4>2
          <5> QED
            BY <5>1
        <4>4. cached[p] \in 0..(Len(envs) - 1)
          BY <4>1, <4>2
        <4>5. cached[p] + 1 \in 1..Len(envs)
          BY ONLY <4>3, <4>4, Zenon
        <4> QED
          BY <3>1, <4>1, <4>5 DEF Grows
      <3>8. \A p \in Preambles : cached'[p] # NoEnv =>
               cached'[p] \in known' /\ envs'[cached'[p] + 1] = p
        BY <2>2, <2>4, <3>6, <3>7
      <3> QED
        BY <3>2, <3>8
    <2>9. RequestOf(ask)'
      <3>1. (ask'.env = cached'[PreambleOf[ask'.problem]]) /\ ask'.env # NoEnv
        BY <2>2, <2>4, <2>5 DEF NoEnv
      <3> QED
        BY <3>1 DEF RequestOf
    <2>10. ask'.what = "whole" => ask.path # <<>>
      BY <1>1, <1>2, <2>5
    <2>11. ask'.what = "prefix" => Target = <<>>
      BY <1>1, <1>2, <2>5
    <2> QED
      BY <1>0, <1>3, <2>1, <2>5, <2>6, <2>7, <2>8, <2>9, <2>10, <2>11, AsksNext
  <1>5. CASE Unanswered(ask) /\ ask' = [ask EXCEPT !.what = next] /\ UNCHANGED cached
    <2>1. Exchanged /\ ~Sure'
      BY <1>1, <1>5, UnansweredExchanged
    <2>5. /\ ask' \in Requests /\ ask'.what = next /\ ask'.problem = ask.problem
          /\ ask'.path = ask.path /\ ask'.env = ask.env
      BY <1>1, <1>2, <1>5 DEF Requests
    <2>6. ask' # Quiet
      BY <2>5, QuietApart
    <2>7. ReplTypes'
      BY <1>1, <1>3, <1>5, <2>1, <2>5 DEF ReplTypes, Exchanged
    <2>8. Accounted'
      BY <1>1, <1>5, <2>1, StaysAccounted DEF CallsInv, ReplInv
    <2>9. RequestOf(ask)'
      <3>1. ask.env = cached[PreambleOf[ask.problem]]
        BY <1>0 DEF CallsInv, ReplInv, RequestOf
      <3> QED
        BY <1>5, <2>1, <2>5, <3>1 DEF RequestOf
    <2>10. ask'.what = "whole" => ask.path # <<>>
      BY <1>1, <1>2, <2>5
    <2> QED
      BY <1>0, <1>3, <2>1, <2>5, <2>6, <2>7, <2>8, <2>9, <2>10, AsksNext
  <1> QED
    BY <1>4, <1>5 DEF PreambleLoaded, next

\* While nothing went wrong the request names the environment of its own preamble.
LEMMA SureNamed ==
  ASSUME CallsInv, ask # Quiet, ask.what # "preamble", Sure
  PROVE  ProcessClean /\ cached[PreambleOf[problem]] # NoEnv
  <1>1. ask.problem = problem
    BY AskIs
  <1> QED
    BY <1>1 DEF CallsInv, ReplInv, RequestOf, Sure

LEMMA WholeCalls ==
  ASSUME CallsInv, WholeChecked, UNCHANGED searchVars
  PROVE  CallsInv'
  <1>0. ask # Quiet /\ ask.what = "whole"
    BY DEF WholeChecked, Quiet
  <1>1. /\ ask \in Requests /\ Asks(ask) /\ ReplTypes
        /\ ask.problem = problem /\ ask.path = Target
        /\ PreambleOf[problem] \in Preambles /\ reply = Quiet
    BY <1>0, AskIs
  <1> DEFINE says == Head(Answers(ask)).answer
             parsed == Parsed(says, FALSE)
  <1>2. cached' = cached /\ Target # <<>>
    BY <1>0 DEF WholeChecked, CallsInv, RequestTrue
  <1>3. /\ [ask EXCEPT !.what = "prefix"] \in Requests
        /\ [ask EXCEPT !.what = "prefix"].what = "prefix"
        /\ [ask EXCEPT !.what = "prefix"].problem = ask.problem
        /\ [ask EXCEPT !.what = "prefix"].path = ask.path
        /\ [ask EXCEPT !.what = "prefix"].env = ask.env
    BY <1>1 DEF Requests
  <1>4. ASSUME Exchanged, UNCHANGED reply, ask' = [ask EXCEPT !.what = "prefix"],
               Sure' => ~Complete(Goal)
        PROVE  CallsInv'
    <2>1. ask' # Quiet
      BY <1>3, <1>4, QuietApart
    <2>2. ReplTypes'
      BY <1>1, <1>2, <1>3, <1>4 DEF ReplTypes, Exchanged
    <2>3. Accounted'
      BY <1>1, <1>2, <1>4, StaysAccounted DEF CallsInv, ReplInv
    <2>4. RequestOf(ask)'
      <3>1. ask.env = cached[PreambleOf[ask.problem]] /\ (Sure => ask.env # NoEnv)
        BY <1>0 DEF CallsInv, ReplInv, RequestOf
      <3> QED
        BY <1>2, <1>3, <1>4, <3>1 DEF RequestOf, Exchanged
    <2>5. ask'.what # "whole"
      BY <1>3, <1>4
    <2> QED
      BY <1>0, <1>3, <1>4, <2>1, <2>2, <2>3, <2>4, <2>5, AsksNext
  <1>5. CASE Replied(ask) /\ parsed.what = "complete" /\ ask' = Quiet /\ reply' = parsed
    <2>1. Exchanged
      BY <1>1, <1>5, ReplyExchanged
    <2>2. says \in Sayings
      BY <1>0, <1>5, ReadTyped DEF Replied
    <2>3. parsed \in Replies /\ says.says = "fine"
      BY <1>5, <2>2, ParsedTyped
    <2>4. ASSUME ProcessClean', cached[PreambleOf[problem]] # NoEnv PROVE Complete(Goal)
      BY <1>0, <1>5, <2>3, <2>4, OwnAnswer
    <2>5. CleanRun' => Complete(Goal)
      <3>1. CleanRun' => ProcessClean' /\ cached[PreambleOf[problem]] # NoEnv
        BY <1>2 DEF CleanRun, ProcessClean, searchVars
      <3> QED
        BY <2>4, <3>1
    <2>6. Sure' => Complete(Goal)
      <3>1. Sure' => Sure /\ ProcessClean'
        BY <2>1 DEF Exchanged, Sure, CallsInv, ReplInv
      <3> QED
        BY <1>0, <2>4, <3>1, SureNamed
    <2>7. Target' = Target /\ Goal' = Goal
      BY DEF searchVars, Target, Goal
    <2>8. ReplyTrue'
      BY <1>2, <1>5, <2>5, <2>6, <2>7 DEF ReplyTrue
    <2> QED
      BY <1>0, <1>2, <1>5, <2>1, <2>3, <2>8, IsAnswered
  <1>6. CASE Replied(ask) /\ parsed.what # "complete" /\ ask' = [ask EXCEPT !.what = "prefix"] /\ UNCHANGED reply
    <2>1. Exchanged
      BY <1>1, <1>6, ReplyExchanged
    <2>2. says \in Sayings
      BY <1>0, <1>6, ReadTyped DEF Replied
    <2>3. ASSUME Sure', Complete(Goal) PROVE FALSE
      <3>1. Sure /\ ProcessClean'
        BY <2>1, <2>3 DEF Exchanged, Sure, CallsInv, ReplInv
      <3>2. says = [says |-> "fine"]
        BY <1>0, <1>6, <2>3, <3>1, SureNamed, OwnAnswer
      <3>3. parsed = [what |-> "complete"]
        BY <2>2, <3>2, ParsedTyped
      <3> HIDE DEF parsed
      <3>4. parsed.what = "complete"
        BY <3>3
      <3> QED
        BY ONLY <1>6, <3>4
    <2> QED
      BY <1>4, <1>6, <2>1, <2>3
  <1>7. CASE Unanswered(ask) /\ ask' = [ask EXCEPT !.what = "prefix"] /\ UNCHANGED reply
    BY <1>1, <1>4, <1>7, UnansweredExchanged
  <1> QED
    BY <1>5, <1>6, <1>7 DEF WholeChecked

LEMMA PrefixCalls ==
  ASSUME CallsInv, PrefixChecked, UNCHANGED searchVars
  PROVE  CallsInv'
  <1>0. ask # Quiet /\ ask.what = "prefix"
    BY DEF PrefixChecked, Quiet
  <1>1. /\ ask \in Requests /\ Asks(ask) /\ ReplTypes
        /\ ask.problem = problem /\ ask.path = Target
        /\ PreambleOf[problem] \in Preambles /\ reply = Quiet
    BY <1>0, AskIs
  <1> DEFINE says == Head(Answers(ask)).answer
             parsed == Parsed(says, TRUE)
  <1>2. cached' = cached /\ ask' = Quiet
    BY DEF PrefixChecked
  <1>3. Target' = Target /\ Goal' = Goal
    BY DEF searchVars, Target, Goal
  <1>4. CASE Replied(ask) /\ reply' = parsed
    <2>1. Exchanged
      BY <1>1, <1>4, ReplyExchanged
    <2>2. says \in Sayings
      BY <1>0, <1>4, ReadTyped DEF Replied
    <2>3. parsed \in Replies /\ parsed.what # "complete"
      BY <2>2, ParsedTyped
    <2>4. ASSUME Sure'
          PROVE  /\ reply'.what \in {"open", "failure", "complete"}
                 /\ reply'.what = "open" => reply'.state = Goal /\ Goal # Fails /\ ~Complete(Goal)
                 /\ reply'.what = "failure" /\ Target # <<>> => Goal = Fails
      <3>1. Sure /\ ProcessClean'
        BY <2>1, <2>4 DEF Exchanged, Sure, CallsInv, ReplInv
      <3>2. cached[PreambleOf[problem]] # NoEnv
        BY <1>0, <3>1, SureNamed
      <3>3. CASE Goal = Fails \/ Complete(Goal)
        <4>1. says = [says |-> "error"]
          BY <1>0, <1>4, <3>1, <3>2, <3>3, OwnAnswer
        <4>2. reply' = [what |-> "failure"]
          BY <1>4, <2>2, <4>1, ParsedTyped
        <4>3. Target # <<>> => ~Complete(Goal)
          BY <1>0, <3>1 DEF CallsInv, RequestTrue
        <4> QED
          BY <3>3, <4>2, <4>3
      <3>4. CASE ~(Goal = Fails \/ Complete(Goal))
        <4>1. says = [says |-> "open", state |-> Goal]
          BY <1>0, <1>4, <3>1, <3>2, <3>4, OwnAnswer
        <4>2. Goal \in States
          BY <1>0, AskIs
        <4>3. reply' = [what |-> "open", state |-> Goal]
          BY <1>4, <2>2, <4>1, <4>2, ParsedTyped
        <4> QED
          BY <3>4, <4>3
      <3> QED
        BY <3>3, <3>4
    <2>5. ReplyTrue'
      BY <1>3, <1>4, <2>3, <2>4 DEF ReplyTrue
    <2> QED
      BY <1>0, <1>2, <1>4, <2>1, <2>3, <2>5, IsAnswered
  <1>5. CASE Unanswered(ask) /\ reply' = [what |-> "failure"]
    <2>1. Exchanged /\ ~Sure'
      BY <1>1, <1>5, UnansweredExchanged
    <2>2. reply' \in Replies /\ ReplyTrue'
      BY <1>5, <2>1 DEF Replies, ReplyTrue
    <2> QED
      BY <1>0, <1>2, <2>1, <2>2, IsAnswered
  <1> QED
    BY <1>4, <1>5 DEF PrefixChecked

LEMMA ReplStepCalls ==
  ASSUME CallsInv, ReplStep
  PROVE  CallsInv'
  BY BeatCalls, FoundDeadCalls, PreambleCalls, WholeCalls, PrefixCalls DEF ReplStep

-----------------------------------------------------------------------------
(* Paths.                                                                   *)

LEMMA PathAppended ==
  ASSUME NEW p \in Seq(Tactics), NEW t \in Tactics
  PROVE  /\ Append(p, t) \in Seq(Tactics) /\ Append(p, t) # <<>>
         /\ Len(Append(p, t)) = Len(p) + 1 /\ Len(p) \in Nat
         /\ \A i \in 1..Len(p) : Append(p, t)[i] = p[i]
         /\ Append(p, t)[Len(p) + 1] = t
         /\ Front(Append(p, t)) = p
  <1> DEFINE q == Append(p, t)
  <1>1. /\ q \in Seq(Tactics) /\ Len(q) = Len(p) + 1 /\ Len(p) \in Nat
        /\ \A i \in 1..Len(p) : q[i] = p[i]
        /\ q[Len(p) + 1] = t
    OBVIOUS
  <1> HIDE DEF q
  <1>2. q # <<>>
    BY <1>1
  <1>3. SubSeq(q, 1, Len(q) - 1) = p
    <2>1. SubSeq(q, 1, Len(p)) \in Seq(Tactics) /\ Len(SubSeq(q, 1, Len(p))) = Len(p)
      BY <1>1
    <2>2. \A i \in 1..Len(p) : SubSeq(q, 1, Len(p))[i] = p[i]
      BY <1>1
    <2>3. Len(q) - 1 = Len(p)
      BY <1>1
    <2> QED
      BY <2>1, <2>2, <2>3
  <1> QED
    BY <1>1, <1>2, <1>3 DEF q, Front

LEMMA SamePath ==
  ASSUME NEW p \in Seq(Tactics), NEW q \in Seq(Tactics), NEW t \in Tactics, NEW u \in Tactics,
         Append(p, t) = Append(q, u)
  PROVE  p = q /\ t = u
  BY PathAppended

LEMMA PathFront ==
  ASSUME NEW p \in Seq(Tactics), p # <<>>
  PROVE  /\ Front(p) \in Seq(Tactics) /\ Last(p) \in Tactics /\ p = Append(Front(p), Last(p))
         /\ Len(Front(p)) = Len(p) - 1
  <1> DEFINE k == Len(p) - 1
             q == SubSeq(p, 1, k)
  <1>0. Len(p) \in Nat /\ Len(p) # 0
    OBVIOUS
  <1>1. /\ k \in Nat /\ Len(p) = k + 1 /\ p[Len(p)] \in Tactics
        /\ q \in Seq(Tactics) /\ Len(q) = k /\ \A i \in 1..k : q[i] = p[i]
    <2>1. k \in Nat /\ Len(p) = k + 1 /\ Len(p) \in 1..Len(p)
      BY <1>0
    <2>2. p[Len(p)] \in Tactics
      BY <2>1
    <2> QED
      BY <2>1, <2>2
  <1> HIDE DEF q, k
  <1>2. p = Append(q, p[Len(p)])
    BY <1>1
  <1> QED
    BY <1>1, <1>2 DEF q, k, Front, Last

\* One path begins with another.
LEMMA BeginsWith ==
  ASSUME NEW p \in Seq(Tactics), NEW q \in Seq(Tactics)
  PROVE  IsPrefix(p, q) <=> Len(p) <= Len(q) /\ \A i \in 1..Len(p) : p[i] = q[i]
  <1>1. /\ Len(p) \in Nat /\ Len(q) \in Nat
        /\ SubSeq(p, 1, Len(p)) = p
    OBVIOUS
  <1>2. ASSUME Len(p) <= Len(q)
        PROVE  (p = SubSeq(q, 1, Len(p))) <=> \A i \in 1..Len(p) : p[i] = q[i]
    <2> DEFINE s == SubSeq(q, 1, Len(p))
    <2>1. s \in Seq(Tactics) /\ Len(s) = Len(p) /\ \A i \in 1..Len(p) : s[i] = q[i]
      BY <1>1, <1>2
    <2> HIDE DEF s
    <2>2. (p = s) <=> \A i \in 1..Len(p) : p[i] = q[i]
      BY <2>1
    <2> QED
      BY <2>2 DEF s
  <1> QED
    BY <1>1, <1>2 DEF IsPrefix

LEMMA BeginsWithItself ==
  ASSUME NEW p \in Seq(Tactics)
  PROVE  IsPrefix(p, p)
  BY BeginsWith

LEMMA BeginsLonger ==
  ASSUME NEW p \in Seq(Tactics), NEW q \in Seq(Tactics), NEW t \in Tactics,
         IsPrefix(p, Append(q, t)), p # Append(q, t)
  PROVE  IsPrefix(p, q)
  <1> DEFINE l == Append(q, t)
  <1>1. /\ l \in Seq(Tactics) /\ Len(l) = Len(q) + 1 /\ Len(q) \in Nat /\ Len(p) \in Nat
        /\ \A i \in 1..Len(q) : l[i] = q[i]
    BY PathAppended
  <1> HIDE DEF l
  <1>2. Len(p) <= Len(l) /\ \A i \in 1..Len(p) : p[i] = l[i]
    BY <1>1, BeginsWith DEF l
  <1>3. Len(p) # Len(l)
    BY <1>1, <1>2 DEF l
  <1>4. Len(p) <= Len(q) /\ \A i \in 1..Len(p) : p[i] = q[i]
    BY <1>1, <1>2, <1>3
  <1> QED
    BY <1>4, BeginsWith

\* A path between two others.
LEMMA BeginsBetween ==
  ASSUME NEW p \in Seq(Tactics), NEW q \in Seq(Tactics), IsPrefix(p, q), p # q
  PROVE  q # <<>> /\ IsPrefix(p, Front(q))
  <1>1. /\ Len(p) <= Len(q) /\ \A i \in 1..Len(p) : p[i] = q[i]
        /\ Len(p) \in Nat /\ Len(q) \in Nat
    BY BeginsWith
  <1>2. q # <<>>
    <2> SUFFICES ASSUME q = <<>> PROVE FALSE
      OBVIOUS
    <2>1. Len(p) = 0
      BY <1>1
    <2> QED
      BY <2>1
  <1>3. /\ Front(q) \in Seq(Tactics) /\ Last(q) \in Tactics /\ q = Append(Front(q), Last(q))
    BY <1>2, PathFront
  <1> QED
    BY <1>2, <1>3, BeginsLonger

-----------------------------------------------------------------------------
(* Trees.                                                                   *)

Responses == {"open", "failure", "blank", "complete"}
Reasons == {"", "cycle", "lean_error", "max_depth", "all_children_dead"}
NodeSpace ==
  [path : Seq(Tactics), signature : States, response : Responses, terminal : Reasons,
   expanded : BOOLEAN, batch : SUBSET Tactics, pending : Seq(Tactics), visits : Nat]
Trees == Seq(NodeSpace)

Expanded(n) == n.expanded = TRUE
Ended(n) == n.response = "failure" \/ n.terminal # ""

\* Two forms of a node that has neither been expanded nor given up between them.
SamePlace(m, n) == m.path = n.path /\ m.signature = n.signature /\ m.response = n.response
SameTactics(m, n) ==
  (Expanded(m) <=> Expanded(n)) /\ m.batch = n.batch /\ m.pending = n.pending

LEMMA NodeFields ==
  ASSUME NEW n \in NodeSpace
  PROVE  /\ n.path \in Seq(Tactics) /\ n.signature \in States /\ n.response \in Responses
         /\ n.terminal \in Reasons /\ n.batch \in SUBSET Tactics /\ n.pending \in Seq(Tactics)
         /\ n.visits \in Nat /\ n.expanded \in BOOLEAN
  BY DEF NodeSpace

\* One node of a tree changes.
LEMMA OneChanged ==
  ASSUME NEW tree \in Trees, NEW i \in DOMAIN tree, NEW n \in NodeSpace, NEW u,
         u = [tree EXCEPT ![i] = n]
  PROVE  /\ u \in Trees /\ Len(u) = Len(tree) /\ DOMAIN u = DOMAIN tree
         /\ u[i] = n /\ \A j \in DOMAIN tree : j # i => u[j] = tree[j]
  BY DEF Trees

LEMMA VisitedEffect ==
  ASSUME NEW tree \in Trees, NEW seen, NEW u, u = Visited(tree, seen)
  PROVE  /\ u \in Trees /\ Len(u) = Len(tree) /\ DOMAIN u = DOMAIN tree
         /\ \A j \in DOMAIN tree :
              SamePlace(u[j], tree[j]) /\ u[j].terminal = tree[j].terminal /\ SameTactics(u[j], tree[j])
  <1>1. /\ DOMAIN tree = 1..Len(tree) /\ Len(tree) \in Nat
        /\ \A j \in DOMAIN tree : tree[j] \in NodeSpace
    BY DEF Trees
  <1>2. DOMAIN u = DOMAIN tree
    BY DEF Visited
  <1>3. ASSUME NEW j \in DOMAIN tree
        PROVE  /\ u[j] \in NodeSpace /\ SamePlace(u[j], tree[j])
               /\ u[j].terminal = tree[j].terminal /\ SameTactics(u[j], tree[j])
    <2> DEFINE v == IF j \in seen THEN tree[j].visits + 1 ELSE tree[j].visits
    <2>1. tree[j] \in NodeSpace
      BY <1>1
    <2>2. v \in Nat
      BY <2>1, NodeFields
    <2>3. u[j] = [tree[j] EXCEPT !.visits = v]
      BY DEF Visited
    <2> HIDE DEF v
    <2>4. u[j] \in NodeSpace
      BY <2>1, <2>2, <2>3 DEF NodeSpace
    <2>5. /\ u[j].path = tree[j].path /\ u[j].signature = tree[j].signature
          /\ u[j].response = tree[j].response /\ u[j].terminal = tree[j].terminal
          /\ u[j].batch = tree[j].batch /\ u[j].pending = tree[j].pending
          /\ u[j].expanded = tree[j].expanded
      BY <2>1, <2>3 DEF NodeSpace
    <2> QED
      BY <2>4, <2>5 DEF SamePlace, SameTactics, Expanded
  <1>4. u = [j \in 1..Len(tree) |-> u[j]]
    BY <1>1, <1>2 DEF Visited
  <1>5. u \in Seq(NodeSpace) /\ Len(u) = Len(tree)
    <2>1. \A j \in 1..Len(tree) : u[j] \in NodeSpace
      BY <1>1, <1>3
    <2> DEFINE k == Len(tree)
    <2>2. k \in Nat /\ u = [j \in 1..k |-> u[j]] /\ \A j \in 1..k : u[j] \in NodeSpace
      BY <1>1, <1>4, <2>1
    <2> HIDE DEF k
    <2>3. u \in Seq(NodeSpace) /\ Len(u) = k
      BY <2>2
    <2> QED
      BY <2>3 DEF k
  <1> QED
    BY <1>2, <1>3, <1>5 DEF Trees

\* The trees after the steps that change one node.
TreeGivenUp(tree, i, ground, seen) ==
  Visited([tree EXCEPT ![i] = [@ EXCEPT !.terminal = ground]], seen)
TreeExpanded(tree, i, batch) ==
  [tree EXCEPT ![i] = [@ EXCEPT !.expanded = TRUE, !.pending = batch,
                                !.batch = tree[i].batch \cup ToSet(batch)]]
TreeGrown(tree, i, n, seen) ==
  Visited(Append([tree EXCEPT ![i] = [@ EXCEPT !.pending = Tail(tree[i].pending)]], n), seen)

LEMMA GiveUpEffect ==
  ASSUME NEW tree \in Trees, NEW i \in DOMAIN tree, NEW ground \in Reasons, NEW seen, NEW u,
         u = TreeGivenUp(tree, i, ground, seen)
  PROVE  /\ u \in Trees /\ Len(u) = Len(tree) /\ DOMAIN u = DOMAIN tree
         /\ \A j \in DOMAIN tree : SamePlace(u[j], tree[j]) /\ SameTactics(u[j], tree[j])
         /\ u[i].terminal = ground
         /\ \A j \in DOMAIN tree : j # i => u[j].terminal = tree[j].terminal
  <1> DEFINE n == [tree[i] EXCEPT !.terminal = ground]
             v == [tree EXCEPT ![i] = n]
  <1>1. tree[i] \in NodeSpace
    BY DEF Trees
  <1>2. /\ n \in NodeSpace /\ n.terminal = ground
        /\ n.path = tree[i].path /\ n.signature = tree[i].signature
        /\ n.response = tree[i].response
        /\ n.batch = tree[i].batch /\ n.pending = tree[i].pending
        /\ n.expanded = tree[i].expanded
    BY <1>1 DEF NodeSpace
  <1>3. u = Visited(v, seen)
    BY DEF TreeGivenUp
  <1> HIDE DEF n
  <1>4. /\ v \in Trees /\ Len(v) = Len(tree) /\ DOMAIN v = DOMAIN tree
        /\ v[i] = n /\ \A j \in DOMAIN tree : j # i => v[j] = tree[j]
    BY <1>2, OneChanged
  <1> HIDE DEF v
  <1>5. /\ u \in Trees /\ Len(u) = Len(v) /\ DOMAIN u = DOMAIN v
        /\ \A j \in DOMAIN v :
             SamePlace(u[j], v[j]) /\ u[j].terminal = v[j].terminal /\ SameTactics(u[j], v[j])
    BY <1>3, <1>4, VisitedEffect
  <1>6. SamePlace(v[i], tree[i]) /\ SameTactics(v[i], tree[i])
    BY <1>2, <1>4 DEF SamePlace, SameTactics, Expanded
  <1>7. \A j \in DOMAIN tree : SamePlace(v[j], tree[j]) /\ SameTactics(v[j], tree[j])
    BY <1>4, <1>6 DEF SamePlace, SameTactics
  <1>8. \A j \in DOMAIN tree : SamePlace(u[j], tree[j]) /\ SameTactics(u[j], tree[j])
    BY <1>4, <1>5, <1>7 DEF SamePlace, SameTactics
  <1> QED
    BY <1>2, <1>4, <1>5, <1>8

LEMMA ExpandEffect ==
  ASSUME NEW tree \in Trees, NEW i \in DOMAIN tree, NEW batch \in Seq(Tactics), NEW u,
         u = TreeExpanded(tree, i, batch)
  PROVE  /\ u \in Trees /\ Len(u) = Len(tree) /\ DOMAIN u = DOMAIN tree
         /\ \A j \in DOMAIN tree : SamePlace(u[j], tree[j]) /\ u[j].terminal = tree[j].terminal
         /\ Expanded(u[i]) /\ u[i].pending = batch /\ u[i].batch = tree[i].batch \cup ToSet(batch)
         /\ \A j \in DOMAIN tree : j # i => SameTactics(u[j], tree[j])
  <1> DEFINE named == tree[i].batch \cup ToSet(batch)
             n == [tree[i] EXCEPT !.expanded = TRUE, !.pending = batch, !.batch = named]
             v == [tree EXCEPT ![i] = n]
  <1>1. tree[i] \in NodeSpace
    BY DEF Trees
  <1>2. named \in SUBSET Tactics
    BY <1>1, NodeFields DEF ToSet
  <1>3. u = v
    BY DEF TreeExpanded
  <1> HIDE DEF named
  <1>4. /\ n \in NodeSpace /\ n.terminal = tree[i].terminal
        /\ n.path = tree[i].path /\ n.signature = tree[i].signature
        /\ n.response = tree[i].response
        /\ n.batch = named /\ n.pending = batch /\ n.expanded = TRUE
    BY <1>1, <1>2 DEF NodeSpace
  <1> HIDE DEF n
  <1>5. /\ v \in Trees /\ Len(v) = Len(tree) /\ DOMAIN v = DOMAIN tree
        /\ v[i] = n /\ \A j \in DOMAIN tree : j # i => v[j] = tree[j]
    BY <1>4, OneChanged
  <1> HIDE DEF v
  <1> QED
    BY <1>3, <1>4, <1>5 DEF SamePlace, SameTactics, Expanded, named

LEMMA NodeIs ==
  ASSUME NEW path \in Seq(Tactics), NEW response \in Replies, NEW terminal \in Reasons
  PROVE  /\ Node(path, response, terminal) \in NodeSpace
         /\ Node(path, response, terminal).path = path
         /\ Node(path, response, terminal).signature = Signature(response)
         /\ Node(path, response, terminal).response = response.what
         /\ Node(path, response, terminal).terminal = terminal
         /\ Node(path, response, terminal).batch = {}
         /\ Node(path, response, terminal).pending = <<>>
         /\ ~Expanded(Node(path, response, terminal))
  <1>1. Signature(response) \in States /\ response.what \in Responses
    BY DEF Signature, Replies, States, Responses
  <1>2. <<>> \in Seq(Tactics) /\ {} \in SUBSET Tactics
    OBVIOUS
  <1> QED
    BY <1>1, <1>2 DEF Node, NodeSpace, Expanded

LEMMA GrowEffect ==
  ASSUME NEW tree \in Trees, NEW i \in DOMAIN tree, tree[i].pending # <<>>,
         NEW n \in NodeSpace, NEW seen, NEW u,
         u = TreeGrown(tree, i, n, seen)
  PROVE  /\ u \in Trees /\ Len(u) = Len(tree) + 1 /\ Len(tree) \in Nat
         /\ \A j \in 1..Len(tree) :
              /\ SamePlace(u[j], tree[j]) /\ u[j].terminal = tree[j].terminal
              /\ (Expanded(u[j]) <=> Expanded(tree[j])) /\ u[j].batch = tree[j].batch
              /\ u[j].pending = IF j = i THEN Tail(tree[i].pending) ELSE tree[j].pending
         /\ SamePlace(u[Len(u)], n) /\ SameTactics(u[Len(u)], n) /\ u[Len(u)].terminal = n.terminal
  <1> DEFINE m == [tree[i] EXCEPT !.pending = Tail(tree[i].pending)]
             v == [tree EXCEPT ![i] = m]
             w == Append(v, n)
  <1>1. tree[i] \in NodeSpace /\ Len(tree) \in Nat /\ DOMAIN tree = 1..Len(tree)
    BY DEF Trees
  <1>2. Tail(tree[i].pending) \in Seq(Tactics)
    BY <1>1, NodeFields
  <1>3. /\ m \in NodeSpace /\ m.terminal = tree[i].terminal
        /\ m.path = tree[i].path /\ m.signature = tree[i].signature
        /\ m.response = tree[i].response
        /\ m.batch = tree[i].batch /\ m.pending = Tail(tree[i].pending)
        /\ m.expanded = tree[i].expanded
    BY <1>1, <1>2 DEF NodeSpace
  <1>4. u = Visited(w, seen)
    BY DEF TreeGrown
  <1> HIDE DEF m
  <1>5. /\ v \in Trees /\ Len(v) = Len(tree) /\ DOMAIN v = DOMAIN tree
        /\ v[i] = m /\ \A j \in DOMAIN tree : j # i => v[j] = tree[j]
    BY <1>3, OneChanged
  <1> HIDE DEF v
  <1>6. /\ w \in Trees /\ Len(w) = Len(tree) + 1 /\ w[Len(tree) + 1] = n
        /\ \A j \in 1..Len(tree) : w[j] = v[j]
    BY <1>1, <1>5 DEF Trees
  <1> HIDE DEF w
  <1>7. DOMAIN w = 1..(Len(tree) + 1)
    BY <1>6 DEF Trees
  <1>8. /\ u \in Trees /\ Len(u) = Len(w) /\ DOMAIN u = DOMAIN w
        /\ \A j \in DOMAIN w :
             SamePlace(u[j], w[j]) /\ u[j].terminal = w[j].terminal /\ SameTactics(u[j], w[j])
    BY <1>4, <1>6, VisitedEffect
  <1>9. ASSUME NEW j \in 1..Len(tree)
        PROVE  /\ SamePlace(u[j], tree[j]) /\ u[j].terminal = tree[j].terminal
               /\ (Expanded(u[j]) <=> Expanded(tree[j])) /\ u[j].batch = tree[j].batch
               /\ u[j].pending = IF j = i THEN Tail(tree[i].pending) ELSE tree[j].pending
    <2>1. j \in DOMAIN w /\ w[j] = IF j = i THEN m ELSE tree[j]
      BY <1>1, <1>5, <1>6, <1>7
    <2> QED
      BY <1>3, <1>8, <2>1 DEF SamePlace, SameTactics, Expanded
  <1>10. Len(tree) + 1 \in DOMAIN w
    BY <1>1, <1>7
  <1>11. SamePlace(u[Len(u)], n) /\ SameTactics(u[Len(u)], n) /\ u[Len(u)].terminal = n.terminal
    BY <1>6, <1>8, <1>10
  <1> QED
    BY <1>1, <1>6, <1>8, <1>9, <1>11

\* j is the child of i by tactic t.
ChildBy(tree, i, t, j) == tree[j].path = Append(tree[i].path, t)
Barred(tree, i) == \A t \in Tactics : \A j \in DOMAIN tree : ChildBy(tree, i, t, j) => Ended(tree[j])

Distinct(tree) == \A i, j \in DOMAIN tree : tree[i].path = tree[j].path => i = j

Rooted(tree) ==
  /\ tree # <<>> => tree[1].path = <<>> /\ tree[1].response \notin {"failure", "complete"}
  /\ \A j \in DOMAIN tree : tree[j].path # <<>> =>
       \E i \in DOMAIN tree : \E t \in Tactics : ChildBy(tree, i, t, j)

\* The tactics of a batch are pending or have been tried, never both.
Tried(tree) ==
  \A i \in DOMAIN tree :
    /\ ~Expanded(tree[i]) => tree[i].pending = <<>>
    /\ IsInjective(tree[i].pending)
    /\ \A t \in Tactics : \A j \in DOMAIN tree :
         ChildBy(tree, i, t, j) => Expanded(tree[i]) /\ t \notin ToSet(tree[i].pending)
    /\ \A t \in tree[i].batch :
         t \in ToSet(tree[i].pending) \/ \E j \in DOMAIN tree : ChildBy(tree, i, t, j)
    /\ Expanded(tree[i]) =>
         /\ Len(tree[i].path) < MaxDepth /\ tree[i].response # "failure"
         /\ tree[i].terminal \in {"", "all_children_dead"}

\* Why a node is not searched any further.
Meant(tree) ==
  \A i \in DOMAIN tree :
    /\ tree[i].signature # Fails => tree[i].response = "open"
    /\ tree[i].response = "complete" => tree[i].terminal = ""
    /\ tree[i].terminal = "lean_error" => tree[i].response = "failure"
    /\ tree[i].terminal = "max_depth" => Len(tree[i].path) >= MaxDepth
    /\ tree[i].terminal = "all_children_dead" =>
         Expanded(tree[i]) /\ tree[i].pending = <<>> /\ Barred(tree, i)
    /\ tree[i].terminal = "cycle" =>
         /\ tree[i].response = "open"
         /\ \E j \in DOMAIN tree : Len(tree[j].path) < Len(tree[i].path)
                                   /\ tree[j].signature = tree[i].signature

Progress(tree) ==
  \A i, j \in DOMAIN tree :
    j # i /\ IsPrefix(tree[j].path, tree[i].path) /\ ~Ended(tree[i]) /\ tree[i].response = "open" =>
      tree[j].signature # tree[i].signature

TreeSound(tree) ==
  tree \in Trees /\ Distinct(tree) /\ Rooted(tree) /\ Tried(tree) /\ Meant(tree) /\ Progress(tree)

LEMMA MaxDepthPositive == MaxDepth \in Nat /\ MaxDepth > 0
  BY MctsAssumption

LEMMA TreeNodes ==
  ASSUME NEW tree \in Trees
  PROVE  /\ Len(tree) \in Nat /\ DOMAIN tree = 1..Len(tree)
         /\ \A i \in DOMAIN tree :
              /\ tree[i] \in NodeSpace /\ tree[i].path \in Seq(Tactics)
              /\ tree[i].signature \in States /\ tree[i].response \in Responses
              /\ tree[i].terminal \in Reasons /\ tree[i].batch \in SUBSET Tactics
              /\ tree[i].pending \in Seq(Tactics)
  <1>1. Len(tree) \in Nat /\ DOMAIN tree = 1..Len(tree) /\ \A i \in DOMAIN tree : tree[i] \in NodeSpace
    BY DEF Trees
  <1> QED
    BY <1>1, NodeFields

\* No node is behind a path that has none itself.
LEMMA NothingBehind ==
  ASSUME NEW tree \in Trees, Rooted(tree), NEW p \in Seq(Tactics),
         \A j \in DOMAIN tree : tree[j].path # p
  PROVE  \A j \in DOMAIN tree : ~IsPrefix(p, tree[j].path)
  <1> DEFINE B == {j \in DOMAIN tree : IsPrefix(p, tree[j].path)}
             S == {Len(tree[j].path) : j \in B}
  <1> SUFFICES ASSUME B # {} PROVE FALSE
    OBVIOUS
  <1>0. \A j \in DOMAIN tree : tree[j].path \in Seq(Tactics) /\ Len(tree[j].path) \in Nat
    BY TreeNodes
  <1>1. S \subseteq Nat /\ S # {}
    BY <1>0
  <1>2. PICK m \in S : \A n \in S : m <= n
    <2> HIDE DEF S
    <2> QED
      BY <1>1, LeastNumber
  <1>3. PICK j \in B : m = Len(tree[j].path)
    OBVIOUS
  <1>4. /\ tree[j].path \in Seq(Tactics) /\ tree[j].path # p /\ IsPrefix(p, tree[j].path)
    BY <1>0
  <1>5. tree[j].path # <<>> /\ IsPrefix(p, Front(tree[j].path))
    BY <1>4, BeginsBetween
  <1>6. PICK i \in DOMAIN tree : \E t \in Tactics : ChildBy(tree, i, t, j)
    BY <1>5 DEF Rooted
  <1>7. PICK t \in Tactics : tree[j].path = Append(tree[i].path, t)
    BY <1>6 DEF ChildBy
  <1>8. tree[i].path \in Seq(Tactics)
    BY <1>0
  <1>9. Front(tree[j].path) = tree[i].path /\ Len(tree[j].path) = Len(tree[i].path) + 1
    BY <1>7, <1>8, PathAppended
  <1>10. i \in B
    BY <1>5, <1>9
  <1>11. Len(tree[i].path) \in S
    BY <1>10
  <1>12. m <= Len(tree[i].path)
    <2> HIDE DEF S
    <2> QED
      BY <1>2, <1>11
  <1> QED
    BY <1>0, <1>3, <1>9, <1>12

\* The steps that leave the paths alone.
SamePaths(tree, u) ==
  /\ u \in Trees /\ Len(u) = Len(tree) /\ DOMAIN u = DOMAIN tree
  /\ \A j \in DOMAIN tree : SamePlace(u[j], tree[j])

LEMMA PathsKept ==
  ASSUME NEW tree \in Trees, NEW u, SamePaths(tree, u), Distinct(tree), Rooted(tree)
  PROVE  /\ Distinct(u) /\ Rooted(u)
         /\ \A i, j \in DOMAIN tree : \A t \in Tactics : ChildBy(u, i, t, j) <=> ChildBy(tree, i, t, j)
  <1>1. \A j \in DOMAIN tree : u[j].path = tree[j].path /\ u[j].response = tree[j].response
    BY DEF SamePaths, SamePlace
  <1>2. \A i, j \in DOMAIN tree : \A t \in Tactics : ChildBy(u, i, t, j) <=> ChildBy(tree, i, t, j)
    BY <1>1 DEF ChildBy
  <1>3. Distinct(u)
    BY <1>1 DEF SamePaths, Distinct
  <1>4. Rooted(u)
    <2>1. ASSUME u # <<>> PROVE u[1].path = <<>> /\ u[1].response \notin {"failure", "complete"}
      <3>1. Len(u) # 0 /\ Len(u) \in Nat
        BY <2>1 DEF SamePaths, Trees
      <3>2. tree # <<>> /\ 1 \in DOMAIN tree
        BY <3>1, TreeNodes DEF SamePaths
      <3> QED
        BY <1>1, <3>2 DEF Rooted
    <2>2. ASSUME NEW j \in DOMAIN u, u[j].path # <<>>
          PROVE  \E i \in DOMAIN u : \E t \in Tactics : ChildBy(u, i, t, j)
      <3>1. j \in DOMAIN tree /\ tree[j].path # <<>>
        BY <1>1, <2>2 DEF SamePaths
      <3>2. PICK i \in DOMAIN tree : \E t \in Tactics : ChildBy(tree, i, t, j)
        BY <3>1 DEF Rooted
      <3> QED
        BY <1>2, <3>1, <3>2 DEF SamePaths
    <2> QED
      BY <2>1, <2>2 DEF Rooted
  <1> QED
    BY <1>2, <1>3, <1>4

\* A node is given up.
LEMMA GiveUpSound ==
  ASSUME NEW tree, TreeSound(tree), NEW i \in DOMAIN tree, tree[i].response # "complete",
         NEW u, SamePaths(tree, u),
         \A j \in DOMAIN tree : SameTactics(u[j], tree[j]),
         \A j \in DOMAIN tree : j # i => u[j].terminal = tree[j].terminal,
         tree[i].terminal # "" => u[i].terminal = tree[i].terminal,
         tree[i].terminal = "" =>
           \/ u[i].terminal = "max_depth" /\ Len(tree[i].path) >= MaxDepth
           \/ /\ u[i].terminal = "all_children_dead"
              /\ Expanded(tree[i]) /\ tree[i].pending = <<>> /\ Barred(tree, i)
  PROVE  TreeSound(u)
  <1>1. /\ tree \in Trees /\ u \in Trees /\ DOMAIN u = DOMAIN tree
        /\ Distinct(u) /\ Rooted(u)
        /\ \A k, j \in DOMAIN tree : \A t \in Tactics : ChildBy(u, k, t, j) <=> ChildBy(tree, k, t, j)
    BY PathsKept DEF TreeSound, SamePaths
  <1>2. \A j \in DOMAIN tree :
          /\ u[j].path = tree[j].path /\ u[j].response = tree[j].response
          /\ u[j].signature = tree[j].signature
          /\ (Expanded(u[j]) <=> Expanded(tree[j])) /\ u[j].batch = tree[j].batch
          /\ u[j].pending = tree[j].pending
    BY DEF SamePaths, SamePlace, SameTactics
  <1>3. \A j \in DOMAIN tree : Ended(tree[j]) => Ended(u[j])
    BY <1>2 DEF Ended
  <1>4. \A j \in DOMAIN tree : Barred(tree, j) => Barred(u, j)
    BY <1>1, <1>3 DEF Barred
  <1>5. \A j \in DOMAIN tree : Expanded(tree[j]) =>
          Len(tree[j].path) < MaxDepth /\ tree[j].terminal \in {"", "all_children_dead"}
    BY DEF TreeSound, Tried
  <1>6. \A j \in DOMAIN tree : Expanded(tree[j]) => u[j].terminal \in {"", "all_children_dead"}
    <2>0. i \in DOMAIN tree
      OBVIOUS
    <2>1. Len(tree[i].path) \in Nat
      <3>1. tree[i].path \in Seq(Tactics)
        BY ONLY <1>1, <2>0, TreeNodes
      <3> QED
        BY ONLY <3>1
    <2>2. ~(Len(tree[i].path) < MaxDepth /\ Len(tree[i].path) >= MaxDepth)
      BY ONLY <2>1, MaxDepthPositive
    <2> TAKE j \in DOMAIN tree
    <2> HAVE Expanded(tree[j])
    <2>3. CASE j = i /\ tree[i].terminal = ""
      BY <1>5, <2>2, <2>3
    <2>4. CASE ~(j = i /\ tree[i].terminal = "")
      <3>1. u[j].terminal = tree[j].terminal
        BY <2>4
      <3> QED
        BY <1>5, <3>1
    <2> QED
      BY <2>3, <2>4
  <1>7. Tried(u)
    <2> SUFFICES ASSUME NEW k \in DOMAIN tree
        PROVE  /\ ~Expanded(u[k]) => u[k].pending = <<>>
               /\ IsInjective(u[k].pending)
               /\ \A t \in Tactics : \A j \in DOMAIN u :
                    ChildBy(u, k, t, j) => Expanded(u[k]) /\ t \notin ToSet(u[k].pending)
               /\ \A t \in u[k].batch :
                    t \in ToSet(u[k].pending) \/ \E j \in DOMAIN u : ChildBy(u, k, t, j)
               /\ Expanded(u[k]) =>
                    /\ Len(u[k].path) < MaxDepth /\ u[k].response # "failure"
                    /\ u[k].terminal \in {"", "all_children_dead"}
      BY <1>1 DEF Tried
    <2>1. /\ ~Expanded(tree[k]) => tree[k].pending = <<>>
          /\ IsInjective(tree[k].pending)
          /\ \A t \in Tactics : \A j \in DOMAIN tree :
               ChildBy(tree, k, t, j) => Expanded(tree[k]) /\ t \notin ToSet(tree[k].pending)
          /\ \A t \in tree[k].batch :
               t \in ToSet(tree[k].pending) \/ \E j \in DOMAIN tree : ChildBy(tree, k, t, j)
          /\ Expanded(tree[k]) => Len(tree[k].path) < MaxDepth /\ tree[k].response # "failure"
      BY DEF TreeSound, Tried
    <2>2. tree[k].batch \subseteq Tactics
      BY <1>1, TreeNodes
    <2> QED
      BY <1>1, <1>2, <1>6, <2>1, <2>2
  <1>8. Meant(u)
    <2> SUFFICES ASSUME NEW j \in DOMAIN tree
        PROVE  /\ u[j].signature # Fails => u[j].response = "open"
               /\ u[j].response = "complete" => u[j].terminal = ""
               /\ u[j].terminal = "lean_error" => u[j].response = "failure"
               /\ u[j].terminal = "max_depth" => Len(u[j].path) >= MaxDepth
               /\ u[j].terminal = "all_children_dead" =>
                    Expanded(u[j]) /\ u[j].pending = <<>> /\ Barred(u, j)
               /\ u[j].terminal = "cycle" =>
                    /\ u[j].response = "open"
                    /\ \E k \in DOMAIN u : Len(u[k].path) < Len(u[j].path)
                                           /\ u[k].signature = u[j].signature
      BY <1>1 DEF Meant
    <2>1. /\ tree[j].signature # Fails => tree[j].response = "open"
          /\ tree[j].response = "complete" => tree[j].terminal = ""
          /\ tree[j].terminal = "lean_error" => tree[j].response = "failure"
          /\ tree[j].terminal = "max_depth" => Len(tree[j].path) >= MaxDepth
          /\ tree[j].terminal = "all_children_dead" =>
               Expanded(tree[j]) /\ tree[j].pending = <<>> /\ Barred(tree, j)
          /\ tree[j].terminal = "cycle" =>
               /\ tree[j].response = "open"
               /\ \E k \in DOMAIN tree : Len(tree[k].path) < Len(tree[j].path)
                                         /\ tree[k].signature = tree[j].signature
      BY DEF TreeSound, Meant
    <2>2. CASE u[j].terminal = tree[j].terminal
      BY <1>1, <1>2, <1>4, <2>1, <2>2
    <2>3. CASE u[j].terminal # tree[j].terminal
      <3>1. j = i /\ tree[j].terminal = ""
        BY <2>3
      <3> QED
        BY <1>2, <1>4, <2>1, <3>1
    <2> QED
      BY <2>2, <2>3
  <1>9. Progress(u)
    <2>1. \A k, j \in DOMAIN tree :
            j # k /\ IsPrefix(tree[j].path, tree[k].path) /\ ~Ended(tree[k])
            /\ tree[k].response = "open" => tree[j].signature # tree[k].signature
      BY DEF TreeSound, Progress
    <2>2. \A k, j \in DOMAIN tree :
            j # k /\ IsPrefix(u[j].path, u[k].path) /\ ~Ended(u[k])
            /\ u[k].response = "open" => u[j].signature # u[k].signature
      BY ONLY <1>2, <1>3, <2>1
    <2> QED
      BY ONLY <1>1, <2>2 DEF Progress
  <1> QED
    BY <1>1, <1>7, <1>8, <1>9 DEF TreeSound

\* A node gets its tactics.
LEMMA ExpandSound ==
  ASSUME NEW tree, TreeSound(tree), NEW i \in DOMAIN tree, ~Ended(tree[i]),
         Len(tree[i].path) < MaxDepth,
         NEW batch \in Seq(Tactics), IsInjective(batch),
         Expanded(tree[i]) => batch = tree[i].pending,
         NEW u, SamePaths(tree, u),
         \A j \in DOMAIN tree : u[j].terminal = tree[j].terminal,
         Expanded(u[i]), u[i].pending = batch, u[i].batch = tree[i].batch \cup ToSet(batch),
         \A j \in DOMAIN tree : j # i => SameTactics(u[j], tree[j])
  PROVE  TreeSound(u)
  <1>1. /\ tree \in Trees /\ u \in Trees /\ DOMAIN u = DOMAIN tree
        /\ Distinct(u) /\ Rooted(u)
        /\ \A k, j \in DOMAIN tree : \A t \in Tactics : ChildBy(u, k, t, j) <=> ChildBy(tree, k, t, j)
    BY PathsKept DEF TreeSound, SamePaths
  <1>2. \A j \in DOMAIN tree :
          /\ u[j].path = tree[j].path /\ u[j].response = tree[j].response
          /\ u[j].signature = tree[j].signature /\ u[j].terminal = tree[j].terminal
    BY DEF SamePaths, SamePlace
  <1>3. \A j \in DOMAIN tree : j # i =>
          /\ (Expanded(u[j]) <=> Expanded(tree[j])) /\ u[j].batch = tree[j].batch
          /\ u[j].pending = tree[j].pending
    BY DEF SameTactics
  <1>4. \A j \in DOMAIN tree : Ended(tree[j]) <=> Ended(u[j])
    BY <1>2 DEF Ended
  <1>5. \A j \in DOMAIN tree : Barred(tree, j) => Barred(u, j)
    BY <1>1, <1>4 DEF Barred
  <1>6. tree[i].terminal = "" /\ tree[i].response # "failure" /\ tree[i].batch \subseteq Tactics
    BY <1>1, TreeNodes DEF Ended
  <1>7. Tried(u)
    <2> SUFFICES ASSUME NEW k \in DOMAIN tree
        PROVE  /\ ~Expanded(u[k]) => u[k].pending = <<>>
               /\ IsInjective(u[k].pending)
               /\ \A t \in Tactics : \A j \in DOMAIN u :
                    ChildBy(u, k, t, j) => Expanded(u[k]) /\ t \notin ToSet(u[k].pending)
               /\ \A t \in u[k].batch :
                    t \in ToSet(u[k].pending) \/ \E j \in DOMAIN u : ChildBy(u, k, t, j)
               /\ Expanded(u[k]) =>
                    /\ Len(u[k].path) < MaxDepth /\ u[k].response # "failure"
                    /\ u[k].terminal \in {"", "all_children_dead"}
      BY <1>1 DEF Tried
    <2>1. /\ ~Expanded(tree[k]) => tree[k].pending = <<>>
          /\ IsInjective(tree[k].pending)
          /\ \A t \in Tactics : \A j \in DOMAIN tree :
               ChildBy(tree, k, t, j) => Expanded(tree[k]) /\ t \notin ToSet(tree[k].pending)
          /\ \A t \in tree[k].batch :
               t \in ToSet(tree[k].pending) \/ \E j \in DOMAIN tree : ChildBy(tree, k, t, j)
          /\ Expanded(tree[k]) =>
               /\ Len(tree[k].path) < MaxDepth /\ tree[k].response # "failure"
               /\ tree[k].terminal \in {"", "all_children_dead"}
      BY DEF TreeSound, Tried
    <2>2. tree[k].batch \subseteq Tactics
      BY <1>1, TreeNodes
    <2>3. CASE k # i
      BY <1>1, <1>2, <1>3, <2>1, <2>2, <2>3
    <2>4. CASE k = i
      <3>1. \A t \in Tactics : \A j \in DOMAIN u :
              ChildBy(u, k, t, j) => Expanded(u[k]) /\ t \notin ToSet(u[k].pending)
        BY <1>1, <2>1, <2>4
      <3>2. \A t \in u[k].batch :
              t \in ToSet(u[k].pending) \/ \E j \in DOMAIN u : ChildBy(u, k, t, j)
        <4> TAKE t \in u[k].batch
        <4>1. CASE t \in ToSet(batch)
          BY <2>4, <4>1
        <4>2. CASE t \in tree[i].batch
          <5>1. CASE t \in ToSet(tree[k].pending)
            <6>1. Expanded(tree[k])
              <7>1. <<>> # tree[k].pending
                BY <5>1 DEF ToSet
              <7> QED
                BY <2>1, <7>1
            <6> QED
              BY <2>4, <5>1, <6>1
          <5>2. CASE \E j \in DOMAIN tree : ChildBy(tree, k, t, j)
            BY <1>1, <2>2, <2>4, <4>2, <5>2
          <5> QED
            BY <2>1, <2>4, <4>2, <5>1, <5>2
        <4> QED
          BY <2>4, <4>1, <4>2
      <3> QED
        BY <1>2, <1>6, <2>4, <3>1, <3>2
    <2> QED
      BY <2>3, <2>4
  <1>8. Meant(u)
    <2> SUFFICES ASSUME NEW j \in DOMAIN tree
        PROVE  /\ u[j].signature # Fails => u[j].response = "open"
               /\ u[j].response = "complete" => u[j].terminal = ""
               /\ u[j].terminal = "lean_error" => u[j].response = "failure"
               /\ u[j].terminal = "max_depth" => Len(u[j].path) >= MaxDepth
               /\ u[j].terminal = "all_children_dead" =>
                    Expanded(u[j]) /\ u[j].pending = <<>> /\ Barred(u, j)
               /\ u[j].terminal = "cycle" =>
                    /\ u[j].response = "open"
                    /\ \E k \in DOMAIN u : Len(u[k].path) < Len(u[j].path)
                                           /\ u[k].signature = u[j].signature
      BY <1>1 DEF Meant
    <2>1. /\ tree[j].signature # Fails => tree[j].response = "open"
          /\ tree[j].response = "complete" => tree[j].terminal = ""
          /\ tree[j].terminal = "lean_error" => tree[j].response = "failure"
          /\ tree[j].terminal = "max_depth" => Len(tree[j].path) >= MaxDepth
          /\ tree[j].terminal = "all_children_dead" =>
               Expanded(tree[j]) /\ tree[j].pending = <<>> /\ Barred(tree, j)
          /\ tree[j].terminal = "cycle" =>
               /\ tree[j].response = "open"
               /\ \E k \in DOMAIN tree : Len(tree[k].path) < Len(tree[j].path)
                                         /\ tree[k].signature = tree[j].signature
      BY DEF TreeSound, Meant
    <2>2. u[j].terminal = "all_children_dead" => j # i
      BY <1>2, <1>6
    <2> QED
      BY <1>1, <1>2, <1>3, <1>5, <2>1, <2>2
  <1>9. Progress(u)
    BY <1>1, <1>2, <1>4 DEF TreeSound, Progress
  <1> QED
    BY <1>1, <1>7, <1>8, <1>9 DEF TreeSound

LEMMA NothingPending == IsInjective(<<>>) /\ ToSet(<<>>) = {} /\ <<>> \in Seq(Tactics)
  BY DEF IsInjective, ToSet

LEMMA TakenFirst ==
  ASSUME NEW pending \in Seq(Tactics), IsInjective(pending), pending # <<>>
  PROVE  /\ Head(pending) \in Tactics /\ Head(pending) \in ToSet(pending)
         /\ Tail(pending) \in Seq(Tactics) /\ IsInjective(Tail(pending))
         /\ Head(pending) \notin ToSet(Tail(pending))
         /\ ToSet(pending) = ToSet(Tail(pending)) \cup {Head(pending)}
  <1> DEFINE k == Len(pending)
             rest == Tail(pending)
  <1>1. k \in Nat /\ k # 0 /\ DOMAIN pending = 1..k
    OBVIOUS
  <1>2. /\ rest \in Seq(Tactics) /\ Len(rest) = k - 1 /\ DOMAIN rest = 1..(k - 1)
        /\ \A i \in 1..(k - 1) : rest[i] = pending[i + 1]
        /\ Head(pending) = pending[1]
    BY <1>1
  <1>3. \A i, j \in 1..k : pending[i] = pending[j] => i = j
    BY <1>1 DEF IsInjective
  <1>4. \A i \in 1..k : pending[i] \in Tactics
    OBVIOUS
  <1> HIDE DEF k, rest
  <1>5. 1 \in 1..k
    BY <1>1
  <1>6. IsInjective(rest)
    <2> SUFFICES ASSUME NEW i \in 1..(k - 1), NEW j \in 1..(k - 1), rest[i] = rest[j]
                 PROVE  i = j
      BY <1>2 DEF IsInjective
    <2>1. i + 1 \in 1..k /\ j + 1 \in 1..k /\ pending[i + 1] = pending[j + 1]
      BY <1>1, <1>2
    <2>2. i + 1 = j + 1
      BY <1>3, <2>1
    <2> QED
      BY <2>2
  <1>7. pending[1] \notin ToSet(rest)
    <2> SUFFICES ASSUME NEW i \in 1..(k - 1), rest[i] = pending[1] PROVE FALSE
      BY <1>2 DEF ToSet
    <2>1. i + 1 \in 1..k /\ pending[i + 1] = pending[1]
      BY <1>1, <1>2
    <2>2. i + 1 = 1
      BY <1>3, <1>5, <2>1
    <2> QED
      BY <2>2
  <1>8. ToSet(pending) = ToSet(rest) \cup {pending[1]}
    <2>1. ASSUME NEW i \in 1..k PROVE pending[i] \in ToSet(rest) \cup {pending[1]}
      <3>1. CASE i = 1
        BY <3>1
      <3>2. CASE i # 1
        <4>1. i - 1 \in 1..(k - 1) /\ (i - 1) + 1 = i
          BY <1>1, <3>2
        <4>2. rest[i - 1] = pending[i]
          BY <1>2, <4>1
        <4> QED
          BY <1>2, <4>1, <4>2 DEF ToSet
      <3> QED
        BY <3>1, <3>2
    <2>2. ASSUME NEW i \in 1..(k - 1) PROVE rest[i] \in ToSet(pending)
      <3>1. i + 1 \in 1..k /\ rest[i] = pending[i + 1]
        BY <1>1, <1>2
      <3> QED
        BY <1>1, <3>1 DEF ToSet
    <2>3. pending[1] \in ToSet(pending)
      BY <1>1, <1>5 DEF ToSet
    <2> QED
      BY <1>1, <1>2, <2>1, <2>2, <2>3 DEF ToSet
  <1> QED
    BY <1>1, <1>2, <1>4, <1>5, <1>6, <1>7, <1>8 DEF rest

LEMMA OnlyNode ==
  ASSUME NEW n \in NodeSpace
  PROVE  <<n>> \in Trees /\ DOMAIN <<n>> = {1} /\ <<n>>[1] = n
  <1> DEFINE tree == Append(<<>>, n)
  <1>0. tree = <<n>>
    OBVIOUS
  <1>1. tree \in Seq(NodeSpace) /\ Len(tree) = 1 /\ tree[1] = n
    OBVIOUS
  <1> HIDE DEF tree
  <1>2. DOMAIN tree = 1..1
    BY <1>1
  <1>3. \A x \in 1..1 : x = 1
    OBVIOUS
  <1>4. DOMAIN tree = {1}
    BY <1>2, <1>3
  <1> QED
    BY <1>0, <1>1, <1>4 DEF Trees

\* A search begins with one node.
LEMMA RootSound ==
  ASSUME NEW n \in NodeSpace, n.path = <<>>, n.response \notin {"failure", "complete"},
         n.signature # Fails => n.response = "open", n.terminal = "", ~Expanded(n),
         n.pending = <<>>, n.batch = {}
  PROVE  TreeSound(<<n>>)
  <1> DEFINE tree == <<n>>
  <1>1. tree \in Trees /\ DOMAIN tree = {1} /\ tree[1] = n
    BY ONLY n \in NodeSpace, OnlyNode
  <1> HIDE DEF tree
  <1>2. ASSUME NEW i \in DOMAIN tree, NEW j \in DOMAIN tree, NEW t \in Tactics
        PROVE  ~ChildBy(tree, i, t, j)
    <2>1. tree[j].path = <<>> /\ tree[i].path \in Seq(Tactics)
      BY <1>1, <1>2, NodeFields
    <2> QED
      BY <2>1, PathAppended DEF ChildBy
  <1>3. Distinct(tree)
    BY <1>1 DEF Distinct
  <1>4. Rooted(tree)
    BY <1>1 DEF Rooted
  <1>5. Tried(tree)
    <2>1. IsInjective(<<>>)
      BY NothingPending
    <2>2. n.pending = <<>> /\ n.batch = {}
      OBVIOUS
    <2> QED
      BY <1>1, <1>2, <2>1, <2>2 DEF Tried
  <1>6. Meant(tree)
    BY <1>1 DEF Meant
  <1>7. Progress(tree)
    BY <1>1 DEF Progress
  <1> QED
    BY <1>1, <1>3, <1>4, <1>5, <1>6, <1>7 DEF TreeSound, tree

\* A node gets a child for the first tactic that was pending.
LEMMA GrowSound ==
  ASSUME NEW tree, TreeSound(tree), NEW i \in DOMAIN tree,
         Expanded(tree[i]), tree[i].pending # <<>>,
         NEW n \in NodeSpace, n.path = Append(tree[i].path, Head(tree[i].pending)),
         n.signature # Fails => n.response = "open",
         ~Expanded(n), n.pending = <<>>, n.batch = {},
         n.terminal \in {"", "lean_error", "cycle"},
         n.terminal = "lean_error" => n.response = "failure",
         n.terminal = "cycle" =>
           /\ n.response = "open"
           /\ \E j \in DOMAIN tree : IsPrefix(tree[j].path, tree[i].path)
                                     /\ tree[j].signature = n.signature,
         n.terminal = "" /\ n.response = "open" =>
           \A j \in DOMAIN tree : IsPrefix(tree[j].path, tree[i].path) =>
             tree[j].signature # n.signature,
         NEW u, u \in Trees, Len(u) = Len(tree) + 1,
         \A j \in 1..Len(tree) :
           /\ SamePlace(u[j], tree[j]) /\ u[j].terminal = tree[j].terminal
           /\ (Expanded(u[j]) <=> Expanded(tree[j])) /\ u[j].batch = tree[j].batch
           /\ u[j].pending = IF j = i THEN Tail(tree[i].pending) ELSE tree[j].pending,
         SamePlace(u[Len(u)], n), SameTactics(u[Len(u)], n), u[Len(u)].terminal = n.terminal
  PROVE  TreeSound(u)
  <1> DEFINE K == Len(tree)
             N == K + 1
             p == tree[i].path
             t0 == Head(tree[i].pending)
             new == Append(p, t0)
  <1>0. tree \in Trees /\ i \in DOMAIN tree
    BY DEF TreeSound
  <1>1. /\ K \in Nat /\ DOMAIN tree = 1..K /\ i \in 1..K /\ DOMAIN u = 1..N
        /\ \A j \in 1..K :
             /\ tree[j].path \in Seq(Tactics) /\ tree[j].pending \in Seq(Tactics)
             /\ tree[j].batch \in SUBSET Tactics
    <2>1. Len(tree) \in Nat /\ DOMAIN tree = 1..Len(tree)
      BY ONLY <1>0, TreeNodes
    <2>2. \A j \in DOMAIN tree :
             /\ tree[j].path \in Seq(Tactics) /\ tree[j].pending \in Seq(Tactics)
             /\ tree[j].batch \in SUBSET Tactics
      BY ONLY <1>0, TreeNodes
    <2>3. DOMAIN u = 1..Len(u)
      BY ONLY u \in Trees, TreeNodes
    <2> QED
      BY <2>1, <2>2, <2>3
  <1>1a. /\ N = K + 1 /\ 1 \in 1..K /\ tree # <<>>
         /\ \A j \in 1..N : j \in 1..K \/ j = N
         /\ \A j \in 1..K : j \in 1..N /\ j # N
         /\ N \in 1..N
    <2>1. K # 0 /\ K \in Nat
      BY ONLY <1>1
    <2> HIDE DEF K
    <2>2. tree # <<>>
      BY ONLY <2>1 DEF K
    <2> QED
      BY ONLY <2>1, <2>2 DEF N
  <1>2. /\ t0 \in Tactics /\ t0 \in ToSet(tree[i].pending)
        /\ Tail(tree[i].pending) \in Seq(Tactics) /\ IsInjective(Tail(tree[i].pending))
        /\ t0 \notin ToSet(Tail(tree[i].pending))
        /\ ToSet(tree[i].pending) = ToSet(Tail(tree[i].pending)) \cup {t0}
    <2>1. tree[i].pending \in Seq(Tactics) /\ IsInjective(tree[i].pending) /\ tree[i].pending # <<>>
      BY <1>1 DEF TreeSound, Tried
    <2> QED
      BY ONLY <2>1, TakenFirst
  <1>3. /\ new \in Seq(Tactics) /\ new # <<>> /\ Len(new) = Len(p) + 1 /\ Len(p) \in Nat
        /\ p \in Seq(Tactics)
    <2>1. p \in Seq(Tactics)
      BY <1>1
    <2> QED
      BY ONLY <1>2, <2>1, PathAppended
  \* The fields of the new tree.
  <1>4. \A j \in 1..K :
          /\ u[j].path = tree[j].path /\ u[j].signature = tree[j].signature
          /\ u[j].response = tree[j].response /\ u[j].terminal = tree[j].terminal
          /\ (Expanded(u[j]) <=> Expanded(tree[j])) /\ u[j].batch = tree[j].batch
          /\ (j # i => u[j].pending = tree[j].pending)
    BY DEF SamePlace
  <1>5. u[i].pending = Tail(tree[i].pending)
    BY <1>1
  <1>6. /\ u[N].path = new /\ u[N].signature = n.signature /\ u[N].response = n.response
        /\ u[N].terminal = n.terminal /\ ~Expanded(u[N]) /\ u[N].pending = <<>> /\ u[N].batch = {}
    BY DEF SamePlace, SameTactics
  <1>7. /\ Distinct(tree) /\ Rooted(tree) /\ Tried(tree) /\ Meant(tree) /\ Progress(tree)
        /\ i \in 1..K /\ Expanded(tree[i])
        /\ n.terminal \in {"", "lean_error", "cycle"}
        /\ n.terminal = "lean_error" => n.response = "failure"
        /\ n.signature # Fails => n.response = "open"
        /\ u \in Trees /\ tree \in Trees
    BY <1>1 DEF TreeSound
  <1>8. n.terminal = "cycle" =>
           /\ n.response = "open"
           /\ \E j \in 1..K : IsPrefix(tree[j].path, p) /\ tree[j].signature = n.signature
    BY <1>1
  <1>9. n.terminal = "" /\ n.response = "open" =>
           \A j \in 1..K : IsPrefix(tree[j].path, p) => tree[j].signature # n.signature
    BY <1>1
  <1> HIDE DEF new, t0, p, N, K
  \* Nothing of the old tree is at the new path or behind it.
  <1>10. \A j \in 1..K : tree[j].path # new
    <2> SUFFICES ASSUME NEW j \in 1..K, tree[j].path = new PROVE FALSE
      OBVIOUS
    <2>1. ChildBy(tree, i, t0, j)
      BY DEF ChildBy, new, p
    <2>2. t0 \notin ToSet(tree[i].pending)
      BY ONLY <1>1, <1>2, <1>7, <2>1 DEF Tried
    <2> QED
      BY ONLY <1>2, <2>2
  <1>11. \A j \in 1..K : ~IsPrefix(new, tree[j].path)
    BY ONLY <1>1, <1>3, <1>7, <1>10, NothingBehind
  <1>12. \A j \in 1..K : \A k \in 1..K : \A t \in Tactics :
           ChildBy(u, k, t, j) <=> ChildBy(tree, k, t, j)
    BY ONLY <1>4 DEF ChildBy
  <1>13. \A j \in 1..N : \A t \in Tactics : ~ChildBy(u, N, t, j)
    <2> SUFFICES ASSUME NEW j \in 1..N, NEW t \in Tactics, u[j].path = Append(new, t) PROVE FALSE
      BY <1>6 DEF ChildBy
    <2>1. /\ Append(new, t) \in Seq(Tactics) /\ Len(Append(new, t)) = Len(new) + 1
          /\ Len(new) \in Nat /\ \A x \in 1..Len(new) : Append(new, t)[x] = new[x]
      BY ONLY <1>3, PathAppended, t \in Tactics
    <2>2. IsPrefix(new, Append(new, t)) /\ Append(new, t) # new
      <3> DEFINE q == Append(new, t)
      <3> HIDE DEF q
      <3>1. /\ q \in Seq(Tactics) /\ Len(q) = Len(new) + 1
            /\ Len(new) \in Nat /\ \A x \in 1..Len(new) : new[x] = q[x]
        BY ONLY <2>1 DEF q
      <3>2. Len(new) <= Len(q) /\ q # new
        BY ONLY <3>1
      <3>3. IsPrefix(new, q)
        BY ONLY <1>3, <3>1, <3>2, BeginsWith
      <3> QED
        BY ONLY <3>2, <3>3 DEF q
    <2>3. j \in 1..K \/ j = N
      BY ONLY <1>1a, j \in 1..N
    <2> QED
      BY ONLY <1>4, <1>6, <1>11, <2>2, <2>3, u[j].path = Append(new, t)
  <1>14. \A k \in 1..K : \A t \in Tactics : ChildBy(u, k, t, N) <=> k = i /\ t = t0
    <2> TAKE k \in 1..K
    <2> TAKE t \in Tactics
    <2>1. ChildBy(u, k, t, N) <=> new = Append(tree[k].path, t)
      BY ONLY <1>4, <1>6, k \in 1..K DEF ChildBy
    <2>2. ASSUME new = Append(tree[k].path, t) PROVE k = i /\ t = t0
      <3>0. tree[k].path \in Seq(Tactics) /\ Append(p, t0) = Append(tree[k].path, t)
        BY ONLY <1>1, <2>2, k \in 1..K DEF new
      <3>1. p = tree[k].path /\ t0 = t
        BY ONLY <1>2, <1>3, <3>0, SamePath, t \in Tactics
      <3> QED
        BY ONLY <1>1, <1>7, <3>1, k \in 1..K DEF Distinct, p
    <2>3. k = i /\ t = t0 => new = Append(tree[k].path, t)
      BY DEF new, p
    <2> QED
      BY ONLY <2>1, <2>2, <2>3
  <1>15. \A j \in 1..N : j \in 1..K \/ j = N
    BY ONLY <1>1a
  <1>16. \A j \in 1..K : j \in 1..N /\ j # N
    BY ONLY <1>1a
  <1>17. N \in 1..N
    BY ONLY <1>1a
  <1>18. \A j \in 1..K : Ended(tree[j]) <=> Ended(u[j])
    BY ONLY <1>4 DEF Ended
  <1>19. Distinct(u)
    <2> SUFFICES ASSUME NEW k \in 1..N, NEW j \in 1..N, u[k].path = u[j].path PROVE k = j
      BY <1>1 DEF Distinct
    <2> QED
      <3>0. (k \in 1..K \/ k = N) /\ (j \in 1..K \/ j = N)
        BY ONLY <1>15, k \in 1..N, j \in 1..N
      <3>1. CASE k \in 1..K /\ j \in 1..K
        BY ONLY <1>1, <1>4, <1>7, <3>1, u[k].path = u[j].path DEF Distinct
      <3>2. ~(k \in 1..K /\ j = N) /\ ~(k = N /\ j \in 1..K)
        BY ONLY <1>4, <1>6, <1>10, u[k].path = u[j].path
      <3> QED
        BY ONLY <3>0, <3>1, <3>2
  <1>20. Rooted(u)
    <2>1. u[1].path = <<>> /\ u[1].response \notin {"failure", "complete"}
      BY ONLY <1>1a, <1>4, <1>7 DEF Rooted
    <2>2. ASSUME NEW j \in 1..N, u[j].path # <<>>
          PROVE  \E k \in 1..N : \E t \in Tactics : ChildBy(u, k, t, j)
      <3>1. CASE j \in 1..K
        <4>1. \E k \in 1..K : \E t \in Tactics : ChildBy(tree, k, t, j)
          BY ONLY <1>1, <1>4, <1>7, <2>2, <3>1 DEF Rooted
        <4> QED
          BY ONLY <1>12, <1>16, <3>1, <4>1
      <3>2. CASE j = N
        BY ONLY <1>2, <1>7, <1>14, <1>16, <3>2
      <3> QED
        BY ONLY <1>15, <2>2, <3>1, <3>2
    <2> QED
      BY ONLY <1>1, <2>1, <2>2 DEF Rooted
  <1>21. Tried(u)
    <2> SUFFICES ASSUME NEW k \in 1..N
        PROVE  /\ ~Expanded(u[k]) => u[k].pending = <<>>
               /\ IsInjective(u[k].pending)
               /\ \A t \in Tactics : \A j \in 1..N :
                    ChildBy(u, k, t, j) => Expanded(u[k]) /\ t \notin ToSet(u[k].pending)
               /\ \A t \in u[k].batch :
                    t \in ToSet(u[k].pending) \/ \E j \in 1..N : ChildBy(u, k, t, j)
               /\ Expanded(u[k]) =>
                    /\ Len(u[k].path) < MaxDepth /\ u[k].response # "failure"
                    /\ u[k].terminal \in {"", "all_children_dead"}
      BY <1>1 DEF Tried
    <2>1. CASE k = N
      <3>1. IsInjective(<<>>)
        BY ONLY NothingPending
      <3> QED
        BY ONLY <1>6, <1>13, <2>1, <3>1
    <2>2. CASE k \in 1..K
      <3>1. /\ ~Expanded(tree[k]) => tree[k].pending = <<>>
            /\ IsInjective(tree[k].pending)
            /\ \A t \in Tactics : \A j \in 1..K :
                 ChildBy(tree, k, t, j) => Expanded(tree[k]) /\ t \notin ToSet(tree[k].pending)
            /\ \A t \in tree[k].batch :
                 t \in ToSet(tree[k].pending) \/ \E j \in 1..K : ChildBy(tree, k, t, j)
            /\ Expanded(tree[k]) =>
                 /\ Len(tree[k].path) < MaxDepth /\ tree[k].response # "failure"
                 /\ tree[k].terminal \in {"", "all_children_dead"}
            /\ tree[k].batch \in SUBSET Tactics
        BY ONLY <1>1, <1>7, <2>2 DEF Tried
      <3>2. ToSet(u[k].pending) \subseteq ToSet(tree[k].pending)
        BY ONLY <1>2, <1>4, <1>5, <2>2
      <3>3. \A t \in ToSet(tree[k].pending) : t \in ToSet(u[k].pending) \/ (k = i /\ t = t0)
        BY ONLY <1>2, <1>4, <1>5, <2>2
      <3>4. \A t \in Tactics : \A j \in 1..N :
              ChildBy(u, k, t, j) => Expanded(u[k]) /\ t \notin ToSet(u[k].pending)
        <4> TAKE t \in Tactics
        <4> TAKE j \in 1..N
        <4>1. CASE j \in 1..K
          BY ONLY <1>4, <1>12, <2>2, <3>1, <3>2, <4>1, t \in Tactics
        <4>2. CASE j = N
          BY ONLY <1>2, <1>4, <1>5, <1>7, <1>14, <2>2, <4>2, t \in Tactics
        <4> QED
          BY ONLY <1>15, <4>1, <4>2, j \in 1..N
      <3>5. \A t \in u[k].batch :
              t \in ToSet(u[k].pending) \/ \E j \in 1..N : ChildBy(u, k, t, j)
        <4> TAKE t \in u[k].batch
        <4>1. t \in tree[k].batch /\ t \in Tactics
          BY ONLY <1>4, <2>2, <3>1, t \in u[k].batch
        <4>2. CASE t \in ToSet(tree[k].pending)
          BY ONLY <1>14, <1>17, <2>2, <3>3, <4>1, <4>2
        <4>3. CASE \E j \in 1..K : ChildBy(tree, k, t, j)
          BY ONLY <1>12, <1>16, <2>2, <4>1, <4>3
        <4> QED
          BY ONLY <3>1, <4>1, <4>2, <4>3
      <3>6. ~Expanded(u[k]) => u[k].pending = <<>>
        BY ONLY <1>4, <1>7, <2>2, <3>1
      <3>7. IsInjective(u[k].pending)
        BY ONLY <1>2, <1>4, <1>5, <2>2, <3>1
      <3> QED
        BY ONLY <1>4, <2>2, <3>1, <3>4, <3>5, <3>6, <3>7
    <2> QED
      BY ONLY <1>15, <2>1, <2>2, k \in 1..N
  <1>22. Meant(u)
    <2> SUFFICES ASSUME NEW j \in 1..N
        PROVE  /\ u[j].signature # Fails => u[j].response = "open"
               /\ u[j].response = "complete" => u[j].terminal = ""
               /\ u[j].terminal = "lean_error" => u[j].response = "failure"
               /\ u[j].terminal = "max_depth" => Len(u[j].path) >= MaxDepth
               /\ u[j].terminal = "all_children_dead" =>
                    Expanded(u[j]) /\ u[j].pending = <<>> /\ Barred(u, j)
               /\ u[j].terminal = "cycle" =>
                    /\ u[j].response = "open"
                    /\ \E k \in 1..N : Len(u[k].path) < Len(u[j].path)
                                       /\ u[k].signature = u[j].signature
      BY <1>1 DEF Meant
    <2>1. CASE j = N
      <3>1. ASSUME n.terminal = "cycle"
            PROVE  \E k \in 1..N : Len(u[k].path) < Len(new) /\ u[k].signature = n.signature
        <4>1. PICK k \in 1..K : IsPrefix(tree[k].path, p) /\ tree[k].signature = n.signature
          BY ONLY <1>8, <3>1
        <4>2. Len(tree[k].path) <= Len(p) /\ tree[k].path \in Seq(Tactics)
          BY ONLY <1>1, <1>3, <4>1, BeginsWith, k \in 1..K
        <4>3. Len(tree[k].path) < Len(new)
          BY ONLY <1>3, <4>2
        <4> QED
          BY ONLY <1>4, <1>16, <4>1, <4>3, k \in 1..K
      <3> QED
        BY ONLY <1>6, <1>7, <1>8, <2>1, <3>1
    <2>2. CASE j \in 1..K
      <3>1. /\ tree[j].signature # Fails => tree[j].response = "open"
            /\ tree[j].response = "complete" => tree[j].terminal = ""
            /\ tree[j].terminal = "lean_error" => tree[j].response = "failure"
            /\ tree[j].terminal = "max_depth" => Len(tree[j].path) >= MaxDepth
            /\ tree[j].terminal = "all_children_dead" =>
                 Expanded(tree[j]) /\ tree[j].pending = <<>> /\ Barred(tree, j)
            /\ tree[j].terminal = "cycle" =>
                 /\ tree[j].response = "open"
                 /\ \E k \in 1..K : Len(tree[k].path) < Len(tree[j].path)
                                    /\ tree[k].signature = tree[j].signature
        BY ONLY <1>1, <1>7, <2>2 DEF Meant
      <3>2. ASSUME tree[j].terminal = "all_children_dead"
            PROVE  Expanded(u[j]) /\ u[j].pending = <<>> /\ Barred(u, j)
        <4>1. j # i
          BY ONLY <3>1, <3>2, tree[i].pending # <<>>
        <4>2. \A t \in Tactics : \A k \in 1..K : ChildBy(tree, j, t, k) => Ended(tree[k])
          BY ONLY <1>1, <3>1, <3>2 DEF Barred
        <4>3. \A t \in Tactics : \A k \in 1..N : ChildBy(u, j, t, k) => Ended(u[k])
          BY ONLY <1>12, <1>14, <1>15, <1>18, <2>2, <4>1, <4>2
        <4>4. Barred(u, j)
          BY ONLY <1>1, <4>3 DEF Barred
        <4> QED
          BY ONLY <1>4, <2>2, <3>1, <3>2, <4>1, <4>4
      <3> QED
        BY ONLY <1>4, <1>16, <2>2, <3>1, <3>2
    <2> QED
      BY ONLY <1>15, <2>1, <2>2, j \in 1..N
  <1>23. Progress(u)
    <2> SUFFICES ASSUME NEW k \in 1..N, NEW j \in 1..N, j # k, IsPrefix(u[j].path, u[k].path),
                        ~Ended(u[k]), u[k].response = "open"
                 PROVE  u[j].signature # u[k].signature
      BY <1>1 DEF Progress
    <2>1. CASE k \in 1..K /\ j \in 1..K
      <3>1. ~Ended(tree[k]) /\ tree[k].response = "open" /\ IsPrefix(tree[j].path, tree[k].path)
        BY ONLY <1>4, <1>18, <2>1, ~Ended(u[k]), u[k].response = "open", IsPrefix(u[j].path, u[k].path)
      <3>2. tree[j].signature # tree[k].signature
        BY ONLY <1>1, <1>7, <2>1, <3>1, j # k DEF Progress
      <3> QED
        BY ONLY <1>4, <2>1, <3>2
    <2>2. CASE k = N /\ j \in 1..K
      <3>1. IsPrefix(tree[j].path, new) /\ tree[j].path # new
        BY ONLY <1>4, <1>6, <1>10, <2>2, IsPrefix(u[j].path, u[k].path)
      <3>2. IsPrefix(tree[j].path, p)
        BY ONLY <1>1, <1>2, <1>3, <2>2, <3>1, BeginsLonger DEF new
      <3>3. n.terminal = "" /\ n.response = "open"
        BY ONLY <1>6, <2>2, ~Ended(u[k]), u[k].response = "open" DEF Ended
      <3> QED
        BY ONLY <1>4, <1>6, <1>9, <2>2, <3>2, <3>3
    <2>3. CASE k \in 1..K /\ j = N
      BY ONLY <1>4, <1>6, <1>11, <2>3, IsPrefix(u[j].path, u[k].path)
    <2> QED
      BY ONLY <1>15, <2>1, <2>2, <2>3, k \in 1..N, j \in 1..N, j # k
  <1> QED
    BY ONLY <1>7, <1>19, <1>20, <1>21, <1>22, <1>23 DEF TreeSound

-----------------------------------------------------------------------------
(* The search.                                                              *)

\* While nothing went wrong the nodes are what Lean says of their paths.
NodesTrue ==
  Sure => \A i \in DOMAIN nodes :
    /\ nodes[i].response \in {"open", "failure", "complete"}
    /\ nodes[i].response = "open" =>
         /\ nodes[i].signature = GoalOf(problem, nodes[i].path)
         /\ nodes[i].signature # Fails /\ ~Complete(nodes[i].signature)
    /\ nodes[i].response = "failure" => GoalOf(problem, nodes[i].path) = Fails

Proof == Complete(GoalOf(problem, Solution))

SearchInv ==
  /\ TreeSound(nodes)
  /\ leaf # 0 => leaf \in DOMAIN nodes /\ Expanded(nodes[leaf]) /\ nodes[leaf].pending # <<>>
  /\ NodesTrue
  /\ stop = "" => \A i \in DOMAIN nodes : nodes[i].response # "complete"
  /\ stop = "solved" => nodes # <<>> /\ (CleanRun => Proof)

TraceSpace == {Unsolved} \cup [solved : {TRUE}, path : Seq(Tactics), clean : BOOLEAN]
ReplaysTrace(p, trace) ==
  trace.solved /\ trace.clean => Complete(Reaches(RootIn[p, PreambleOf[p]], trace.path))
TracesInv ==
  /\ traces \in [Problems -> TraceSpace]
  /\ \A p \in Problems : ReplaysTrace(p, traces[p])

MctsInv == CallsInv /\ SearchInv /\ TracesInv

LEMMA NoTree == TreeSound(<<>>)
  <1>1. <<>> \in Trees /\ DOMAIN <<>> = {}
    BY DEF Trees
  <1> QED
    BY <1>1 DEF TreeSound, Distinct, Rooted, Tried, Meant, Progress

LEMMA NoSearch ==
  ASSUME nodes = <<>>, leaf = 0, stop # "solved"
  PROVE  SearchInv
  <1>1. DOMAIN nodes = {}
    OBVIOUS
  <1> QED
    BY <1>1, NoTree DEF SearchInv, NodesTrue

LEMMA NoSearchNext ==
  ASSUME nodes' = <<>>, leaf' = 0, stop' # "solved"
  PROVE  SearchInv'
  <1>1. DOMAIN nodes' = {}
    OBVIOUS
  <1>2. TreeSound(nodes')
    BY NoTree
  <1>3. NodesTrue'
    BY <1>1 DEF NodesTrue
  <1> QED
    BY <1>1, <1>2, <1>3 DEF SearchInv

\* The LeanREPL stays as it is.
ReplKept == UNCHANGED <<processVars, cached, faults>>

LEMMA NothingAsked ==
  ASSUME ReplInv, ReplKept, ask' = Quiet, reply' = Quiet, CallInv'
  PROVE  CallsInv'
  <1>1. ReplTypes'
    BY DEF ReplInv, ReplTypes, ProcessTypes, ReplKept, processVars
  <1>2. Accounted' /\ (faults' = 0 => ProcessClean')
    BY DEF ReplInv, Accounted, ProcessClean, ReplKept, processVars
  <1>3. RequestOf(ask)' /\ RequestTrue' /\ ReplyTrue'
    BY DEF RequestOf, RequestTrue, ReplyTrue
  <1> QED
    BY <1>1, <1>2, <1>3 DEF CallsInv, ReplInv

LEMMA IsAsked ==
  ASSUME ReplInv, ReplKept, NEW p \in Problems, NEW path \in Seq(Tactics), Check(p, path),
         reply' = Quiet, CallInv', path = Target', p = problem'
  PROVE  CallsInv'
  <1> DEFINE env == cached[PreambleOf[p]]
             what == IF env = NoEnv THEN "preamble" ELSE WithTheorem(path)
  <1>1. PreambleOf[p] \in Preambles /\ cached \in [Preambles -> Nat \cup {NoEnv}]
    BY ReplAssumption DEF ReplInv, ReplTypes
  <1>2. env \in Nat \cup {NoEnv}
    BY <1>1
  <1>3. /\ what \in {"preamble", "whole", "prefix"} /\ (what # "preamble" => env # NoEnv)
        /\ (what = "whole" => path # <<>>) /\ (what = "prefix" => path = <<>>)
    BY WithTheoremIs
  <1>4. ask' = [what |-> what, problem |-> p, path |-> path, env |-> env]
    BY DEF Check
  <1> HIDE DEF env, what
  <1>5. /\ ask' \in Requests /\ ask'.what = what /\ ask'.problem = p /\ ask'.path = path
        /\ ask'.env = env
    BY <1>2, <1>3, <1>4 DEF Requests
  <1>6. ReplTypes'
    BY <1>5 DEF ReplInv, ReplTypes, ProcessTypes, ReplKept, processVars
  <1>7. Accounted' /\ (faults' = 0 => ProcessClean')
    BY DEF ReplInv, Accounted, ProcessClean, ReplKept, processVars
  <1>8. RequestOf(ask)'
    <2>1. ask'.env = cached'[PreambleOf[ask'.problem]]
      BY <1>5 DEF env, ReplKept
    <2> QED
      BY <1>3, <1>5, <2>1 DEF RequestOf
  <1>9. RequestTrue' /\ ReplyTrue'
    BY <1>3, <1>5 DEF RequestTrue, ReplyTrue
  <1> QED
    BY <1>6, <1>7, <1>8, <1>9 DEF CallsInv, ReplInv

\* What a step of the LeanREPL leaves of what is known.
LEMMA ReplStepKeeps ==
  ASSUME CallsInv, ReplStep
  PROVE  (Sure' => Sure) /\ (ask = Quiet => (CleanRun' => CleanRun))
  <1>1. ReplTypes /\ UNCHANGED searchVars
    BY DEF CallsInv, ReplInv, ReplStep
  <1>2. ASSUME ask # Quiet PROVE Asks(ask)
    BY <1>2, AskIs
  <1>3. CASE PreambleLoaded
    <2>1. ask # Quiet /\ (Replied(ask) \/ Unanswered(ask))
      BY <1>3 DEF PreambleLoaded, Quiet
    <2> QED
      BY <1>1, <1>2, <2>1, ReplyExchanged, UnansweredExchanged DEF Exchanged
  <1>4. CASE WholeChecked
    <2>1. ask # Quiet /\ (Replied(ask) \/ Unanswered(ask))
      <3>1. ask.what # "nothing" /\ (Replied(ask) \/ Unanswered(ask))
        BY <1>4, Zenon DEF WholeChecked
      <3> QED
        BY <3>1 DEF Quiet
    <2> QED
      BY <1>1, <1>2, <2>1, ReplyExchanged, UnansweredExchanged DEF Exchanged
  <1>5. CASE PrefixChecked
    <2>1. ask # Quiet /\ (Replied(ask) \/ Unanswered(ask))
      <3>1. ask.what # "nothing" /\ (Replied(ask) \/ Unanswered(ask))
        BY <1>5, Zenon DEF PrefixChecked
      <3> QED
        BY <3>1 DEF Quiet
    <2> QED
      BY <1>1, <1>2, <2>1, ReplyExchanged, UnansweredExchanged DEF Exchanged
  <1>6. CASE FoundDead
    BY <1>1, <1>6, DeathExchanged DEF FoundDead, Exchanged
  <1>7. CASE Beat
    <2> DEFINE request == [what |-> "beat", env |-> 0]
    <2>1. Asks(request) /\ (Replied(request) \/ TimedOut(request)) /\ UNCHANGED cached
      BY <1>7 DEF Asks, Beat
    <2> HIDE DEF request
    <2>2. Exchanged
      BY <1>1, <2>1, ReplyExchanged, TimeoutExchanged
    <2> QED
      BY <1>1, <2>1, <2>2 DEF Exchanged, ProcessClean, CleanRun, searchVars
  <1> QED
    BY <1>3, <1>4, <1>5, <1>6, <1>7 DEF ReplStep

LEMMA ReplStepInv ==
  ASSUME MctsInv, ReplStep
  PROVE  MctsInv'
  <1>1. UNCHANGED searchVars
    BY DEF ReplStep
  <1>2. CallsInv'
    BY ReplStepCalls DEF MctsInv
  <1>3. (Sure' => Sure) /\ (ask = Quiet => (CleanRun' => CleanRun))
    BY ReplStepKeeps DEF MctsInv
  <1>4. stop = "solved" => ask = Quiet
    BY DEF MctsInv, CallsInv, CallInv, Calling
  <1>5. SearchInv'
    <2>1. TreeSound(nodes')
      BY <1>1 DEF MctsInv, SearchInv, searchVars
    <2>2. Proof' <=> Proof
      BY <1>1 DEF Proof, Solution, searchVars
    <2>3. NodesTrue'
      BY <1>1, <1>3 DEF MctsInv, SearchInv, NodesTrue, searchVars
    <2> QED
      BY <1>1, <1>3, <1>4, <2>1, <2>2, <2>3 DEF MctsInv, SearchInv, searchVars
  <1>6. TracesInv'
    BY <1>1 DEF MctsInv, TracesInv, searchVars
  <1> QED
    BY <1>2, <1>5, <1>6 DEF MctsInv

LEMMA StartInv ==
  ASSUME MctsInv, StartProblem
  PROVE  MctsInv'
  <1>1. /\ stop = "saved" /\ todo # <<>> /\ todo' = Tail(todo) /\ problem' = Head(todo)
        /\ nodes' = <<>> /\ leaf' = 0 /\ stop' = "" /\ Check(Head(todo), <<>>) /\ reply' = Quiet
        /\ ReplKept /\ traces' = traces
    BY DEF StartProblem, ReplKept
  <1>2. /\ todo \in Seq(Problems) /\ Head(todo) \in Problems /\ Tail(todo) \in Seq(Problems)
    <2>1. todo \in Seq(Problems) /\ todo # <<>>
      BY <1>1 DEF MctsInv, CallsInv, CallInv
    <2> QED
      BY ONLY <2>1
  <1>3. Target' = <<>> /\ <<>> \in Seq(Tactics)
    <2>1. Target' = <<>>
      BY <1>1 DEF Target
    <2> QED
      BY ONLY <2>1, NothingPending
  <1>4. ask'.problem = Head(todo) /\ ask'.path = <<>> /\ ask'.what # "nothing"
    BY <1>1, WithTheoremIs DEF Check
  <1>5. ask' # Quiet
    BY <1>4 DEF Quiet
  <1>6. CallInv'
    BY <1>1, <1>2, <1>3, <1>4, <1>5 DEF CallInv, Calling, StopReasons
  <1>7. CallsInv'
    BY <1>1, <1>2, <1>3, <1>6, IsAsked DEF MctsInv, CallsInv
  <1>8. SearchInv'
    BY <1>1, NoSearchNext
  <1> QED
    BY <1>1, <1>7, <1>8 DEF MctsInv, TracesInv

LEMMA InitInv ==
  ASSUME MctsInit
  PROVE  MctsInv
  <1>1. ReplInv
    <2>1. /\ envs = <<>> /\ late = <<>> /\ known = {} /\ faults = 0
          /\ cached = [p \in Preambles |-> NoEnv] /\ ask = Quiet /\ reply = Quiet
          /\ shifted = FALSE /\ replaced = FALSE
      BY DEF MctsInit, ReplInit
    <2>2. envs \in Seq(Behinds) /\ late \in Seq(LateSpace) /\ Len(late) = 0
      BY <2>1
    <2>3. ReplTypes
      BY <2>1, <2>2 DEF ReplTypes, ProcessTypes
    <2>4. Accounted /\ RequestOf(ask) /\ ProcessClean
      BY <2>1 DEF Accounted, RequestOf, ProcessClean
    <2> QED
      BY <2>3, <2>4 DEF ReplInv
  <1>2. CallInv /\ RequestTrue /\ ReplyTrue
    <2>1. /\ todo = Dataset /\ nodes = <<>> /\ leaf = 0 /\ stop = "saved"
          /\ ask = Quiet /\ reply = Quiet
      BY DEF MctsInit, ReplInit
    <2>2. todo \in Seq(Problems)
      BY <2>1, MctsAssumption
    <2> QED
      BY <2>1, <2>2 DEF CallInv, Calling, StopReasons, RequestTrue, ReplyTrue
  <1>3. SearchInv
    BY NoSearch DEF MctsInit
  <1>4. TracesInv
    BY DEF MctsInit, TracesInv, TraceSpace, ReplaysTrace, Unsolved
  <1> QED
    BY <1>1, <1>2, <1>3, <1>4 DEF MctsInv, CallsInv

LEMMA StutterInv ==
  ASSUME MctsInv, UNCHANGED mctsVars
  PROVE  MctsInv'
  <1>1. UNCHANGED searchVars /\ UNCHANGED <<processVars, cached, ask, reply, faults, beats>>
    BY DEF mctsVars, replVars
  <1>2. Exchanged
    <2>1. ReplTypes /\ UNCHANGED <<envs, late, known, shifted, replaced>> /\ faults \in Nat
          /\ UNCHANGED <<faults, life>>
      BY <1>1 DEF MctsInv, CallsInv, ReplInv, ReplTypes, ProcessTypes, processVars
    <2> QED
      BY <2>1, SameProcess DEF Sure
  <1>3. CallsInv'
    BY <1>1, <1>2, CallStays DEF MctsInv
  <1>4. (Sure' <=> Sure) /\ (CleanRun' <=> CleanRun) /\ (Proof' <=> Proof)
    BY <1>1 DEF Sure, CleanRun, Proof, Solution, processVars, searchVars
  <1>5. TreeSound(nodes')
    BY <1>1 DEF MctsInv, SearchInv, searchVars
  <1>6. NodesTrue'
    BY <1>1, <1>4 DEF MctsInv, SearchInv, NodesTrue, searchVars
  <1>7. SearchInv'
    BY <1>1, <1>4, <1>5, <1>6 DEF MctsInv, SearchInv, searchVars
  <1> QED
    BY <1>1, <1>3, <1>7 DEF MctsInv, TracesInv, searchVars

LEMMA StopInv ==
  ASSUME MctsInv, StopSearch
  PROVE  MctsInv'
  <1>1. /\ stop = "" /\ leaf = 0 /\ ask = Quiet /\ nodes # <<>>
        /\ stop' \in {"timeout", "max_nodes"}
        /\ ReplKept /\ UNCHANGED <<ask, reply, todo, problem, nodes, leaf, traces>>
    BY DEF StopSearch, Searching, replVars, ReplKept
  <1>2. reply = Quiet
    BY <1>1 DEF MctsInv, CallsInv, CallInv, Calling
  <1>3. CallInv'
    BY <1>1, <1>2 DEF MctsInv, CallsInv, CallInv, Calling, StopReasons
  <1>4. CallsInv'
    BY <1>1, <1>2, <1>3, NothingAsked DEF MctsInv, CallsInv
  <1>5. Sure' <=> Sure
    BY <1>1 DEF Sure, ReplKept, processVars
  <1>6. NodesTrue'
    BY <1>1, <1>5 DEF MctsInv, SearchInv, NodesTrue
  <1>7. SearchInv'
    BY <1>1, <1>6 DEF MctsInv, SearchInv
  <1> QED
    BY <1>1, <1>4, <1>7 DEF MctsInv, TracesInv

LEMMA ReplyIs ==
  ASSUME MctsInv, reply # Quiet
  PROVE  /\ reply \in Replies /\ ask = Quiet /\ stop = "" /\ (leaf = 0 <=> nodes = <<>>)
         /\ problem \in Problems /\ PreambleOf[problem] \in Preambles
         /\ Target \in Seq(Tactics) /\ Goal \in States
         /\ reply.what = "complete" => Target # <<>> /\ (CleanRun => Complete(Goal))
         /\ Sure =>
              /\ reply.what \in {"open", "failure", "complete"}
              /\ reply.what = "open" => reply.state = Goal /\ Goal # Fails /\ ~Complete(Goal)
              /\ reply.what = "failure" /\ Target # <<>> => Goal = Fails
  <1>1. reply \in Replies
    BY DEF MctsInv, CallsInv, ReplInv, ReplTypes
  <1>2. CallInv /\ ask = Quiet /\ stop = "" /\ (leaf = 0 <=> nodes = <<>>)
    BY DEF MctsInv, CallsInv, CallInv, Calling
  <1>3. stop # "saved"
    BY <1>2
  <1>4. ReplyTrue
    BY DEF MctsInv, CallsInv
  <1> QED
    BY <1>1, <1>2, <1>3, <1>4, GoalTyped, TargetTyped DEF ReplyTrue

LEMMA FirstNode ==
  ASSUME NEW response \in Replies
  PROVE  /\ Node(<<>>, response, "") \in NodeSpace
         /\ Node(<<>>, response, "").path = <<>>
         /\ Node(<<>>, response, "").signature = Signature(response)
         /\ Node(<<>>, response, "").response = response.what
         /\ Node(<<>>, response, "").terminal = ""
         /\ Node(<<>>, response, "").batch = {}
         /\ Node(<<>>, response, "").pending = <<>>
         /\ ~Expanded(Node(<<>>, response, ""))
  <1>1. <<>> \in Seq(Tactics) /\ "" \in Reasons
    BY NothingPending DEF Reasons
  <1> QED
    BY <1>1, NodeIs

LEMMA RootInv ==
  ASSUME MctsInv, RootChecked
  PROVE  MctsInv'
  <1>1. /\ nodes = <<>> /\ reply # Quiet /\ reply' = Quiet /\ ask' = ask /\ ReplKept
        /\ UNCHANGED <<todo, problem, leaf, traces>>
    BY DEF RootChecked, ReplKept
  <1>2. /\ reply \in Replies /\ ask = Quiet /\ stop = "" /\ leaf = 0
        /\ problem \in Problems
    BY <1>1, ReplyIs
  <1>3. /\ Target = <<>> /\ Goal = GoalOf(problem, <<>>)
    BY <1>2 DEF Target, Goal
  <1>4. todo \in Seq(Problems)
    BY DEF MctsInv, CallsInv, CallInv
  <1>5. Sure' <=> Sure
    BY <1>1 DEF Sure, ReplKept, processVars
  <1>6. TracesInv'
    BY <1>1 DEF MctsInv, TracesInv
  <1>7. CASE reply.what = "failure"
    <2>1. stop' = "root_error" /\ nodes' = <<>>
      BY <1>1, <1>7 DEF RootChecked
    <2>2. CallInv'
      BY <1>1, <1>2, <1>4, <2>1 DEF CallInv, Calling, StopReasons
    <2>3. CallsInv'
      BY <1>1, <1>2, <2>2, NothingAsked DEF MctsInv, CallsInv
    <2>4. SearchInv'
      BY <1>1, <1>2, <2>1, NoSearchNext
    <2> QED
      BY <1>6, <2>3, <2>4 DEF MctsInv
  <1>8. CASE reply.what # "failure"
    <2> DEFINE n == Node(<<>>, reply, "")
    <2>1. stop' = "" /\ nodes' = <<n>>
      BY <1>1, <1>2, <1>8 DEF RootChecked
    <2>2. reply.what # "complete"
      BY <1>1, <1>3, ReplyIs
    <2>3. /\ n \in NodeSpace /\ n.path = <<>> /\ n.signature = Signature(reply)
          /\ n.response = reply.what /\ n.terminal = "" /\ n.batch = {} /\ n.pending = <<>>
          /\ ~Expanded(n)
      BY <1>2, FirstNode
    <2> HIDE DEF n
    <2>4. DOMAIN nodes' = {1} /\ nodes'[1] = n /\ nodes' # <<>>
      BY <2>1, <2>3, OnlyNode
    <2>5. n.signature # Fails => n.response = "open"
      BY <2>3 DEF Signature
    <2>6. TreeSound(nodes')
      BY <1>8, <2>1, <2>2, <2>3, <2>5, RootSound
    <2>7. CallInv'
      BY <1>1, <1>2, <1>4, <2>1, <2>4 DEF CallInv, Calling, StopReasons
    <2>8. CallsInv'
      BY <1>1, <1>2, <2>7, NothingAsked DEF MctsInv, CallsInv
    <2>9. NodesTrue'
      <3> SUFFICES ASSUME Sure
            PROVE  /\ n.response \in {"open", "failure", "complete"}
                   /\ n.response = "open" =>
                        /\ n.signature = GoalOf(problem, n.path)
                        /\ n.signature # Fails /\ ~Complete(n.signature)
                   /\ n.response = "failure" => GoalOf(problem, n.path) = Fails
        BY <1>1, <1>5, <2>4 DEF NodesTrue
      <3>1. /\ reply.what \in {"open", "failure", "complete"}
            /\ reply.what = "open" => reply.state = Goal /\ Goal # Fails /\ ~Complete(Goal)
        BY <1>1, ReplyIs
      <3>2. reply.what = "open" => n.signature = Goal
        BY <2>3, <3>1 DEF Signature
      <3> QED
        BY <1>3, <1>8, <2>2, <2>3, <3>1, <3>2
    <2>10. SearchInv'
      BY <1>1, <1>2, <2>1, <2>2, <2>3, <2>4, <2>6, <2>9 DEF SearchInv
    <2> QED
      BY <1>6, <2>8, <2>10 DEF MctsInv
  <1> QED
    BY <1>7, <1>8

LEMMA SolutionTyped ==
  ASSUME MctsInv, nodes # <<>>
  PROVE  Len(nodes) \in DOMAIN nodes /\ Solution \in Seq(Tactics)
  <1>1. /\ nodes \in Trees /\ Len(nodes) \in Nat /\ DOMAIN nodes = 1..Len(nodes)
    BY TreeNodes DEF MctsInv, SearchInv, TreeSound
  <1>2. Len(nodes) # 0
    BY <1>1 DEF Trees
  <1>3. Len(nodes) \in DOMAIN nodes
    BY <1>1, <1>2
  <1> QED
    BY <1>1, <1>3, TreeNodes DEF Solution, Last

LEMMA SaveInv ==
  ASSUME MctsInv, SaveTrace
  PROVE  MctsInv'
  <1> DEFINE trace == IF stop = "solved"
                      THEN [solved |-> TRUE, path |-> Solution, clean |-> CleanRun] ELSE Unsolved
  <1>1. /\ stop \notin {"", "saved"} /\ traces' = [traces EXCEPT ![problem] = trace]
        /\ stop' = "saved" /\ nodes' = <<>>
        /\ ReplKept /\ UNCHANGED <<ask, reply, todo, leaf>>
    BY DEF SaveTrace, ReplKept, replVars
  <1>2. /\ problem \in Problems /\ ask = Quiet /\ reply = Quiet /\ leaf = 0
        /\ todo \in Seq(Problems)
    BY <1>1 DEF MctsInv, CallsInv, CallInv, Calling
  <1>3. trace \in TraceSpace /\ ReplaysTrace(problem, trace)
    <2>1. CASE stop = "solved"
      <3>1. nodes # <<>> /\ (CleanRun => Proof)
        BY <2>1 DEF MctsInv, SearchInv
      <3>2. Solution \in Seq(Tactics)
        BY <3>1, SolutionTyped
      <3>3. CleanRun \in BOOLEAN
        BY DEF CleanRun
      <3>4. trace = [solved |-> TRUE, path |-> Solution, clean |-> CleanRun]
        BY <2>1
      <3>5. trace \in TraceSpace
        BY <3>2, <3>3, <3>4 DEF TraceSpace
      <3>6. trace.path = Solution /\ (trace.clean <=> CleanRun)
        BY <3>3, <3>4
      <3>7. Proof <=> Complete(Reaches(RootIn[problem, PreambleOf[problem]], Solution))
        BY DEF Proof, GoalOf, Root
      <3> HIDE DEF trace
      <3>8. ReplaysTrace(problem, trace)
        BY <3>1, <3>6, <3>7, Zenon DEF ReplaysTrace
      <3> QED
        BY <3>5, <3>8
    <2>2. CASE stop # "solved"
      <3>1. trace = Unsolved
        BY <2>2
      <3> HIDE DEF trace
      <3> QED
        BY <3>1 DEF TraceSpace, ReplaysTrace, Unsolved
    <2> QED
      BY <2>1, <2>2
  <1> HIDE DEF trace
  <1>4. TracesInv'
    BY <1>1, <1>2, <1>3 DEF MctsInv, TracesInv
  <1>5. CallInv'
    BY <1>1, <1>2 DEF CallInv, Calling, StopReasons
  <1>6. CallsInv'
    BY <1>1, <1>2, <1>5, NothingAsked DEF MctsInv, CallsInv
  <1>7. SearchInv'
    BY <1>1, <1>2, NoSearchNext
  <1> QED
    BY <1>4, <1>6, <1>7 DEF MctsInv

KeptOf(files) ==
  CHOOSE kept : kept = [n \in 0..Len(Dataset) |->
    IF n = 0 THEN <<>>
    ELSE IF files[Dataset[n]].solved THEN kept[n - 1] ELSE Append(kept[n - 1], Dataset[n])]

\* The problems to be searched again are a sequence of problems.
LEMMA ToSearchTyped ==
  ASSUME NEW files
  PROVE  ToSearch(files) \in Seq(Problems)
  <1> DEFINE K == Len(Dataset)
             V == Seq(Problems)
             Solved0(n) == files[Dataset[n]].solved
             step == [n \in 1..K |-> [x \in V |-> IF Solved0(n) THEN x ELSE Append(x, Dataset[n])]]
  <1>1. Dataset \in Seq(Problems) /\ K \in Nat /\ \A n \in 1..K : Dataset[n] \in Problems
    <2>1. Dataset \in Seq(Problems)
      BY MctsAssumption
    <2> QED
      BY <2>1
  <1>2. <<>> \in V
    OBVIOUS
  <1> HIDE DEF K, Solved0
  <1>3. \A n \in 1..K : step[n] \in [V -> V]
    <2>1. \A n \in 1..K : \A x \in V : Append(x, Dataset[n]) \in V
      BY <1>1
    <2> QED
      BY <2>1
  <1>4. PICK f \in [0..K -> V] : Computes(f, K, <<>>, step)
    <2> HIDE DEF step, V
    <2> QED
      BY <1>1, <1>2, <1>3, RecursionExists
  <1>5. \A n \in 0..K : n # 0 =>
          step[n][f[n - 1]] = IF Solved0(n) THEN f[n - 1] ELSE Append(f[n - 1], Dataset[n])
    <2> TAKE n \in 0..K
    <2> HAVE n # 0
    <2>1. n \in 1..K /\ n - 1 \in 0..K
      BY <1>1
    <2>2. f[n - 1] \in V
      BY <2>1
    <2> HIDE DEF V
    <2> QED
      BY <2>1, <2>2
  <1>6. f = [n \in 0..K |-> IF n = 0 THEN <<>>
                            ELSE IF Solved0(n) THEN f[n - 1] ELSE Append(f[n - 1], Dataset[n])]
    <2> HIDE DEF step, V
    <2> QED
      BY <1>4, <1>5 DEF Computes
  <1>7. KeptOf(files) = [n \in 0..K |-> IF n = 0 THEN <<>>
                            ELSE IF Solved0(n) THEN KeptOf(files)[n - 1]
                                 ELSE Append(KeptOf(files)[n - 1], Dataset[n])]
    <2>1. \E kept : kept = [n \in 0..K |-> IF n = 0 THEN <<>>
                            ELSE IF Solved0(n) THEN kept[n - 1] ELSE Append(kept[n - 1], Dataset[n])]
      BY <1>6
    <2> QED
      BY <2>1 DEF KeptOf, K, Solved0
  <1> DEFINE k == KeptOf(files)
  <1>8. k[0] = <<>> /\ \A n \in 1..K : k[n] = IF Solved0(n) THEN k[n - 1] ELSE Append(k[n - 1], Dataset[n])
    <2> HIDE DEF k
    <2>0. \A n \in 0..K : k[n] = IF n = 0 THEN <<>>
                            ELSE IF Solved0(n) THEN k[n - 1] ELSE Append(k[n - 1], Dataset[n])
      BY <1>7, Zenon DEF k
    <2>1. \A n \in 1..K : n \in 0..K /\ n # 0
      BY <1>1
    <2>2. 0 \in 0..K
      BY <1>1
    <2> QED
      BY <2>0, <2>1, <2>2, Zenon
  <1>9. ToSearch(files) = k[K]
    BY DEF ToSearch, KeptOf, K
  <1> HIDE DEF k
  <1>10. \A n \in 1..K : k[n - 1] \in V => k[n] \in V
    <2> TAKE n \in 1..K
    <2> HAVE k[n - 1] \in V
    <2>1. Append(k[n - 1], Dataset[n]) \in V
      BY <1>1
    <2>2. k[n] \in {k[n - 1], Append(k[n - 1], Dataset[n])}
      BY <1>8, Zenon
    <2> HIDE DEF V
    <2> QED
      BY <2>1, <2>2
  <1>11. \A n \in 0..K : k[n] \in V
    <2> HIDE DEF V
    <2> QED
      BY <1>1, <1>2, <1>8, <1>10, RecursionStays
  <1> QED
    BY <1>1, <1>9, <1>11

LEMMA AgainInv ==
  ASSUME MctsInv, RunAgain
  PROVE  MctsInv'
  <1>1. /\ traces' = traces \/ (stop \notin {"", "saved"} /\ traces' = [traces EXCEPT ![problem] = Unsolved])
        /\ todo' = Dataset \/ todo' = ToSearch(traces')
        /\ nodes' = <<>> /\ leaf' = 0 /\ stop' = "saved" /\ Created /\ faults' = faults
    BY DEF RunAgain
  <1>2. /\ envs' = <<>> /\ late' = <<>> /\ known' = {}
        /\ cached' = [p \in Preambles |-> NoEnv] /\ ask' = Quiet /\ reply' = Quiet
        /\ shifted' = FALSE /\ replaced' = FALSE
    BY <1>1 DEF Created
  <1>3. todo' \in Seq(Problems)
    BY <1>1, ToSearchTyped, MctsAssumption
  <1>4. TracesInv'
    <2>1. TracesInv
      BY DEF MctsInv
    <2>2. Unsolved \in TraceSpace /\ \A p \in Problems : ReplaysTrace(p, Unsolved)
      BY DEF TraceSpace, ReplaysTrace, Unsolved
    <2> QED
      BY ONLY <1>1, <2>1, <2>2 DEF TracesInv
  <1>5. ReplInv'
    <2>0. faults \in Nat
      BY DEF MctsInv, CallsInv, ReplInv, ReplTypes, ProcessTypes
    <2>1. envs' \in Seq(Behinds) /\ late' \in Seq(LateSpace) /\ Len(late') = 0 /\ faults' \in Nat
      <3>1. envs' = <<>> /\ late' = <<>>
        BY <1>2
      <3>2. faults' \in Nat
        BY <1>1, <2>0
      <3> QED
        BY ONLY <3>1, <3>2
    <2>2. ReplTypes'
      BY <1>2, <2>1 DEF ReplTypes, ProcessTypes
    <2>3. Accounted' /\ RequestOf(ask)' /\ ProcessClean'
      BY <1>2 DEF Accounted, RequestOf, ProcessClean
    <2> QED
      BY <2>2, <2>3 DEF ReplInv
  <1>6. CallInv' /\ RequestTrue' /\ ReplyTrue'
    BY <1>1, <1>2, <1>3 DEF CallInv, Calling, StopReasons, RequestTrue, ReplyTrue
  <1>7. SearchInv'
    BY <1>1, NoSearchNext
  <1> QED
    BY <1>4, <1>5, <1>6, <1>7 DEF MctsInv, CallsInv

LEMMA NotEmpty ==
  ASSUME NEW s, NEW x \in DOMAIN s
  PROVE  s # <<>>
  <1>1. DOMAIN <<>> = {}
    OBVIOUS
  <1> QED
    BY <1>1

LEMMA NodesNow ==
  ASSUME MctsInv
  PROVE  /\ TreeSound(nodes) /\ nodes \in Trees
         /\ Len(nodes) \in Nat /\ DOMAIN nodes = 1..Len(nodes)
         /\ \A i \in DOMAIN nodes :
              /\ nodes[i] \in NodeSpace /\ nodes[i].path \in Seq(Tactics)
              /\ nodes[i].signature \in States /\ nodes[i].response \in Responses
              /\ nodes[i].terminal \in Reasons /\ nodes[i].batch \in SUBSET Tactics
              /\ nodes[i].pending \in Seq(Tactics)
  <1>1. TreeSound(nodes) /\ nodes \in Trees
    BY DEF MctsInv, SearchInv, TreeSound
  <1> QED
    BY ONLY <1>1, TreeNodes

LEMMA DeadIs ==
  ASSUME NEW i
  PROVE  Dead(i) <=> Ended(nodes[i])
  BY DEF Dead, Ended

LEMMA ExpandedIs ==
  ASSUME NEW i, nodes[i] \in NodeSpace
  PROVE  Expanded(nodes[i]) <=> nodes[i].expanded
  <1>1. nodes[i].expanded \in BOOLEAN
    BY NodeFields
  <1> QED
    BY <1>1 DEF Expanded

LEMMA ChildrenAre ==
  ASSUME MctsInv, NEW i \in DOMAIN nodes, NEW j \in DOMAIN nodes
  PROVE  j \in Children(i) <=> \E t \in Tactics : ChildBy(nodes, i, t, j)
  <1> DEFINE p == nodes[i].path
             q == nodes[j].path
  <1>1. p \in Seq(Tactics) /\ q \in Seq(Tactics)
    BY NodesNow
  <1>2. j \in Children(i) <=> q # <<>> /\ Front(q) = p
    BY DEF Children
  <1>3. ASSUME NEW t \in Tactics PROVE ChildBy(nodes, i, t, j) <=> q = Append(p, t)
    BY DEF ChildBy
  <1> HIDE DEF p, q
  <1>4. ASSUME q # <<>>, Front(q) = p PROVE \E t \in Tactics : q = Append(p, t)
    BY <1>1, <1>4, PathFront
  <1>5. ASSUME NEW t \in Tactics, q = Append(p, t) PROVE q # <<>> /\ Front(q) = p
    BY <1>1, <1>5, PathAppended
  <1> QED
    BY <1>2, <1>3, <1>4, <1>5

LEMMA BarredIs ==
  ASSUME MctsInv, NEW i \in DOMAIN nodes
  PROVE  LiveChildren(i) = {} <=> Barred(nodes, i)
  <1>1. \A j \in Children(i) : j \in DOMAIN nodes
    BY DEF Children
  <1>2. LiveChildren(i) = {} <=> \A j \in Children(i) : Ended(nodes[j])
    BY DeadIs DEF LiveChildren
  <1> QED
    BY <1>1, <1>2, ChildrenAre DEF Barred

\* The root is given up only when all its children are.
LEMMA RootEnded ==
  ASSUME MctsInv, 1 \in DOMAIN nodes, Ended(nodes[1])
  PROVE  /\ nodes[1].terminal = "all_children_dead"
         /\ Expanded(nodes[1]) /\ nodes[1].pending = <<>> /\ Barred(nodes, 1)
  <1>1. /\ TreeSound(nodes) /\ nodes[1].terminal \in Reasons /\ nodes # <<>>
        /\ \A j \in DOMAIN nodes : Len(nodes[j].path) \in Nat
    BY NodesNow
  <1>2. nodes[1].path = <<>> /\ nodes[1].response # "failure"
    BY <1>1 DEF TreeSound, Rooted
  <1>3. Len(nodes[1].path) = 0
    BY <1>2
  <1>4. /\ nodes[1].terminal = "lean_error" => nodes[1].response = "failure"
        /\ nodes[1].terminal = "max_depth" => Len(nodes[1].path) >= MaxDepth
        /\ nodes[1].terminal = "all_children_dead" =>
             Expanded(nodes[1]) /\ nodes[1].pending = <<>> /\ Barred(nodes, 1)
        /\ nodes[1].terminal = "cycle" =>
             \E j \in DOMAIN nodes : Len(nodes[j].path) < Len(nodes[1].path)
    BY <1>1 DEF TreeSound, Meant
  <1>5. nodes[1].terminal # "max_depth"
    BY <1>3, <1>4, MaxDepthPositive
  <1>6. nodes[1].terminal # "cycle"
    BY <1>1, <1>3, <1>4
  <1>7. nodes[1].terminal # ""
    BY <1>2 DEF Ended
  <1> QED
    BY <1>1, <1>2, <1>4, <1>5, <1>6, <1>7 DEF Reasons

LEMMA StaysTrue ==
  ASSUME NodesTrue, SamePaths(nodes, nodes'), Sure' => Sure, problem' = problem
  PROVE  NodesTrue'
  <1> SUFFICES ASSUME Sure', NEW i \in DOMAIN nodes'
               PROVE  /\ nodes'[i].response \in {"open", "failure", "complete"}
                      /\ nodes'[i].response = "open" =>
                           /\ nodes'[i].signature = GoalOf(problem, nodes'[i].path)
                           /\ nodes'[i].signature # Fails /\ ~Complete(nodes'[i].signature)
                      /\ nodes'[i].response = "failure" => GoalOf(problem, nodes'[i].path) = Fails
    BY DEF NodesTrue
  <1>1. i \in DOMAIN nodes /\ SamePlace(nodes'[i], nodes[i])
    BY DEF SamePaths
  <1>2. /\ nodes'[i].path = nodes[i].path /\ nodes'[i].signature = nodes[i].signature
        /\ nodes'[i].response = nodes[i].response
    BY <1>1 DEF SamePlace
  <1> QED
    BY <1>1, <1>2 DEF NodesTrue

\* What is so when the search goes on from a node.
LEMMA SelectedIs ==
  ASSUME MctsInv, Searching, NEW i \in DOMAIN nodes, Selected(i)
  PROVE  /\ stop = "" /\ leaf = 0 /\ ask = Quiet /\ nodes # <<>> /\ reply = Quiet
         /\ todo \in Seq(Problems) /\ problem \in Problems
         /\ TreeSound(nodes) /\ NodesTrue
         /\ nodes[i] \in NodeSpace /\ nodes[i].path \in Seq(Tactics)
         /\ nodes[i].response # "complete"
         /\ i # 1 => ~Ended(nodes[i])
         /\ Ends(i)
  <1>1. stop = "" /\ leaf = 0 /\ ask = Quiet /\ nodes # <<>>
    BY DEF Searching
  <1>2. reply = Quiet /\ todo \in Seq(Problems) /\ problem \in Problems
    BY <1>1 DEF MctsInv, CallsInv, CallInv, Calling
  <1>3. TreeSound(nodes) /\ NodesTrue /\ nodes[i].response # "complete"
    BY <1>1 DEF MctsInv, SearchInv
  <1>4. nodes[i] \in NodeSpace /\ nodes[i].path \in Seq(Tactics)
    BY NodesNow
  <1>5. i \in PathTo(i)
    BY <1>4, BeginsWithItself DEF PathTo
  <1>6. i # 1 => ~Ended(nodes[i])
    BY <1>5, DeadIs DEF Selected
  <1> QED
    BY <1>1, <1>2, <1>3, <1>4, <1>6 DEF Selected

\* What GiveUpEffect and ExpandEffect say, as one formula each.
GivenUpFrom(u, tree, i, ground) ==
  /\ u \in Trees /\ Len(u) = Len(tree) /\ DOMAIN u = DOMAIN tree
  /\ \A j \in DOMAIN tree : SamePlace(u[j], tree[j]) /\ SameTactics(u[j], tree[j])
  /\ u[i].terminal = ground
  /\ \A j \in DOMAIN tree : j # i => u[j].terminal = tree[j].terminal

ExpandedFrom(u, tree, i, batch) ==
  /\ u \in Trees /\ Len(u) = Len(tree) /\ DOMAIN u = DOMAIN tree
  /\ \A j \in DOMAIN tree : SamePlace(u[j], tree[j]) /\ u[j].terminal = tree[j].terminal
  /\ Expanded(u[i]) /\ u[i].pending = batch /\ u[i].batch = tree[i].batch \cup ToSet(batch)
  /\ \A j \in DOMAIN tree : j # i => SameTactics(u[j], tree[j])

LEMMA GiveUpStep ==
  ASSUME NEW tree \in Trees, NEW i \in DOMAIN tree, NEW ground \in Reasons, NEW seen
  PROVE  \A u : u = TreeGivenUp(tree, i, ground, seen) => GivenUpFrom(u, tree, i, ground)
  <1> SUFFICES ASSUME NEW u, u = TreeGivenUp(tree, i, ground, seen)
               PROVE  GivenUpFrom(u, tree, i, ground)
    OBVIOUS
  <1> QED
    BY GiveUpEffect, SMTT(60) DEF GivenUpFrom

LEMMA ExpandStep ==
  ASSUME NEW tree \in Trees, NEW i \in DOMAIN tree, NEW batch \in Seq(Tactics)
  PROVE  \A u : u = TreeExpanded(tree, i, batch) => ExpandedFrom(u, tree, i, batch)
  <1> SUFFICES ASSUME NEW u, u = TreeExpanded(tree, i, batch)
               PROVE  ExpandedFrom(u, tree, i, batch)
    OBVIOUS
  <1> QED
    BY ExpandEffect, SMTT(60) DEF ExpandedFrom

LEMMA GiveUpInv ==
  ASSUME MctsInv, Searching, NEW i \in DOMAIN nodes, Selected(i), GiveUp(i),
         ReplKept, UNCHANGED <<reply, todo, problem, stop, traces>>
  PROVE  MctsInv'
  <1> DEFINE ground == IF nodes[i].terminal # "" THEN nodes[i].terminal
                       ELSE IF Depth(i) >= MaxDepth THEN "max_depth" ELSE "all_children_dead"
  <1>1. /\ stop = "" /\ leaf = 0 /\ ask = Quiet /\ nodes # <<>> /\ reply = Quiet
        /\ todo \in Seq(Problems) /\ problem \in Problems
        /\ TreeSound(nodes) /\ NodesTrue /\ nodes \in Trees
        /\ nodes[i] \in NodeSpace /\ nodes[i].terminal \in Reasons
        /\ nodes[i].response # "complete"
    BY SelectedIs, NodesNow
  <1>2. /\ Depth(i) >= MaxDepth \/ (Expanded(nodes[i]) /\ Barren(i))
        /\ nodes' = TreeGivenUp(nodes, i, ground, PathTo(i))
        /\ ask' = ask /\ leaf' = leaf
    <2>1. nodes' = TreeGivenUp(nodes, i, ground, PathTo(i))
      BY Zenon DEF GiveUp, TreeGivenUp
    <2> HIDE DEF ground
    <2>2. /\ Depth(i) >= MaxDepth \/ (nodes[i].expanded /\ Barren(i))
          /\ ask' = ask /\ leaf' = leaf
      BY Zenon DEF GiveUp
    <2> QED
      BY <1>1, <2>1, <2>2, ExpandedIs
  <1>3. /\ nodes[i].terminal # "" => ground = nodes[i].terminal
        /\ nodes[i].terminal = "" =>
             \/ ground = "max_depth" /\ Depth(i) >= MaxDepth
             \/ ground = "all_children_dead" /\ ~(Depth(i) >= MaxDepth)
    <2>1. nodes[i].terminal # "" => ground = nodes[i].terminal
      BY Zenon
    <2>2. nodes[i].terminal = "" /\ Depth(i) >= MaxDepth => ground = "max_depth"
      BY Zenon
    <2>3. nodes[i].terminal = "" /\ ~(Depth(i) >= MaxDepth) => ground = "all_children_dead"
      BY Zenon
    <2> QED
      BY <2>1, <2>2, <2>3, Zenon
  <1>4. ground \in Reasons
    BY <1>1, <1>3 DEF Reasons
  <1> HIDE DEF ground
  <1>5. nodes[i].terminal = "" =>
          \/ ground = "max_depth" /\ Len(nodes[i].path) >= MaxDepth
          \/ /\ ground = "all_children_dead"
             /\ Expanded(nodes[i]) /\ nodes[i].pending = <<>> /\ Barred(nodes, i)
    BY <1>2, <1>3, BarredIs DEF Depth, Barren
  <1>6. /\ nodes' \in Trees /\ Len(nodes') = Len(nodes) /\ DOMAIN nodes' = DOMAIN nodes
        /\ \A j \in DOMAIN nodes : SamePlace(nodes'[j], nodes[j]) /\ SameTactics(nodes'[j], nodes[j])
        /\ nodes'[i].terminal = ground
        /\ \A j \in DOMAIN nodes : j # i => nodes'[j].terminal = nodes[j].terminal
    <2>1. nodes \in Trees /\ i \in DOMAIN nodes /\ ground \in Reasons
      BY <1>1, <1>4
    <2>2. nodes' = TreeGivenUp(nodes, i, ground, PathTo(i))
      BY <1>2
    <2> QED
      <3>1. GivenUpFrom(nodes', nodes, i, ground)
        BY ONLY <2>1, <2>2, GiveUpStep, Zenon
      <3> QED
        BY ONLY <3>1 DEF GivenUpFrom
  <1>7. SamePaths(nodes, nodes')
    BY <1>6 DEF SamePaths
  <1>8. TreeSound(nodes')
    BY <1>1, <1>3, <1>5, <1>6, <1>7, GiveUpSound
  <1>9. Sure' <=> Sure
    BY DEF Sure, ReplKept, processVars
  <1>10. NodesTrue'
    BY <1>1, <1>7, <1>9, StaysTrue
  <1>11. nodes' # <<>>
    <2>1. i \in DOMAIN nodes'
      BY <1>6
    <2> QED
      BY ONLY <2>1, NotEmpty
  <1>12. \A j \in DOMAIN nodes' : nodes'[j].response # "complete"
    BY <1>1, <1>6 DEF SamePlace, MctsInv, SearchInv
  <1>13. SearchInv'
    BY <1>1, <1>2, <1>8, <1>10, <1>12 DEF SearchInv
  <1>14. CallInv'
    BY <1>1, <1>2, <1>11 DEF CallInv, Calling, StopReasons
  <1>15. CallsInv'
    BY <1>1, <1>2, <1>14, NothingAsked DEF MctsInv, CallsInv
  <1>16. TracesInv'
    BY DEF MctsInv, TracesInv
  <1> QED
    BY <1>13, <1>15, <1>16 DEF MctsInv

LEMMA SuggestedTyped ==
  ASSUME NEW batch \in Suggested
  PROVE  batch \in Seq(Tactics) /\ IsInjective(batch) /\ batch # <<>>
  <1>1. PICK n \in 1..MaxCandidates : batch \in [1..n -> Tactics] /\ IsInjective(batch)
    BY DEF Suggested
  <1>2. n \in Nat /\ n # 0
    <2>1. MaxCandidates \in Nat
      BY MctsAssumption
    <2> QED
      BY <2>1
  <1>3. batch \in Seq(Tactics) /\ Len(batch) = n
    BY <1>1, <1>2
  <1> QED
    BY <1>1, <1>2, <1>3

LEMMA ExpandInv ==
  ASSUME MctsInv, Searching, NEW i \in DOMAIN nodes, Selected(i), Expand(i),
         ReplKept, UNCHANGED <<reply, todo, problem, stop, traces>>
  PROVE  MctsInv'
  <1>1. /\ stop = "" /\ leaf = 0 /\ ask = Quiet /\ nodes # <<>> /\ reply = Quiet
        /\ todo \in Seq(Problems) /\ problem \in Problems
        /\ TreeSound(nodes) /\ NodesTrue /\ nodes \in Trees
        /\ nodes[i] \in NodeSpace /\ nodes[i].terminal \in Reasons
        /\ nodes[i].path \in Seq(Tactics) /\ nodes[i].pending \in Seq(Tactics)
        /\ nodes[i].response # "complete" /\ (i # 1 => ~Ended(nodes[i])) /\ Ends(i)
    BY SelectedIs, NodesNow
  <1>2. /\ Depth(i) < MaxDepth /\ ~(Expanded(nodes[i]) /\ Barren(i)) /\ leaf' = i
    BY <1>1, ExpandedIs DEF Expand
  <1>3. PICK batch \in IF Expanded(nodes[i]) THEN {nodes[i].pending} ELSE Suggested :
          /\ nodes' = TreeExpanded(nodes, i, batch)
          /\ Check(problem, Append(nodes[i].path, Head(batch)))
    <2>1. \E batch \in IF nodes[i].expanded THEN {nodes[i].pending} ELSE Suggested :
            /\ nodes' = TreeExpanded(nodes, i, batch)
            /\ Check(problem, Append(nodes[i].path, Head(batch)))
      BY Zenon DEF Expand, TreeExpanded
    <2>2. CASE Expanded(nodes[i])
      BY <1>1, <2>1, <2>2, ExpandedIs
    <2>3. CASE ~Expanded(nodes[i])
      BY <1>1, <2>1, <2>3, ExpandedIs
    <2> QED
      BY <2>2, <2>3
  <1>4. ~Ended(nodes[i])
    <2> SUFFICES ASSUME i = 1, Ended(nodes[1]) PROVE FALSE
      BY <1>1
    <2>1. Expanded(nodes[1]) /\ nodes[1].pending = <<>> /\ Barred(nodes, 1)
      BY RootEnded
    <2> QED
      BY <1>2, <2>1, BarredIs DEF Barren
  <1>5. ASSUME Expanded(nodes[i]) PROVE nodes[i].pending # <<>>
    <2> SUFFICES ASSUME nodes[i].pending = <<>> PROVE FALSE
      OBVIOUS
    <2>1. LiveChildren(i) # {}
      BY <1>2, <1>5 DEF Barren
    <2>2. ~ShouldExpand(i)
      BY <1>1, <1>5, ExpandedIs DEF ShouldExpand
    <2>3. ~Solved(i)
      BY <1>1 DEF Solved
    <2>4. ~Dead(i)
      BY <1>4, DeadIs
    <2>5. ~(Depth(i) >= MaxDepth)
      <3>0. nodes[i].path \in Seq(Tactics)
        BY <1>1
      <3>1. Depth(i) \in Nat
        BY ONLY <3>0 DEF Depth
      <3> QED
        BY ONLY <1>2, <3>1, MaxDepthPositive
    <2> QED
      BY <1>1, <2>1, <2>2, <2>3, <2>4, <2>5 DEF Ends
  <1>6. /\ batch \in Seq(Tactics) /\ IsInjective(batch) /\ batch # <<>>
        /\ Expanded(nodes[i]) => batch = nodes[i].pending
    <2>1. CASE Expanded(nodes[i])
      <3>1. batch = nodes[i].pending
        BY <1>3, <2>1
      <3>2. IsInjective(nodes[i].pending)
        BY <1>1 DEF TreeSound, Tried
      <3> QED
        BY <1>1, <1>5, <2>1, <3>1, <3>2
    <2>2. CASE ~Expanded(nodes[i])
      BY <1>3, <2>2, SuggestedTyped
    <2> QED
      BY <2>1, <2>2
  <1>7. /\ nodes' \in Trees /\ Len(nodes') = Len(nodes) /\ DOMAIN nodes' = DOMAIN nodes
        /\ \A j \in DOMAIN nodes : SamePlace(nodes'[j], nodes[j]) /\ nodes'[j].terminal = nodes[j].terminal
        /\ Expanded(nodes'[i]) /\ nodes'[i].pending = batch
        /\ nodes'[i].batch = nodes[i].batch \cup ToSet(batch)
        /\ \A j \in DOMAIN nodes : j # i => SameTactics(nodes'[j], nodes[j])
    <2>1. nodes \in Trees /\ i \in DOMAIN nodes /\ batch \in Seq(Tactics)
      BY <1>1, <1>6
    <2>2. nodes' = TreeExpanded(nodes, i, batch)
      BY <1>3
    <2> QED
      <3>1. ExpandedFrom(nodes', nodes, i, batch)
        BY ONLY <2>1, <2>2, ExpandStep, Zenon
      <3> QED
        BY ONLY <3>1 DEF ExpandedFrom
  <1>8. SamePaths(nodes, nodes')
    BY <1>7 DEF SamePaths
  <1>9. TreeSound(nodes')
    <2>1. Len(nodes[i].path) < MaxDepth
      BY <1>2 DEF Depth
    <2> QED
      BY <1>1, <1>4, <1>6, <1>7, <1>8, <2>1, ExpandSound
  <1>10. Sure' <=> Sure
    BY DEF Sure, ReplKept, processVars
  <1>11. NodesTrue'
    BY <1>1, <1>8, <1>10, StaysTrue
  <1>12. nodes' # <<>>
    <2>1. i \in DOMAIN nodes'
      BY <1>7
    <2> QED
      BY ONLY <2>1, NotEmpty
  <1>13. \A j \in DOMAIN nodes' : nodes'[j].response # "complete"
    BY <1>1, <1>7 DEF SamePlace, MctsInv, SearchInv
  <1>14. i # 0 /\ nodes'[i].path = nodes[i].path
    <2>1. i # 0
      BY NodesNow
    <2> QED
      BY <1>7, <2>1 DEF SamePlace
  <1>15. SearchInv'
    BY <1>1, <1>2, <1>6, <1>7, <1>9, <1>11, <1>13 DEF SearchInv
  <1> DEFINE path == Append(nodes[i].path, Head(batch))
  <1>16. path \in Seq(Tactics) /\ path # <<>>
    <2>1. Head(batch) \in Tactics
      BY <1>6
    <2> QED
      BY <1>1, <2>1, PathAppended
  <1>17. Target' = path
    BY <1>2, <1>7, <1>14 DEF Target
  <1>18. Check(problem, path)
    BY <1>3
  <1> HIDE DEF path
  <1>19. ask'.problem = problem /\ ask'.path = path /\ ask'.what # "nothing"
    BY <1>18, WithTheoremIs DEF Check
  <1>20. ask' # Quiet
    BY <1>19 DEF Quiet
  <1>21. CallInv'
    BY <1>1, <1>2, <1>12, <1>14, <1>16, <1>17, <1>19, <1>20 DEF CallInv, Calling, StopReasons
  <1>22. CallsInv'
    BY <1>1, <1>16, <1>17, <1>18, <1>21, IsAsked DEF MctsInv, CallsInv
  <1>23. TracesInv'
    BY DEF MctsInv, TracesInv
  <1> QED
    BY <1>15, <1>22, <1>23 DEF MctsInv

LEMMA IterateInv ==
  ASSUME MctsInv, Iterate
  PROVE  MctsInv'
  <1>1. /\ Searching /\ ReplKept /\ UNCHANGED <<reply, todo, problem, stop, traces>>
        /\ \E i \in DOMAIN nodes : Selected(i) /\ (GiveUp(i) \/ Expand(i))
    BY DEF Iterate, ReplKept
  <1> QED
    BY <1>1, GiveUpInv, ExpandInv

\* What GrowEffect says.
GrownFrom(u, tree, i, n) ==
  /\ u \in Trees /\ Len(u) = Len(tree) + 1 /\ Len(tree) \in Nat
  /\ \A j \in 1..Len(tree) :
       /\ SamePlace(u[j], tree[j]) /\ u[j].terminal = tree[j].terminal
       /\ (Expanded(u[j]) <=> Expanded(tree[j])) /\ u[j].batch = tree[j].batch
       /\ u[j].pending = IF j = i THEN Tail(tree[i].pending) ELSE tree[j].pending
  /\ SamePlace(u[Len(u)], n) /\ SameTactics(u[Len(u)], n) /\ u[Len(u)].terminal = n.terminal

LEMMA GrowStep ==
  ASSUME NEW tree \in Trees, NEW i \in DOMAIN tree, tree[i].pending # <<>>,
         NEW n \in NodeSpace, NEW seen
  PROVE  \A u : u = TreeGrown(tree, i, n, seen) => GrownFrom(u, tree, i, n)
  <1> SUFFICES ASSUME NEW u, u = TreeGrown(tree, i, n, seen)
               PROVE  GrownFrom(u, tree, i, n)
    OBVIOUS
  <1> QED
    BY GrowEffect, SMTT(60) DEF GrownFrom

\* A tree that is sound stays so with the node for what was replied.
LEMMA GrownSound ==
  ASSUME NEW tree, TreeSound(tree), NEW i \in DOMAIN tree,
         Expanded(tree[i]), tree[i].pending # <<>>,
         NEW response \in Replies, NEW terminal \in {"", "lean_error", "cycle"},
         NEW n \in NodeSpace, n.path = Append(tree[i].path, Head(tree[i].pending)),
         n.signature = Signature(response), n.response = response.what, n.terminal = terminal,
         ~Expanded(n), n.pending = <<>>, n.batch = {},
         terminal = "lean_error" => response.what = "failure",
         terminal = "cycle" <=>
           /\ response.what = "open"
           /\ \E j \in DOMAIN tree : IsPrefix(tree[j].path, tree[i].path)
                                     /\ tree[j].signature = Signature(response),
         NEW u, GrownFrom(u, tree, i, n)
  PROVE  TreeSound(u)
  <1>1. n.signature # Fails => n.response = "open"
    BY DEF Signature
  <1>2. /\ u \in Trees /\ Len(u) = Len(tree) + 1
        /\ \A j \in 1..Len(tree) :
             /\ SamePlace(u[j], tree[j]) /\ u[j].terminal = tree[j].terminal
             /\ (Expanded(u[j]) <=> Expanded(tree[j])) /\ u[j].batch = tree[j].batch
             /\ u[j].pending = IF j = i THEN Tail(tree[i].pending) ELSE tree[j].pending
        /\ SamePlace(u[Len(u)], n) /\ SameTactics(u[Len(u)], n) /\ u[Len(u)].terminal = n.terminal
    BY DEF GrownFrom
  <1>3. /\ n.terminal \in {"", "lean_error", "cycle"}
        /\ n.terminal = "lean_error" => n.response = "failure"
        /\ n.terminal = "cycle" =>
              /\ n.response = "open"
              /\ \E j \in DOMAIN tree : IsPrefix(tree[j].path, tree[i].path)
                                        /\ tree[j].signature = n.signature
    OBVIOUS
  <1>4. n.terminal = "" /\ n.response = "open" =>
          \A j \in DOMAIN tree : IsPrefix(tree[j].path, tree[i].path) =>
            tree[j].signature # n.signature
    OBVIOUS
  <1> QED
    BY ONLY <1>1, <1>2, <1>3, <1>4, TreeSound(tree), i \in DOMAIN tree, Expanded(tree[i]),
            tree[i].pending # <<>>, n \in NodeSpace,
            n.path = Append(tree[i].path, Head(tree[i].pending)), ~Expanded(n),
            n.pending = <<>>, n.batch = {}, GrowSound

\* Why the child is not searched.
EndOf(i, response) ==
  CASE Cycle(i, response)           -> "cycle"
    [] response.what = "failure" -> "lean_error"
    [] OTHER                     -> ""

LEMMA EndIs ==
  ASSUME NEW i \in DOMAIN nodes, NEW response \in Replies
  PROVE  /\ EndOf(i, response) \in {"", "lean_error", "cycle"}
         /\ EndOf(i, response) = "lean_error" => response.what = "failure"
         /\ EndOf(i, response) = "cycle" <=>
              /\ response.what = "open"
              /\ \E j \in DOMAIN nodes : IsPrefix(nodes[j].path, nodes[i].path)
                                         /\ nodes[j].signature = Signature(response)
  <1>1. Cycle(i, response) <=>
          /\ response.what = "open"
          /\ \E j \in DOMAIN nodes : IsPrefix(nodes[j].path, nodes[i].path)
                                     /\ nodes[j].signature = Signature(response)
    BY DEF Cycle, PathTo
  <1>2. Cycle(i, response) => response.what # "failure"
    BY <1>1
  <1> DEFINE cycle == Cycle(i, response)
             failure == response.what = "failure"
  <1>3. EndOf(i, response) = CASE cycle -> "cycle" [] failure -> "lean_error" [] OTHER -> ""
    BY DEF EndOf
  <1>4. cycle => ~failure
    BY <1>2
  <1> HIDE DEF cycle, failure
  <1>5. /\ cycle => EndOf(i, response) = "cycle"
        /\ failure => EndOf(i, response) = "lean_error"
        /\ ~cycle /\ ~failure => EndOf(i, response) = ""
    BY <1>3, <1>4
  <1>6. /\ EndOf(i, response) \in {"", "lean_error", "cycle"}
        /\ EndOf(i, response) = "lean_error" => failure
        /\ EndOf(i, response) = "cycle" <=> cycle
    BY <1>4, <1>5
  <1> QED
    BY <1>1, <1>6 DEF cycle, failure

\* What NodeIs says of node m.
NewNode(m, p, r, ground) ==
  /\ m \in NodeSpace /\ m.path = p /\ m.signature = Signature(r)
  /\ m.response = r.what /\ m.terminal = ground /\ m.batch = {}
  /\ m.pending = <<>> /\ ~Expanded(m)

LEMMA NodeIsNew ==
  ASSUME NEW p \in Seq(Tactics), NEW r \in Replies, NEW ground \in Reasons
  PROVE  NewNode(Node(p, r, ground), p, r, ground)
  BY NodeIs DEF NewNode

LEMMA ChildInv ==
  ASSUME MctsInv, ChildChecked
  PROVE  MctsInv'
  <1> DEFINE n == Node(Target, reply, EndOf(leaf, reply))
             seen == PathTo(leaf) \cup {Len(nodes) + 1}
  <1>1. /\ leaf # 0 /\ reply # Quiet /\ reply' = Quiet /\ leaf' = 0 /\ ask' = ask /\ ReplKept
        /\ UNCHANGED <<todo, problem, traces>>
        /\ stop' = IF reply.what = "complete" THEN "solved" ELSE ""
    BY DEF ChildChecked, ReplKept
  <1>2. nodes' = TreeGrown(nodes, leaf, n, seen)
    <2>1. Target = Append(nodes[leaf].path, Head(nodes[leaf].pending))
      BY <1>1 DEF Target
    <2> QED
      BY <2>1, Zenon DEF ChildChecked, TreeGrown, EndOf
  <1>3. /\ reply \in Replies /\ ask = Quiet /\ stop = "" /\ problem \in Problems
        /\ Target \in Seq(Tactics)
    BY <1>1, ReplyIs
  <1>4. /\ TreeSound(nodes) /\ nodes \in Trees /\ leaf \in DOMAIN nodes
        /\ Expanded(nodes[leaf]) /\ nodes[leaf].pending # <<>> /\ NodesTrue
        /\ \A i \in DOMAIN nodes : nodes[i].response # "complete"
        /\ DOMAIN nodes = 1..Len(nodes) /\ Len(nodes) \in Nat
    BY <1>1, <1>3, NodesNow DEF MctsInv, SearchInv
  <1> DEFINE terminal == EndOf(leaf, reply)
  <1>5. /\ terminal \in {"", "lean_error", "cycle"}
        /\ terminal = "lean_error" => reply.what = "failure"
        /\ terminal = "cycle" <=>
              /\ reply.what = "open"
              /\ \E j \in DOMAIN nodes : IsPrefix(nodes[j].path, nodes[leaf].path)
                                         /\ nodes[j].signature = Signature(reply)
    BY <1>3, <1>4, EndIs
  <1>6. /\ n \in NodeSpace /\ n.path = Target /\ n.signature = Signature(reply)
        /\ n.response = reply.what /\ n.terminal = terminal /\ n.batch = {} /\ n.pending = <<>>
        /\ ~Expanded(n)
    <2>1. terminal \in Reasons
      BY <1>5 DEF Reasons
    <2> HIDE DEF terminal
    <2>2. n = Node(Target, reply, terminal)
      BY DEF terminal
    <2>3. NewNode(n, Target, reply, terminal)
      BY ONLY <1>3, <2>1, <2>2, NodeIsNew, Zenon
    <2> HIDE DEF n
    <2> QED
      BY ONLY <2>3 DEF NewNode
  <1>7. n.path = Append(nodes[leaf].path, Head(nodes[leaf].pending))
    BY <1>1, <1>6 DEF Target
  <1> HIDE DEF n, seen, terminal
  <1>8. GrownFrom(nodes', nodes, leaf, n)
    BY ONLY <1>2, <1>4, <1>6, GrowStep
  <1>9. TreeSound(nodes')
    BY ONLY <1>3, <1>4, <1>5, <1>6, <1>7, <1>8, GrownSound
  <1> DEFINE N == Len(nodes) + 1
  <1>10. /\ DOMAIN nodes' = 1..N /\ Len(nodes') = N /\ N \in 1..N
         /\ SamePlace(nodes'[N], n)
         /\ \A j \in 1..Len(nodes) : SamePlace(nodes'[j], nodes[j])
    BY <1>4, <1>8 DEF GrownFrom, Trees
  <1>11. \A j \in 1..N : j = N \/ j \in DOMAIN nodes
    BY <1>4
  <1> HIDE DEF N
  <1>12. nodes' # <<>>
    BY <1>10, NotEmpty
  <1>13. /\ reply.what = "complete" => Target # <<>> /\ (CleanRun => Complete(Goal))
         /\ Sure =>
              /\ reply.what \in {"open", "failure", "complete"}
              /\ reply.what = "open" => reply.state = Goal /\ Goal # Fails /\ ~Complete(Goal)
              /\ reply.what = "failure" /\ Target # <<>> => Goal = Fails
    BY <1>1, ReplyIs
  <1>14. Target # <<>>
    BY <1>1 DEF MctsInv, CallsInv, CallInv
  <1>15. Goal = GoalOf(problem, n.path)
    BY <1>6 DEF Goal
  <1>16. reply.what = "open" => n.signature = reply.state
    BY <1>6 DEF Signature
  <1>17. (Sure' <=> Sure) /\ (CleanRun' <=> CleanRun)
    BY <1>1 DEF Sure, CleanRun, ReplKept, processVars
  <1>18. NodesTrue'
    <2> SUFFICES ASSUME Sure, NEW j \in 1..N
          PROVE  /\ nodes'[j].response \in {"open", "failure", "complete"}
                 /\ nodes'[j].response = "open" =>
                      /\ nodes'[j].signature = GoalOf(problem, nodes'[j].path)
                      /\ nodes'[j].signature # Fails /\ ~Complete(nodes'[j].signature)
                 /\ nodes'[j].response = "failure" => GoalOf(problem, nodes'[j].path) = Fails
      BY <1>1, <1>10, <1>17 DEF NodesTrue
    <2>1. CASE j = N
      <3>1. /\ nodes'[j].path = n.path /\ nodes'[j].response = n.response
            /\ nodes'[j].signature = n.signature
        BY <1>10, <2>1 DEF SamePlace
      <3> QED
        BY <1>6, <1>13, <1>14, <1>15, <1>16, <3>1
    <2>2. CASE j \in DOMAIN nodes
      <3>1. /\ nodes'[j].path = nodes[j].path /\ nodes'[j].response = nodes[j].response
            /\ nodes'[j].signature = nodes[j].signature
        BY <1>4, <1>10, <2>2 DEF SamePlace
      <3> QED
        BY <1>4, <2>2, <3>1 DEF NodesTrue
    <2> QED
      BY <1>11, <2>1, <2>2
  <1>19. reply.what # "complete" => \A j \in DOMAIN nodes' : nodes'[j].response # "complete"
    <2> SUFFICES ASSUME reply.what # "complete", NEW j \in 1..N
                 PROVE  nodes'[j].response # "complete"
      BY <1>10
    <2> QED
      BY <1>4, <1>6, <1>10, <1>11 DEF SamePlace
  <1>20. reply.what = "complete" => (CleanRun' => Proof')
    <2> SUFFICES ASSUME reply.what = "complete", CleanRun PROVE Proof'
      BY <1>17
    <2>1. nodes'[Len(nodes')].path = n.path
      BY <1>10 DEF SamePlace
    <2>2. Solution' = n.path
      BY <2>1 DEF Solution, Last
    <2> QED
      BY <1>1, <1>13, <1>15, <2>2 DEF Proof
  <1>21. SearchInv'
    BY <1>1, <1>9, <1>12, <1>18, <1>19, <1>20 DEF SearchInv
  <1>22. CallInv'
    BY <1>1, <1>3, <1>12 DEF MctsInv, CallsInv, CallInv, Calling, StopReasons
  <1>23. CallsInv'
    BY <1>1, <1>3, <1>22, NothingAsked DEF MctsInv, CallsInv
  <1>24. TracesInv'
    BY <1>1 DEF MctsInv, TracesInv
  <1> QED
    BY <1>21, <1>23, <1>24 DEF MctsInv

LEMMA MctsStepInv ==
  ASSUME MctsInv, [MctsNext]_mctsVars
  PROVE  MctsInv'
  BY StartInv, RootInv, StopInv, IterateInv, ChildInv, SaveInv, AgainInv, ReplStepInv, StutterInv
     DEF MctsNext

\* The search keeps its invariant.
THEOREM MctsSound == MctsSpec => []MctsInv
  <1>1. MctsInit => MctsInv
    BY InitInv
  <1>2. MctsInv /\ [MctsNext]_mctsVars => MctsInv'
    BY MctsStepInv
  <1> QED
    BY <1>1, <1>2, PTL DEF MctsSpec

-----------------------------------------------------------------------------
(* What the search promises.                                                *)

\* A solved trace that is clean replays (SaveTrace keeps the path of a child for which
\* LeanREPL said "complete"; the number kept for its preamble was that of the preamble).
THEOREM SolvedReplays == MctsSpec => []TracesReplay
  <1>1. MctsInv => TracesReplay
    BY DEF MctsInv, TracesInv, ReplaysTrace, TracesReplay
  <1> QED
    BY <1>1, MctsSound, PTL

\* No live node has the goals of a node above it (the cycle check of _expand_one_child).
THEOREM NoLiveCycle == MctsSpec => []LivePathsProgress
  <1>1. MctsInv => LivePathsProgress
    <2> SUFFICES ASSUME MctsInv, NEW i \in DOMAIN nodes, NEW j \in PathTo(i) \ {i},
                        ~Dead(i), nodes[i].response = "open"
                 PROVE  nodes[j].signature # nodes[i].signature
      BY DEF LivePathsProgress
    <2>1. j \in DOMAIN nodes /\ j # i /\ IsPrefix(nodes[j].path, nodes[i].path)
      BY DEF PathTo
    <2>2. ~Ended(nodes[i])
      BY DeadIs
    <2>3. Progress(nodes)
      BY DEF MctsInv, SearchInv, TreeSound
    <2> QED
      BY <2>1, <2>2, <2>3 DEF Progress
  <1> QED
    BY <1>1, MctsSound, PTL

\* When the root is given up, so is every node: a node of least depth that was not would
\* have a parent given up for its children.
LEMMA AllEnded ==
  ASSUME MctsInv, 1 \in DOMAIN nodes, Ended(nodes[1])
  PROVE  \A i \in DOMAIN nodes : Ended(nodes[i])
  <1> SUFFICES ASSUME NEW l \in DOMAIN nodes, ~Ended(nodes[l]) PROVE FALSE
    OBVIOUS
  <1> DEFINE S == {Len(nodes[i].path) : i \in {k \in DOMAIN nodes : ~Ended(nodes[k])}}
  <1>1. /\ Distinct(nodes) /\ Rooted(nodes) /\ Tried(nodes) /\ Meant(nodes)
        /\ \A i \in DOMAIN nodes : nodes[i].path \in Seq(Tactics) /\ Len(nodes[i].path) \in Nat
        /\ nodes # <<>>
    BY NodesNow, NotEmpty DEF TreeSound
  <1>2. S \subseteq Nat /\ S # {}
    BY <1>1
  <1>3. PICK m \in S : \A k \in S : m <= k
    BY <1>2, LeastNumber
  <1>4. PICK i \in DOMAIN nodes : ~Ended(nodes[i]) /\ Len(nodes[i].path) = m
    BY <1>3
  <1>5. \A k \in DOMAIN nodes : ~Ended(nodes[k]) => m <= Len(nodes[k].path)
    BY <1>3
  <1> HIDE DEF S
  <1>6. nodes[i].path # <<>>
    <2> SUFFICES ASSUME nodes[i].path = <<>> PROVE FALSE
      OBVIOUS
    <2>1. nodes[1].path = <<>>
      BY <1>1 DEF Rooted
    <2>2. i = 1
      BY <1>1, <2>1 DEF Distinct
    <2> QED
      BY <1>4, <2>2
  <1>7. PICK k \in DOMAIN nodes : \E t \in Tactics : ChildBy(nodes, k, t, i)
    BY <1>1, <1>6 DEF Rooted
  <1>8. PICK t \in Tactics : ChildBy(nodes, k, t, i)
    BY <1>7
  <1>9. Len(nodes[i].path) = Len(nodes[k].path) + 1
    BY <1>1, <1>8, PathAppended DEF ChildBy
  <1>10. Ended(nodes[k])
    <2> SUFFICES ASSUME ~Ended(nodes[k]) PROVE FALSE
      OBVIOUS
    <2>1. m <= Len(nodes[k].path) /\ Len(nodes[k].path) \in Nat
      BY <1>1, <1>5
    <2> QED
      BY ONLY <1>4, <1>9, <2>1
  <1>11. Expanded(nodes[k])
    BY <1>1, <1>8 DEF Tried
  <1>12. nodes[k].response # "failure" /\ nodes[k].terminal \in {"", "all_children_dead"}
    BY <1>1, <1>11 DEF Tried
  <1>13. Barred(nodes, k)
    BY <1>1, <1>10, <1>12 DEF Ended, Meant
  <1> QED
    BY <1>4, <1>8, <1>13 DEF Barred

\* From node i the tactics of e would complete the proof within the greatest depth.
Missed(i, e) ==
  /\ Len(nodes[i].path) + Len(e) <= MaxDepth
  /\ Complete(Reaches(nodes[i].signature, e))

\* A node that says what Lean says of its path leads, by the tactic of a child, to the
\* state of the child.
LEMMA ChildLeads ==
  ASSUME MctsInv, Sure, NEW i \in DOMAIN nodes, NEW j \in DOMAIN nodes, NEW t \in Tactics,
         ChildBy(nodes, i, t, j), nodes[i].response = "open", nodes[j].response # "complete",
         problem \in Problems
  PROVE  nodes[j].signature = After(nodes[i].signature, t)
  <1>1. /\ nodes[i].path \in Seq(Tactics) /\ nodes[j].path = Append(nodes[i].path, t)
        /\ Meant(nodes)
    BY NodesNow DEF ChildBy, TreeSound
  <1>2. Root(problem, PreambleOf[problem]) \in States
    <2>1. PreambleOf[problem] \in Behinds
      BY ReplAssumption DEF Behinds
    <2> QED
      BY <2>1, RootTyped
  <1>3. GoalOf(problem, nodes[j].path) = After(GoalOf(problem, nodes[i].path), t)
    BY <1>1, <1>2, ReachesOneMore DEF GoalOf
  <1>4. nodes[i].signature = GoalOf(problem, nodes[i].path)
    BY DEF MctsInv, SearchInv, NodesTrue
  <1>5. CASE nodes[j].response = "open"
    <2>1. nodes[j].signature = GoalOf(problem, nodes[j].path)
      BY <1>5 DEF MctsInv, SearchInv, NodesTrue
    <2> QED
      BY <1>3, <1>4, <2>1
  <1>6. CASE nodes[j].response = "failure"
    <2>1. GoalOf(problem, nodes[j].path) = Fails
      BY <1>6 DEF MctsInv, SearchInv, NodesTrue
    <2>2. nodes[j].signature = Fails
      BY <1>1, <1>6 DEF Meant
    <2> QED
      BY <1>3, <1>4, <2>1, <2>2
  <1>7. nodes[j].response \in {"open", "failure", "complete"}
    BY DEF MctsInv, SearchInv, NodesTrue
  <1> QED
    BY <1>5, <1>6, <1>7

\* A node that is given up misses no proof that no other node misses with fewer tactics,
\* or with as many behind a shorter path.
LEMMA MissedElsewhere ==
  ASSUME MctsInv, Sure, problem \in Problems,
         \A k \in DOMAIN nodes : Ended(nodes[k]),
         \A k \in DOMAIN nodes : Expanded(nodes[k]) => nodes[k].batch = Tactics,
         NEW i \in DOMAIN nodes, NEW e \in Seq(Tactics), Missed(i, e)
  PROVE  \E j \in DOMAIN nodes : \E d \in Seq(Tactics) :
           /\ Missed(j, d)
           /\ Len(d) < Len(e) \/ (Len(d) = Len(e) /\ Len(nodes[j].path) < Len(nodes[i].path))
  <1>1. /\ Tried(nodes) /\ Meant(nodes)
        /\ \A k \in DOMAIN nodes :
             /\ nodes[k].path \in Seq(Tactics) /\ Len(nodes[k].path) \in Nat
             /\ nodes[k].signature \in States /\ nodes[k].terminal \in Reasons
    BY NodesNow DEF TreeSound
  <1>2. /\ nodes[i].response \in {"open", "failure", "complete"}
        /\ nodes[i].response = "open" => ~Complete(nodes[i].signature)
    BY DEF MctsInv, SearchInv, NodesTrue
  <1>3. nodes[i].signature # Fails
    BY ReachesAfterFailure DEF Missed, Complete
  <1>4. nodes[i].response = "open" /\ nodes[i].terminal # ""
    BY <1>1, <1>3 DEF Meant, Ended
  <1>5. e # <<>>
    <2> SUFFICES ASSUME e = <<>> PROVE FALSE
      OBVIOUS
    <2>1. Reaches(nodes[i].signature, e) = nodes[i].signature
      BY <1>1, ReachesNothing
    <2> QED
      BY <1>2, <1>4, <2>1 DEF Missed
  <1>6. Len(e) \in Nat /\ Len(e) > 0
    <2>1. Len(e) \in Nat /\ Len(e) # 0
      BY <1>5
    <2> QED
      BY <2>1
  <1>7. nodes[i].terminal # "max_depth"
    <2>1. nodes[i].terminal = "max_depth" => Len(nodes[i].path) >= MaxDepth
      BY <1>1 DEF Meant
    <2>2. Len(nodes[i].path) + Len(e) <= MaxDepth
      BY DEF Missed
    <2>3. Len(nodes[i].path) \in Nat
      BY <1>1
    <2> QED
      BY ONLY <1>6, <2>1, <2>2, <2>3, MaxDepthPositive
  <1>8. nodes[i].terminal # "lean_error"
    BY <1>1, <1>4 DEF Meant
  <1>9. CASE nodes[i].terminal = "cycle"
    <2>1. PICK j \in DOMAIN nodes : /\ Len(nodes[j].path) < Len(nodes[i].path)
                                    /\ nodes[j].signature = nodes[i].signature
      BY <1>1, <1>9 DEF Meant
    <2>2. Len(nodes[i].path) + Len(e) <= MaxDepth /\ Complete(Reaches(nodes[j].signature, e))
      BY <2>1 DEF Missed
    <2>3. Len(nodes[j].path) + Len(e) <= MaxDepth
      <3>1. Len(nodes[i].path) \in Nat /\ Len(nodes[j].path) \in Nat
        BY <1>1
      <3> QED
        BY ONLY <1>6, <2>1, <2>2, <3>1, MaxDepthPositive
    <2>4. Missed(j, e)
      BY <2>2, <2>3 DEF Missed
    <2> QED
      BY <2>1, <2>4
  <1>10. CASE nodes[i].terminal = "all_children_dead"
    <2> DEFINE t == Head(e)
               rest == Tail(e)
    <2>1. /\ t \in Tactics /\ rest \in Seq(Tactics) /\ Len(rest) = Len(e) - 1
          /\ Reaches(nodes[i].signature, e) = Reaches(After(nodes[i].signature, t), rest)
      BY <1>1, <1>5, ReachesFirst
    <2>2. Expanded(nodes[i]) /\ nodes[i].pending = <<>> /\ Barred(nodes, i)
      BY <1>1, <1>10 DEF Meant
    <2> HIDE DEF t, rest
    <2>3. t \in nodes[i].batch /\ t \notin ToSet(nodes[i].pending)
      BY <2>1, <2>2, NothingPending
    <2>4. PICK j \in DOMAIN nodes : ChildBy(nodes, i, t, j)
      BY <1>1, <2>3 DEF Tried
    <2>5. nodes[j].response # "complete"
      BY <1>1 DEF Meant, Ended
    <2>6. nodes[j].signature = After(nodes[i].signature, t)
      BY <1>4, <2>1, <2>4, <2>5, ChildLeads
    <2>7. Len(nodes[j].path) = Len(nodes[i].path) + 1
      BY <1>1, <2>1, <2>4, PathAppended DEF ChildBy
    <2>8. Len(nodes[i].path) + Len(e) <= MaxDepth /\ Complete(Reaches(nodes[j].signature, rest))
      BY <2>1, <2>6 DEF Missed
    <2>9. Len(nodes[j].path) + Len(rest) <= MaxDepth /\ Len(rest) < Len(e)
      <3>1. Len(nodes[i].path) \in Nat
        BY <1>1
      <3>2. Len(rest) = Len(e) - 1
        BY <2>1
      <3> QED
        BY ONLY <1>6, <2>7, <2>8, <3>1, <3>2, MaxDepthPositive
    <2>10. Missed(j, rest)
      BY <2>8, <2>9 DEF Missed
    <2> QED
      BY <2>1, <2>9, <2>10
  <1> QED
    BY <1>1, <1>4, <1>7, <1>8, <1>9, <1>10 DEF Reasons

\* So no node misses a proof: of those that did, one with the fewest tactics, and among
\* them one with the shortest path, would not.
LEMMA NothingMissed ==
  ASSUME MctsInv, Sure, problem \in Problems,
         \A k \in DOMAIN nodes : Ended(nodes[k]),
         \A k \in DOMAIN nodes : Expanded(nodes[k]) => nodes[k].batch = Tactics
  PROVE  \A i \in DOMAIN nodes : \A e \in Seq(Tactics) : ~Missed(i, e)
  <1> SUFFICES ASSUME NEW i \in DOMAIN nodes, NEW e \in Seq(Tactics), Missed(i, e) PROVE FALSE
    OBVIOUS
  <1> DEFINE S == {m \in Nat : \E j \in DOMAIN nodes : \E d \in Seq(Tactics) :
                                 Missed(j, d) /\ Len(d) = m}
  <1>1. Len(e) \in S
    OBVIOUS
  <1>2. S \subseteq Nat /\ S # {}
    BY <1>1
  <1>3. PICK least \in S : \A k \in S : least <= k
    BY <1>2, LeastNumber
  <1> DEFINE P == {m \in Nat : \E j \in DOMAIN nodes : \E d \in Seq(Tactics) :
                                 /\ Missed(j, d) /\ Len(d) = least
                                 /\ Len(nodes[j].path) = m}
  <1>4. \A j \in DOMAIN nodes : Len(nodes[j].path) \in Nat
    BY NodesNow
  <1>5. P \subseteq Nat /\ P # {}
    BY <1>3, <1>4
  <1>6. PICK short \in P : \A k \in P : short <= k
    BY <1>5, LeastNumber
  <1>7. PICK j \in DOMAIN nodes : \E d \in Seq(Tactics) :
          Missed(j, d) /\ Len(d) = least /\ Len(nodes[j].path) = short
    BY <1>6
  <1>8. PICK d \in Seq(Tactics) : Missed(j, d) /\ Len(d) = least /\ Len(nodes[j].path) = short
    BY <1>7
  <1>9. \A k \in DOMAIN nodes : \A c \in Seq(Tactics) : Missed(k, c) => least <= Len(c)
    BY <1>3
  <1>10. \A k \in DOMAIN nodes : \A c \in Seq(Tactics) :
           Missed(k, c) /\ Len(c) = least => short <= Len(nodes[k].path)
    BY <1>4, <1>6
  <1> HIDE DEF S, P
  <1>11. PICK k \in DOMAIN nodes : \E c \in Seq(Tactics) :
           /\ Missed(k, c)
           /\ Len(c) < Len(d) \/ (Len(c) = Len(d) /\ Len(nodes[k].path) < Len(nodes[j].path))
    BY <1>8, MissedElsewhere
  <1>12. PICK c \in Seq(Tactics) :
           /\ Missed(k, c)
           /\ Len(c) < Len(d) \/ (Len(c) = Len(d) /\ Len(nodes[k].path) < Len(nodes[j].path))
    BY <1>11
  <1>13. least <= Len(c) /\ (Len(c) = least => short <= Len(nodes[k].path))
    BY <1>9, <1>10, <1>12
  <1>14. Len(c) \in Nat /\ Len(d) \in Nat /\ Len(nodes[k].path) \in Nat /\ Len(nodes[j].path) \in Nat
    BY <1>4
  <1> QED
    BY ONLY <1>8, <1>12, <1>13, <1>14

\* A search that gave up its root had no proof to find: a node is given up for the
\* greatest depth, an error, goals met above, or because its children were, and none of
\* these hides a proof.
THEOREM GivenUpRight == MctsSpec => []GivenUpUnprovable
  <1>1. MctsInv => GivenUpUnprovable
    <2> SUFFICES ASSUME MctsInv, nodes # <<>>, Dead(1),
                        \A i \in DOMAIN nodes : nodes[i].expanded => nodes[i].batch = Tactics,
                        faults = 0, life = "up",
                        NEW d \in 1..MaxDepth, NEW path \in [1..d -> Tactics],
                        Complete(Reaches(TheoremState, path))
                 PROVE  FALSE
      BY DEF GivenUpUnprovable
    <2>1. Sure /\ problem \in Problems /\ Root(problem, PreambleOf[problem]) \in States
      <3>1. stop # "saved" /\ CallInv
        BY DEF MctsInv, CallsInv, CallInv
      <3>2. problem \in Problems /\ PreambleOf[problem] \in Preambles
        BY <3>1, GoalTyped
      <3>3. PreambleOf[problem] \in Behinds
        BY <3>2 DEF Behinds
      <3> QED
        BY <3>2, <3>3, RootTyped DEF Sure
    <2>2. 1 \in DOMAIN nodes
      <3>1. nodes \in Trees /\ DOMAIN nodes = 1..Len(nodes) /\ Len(nodes) \in Nat
        BY NodesNow
      <3>2. Len(nodes) # 0
        BY <3>1 DEF Trees
      <3> QED
        BY ONLY <3>1, <3>2
    <2>3. \A i \in DOMAIN nodes : Ended(nodes[i])
      BY <2>2, AllEnded, DeadIs
    <2>4. \A i \in DOMAIN nodes : Expanded(nodes[i]) => nodes[i].batch = Tactics
      BY NodesNow, ExpandedIs
    <2>5. nodes[1].path = <<>> /\ nodes[1].response \notin {"failure", "complete"}
      BY NodesNow DEF TreeSound, Rooted
    <2>6. nodes[1].signature = TheoremState
      <3>1. /\ nodes[1].response \in {"open", "failure", "complete"}
            /\ nodes[1].response = "open" => nodes[1].signature = GoalOf(problem, nodes[1].path)
        BY <2>1, <2>2 DEF MctsInv, SearchInv, NodesTrue
      <3>2. GoalOf(problem, <<>>) = Root(problem, PreambleOf[problem])
        BY <2>1, ReachesNothing DEF GoalOf
      <3>3. TheoremState = Root(problem, PreambleOf[problem])
        BY DEF TheoremState, Root
      <3> QED
        BY <2>5, <3>1, <3>2, <3>3
    <2>7. path \in Seq(Tactics) /\ Len(path) = d
      <3>1. d \in Nat
        BY MaxDepthPositive
      <3> QED
        BY <3>1
    <2>8. Len(nodes[1].path) + Len(path) <= MaxDepth
      <3>1. Len(nodes[1].path) = 0
        BY <2>5
      <3> QED
        BY <2>7, <3>1, MaxDepthPositive
    <2>9. Missed(1, path)
      BY <2>6, <2>8 DEF Missed
    <2> QED
      BY <2>1, <2>2, <2>3, <2>4, <2>7, <2>9, NothingMissed
  <1> QED
    BY <1>1, MctsSound, PTL
=============================================================================
