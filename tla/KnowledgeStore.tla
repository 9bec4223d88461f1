--------------------------- MODULE KnowledgeStore ---------------------------
(***************************************************************************)
(* What the provers learn, in an SQLite file: KnowledgeWriter              *)
(* (knowledge/writer.py) turns a proof attempt into operations of          *)
(* UnifiedKnowledgeStore (knowledge/store.py, proof_context_store.py).     *)
(*                                                                         *)
(* Each operation runs in a thread of its own.  Its SELECT ends before its *)
(* transaction begins, so other writers may come in between; what follows  *)
(* the SELECT is one transaction.  Cancelling a coroutine does not stop    *)
(* the thread that works for it.                                           *)
(***************************************************************************)
EXTENDS Integers, Sequences, FiniteSets, SequencesExt

CONSTANTS
  Writers,     \* coroutines, of any process that opened the file
  Keys,        \* tactics on goal patterns
  Goal,        \* the goal pattern of each
  Lemmas,      \* statement hashes
  NoLemma,     \* of a step that is no have-step
  Contexts,    \* rows of proof_contexts saved before (save)
  Attempts,    \* proof attempts, each under a context
  MinSamples,  \* observations before decay_all touches an entry: 3
  Few,         \* observations that protect a tactic from gc_stale: 5
  Fresh, Top,  \* levels of decay_factor: 1.0 and 2.0; gc_stale takes level 0
  MaxOps,      \* bounds of the model: operations begun,
  MaxUpkeep    \* runs of decay_all, gc_stale and delete

ASSUME KnowledgeAssumption ==
  /\ NoLemma \notin Lemmas
  /\ Attempts \subseteq
       [steps : Seq([key : Keys, env : BOOLEAN, error : BOOLEAN, have : Lemmas \cup {NoLemma}]),
        success : BOOLEAN, context : Contexts]
  /\ {MinSamples, Few, MaxOps, MaxUpkeep} \subseteq Nat
  /\ Fresh \in Nat \ {0} /\ Top \in Nat /\ Fresh <= Top

VARIABLES
  plan,     \* the operations each writer has still to do
  read,     \* the row the first of them has read
  source,   \* the trace the writer has recorded, 0 for none
  tactics,  \* tactic_effectiveness
  errors,   \* error_patterns: their frequencies
  lemmas,   \* proved_lemmas
  traces,   \* proof_traces, by id: those of deleted contexts, which have gone, included
  contexts, \* proof_contexts
  ops, upkeep, \* operations begun, runs of decay_all, gc_stale and delete
  ids,      \* rows of tactic_effectiveness made
  (* history *)
  told,     \* writes to each row of tactic_effectiveness
  raced,    \* keys written by one who had read an older row
  added     \* calls of add_lemma that succeeded

database == <<tactics, errors, lemmas, traces, contexts, ids, told, raced, added>>
knowledgeVars == <<plan, read, source, ops, upkeep, database>>

NoRow == [id |-> 0]
Unread == [id |-> -1]
Observations(row) == row.good + row.bad

\* The operations: of a tactic, an error, a lemma, a trace and maintenance.
Operation ==
  [do : {"trace"}, attempt : Attempts, safe : {FALSE}]
  \cup [do : {"tactic"}, key : Keys, ok : BOOLEAN, safe : BOOLEAN]
  \cup [do : {"error"}, key : Keys, safe : {FALSE}]
  \cup [do : {"lemma"}, lemma : Lemmas, safe : {TRUE}]
  \cup [do : {"reinforce"}, key : Keys, up : BOOLEAN, safe : {FALSE}]

KnowledgeTypeOK ==
  /\ plan \in [Writers -> Seq(Operation)]
  /\ \A w \in Writers : source[w] \in 0..Len(traces)
  /\ \A k \in Keys : tactics[k] # NoRow =>
       /\ tactics[k].id \in 1..ids /\ tactics[k].decay \in 0..Top
       /\ tactics[k].good \in Nat /\ tactics[k].bad \in Nat
  /\ errors \in [Keys -> Nat] /\ ops \in 0..MaxOps /\ upkeep \in 0..MaxUpkeep
  /\ \A l \in Lemmas : lemmas[l] # NoRow =>
       lemmas[l].cited \in Nat /\ lemmas[l].decay \in 0..Top /\ lemmas[l].stale \in BOOLEAN
  /\ \A i \in 1..Len(traces) : traces[i] \in Attempts
  /\ contexts \subseteq Contexts

KnowledgeInit ==
  /\ plan = [w \in Writers |-> <<>>] /\ read = [w \in Writers |-> Unread]
  /\ source = [w \in Writers |-> 0]
  /\ tactics = [k \in Keys |-> NoRow] /\ errors = [k \in Keys |-> 0]
  /\ lemmas = [l \in Lemmas |-> NoRow] /\ traces = <<>> /\ contexts = Contexts
  /\ ops = 0 /\ upkeep = 0 /\ ids = 0
  /\ told = [k \in Keys |-> [good |-> 0, bad |-> 0]]
  /\ raced = {} /\ added = [l \in Lemmas |-> 0]

-----------------------------------------------------------------------------
(* The writer: what it does one after the other.  An operation that fails   *)
(* ends the whole, unless its exception is caught (safe).                   *)

TraceOf(a) == [do |-> "trace", attempt |-> a, safe |-> FALSE]
\* A step may report an error and yet name an environment.
Ok(s) == s.env /\ ~s.error

TacticOf(s, safe) == [do |-> "tactic", key |-> s.key, ok |-> Ok(s), safe |-> safe]
ErrorOf(s) == [do |-> "error", key |-> s.key, safe |-> FALSE]
LemmaOf(s) == [do |-> "lemma", lemma |-> s.have, safe |-> TRUE]

\* ingest_step.  An error has a category.
StepPlan(s) == <<TacticOf(s, FALSE)>> \o (IF s.error THEN <<ErrorOf(s)>> ELSE <<>>)

\* _extract_lemmas_from_steps, of a successful attempt: have-steps with an environment,
\* an error or not.
LemmaPlan(a) ==
  IF a.success
  THEN FlattenSeq([i \in 1..Len(a.steps) |->
         IF a.steps[i].env /\ a.steps[i].have # NoLemma THEN <<LemmaOf(a.steps[i])>> ELSE <<>>])
  ELSE <<>>

\* _analyze_fix_patterns: a step that fails, and succeeds with the next tactic
FixPlan(a) ==
  FlattenSeq([i \in 1..Len(a.steps) - 1 |->
    LET s == a.steps[i]  next == a.steps[i + 1]
    IN IF s.error /\ Ok(next) /\ Goal[s.key] = Goal[next.key] THEN <<ErrorOf(s)>> ELSE <<>>])

\* Mutant: the lemmas are stored before the trace they come from.
LemmasFirst(a) ==
  LemmaPlan(a) \o <<TraceOf(a)>>
    \o FlattenSeq([i \in 1..Len(a.steps) |-> StepPlan(a.steps[i])]) \o FixPlan(a)

\* ingest_proof_result
ProofPlan(a) ==
  <<TraceOf(a)>> \o FlattenSeq([i \in 1..Len(a.steps) |-> StepPlan(a.steps[i])])
    \o LemmaPlan(a) \o FixPlan(a)

\* deposit_kimina_trace, of an accepted proof
DepositPlan(a) ==
  FlattenSeq([i \in 1..Len(a.steps) |->
    IF Ok(a.steps[i]) THEN <<TacticOf(a.steps[i], TRUE)>> ELSE <<>>])

Begin(w, p) ==
  /\ plan[w] = <<>> /\ p # <<>> /\ ops < MaxOps
  /\ plan' = [plan EXCEPT ![w] = p]
  /\ source' = [source EXCEPT ![w] = 0]
  /\ ops' = ops + 1
  /\ UNCHANGED <<read, upkeep, database>>

\* tactic_apply deposits single steps; the others hand over whole attempts.
Ingest(w) ==
  \E a \in Attempts : \/ \E i \in 1..Len(a.steps) : Begin(w, StepPlan(a.steps[i]))
                      \/ Begin(w, ProofPlan(a))
                      \/ Begin(w, DepositPlan(a))

-----------------------------------------------------------------------------
(* One operation: the SELECT, then the transaction.                         *)

Doing(w, do) == plan[w] # <<>> /\ Head(plan[w]).do = do
Ready(w, do) == Doing(w, do) /\ (read[w] # Unread \/ do = "trace")

Stored(op) ==
  CASE op.do \in {"tactic", "reinforce"} -> tactics[op.key]
    [] op.do = "lemma" -> lemmas[op.lemma]
    [] op.do = "error" -> [id |-> 0, frequency |-> errors[op.key]]

Select(w) ==
  /\ plan[w] # <<>> /\ read[w] = Unread /\ ~Doing(w, "trace")
  /\ read' = [read EXCEPT ![w] = Stored(Head(plan[w]))]
  /\ UNCHANGED <<plan, source, ops, upkeep, database>>

Done(w) ==
  /\ plan' = [plan EXCEPT ![w] = Tail(@)]
  /\ read' = [read EXCEPT ![w] = Unread]

\* The database is locked for too long, or a constraint is violated: UNIQUE, or FOREIGN
\* KEY by a trace whose context was deleted.
Fails(w) ==
  /\ plan[w] # <<>>
  /\ plan' = [plan EXCEPT ![w] = IF Head(@).safe THEN Tail(@) ELSE <<>>]
  /\ read' = [read EXCEPT ![w] = Unread]
  /\ UNCHANGED <<source, ops, upkeep, database>>

\* record_rich_trace
RecordTrace(w) ==
  /\ Ready(w, "trace") /\ Head(plan[w]).attempt.context \in contexts
  /\ traces' = Append(traces, Head(plan[w]).attempt)
  /\ source' = [source EXCEPT ![w] = Len(traces')]
  /\ Done(w)
  /\ UNCHANGED <<ops, upkeep, tactics, errors, lemmas, contexts, ids, told, raced, added>>

One(condition) == IF condition THEN 1 ELSE 0

\* Mutant: the row is looked for by its key, which is not the row that was read.
RowByKey(k, row) == tactics[k] # NoRow

\* The row that was read is still there.
RowStays(k, row) == tactics[k].id = row.id

\* upsert_tactic_effectiveness.  An update writes the counts it computed from the row
\* it read; it changes nothing if that row is gone.
UpsertTactic(w) ==
  /\ Ready(w, "tactic")
  /\ LET k == Head(plan[w]).key
         good == One(Head(plan[w]).ok)
         row == read[w]
         written(id, g, b) == [id |-> id, good |-> g, bad |-> b, decay |-> Fresh]
     IN \/ /\ row # NoRow
           /\ IF RowStays(k, row)
              THEN /\ tactics' = [tactics EXCEPT
                        ![k] = written(@.id, row.good + good, row.bad + 1 - good)]
                   /\ told' = [told EXCEPT ![k] = [good |-> @.good + good,
                                                   bad |-> @.bad + 1 - good]]
                   /\ raced' = IF <<tactics[k].good, tactics[k].bad>> # <<row.good, row.bad>>
                               THEN raced \cup {k} ELSE raced
              ELSE UNCHANGED <<tactics, told, raced>>
           /\ UNCHANGED ids
        \/ /\ row = NoRow /\ tactics[k] = NoRow
           /\ ids' = ids + 1
           /\ tactics' = [tactics EXCEPT ![k] = written(ids', good, 1 - good)]
           /\ told' = [told EXCEPT ![k] = [good |-> good, bad |-> 1 - good]]
           /\ raced' = raced \ {k}
  /\ Done(w)
  /\ UNCHANGED <<source, ops, upkeep, errors, lemmas, traces, contexts, added>>

\* upsert_error_pattern
UpsertError(w) ==
  /\ Ready(w, "error")
  /\ LET k == Head(plan[w]).key
     IN /\ read[w].frequency > 0 \/ errors[k] = 0
        /\ errors' = [errors EXCEPT ![k] = read[w].frequency + 1]
  /\ Done(w)
  /\ UNCHANGED <<source, ops, upkeep, tactics, lemmas, traces, contexts, ids, told, raced, added>>

\* Mutant: the citations are computed from the row that was read.
CitedAsRead(l, row) == row.cited + 1

\* times_cited = times_cited + 1
Cited(l, row) == lemmas[l].cited + 1

\* add_lemma, with its entry in the changelog.
AddLemma(w) ==
  /\ Ready(w, "lemma")
  /\ LET l == Head(plan[w]).lemma
     IN /\ lemmas' = [lemmas EXCEPT ![l] =
              IF read[w] # NoRow
              THEN [@ EXCEPT !.cited = Cited(l, read[w]), !.decay = Fresh]
              ELSE [id |-> 1, cited |-> 0, decay |-> Fresh, stale |-> FALSE,
                    from |-> source[w]]]
        /\ read[w] # NoRow \/ lemmas[l] = NoRow
        /\ added' = [added EXCEPT ![l] = @ + 1]
  /\ Done(w)
  /\ UNCHANGED <<source, ops, upkeep, tactics, errors, traces, contexts, ids, told, raced>>

-----------------------------------------------------------------------------
(* Maintenance.                                                             *)

\* reinforce, of a tactic: the new factor is computed from the one that was read.
Reward(w, k, up) == Begin(w, <<[do |-> "reinforce", key |-> k, up |-> up, safe |-> FALSE]>>)

Reinforce(w) ==
  /\ Ready(w, "reinforce")
  /\ LET k == Head(plan[w]).key
         level == read[w].decay + (IF Head(plan[w]).up THEN 1 ELSE -1)
     IN tactics' = IF read[w] # NoRow /\ tactics[k].id = read[w].id
                   THEN [tactics EXCEPT ![k] = [@ EXCEPT !.decay =
                           IF level > Top THEN Top ELSE IF level < 0 THEN 0 ELSE level]]
                   ELSE tactics
  /\ Done(w)
  /\ UNCHANGED <<source, ops, upkeep, errors, lemmas, traces, contexts, ids, told, raced, added>>

Lower(row) == IF row.decay > 0 THEN [row EXCEPT !.decay = @ - 1] ELSE row

DecayAll ==
  /\ upkeep < MaxUpkeep /\ upkeep' = upkeep + 1
  /\ tactics' = [k \in Keys |->
       IF tactics[k] # NoRow /\ Observations(tactics[k]) >= MinSamples
       THEN Lower(tactics[k]) ELSE tactics[k]]
  /\ lemmas' = [l \in Lemmas |->
       IF lemmas[l] # NoRow /\ lemmas[l].cited >= MinSamples
       THEN Lower(lemmas[l]) ELSE lemmas[l]]
  /\ UNCHANGED <<plan, read, source, ops, errors, traces, contexts, ids, told, raced, added>>

GcStale ==
  /\ upkeep < MaxUpkeep /\ upkeep' = upkeep + 1
  /\ tactics' = [k \in Keys |->
       IF tactics[k] # NoRow /\ tactics[k].decay = 0 /\ Observations(tactics[k]) < Few
       THEN NoRow ELSE tactics[k]]
  /\ lemmas' = [l \in Lemmas |->
       IF lemmas[l] # NoRow /\ lemmas[l].decay = 0
       THEN [lemmas[l] EXCEPT !.stale = TRUE] ELSE lemmas[l]]
  /\ UNCHANGED <<plan, read, source, ops, errors, traces, contexts, ids, told, raced, added>>

\* delete: the traces of the context go with it (ON DELETE CASCADE), the lemmas that name
\* them stay, and no id is used again.
DeleteContext(c) ==
  /\ upkeep < MaxUpkeep /\ upkeep' = upkeep + 1
  /\ c \in contexts /\ contexts' = contexts \ {c}
  /\ UNCHANGED <<plan, read, source, ops, tactics, errors, lemmas, traces, ids, told, raced,
                 added>>

-----------------------------------------------------------------------------
(* Cancellation (the tool's time limit) and the end of a process.           *)

Cancelled(w) ==
  /\ Len(plan[w]) > 1
  /\ plan' = [plan EXCEPT ![w] = <<Head(@)>>]
  /\ UNCHANGED <<read, source, ops, upkeep, database>>

Crashes(w) ==
  /\ plan[w] # <<>>
  /\ plan' = [plan EXCEPT ![w] = <<>>]
  /\ read' = [read EXCEPT ![w] = Unread]
  /\ UNCHANGED <<source, ops, upkeep, database>>

KnowledgeNext ==
  \/ DecayAll \/ GcStale \/ \E c \in Contexts : DeleteContext(c)
  \/ \E w \in Writers :
       \/ Ingest(w) \/ \E k \in Keys, up \in BOOLEAN : Reward(w, k, up)
       \/ Select(w) \/ Fails(w) \/ Cancelled(w) \/ Crashes(w)
       \/ RecordTrace(w) \/ UpsertTactic(w) \/ UpsertError(w) \/ AddLemma(w) \/ Reinforce(w)

-----------------------------------------------------------------------------
(* Properties.                                                              *)

\* A tactic is never credited with more successes or failures than were recorded since
\* its row was made, and with exactly those unless a writer overwrote what another had
\* written after its SELECT; not by a failure, a crash, a cancellation or a row removed
\* and made again in between (knowledge/store.py, _upsert_te_sync and _gc_stale_sync).
CountsBounded ==
  \A k \in Keys : tactics[k] # NoRow =>
    LET row == tactics[k] IN
    /\ row.good <= told[k].good /\ row.bad <= told[k].bad
    /\ k \notin raced => row.good = told[k].good /\ row.bad = told[k].bad

\* Every call of add_lemma that returns is counted, however the calls overlap: the
\* first makes the lemma, each other one cites it (knowledge/store.py,
\* _add_lemma_sync).
CitationsExact ==
  \A l \in Lemmas : IF lemmas[l] = NoRow THEN added[l] = 0
                    ELSE lemmas[l].cited = added[l] - 1

\* The counts agree with what was recorded: of tactics up to a race, of lemmas always.
CountsAgree == CountsBounded /\ CitationsExact

\* A successful attempt with a have-step for l that reached an environment.
Proves(a, l) ==
  a.success /\ \E i \in 1..Len(a.steps) : a.steps[i].env /\ a.steps[i].have = l

\* A lemma names the trace that was recorded of a successful attempt with a have-step for
\* it, wherever the writer was interrupted, never none and never another's.  The step may
\* have reported an error, and the trace's row is gone once its context is deleted
\* (knowledge/writer.py, ingest_proof_result and _extract_lemmas_from_steps).
LemmaHasTrace ==
  /\ KnowledgeTypeOK
  /\ \A l \in Lemmas : lemmas[l] # NoRow =>
       /\ lemmas[l].from \in 1..Len(traces)
       /\ Proves(traces[lemmas[l].from], l)
=============================================================================
